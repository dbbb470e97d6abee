# A formal model of Talabak

Talabak is a bilingual retail assistant. It answers questions from the store's own tables,
looks up the orders of the authenticated customer, and records a return, an exchange or an
appointment only after the customer confirmed exactly that action in the next message. This
directory holds TLA+ models of the code that has to get this right, the TLC runs that check
them and the TLAPS proofs about them. `PROJECT.json` is the index: components, runs, what each
definition models, hazards, findings, theorems.

## 1. The system

| Component | Source | State it keeps | Operations |
|---|---|---|---|
| Store | `talabak/domain.py` | SQLite tables orders, products, slots, actions, meta; a re-entrant lock per `Store` | `create_return_or_exchange`, `book_store_appointment`, `handoff_to_support`, `lookup_order`, `lookup_catalog`, `fingerprint`, `action_fingerprint` |
| Session | `talabak/domain.py` | turn, pending, confirmed_digest, last_request, terminal, language | `begin_turn`, `authorize` |
| Application | `talabak/pipeline.py` | exact cache, semantic cache; per message a Result, the tool-loop counters | `handle_message` and its stages: input guard, route and extract, tools, output guard, deliver, audit |
| SemanticCache | `talabak/cache.py` | the last 128 rows (text, scope, value) | `put`, `get` |
| SDKClient | `talabak/llm.py` | one HTTP client for each route; call counter, three money totals, stop flag, event log, under one lock | `preflight_config`, construction, `complete`, `budget_status`, `close` |
| Guards, schemas | `talabak/guards.py`, `talabak/schemas.py` | none | pure functions of text and declarative models |
| Mock gateway | `talabak/mock_gateway.py` | injected fault, prefix cache, statistics, under one lock | chat completions, fault, reset, stats |
| Live evaluation | `scripts/live_evaluate.py` | a run directory: answers of two routes, wire events, a manifest with hashes | `preflight`, `run_live_comparison` |
| Review and calibration | `scripts/prepare_review.py`, `calibrate.py` | a review directory: items, rubric, binding, judge's predictions, log and manifest, calibration | `prepare_review`, `judge_review`, `score_review`, each a process of its own |
| Evaluation | `scripts/evaluate.py` | none | `dataset_audit`, `check_case`, `evaluate`, `summarize`, `regression_gate` |
| Benchmarks, break-even | `scripts/cache_benchmark.py`, `live_benchmark.py`, `breakeven.py` | the caches and stores of a replay; `load/requests.json`, `load/measurement.json`, a comparison's artifacts | `measure_cache`, `run_cache_benchmark`, `measure_self_host`, `build_breakeven_input`, `compute_breakeven` |
| Demonstration runner | `scripts/run_all.py` | a gateway and its fault | the fault drills, then the parts above in a fixed order |
| Context budget, notebook | `scripts/context_budget.py`, `build_notebook.py` | none | count, write |

`handle_message` calls the Store directly and the model through `SDKClient.complete`, which talks
HTTP to a provider or to the mock gateway. Several conversations may share one Store (and then
its connection and lock), and several Stores, in one process or many, may be open on one file.
The evaluation scripts use one SDKClient from several threads. Sessions and caches are in memory
only; the tables are on disk. Live evaluation asks the same cases of two routes of one client; its
run is the input of a review, whose answers people and a judge model label; the agreement of the
two decides whether the judge counts as calibrated. The same run and a load test of a self-hosted model
are the inputs of the break-even. Every live program makes its client of one configuration file, of which
it selects its own routes.

### What is hard

- Two customers compete for the last item or the last place of a slot, through one connection or
  two, and any statement of a transaction may raise, or the process stop, between any two of them.
- Between the review a customer reads and the confirmation lies a whole message exchange, in which
  the tables change under it and the conversation may take another turn. The same holds, inside a
  message, between taking a cache key, asking the model, reading the tables and storing the answer.
- A message may end in nine ways, at twelve stages; each way out must leave a session in which
  nothing is confirmable except what the customer was shown.
- Threads reserve, release and settle money against one cap while their requests are in flight;
  a request may be rejected, lost, answered without usage, or never leave the process.
- Evidence passes through three processes that may stop between two files, and people may edit any
  file in between. Each must notice that, and must not call partial, injected or mixed answers complete.
- The simulator's fault, prefix cache and statistics are shared by every client and by two
  administrative handlers that run in other threads, between the sections of a completion.
- A configuration combines modes, capabilities, secrets, tariffs and fallbacks; what it promises is
  found out when the first paid request is made, unless the readiness check finds it out before.
- A cached answer carries no lookups, an average no slices, and a cost no retries: each may pass for
  more than it is. The files behind a break-even are read one after another while they may change.

### What makes each part correct

- *Store*: the committed tables agree with each other and change by whole legal actions only;
  writes happen only for what was shown, with the records as they were shown; calls return.
- *Application*: what is confirmable is what was shown; what is recorded was confirmed and is
  reported; caches serve current answers, only to whom they belong; every message ends.
- *SDKClient*: the cap and the call budget hold; the money held is what the log says; routes are
  used in order; a paid response ends its call; an unknown price stops the budget; calls end.
- *Live evaluation and review*: a run called complete is all there is; a sample is balanced; evidence is
  not written over; the judge stays within its calls; "CALIBRATED" rests on unchanged, live, fully
  labelled answers.
- *Gateway and drills*: statistics add up; cached input is a prefix the same model saw within its lifetime;
  answers rest on tool results of their own conversation; the drills pass whenever nobody interferes.
- *Configuration*: what is called ready can be served in every stage; only selected secrets are read.
- *Measurements*: a cached answer is credited when earned; the gate sees every slice; a computed
  break-even rests on matched, complete evidence, and is the least volume it claims to be.

## 2. The modules

```
Domain            tables, checks, effects: operators on a database value
  Ledger          abstract: one legal action at a time
  Store           sessions, connections, transactions, statement by statement
    MCStore       instances for TLC        StoreProofs        theorems (with DomainProofs)
  Application     handle_message, both caches, other Stores, edits by hand
    MCApplication                          ApplicationProofs  theorems (with DomainProofs)
SDKClient         threads, routes, budget
    MCSDKClient                            SDKClientProofs
LiveRun           run_live_comparison
  Review          prepare_review, judge_review, score_review, edits by hand
    MCReview                               ReviewProofs
Gateway           the simulator: faults, prefix cache, statistics, decisions
  FaultDrills     the drills of run_all, other clients, administrators, time
    MCFaultDrills                          FaultDrillsProofs
Configuration     readiness, selection, boundary check, construction, requests
Evaluation        cases, rows, summaries, the regression gate
  Replays         the cache experiments, on the simulator and live
Economics         load test, build_breakeven_input, break-even
  Measurement     Configuration, then Replays or Economics, by the program
    MCMeasurement                          MeasurementProofs
Counting          lemmas: positions, ranks and sums over finite sets
```

**Domain.** A database is a record of `stock`, `booked`, the set of `actions` and `revision`.
`Verdict` is the sequence of checks of the two tools, `Effect` what a recorded action changes,
`action_fingerprint` the records a confirmation is bound to. An idempotency key is a digest of the
row, so two rows have one key exactly when they are equal and the table is a set. A digest is
represented by the value digested. An identifier without a row behaves like one the caller may not
use, so it has no value of its own; the delivery date and condition of an order and the date of a
slot do not change, and are the constants `Eligible` and `FutureSlots`. A handed-off session, a visitor
and `can_act = False` are all there.

**Ledger** is what the Store promises: `Register(c, a)`, guarded by `Verdict`, changing the tables by
`Effect`.

**Store** is the code of `domain.py`, one action for each SQL statement that matters: `EnterStore` (the
`serialized` decorator and the first `authorize`), `BeginImmediate`, `CheckRequest`,
`propose_or_confirm`, `UpdateSlot`, `persist`, `UpdateStock`, `Commit`. `txn` is the connection that holds
SQLite's write lock and `work` the tables as it sees them; `Fail` is any statement raising (`with
self.db` rolls back, `handle_message` forgets the proposal), `Crash` the end of a process. `begin_turn`
takes every message; whether it confirms, and which action the model then asks for, is any choice.
In particular a tool call may have any arguments, so nothing is assumed about the router.

**Application** is `handle_message`, one action for each stage that asks the model or reads the tables.
A tool call is one step here, since Store shows that it has the appearance of Ledger's. `OtherStore` and
`Edit` change the tables between any two stages. What the model answers is a choice; what the regular
expressions of the guards say of a text or an action is a constant. `Repair` is an answer that does not
validate, `Raise` every exception (which all take the same branch), `AuditFails` the exception that
escapes: the audit file is written outside the try statement, so a failure there leaves the caller
without a Result. The reply is then `"lost"`, and the properties about what the customer read speak of
the other messages. `Session.last_request` is the request of the message under way and is kept inside the proposal.
A confirmation word is never cached, and texts that look like actions are not used as
questions; `SemanticCache.put` would ignore them.

**SDKClient** is `complete` run by several threads. `reserve`, the three releases and `settle` are the critical
sections under the client's lock; between them lie the exchange (`Respond`, `StatusError`, `Unanswered`,
`GuardRejects`, `OtherError`) and the log. `events` holds one record for each attempt; the entries about skipped
routes, which are no attempts, are left out. Money is in whole units. A request fixes its chain, the
routes that can serve its shape and those whose input allowance it exceeds.

**LiveRun** is `run_live_comparison`: `EvaluateCase` is one iteration of its inner loop, `CloseAlias` the writing of
a route's files, `Report`, `Error` and `Killed` its three ends. What a case does to the client is an outcome
drawn from `Finals`, with at most one retry before it; Application and SDKClient are not instantiated here.
`RunStatus` and `live_model_evidence` are the code's verdict, from the same parts with the same names.

**Review** has one review directory and adds the three commands to LiveRun. A step is the writing of a file,
so that `Stop` may fall between any two (the rubric and the items are one step, since nothing reads the one
without the other). A hash is the content it was taken of: a file is intact when it equals what the manifest
carries. `job` is the command at work; score_review is one step and may fall between those of a judge.
`EditRun`, `EditManifest` and `EditReview` are a person with an editor, at most `MaxEdits` times, while no command is at
work. A manifest is edited only once a review is bound to it: before that nothing could tell.

**Gateway** is `mock_gateway.py`. A completion runs on the event loop, one at a time, in the sections between
which the module's lock is free: it is counted (`complete`), meets a fault or not (`_fault_for`), is decided
(`Decide`) and metered (`_usage`). `fault` and `reset_state` are the administrative handlers and may fall between any
two of them. `_extract`, `_workflow` and `_judge_contract` are the scripted decisions, over what their
regular expressions find in a text. A prefix has a number of tokens, the rest of a request and every answer one.

**FaultDrills** composes it with the script of `fault_drills` and with what SDKClient does with a status: `retry` is the
loop of `complete` without the budget (SDKClient has that), `answered` the repair loop of `_structured`.
`Arrive` is any other client, `Admin` anybody who resets or injects, `Pass` the clock. `disturbed` is a history variable: somebody
else, or the end of its lifetime, had a hand in the fault under way.

**Configuration** follows a configuration to a client. Mappings keep their keys, so a missing one is a
missing one; an URL is its scheme and whether its host is the loopback, a tariff what the code tells
about it. `preflight` is the readiness check of the comparison, `comparison_config` and `benchmark_config` what the
programs select, `preflight_config` the boundary check, and `make` one turn of the loop of
`SDKClient.__init__`, whose secret may be missing. `Asked` is what the stages of Application ask with,
`_kwargs` (which is `Unsupported` without a capability) and `fold_developer_messages` the request SDKClient makes of it. run_all gives its file as it is and may not use live routes.

**Evaluation** holds the pure parts of `evaluate.py`: a row fails the checks it fails, a rate is a numerator and a
denominator, the margin a whole percentage.

**Replays** is `measure_cache` (`live`) and `run_cache_benchmark`: `calibrate` chooses the threshold on the development pairs,
`event` replays one case of the frozen workload through a session's application with the caches of the phase,
`evaluate` runs the golden set in fresh applications, `end_phase` gives the phase its verdict. How a
conversation without a cache hit ends is any of `Conversations`, which has misrouted, failed and handed-over ones. The exact tier
answers before any model is asked; the second comes after the classifier of `input_guard`, which may block the message or
fail, and such a row replaces the origin of its case.

**Economics** is the load test (`save_requests`, `save_measurement`: the rows are saved and hashed before the report) and
`build_breakeven_input`, one step for each time it hashes or reads a file: the load test's rows are hashed, read and hashed again,
those of a route too, its summary hashed and read. `measurement.json` and the manifest are read once, in the first step. Between any
two steps a load test may be run again, and `Replace` is a person writing over the rows or the summary of a route;
`overwritten` is a history variable, the files written since the build began. A hash is the content it was taken of, and nobody
puts back what was there before. `billed` is what an attempt cost in
truth, which the code never sees. What a comparison is is a constant, so what the code may rely on is an assumption about
it, `ManifestsAssumption`: a live comparison that is complete and no pilot has a row for each case of its traffic, in order
(what `CompleteMeansEverything` says of LiveRun), and an attempt that neither failed nor was repeated was billed what the
provider reported, in the rows that come in their place too. Other manifests, and all other rows, are unrestricted. Costs are whole
units, so the rounding of `compare_route` near whole numbers is exact here.

**Measurement** is the programs together: a client first, then the experiment the kind of program names.

Each slip a property is tested with is an operator next to the definition it replaces (its name is the
definition's with a suffix), with a comment saying what mistake it stands for.

## 3. The runs

Every run explores its instance completely. `CHECK_DEADLOCK FALSE` is set in all of them because a
conversation ends after its `MaxTurns` messages and a thread after `MaxRequests` calls, which are the bounds of the
model.

| Run | Instance | Shows |
|---|---|---|
| `MCStoreSeparate` | two customers, one Store each, one item left, a slot with two places, 3 messages each | `StoreConsistent`, `ExecutesWhatWasShown`, `ConstraintsNeverFire`, `UnrelatedCommitKeepsProposal`, and that Store implements Ledger (`LedgerSpec`, of `INSTANCE Ledger WITH db <- db`) |
| `MCStoreLive` | a customer and a visitor on one Store, a second conversation of the customer on another | `CallsReturn`: the visitor waits for the lock, whose holder waits for SQLite's write lock; `AuthorityRequired`, `TransactionsExclude`, `ReceiptIsDurable` |
| `MCApplicationTurns` | one conversation, 3 messages, every kind of request, a review and a result the guard refuses, two competing actions, an edit, the exact tier | `ConfirmableIsShown`, `ReceiptForEveryWrite`, `WritesWhatWasConfirmed`, `CacheIsCurrent` |
| `MCApplicationSemantic` | two customers, the owner of an order sends 2 messages and the other 1, both tiers, two texts similar to each other | `OrdersStayPrivate`, `CachesHoldAnswers` |
| `MCApplicationLive` | one conversation, 2 messages, every kind of request, 2 rounds, 2 tool calls | `MessageEnds` |
| `MCSDKClientBudget` | two threads, two routes and a misdirected one, two attempts, reservation 2, prices 1 to 3, cap 5, 4 calls allowed | `CapHolds`, `CallsCounted`, `HeldReconciles`, `FallbackInOrder`, `ResponseEndsCall`, `StopIsFinal`, `CallsEnd` |
| `MCReviewRuns` | three cases in two strata, two models, 4 calls, every outcome of a model call, a review of 2 answers | `CompleteMeansEverything`, `SelectionBalanced` |
| `MCReviewJudge` | one case on two routes, two answers, a review of both, two models, two labels, a judge with 3 calls, two attempts for each and one call made before, one edit | `JudgeWithinCap`, `EvidenceKept`, `CalibratedIsEarned` |
| `MCFaultDrills` | the four drills, two models with two attempts each, one foreign request of ten kinds, one administrative call of five, one unit of time, which is also the lifetime of faults and prefixes | `StatsReconcile`, `HitsAreWarm`, `AnswersAreGrounded`, `DrillsPass` |
| `MCMeasurement` | some eight hundred configurations, each complete but for one or two places; seven cases of six intents, two of which mean the same, a workload of three sent twice; two load tests at any time, two versions of the cases, attempts with every kind of bill, the rows and the summaries of one comparison replaced at any time | `ReadyMeansServed`, `OnlySelectedSecrets`, `CreditIsEarned`, `GateSeesEverySlice`, `ComputedIsMatched`, `ProjectedCostIsComplete`, `BreakEvenIsExact` |

Why these bounds are enough to be interesting: an action takes two messages, so three let a
proposal be confirmed, superseded, or confirmed late, and let an answer be cached and served; two
sessions are what a race needs, and a stock of one or a capacity of one what makes it matter; with a
cap of 5, two reservations of 2 fit and a third does not, and prices from 1 to 3 settle below, at and
above the reservation; 4 calls for six questions make some runs partial and let those complete that answer a
question without a model; three cases in two strata are the fewest whose first two answers are not a balanced
sample; two answers with different labels are the fewest pairs whose kappa is defined; 3 calls are enough for
two items unless the first is retried; one foreign request, one administrative call and one tick are what it takes to use a
drill's fault up, replace it, or let it expire, in any section; a workload sent twice hits the caches (four
repetitions only hit them again, and far from the limit of 128 rows); seven cases with one in each stratum make every slice
one a single failure takes below the margin; two load tests are what a report and its rows need to be
of different ones, and a second content for each file what it takes to tell what was hashed from what was read (one of the comparisons can
be replaced; the others are there for their costs). The two review runs use the symmetry of model and answer names. The theorems of section 5 have no such bounds.

Two runs have `expect: violation`. Each checks one sentence of the repository's own text, and TLC
finds the code disagreeing with it; `PROJECT.json` "findings" quotes the sentences.

- `MCSDKClientWire`: attempts do not have unique numbers. A request stopped by the endpoint guard gives
  back the *last* number while another thread holds it.
- `MCApplicationStale`: the second tier takes its scope after the tables were read. A commit in between
  files the old answer under the new tables.

`CacheIsCurrent`, the same property of the exact tier, does hold as long as the tables never return to an
earlier content: its key is taken *before* the tables are read, so an answer may be filed under tables that are
gone, and is then never served. Actions are only added, so commits cannot bring such tables back; only an edit
by hand that is undone again could, and the instance has none.

`ComputedIsMatched` does not say that the rows a break-even is computed of are the comparison's. They are compared by their
hash (`live_benchmark.py:342`) and then read again (344), so rows that come in their place in between are computed with,
whatever "unmodified" at line 296 suggests. What holds is that the hash taken last (355) is then not the manifest's, and the
result carries it; it takes somebody with a text editor at the right moment, so it is no finding here.

## 4. Fairness

*Store.* Weak fairness of `EnterStore` and of a session's next statement. A statement returns or raises.
`BEGIN IMMEDIATE` may wait for another connection, but only for sqlite3's busy timeout, so failing is fair while the
write lock is taken. Weak fairness of `EnterStore` is enough although the lock may be taken by others: a
conversation has finitely many messages. Nothing is assumed of customers, models, failures or crashes.

*Application.* Weak fairness of a message's next stage: `handle_message` is one call, each of whose stages
returns or raises. That it ends in spite of the model's choices comes from the counters of attempts,
rounds and calls.

*SDKClient.* Weak fairness of a thread's next step: exchanges are limited by `timeout_s`, delays by
`max_delay_s`, and the lock is held for arithmetic only.

*Review, drills, measurements.* None: their properties are about safety, and a command may stop anywhere.

## 5. What is proved

Every safety property of the passing runs is a theorem too. The theorems hold for
every value of the constants that satisfies the assumptions named in the modules: any number of customers, orders,
sessions, connections, threads, routes, cases and answers, and no bound on messages, calls, time, edits or files beyond the
bounds of the model being some numbers. TLC evaluates every assumption on the instances. They say what the code or its
environment makes sure of:

- `DomainAssumption`, `StoreAssumption`, `SDKClientAssumption`, `LiveRunAssumption`, `ReviewAssumption`, `GatewayAssumption`,
  `EvaluationAssumption`, `EconomicsAssumption`: the types of parameters, finite sets of customers, threads and cases, limits that are positive.
- `ApplicationAssumption`: a request parsed as an action has the arguments of one, and the word of confirmation is no injection.
- `PayloadsAssumption`: messages of other clients are sequences of tool turns, as the gateway's own parsing requires.
- `FaultDrillsAssumption`: a chain has a second route other than its first; the two texts of the drills are what they are
  written to be (a question, and a request with an order number).
- `ConfigurationAssumption`: a configuration has routes and fallbacks, and None is neither a Boolean nor a name. `ReplaysAssumption`: the workload consists of one-message
  cases of the golden set, as `freeze_workload` takes them, and a verdict is not None.
- `ManifestsAssumption`: see Economics, section 2.

**Counting** has the lemmas several of the proofs need: a set of positions has a first and a last, a one-to-one ranking takes
every rank, and a sum changes by what one summand changes. The prover cannot instantiate the library's induction theorems, so
they are proved by least counterexample: strict inclusion is well-founded on the subsets of a finite set
(`Smallest`), so a family of bad subsets would have one without a bad part. That the fold behind `SumFunction` has a value
at all is shown in the same way (`SolutionExists`).

**DomainProofs.** `EffectConsistent`: an action whose `Verdict` is "go" takes consistent tables to consistent
tables. It counts: stock plus exchanges is the initial stock, `booked` is the number of bookings, and adding a
row that is new (`EffectIsNew`) adds one to exactly one of the counts. `action_fingerprint` and `Effect` are
related to the fields they touch by `EffectFields` and `InsertFields`.

**StoreProofs.** None of the properties is inductive alone. `IInv` adds to types and `TransactionsExclude`:

- `CallInv`: a call has well-formed arguments, in a session that is open and, past its entry, has authority;
- `ConfirmInv`: a confirmation in force is the waiting proposal's, made one message earlier, and past
  `propose_or_confirm` it is the digest of the committed tables;
- `WorkInv`: at each statement, `work` is the committed database plus exactly that part of one legal action's
  effect that has been written so far.

`WorkInv` needs `TransactionsExclude` (nobody else commits while a transaction is open, so the verdict computed at its
start still holds at its end), and both refinement and `ConstraintsNeverFire` follow from it. `StoreImplementsLedger`
shows that only `Commit` changes `db`, and that it is then a `Register` step or a stutter; `StoreIsConsistent`
follows from the refinement and `EffectConsistent`. `StoreReceiptIsDurable` needs that rows are only ever added;
`StoreUnrelatedCommitKeepsProposal` is about the fields an effect and a fingerprint share.

**ApplicationProofs.** Four invariants, each about the stage a session's message has reached, in layers:

- `TypeInv`: types, and what was asked at this stage (a request is one of the model's, in an open session);
- `KnowInv`: what a reply or a cached row says of an order comes from a session of its owner. A row of the exact tier has the
  customer in its key and the second tier has none that is about an order, hence `OrdersStayPrivate` and `CachesHoldAnswers`;
- `StageInv`: a proposal that waits was made in this message and is in its reply, or was shown by the one before. A
  side effect ends in four ways (`Refused`, `Withheld`, `Proposed`, `Executed`; lemma `SideEffect`), and a later stage either
  shows what was proposed or forgets it. `ConfirmableIsShown`, `ReceiptForEveryWrite` and the action property
  `WritesWhatWasConfirmed` follow;
- `FreshInv`: a row of the exact tier tells what the tables have, unless they have changed since its key was taken. It needs that tables never
  return to an earlier content, which holds of actions (`EffectIsNew`) and not of edits by hand.

`ApplicationCacheIsCurrent`, `ApplicationImplementsLedger` and `ApplicationIsConsistent` therefore assume `Edits = {}`; the last two are
false with edits, and the first with an edit that is undone again. `MCApplicationTurns` checks `CacheIsCurrent` with an edit that is not.

**SDKClientProofs.** `IInv` has, besides types and the properties themselves, `PlaceInv` (where a call under way
is in its chain), `LogInv` (the log has at most one entry for each attempt, none yet for one in flight) and
`StopInv` (a response of unknown price has stopped the budget). `CallsCounted` is a statement about cardinalities:
each step moves a thread between "in flight" and "logged", or both in and out of the count.
`ClientStopIsFinal` is an action property from the same invariant. `HopInv` adds, for `FallbackInOrder`, that a call
under way has behind it a full set of retryable failures of every route before its own. `HeldReconciles` is about two sums that
change together: at each step a thread's share of what is reserved, or an entry's share of what was charged, takes the other's place.

**ReviewProofs.** First the sample: `SelectedIsBalanced` says of *any* sequence of answers that the sorted order
of `select` is a strict total order, that its first `limit` members are as many as the limit allows, and that no stratum is two behind another
while it has any left. Then `IInv`: `RunInv` (rows, calls and errors of a route agree), `VerdictInv` (what a manifest's
verdict stands for, and which edits there must have been otherwise), `BoundInv` and `FilesInv` (a review's files are made of the run it is bound to,
in order), `JudgeInv` (predictions so far and calls left) and `SignedInv` (what a judge's manifest was signed over). A file that
differs was edited: so `EvidenceKept` and `CalibratedIsEarned` are action properties, each about a step of `score_review` or of a person.

**FaultDrillsProofs.** `IInv` is about the simulator: `StatsInv` (the counters are what has been served, less the completions that
a reset fell into), `CacheInv` (a prefix in the cache was sent by the same model, at the time noted), `ServingInv` (a completion
under way and the facts behind its answer). `DInv` is about the drills: while nobody interferes, the fault under way is `Armed`
exactly as its drill needs it, and `ProgressInv` counts how many of its attempts are used up on which route; hence no drill fails undisturbed.

**MeasurementProofs.** Four invariants, one for each part. `ClientInv`: past the check, the configuration is one
that passed, of selected routes only, and the names read are theirs. `FitInv` adds, for `ReadyMeansServed`, what the readiness check of
a comparison found out of its two routes (they are live, take tools and can promise a schema in one of two ways); the boundary check
says the rest (`Fitting`). What is sent then follows from how requests are put together (`AskedIs`: one text to a message, the
system's first) and from what folding does to any such request (`FoldServes`): every text keeps its place, labels aside.
`FlattenSeq` is a recursive function, so its value is that of any function that meets the recursion (`FlattenIs`). `EconInv`: at each place of build_breakeven_input, what it has
read and hashed of a file is what it had to agree with, as long as the file is not in `overwritten`; and a hash that agrees was taken of
a file that was not, since nothing written over becomes what it was (`RequestsInv`, `RowsRead`, `SummaryRead`).
`BreakEvenIsExact` is then arithmetic: `Volumes` says what the two quotients are, `CompareIsExact` that they are the least volumes.
`ReplayInv`: the first phase has no hits, the later ones an audited dataset and one reference for each event, an
origin is a row of this phase that no cache answered, and so is behind whatever the caches of a session keep (`ContextInv`); what a hit
delivers is then traced to an earlier row (`HitHasOrigin`). `GoldenInv` with `EvaluationIs`: a run over the golden set has one row for each case; so a
slice of two runs has one size, which cancels in the gate's quotients (`Margin`), and the gate is the one of `GateSeesEverySlice`.

**Only model-checked.** `CallsReturn`, `CallsEnd` and `MessageEnds` are liveness under fairness, out of reach
of the prover. The three violated sentences are
false, so there is nothing to prove. Conversely the inductive invariants were checked by TLC on the instances of the runs before
they were proved, and are not in the runs: each implies the properties that are.

## 6. What is not modelled, and the plan

Not modelled: the wording of messages, traces, usage records and latencies; the patterns of the guards and
the concept vectors of the second tier (constants), and with them the guard corpora; the spelling of names and
the ranges of numbers in a configuration; `percentile`, the sums of tokens and the totals of `wire_metrics`; the
targets of the cache report (an outcome); dates, sources and measurement windows of the break-even, and its
floating point; the older `calibrate` command; `refresh_prompt_version`, which only makes
caches colder; the reports of `run_all`, the context budget and the notebook, which are text and a fixed order of calls.

What composes is stated where it matters and no further: a message of a replay, of a comparison or of a
drill is not a run of Application but one of its outcomes, and the comparison whose artifacts Economics reads is
LiveRun's, given here as a set of manifests and rows.

Some deliberate simplifications are worth knowing. Lookups and fingerprints of a conversation read the committed
tables, although in a Store shared by threads they use the connection of an open transaction and would see its
uncommitted writes. An answer is put into a cache before the outbound guard has seen the whole of it; the parts
passed the guard by then, and a replay takes it that the whole does. One command at a time works on a review, so
two judges that both pass the check for an earlier one are not there. The gate compares two runs over the same
cases, as the experiments do; a `--baseline` file of other cases fails by its hash in the code. A request
follows up to three rounds of tools, each with one call, and goes without the `extra_body` of a route. The
break-even is computed once, from whole costs. The end of a process that has two Stores open is two steps, one
for each. A partial usage record on a route with one input rate is estimated and enters a total that the code
says is of complete ones; the model has the case (`FullRate`), and no property speaks of the totals.

Plan, in order:

1. *Done:* Domain, Ledger, Store, with refinement and proofs; SDKClient with proofs; Application with both
   caches; LiveRun and Review; Gateway and FaultDrills; Configuration, Evaluation, Replays and Economics.
2. *Done:* proofs of the safety properties of every component, with the lemmas of Counting; the refinement of Ledger by
   Store, and by Application when nobody edits the tables.
3. Shared Store: lookups and fingerprints on the connection of an open transaction (dirty reads).
4. The second tier's similarity: concept sets and signatures against what `lookup_catalog` answers.
