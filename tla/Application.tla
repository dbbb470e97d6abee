---------------------------- MODULE Application -----------------------------
(***************************************************************************)
(* A customer's message on its way through the pipeline                    *)
(* (talabak/pipeline.py) with its two response caches (talabak/cache.py),  *)
(* in front of one Store.  The stages of handle_message are separate steps *)
(* wherever the model is asked or the tables are read, so commits made     *)
(* through other Stores on the same file, and edits made by hand, fall     *)
(* between any two of them.                                                *)
(*                                                                         *)
(* Abstraction.  A tool call is one step: Store models it statement by     *)
(* statement, and Ledger is what it looks like from here.  What the model  *)
(* answers is a choice.  A message is a text; what the guards' patterns    *)
(* and the similarity of two texts yield are constants.  A cache key is    *)
(* the value that is hashed; the parts that do not change while an         *)
(* Application lives (prompts, alias, configuration) are left out of it,   *)
(* and so is Session.pending, which is None whenever a key is taken.       *)
(***************************************************************************)
EXTENDS Domain, Sequences

CONSTANTS
  Sessions,         (* conversations of this Application                   *)
  CustomerOf,       (* Session.customer_id, NoId for a visitor             *)
  CanAct,           (* sessions with can_act = True                        *)
  Texts,            (* messages                                            *)
  Confirm,          (* the message is_confirmation accepts                 *)
  Injections,       (* texts the deterministic guard refuses               *)
  AsksForProducts,  (* texts lookup_catalog answers with prices and stock  *)
  Similar,          (* pairs of texts with similarity at the threshold     *)
  Requests,         (* requests the router may extract                     *)
  FlaggedReview,    (* arguments whose review the outbound guard refuses   *)
  FlaggedResult,    (* the same for the review together with the request   *)
  CacheEnabled, SemanticEnabled,
  RowLimit,         (* SemanticCache.limit                                 *)
  MaxRounds,        (* max_tool_rounds                                     *)
  MaxToolCalls,     (* tool calls accepted in one reply; 4 in the code     *)
  OtherActions,     (* actions that other Stores on the file may commit    *)
  Edits,            (* contents of products.stock an edit by hand leaves   *)
  NoProposal, NoText, NoArgs, NoStock, NoKey,
  MaxTurns          (* bound of the model: messages per session            *)

Intents == {"faq", "order_status", "return", "exchange", "appointment", "handoff", "unclear"}

(* DomainRequest.  "unclear" stands for a low confidence or a missing field.*)
Request == [intent: Intents, order: Orders \cup {NoId}, args: Args \cup {NoArgs}]

RequestFor(a) == [intent |-> a.kind, order |-> a.order, args |-> a]
Blank == [intent |-> "unclear", order |-> NoId, args |-> NoArgs]

(* What a confirmation is the digest of, and the proposal waiting for it.   *)
Digested == [args: Args, customer: Customers, session: Sessions, data: Fingerprint]
Pending == [digest: Digested, turn: Nat]

ASSUME ApplicationAssumption ==
  /\ CustomerOf \in [Sessions -> Customers \cup {NoId}]
  /\ CanAct \subseteq Sessions
  /\ Confirm \notin Injections
  /\ Injections \cup AsksForProducts \subseteq Texts
  /\ Similar \subseteq Texts \X Texts
  /\ Requests \subseteq Request
  /\ \A r \in Requests :
       /\ r.intent \in {"return", "exchange", "appointment"} => r.args \in Args /\ r = RequestFor(r.args)
       /\ r.intent = "order_status" => r.order \in Orders
  /\ FlaggedReview \cup FlaggedResult \subseteq Args
  /\ NoArgs \notin Args
  /\ {CacheEnabled, SemanticEnabled} \subseteq BOOLEAN
  /\ RowLimit \in Nat \ {0} /\ MaxRounds \in Nat \ {0} /\ MaxToolCalls \in Nat \ {0}
  /\ OtherActions \subseteq Action
  /\ Edits \subseteq [Products -> Nat]
  /\ NoStock \notin [Products -> Nat]
  /\ NoText \notin Texts
  /\ NoProposal \notin Digested \cup Pending
  /\ MaxTurns \in [Sessions -> Nat]

VARIABLES
  db,         (* the committed database                                    *)
  turn, pending, confirmed, terminal,   (* the Session's fields            *)
  cache,      (* Application.cache, a set of entries with distinct keys    *)
  rows,       (* SemanticCache.rows                                        *)
  pc,         (* stage of the session's message                            *)
  text,       (* the message                                               *)
  key,        (* the cache key in the local variable "key"                 *)
  tries,      (* rejected answers of the stage's structured call           *)
  round,      (* tool rounds asked for                                     *)
  calls,      (* tool calls of the round carried out                       *)
  last,       (* last_data, a Result without its request                   *)
  reply,      (* the Result                                                *)
  wrote       (* history: this message recorded an action                  *)

session == <<turn, pending, confirmed, terminal>>
caches  == <<cache, rows>>
locals  == <<text, key, tries, round, calls, last>>
vars    == <<db, session, caches, pc, locals, reply, wrote>>

Attempts == 3   (* range(3) in _structured *)

Stages == {"idle", "confirmed", "cache", "guard", "semantic", "route", "faq", "remember",
           "tools", "calls", "output", "deliver"}

Statuses == {"none", "answer", "denied", "already_created", "confirmation_required", "created",
             "handoff", "clarification", "blocked", "error", "lost"}

(* What a message tells: an order's row, the catalogue's stock, an action   *)
(* to review.                                                               *)
Facts == [order: Orders \cup {NoId}, stock: [Products -> Nat] \cup {NoStock},
          args: Args \cup {NoArgs}]
Result == [status: Statuses, facts: Facts, request: Request]

Nothing == [order |-> NoId, stock |-> NoStock, args |-> NoArgs]
Says(status, facts, request) == [status |-> status, facts |-> facts, request |-> request]
Plain(status) == Says(status, Nothing, Blank)

authorize(s) == CustomerOf[s] # NoId /\ s \in CanAct

DigestFor(s, d, a) ==
  [args |-> a, customer |-> CustomerOf[s], session |-> s, data |-> action_fingerprint(d, a)]

-----------------------------------------------------------------------------
(* Store.fingerprint leaves the revision counter out.                       *)
fingerprint(d) == [stock |-> d.stock, booked |-> d.booked, actions |-> d.actions]

(* Slips: entries are shared by everybody; the tables are not in the key.   *)
cache_scope_Shared(s, d) ==
  [session |-> CHOOSE x \in Sessions : TRUE, customer |-> NoId, data |-> fingerprint(d)]

cache_scope_NoTables(s, d) ==
  [session |-> s, customer |-> CustomerOf[s], data |-> fingerprint(FixtureDatabase)]

cache_scope(s, d) ==
  [session |-> s, customer |-> CustomerOf[s], data |-> fingerprint(d)]

cache_key(s, d) == [text |-> text[s], scope |-> cache_scope(s, d)]

Hit(k) == {e \in cache : e.key = k}

Store(k, value) == {e \in cache : e.key # k} \cup {[key |-> k, value |-> value]}

(* SemanticCache.put and get: the most recent row of the same scope wins.   *)
put(k, value) ==
  LET longer == Append(rows, [key |-> k, value |-> value]) IN
  IF Len(longer) > RowLimit THEN Tail(longer) ELSE longer

Matches(k) ==
  {i \in DOMAIN rows : /\ rows[i].key.scope = k.scope
                       /\ rows[i].key.text = k.text \/ <<k.text, rows[i].key.text>> \in Similar}

get(k) == rows[CHOOSE i \in Matches(k) : \A j \in Matches(k) : j <= i].value

-----------------------------------------------------------------------------
Init ==
  /\ db = FixtureDatabase
  /\ turn = [s \in Sessions |-> 0]
  /\ pending = [s \in Sessions |-> NoProposal]
  /\ confirmed = [s \in Sessions |-> NoProposal]
  /\ terminal = [s \in Sessions |-> FALSE]
  /\ cache = {}
  /\ rows = <<>>
  /\ pc = [s \in Sessions |-> "idle"]
  /\ text = [s \in Sessions |-> NoText]
  /\ key = [s \in Sessions |-> NoKey]
  /\ tries = [s \in Sessions |-> 0]
  /\ round = [s \in Sessions |-> 0]
  /\ calls = [s \in Sessions |-> 0]
  /\ last = [s \in Sessions |-> Plain("none")]
  /\ reply = [s \in Sessions |-> Plain("none")]
  /\ wrote = [s \in Sessions |-> FALSE]

Goto(s, stage) == pc' = [pc EXCEPT ![s] = stage]

(* The stages that end the message go to the output guard with a Result.    *)
Finish(s, result) == Goto(s, "output") /\ reply' = [reply EXCEPT ![s] = result]

-----------------------------------------------------------------------------
(* handle_message up to the branch on begin_turn's result.                  *)

Restores(s, t) == t = Confirm /\ pending[s] # NoProposal /\ pending[s].turn = turn[s]

begin_turn(s, t) ==
  /\ pc[s] = "idle"
  /\ turn[s] < MaxTurns[s]
  /\ turn' = [turn EXCEPT ![s] = @ + 1]
  /\ text' = [text EXCEPT ![s] = t]
  /\ IF Restores(s, t)
     THEN /\ confirmed' = [confirmed EXCEPT ![s] = pending[s].digest]
          /\ UNCHANGED pending
     ELSE /\ confirmed' = [confirmed EXCEPT ![s] = NoProposal]
          /\ pending' = [pending EXCEPT ![s] = NoProposal]
  /\ IF terminal[s]
     THEN Finish(s, Plain("handoff"))
     ELSE /\ Goto(s, IF Restores(s, t) THEN "confirmed" ELSE "cache")
          /\ reply' = [reply EXCEPT ![s] = Plain("none")]
  /\ wrote' = [wrote EXCEPT ![s] = FALSE]
  /\ UNCHANGED <<db, terminal, caches, key, tries, round, calls, last>>

(* The exact tier is asked before any model call.  Its key is taken again   *)
(* before anything is stored, so it is not kept.                            *)
cache_lookup(s) ==
  LET k == cache_key(s, db) IN
  /\ pc[s] = "cache"
  /\ \/ /\ CacheEnabled /\ text[s] \notin Injections
        /\ \E e \in Hit(k) : Finish(s, e.value)
     \/ /\ ~CacheEnabled \/ text[s] \in Injections \/ Hit(k) = {}
        /\ Goto(s, "guard")
        /\ UNCHANGED reply
  /\ UNCHANGED <<db, session, caches, locals, wrote>>

-----------------------------------------------------------------------------
(* Model calls with a schema: an answer that does not validate is repaired. *)

Repair(s) ==
  /\ pc[s] \in {"guard", "route"}
  /\ text[s] \notin Injections
  /\ tries[s] + 1 < Attempts
  /\ tries' = [tries EXCEPT ![s] = @ + 1]
  /\ UNCHANGED <<db, session, caches, pc, text, key, round, calls, last, reply, wrote>>

input_guard(s) ==
  /\ pc[s] = "guard"
  /\ \E blocked \in BOOLEAN :
       /\ text[s] \in Injections => blocked
       /\ IF blocked
          THEN Finish(s, Plain("blocked")) /\ pending' = [pending EXCEPT ![s] = NoProposal]
          ELSE /\ UNCHANGED pending
               /\ IF text[s] = Confirm
                  THEN Finish(s, Plain("clarification"))
                  ELSE Goto(s, "semantic") /\ UNCHANGED reply
  /\ tries' = [tries EXCEPT ![s] = 0]
  /\ UNCHANGED <<db, turn, confirmed, terminal, caches, text, key, round, calls, last, wrote>>

(* The key is taken again, then the second tier is asked.                   *)
semantic_lookup(s) ==
  LET k == cache_key(s, db) IN
  /\ pc[s] = "semantic"
  /\ key' = [key EXCEPT ![s] = k]
  /\ IF CacheEnabled /\ SemanticEnabled /\ Matches(k) # {}
     THEN Finish(s, get(k))
     ELSE Goto(s, "route") /\ UNCHANGED reply
  /\ UNCHANGED <<db, session, caches, text, tries, round, calls, last, wrote>>

route_extract(s) ==
  /\ pc[s] = "route"
  /\ \E r \in Requests :
       CASE r.intent = "unclear" -> Finish(s, Says("clarification", Nothing, r))
         [] r.intent = "faq"     -> Goto(s, "faq") /\ reply' = [reply EXCEPT ![s].request = r]
         [] OTHER                -> Goto(s, "tools") /\ reply' = [reply EXCEPT ![s].request = r]
  /\ UNCHANGED <<db, session, caches, locals, wrote>>

-----------------------------------------------------------------------------
(* Read-only tools.                                                         *)
lookup_catalog(d, q) ==
  Says("answer", [Nothing EXCEPT !.stock = IF q \in AsksForProducts THEN d.stock ELSE NoStock],
       Blank)

lookup_order(s, o) ==
  IF CustomerOf[s] # NoId /\ Owner[o] = CustomerOf[s]
  THEN Says("answer", [Nothing EXCEPT !.order = o], Blank)
  ELSE Plain("denied")

Answered(s, data) == [data EXCEPT !.request = reply[s].request]

(* A question is answered from the tables, and the answer remembered under  *)
(* the key taken before the model was asked.                                *)
answer_faq(s) ==
  LET value == Answered(s, lookup_catalog(db, text[s])) IN
  /\ pc[s] = "faq"
  /\ IF CacheEnabled
     THEN cache' = Store(key[s], value)
     ELSE UNCHANGED cache
  /\ reply' = [reply EXCEPT ![s] = value]
  /\ Goto(s, IF CacheEnabled /\ SemanticEnabled THEN "remember" ELSE "output")
  /\ UNCHANGED <<db, session, rows, locals, wrote>>

(* The second tier's scope is computed once more, from the tables as they   *)
(* are by then.                                                             *)
semantic_put(s) ==
  /\ pc[s] = "remember"
  /\ rows' = put(cache_key(s, db), reply[s])
  /\ Goto(s, "output")
  /\ UNCHANGED <<db, session, cache, locals, reply, wrote>>

-----------------------------------------------------------------------------
(* The tool loop.                                                           *)

(* Slip: the rounds are not counted.                                        *)
AskModel_Uncounted(s) ==
  /\ pc[s] = "tools"
  /\ calls' = [calls EXCEPT ![s] = 0]
  /\ Goto(s, "calls")
  /\ UNCHANGED <<db, session, caches, text, key, tries, round, last, reply, wrote>>

(* The model replies with tool calls.                                       *)
AskModel(s) ==
  /\ pc[s] = "tools"
  /\ round[s] < MaxRounds
  /\ round' = [round EXCEPT ![s] = @ + 1]
  /\ calls' = [calls EXCEPT ![s] = 0]
  /\ Goto(s, "calls")
  /\ UNCHANGED <<db, session, caches, text, key, tries, last, reply, wrote>>

(* Slip: whatever an order's message led to is remembered.                  *)
Remembers_AnyStatus(s, value) == CacheEnabled /\ reply[s].request.intent # "faq"

Remembers(s, value) ==
  CacheEnabled /\ reply[s].request.intent = "order_status" /\ value.status = "answer"

(* The model replies without a tool call: what is delivered is the last     *)
(* tool result, and without one the reply is an error (Raise).              *)
FinalReply(s) ==
  LET value == Answered(s, last[s]) IN
  /\ pc[s] = "tools"
  /\ round[s] < MaxRounds
  /\ last[s].status # "none"
  /\ Finish(s, value)
  /\ cache' = IF Remembers(s, value) THEN Store(key[s], value) ELSE cache
  /\ UNCHANGED <<db, session, rows, locals, wrote>>

(* Read-only calls of a reply, carried out in turn.                         *)
Lookup(s) ==
  /\ pc[s] = "calls"
  /\ calls[s] < MaxToolCalls
  /\ calls' = [calls EXCEPT ![s] = @ + 1]
  /\ \/ /\ reply[s].request.order # NoId
        /\ last' = [last EXCEPT ![s] = lookup_order(s, reply[s].request.order)]
     \/ \E q \in Texts : last' = [last EXCEPT ![s] = lookup_catalog(db, q)]
  /\ UNCHANGED <<db, session, caches, pc, text, key, tries, round, reply, wrote>>

EndRound(s) ==
  /\ pc[s] = "calls"
  /\ calls[s] > 0
  /\ Goto(s, "tools")
  /\ UNCHANGED <<db, session, caches, locals, reply, wrote>>

(* Slip: an action that is on record already is reported as recorded.       *)
StatusOf_Idempotent(code) ==
  CASE code \in {"not_authorized", "policy_denied", "unavailable"} -> "denied"
    [] code = "already_created" -> "created"
    [] OTHER -> code

StatusOf(code) == IF code \in {"not_authorized", "policy_denied", "unavailable"} THEN "denied" ELSE code

(* Slip: any confirmation in force will do.                                 *)
Called_AnyDigest(s, a) ==
  LET verdict == IF authorize(s) THEN Verdict(db, CustomerOf[s], a) ELSE "not_authorized"
      digest == DigestFor(s, db, a)
  IN
  CASE verdict # "go" ->
         [code |-> verdict, db |-> db, pending |-> pending[s], confirmed |-> confirmed[s]]
    [] verdict = "go" /\ confirmed[s] # NoProposal ->
         [code |-> "created", db |-> Effect(db, CustomerOf[s], a),
          pending |-> NoProposal, confirmed |-> NoProposal]
    [] verdict = "go" /\ confirmed[s] = NoProposal ->
         [code |-> "confirmation_required", db |-> db,
          pending |-> [digest |-> digest, turn |-> turn[s]], confirmed |-> NoProposal]

(* A call of a side-effect tool, as Store models it in steps: refusal,      *)
(* proposal or execution.                                                   *)
Called(s, a) ==
  LET verdict == IF authorize(s) THEN Verdict(db, CustomerOf[s], a) ELSE "not_authorized"
      digest == DigestFor(s, db, a)
  IN
  CASE verdict # "go" ->
         [code |-> verdict, db |-> db, pending |-> pending[s], confirmed |-> confirmed[s]]
    [] verdict = "go" /\ confirmed[s] = digest ->
         [code |-> "created", db |-> Effect(db, CustomerOf[s], a),
          pending |-> NoProposal, confirmed |-> NoProposal]
    [] verdict = "go" /\ confirmed[s] # digest ->
         [code |-> "confirmation_required", db |-> db,
          pending |-> [digest |-> digest, turn |-> turn[s]], confirmed |-> NoProposal]

(* Only a review restates the arguments of the action.                      *)
Reviewed(code, a) == IF code = "confirmation_required" THEN [Nothing EXCEPT !.args = a] ELSE Nothing

(* Slip: a result that may not be shown leaves its proposal waiting.        *)
side_effect_KeepsRefused(s, r) ==
  LET call == Called(s, r.args)
      refused == call.code = "confirmation_required" /\ r.args \in FlaggedReview
  IN
  /\ db' = call.db
  /\ wrote' = [wrote EXCEPT ![s] = call.code = "created"]
  /\ pending' = [pending EXCEPT ![s] = call.pending]
  /\ confirmed' = [confirmed EXCEPT ![s] = call.confirmed]
  /\ Finish(s, IF refused THEN Says("blocked", Nothing, r)
               ELSE Says(StatusOf(call.code), Reviewed(call.code, r.args), r))

(* The tool's result ends the message; one the outbound guard refuses is    *)
(* withheld, together with the proposal it made (_blocked_tool_result).     *)
side_effect(s, r) ==
  LET call == Called(s, r.args)
      refused == call.code = "confirmation_required" /\ r.args \in FlaggedReview
  IN
  /\ db' = call.db
  /\ wrote' = [wrote EXCEPT ![s] = call.code = "created"]
  /\ pending' = [pending EXCEPT ![s] = IF refused THEN NoProposal ELSE call.pending]
  /\ confirmed' = [confirmed EXCEPT ![s] = IF refused THEN NoProposal ELSE call.confirmed]
  /\ Finish(s, IF refused THEN Says("blocked", Nothing, r)
               ELSE Says(StatusOf(call.code), Reviewed(call.code, r.args), r))

(* A side-effect call must carry the parsed request's arguments.            *)
Act(s) ==
  /\ pc[s] = "calls"
  /\ calls[s] < MaxToolCalls
  /\ reply[s].request.intent \in {"return", "exchange", "appointment"}
  /\ side_effect(s, reply[s].request)
  /\ UNCHANGED <<turn, terminal, caches, locals>>

(* A confirmation executes the waiting action; the model is not asked.      *)
execute_confirmed(s) ==
  /\ pc[s] = "confirmed"
  /\ side_effect(s, RequestFor(pending[s].digest.args))
  /\ UNCHANGED <<turn, terminal, caches, locals>>

handoff_to_support(s) ==
  /\ pc[s] = "calls"
  /\ calls[s] < MaxToolCalls
  /\ reply[s].request.intent = "handoff"
  /\ terminal' = [terminal EXCEPT ![s] = TRUE]
  /\ pending' = [pending EXCEPT ![s] = NoProposal]
  /\ Finish(s, Says("handoff", Nothing, reply[s].request))
  /\ UNCHANGED <<db, turn, confirmed, caches, locals, wrote>>

-----------------------------------------------------------------------------
(* The end of a message.                                                    *)

(* A message the outbound guard refuses takes its proposal with it.         *)
output_guard(s) ==
  LET refused == reply[s].facts.args \in FlaggedResult IN
  /\ pc[s] = "output"
  /\ IF refused
     THEN /\ reply' = [reply EXCEPT ![s] = Plain("blocked")]
          /\ pending' = [pending EXCEPT ![s] = NoProposal]
          /\ confirmed' = [confirmed EXCEPT ![s] = NoProposal]
     ELSE UNCHANGED <<reply, pending, confirmed>>
  /\ Goto(s, "deliver")
  /\ UNCHANGED <<db, turn, terminal, caches, locals, wrote>>

(* The call's locals end with it.                                           *)
EndMessage(s) ==
  /\ pc[s] = "deliver"
  /\ Goto(s, "idle")
  /\ text' = [text EXCEPT ![s] = NoText]
  /\ key' = [key EXCEPT ![s] = NoKey]
  /\ tries' = [tries EXCEPT ![s] = 0]
  /\ round' = [round EXCEPT ![s] = 0]
  /\ calls' = [calls EXCEPT ![s] = 0]
  /\ last' = [last EXCEPT ![s] = Plain("none")]
  /\ UNCHANGED <<db, session, caches, wrote>>

deliver(s) == EndMessage(s) /\ UNCHANGED reply

(* The audit record cannot be written.  This is outside the try statement:  *)
(* handle_message raises, its caller gets no Result, the session stays.     *)
AuditFails(s) == EndMessage(s) /\ reply' = [reply EXCEPT ![s] = Plain("lost")]

(* A model call fails, three answers do not validate, the rounds run out,   *)
(* a tool call does not fit the request, the Store raises (and has rolled   *)
(* back): nothing stays confirmable, and the customer gets a fixed message. *)
Raise(s) ==
  /\ pc[s] \notin {"idle", "output", "deliver"}
  /\ pending' = [pending EXCEPT ![s] = NoProposal]
  /\ confirmed' = [confirmed EXCEPT ![s] = NoProposal]
  /\ \E status \in {"error", "blocked"} : reply' = [reply EXCEPT ![s] = Plain(status)]
  /\ Goto(s, "deliver")
  /\ UNCHANGED <<db, turn, terminal, caches, locals, wrote>>

-----------------------------------------------------------------------------
(* The rest of the world: other Stores on the file commit legal actions,    *)
(* and somebody edits the products table.                                   *)
OtherStore ==
  /\ \E x \in OtherActions :
       Verdict(db, x.customer, x.args) = "go" /\ db' = Effect(db, x.customer, x.args)
  /\ UNCHANGED <<session, caches, pc, locals, reply, wrote>>

Edit ==
  /\ \E stock \in Edits : db' = [db EXCEPT !.stock = stock]
  /\ UNCHANGED <<session, caches, pc, locals, reply, wrote>>

Step(s) ==
  \/ cache_lookup(s) \/ input_guard(s) \/ semantic_lookup(s) \/ Repair(s) \/ route_extract(s)
  \/ answer_faq(s) \/ semantic_put(s)
  \/ AskModel(s) \/ FinalReply(s) \/ Lookup(s) \/ EndRound(s) \/ Act(s) \/ handoff_to_support(s)
  \/ execute_confirmed(s)
  \/ output_guard(s) \/ deliver(s) \/ AuditFails(s) \/ Raise(s)

Next ==
  \/ \E s \in Sessions : Step(s) \/ \E t \in Texts : begin_turn(s, t)
  \/ OtherStore
  \/ Edit

Spec == Init /\ [][Next]_vars

(* handle_message is one call: each of its stages returns or raises.        *)
FairSpec == Spec /\ \A s \in Sessions : WF_vars(Step(s))

-----------------------------------------------------------------------------
(* Properties.                                                              *)

Keys == [text: Texts,
         scope: [session: Sessions, customer: Customers \cup {NoId},
                 data: [stock: [Products -> Nat], booked: [Slots -> Nat], actions: SUBSET Action]]]
Entries == [key: Keys, value: Result]

TypeOK ==
  /\ db \in Database
  /\ turn \in [Sessions -> Nat]
  /\ pending \in [Sessions -> Pending \cup {NoProposal}]
  /\ confirmed \in [Sessions -> Digested \cup {NoProposal}]
  /\ terminal \in [Sessions -> BOOLEAN]
  /\ cache \subseteq Entries
  /\ rows \in Seq(Entries) /\ Len(rows) <= RowLimit
  /\ pc \in [Sessions -> Stages]
  /\ text \in [Sessions -> Texts \cup {NoText}]
  /\ key \in [Sessions -> Keys \cup {NoKey}]
  /\ tries \in [Sessions -> 0 .. Attempts - 1]
  /\ round \in [Sessions -> 0 .. MaxRounds]
  /\ calls \in [Sessions -> 0 .. MaxToolCalls]
  /\ last \in [Sessions -> Result]
  /\ reply \in [Sessions -> Result]
  /\ wrote \in [Sessions -> BOOLEAN]

Delivered(s) == pc[s] = "idle" /\ reply[s].status # "lost"

(* A message delivered asks for a confirmation exactly when the next        *)
(* "confirm" would execute something, and then it is the action it showed:  *)
(* no error, refusal, cached answer or later result of the same message     *)
(* comes between the proposal and what the customer reads (README.md:7).    *)
ConfirmableIsShown ==
  \A s \in Sessions : Delivered(s) =>
    /\ reply[s].status = "confirmation_required" <=> Restores(s, Confirm)
    /\ Restores(s, Confirm) => reply[s].facts.args = pending[s].digest.args

(* What a message recorded is what it says: an action is recorded in the    *)
(* message whose reply is its receipt, and no receipt is given twice, by a  *)
(* cache or otherwise.                                                      *)
ReceiptForEveryWrite ==
  \A s \in Sessions : Delivered(s) => (wrote[s] <=> reply[s].status = "created")

(* An action is recorded only in answer to the confirmation word, without a *)
(* model round, for the proposal the previous message made, and only while  *)
(* the records it depends on are as they were then (ADR-003, ADR-012).      *)
WritesWhatWasConfirmed ==
  [][\A s \in Sessions : wrote'[s] /\ ~wrote[s] =>
       /\ text[s] = Confirm /\ round[s] = 0
       /\ pending[s].turn + 1 = turn[s]
       /\ pending[s].digest = DigestFor(s, db, pending[s].digest.args)
       /\ db' = Effect(db, CustomerOf[s], pending[s].digest.args)]_vars

(* An answer that would be served now is the one the tables give now.       *)
Current(value) == value.facts.stock # NoStock => value.facts.stock = db.stock

CacheIsCurrent ==
  \A s \in Sessions, e \in cache : e.key.scope = cache_scope(s, db) => Current(e.value)

SemanticIsCurrent ==
  \A s \in Sessions, i \in DOMAIN rows :
    rows[i].key.scope = cache_scope(s, db) => Current(rows[i].value)

(* Only its owner is told about an order, by a tool or by a cache (ADR-007).*)
OrdersStayPrivate ==
  \A s \in Sessions :
    reply[s].facts.order # NoId => CustomerOf[s] # NoId /\ Owner[reply[s].facts.order] = CustomerOf[s]

(* Caches hold answers only: no refusal, proposal, receipt or failure.      *)
CachesHoldAnswers ==
  /\ \A e \in cache : e.value.status = "answer"
  /\ \A i \in DOMAIN rows : rows[i].value.status = "answer" /\ rows[i].value.facts.order = NoId

(* Every message is answered, whatever the model does.                      *)
MessageEnds == \A s \in Sessions : (pc[s] # "idle") ~> (pc[s] = "idle")
=============================================================================
