------------------------------- MODULE Replays --------------------------------
(***************************************************************************)
(* The cache experiments: scripts/cache_benchmark.py on the simulator and  *)
(* measure_cache of scripts/live_benchmark.py on a provider.  A frozen     *)
(* workload is sent several times through applications whose caches are    *)
(* switched on phase by phase, and after each phase the golden set is run  *)
(* again and compared with the first phase's.                              *)
(*                                                                         *)
(* Abstraction.  Application is a module of its own: here a turn that no   *)
(* cache answers ends in any of the ways Conversations lists, the exact    *)
(* tier is keyed by the text, and the second tier, which is asked after    *)
(* the classifier of input_guard, by its score.  Every session of the      *)
(* workload has a store of its own that nothing writes.  The outbound      *)
(* guard lets an answer through whose parts it let through before.         *)
(***************************************************************************)
EXTENDS Evaluation

CONSTANTS
  Conversations,   (* for each case: [results, actions, terminal] records  *)
  Traffic,         (* the workload: one-message cases, in order            *)
  Repeats,         (* 4 in the code                                        *)
  Score,           (* Score[<<t, u>>]: similarity of two texts, in percent *)
  Pairs,           (* calibration pairs, near misses among them            *)
  ScoreTables      (* scores of those pairs a concept map may give         *)

Thresholds == {50, 65, 80, 90, 95, 100}
Reports == {"BLOCK", "SEMANTIC_DISABLED", "PASS", "REVIEW_REQUIRED", "NOT_LIVE_EVIDENCE", "TARGETS_NOT_MET"}

ASSUME ReplaysAssumption ==
  /\ Unknown \notin Reports
  /\ Traffic \in Seq(Cases) /\ Repeats \in Nat \ {0}
  /\ \A c \in ToSet(Traffic) : Len(c.messages) = 1
                               /\ c.intent \in {"faq", "order_status"} /\ c.allowed = {"answer"}
  /\ \A c \in Cases : Conversations[c.id] # {}

VARIABLES
  live,         (* measure_cache, and not run_cache_benchmark              *)
  score,        (* the scores of the pairs                                 *)
  threshold,
  phase,        (* the phase it is in, from 1; 0 before the first          *)
  at,           (* the next event of the workload                          *)
  contexts,     (* for each session met, what its application carries      *)
  origins,      (* live: the last row of each case that no cache answered  *)
  references,   (* local: what the baseline phase delivered                *)
  rows,         (* the rows of this phase                                  *)
  golden,       (* the golden rows of this phase, and of the first         *)
  steps,        (* the verdicts of the phases that are over                *)
  report

replayVars == <<live, score, threshold, phase, at, contexts, origins, references, rows, golden, steps, report>>

-----------------------------------------------------------------------------
(* check_pairs and select_threshold.                                        *)
Hits(pairs, t) == {p \in pairs : score[p] >= t}
wrong_hits(pairs, t) == Cardinality({p \in Hits(pairs, t) : ~p.should_hit})
true_hits(pairs, t) == Cardinality({p \in Hits(pairs, t) : p.should_hit})
Split(name) == {p \in Pairs : p.split = name}

select_threshold(pairs) ==
  LET eligible == {t \in Thresholds : wrong_hits(pairs, t) = 0}
      Better(t, u) == true_hits(pairs, t) > true_hits(pairs, u)
                      \/ (true_hits(pairs, t) = true_hits(pairs, u) /\ t >= u)
  IN IF eligible = {} THEN Unknown ELSE CHOOSE t \in eligible : \A u \in eligible : Better(t, u)

semantic_ready == wrong_hits(Split("holdout"), threshold) = 0 /\ wrong_hits(Split("near"), threshold) = 0

MODES == <<"baseline", "stable_public_context", "exact", "semantic">>
modes == IF semantic_ready THEN MODES ELSE SubSeq(MODES, 1, 3)
mode_settings(mode) == [cache_enabled |-> mode \in {"exact", "semantic"}, semantic_enabled |-> mode = "semantic"]

Events == [i \in 1 .. Repeats * Len(Traffic) |-> Traffic[((i - 1) % Len(Traffic)) + 1]]
Empty == [k \in {} |-> Unknown]

ReplayStart ==
  /\ threshold = Unknown /\ phase = 0 /\ at = 1
  /\ contexts = Empty /\ origins = Empty /\ references = <<>>
  /\ rows = <<>> /\ golden = [now |-> {}, first |-> {}]
  /\ steps = <<>> /\ report = Unknown

ReplayInit == live \in BOOLEAN /\ score \in ScoreTables /\ ReplayStart

(* The threshold is chosen on the development pairs alone.                  *)
calibrate ==
  /\ phase = 0 /\ report = Unknown
  /\ threshold' = select_threshold(Split("development"))
  /\ IF threshold' = Unknown
     THEN report' = (IF live THEN "BLOCK" ELSE "SEMANTIC_DISABLED") /\ UNCHANGED phase
     ELSE phase' = 1 /\ UNCHANGED report
  /\ UNCHANGED <<live, score, at, contexts, origins, references, rows, golden, steps>>

-----------------------------------------------------------------------------
(* What an application and its session carry from turn to turn.             *)
NewContext == [exact |-> Empty, semantic |-> <<>>, terminal |-> FALSE, actions |-> 0]
ContextOf(session) == IF session \in DOMAIN contexts THEN contexts[session] ELSE NewContext
Settings == mode_settings(modes[phase])

(* What the caches answer to a text, and what they are given to keep.       *)
Near(x, t) == {i \in DOMAIN x.semantic : Score[<<t, x.semantic[i].text>>] >= threshold}
FromExact(x, t) == IF Settings.cache_enabled /\ t \in DOMAIN x.exact THEN x.exact[t] ELSE Unknown
FromSemantic(x, t) ==
  IF Settings.semantic_enabled /\ Near(x, t) # {} THEN x.semantic[Max(Near(x, t))].value ELSE Unknown

Value(r) == [status |-> r.status, facts |-> r.facts, citations |-> r.citations, request |-> r.request]

After(x, t, o) ==
  LET value == Value(o.results[1])
      keeps == Settings.cache_enabled /\ value.status = "answer"
  IN [exact |-> IF keeps /\ value.request \in {"faq", "order_status"}
                THEN [u \in DOMAIN x.exact \cup {t} |-> IF u = t THEN value ELSE x.exact[u]] ELSE x.exact,
      semantic |-> IF keeps /\ value.request = "faq" /\ Settings.semantic_enabled
                   THEN Append(x.semantic, [text |-> t, value |-> value]) ELSE x.semantic,
      terminal |-> o.terminal,
      actions |-> x.actions + o.actions]

Silent == [status |-> "handoff", facts |-> {}, citations |-> {}, request |-> Unknown, tools |-> {}, leaks |-> FALSE]

(* A turn of the workload.  A session that was handed over answers no more. *)
(* The exact tier asks no model; the second is asked once the classifier    *)
(* has let the message through, which may block it or fail instead.         *)
Turns(c) ==
  LET t == Head(c.messages)
      x == ContextOf(c.session)
      Unanswered(status) == [result |-> [Silent EXCEPT !.status = status], hit |-> FALSE, context |-> x]
      Hit(v) == [result |-> [Silent EXCEPT !.status = v.status, !.facts = v.facts,
                                           !.citations = v.citations, !.request = v.request],
                 hit |-> TRUE, context |-> x]
  IN
  IF x.terminal THEN {Unanswered("handoff")}
  ELSE IF FromExact(x, t) # Unknown THEN {Hit(FromExact(x, t))}
  ELSE IF FromSemantic(x, t) # Unknown THEN {Hit(FromSemantic(x, t)), Unanswered("blocked"), Unanswered("error")}
  ELSE {[result |-> o.results[1], hit |-> FALSE, context |-> After(x, t, o)] : o \in Conversations[c.id]}

(* Slip: a hit is credited with the tools of any earlier row.               *)
Replayed_AnyOrigin(c, turn) ==
  LET checked == check_case(c, <<turn.result>>, turn.context.actions, turn.context.terminal)
      owed == turn.hit /\ c.tools # {}
      failures == IF owed THEN checked.failures \ {"tools"} ELSE checked.failures
  IN [checked EXCEPT !.failures = failures, !.passed = failures = {}]

(* _replay: a hit looks nothing up, so it needs an earlier row of its own   *)
(* case that did, and passed, with the same content.                        *)
Replayed(c, turn) ==
  LET checked == check_case(c, <<turn.result>>, turn.context.actions, turn.context.terminal)
      earned == /\ c.id \in DOMAIN origins
                /\ origins[c.id].row.passed
                /\ c.tools \subseteq origins[c.id].row.actual_tools
                /\ Value(turn.result) = origins[c.id].value
      failures == IF turn.hit /\ c.tools # {}
                  THEN (checked.failures \ {"tools"}) \cup {f \in {"tools"} : ~earned}
                  ELSE checked.failures
  IN [checked EXCEPT !.failures = failures, !.passed = failures = {}]

Delivered(turn) == [status |-> turn.result.status, facts |-> turn.result.facts, citations |-> turn.result.citations]

(* replay: what the baseline delivered for this event.                      *)
Equivalent(turn) == references = <<>> \/ Delivered(turn) = references[at]

event ==
  /\ phase > 0 /\ at \in DOMAIN Events
  /\ \E turn \in Turns(Events[at]) :
       LET c == Events[at]
           row == Replayed(c, turn)
           safe == turn.result.status = "answer" /\ turn.context.actions = 0 /\ ~turn.result.leaks
       IN
       /\ contexts' = [s \in DOMAIN contexts \cup {c.session} |-> IF s = c.session THEN turn.context ELSE contexts[s]]
       /\ origins' = IF live /\ ~turn.hit
                     THEN [i \in DOMAIN origins \cup {c.id} |->
                             IF i = c.id THEN [row |-> row, value |-> Value(turn.result)] ELSE origins[i]]
                     ELSE origins
       /\ rows' = Append(rows, [case |-> c.id, hit |-> turn.hit, delivered |-> Delivered(turn),
                                tools |-> turn.result.tools,
                                passed |-> IF live THEN row.passed ELSE safe /\ Equivalent(turn)])
  /\ at' = at + 1
  /\ UNCHANGED <<live, score, threshold, phase, references, golden, steps, report>>

(* evaluate: every case in an application and a store of its own, in one of *)
(* the ways it may go; the sets of rows that may come of it.                *)
Ways == UNION {{[case |-> c, went |-> o] : o \in Conversations[c.id]} : c \in Cases}
RowOf(way) == check_case(way.case, way.went.results, way.went.actions, way.went.terminal)
Evaluations ==
  {{RowOf(w) : w \in ways} :
     ways \in {s \in SUBSET Ways : \A c \in Cases : \E w \in s : {v \in s : v.case = c} = {w}}}

evaluate ==
  /\ phase > 0 /\ at \notin DOMAIN Events /\ golden.now = {}
  /\ dataset_audit(Cases, TRUE)
  /\ \E e \in Evaluations : golden' = [now |-> e, first |-> IF phase = 1 THEN e ELSE golden.first]
  /\ references' = IF phase = 1 THEN [i \in DOMAIN rows |-> rows[i].delivered] ELSE references
  /\ UNCHANGED <<live, score, threshold, phase, at, contexts, origins, rows, steps, report>>

Verdict == regression_gate(summarize("golden", golden.now), summarize("golden", golden.first)) = {}

(* The report.  A provider has targets of its own to meet (the share of    *)
(* cached input, the saving) and one model has to be known to have served.  *)
Reported(verdicts, identified, targets) ==
  LET good == (\A i \in DOMAIN verdicts : verdicts[i]) /\ semantic_ready IN
  IF ~live THEN IF good THEN "PASS" ELSE "REVIEW_REQUIRED"
  ELSE IF ~identified THEN "NOT_LIVE_EVIDENCE"
  ELSE IF good /\ targets THEN "PASS" ELSE "TARGETS_NOT_MET"

end_phase ==
  /\ golden.now # {}
  /\ steps' = Append(steps, (\A i \in DOMAIN rows : rows[i].passed) /\ Verdict)
  /\ IF phase < Len(modes)
     THEN phase' = phase + 1 /\ at' = 1 /\ UNCHANGED report
     ELSE /\ \E identified, targets \in BOOLEAN : report' = Reported(steps', identified, targets)
          /\ phase' = 0 /\ UNCHANGED at
  /\ golden' = [golden EXCEPT !.now = {}]
  /\ rows' = <<>> /\ contexts' = Empty /\ origins' = Empty
  /\ UNCHANGED <<live, score, threshold, references>>

ReplayNext == calibrate \/ event \/ evaluate \/ end_phase

-----------------------------------------------------------------------------
(* A turn a cache answered delivers what an earlier turn of the phase, in   *)
(* the same session, was answered with no cache: to the same text, or with  *)
(* the second tier to one that scores the threshold.  Where it passes, it   *)
(* has earned it.  Locally the phase without caches delivered the same for  *)
(* this event.  Live, where the case requires lookups, an earlier turn of   *)
(* this very case made them, passed, and delivered the same; of cases that  *)
(* require none, and of lookups in local runs, nothing more is claimed.     *)
CreditIsEarned ==
  LET Text(i) == Head(Events[i].messages)
      Alike(i, j) == Text(i) = Text(j) \/ (Settings.semantic_enabled /\ Score[<<Text(i), Text(j)>>] >= threshold)
      Earlier(i) == {j \in 1 .. i - 1 : ~rows[j].hit /\ rows[j].delivered = rows[i].delivered}
  IN
  \A i \in DOMAIN rows : rows[i].hit =>
    /\ rows[i].delivered.status = "answer"
    /\ \E j \in Earlier(i) : Events[j].session = Events[i].session /\ Alike(i, j)
    /\ rows[i].passed =>
         IF live
         THEN \A c \in Cases : c.id = rows[i].case /\ c.tools # {} =>
                \E j \in Earlier(i) : rows[j].case = c.id /\ rows[j].passed /\ c.tools \subseteq rows[j].tools
         ELSE rows[i].delivered = references[i] /\ Events[i].id = rows[i].case

(* The gate passes exactly the golden runs in which no safety case failed   *)
(* and no marginal slice, nor the whole, lost more than the margin of its   *)
(* own cases; what another slice gained makes up for nothing.               *)
GateSeesEverySlice ==
  golden.now # {} =>
    LET Lost(group) == Cardinality({r \in golden.first : r.passed /\ r.id \in group})
                       - Cardinality({r \in golden.now : r.passed /\ r.id \in group})
        Groups == {{c.id : c \in Cases}} \cup {{c.id : c \in InStratum(Cases, s)} : s \in Strata(Cases)}
        safety == {r \in golden.now : r.safety_case}
    IN Verdict <=> /\ safety # {} /\ \A r \in safety : r.passed
                   /\ \A g \in Groups : 100 * Lost(g) <= max_drop * Cardinality(g)
=============================================================================
