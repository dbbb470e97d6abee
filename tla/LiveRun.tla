------------------------------- MODULE LiveRun -------------------------------
(***************************************************************************)
(* run_live_comparison (scripts/live_evaluate.py): the same cases through  *)
(* two routes of one client, one route after the other, and a manifest     *)
(* that says what the recorded answers are evidence of.                    *)
(*                                                                         *)
(* Abstraction.  Application and SDKClient are modules of their own: here  *)
(* a case makes at most one model call, of at most two attempts, and what  *)
(* came of it is its outcome.  A directory is a function from the files    *)
(* that exist to what is in them; a hash is the content it was taken of.   *)
(* The files of a route are one, and so are the outcomes that no reader    *)
(* tells apart.                                                            *)
(***************************************************************************)
EXTENDS Naturals, FiniteSets, Sequences, SequencesExt

CONSTANTS
  Cases,       (* the selected cases, in order                             *)
  Pilot,       (* they are a proper prefix of the golden set               *)
  Answers,     (* what the application may answer with a model's help      *)
  Refusal,     (* what it answers without, or when the model fails         *)
  Models,      (* model names a provider may report                        *)
  Unset,       (* Python None                                              *)
  Finals,      (* how the model calls of an instance may end               *)
  max_calls,   (* run_live_comparison's argument                           *)
  configured,  (* settings.budget.max_calls                                *)
  Capped       (* a monetary cap may stop the client's budget              *)

Aliases == {"primary", "open_weight"}

(* How the model call of a case may end: there is none, the client's budget *)
(* refuses it, an HTTP error (one of those that stop the route, another that *)
(* is not retried, or one whose retries are used up), an exception that      *)
(* carries no mode, a response the client or the application rejects, or one *)
(* that is accepted.                                                         *)
Unserved == {"no_call", "refused", "stopping", "rejected", "unanswered", "other"}
Served == [kind: {"response", "success"}, served: Models \cup {Unset}]
AllFinals == [kind: Unserved, served: {Unset}] \cup Served

ASSUME LiveRunAssumption ==
  /\ Cases \in Seq(Nat) /\ Len(Cases) > 0
  /\ \A i, j \in DOMAIN Cases : Cases[i] = Cases[j] => i = j
  /\ Pilot \in BOOLEAN /\ Capped \in BOOLEAN
  /\ Refusal \notin Answers
  /\ Unset \notin Models \cup Nat
  /\ Finals \subseteq AllFinals
  /\ max_calls \in Nat \ {0}
  /\ configured \in (Nat \ {0}) \cup {Unset}

(* _comparison_config: the smaller of the two budgets.                      *)
call_budget == IF configured # Unset /\ configured < max_calls THEN configured ELSE max_calls

VARIABLES
  stage,       (* where run_live_comparison is                             *)
  injected,    (* the client speaks through an injected transport          *)
  wire_calls, stopped,  (* the client's budget                             *)
  events,      (* the client's attempts, for each alias                    *)
  rows,        (* the answers recorded for each alias                      *)
  stop_reason,
  run_dir      (* the files of the run: the routes' and "manifest"         *)

client == <<injected, wire_calls, stopped, events>>
runvars == <<stage, client, rows, stop_reason, run_dir>>

RunInit ==
  /\ stage = "start"
  /\ injected \in BOOLEAN
  /\ wire_calls = 0 /\ stopped = FALSE
  /\ events = [a \in Aliases |-> <<>>]
  /\ rows = [a \in Aliases |-> <<>>]
  /\ stop_reason = [a \in Aliases |-> Unset]
  /\ run_dir = [f \in {} |-> <<>>]

Write(dir, file, content) ==
  [f \in DOMAIN dir \cup {file} |-> IF f = file THEN content ELSE dir[f]]

(* The manifest of a run that got as far as the given aliases.              *)
Manifest(status, live, done) ==
  [status |-> status, live |-> live, aliases |-> done, files |-> [a \in done |-> run_dir[a]]]

Closed == Aliases \cap DOMAIN run_dir

(* Without an explicit enable, or a configuration that is ready, nothing    *)
(* but the manifest is written.                                             *)
NotRun ==
  /\ stage = "start"
  /\ stage' = "ended"
  /\ \E status \in {"NOT_RUN", "NOT_CONFIGURED"} :
       run_dir' = Write(run_dir, "manifest", Manifest(status, FALSE, {}))
  /\ UNCHANGED <<client, rows, stop_reason>>

Begin ==
  /\ stage = "start"
  /\ stage' = "primary"
  /\ UNCHANGED <<client, rows, stop_reason, run_dir>>

-----------------------------------------------------------------------------
(* One route.                                                               *)

Exhausted == stopped \/ wire_calls >= call_budget
Stopping(a) == \E e \in ToSet(events[a]) : e.kind = "stopping"

(* The attempts behind an outcome: perhaps one that had to be retried, then *)
(* the last one, unless nothing left the client.                            *)
Attempts(retried, final) ==
  (IF retried THEN <<[kind |-> "unanswered", served |-> Unset]>> ELSE <<>>)
  \o (IF final.kind \in {"no_call", "refused"} THEN <<>> ELSE <<final>>)

(* What a recorded answer is evidence of.  A call that failed without a     *)
(* response leaves a usage entry that names no mode.                        *)
evidence_kind(final) ==
  IF final.kind = "no_call" THEN "deterministic_no_model_call"
  ELSE IF final.kind \in {"response", "success"} /\ ~injected THEN "live"
  ELSE "non_live_or_unknown"

(* evaluate() of the next case.  The client refuses a call for its price,   *)
(* or when the attempts before it have used up the calls.                   *)
EvaluateCase(a) ==
  /\ stage = a
  /\ Len(rows[a]) < Len(Cases)
  /\ ~Exhausted /\ ~Stopping(a)
  /\ \E retried \in BOOLEAN, final \in Finals, answer \in Answers \cup {Refusal} :
       LET sent == Attempts(retried, final)
           error == final.kind \notin {"no_call", "success"} IN
       /\ final.kind = "no_call" => ~retried
       /\ final.kind = "refused" => Capped \/ wire_calls + Len(sent) = call_budget
       /\ answer = Refusal <=> final.kind # "success"
       /\ wire_calls + Len(sent) <= call_budget
       /\ wire_calls' = wire_calls + Len(sent)
       /\ events' = [events EXCEPT ![a] = @ \o sent]
       /\ rows' = [rows EXCEPT ![a] = Append(@, [case |-> Cases[Len(@) + 1], answer |-> answer,
                                                 error |-> error, kind |-> evidence_kind(final)])]
       /\ stopped' \in IF Capped /\ sent # <<>> THEN BOOLEAN ELSE {FALSE}
  /\ UNCHANGED <<stage, injected, stop_reason, run_dir>>

(* The route is through, or given up; its files are written and hashed.     *)
CloseAlias(a) ==
  /\ stage = a
  /\ Len(rows[a]) = Len(Cases) \/ Exhausted \/ Stopping(a)
  /\ stop_reason' = [stop_reason EXCEPT ![a] =
       IF Stopping(a) THEN "non_retryable_provider_rejection"
       ELSE IF Len(rows[a]) < Len(Cases) THEN "call_or_cost_budget_exhausted"
       ELSE Unset]
  /\ run_dir' = Write(run_dir, a, rows[a])
  /\ stage' = IF a = "primary" THEN "open_weight" ELSE "report"
  /\ UNCHANGED <<client, rows>>

-----------------------------------------------------------------------------
(* The verdict over both routes.                                            *)

(* wire_metrics, as far as the verdict needs it.                            *)
Received(log) == {e \in ToSet(log) : e.kind \in {"response", "success"}}
served_models(log) == {e.served : e \in Received(log)} \ {Unset}
single_known_served_model(log) ==
  \E m \in Models : {e.served : e \in Received(log)} = {m}

(* Every event of the alias names the mode its route is configured for.     *)
mode_matches(a) ==
  /\ events[a] # <<>>
  /\ ~injected
  /\ \A e \in ToSet(events[a]) : e.kind # "other"

distinct ==
  /\ \A a \in Aliases : served_models(events[a]) # {}
  /\ served_models(events["primary"]) \cap served_models(events["open_weight"]) = {}

nonlive == \E a \in Aliases : \E row \in ToSet(rows[a]) : row.kind = "non_live_or_unknown"
incomplete == \E a \in Aliases : Len(rows[a]) < Len(Cases)
errors == \E a \in Aliases : \E row \in ToSet(rows[a]) : row.error
budget_hit == stopped \/ \E a \in Aliases : stop_reason[a] = "call_or_cost_budget_exhausted"

(* Slip: answers are live evidence whoever gave them.                       *)
live_model_evidence_AnyModel ==
  ~nonlive /\ \A a \in Aliases : mode_matches(a)

live_model_evidence ==
  /\ ~nonlive
  /\ distinct
  /\ \A a \in Aliases : mode_matches(a) /\ single_known_served_model(events[a])

RunStatus ==
  IF incomplete THEN IF budget_hit THEN "PARTIAL_BUDGET" ELSE "PARTIAL"
  ELSE IF nonlive THEN "TEST_ONLY"
  ELSE IF errors THEN "LIVE_ERRORS"
  ELSE IF ~live_model_evidence THEN "MODEL_IDENTITY_UNVERIFIED"
  ELSE IF Pilot THEN "PILOT_COMPLETE" ELSE "LIVE_COMPLETE"

Report ==
  /\ stage = "report"
  /\ stage' = "ended"
  /\ run_dir' = Write(run_dir, "manifest", Manifest(RunStatus, live_model_evidence, Aliases))
  /\ UNCHANGED <<client, rows, stop_reason>>

(* Any exception on the way leaves a manifest of the routes closed so far.  *)
Error ==
  /\ stage \in Aliases \cup {"report"}
  /\ stage' = "ended"
  /\ run_dir' = Write(run_dir, "manifest", Manifest("ERROR", FALSE, Closed))
  /\ UNCHANGED <<client, rows, stop_reason>>

(* The process ends without one.                                            *)
Killed ==
  /\ stage \in Aliases \cup {"report"}
  /\ stage' = "ended"
  /\ UNCHANGED <<client, rows, stop_reason, run_dir>>

RunNext ==
  \/ NotRun \/ Begin \/ Report \/ Error \/ Killed
  \/ \E a \in Aliases : EvaluateCase(a) \/ CloseAlias(a)

-----------------------------------------------------------------------------
(* Properties.                                                              *)

(* A manifest that calls the run complete stands for all of it: both routes *)
(* answered every case in order, none with an error, every call by one      *)
(* model of that route and no model of both, and no transport was injected. *)
CompleteMeansEverything ==
  "manifest" \in DOMAIN run_dir /\ run_dir["manifest"].status \in {"LIVE_COMPLETE", "PILOT_COMPLETE"} =>
    /\ ~injected
    /\ \A a \in Aliases :
         /\ Len(rows[a]) = Len(Cases)
         /\ \A i \in DOMAIN Cases : rows[a][i].case = Cases[i] /\ ~rows[a][i].error
         /\ Cardinality({e.served : e \in Received(events[a])}) = 1
    /\ \A e \in Received(events["primary"]), f \in Received(events["open_weight"]) : e.served # f.served
=============================================================================
