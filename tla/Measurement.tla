----------------------------- MODULE Measurement ------------------------------
(***************************************************************************)
(* The programs that ask a live model, side by side: each makes its client *)
(* of a configuration first.  main() of scripts/live_benchmark.py then     *)
(* runs the cache experiment or the load test, by its kind; what the       *)
(* comparison does with its client is LiveRun.                             *)
(***************************************************************************)
EXTENDS Configuration, Replays, Economics

measurementVars == <<clientVars, replayVars, econVars>>

Ready(k) == client.at = "ready" /\ kind = k

main ==
  \/ ClientNext /\ UNCHANGED <<replayVars, econVars>>
  \/ Ready("cache") /\ ReplayNext /\ UNCHANGED <<clientVars, econVars>>
  \/ Ready("self-host") /\ EconNext /\ UNCHANGED <<clientVars, replayVars>>

Init ==
  /\ ClientInit
  /\ IF kind = "cache" THEN ReplayInit ELSE ReplayStart /\ live = FALSE /\ score = Unknown
  /\ IF kind = "self-host" THEN EconInit ELSE EconStart /\ comparison = Nothing

Spec == Init /\ [][main]_measurementVars
=============================================================================
