------------------------------ MODULE SDKClient -----------------------------
(***************************************************************************)
(* One SDKClient (talabak/llm.py) shared by threads: every thread runs     *)
(* complete() calls, each a walk along a chain of routes with retries.     *)
(* The client's lock covers reserving, releasing and settling; the HTTP    *)
(* exchange happens outside it.                                            *)
(*                                                                         *)
(* Abstraction.  A call is a member of Requests, which fixes its route     *)
(* chain, the routes that can serve its shape and those whose input        *)
(* allowance it exceeds.  Money is counted in whole units.                 *)
(***************************************************************************)
EXTENDS Naturals, Integers, Sequences, FiniteSets, FiniteSetsExt

CONSTANTS
  Threads,
  Routes,
  Requests,
  Chain,        (* Chain[q]: the alias and its fallbacks, without repeats  *)
  Capable,      (* Capable[q]: routes whose capabilities suffice for q     *)
  TooLong,      (* TooLong[q]: routes whose max_input_tokens q exceeds     *)
  Misdirected,  (* routes whose requests the endpoint guard stops          *)
  FullRate,     (* routes that charge cached input like any other          *)
  Reserve,      (* what an attempt on a route may cost, by configuration   *)
  Charges,      (* what responses turn out to cost                         *)
  Unset,        (* Python None                                             *)
  MaxCalls,     (* budget.max_calls                                        *)
  Cap,          (* budget.max_estimated_cost_usd                           *)
  max_attempts,
  MaxRequests   (* bound of the model: complete() calls per thread         *)

ASSUME SDKClientAssumption ==
  /\ IsFiniteSet(Threads)
  /\ Chain \in [Requests -> Seq(Routes)]
  /\ \A q \in Requests : \A i, j \in DOMAIN Chain[q] : Chain[q][i] = Chain[q][j] => i = j
  /\ Capable \in [Requests -> SUBSET Routes]
  /\ TooLong \in [Requests -> SUBSET Routes]
  /\ Misdirected \subseteq Routes
  /\ FullRate \subseteq Routes
  /\ Reserve \in [Routes -> Nat]
  /\ Charges \subseteq Nat
  /\ Unset \notin Nat \cup Requests
  /\ MaxCalls \in (Nat \ {0}) \cup {Unset}
  /\ Cap \in (Nat \ {0}) \cup {Unset}
  /\ max_attempts \in Nat \ {0}
  /\ MaxRequests \in Nat

VARIABLES
  wire_calls,  (* _wire_calls                                              *)
  held,        (* _held_total                                              *)
  estimated,   (* _estimated_total                                         *)
  upper,       (* _upper_total                                             *)
  partial,     (* _partial_usage                                           *)
  unknown,     (* _unknown_usage                                           *)
  retained,    (* _retained_failures                                       *)
  stopped,     (* _budget_stopped                                          *)
  events,      (* the attempts among self.events                           *)
  pc,          (* where a thread is in complete()                          *)
  calls,       (* how many complete() calls a thread has begun             *)
  request,     (* the call it is in                                        *)
  hop,         (* hop_index + 1                                            *)
  attempt,     (* attempt                                                  *)
  attempts,    (* attempts                                                 *)
  wire,        (* wire_call                                                *)
  failure      (* how the attempt failed, while that is not yet logged     *)

budget == <<wire_calls, held, estimated, upper, partial, unknown, retained, stopped>>
place  == <<calls, request, hop, attempt, attempts, wire>>
vars   == <<budget, events, pc, place, failure>>

Places == {"idle", "try", "sent", "log", "settle", "judge"}

-----------------------------------------------------------------------------
(* Usage as _meter reports it.                                              *)
Unmetered == [status |-> "missing", estimate |-> Unset, upper |-> Unset]

Meters(r) ==
  {Unmetered, [Unmetered EXCEPT !.status = "invalid"]}
  \cup {m \in [status: {"complete"}, estimate: Charges, upper: Charges] : m.estimate <= m.upper}
  \cup {[status |-> "partial", estimate |-> IF r \in FullRate THEN u ELSE Unset, upper |-> u] :
          u \in Charges}

(* What settles a reservation.                                              *)
Settled(m) == IF m.estimate # Unset THEN m.estimate ELSE m.upper

Allowance(r) == IF Cap = Unset THEN 0 ELSE Reserve[r]

(* An attempt in the event log.  Until its usage is known a response has    *)
(* the meter Unmetered and the kind "received".                             *)
Failures  == {"guard_rejected", "rejected", "retryable_status", "unanswered", "other"}
Responses == {"received", "response", "success"}
Retryable == {"retryable_status", "unanswered"}
Retained  == {"unanswered", "other"}

Event(t, kind, meter) ==
  [by |-> t, call |-> calls[t], attempt |-> attempts[t], route |-> Chain[request[t]][hop[t]],
   hop |-> hop[t], wire |-> wire[t], kind |-> kind, meter |-> meter]

Route(t) == Chain[request[t]][hop[t]]

-----------------------------------------------------------------------------
Init ==
  /\ wire_calls = 0 /\ held = 0 /\ estimated = 0 /\ upper = 0
  /\ partial = 0 /\ unknown = 0 /\ retained = 0 /\ stopped = FALSE
  /\ events = {}
  /\ pc = [t \in Threads |-> "idle"]
  /\ calls = [t \in Threads |-> 0]
  /\ request = [t \in Threads |-> Unset]
  /\ hop = [t \in Threads |-> 1]
  /\ attempt = [t \in Threads |-> 1]
  /\ attempts = [t \in Threads |-> 0]
  /\ wire = [t \in Threads |-> 0]
  /\ failure = [t \in Threads |-> "none"]

complete(t, q) ==
  /\ pc[t] = "idle"
  /\ calls[t] < MaxRequests
  /\ calls' = [calls EXCEPT ![t] = @ + 1]
  /\ request' = [request EXCEPT ![t] = q]
  /\ hop' = [hop EXCEPT ![t] = 1]
  /\ attempt' = [attempt EXCEPT ![t] = 1]
  /\ attempts' = [attempts EXCEPT ![t] = 0]
  /\ pc' = [pc EXCEPT ![t] = "try"]
  /\ UNCHANGED <<budget, events, wire, failure>>

Raise(t) == pc' = [pc EXCEPT ![t] = "idle"]

(* The chain is used up: no route could, or every one kept failing.         *)
AllUnavailable(t) ==
  /\ pc[t] = "try"
  /\ hop[t] > Len(Chain[request[t]])
  /\ Raise(t)
  /\ UNCHANGED <<budget, events, place, failure>>

InChain(t) == pc[t] = "try" /\ hop[t] <= Len(Chain[request[t]])

(* A route that cannot serve the shape is skipped before any reservation.   *)
SkipHop(t) ==
  /\ InChain(t)
  /\ Route(t) \notin Capable[request[t]]
  /\ hop' = [hop EXCEPT ![t] = @ + 1]
  /\ attempt' = [attempt EXCEPT ![t] = 1]
  /\ UNCHANGED <<budget, events, pc, calls, request, attempts, wire, failure>>

(* The reasons _reserve has to refuse.                                      *)
Refused(t) ==
  \/ Cap # Unset /\ Route(t) \in TooLong[request[t]]
  \/ stopped
  \/ MaxCalls # Unset /\ wire_calls >= MaxCalls
  \/ Cap # Unset /\ held + Allowance(Route(t)) > Cap

(* Slip: a refused call waits for others to give money or calls back.       *)
refuse_Waits(t) ==
  /\ InChain(t)
  /\ Route(t) \in Capable[request[t]]
  /\ Refused(t)
  /\ UNCHANGED vars

refuse(t) ==
  /\ InChain(t)
  /\ Route(t) \in Capable[request[t]]
  /\ Refused(t)
  /\ Raise(t)
  /\ UNCHANGED <<budget, events, place, failure>>

(* Slip: the cap is compared with what is held already, without the new     *)
(* reservation.                                                             *)
reserve_HeldOnly(t) ==
  /\ InChain(t)
  /\ Route(t) \in Capable[request[t]]
  /\ ~(Cap # Unset /\ Route(t) \in TooLong[request[t]])
  /\ ~stopped
  /\ MaxCalls # Unset => wire_calls < MaxCalls
  /\ Cap # Unset => held <= Cap
  /\ wire_calls' = wire_calls + 1
  /\ held' = held + Allowance(Route(t))
  /\ wire' = [wire EXCEPT ![t] = wire_calls']
  /\ attempts' = [attempts EXCEPT ![t] = @ + 1]
  /\ pc' = [pc EXCEPT ![t] = "sent"]
  /\ UNCHANGED <<estimated, upper, partial, unknown, retained, stopped, events,
                 calls, request, hop, attempt, failure>>

(* _reserve under the lock, and the request goes out.                       *)
reserve(t) ==
  /\ InChain(t)
  /\ Route(t) \in Capable[request[t]]
  /\ ~Refused(t)
  /\ wire_calls' = wire_calls + 1
  /\ held' = held + Allowance(Route(t))
  /\ wire' = [wire EXCEPT ![t] = wire_calls']
  /\ attempts' = [attempts EXCEPT ![t] = @ + 1]
  /\ pc' = [pc EXCEPT ![t] = "sent"]
  /\ UNCHANGED <<estimated, upper, partial, unknown, retained, stopped, events,
                 calls, request, hop, attempt, failure>>

-----------------------------------------------------------------------------
(* How the HTTP exchange ends.                                              *)

Failed(t, kind) ==
  /\ pc[t] = "sent"
  /\ pc' = [pc EXCEPT ![t] = "log"]
  /\ failure' = [failure EXCEPT ![t] = kind]

(* Slip: the reservation is undone, the call stays counted.                 *)
GuardRejects_Counted(t) ==
  /\ Failed(t, "guard_rejected")
  /\ Route(t) \in Misdirected
  /\ held' = held - Allowance(Route(t))
  /\ UNCHANGED <<wire_calls, estimated, upper, partial, unknown, retained, stopped, events, place>>

(* The endpoint guard stops the request inside the process.                 *)
GuardRejects(t) ==
  /\ Failed(t, "guard_rejected")
  /\ Route(t) \in Misdirected
  /\ held' = held - Allowance(Route(t))
  /\ wire_calls' = wire_calls - 1
  /\ UNCHANGED <<estimated, upper, partial, unknown, retained, stopped, events, place>>

(* Slip: a rejection keeps its reservation.                                 *)
StatusError_Kept(t) ==
  /\ \E kind \in {"rejected", "retryable_status"} : Failed(t, kind)
  /\ Route(t) \notin Misdirected
  /\ UNCHANGED <<budget, events, place>>

(* An HTTP error status carries no billable usage.                          *)
StatusError(t) ==
  /\ \E kind \in {"rejected", "retryable_status"} : Failed(t, kind)
  /\ Route(t) \notin Misdirected
  /\ held' = held - Allowance(Route(t))
  /\ UNCHANGED <<wire_calls, estimated, upper, partial, unknown, retained, stopped, events, place>>

(* A lost connection or a timeout may have been billed.                     *)
Unanswered(t) ==
  /\ Failed(t, "unanswered")
  /\ Route(t) \notin Misdirected
  /\ retained' = retained + 1
  /\ UNCHANGED <<wire_calls, held, estimated, upper, partial, unknown, stopped, events, place>>

(* Any other exception out of the SDK.                                      *)
OtherError(t) ==
  /\ Failed(t, "other")
  /\ Route(t) \notin Misdirected
  /\ UNCHANGED <<budget, events, place>>

(* Slip: the next route is tried at once.                                   *)
LogFailure_HopsAtOnce(t) ==
  /\ pc[t] = "log"
  /\ events' = events \cup {Event(t, failure[t], Unmetered)}
  /\ failure' = [failure EXCEPT ![t] = "none"]
  /\ IF failure[t] \in Retryable
     THEN /\ pc' = [pc EXCEPT ![t] = "try"]
          /\ hop' = [hop EXCEPT ![t] = @ + 1]
          /\ UNCHANGED attempt
     ELSE Raise(t) /\ UNCHANGED <<hop, attempt>>
  /\ UNCHANGED <<budget, calls, request, attempts, wire>>

(* The failed attempt is logged; what may be retried is, first on the same  *)
(* route, then on the next one of the chain.                                *)
LogFailure(t) ==
  /\ pc[t] = "log"
  /\ events' = events \cup {Event(t, failure[t], Unmetered)}
  /\ failure' = [failure EXCEPT ![t] = "none"]
  /\ IF failure[t] \in Retryable
     THEN /\ pc' = [pc EXCEPT ![t] = "try"]
          /\ IF attempt[t] < max_attempts
             THEN attempt' = [attempt EXCEPT ![t] = @ + 1] /\ UNCHANGED hop
             ELSE attempt' = [attempt EXCEPT ![t] = 1] /\ hop' = [hop EXCEPT ![t] = @ + 1]
     ELSE Raise(t) /\ UNCHANGED <<hop, attempt>>
  /\ UNCHANGED <<budget, calls, request, attempts, wire>>

(* A response is logged as received before anything of it is looked at.     *)
Respond(t) ==
  /\ pc[t] = "sent"
  /\ Route(t) \notin Misdirected
  /\ events' = events \cup {Event(t, "received", Unmetered)}
  /\ pc' = [pc EXCEPT ![t] = "settle"]
  /\ UNCHANGED <<budget, place, failure>>

(* Slip: usage that cannot be trusted does not stop the budget.             *)
settle_NeverStopsUnknown(t) ==
  /\ pc[t] = "settle"
  /\ \E m \in Meters(Route(t)) :
       /\ estimated' = estimated + IF m.estimate # Unset THEN m.estimate ELSE 0
       /\ upper' = upper + IF m.upper # Unset THEN m.upper ELSE 0
       /\ partial' = partial + IF m.status = "partial" THEN 1 ELSE 0
       /\ unknown' = unknown + IF m.status \in {"missing", "invalid"} THEN 1 ELSE 0
       /\ held' = IF Cap # Unset /\ Settled(m) # Unset
                  THEN held + Settled(m) - Allowance(Route(t)) ELSE held
       /\ stopped' = (stopped \/ (Cap # Unset /\ Settled(m) # Unset /\ held' > Cap))
       /\ events' = (events \ {Event(t, "received", Unmetered)}) \cup {Event(t, "response", m)}
       /\ pc' = [pc EXCEPT ![t] = IF m.status = "invalid" THEN "idle" ELSE "judge"]
  /\ UNCHANGED <<wire_calls, retained, place, failure>>

(* _settle: the reservation becomes the measured cost, or stays when there  *)
(* is none; unknown usage, or more than the cap, stops a capped budget.     *)
settle(t) ==
  /\ pc[t] = "settle"
  /\ \E m \in Meters(Route(t)) :
       /\ estimated' = estimated + IF m.estimate # Unset THEN m.estimate ELSE 0
       /\ upper' = upper + IF m.upper # Unset THEN m.upper ELSE 0
       /\ partial' = partial + IF m.status = "partial" THEN 1 ELSE 0
       /\ unknown' = unknown + IF m.status \in {"missing", "invalid"} THEN 1 ELSE 0
       /\ held' = IF Cap # Unset /\ Settled(m) # Unset
                  THEN held + Settled(m) - Allowance(Route(t)) ELSE held
       /\ stopped' = (stopped \/ (Cap # Unset /\ (Settled(m) = Unset \/ held' > Cap)))
       /\ events' = (events \ {Event(t, "received", Unmetered)}) \cup {Event(t, "response", m)}
       /\ pc' = [pc EXCEPT ![t] = IF m.status = "invalid" THEN "idle" ELSE "judge"]
  /\ UNCHANGED <<wire_calls, retained, place, failure>>

(* Slip: an unusable response is retried like a failed attempt.             *)
Reject_Retries(t) ==
  /\ pc[t] = "judge"
  /\ IF attempt[t] < max_attempts
     THEN attempt' = [attempt EXCEPT ![t] = @ + 1] /\ pc' = [pc EXCEPT ![t] = "try"]
     ELSE Raise(t) /\ UNCHANGED attempt
  /\ UNCHANGED <<budget, events, calls, request, hop, attempts, wire, failure>>

(* Undecodable, no choices, truncated, refused, bad tool arguments: the call *)
(* ends with the response it has paid for.                                  *)
Reject(t) ==
  /\ pc[t] = "judge"
  /\ Raise(t)
  /\ UNCHANGED <<budget, events, place, failure>>

Accept(t) ==
  /\ pc[t] = "judge"
  /\ \E e \in events :
       /\ e.by = t /\ e.call = calls[t] /\ e.attempt = attempts[t] /\ e.kind = "response"
       /\ events' = (events \ {e}) \cup {[e EXCEPT !.kind = "success"]}
  /\ pc' = [pc EXCEPT ![t] = "idle"]
  /\ UNCHANGED <<budget, place, failure>>

-----------------------------------------------------------------------------
Step(t) ==
  \/ AllUnavailable(t) \/ SkipHop(t) \/ refuse(t) \/ reserve(t)
  \/ GuardRejects(t) \/ StatusError(t) \/ Unanswered(t) \/ OtherError(t) \/ LogFailure(t)
  \/ Respond(t) \/ settle(t) \/ Reject(t) \/ Accept(t)

Next == \E t \in Threads : Step(t) \/ \E q \in Requests : complete(t, q)

Spec == Init /\ [][Next]_vars

(* HTTP exchanges are limited by timeout_s, delays by max_delay_s, and the  *)
(* lock is held for arithmetic only.                                        *)
FairSpec == Spec /\ \A t \in Threads : WF_vars(Step(t))

-----------------------------------------------------------------------------
(* Properties.                                                              *)

EventType ==
  [by: Threads, call: Nat, attempt: Nat, route: Routes, hop: Nat, wire: Int,
   kind: Failures \cup Responses,
   meter: [status: {"missing", "invalid", "complete", "partial"},
           estimate: Nat \cup {Unset}, upper: Nat \cup {Unset}]]

TypeOK ==
  /\ wire_calls \in Int /\ held \in Int
  /\ estimated \in Nat /\ upper \in Nat
  /\ partial \in Nat /\ unknown \in Nat /\ retained \in Nat
  /\ stopped \in BOOLEAN
  /\ events \subseteq EventType
  /\ pc \in [Threads -> Places]
  /\ calls \in [Threads -> Nat]
  /\ request \in [Threads -> Requests \cup {Unset}]
  /\ hop \in [Threads -> Nat \ {0}]
  /\ attempt \in [Threads -> 1 .. max_attempts]
  /\ attempts \in [Threads -> Nat]
  /\ wire \in [Threads -> Int]
  /\ failure \in [Threads -> Failures \cup {"none"}]

(* Whatever threads reserve, release and settle at the same time, the money *)
(* held never exceeds the cap unless the budget has been stopped.           *)
CapHolds == Cap # Unset /\ ~stopped => held <= Cap

(* Attempts whose outcome has not been logged.                              *)
Unlogged == {t \in Threads : pc[t] \in {"sent", "log"} /\ failure[t] # "guard_rejected"}

Sent == {e \in events : e.kind # "guard_rejected"}

(* The call counter is the number of requests that left the process, and    *)
(* there are never more of them than the call budget allows.                *)
CallsCounted ==
  /\ wire_calls = Cardinality(Sent) + Cardinality(Unlogged)
  /\ MaxCalls # Unset => wire_calls <= MaxCalls

(* The money held is what the log says: each attempt in flight or without   *)
(* a known price at its reservation, each priced response at its price, and *)
(* nothing for rejections.                                                  *)
HeldFor(e) ==
  IF e.kind \in Responses
  THEN IF Cap # Unset /\ Settled(e.meter) # Unset THEN Settled(e.meter) ELSE Allowance(e.route)
  ELSE IF e.kind \in Retained THEN Allowance(e.route) ELSE 0

InFlight == {t \in Threads : pc[t] = "sent" \/ (pc[t] = "log" /\ failure[t] \in Retained)}

HeldReconciles ==
  held = SumFunction([e \in events |-> HeldFor(e)])
         + SumFunction([t \in InFlight |-> Allowance(Route(t))])

(* Once a capped budget is stopped, as it is by the first response without  *)
(* usable usage, it stays stopped and nothing more is reserved: only what   *)
(* was already sent is settled.                                             *)
UnknownSpending ==
  Cap # Unset /\ \E e \in events : e.kind \in {"response", "success"} /\ Settled(e.meter) = Unset

StopIsFinal ==
  [][stopped \/ UnknownSpending =>
       stopped' /\ \A t \in Threads : pc'[t] = "sent" => pc[t] = "sent"]_<<stopped, pc>>

(* Routes are used in the configured order: a call is at a route only after *)
(* every earlier route that could serve it has failed max_attempts times,   *)
(* each time in a way that may be retried.                                  *)
FallbackInOrder ==
  \A t \in Threads : pc[t] # "idle" =>
    \A h \in 1 .. hop[t] - 1 :
      LET there == {e \in events : e.by = t /\ e.call = calls[t] /\ e.hop = h} IN
      /\ \A e \in there : e.kind \in Retryable
      /\ Cardinality(there) =
           IF Chain[request[t]][h] \in Capable[request[t]] THEN max_attempts ELSE 0

(* A response that was paid for ends its call: nothing more is sent for it. *)
ResponseEndsCall ==
  \A e \in events : e.kind \in Responses =>
    /\ \A f \in events : f.by = e.by /\ f.call = e.call => f.attempt <= e.attempt
    /\ e.call = calls[e.by] => pc[e.by] \in {"idle", "settle", "judge"}

(* docs/PROVIDERS.md: "Every HTTP attempt has a unique counter".            *)
WireCallsUnique == \A e, f \in Sent : e.wire = f.wire => e = f

(* Every complete() call returns or raises.                                 *)
CallsEnd == \A t \in Threads : pc[t] # "idle" ~> pc[t] = "idle"

-----------------------------------------------------------------------------
(* The inductive invariant behind the safety properties.                    *)

(* A call under way is at a route of its chain, and remembers a failure only *)
(* until it is logged.                                                      *)
PlaceInv ==
  \A t \in Threads :
    /\ pc[t] # "idle" => request[t] \in Requests
    /\ pc[t] \in {"sent", "log", "settle", "judge"} => hop[t] \in DOMAIN Chain[request[t]]
    /\ pc[t] = "log" <=> failure[t] # "none"

SameAttempt(e, f) == e.by = f.by /\ e.call = f.call /\ e.attempt = f.attempt

(* The log has one entry for each attempt, none yet for one under way.      *)
LogInv ==
  /\ IsFiniteSet(events)
  /\ \A e, f \in events : SameAttempt(e, f) => e = f
  /\ \A e \in events :
       /\ e.call <= calls[e.by]
       /\ e.call = calls[e.by] => e.attempt <= attempts[e.by]
       /\ e.call = calls[e.by] /\ pc[e.by] \in {"sent", "log"} => e.attempt < attempts[e.by]
       /\ e.call = calls[e.by] /\ e.kind \in Responses =>
            e.attempt = attempts[e.by] /\ pc[e.by] \in {"idle", "settle", "judge"}
  /\ \A t \in Threads : pc[t] = "settle" => Event(t, "received", Unmetered) \in events

(* What the stop remembers.                                                 *)
StopInv == UnknownSpending => stopped

IInv == TypeOK /\ PlaceInv /\ LogInv /\ CapHolds /\ CallsCounted /\ ResponseEndsCall /\ StopInv
=============================================================================
