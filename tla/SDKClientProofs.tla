-------------------------- MODULE SDKClientProofs ---------------------------
(***************************************************************************)
(* The budget of a shared SDKClient, for any number of threads, routes,    *)
(* retries and calls: the cap holds, calls are counted exactly, the money  *)
(* held is what the log says, a stopped budget sends nothing, a response   *)
(* that was paid for ends its call, and fallbacks come in order.           *)
(***************************************************************************)
EXTENDS SDKClient, Counting

MeterType == [status: {"missing", "invalid", "complete", "partial"},
              estimate: Nat \cup {Unset}, upper: Nat \cup {Unset}]

Active == {"sent", "log", "settle", "judge"}

LEMMA MetersTyped ==
  ASSUME NEW r, NEW m \in Meters(r)
  PROVE  /\ m \in MeterType
         /\ Unmetered \in MeterType
         /\ Settled(m) # Unset => Settled(m) \in Nat
<1>1. Charges \subseteq Nat /\ Unset \notin Nat
  BY SDKClientAssumption DEF SDKClientAssumption
<1>2. Unmetered \in MeterType /\ [Unmetered EXCEPT !.status = "invalid"] \in MeterType
  BY DEF Unmetered, MeterType
<1>3. m \in MeterType
  BY <1>1, <1>2 DEF Meters, MeterType
<1> QED
  BY <1>1, <1>2, <1>3 DEF Settled, MeterType

LEMMA AllowanceType ==
  ASSUME NEW r \in Routes
  PROVE  Allowance(r) \in Nat
BY SDKClientAssumption DEF Allowance, SDKClientAssumption

LEMMA RouteType ==
  ASSUME TypeOK, PlaceInv, NEW t \in Threads, pc[t] \in Active
  PROVE  Route(t) \in Routes
BY SDKClientAssumption DEF SDKClientAssumption, Route, PlaceInv, Active

LEMMA InChainRoute ==
  ASSUME TypeOK, PlaceInv, NEW t \in Threads, InChain(t)
  PROVE  /\ hop[t] \in DOMAIN Chain[request[t]]
         /\ Route(t) \in Routes
<1>1. Chain[request[t]] \in Seq(Routes)
  BY SDKClientAssumption DEF SDKClientAssumption, PlaceInv, InChain
<1>2. hop[t] \in 1 .. Len(Chain[request[t]])
  BY <1>1 DEF InChain, TypeOK
<1> QED
  BY <1>1, <1>2 DEF Route

LEMMA EventTyped ==
  ASSUME TypeOK, PlaceInv, NEW t \in Threads, pc[t] \in Active,
         NEW kind \in Failures \cup Responses, NEW meter \in MeterType
  PROVE  /\ Event(t, kind, meter) \in EventType
         /\ Event(t, kind, meter).by = t
         /\ Event(t, kind, meter).call = calls[t]
         /\ Event(t, kind, meter).attempt = attempts[t]
         /\ Event(t, kind, meter).kind = kind
         /\ Event(t, kind, meter).meter = meter
<1>1. Chain[request[t]][hop[t]] \in Routes
  BY RouteType DEF Route
<1> QED
  BY <1>1 DEF Event, EventType, MeterType, TypeOK

-----------------------------------------------------------------------------
LEMMA InitIInv == Init => IInv
<1> SUFFICES ASSUME Init PROVE IInv
  OBVIOUS
<1>1. TypeOK
  <2>1. 1 \in 1 .. max_attempts
    BY SDKClientAssumption DEF SDKClientAssumption
  <2>2. wire_calls \in Int /\ held \in Int /\ estimated \in Nat /\ upper \in Nat /\ partial \in Nat
        /\ unknown \in Nat /\ retained \in Nat
    BY DEF Init
  <2>5. stopped \in BOOLEAN /\ events \subseteq EventType
    <3>1. stopped = FALSE /\ events = {}
      BY DEF Init
    <3> QED
      BY <3>1
  <2>3. /\ pc \in [Threads -> Places] /\ calls \in [Threads -> Nat]
        /\ request \in [Threads -> Requests \cup {Unset}]
        /\ hop \in [Threads -> Nat \ {0}] /\ attempt \in [Threads -> 1 .. max_attempts]
    BY <2>1 DEF Init, Places
  <2>4. /\ attempts \in [Threads -> Nat] /\ wire \in [Threads -> Int]
        /\ failure \in [Threads -> Failures \cup {"none"}]
    BY DEF Init
  <2> QED
    BY <2>2, <2>3, <2>4, <2>5 DEF TypeOK
<1>2. PlaceInv
  BY DEF Init, PlaceInv
<1>3. LogInv
  BY FS_EmptySet DEF Init, LogInv
<1>4. CapHolds
  BY SDKClientAssumption DEF SDKClientAssumption, Init, CapHolds
<1>5. CallsCounted
  <2>1. Sent = {} /\ Unlogged = {}
    BY DEF Init, Sent, Unlogged
  <2> QED
    BY <2>1, FS_EmptySet, SDKClientAssumption DEF SDKClientAssumption, Init, CallsCounted
<1>6. ResponseEndsCall /\ StopInv
  BY DEF Init, ResponseEndsCall, StopInv, UnknownSpending
<1> QED
  BY <1>1, <1>2, <1>3, <1>4, <1>5, <1>6 DEF IInv

(* A successful response replaces the entry of its own attempt.             *)
LEMMA AcceptedEntry ==
  ASSUME TypeOK, NEW e \in events
  PROVE  /\ [e EXCEPT !.kind = "success"] \in EventType
         /\ SameAttempt([e EXCEPT !.kind = "success"], e)
         /\ [e EXCEPT !.kind = "success"].kind = "success"
         /\ [e EXCEPT !.kind = "success"].meter = e.meter
BY DEF TypeOK, EventType, Responses, SameAttempt

LEMMA TypeStep == IInv /\ [Next]_vars => TypeOK'
<1> SUFFICES ASSUME IInv, [Next]_vars PROVE TypeOK'
  OBVIOUS
<1>a. TypeOK /\ PlaceInv
  BY DEF IInv
<1>b. max_attempts \in Nat \ {0} /\ Unset \notin Requests /\ Unset \notin Nat
  BY SDKClientAssumption DEF SDKClientAssumption
<1> USE <1>a DEF TypeOK, Places, budget, place
<1>1. ASSUME NEW t \in Threads, NEW q \in Requests, complete(t, q) PROVE TypeOK'
  BY <1>1, <1>b DEF complete
<1>2. ASSUME NEW t \in Threads, AllUnavailable(t) PROVE TypeOK'
  BY <1>2 DEF AllUnavailable, Raise
<1>3. ASSUME NEW t \in Threads, SkipHop(t) PROVE TypeOK'
  BY <1>3, <1>b DEF SkipHop
<1>4. ASSUME NEW t \in Threads, refuse(t) PROVE TypeOK'
  BY <1>4 DEF refuse, Raise
<1>5. ASSUME NEW t \in Threads, reserve(t) PROVE TypeOK'
  <2>1. Allowance(Route(t)) \in Nat
    BY <1>5, InChainRoute, AllowanceType DEF reserve
  <2> QED
    BY <1>5, <2>1 DEF reserve
<1>6. ASSUME NEW t \in Threads, GuardRejects(t) PROVE TypeOK'
  <2>1. Allowance(Route(t)) \in Nat
    BY <1>6, RouteType, AllowanceType DEF GuardRejects, Failed, Active
  <2> QED
    BY <1>6, <2>1 DEF GuardRejects, Failed, Failures
<1>7. ASSUME NEW t \in Threads, StatusError(t) PROVE TypeOK'
  <2>1. Allowance(Route(t)) \in Nat
    BY <1>7, RouteType, AllowanceType DEF StatusError, Failed, Active
  <2> QED
    BY <1>7, <2>1 DEF StatusError, Failed, Failures
<1>8. ASSUME NEW t \in Threads, Unanswered(t) PROVE TypeOK'
  BY <1>8 DEF Unanswered, Failed, Failures
<1>9. ASSUME NEW t \in Threads, OtherError(t) PROVE TypeOK'
  BY <1>9 DEF OtherError, Failed, Failures
<1>10. ASSUME NEW t \in Threads, LogFailure(t) PROVE TypeOK'
  <2>1. events' \subseteq EventType
    <3>1. failure[t] \in Failures /\ Unmetered \in MeterType /\ pc[t] \in Active
      BY <1>10 DEF LogFailure, PlaceInv, Unmetered, MeterType, Active
    <3>2. Event(t, failure[t], Unmetered) \in EventType
      BY <3>1, EventTyped
    <3> QED
      BY <1>10, <3>2 DEF LogFailure
  <2>2. /\ attempt' \in [Threads -> 1 .. max_attempts]
        /\ hop' \in [Threads -> Nat \ {0}]
        /\ pc' \in [Threads -> Places]
    BY <1>10, <1>b DEF LogFailure, Raise
  <2> QED
    BY <1>10, <2>1, <2>2 DEF LogFailure
<1>11. ASSUME NEW t \in Threads, Respond(t) PROVE TypeOK'
  <2>1. Event(t, "received", Unmetered) \in EventType
    BY <1>11, EventTyped DEF Respond, Responses, Unmetered, MeterType, Active
  <2> QED
    BY <1>11, <2>1 DEF Respond
<1>12. ASSUME NEW t \in Threads, settle(t) PROVE TypeOK'
  <2>1. Allowance(Route(t)) \in Nat /\ pc[t] \in Active
    BY <1>12, RouteType, AllowanceType DEF settle, Active
  <2>2. \A m \in Meters(Route(t)) :
          /\ m \in MeterType
          /\ Settled(m) # Unset => Settled(m) \in Nat
          /\ Event(t, "response", m) \in EventType
    BY <2>1, MetersTyped, EventTyped DEF Responses
  <2> QED
    BY <1>12, <2>1, <2>2 DEF settle, MeterType
<1>13. ASSUME NEW t \in Threads, Reject(t) PROVE TypeOK'
  BY <1>13 DEF Reject, Raise
<1>14. ASSUME NEW t \in Threads, Accept(t) PROVE TypeOK'
  BY <1>14, AcceptedEntry DEF Accept
<1>15. CASE UNCHANGED vars
  BY <1>15 DEF vars
<1> QED
  BY <1>1, <1>2, <1>3, <1>4, <1>5, <1>6, <1>7, <1>8, <1>9, <1>10, <1>11, <1>12, <1>13, <1>14, <1>15
  DEF Next, Step

-----------------------------------------------------------------------------
LEMMA PlaceStep == IInv /\ [Next]_vars => PlaceInv'
<1> SUFFICES ASSUME IInv, [Next]_vars PROVE PlaceInv'
  OBVIOUS
<1>a. TypeOK /\ PlaceInv
  BY DEF IInv
<1> USE <1>a DEF TypeOK, PlaceInv, budget, place
<1>1. ASSUME NEW t \in Threads, NEW q \in Requests, complete(t, q) PROVE PlaceInv'
  BY <1>1 DEF complete
<1>2. ASSUME NEW t \in Threads, AllUnavailable(t) PROVE PlaceInv'
  BY <1>2 DEF AllUnavailable, Raise
<1>3. ASSUME NEW t \in Threads, SkipHop(t) PROVE PlaceInv'
  BY <1>3 DEF SkipHop, InChain
<1>4. ASSUME NEW t \in Threads, refuse(t) PROVE PlaceInv'
  BY <1>4 DEF refuse, Raise, InChain
<1>5. ASSUME NEW t \in Threads, reserve(t) PROVE PlaceInv'
  <2>1. hop[t] \in DOMAIN Chain[request[t]] /\ pc[t] = "try"
    BY <1>5, InChainRoute DEF reserve, InChain
  <2> QED
    BY <1>5, <2>1 DEF reserve
<1>6. ASSUME NEW t \in Threads, GuardRejects(t) PROVE PlaceInv'
  BY <1>6 DEF GuardRejects, Failed
<1>7. ASSUME NEW t \in Threads, StatusError(t) PROVE PlaceInv'
  BY <1>7 DEF StatusError, Failed
<1>8. ASSUME NEW t \in Threads, Unanswered(t) PROVE PlaceInv'
  BY <1>8 DEF Unanswered, Failed
<1>9. ASSUME NEW t \in Threads, OtherError(t) PROVE PlaceInv'
  BY <1>9 DEF OtherError, Failed
<1>10. ASSUME NEW t \in Threads, LogFailure(t) PROVE PlaceInv'
  BY <1>10 DEF LogFailure, Raise
<1>11. ASSUME NEW t \in Threads, Respond(t) PROVE PlaceInv'
  BY <1>11 DEF Respond
<1>12. ASSUME NEW t \in Threads, settle(t) PROVE PlaceInv'
  BY <1>12 DEF settle
<1>13. ASSUME NEW t \in Threads, Reject(t) PROVE PlaceInv'
  BY <1>13 DEF Reject, Raise
<1>14. ASSUME NEW t \in Threads, Accept(t) PROVE PlaceInv'
  BY <1>14 DEF Accept
<1>15. CASE UNCHANGED vars
  BY <1>15 DEF vars
<1> QED
  BY <1>1, <1>2, <1>3, <1>4, <1>5, <1>6, <1>7, <1>8, <1>9, <1>10, <1>11, <1>12, <1>13, <1>14, <1>15
  DEF Next, Step

-----------------------------------------------------------------------------
(* The money.                                                               *)
LEMMA CapStep == IInv /\ [Next]_vars => CapHolds'
<1> SUFFICES ASSUME IInv, [Next]_vars PROVE CapHolds'
  OBVIOUS
<1>a. TypeOK /\ PlaceInv /\ CapHolds
  BY DEF IInv
<1>b. Cap # Unset => Cap \in Nat
  BY SDKClientAssumption DEF SDKClientAssumption
<1> USE <1>a, <1>b DEF CapHolds, budget
<1>1. ASSUME NEW t \in Threads, reserve(t) PROVE CapHolds'
  BY <1>1 DEF reserve, Refused
<1>2. ASSUME NEW t \in Threads, GuardRejects(t) \/ StatusError(t) PROVE CapHolds'
  <2>1. Allowance(Route(t)) \in Nat
    BY <1>2, RouteType, AllowanceType DEF GuardRejects, StatusError, Failed, Active
  <2> QED
    BY <1>2, <2>1 DEF GuardRejects, StatusError, TypeOK
<1>3. ASSUME NEW t \in Threads, settle(t) PROVE CapHolds'
  <2>1. Allowance(Route(t)) \in Nat
    BY <1>3, RouteType, AllowanceType DEF settle, Active
  <2>2. \A m \in Meters(Route(t)) : Settled(m) # Unset => Settled(m) \in Nat
    BY MetersTyped
  <2> SUFFICES ASSUME Cap # Unset, ~stopped' PROVE held' <= Cap
    OBVIOUS
  <2>3. PICK m \in Meters(Route(t)) :
          stopped' = (stopped \/ (Cap # Unset /\ (Settled(m) = Unset \/ held' > Cap)))
    BY <1>3 DEF settle
  <2>4. held' \in Int
    BY <1>3, TypeStep DEF TypeOK
  <2>5. ~(held' > Cap)
    BY <2>3
  <2> QED
    BY <2>4, <2>5
<1>4. CASE held' = held /\ stopped' = stopped
  BY <1>4
<1>5. \/ \E t \in Threads : reserve(t) \/ GuardRejects(t) \/ StatusError(t) \/ settle(t)
      \/ held' = held /\ stopped' = stopped
  BY DEF Next, Step, vars, complete, AllUnavailable, SkipHop, refuse, Unanswered, OtherError,
         LogFailure, Respond, Reject, Accept
<1> QED
  BY <1>1, <1>2, <1>3, <1>4, <1>5

-----------------------------------------------------------------------------
(* The log.                                                                 *)

LEMMA EntryFields ==
  ASSUME TypeOK, NEW e \in events
  PROVE  e.by \in Threads /\ e.call \in Nat /\ e.attempt \in Nat /\ e.kind \in Failures \cup Responses
BY DEF TypeOK, EventType

(* A new entry for the attempt under way.                                   *)
LEMMA NewEntry ==
  ASSUME TypeOK, LogInv, NEW t \in Threads, pc[t] \in {"sent", "log"},
         NEW new, new.by = t, new.call = calls[t], new.attempt = attempts[t]
  PROVE  /\ new \notin events
         /\ \A e \in events : ~SameAttempt(e, new)
         /\ \A e \in events : e.by = t /\ e.call = calls[t] =>
              e.attempt < attempts[t] /\ e.kind \notin Responses
BY EntryFields DEF LogInv, SameAttempt, TypeOK

(* An entry that is replaced by one for the same attempt.                   *)
LEMMA ReplacedEntry ==
  ASSUME LogInv, NEW old \in events, NEW new, SameAttempt(new, old),
         events' = (events \ {old}) \cup {new}
  PROVE  /\ IsFiniteSet(events')
         /\ \A e, f \in events' : SameAttempt(e, f) => e = f
         /\ \A e \in events' : \E f \in events : SameAttempt(e, f) /\ (e # new => e = f)
         /\ \A e \in events' : e # new => e \in events
<1>1. IsFiniteSet(events')
  BY FS_RemoveElement, FS_AddElement DEF LogInv
<1> QED
  BY <1>1 DEF LogInv, SameAttempt

LEMMA LogStep == IInv /\ [Next]_vars => LogInv'
<1> SUFFICES ASSUME IInv, [Next]_vars PROVE LogInv'
  OBVIOUS
<1>a. TypeOK /\ PlaceInv /\ LogInv
  BY DEF IInv
<1>b. \A e \in events : /\ e.by \in Threads /\ e.call \in Nat /\ e.attempt \in Nat
                         /\ e.kind \in Failures \cup Responses
  BY <1>a, EntryFields
<1>c. /\ calls \in [Threads -> Nat] /\ attempts \in [Threads -> Nat]
      /\ pc \in [Threads -> Places]
  BY <1>a DEF TypeOK
<1> USE <1>a, <1>b, <1>c DEF Places, budget, place
<1>1. ASSUME NEW t \in Threads, NEW q \in Requests, complete(t, q) PROVE LogInv'
  BY <1>1 DEF complete, LogInv, Event
<1>2. ASSUME NEW t \in Threads, AllUnavailable(t) PROVE LogInv'
  BY <1>2 DEF AllUnavailable, Raise, LogInv, Event
<1>3. ASSUME NEW t \in Threads, SkipHop(t) PROVE LogInv'
  BY <1>3 DEF SkipHop, InChain, LogInv, Event
<1>4. ASSUME NEW t \in Threads, refuse(t) PROVE LogInv'
  BY <1>4 DEF refuse, InChain, Raise, LogInv, Event
<1>5. ASSUME NEW t \in Threads, reserve(t) PROVE LogInv'
  BY <1>5 DEF reserve, InChain, LogInv, Event
<1>6. ASSUME NEW t \in Threads, GuardRejects(t) PROVE LogInv'
  BY <1>6 DEF GuardRejects, Failed, LogInv, Event
<1>7. ASSUME NEW t \in Threads, StatusError(t) PROVE LogInv'
  BY <1>7 DEF StatusError, Failed, LogInv, Event
<1>8. ASSUME NEW t \in Threads, Unanswered(t) PROVE LogInv'
  BY <1>8 DEF Unanswered, Failed, LogInv, Event
<1>9. ASSUME NEW t \in Threads, OtherError(t) PROVE LogInv'
  BY <1>9 DEF OtherError, Failed, LogInv, Event
<1>10. ASSUME NEW t \in Threads, LogFailure(t) PROVE LogInv'
  <2> DEFINE new == Event(t, failure[t], Unmetered)
  <2>1. /\ new.by = t /\ new.call = calls[t] /\ new.attempt = attempts[t]
        /\ new.kind \in Failures /\ pc[t] = "log"
    BY <1>10 DEF LogFailure, Event, PlaceInv, TypeOK
  <2>2. events' = events \cup {new} /\ UNCHANGED <<calls, attempts, wire, request>>
    BY <1>10 DEF LogFailure
  <2>3. /\ pc'[t] \in {"try", "idle"}
        /\ \A r \in Threads : r # t => pc'[r] = pc[r] /\ hop'[r] = hop[r]
    BY <1>10 DEF LogFailure, Raise, TypeOK
  <2> HIDE DEF new
  <2>4. new \notin events /\ \A e \in events : ~SameAttempt(e, new)
    BY <2>1, NewEntry
  <2>5. IsFiniteSet(events')
    BY <2>2, FS_AddElement DEF LogInv
  <2>6. \A e, f \in events' : SameAttempt(e, f) => e = f
    BY <2>2, <2>4 DEF LogInv, SameAttempt
  <2>7. new.kind \notin Responses
    BY <2>1 DEF Failures, Responses
  <2>8. \A e \in events' :
          /\ e.call <= calls'[e.by]
          /\ e.call = calls'[e.by] => e.attempt <= attempts'[e.by]
          /\ e.call = calls'[e.by] /\ pc'[e.by] \in {"sent", "log"} => e.attempt < attempts'[e.by]
          /\ e.call = calls'[e.by] /\ e.kind \in Responses =>
               e.attempt = attempts'[e.by] /\ pc'[e.by] \in {"idle", "settle", "judge"}
    BY <2>1, <2>2, <2>3, <2>7 DEF LogInv
  <2>9. \A r \in Threads : pc'[r] = "settle" => Event(r, "received", Unmetered)' \in events'
    BY <2>2, <2>3 DEF LogInv, Event
  <2> QED
    BY <2>5, <2>6, <2>8, <2>9 DEF LogInv
<1>11. ASSUME NEW t \in Threads, Respond(t) PROVE LogInv'
  <2> DEFINE new == Event(t, "received", Unmetered)
  <2>1. /\ new.by = t /\ new.call = calls[t] /\ new.attempt = attempts[t] /\ pc[t] = "sent"
    BY <1>11 DEF Respond, Event
  <2>2. events' = events \cup {new} /\ UNCHANGED <<calls, attempts, wire, request, hop>>
    BY <1>11 DEF Respond
  <2>3. pc' = [pc EXCEPT ![t] = "settle"]
    BY <1>11 DEF Respond
  <2>9. \A r \in Threads : pc'[r] = "settle" => Event(r, "received", Unmetered)' \in events'
    BY <2>2, <2>3 DEF LogInv, Event
  <2> HIDE DEF new
  <2>4. /\ new \notin events /\ \A e \in events : ~SameAttempt(e, new)
        /\ \A e \in events : e.by = t /\ e.call = calls[t] => e.kind \notin Responses
    BY <2>1, NewEntry
  <2>5. IsFiniteSet(events')
    BY <2>2, FS_AddElement DEF LogInv
  <2>6. \A e, f \in events' : SameAttempt(e, f) => e = f
    BY <2>2, <2>4 DEF LogInv, SameAttempt
  <2>8. \A e \in events' :
          /\ e.call <= calls'[e.by]
          /\ e.call = calls'[e.by] => e.attempt <= attempts'[e.by]
          /\ e.call = calls'[e.by] /\ pc'[e.by] \in {"sent", "log"} => e.attempt < attempts'[e.by]
          /\ e.call = calls'[e.by] /\ e.kind \in Responses =>
               e.attempt = attempts'[e.by] /\ pc'[e.by] \in {"idle", "settle", "judge"}
    BY <2>1, <2>2, <2>3, <2>4 DEF LogInv
  <2> QED
    BY <2>5, <2>6, <2>8, <2>9 DEF LogInv
<1>12. ASSUME NEW t \in Threads, settle(t) PROVE LogInv'
  <2> DEFINE old == Event(t, "received", Unmetered)
  <2>1. PICK m \in Meters(Route(t)) :
          /\ events' = (events \ {old}) \cup {Event(t, "response", m)}
          /\ pc' = [pc EXCEPT ![t] = IF m.status = "invalid" THEN "idle" ELSE "judge"]
    BY <1>12 DEF settle
  <2> DEFINE new == Event(t, "response", m)
  <2>2. /\ old \in events /\ SameAttempt(new, old) /\ old.kind \in Responses
        /\ old.by = t /\ old.call = calls[t] /\ pc[t] = "settle"
    BY <1>12 DEF settle, LogInv, Event, SameAttempt, Responses
  <2>3. UNCHANGED <<calls, attempts, wire, request, hop>>
    BY <1>12 DEF settle
  <2>4. \A r \in Threads : pc'[r] = "settle" => Event(r, "received", Unmetered)' \in events'
    BY <2>1, <2>2, <2>3 DEF LogInv, Event
  <2> HIDE DEF new, old
  <2>5. events' = (events \ {old}) \cup {new}
    BY <2>1 DEF new
  <2>6. /\ IsFiniteSet(events')
        /\ \A e, f \in events' : SameAttempt(e, f) => e = f
        /\ \A e \in events' : e # new => e \in events
    BY <2>2, <2>5, ReplacedEntry
  <2>7. \A e \in events' :
          /\ e.call <= calls'[e.by]
          /\ e.call = calls'[e.by] => e.attempt <= attempts'[e.by]
          /\ e.call = calls'[e.by] /\ pc'[e.by] \in {"sent", "log"} => e.attempt < attempts'[e.by]
          /\ e.call = calls'[e.by] /\ e.kind \in Responses =>
               e.attempt = attempts'[e.by] /\ pc'[e.by] \in {"idle", "settle", "judge"}
    BY <2>1, <2>2, <2>3, <2>6 DEF LogInv, SameAttempt
  <2> QED
    BY <2>4, <2>6, <2>7 DEF LogInv
<1>13. ASSUME NEW t \in Threads, Reject(t) PROVE LogInv'
  BY <1>13 DEF Reject, Raise, LogInv, Event
<1>14. ASSUME NEW t \in Threads, Accept(t) PROVE LogInv'
  <2>1. PICK old \in events :
          /\ old.by = t /\ old.call = calls[t] /\ old.attempt = attempts[t]
          /\ old.kind = "response"
          /\ events' = (events \ {old}) \cup {[old EXCEPT !.kind = "success"]}
    BY <1>14 DEF Accept
  <2> DEFINE new == [old EXCEPT !.kind = "success"]
  <2>2. SameAttempt(new, old) /\ old.kind \in Responses /\ pc[t] = "judge"
    BY <1>14, <2>1, AcceptedEntry DEF Accept, Responses
  <2>3. UNCHANGED <<calls, attempts, wire, request, hop>> /\ pc' = [pc EXCEPT ![t] = "idle"]
    BY <1>14 DEF Accept
  <2>4. \A r \in Threads : pc'[r] = "settle" => Event(r, "received", Unmetered)' \in events'
    BY <2>1, <2>2, <2>3 DEF LogInv, Event
  <2> HIDE DEF new
  <2>5. events' = (events \ {old}) \cup {new}
    BY <2>1 DEF new
  <2>6. /\ IsFiniteSet(events')
        /\ \A e, f \in events' : SameAttempt(e, f) => e = f
        /\ \A e \in events' : e # new => e \in events
    BY <2>2, <2>5, ReplacedEntry
  <2>7. \A e \in events' :
          /\ e.call <= calls'[e.by]
          /\ e.call = calls'[e.by] => e.attempt <= attempts'[e.by]
          /\ e.call = calls'[e.by] /\ pc'[e.by] \in {"sent", "log"} => e.attempt < attempts'[e.by]
          /\ e.call = calls'[e.by] /\ e.kind \in Responses =>
               e.attempt = attempts'[e.by] /\ pc'[e.by] \in {"idle", "settle", "judge"}
    BY <2>1, <2>2, <2>3, <2>6 DEF LogInv, SameAttempt
  <2> QED
    BY <2>4, <2>6, <2>7 DEF LogInv
<1>15. CASE UNCHANGED vars
  BY <1>15 DEF vars, LogInv, Event
<1> QED
  BY <1>1, <1>2, <1>3, <1>4, <1>5, <1>6, <1>7, <1>8, <1>9, <1>10, <1>11, <1>12, <1>13, <1>14, <1>15
  DEF Next, Step

LEMMA ResponseStep == IInv /\ [Next]_vars => ResponseEndsCall'
<1> SUFFICES ASSUME IInv, [Next]_vars PROVE ResponseEndsCall'
  OBVIOUS
<1>a. TypeOK /\ PlaceInv /\ LogInv /\ ResponseEndsCall /\ LogInv' /\ TypeOK'
  BY TypeStep, LogStep DEF IInv
<1>b. \A e \in events : /\ e.by \in Threads /\ e.call \in Nat /\ e.attempt \in Nat
                         /\ e.kind \in Failures \cup Responses
  BY <1>a, EntryFields
<1>2. ASSUME \A e \in events' : e \in events \/ e.call = calls'[e.by]
      PROVE  ResponseEndsCall'
  <2> SUFFICES ASSUME NEW e \in events', e.kind \in Responses,
                      NEW f \in events', f.by = e.by, f.call = e.call
               PROVE  f.attempt <= e.attempt
    BY <1>a DEF LogInv, ResponseEndsCall
  <2>1. CASE e.call = calls'[e.by]
    BY <1>a, <2>1 DEF LogInv
  <2>2. CASE e.call # calls'[e.by]
    BY <1>a, <1>2, <2>2 DEF ResponseEndsCall
  <2> QED
    BY <2>1, <2>2
<1>3. \A e \in events' : e \in events \/ e.call = calls'[e.by]
  <2>1. ASSUME NEW t \in Threads, LogFailure(t) \/ Respond(t) \/ settle(t) PROVE \A e \in events' : e \in events \/ e.call = calls'[e.by]
    BY <2>1 DEF LogFailure, Respond, settle, Event, place
  <2>2. ASSUME NEW t \in Threads, Accept(t) PROVE \A e \in events' : e \in events \/ e.call = calls'[e.by]
    <3>1. PICK old \in events :
            old.by = t /\ old.call = calls[t] /\ events' = (events \ {old}) \cup {[old EXCEPT !.kind = "success"]}
      BY <2>2 DEF Accept
    <3>2. SameAttempt([old EXCEPT !.kind = "success"], old) /\ calls' = calls
      BY <1>a, <2>2, AcceptedEntry DEF Accept, place
    <3> QED
      BY <3>1, <3>2 DEF SameAttempt
  <2>3. \/ \E t \in Threads : LogFailure(t) \/ Respond(t) \/ settle(t) \/ Accept(t)
        \/ events' = events
    BY DEF Next, Step, vars, complete, AllUnavailable, SkipHop, refuse, reserve, GuardRejects,
           StatusError, Unanswered, OtherError, Reject
  <2> QED
    BY <2>1, <2>2, <2>3
<1> QED
  BY <1>2, <1>3

-----------------------------------------------------------------------------
(* The call counter.                                                        *)

(* A thread leaves the unlogged ones as its attempt enters the log.         *)
LEMMA CountLogged ==
  ASSUME TypeOK, LogInv, IsFiniteSet(Threads), NEW t \in Threads, t \in Unlogged,
         NEW new, new \notin events, new.kind # "guard_rejected",
         events' = events \cup {new}, Unlogged' = Unlogged \ {t}
  PROVE  Cardinality(Sent') + Cardinality(Unlogged') = Cardinality(Sent) + Cardinality(Unlogged)
<1>1. IsFiniteSet(Sent) /\ IsFiniteSet(Unlogged)
  BY FS_Subset DEF LogInv, Sent, Unlogged
<1>2. Cardinality(Sent) \in Nat /\ Cardinality(Unlogged) \in Nat
  BY <1>1, FS_CardinalityType
<1>3. Sent' = Sent \cup {new} /\ new \notin Sent
  BY DEF Sent
<1>4. Cardinality(Sent') = Cardinality(Sent) + 1
  BY <1>1, <1>3, FS_AddElement
<1>5. Cardinality(Unlogged') = Cardinality(Unlogged) - 1
  BY <1>1, FS_RemoveElement
<1> QED
  BY <1>2, <1>4, <1>5

(* Replacing an entry does not change how many were sent.                   *)
LEMMA CountReplaced ==
  ASSUME LogInv, NEW old \in events, NEW new, SameAttempt(new, old),
         old.kind # "guard_rejected", new.kind # "guard_rejected",
         events' = (events \ {old}) \cup {new}
  PROVE  Cardinality(Sent') = Cardinality(Sent)
<1>1. IsFiniteSet(Sent)
  BY FS_Subset DEF LogInv, Sent
<1>2. Sent' = (Sent \ {old}) \cup {new} /\ old \in Sent
  BY DEF Sent
<1>3. new \notin Sent \ {old}
  BY DEF LogInv, SameAttempt, Sent
<1>4. IsFiniteSet(Sent \ {old}) /\ Cardinality(Sent \ {old}) = Cardinality(Sent) - 1
  BY <1>1, <1>2, FS_RemoveElement
<1>5. Cardinality(Sent') = Cardinality(Sent \ {old}) + 1
  BY <1>2, <1>3, <1>4, FS_AddElement
<1>6. Cardinality(Sent) \in Nat
  BY <1>1, FS_CardinalityType
<1> QED
  BY <1>4, <1>5, <1>6

LEMMA CountStep == IInv /\ [Next]_vars => CallsCounted'
<1> SUFFICES ASSUME IInv, [Next]_vars PROVE CallsCounted'
  OBVIOUS
<1>a. TypeOK /\ PlaceInv /\ LogInv /\ CallsCounted
  BY DEF IInv
<1>b. IsFiniteSet(Threads) /\ (MaxCalls # Unset => MaxCalls \in Nat)
  BY SDKClientAssumption DEF SDKClientAssumption
<1>c. IsFiniteSet(Unlogged) /\ IsFiniteSet(Sent)
  BY <1>a, <1>b, FS_Subset DEF Unlogged, Sent, LogInv
<1>d. Cardinality(Unlogged) \in Nat /\ Cardinality(Sent) \in Nat
  BY <1>c, FS_CardinalityType
<1>e. \A t \in Threads : pc[t] = "log" <=> failure[t] # "none"
  BY <1>a DEF PlaceInv
<1>f. pc \in [Threads -> Places] /\ failure \in [Threads -> Failures \cup {"none"}] /\ wire_calls \in Int
  BY <1>a DEF TypeOK
<1> USE <1>a DEF budget, place
<1>1. ASSUME NEW t \in Threads, reserve(t) PROVE CallsCounted'
  <2>1. Unlogged' = Unlogged \cup {t} /\ t \notin Unlogged
    BY <1>1, <1>e, <1>f DEF reserve, InChain, Unlogged
  <2>2. Cardinality(Unlogged') = Cardinality(Unlogged) + 1
    BY <1>c, <2>1, FS_AddElement
  <2>3. Sent' = Sent
    BY <1>1 DEF reserve, Sent
  <2> QED
    BY <1>1, <1>b, <1>d, <1>f, <2>2, <2>3 DEF reserve, Refused, CallsCounted
<1>2. ASSUME NEW t \in Threads, GuardRejects(t) PROVE CallsCounted'
  <2>1. Unlogged' = Unlogged \ {t} /\ t \in Unlogged
    BY <1>2, <1>e, <1>f DEF GuardRejects, Failed, Unlogged
  <2>2. Cardinality(Unlogged') = Cardinality(Unlogged) - 1
    BY <1>c, <2>1, FS_RemoveElement
  <2>3. Sent' = Sent
    BY <1>2 DEF GuardRejects, Sent
  <2> QED
    BY <1>2, <1>b, <1>d, <1>f, <2>2, <2>3 DEF GuardRejects, CallsCounted
<1>3. ASSUME wire_calls' = wire_calls,
             Cardinality(Sent') + Cardinality(Unlogged') = Cardinality(Sent) + Cardinality(Unlogged)
      PROVE  CallsCounted'
  BY <1>3 DEF CallsCounted
<1>4. ASSUME NEW t \in Threads, StatusError(t) \/ Unanswered(t) \/ OtherError(t) PROVE CallsCounted'
  <2>1. Unlogged' = Unlogged /\ Sent' = Sent /\ wire_calls' = wire_calls
    BY <1>4, <1>e, <1>f DEF StatusError, Unanswered, OtherError, Failed, Unlogged, Sent
  <2> QED
    BY <2>1, <1>3
<1>5. ASSUME NEW t \in Threads, LogFailure(t) PROVE CallsCounted'
  <2> DEFINE new == Event(t, failure[t], Unmetered)
  <2>1. /\ new.by = t /\ new.call = calls[t] /\ new.attempt = attempts[t] /\ new.kind = failure[t]
        /\ pc[t] = "log" /\ events' = events \cup {new} /\ wire_calls' = wire_calls
    BY <1>5 DEF LogFailure, Event
  <2>2. Unlogged' = Unlogged \ {t}
    BY <1>5, <1>e, <1>f DEF LogFailure, Raise, Unlogged
  <2> HIDE DEF new
  <2>3. CASE failure[t] = "guard_rejected"
    <3>1. Unlogged' = Unlogged /\ Sent' = Sent
      BY <2>1, <2>2, <2>3 DEF Unlogged, Sent
    <3> QED
      BY <3>1, <2>1, <1>3
  <2>4. CASE failure[t] # "guard_rejected"
    <3>1. t \in Unlogged /\ new \notin events
      BY <2>1, <2>4, NewEntry DEF Unlogged
    <3> QED
      BY <1>b, <2>1, <2>2, <2>4, <3>1, CountLogged, <1>3
  <2> QED
    BY <2>3, <2>4
<1>6. ASSUME NEW t \in Threads, Respond(t) PROVE CallsCounted'
  <2> DEFINE new == Event(t, "received", Unmetered)
  <2>1. /\ new.by = t /\ new.call = calls[t] /\ new.attempt = attempts[t] /\ new.kind = "received"
        /\ pc[t] = "sent" /\ events' = events \cup {new} /\ wire_calls' = wire_calls
    BY <1>6 DEF Respond, Event
  <2>2. Unlogged' = Unlogged \ {t} /\ t \in Unlogged
    BY <1>6, <1>e, <1>f DEF Respond, Unlogged
  <2> HIDE DEF new
  <2>3. new \notin events
    BY <2>1, NewEntry
  <2> QED
    BY <1>b, <2>1, <2>2, <2>3, CountLogged, <1>3
<1>7. ASSUME NEW t \in Threads, settle(t) PROVE CallsCounted'
  <2> DEFINE old == Event(t, "received", Unmetered)
  <2>1. PICK m : events' = (events \ {old}) \cup {Event(t, "response", m)}
    BY <1>7 DEF settle
  <2> DEFINE new == Event(t, "response", m)
  <2>2. /\ old \in events /\ SameAttempt(new, old)
        /\ old.kind # "guard_rejected" /\ new.kind # "guard_rejected"
    BY <1>7 DEF settle, LogInv, Event, SameAttempt
  <2>3. Unlogged' = Unlogged /\ wire_calls' = wire_calls
    BY <1>7, <1>f DEF settle, Unlogged
  <2> HIDE DEF new, old
  <2>4. events' = (events \ {old}) \cup {new}
    BY <2>1 DEF new
  <2>5. Cardinality(Sent') = Cardinality(Sent)
    BY <2>2, <2>4, CountReplaced
  <2> QED
    BY <2>3, <2>5, <1>3
<1>8. ASSUME NEW t \in Threads, Accept(t) PROVE CallsCounted'
  <2>1. PICK old \in events :
          old.kind = "response" /\ events' = (events \ {old}) \cup {[old EXCEPT !.kind = "success"]}
    BY <1>8 DEF Accept
  <2>2. SameAttempt([old EXCEPT !.kind = "success"], old) /\ [old EXCEPT !.kind = "success"].kind = "success"
    BY AcceptedEntry
  <2>3. Unlogged' = Unlogged /\ wire_calls' = wire_calls
    BY <1>8, <1>f DEF Accept, Unlogged
  <2>4. Cardinality(Sent') = Cardinality(Sent)
    BY <2>1, <2>2, CountReplaced
  <2> QED
    BY <2>3, <2>4, <1>3
<1>9. ASSUME NEW t \in Threads,
             \/ \E q \in Requests : complete(t, q)
             \/ AllUnavailable(t) \/ SkipHop(t) \/ refuse(t) \/ Reject(t)
      PROVE  CallsCounted'
  <2>1. Unlogged' = Unlogged /\ Sent' = Sent /\ wire_calls' = wire_calls
    BY <1>9, <1>f DEF complete, AllUnavailable, SkipHop, refuse, Reject, Raise, InChain, Unlogged, Sent
  <2> QED
    BY <2>1, <1>3
<1>10. CASE UNCHANGED vars
  <2>1. Unlogged' = Unlogged /\ Sent' = Sent /\ wire_calls' = wire_calls
    BY <1>10 DEF vars, Unlogged, Sent
  <2> QED
    BY <2>1, <1>3
<1> QED
  BY <1>1, <1>2, <1>4, <1>5, <1>6, <1>7, <1>8, <1>9, <1>10 DEF Next, Step

-----------------------------------------------------------------------------
(* The stop.                                                                *)
LEMMA StopStep ==
  ASSUME IInv, [Next]_vars
  PROVE  /\ StopInv'
         /\ stopped => stopped' /\ \A t \in Threads : pc'[t] = "sent" => pc[t] = "sent"
<1>a. TypeOK /\ StopInv
  BY DEF IInv
<1>f. pc \in [Threads -> Places]
  BY <1>a DEF TypeOK
<1>1. stopped => stopped'
  BY DEF Next, Step, vars, budget, complete, AllUnavailable, SkipHop, refuse, reserve, GuardRejects,
         StatusError, Unanswered, OtherError, LogFailure, Respond, settle, Reject, Accept
<1>2. stopped => \A t \in Threads : pc'[t] = "sent" => pc[t] = "sent"
  <2>1. ASSUME NEW r \in Threads, reserve(r) PROVE ~stopped
    BY <2>1 DEF reserve, Refused
  <2>2. ASSUME NEW r \in Threads, Step(r), ~reserve(r)
        PROVE  \A t \in Threads : pc'[t] = "sent" => pc[t] = "sent"
    BY <2>2, <1>f DEF Step, AllUnavailable, SkipHop, refuse, GuardRejects, StatusError, Unanswered,
         OtherError, Failed, LogFailure, Respond, settle, Reject, Accept, Raise
  <2>3. ASSUME NEW r \in Threads, NEW q \in Requests, complete(r, q)
        PROVE  \A t \in Threads : pc'[t] = "sent" => pc[t] = "sent"
    BY <2>3, <1>f DEF complete
  <2>4. CASE UNCHANGED vars
    BY <2>4 DEF vars
  <2> QED
    BY <2>1, <2>2, <2>3, <2>4 DEF Next
<1>3. StopInv'
  <2>1. ASSUME \A e \in events' : e \in events \/ e.kind \notin {"response", "success"}
        PROVE  StopInv'
    BY <2>1, <1>a, <1>1 DEF StopInv, UnknownSpending
  <2>2. ASSUME NEW t \in Threads, LogFailure(t) \/ Respond(t) PROVE StopInv'
    <3>1. failure[t] \in Failures \cup {"none"}
      BY <1>a DEF TypeOK
    <3> QED
      BY <2>2, <2>1, <3>1 DEF LogFailure, Respond, Event, Failures
  <2>3. ASSUME NEW t \in Threads, settle(t) PROVE StopInv'
    <3>1. PICK m \in Meters(Route(t)) :
            /\ events' = (events \ {Event(t, "received", Unmetered)}) \cup {Event(t, "response", m)}
            /\ stopped' = (stopped \/ (Cap # Unset /\ (Settled(m) = Unset \/ held' > Cap)))
      BY <2>3 DEF settle
    <3>2. Event(t, "response", m).meter = m
      BY DEF Event
    <3> QED
      BY <3>1, <3>2, <1>a, <1>1 DEF StopInv, UnknownSpending
  <2>4. ASSUME NEW t \in Threads, Accept(t) PROVE StopInv'
    <3>1. PICK old \in events :
            old.kind = "response" /\ events' = (events \ {old}) \cup {[old EXCEPT !.kind = "success"]}
      BY <2>4 DEF Accept
    <3>2. [old EXCEPT !.kind = "success"].meter = old.meter
      BY <1>a, AcceptedEntry
    <3> QED
      BY <3>1, <3>2, <1>a, <1>1 DEF StopInv, UnknownSpending
  <2>5. \/ \E t \in Threads : LogFailure(t) \/ Respond(t) \/ settle(t) \/ Accept(t)
        \/ events' = events
    BY DEF Next, Step, vars, complete, AllUnavailable, SkipHop, refuse, reserve, GuardRejects,
           StatusError, Unanswered, OtherError, Reject
  <2> QED
    BY <2>1, <2>2, <2>3, <2>4, <2>5
<1> QED
  BY <1>1, <1>2, <1>3

-----------------------------------------------------------------------------
(* The theorems.                                                            *)

(* The inductive invariant holds in every reachable state.                  *)
THEOREM ClientInvariant == Spec => []IInv
<1>1. Init => IInv
  BY InitIInv
<1>2. IInv /\ [Next]_vars => IInv'
  BY TypeStep, PlaceStep, LogStep, CapStep, CountStep, ResponseStep, StopStep DEF IInv
<1> QED
  BY <1>1, <1>2, PTL DEF Spec

(* Type correctness of the client.                                          *)
THEOREM ClientTypeOK == Spec => []TypeOK
<1>1. IInv => TypeOK
  BY DEF IInv
<1> QED
  BY <1>1, ClientInvariant, PTL

(* However many threads spend at once, the money held stays within the cap   *)
(* until the budget is stopped.                                             *)
THEOREM ClientCapHolds == Spec => []CapHolds
<1>1. IInv => CapHolds
  BY DEF IInv
<1> QED
  BY <1>1, ClientInvariant, PTL

(* The call counter counts exactly the requests that left the process, and   *)
(* never passes the call budget.                                            *)
THEOREM ClientCallsCounted == Spec => []CallsCounted
<1>1. IInv => CallsCounted
  BY DEF IInv
<1> QED
  BY <1>1, ClientInvariant, PTL

(* No call pays twice: a response, good or bad, is the last thing it gets.   *)
THEOREM ClientResponseEndsCall == Spec => []ResponseEndsCall
<1>1. IInv => ResponseEndsCall
  BY DEF IInv
<1> QED
  BY <1>1, ClientInvariant, PTL

(* A stopped budget stays stopped and reserves nothing any more.            *)
THEOREM ClientStopIsFinal == Spec => StopIsFinal
<1>1. IInv /\ [Next]_vars =>
        [stopped \/ UnknownSpending =>
           stopped' /\ \A t \in Threads : pc'[t] = "sent" => pc[t] = "sent"]_<<stopped, pc>>
  BY StopStep DEF IInv, StopInv
<1> QED
  BY <1>1, ClientInvariant, PTL DEF Spec, StopIsFinal

-----------------------------------------------------------------------------
(* Routes in the configured order.                                          *)

(* The entries of a thread's current call for one hop of its chain.         *)
At(t, h) == {e \in events : e.by = t /\ e.call = calls[t] /\ e.hop = h}

(* A call under way has used up every capable hop before its own, has used  *)
(* attempt - 1 attempts of its own as long as it may retry, and none later. *)
MayRetry == {"try", "sent", "log"}

Follows(t) ==
  /\ \A h \in Nat \ {0} :
       /\ h < hop[t] \/ (h = hop[t] /\ pc[t] \in MayRetry) =>
            \A e \in At(t, h) : e.kind \in Retryable
       /\ h < hop[t] =>
            Cardinality(At(t, h)) =
              IF Chain[request[t]][h] \in Capable[request[t]] THEN max_attempts ELSE 0
       /\ h = hop[t] /\ pc[t] \in MayRetry => Cardinality(At(t, h)) = attempt[t] - 1
       /\ h > hop[t] => At(t, h) = {}
  /\ pc[t] # "try" \/ attempt[t] > 1 => Route(t) \in Capable[request[t]]

HopInv == \A t \in Threads : pc[t] # "idle" => Follows(t)

SameCall(t) ==
  /\ UNCHANGED <<calls[t], request[t], hop[t], attempt[t]>>
  /\ \A h \in Nat : At(t, h)' = At(t, h)

Acts(t) == Step(t) \/ \E q \in Requests : complete(t, q)

LEMMA NoneCounted ==
  ASSUME NEW S, S = {}
  PROVE  Cardinality(S) = 0
BY FS_EmptySet, Zenon

(* A step of one thread leaves the calls of the others alone.               *)
LEMMA OthersKeepTheirCall ==
  ASSUME TypeOK, PlaceInv, NEW t \in Threads, Acts(t),
         NEW r \in Threads, r # t
  PROVE  pc'[r] = pc[r] /\ SameCall(r)
<1>1. /\ pc'[r] = pc[r]
      /\ calls'[r] = calls[r] /\ request'[r] = request[r]
      /\ hop'[r] = hop[r] /\ attempt'[r] = attempt[r]
  BY DEF Acts, Step, complete, AllUnavailable, SkipHop, refuse, reserve, GuardRejects, StatusError,
         Unanswered, OtherError, LogFailure, Respond, settle, Reject, Accept, Failed, Raise,
         TypeOK, place
<1>2. \A e : e.by = r => (e \in events' <=> e \in events)
  <2>1. CASE UNCHANGED events
    BY <2>1
  <2>2. CASE LogFailure(t) \/ Respond(t) \/ settle(t)
    BY <2>2 DEF LogFailure, Respond, settle, Event
  <2>3. CASE Accept(t)
    BY <2>3 DEF Accept, TypeOK, EventType
  <2>4. UNCHANGED events \/ LogFailure(t) \/ Respond(t) \/ settle(t) \/ Accept(t)
    BY DEF Acts, Step, complete, AllUnavailable, SkipHop, refuse, reserve, GuardRejects, StatusError,
           Unanswered, OtherError, Reject
  <2> QED
    BY <2>1, <2>2, <2>3, <2>4
<1> QED
  BY <1>1, <1>2 DEF SameCall, At

LEMMA FollowsFrame ==
  ASSUME TypeOK, NEW t \in Threads, Follows(t), SameCall(t),
         pc'[t] = pc[t] \/ (pc[t] = "sent" /\ pc'[t] = "log")
  PROVE  Follows(t)'
<1>1. \A h \in Nat \ {0} : At(t, h)' = At(t, h)
  BY DEF SameCall
<1>2. hop'[t] = hop[t] /\ attempt'[t] = attempt[t] /\ request'[t] = request[t]
  BY DEF SameCall
<1>3. pc'[t] \in MayRetry => pc[t] \in MayRetry
  BY DEF MayRetry
<1>4. pc'[t] # "try" => pc[t] # "try"
  OBVIOUS
<1> QED
  BY <1>1, <1>2, <1>3, <1>4 DEF Follows, Route

LEMMA HopStep == IInv /\ HopInv /\ [Next]_vars => HopInv'
<1> SUFFICES ASSUME IInv, HopInv, [Next]_vars PROVE HopInv'
  OBVIOUS
<1>a. TypeOK /\ PlaceInv /\ LogInv
  BY DEF IInv
<1>b. /\ pc \in [Threads -> Places] /\ calls \in [Threads -> Nat] /\ hop \in [Threads -> Nat \ {0}]
      /\ attempt \in [Threads -> 1 .. max_attempts] /\ request \in [Threads -> Requests \cup {Unset}]
      /\ max_attempts \in Nat \ {0}
  BY <1>a, SDKClientAssumption DEF TypeOK, SDKClientAssumption
<1>c. \A t \in Threads, h \in Nat : IsFiniteSet(At(t, h))
  BY <1>a, FS_Subset DEF LogInv, At
<1> USE <1>a, <1>b, <1>c
<1>1. ASSUME NEW t \in Threads, Acts(t),
             pc'[t] # "idle" => Follows(t)'
      PROVE  HopInv'
  <2>1. ASSUME NEW r \in Threads, r # t, pc'[r] # "idle" PROVE Follows(r)'
    <3>1. pc'[r] = pc[r] /\ SameCall(r)
      BY <1>1, <2>1, OthersKeepTheirCall
    <3>2. Follows(r)
      BY <2>1, <3>1 DEF HopInv
    <3> QED
      BY <3>1, <3>2, FollowsFrame
  <2> QED
    BY <1>1, <2>1 DEF HopInv
<1>2. ASSUME NEW t \in Threads, NEW q \in Requests, complete(t, q)
      PROVE  Follows(t)'
  <2>1. /\ calls'[t] = calls[t] + 1 /\ hop'[t] = 1 /\ attempt'[t] = 1 /\ pc'[t] = "try"
        /\ events' = events
    BY <1>2 DEF complete
  <2>2. \A h \in Nat : At(t, h)' = {}
    BY <2>1, EntryFields DEF At, LogInv
  <2>3. \A h \in Nat : Cardinality(At(t, h)') = 0
    BY <2>2, NoneCounted
  <2>4. \A h \in Nat \ {0} : ~(h < hop'[t])
    BY <2>1
  <2>5. \A h \in Nat \ {0} : Cardinality(At(t, h)') = attempt'[t] - 1
    BY <2>1, <2>2, <2>3
  <2> QED
    BY <2>1, <2>2, <2>4, <2>5 DEF Follows
<1>3. ASSUME NEW t \in Threads, AllUnavailable(t) \/ refuse(t) \/ Reject(t) \/ Accept(t)
      PROVE  pc'[t] = "idle"
  BY <1>3 DEF AllUnavailable, refuse, Reject, Accept, Raise
<1>4. ASSUME NEW t \in Threads, SkipHop(t)
      PROVE  Follows(t)'
  <2>1. /\ Chain[request[t]][hop[t]] \notin Capable[request[t]]
        /\ hop'[t] = hop[t] + 1 /\ attempt'[t] = 1 /\ pc[t] = "try" /\ pc'[t] = "try"
        /\ request' = request /\ \A h \in Nat : At(t, h)' = At(t, h)
    BY <1>4 DEF SkipHop, InChain, Route, At
  <2>2. Follows(t)
    BY <2>1 DEF HopInv
  <2>3. attempt[t] = 1
    BY <2>1, <2>2 DEF Follows, Route
  <2> QED
    <3>1. \A h \in Nat \ {0} :
            /\ h < hop'[t] => h < hop[t] \/ h = hop[t]
            /\ h = hop'[t] \/ h > hop'[t] => h > hop[t]
      BY <2>1
    <3>2. \A h \in Nat \ {0} : h = hop[t] => Cardinality(At(t, h)') = 0
      BY <2>1, <2>2, <2>3 DEF Follows, MayRetry
    <3>3. \A h \in Nat \ {0} : h > hop[t] => At(t, h)' = {}
      BY <2>1, <2>2 DEF Follows
    <3>4. \A h \in Nat \ {0} : h < hop'[t] => \A e \in At(t, h)' : e.kind \in Retryable
      BY <2>1, <2>2, <3>1 DEF Follows, MayRetry
    <3>5. \A h \in Nat \ {0} : h < hop'[t] => Cardinality(At(t, h)') =
             IF Chain[request[t]][h] \in Capable[request[t]] THEN max_attempts ELSE 0
      BY <2>1, <2>2, <3>1, <3>2 DEF Follows
    <3>6. \A h \in Nat \ {0} : h = hop'[t] => Cardinality(At(t, h)') = 0
      BY <3>1, <3>3, NoneCounted
    <3>7. \A h \in Nat \ {0} : h > hop'[t] => At(t, h)' = {}
      BY <3>1, <3>3
    <3> QED
      BY <2>1, <3>1, <3>3, <3>4, <3>5, <3>6, <3>7 DEF Follows
<1>5. ASSUME NEW t \in Threads, reserve(t)
      PROVE  Follows(t)'
  <2>1. /\ Route(t) \in Capable[request[t]]
        /\ pc[t] = "try" /\ pc'[t] = "sent" /\ SameCall(t)
    BY <1>5 DEF reserve, InChain, SameCall, At
  <2>2. Follows(t)
    BY <2>1 DEF HopInv
  <2> QED
    BY <2>1, <2>2 DEF Follows, SameCall, MayRetry, Route
<1>6. ASSUME NEW t \in Threads,
             GuardRejects(t) \/ StatusError(t) \/ Unanswered(t) \/ OtherError(t)
      PROVE  Follows(t)'
  <2>1. pc[t] = "sent" /\ pc'[t] = "log" /\ SameCall(t)
    BY <1>6 DEF GuardRejects, StatusError, Unanswered, OtherError, Failed, SameCall, At, place
  <2>2. Follows(t)
    BY <2>1 DEF HopInv
  <2> QED
    BY <2>1, <2>2, FollowsFrame
<1>7. ASSUME NEW t \in Threads, LogFailure(t), pc'[t] # "idle"
      PROVE  Follows(t)'
  <2> DEFINE new == Event(t, failure[t], Unmetered)
  <2>1. /\ pc[t] = "log" /\ pc'[t] = "try" /\ failure[t] \in Retryable
        /\ calls' = calls /\ request' = request /\ events' = events \cup {new}
        /\ IF attempt[t] < max_attempts
           THEN attempt'[t] = attempt[t] + 1 /\ hop'[t] = hop[t]
           ELSE attempt'[t] = 1 /\ hop'[t] = hop[t] + 1
    BY <1>7 DEF LogFailure, Raise
  <2>2. /\ new.by = t /\ new.call = calls[t] /\ new.attempt = attempts[t] /\ new.hop = hop[t]
        /\ new.kind = failure[t]
    BY DEF Event
  <2>3. new \notin events
    BY <2>1, <2>2, NewEntry
  <2>4. Follows(t)
    BY <2>1 DEF HopInv
  <2> HIDE DEF new
  <2>5. \A h \in Nat : At(t, h)' = IF h = hop[t] THEN At(t, h) \cup {new} ELSE At(t, h)
    BY <2>1, <2>2 DEF At
  <2>6. \A h \in Nat : Cardinality(At(t, h) \cup {new}) = Cardinality(At(t, h)) + 1
    <3>1. \A h \in Nat : new \notin At(t, h)
      BY <2>3 DEF At
    <3> QED
      BY <3>1, FS_AddElement
  <2>7. Chain[request[t]][hop[t]] \in Capable[request[t]]
    BY <2>1, <2>4 DEF Follows, Route
  <2>8. \A h \in Nat \ {0} :
          /\ h <= hop[t] => \A e \in At(t, h)' : e.kind \in Retryable
          /\ h < hop[t] => Cardinality(At(t, h)') =
               IF Chain[request[t]][h] \in Capable[request[t]] THEN max_attempts ELSE 0
          /\ h = hop[t] => Cardinality(At(t, h)') = attempt[t]
          /\ h > hop[t] => At(t, h)' = {}
    BY <2>1, <2>2, <2>4, <2>5, <2>6 DEF Follows, MayRetry
  <2>9. CASE attempt[t] < max_attempts
    BY <2>1, <2>7, <2>8, <2>9 DEF Follows, Route
  <2>10. CASE ~(attempt[t] < max_attempts)
    <3>1. attempt[t] = max_attempts
      BY <2>10
    <3> QED
      <4>1. \A h \in Nat \ {0} :
              /\ h < hop'[t] => h <= hop[t]
              /\ h >= hop'[t] => h > hop[t]
        BY <2>1, <2>10
      <4>2. pc'[t] = "try" /\ attempt'[t] = 1 /\ request' = request
        BY <2>1, <2>10
      <4>3. \A h \in Nat \ {0} : h < hop'[t] => Cardinality(At(t, h)') =
               IF Chain[request[t]][h] \in Capable[request[t]] THEN max_attempts ELSE 0
        BY <2>7, <2>8, <3>1, <4>1
      <4>4. \A h \in Nat \ {0} : h >= hop'[t] => Cardinality(At(t, h)') = 0 /\ At(t, h)' = {}
        BY <2>8, <4>1, NoneCounted
      <4>5. \A h \in Nat \ {0} : h < hop'[t] => \A e \in At(t, h)' : e.kind \in Retryable
        BY <2>8, <4>1
      <4>6. \A h \in Nat \ {0} : /\ h = hop'[t] => h >= hop'[t] /\ ~(h < hop'[t])
                                 /\ h > hop'[t] => h >= hop'[t] /\ ~(h < hop'[t])
        BY <2>1
      <4> QED
        BY <4>2, <4>3, <4>4, <4>5, <4>6 DEF Follows
  <2> QED
    BY <2>9, <2>10
<1>8. ASSUME NEW t \in Threads, Respond(t) \/ settle(t), pc'[t] # "idle"
      PROVE  Follows(t)'
  <2>1. /\ pc[t] \in {"sent", "settle"} /\ pc'[t] \in {"settle", "judge"}
        /\ UNCHANGED <<calls, request, hop, attempt>>
    BY <1>8 DEF Respond, settle, place
  <2>2. \A h \in Nat : h # hop[t] => At(t, h)' = At(t, h)
    BY <1>8, <2>1 DEF Respond, settle, At, Event
  <2>3. Follows(t)
    BY <2>1 DEF HopInv
  <2>4. \A h \in Nat \ {0} :
          /\ h < hop[t] => At(t, h)' = At(t, h) /\ h # hop[t]
          /\ h > hop[t] => At(t, h)' = At(t, h) /\ h # hop[t]
    BY <2>2
  <2>5. pc'[t] \notin MayRetry /\ pc[t] # "try" /\ Route(t)' = Route(t)
    BY <2>1 DEF MayRetry, Route
  <2> QED
    BY <2>1, <2>3, <2>4, <2>5 DEF Follows
<1>9. CASE UNCHANGED vars
  <2>1. pc' = pc /\ \A t \in Threads : SameCall(t)
    BY <1>9 DEF vars, place, SameCall, At
  <2> QED
    BY <2>1, FollowsFrame DEF HopInv
<1> QED
  BY <1>1, <1>2, <1>3, <1>4, <1>5, <1>6, <1>7, <1>8, <1>9 DEF Next, Acts, Step

(* Fallbacks come in the configured order, for any number of threads, any   *)
(* chain and any retry policy: a call reaches a route only after every      *)
(* earlier capable one has failed max_attempts times, each time retryably.  *)
THEOREM ClientFallbackInOrder == Spec => []FallbackInOrder
<1>1. Init => HopInv
  BY DEF Init, HopInv
<1>2. IInv /\ HopInv => FallbackInOrder
  <2> SUFFICES ASSUME IInv, HopInv, NEW t \in Threads, pc[t] # "idle", NEW h \in 1 .. hop[t] - 1
               PROVE  /\ \A e \in At(t, h) : e.kind \in Retryable
                      /\ Cardinality(At(t, h)) =
                           IF Chain[request[t]][h] \in Capable[request[t]] THEN max_attempts ELSE 0
    BY DEF FallbackInOrder, At
  <2>1. h \in Nat \ {0} /\ h < hop[t]
    BY DEF IInv, TypeOK
  <2> QED
    BY <2>1 DEF HopInv, Follows
<1> QED
  BY <1>1, <1>2, HopStep, ClientInvariant, PTL DEF Spec

-----------------------------------------------------------------------------
(* The money held is the money accounted for.                               *)

Logged  == SumFunction([e \in events |-> HeldFor(e)])
Pending == SumFunction([t \in InFlight |-> Allowance(Route(t))])

(* What a thread contributes to the money in flight.                        *)
Share(t) == IF t \in InFlight THEN Allowance(Route(t)) ELSE 0

LEMMA HeldForTyped ==
  ASSUME TypeOK, NEW e \in events
  PROVE  HeldFor(e) \in Int
<1>1. e \in EventType
  BY DEF TypeOK
<1>2. e.route \in Routes /\ (Settled(e.meter) # Unset => Settled(e.meter) \in Nat)
  BY <1>1 DEF EventType, Settled
<1> QED
  BY <1>2, AllowanceType DEF HeldFor

(* A new entry adds what it holds.                                          *)
LEMMA LoggedGains ==
  ASSUME TypeOK, LogInv, TypeOK', NEW new, new \notin events, events' = events \cup {new}
  PROVE  /\ Logged \in Int /\ HeldFor(new) \in Int
         /\ Logged' = Logged + HeldFor(new)
<1> DEFINE f == [e \in events |-> HeldFor(e)]
           g == [e \in events' |-> HeldFor(e)]
<1>1. /\ IsFiniteSet(DOMAIN f) /\ new \notin DOMAIN f /\ DOMAIN g = DOMAIN f \cup {new}
      /\ \A e \in DOMAIN f : f[e] \in Int /\ g[e] = f[e]
  BY HeldForTyped DEF LogInv
<1>2. HeldFor(new) \in Int /\ g[new] = HeldFor(new)
  <2>1. new \in EventType
    BY DEF TypeOK
  <2>2. new.route \in Routes /\ (Settled(new.meter) # Unset => Settled(new.meter) \in Nat)
    BY <2>1 DEF EventType, Settled
  <2> QED
    BY <2>2, AllowanceType DEF HeldFor
<1>3. Logged = SumFunction(f) /\ Logged' = SumFunction(g)
  BY DEF Logged
<1> HIDE DEF f, g
<1>4. SumFunction(f) \in Int /\ SumFunction(g) = SumFunction(f) + g[new]
  BY <1>1, <1>2, SumExtends
<1> QED
  BY <1>2, <1>3, <1>4

(* Replacing an entry exchanges what the two hold.                          *)
LEMMA LoggedSwaps ==
  ASSUME TypeOK, LogInv, TypeOK', NEW old \in events, NEW new, SameAttempt(new, old),
         events' = (events \ {old}) \cup {new}
  PROVE  /\ Logged \in Int /\ HeldFor(old) \in Int /\ HeldFor(new) \in Int
         /\ Logged' = Logged + HeldFor(new) - HeldFor(old)
<1> DEFINE rest == events \ {old}
           f == [e \in rest |-> HeldFor(e)]
           g == [e \in events |-> HeldFor(e)]
           h == [e \in events' |-> HeldFor(e)]
<1>1. IsFiniteSet(rest) /\ \A e \in rest : HeldFor(e) \in Int
  BY FS_RemoveElement, HeldForTyped DEF LogInv
<1>2. new \notin rest
  BY DEF LogInv, SameAttempt
<1>3. HeldFor(old) \in Int /\ HeldFor(new) \in Int
  <2>1. new \in EventType
    BY DEF TypeOK
  <2>2. new.route \in Routes /\ (Settled(new.meter) # Unset => Settled(new.meter) \in Nat)
    BY <2>1 DEF EventType, Settled
  <2> QED
    BY <2>2, AllowanceType, HeldForTyped DEF HeldFor
<1>4. /\ DOMAIN f = rest /\ DOMAIN g = rest \cup {old} /\ DOMAIN h = rest \cup {new}
      /\ \A e \in rest : f[e] \in Int /\ g[e] = f[e] /\ h[e] = f[e]
      /\ g[old] = HeldFor(old) /\ h[new] = HeldFor(new) /\ old \notin rest
  BY <1>1
<1>5. Logged = SumFunction(g) /\ Logged' = SumFunction(h)
  BY DEF Logged
<1> HIDE DEF rest, f, g, h
<1>6. SumFunction(f) \in Int /\ SumFunction(g) = SumFunction(f) + g[old]
  BY <1>1, <1>3, <1>4, SumExtends
<1>7. SumFunction(h) = SumFunction(f) + h[new]
  BY <1>1, <1>2, <1>3, <1>4, SumExtends
<1> QED
  BY <1>3, <1>4, <1>5, <1>6, <1>7

(* A step of one thread changes the money in flight by its own share.       *)
LEMMA PendingMoves ==
  ASSUME TypeOK, PlaceInv, TypeOK', PlaceInv', NEW t \in Threads,
         \A r \in Threads \ {t} :
           /\ r \in InFlight' <=> r \in InFlight
           /\ Route(r)' = Route(r)
  PROVE  /\ Pending \in Int /\ Share(t) \in Int /\ Share(t)' \in Int
         /\ Pending' = Pending + Share(t)' - Share(t)
<1> DEFINE rest == InFlight \ {t}
           Amount(r) == Allowance(Route(r))
           f == [r \in rest |-> Amount(r)]
           g == [r \in InFlight |-> Amount(r)]
           h == [r \in InFlight' |-> Amount(r)']
<1>1. IsFiniteSet(rest)
  BY FS_Subset, SDKClientAssumption DEF SDKClientAssumption, InFlight
<1>2. \A r \in InFlight : Amount(r) \in Int
  <2>1. \A r \in InFlight : r \in Threads /\ pc[r] \in Active
    BY DEF InFlight, Active
  <2> QED
    BY <2>1, RouteType, AllowanceType
<1>3. t \in InFlight' => Amount(t)' \in Int
  <2> SUFFICES ASSUME t \in InFlight' PROVE Amount(t)' \in Int
    OBVIOUS
  <2>1. pc'[t] \in {"sent", "log"} /\ hop'[t] \in DOMAIN Chain[request'[t]] /\ request'[t] \in Requests
    BY DEF InFlight, PlaceInv
  <2>2. Chain[request'[t]] \in Seq(Routes)
    BY <2>1, SDKClientAssumption DEF SDKClientAssumption
  <2>3. Route(t)' \in Routes
    BY <2>1, <2>2 DEF Route
  <2> QED
    BY <2>3, SDKClientAssumption DEF Allowance, SDKClientAssumption
<1>4. \A r \in rest : r \in InFlight' /\ Amount(r)' = Amount(r)
  BY DEF InFlight, Allowance
<1>5. InFlight' \ {t} = rest
  BY DEF InFlight
<1>6. Pending = SumFunction(g) /\ Pending' = SumFunction(h)
  BY DEF Pending
<1>7. /\ DOMAIN f = rest /\ DOMAIN g = InFlight /\ DOMAIN h = InFlight'
      /\ \A r \in rest : f[r] \in Int /\ g[r] = f[r] /\ h[r] = f[r]
      /\ t \in InFlight => g[t] = Share(t)
      /\ t \in InFlight' => h[t] = Share(t)'
      /\ t \notin rest
  BY <1>2, <1>4 DEF Share
<1>8. Share(t) \in Int /\ Share(t)' \in Int
  BY <1>2, <1>3 DEF Share
<1>9. t \notin InFlight => InFlight = rest /\ Share(t) = 0
  BY DEF Share
<1>10. t \notin InFlight' => InFlight' = rest /\ Share(t)' = 0
  BY <1>5 DEF Share
<1>11. t \in InFlight => InFlight = rest \cup {t}
  OBVIOUS
<1>12. t \in InFlight' => InFlight' = rest \cup {t}
  BY <1>5
<1> HIDE DEF rest, f, g, h
<1>13. SumFunction(f) \in Int
  BY <1>1, <1>7, SumType DEF SumFunction
<1>14. SumFunction(g) = SumFunction(f) + Share(t)
  <2>1. CASE t \in InFlight
    BY <2>1, <1>1, <1>7, <1>8, <1>11, SumExtends
  <2>2. CASE t \notin InFlight
    <3>1. SumFunction(g) = SumFunction(f)
      BY <2>2, <1>1, <1>7, <1>9, SumSame DEF SumFunction
    <3> QED
      BY <3>1, <2>2, <1>9, <1>13
  <2> QED
    BY <2>1, <2>2
<1>15. SumFunction(h) = SumFunction(f) + Share(t)'
  <2>1. CASE t \in InFlight'
    BY <2>1, <1>1, <1>7, <1>8, <1>12, SumExtends
  <2>2. CASE t \notin InFlight'
    <3>1. SumFunction(h) = SumFunction(f)
      BY <2>2, <1>1, <1>7, <1>10, SumSame DEF SumFunction
    <3> QED
      BY <3>1, <2>2, <1>10, <1>13
  <2> QED
    BY <2>1, <2>2
<1> QED
  BY <1>6, <1>8, <1>13, <1>14, <1>15

LEMMA HeldInit == Init => HeldReconciles
<1> SUFFICES ASSUME Init PROVE HeldReconciles
  OBVIOUS
<1>1. events = {} /\ InFlight = {} /\ held = 0
  BY DEF Init, InFlight
<1>2. /\ SumFunction([e \in events |-> HeldFor(e)]) = 0
      /\ SumFunction([t \in InFlight |-> Allowance(Route(t))]) = 0
  BY <1>1, SumOfNone
<1> QED
  BY <1>1, <1>2 DEF HeldReconciles

LEMMA HeldStep == IInv /\ HeldReconciles /\ [Next]_vars => HeldReconciles'
<1> SUFFICES ASSUME IInv, HeldReconciles, [Next]_vars PROVE HeldReconciles'
  OBVIOUS
<1>a. TypeOK /\ PlaceInv /\ LogInv /\ TypeOK' /\ PlaceInv'
  BY TypeStep, PlaceStep DEF IInv
<1>b. /\ pc \in [Threads -> Places] /\ failure \in [Threads -> Failures \cup {"none"}]
      /\ held \in Int /\ held = Logged + Pending
      /\ \A t \in Threads : pc[t] = "log" <=> failure[t] # "none"
  BY <1>a DEF TypeOK, PlaceInv, HeldReconciles, Logged, Pending
<1>c. ASSUME held' = Logged' + Pending' PROVE HeldReconciles'
  BY <1>c DEF HeldReconciles, Logged, Pending
<1>d. ASSUME NEW t \in Threads, Acts(t)
      PROVE  /\ Pending \in Int /\ Share(t) \in Int /\ Share(t)' \in Int
             /\ Pending' = Pending + Share(t)' - Share(t)
  <2>1. ASSUME NEW r \in Threads \ {t}
        PROVE  (r \in InFlight' <=> r \in InFlight) /\ Route(r)' = Route(r)
    <3>1. pc'[r] = pc[r] /\ request'[r] = request[r] /\ hop'[r] = hop[r]
      BY <1>a, <1>d, OthersKeepTheirCall DEF SameCall
    <3>2. failure'[r] = failure[r]
      BY <1>b, <1>d DEF Acts, Step, complete, AllUnavailable, SkipHop, refuse, reserve, GuardRejects,
           StatusError, Unanswered, OtherError, LogFailure, Respond, settle, Reject, Accept, Failed
    <3> QED
      BY <3>1, <3>2 DEF InFlight, Route
  <2> QED
    BY <1>a, <2>1, PendingMoves
<1>e. ASSUME events' = events PROVE Logged' = Logged
  BY <1>e DEF Logged
<1>f. \A t \in Threads : pc[t] \in Active => Allowance(Route(t)) \in Int
  BY <1>a, RouteType, AllowanceType
<1>g. Logged \in Int
  BY <1>a, HeldForTyped, SumType DEF Logged, LogInv, SumFunction
<1>1. ASSUME NEW t \in Threads,
             \/ \E q \in Requests : complete(t, q)
             \/ AllUnavailable(t) \/ SkipHop(t) \/ refuse(t) \/ Reject(t)
      PROVE  HeldReconciles'
  <2>1. t \notin InFlight /\ t \notin InFlight' /\ held' = held /\ events' = events
    BY <1>1, <1>a, <1>b DEF complete, AllUnavailable, SkipHop, refuse, Reject, Raise, InChain,
         InFlight, budget
  <2>2. Share(t) = 0 /\ Share(t)' = 0
    BY <2>1 DEF Share
  <2>3. Acts(t)
    BY <1>1 DEF Acts, Step
  <2> QED
    BY <1>b, <1>c, <1>d, <1>e, <1>g, <2>1, <2>2, <2>3
<1>2. ASSUME NEW t \in Threads, reserve(t)
      PROVE  HeldReconciles'
  <2>1. /\ t \notin InFlight /\ t \in InFlight' /\ held' = held + Allowance(Route(t))
        /\ events' = events /\ Route(t)' = Route(t)
    BY <1>2, <1>b DEF reserve, InChain, InFlight, Route
  <2>2. Share(t) = 0 /\ Share(t)' = Allowance(Route(t))
    BY <2>1 DEF Share, Allowance
  <2>3. Acts(t)
    BY <1>2 DEF Acts, Step
  <2> QED
    BY <1>b, <1>c, <1>d, <1>e, <1>g, <2>1, <2>2, <2>3
<1>3. ASSUME NEW t \in Threads, GuardRejects(t) \/ StatusError(t)
      PROVE  HeldReconciles'
  <2>1. /\ t \in InFlight /\ t \notin InFlight' /\ held' = held - Allowance(Route(t))
        /\ events' = events
    BY <1>3, <1>b DEF GuardRejects, StatusError, Failed, InFlight, Retained, budget
  <2>2. Share(t) = Allowance(Route(t)) /\ Share(t)' = 0
    BY <2>1 DEF Share
  <2>3. Acts(t)
    BY <1>3 DEF Acts, Step
  <2> QED
    BY <1>b, <1>c, <1>d, <1>e, <1>g, <2>1, <2>2, <2>3
<1>4. ASSUME NEW t \in Threads, Unanswered(t) \/ OtherError(t)
      PROVE  HeldReconciles'
  <2>1. /\ t \in InFlight /\ t \in InFlight' /\ held' = held
        /\ events' = events /\ Route(t)' = Route(t)
    BY <1>4, <1>b DEF Unanswered, OtherError, Failed, InFlight, Retained, Route, budget, place
  <2>2. Share(t) = Allowance(Route(t)) /\ Share(t)' = Allowance(Route(t))
    BY <2>1 DEF Share, Allowance
  <2>3. Acts(t)
    BY <1>4 DEF Acts, Step
  <2> QED
    BY <1>b, <1>c, <1>d, <1>e, <1>g, <2>1, <2>2, <2>3
<1>5. ASSUME NEW t \in Threads, LogFailure(t)
      PROVE  HeldReconciles'
  <2> DEFINE new == Event(t, failure[t], Unmetered)
  <2>1. /\ new.by = t /\ new.call = calls[t] /\ new.attempt = attempts[t] /\ new.kind = failure[t]
        /\ new.route = Route(t)
        /\ pc[t] = "log" /\ events' = events \cup {new} /\ held' = held
    BY <1>5 DEF LogFailure, Event, Route, budget
  <2>2. /\ t \in InFlight <=> failure[t] \in Retained
        /\ t \notin InFlight' /\ failure[t] \in Failures
    BY <1>5, <1>b DEF LogFailure, Raise, InFlight
  <2> HIDE DEF new
  <2>3. new \notin events
    BY <1>a, <2>1, NewEntry
  <2>4. Logged' = Logged + HeldFor(new) /\ HeldFor(new) \in Int
    BY <1>a, <2>1, <2>3, LoggedGains
  <2>5. HeldFor(new) = Share(t) /\ Share(t)' = 0
    BY <2>1, <2>2 DEF HeldFor, Share, Failures, Responses
  <2>6. Acts(t)
    BY <1>5 DEF Acts, Step
  <2> QED
    BY <1>b, <1>c, <1>d, <1>g, <2>1, <2>4, <2>5, <2>6
<1>6. ASSUME NEW t \in Threads, Respond(t)
      PROVE  HeldReconciles'
  <2> DEFINE new == Event(t, "received", Unmetered)
  <2>1. /\ new.by = t /\ new.call = calls[t] /\ new.attempt = attempts[t] /\ new.kind = "received"
        /\ new.route = Route(t) /\ new.meter = Unmetered
        /\ pc[t] = "sent" /\ events' = events \cup {new} /\ held' = held
    BY <1>6 DEF Respond, Event, Route, budget
  <2>2. t \in InFlight /\ t \notin InFlight'
    BY <1>6, <1>b DEF Respond, InFlight
  <2> HIDE DEF new
  <2>3. new \notin events
    BY <1>a, <2>1, NewEntry
  <2>4. Logged' = Logged + HeldFor(new) /\ HeldFor(new) \in Int
    BY <1>a, <2>1, <2>3, LoggedGains
  <2>5. HeldFor(new) = Share(t) /\ Share(t)' = 0
    BY <2>1, <2>2 DEF HeldFor, Share, Responses, Settled, Unmetered
  <2>6. Acts(t)
    BY <1>6 DEF Acts, Step
  <2> QED
    BY <1>b, <1>c, <1>d, <1>g, <2>1, <2>4, <2>5, <2>6
<1>7. ASSUME NEW t \in Threads, settle(t)
      PROVE  HeldReconciles'
  <2> DEFINE old == Event(t, "received", Unmetered)
  <2>1. PICK m \in Meters(Route(t)) :
          /\ events' = (events \ {old}) \cup {Event(t, "response", m)}
          /\ held' = IF Cap # Unset /\ Settled(m) # Unset
                     THEN held + Settled(m) - Allowance(Route(t)) ELSE held
    BY <1>7 DEF settle
  <2> DEFINE new == Event(t, "response", m)
  <2>2. /\ old \in events /\ SameAttempt(new, old) /\ pc[t] = "settle"
        /\ old.kind = "received" /\ old.route = Route(t) /\ old.meter = Unmetered
        /\ new.kind = "response" /\ new.route = Route(t) /\ new.meter = m
    BY <1>7, <1>a DEF settle, LogInv, Event, SameAttempt, Route
  <2>3. t \notin InFlight /\ t \notin InFlight'
    BY <1>7, <1>b DEF settle, InFlight
  <2> HIDE DEF old, new
  <2>4. events' = (events \ {old}) \cup {new}
    BY <2>1 DEF new
  <2>5. /\ Logged' = Logged + HeldFor(new) - HeldFor(old)
        /\ HeldFor(old) \in Int /\ HeldFor(new) \in Int
    BY <1>a, <2>2, <2>4, LoggedSwaps
  <2>6. HeldFor(old) = Allowance(Route(t))
    BY <2>2 DEF HeldFor, Responses, Settled, Unmetered
  <2>7. HeldFor(new) = IF Cap # Unset /\ Settled(m) # Unset THEN Settled(m) ELSE Allowance(Route(t))
    BY <2>2 DEF HeldFor, Responses
  <2>8. held' = held + HeldFor(new) - HeldFor(old)
    BY <1>b, <2>1, <2>5, <2>6, <2>7
  <2>9. Share(t) = 0 /\ Share(t)' = 0
    BY <2>3 DEF Share
  <2>10. Acts(t)
    BY <1>7 DEF Acts, Step
  <2> QED
    BY <1>b, <1>c, <1>d, <1>g, <2>5, <2>8, <2>9, <2>10
<1>8. ASSUME NEW t \in Threads, Accept(t)
      PROVE  HeldReconciles'
  <2>1. PICK old \in events :
          old.kind = "response" /\ events' = (events \ {old}) \cup {[old EXCEPT !.kind = "success"]}
    BY <1>8 DEF Accept
  <2> DEFINE new == [old EXCEPT !.kind = "success"]
  <2>2. SameAttempt(new, old) /\ new.kind = "success" /\ new.meter = old.meter
    BY <1>a, AcceptedEntry
  <2>3. new.route = old.route
    BY <1>a DEF TypeOK, EventType
  <2>4. t \notin InFlight /\ t \notin InFlight' /\ held' = held
    BY <1>8, <1>b DEF Accept, InFlight, budget
  <2> HIDE DEF new
  <2>5. events' = (events \ {old}) \cup {new}
    BY <2>1 DEF new
  <2>6. /\ Logged' = Logged + HeldFor(new) - HeldFor(old)
        /\ HeldFor(old) \in Int /\ HeldFor(new) \in Int
    BY <1>a, <2>2, <2>5, LoggedSwaps
  <2>7. HeldFor(new) = HeldFor(old)
    BY <2>1, <2>2, <2>3 DEF HeldFor, Responses
  <2>8. Share(t) = 0 /\ Share(t)' = 0
    BY <2>4 DEF Share
  <2>9. Acts(t)
    BY <1>8 DEF Acts, Step
  <2> QED
    BY <1>b, <1>c, <1>d, <1>g, <2>4, <2>6, <2>7, <2>8, <2>9
<1>9. CASE UNCHANGED vars
  BY <1>9 DEF vars, budget, place, HeldReconciles, InFlight, Route
<1> QED
  BY <1>1, <1>2, <1>3, <1>4, <1>5, <1>6, <1>7, <1>8, <1>9 DEF Next, Step

(* However threads interleave, the total a budget holds is exactly what the  *)
(* log and the attempts in flight account for: nothing is released twice,    *)
(* and no reservation is forgotten.                                         *)
THEOREM ClientHeldReconciles == Spec => []HeldReconciles
<1> QED
  BY HeldInit, HeldStep, ClientInvariant, PTL DEF Spec
=============================================================================
