----------------------------- MODULE MCSDKClient ----------------------------
(* Small instances of SDKClient: threads that share one budget over a chain *)
(* of two routes.                                                           *)
EXTENDS SDKClient, TLC

CONSTANTS t1, t2, t3, rA, rB, rX

(* "x" goes to the misdirected route, the others fall back from rA to rB.    *)
Fallback == [q \in Requests |-> IF q = "x" THEN <<rX>> ELSE <<rA, rB>>]
(* "x" goes to the misdirected route, the others to a good one.             *)
GoodOrBad == [q \in Requests |-> IF q = "x" THEN <<rX>> ELSE <<rA>>]

AllCapable == [q \in Requests |-> Routes]
OnlySecond == [q \in Requests |-> IF q = "b" THEN {rB} ELSE Routes]
NoneTooLong == [q \in Requests |-> {}]
SecondTooLong == [q \in Requests |-> IF q = "a" THEN {rB} ELSE {}]
ReserveTwo == [r \in Routes |-> 2]
=============================================================================
