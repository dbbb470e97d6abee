------------------------------- MODULE Ledger -------------------------------
(***************************************************************************)
(* What the store promises: its database only ever changes by one whole    *)
(* action at a time, each legal in the database it is applied to.  There   *)
(* are no connections, transactions, sessions or failures here; Store      *)
(* shows that the code has this appearance in spite of all of them.        *)
(***************************************************************************)
EXTENDS Domain

VARIABLE db

Register(c, a) ==
  /\ Verdict(db, c, a) = "go"
  /\ db' = Effect(db, c, a)

Init == db = FixtureDatabase

Next == \E c \in Customers, a \in Args : Register(c, a)

Spec == Init /\ [][Next]_db

-----------------------------------------------------------------------------
TypeOK == db \in Database

(* No product is oversold and no slot overbooked, no order or customer is   *)
(* served twice, and only owners act on eligible orders.                    *)
LedgerConsistent == Consistent(db)
=============================================================================
