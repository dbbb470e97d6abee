------------------------------ MODULE MCStore -------------------------------
(* Small instances of Store: two customers who compete for one replacement  *)
(* product and one appointment slot.                                        *)
EXTENDS Store, TLC

CONSTANTS cA, cB, oA, oB, oOld, p1, p2, t1, s1, s2, s3, k1, k2

MCOwner == [o \in Orders |-> IF o = oB THEN cB ELSE cA]
MCSku == [o \in Orders |-> p1]
MCPrice == [p \in Products |-> 1]
OneLeft == [p \in Products |-> 1]
TwoLeft == [p \in Products |-> 2]
NoCapacity == [t \in Slots |-> 0]
CapacityOne == (t1 :> 1)
CapacityTwo == (t1 :> 2)

SeparateStores == (s1 :> k1) @@ (s2 :> k2)
SharedAndSeparate == (s1 :> k1) @@ (s2 :> k1) @@ (s3 :> k2)
TwoCustomers == (s1 :> cA) @@ (s2 :> cB)
OneCustomerOneVisitor == [s \in Sessions |-> IF s = s3 THEN NoId ELSE cA]
=============================================================================
