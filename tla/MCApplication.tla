--------------------------- MODULE MCApplication ----------------------------
(* Small instances of Application: one or two conversations, a question,    *)
(* an order's status, and requests that need a confirmation.                *)
EXTENDS Application, TLC

CONSTANTS cA, cB, oA, oB, p1, p2, s1, s2, confirm, price, cost, attack

MCOwner == [o \in Orders |-> IF o = oA THEN cA ELSE cB]
MCSku == [o \in Orders |-> p1]
MCPrice == [p \in Products |-> 1]
TwoLeft == [p \in Products |-> 2]
NoCapacity == [t \in Slots |-> 0]

ThreeMessages == [s \in Sessions |-> 3]
TwoMessages == [s \in Sessions |-> 2]
TwoAndOne == (s1 :> 2) @@ (s2 :> 1)

OneCustomer == [s \in Sessions |-> cA]
TwoCustomers == (s1 :> cA) @@ (s2 :> cB)

Return == [kind |-> "return", order |-> oA, sku |-> NoId, slot |-> NoId, reason |-> "r"]
Exchange == [kind |-> "exchange", order |-> oA, sku |-> p2, slot |-> NoId, reason |-> "r"]
BadReturn == [Return EXCEPT !.reason = "bad"]
WorseReturn == [Return EXCEPT !.reason = "worse"]

BothCompete == {[customer |-> cB, args |-> [Exchange EXCEPT !.order = oB]],
                [customer |-> cA, args |-> Return]}
NobodyCompetes == {}
OneCompetes == {[customer |-> cA, args |-> Exchange]}

RefusedReviews == {BadReturn}
RefusedResults == {WorseReturn}

Faq == [Blank EXCEPT !.intent = "faq"]
Status == [Blank EXCEPT !.intent = "order_status", !.order = oA]
Support == [Blank EXCEPT !.intent = "handoff"]

EveryRequest ==
  {Faq, Status, Support, Blank, RequestFor(Exchange), RequestFor(BadReturn), RequestFor(WorseReturn)}
Questions == {Faq, Status}
AskedAgain == {<<cost, price>>, <<price, cost>>}
OneEdit == {[p \in Products |-> 3]}
=============================================================================
