------------------------------ MODULE MCReview -------------------------------
(* A small instance of Review: a live run of a few cases, its review, one   *)
(* judge.                                                                   *)
EXTENDS Review, TLC

CONSTANTS m1, m2, yes, no, sorry

OneCase == <<1>>
ThreeCases == <<1, 2, 3>>
(* The first cases are of one stratum, the last of another.                 *)
LastApart == [c \in ToSet(Cases) |-> IF c = Len(Cases) THEN 2 ELSE 1]

Accepted(m) == [kind |-> "success", served |-> m]
Nobody(k) == [kind |-> k, served |-> Unset]

Outcomes ==
  {Nobody(k) : k \in {"no_call", "refused", "stopping", "other", "response"}}
  \cup {Accepted(m) : m \in Models} \cup {[Accepted(m) EXCEPT !.kind = "response"] : m \in Models}
JustAccepted == {Accepted(m) : m \in Models}
JudgeOutcomes == {Nobody("unanswered"), Accepted(m1), Accepted(m2)}

Names == Permutations(Models) \cup Permutations(Answers)
=============================================================================
