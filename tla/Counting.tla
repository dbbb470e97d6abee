------------------------------- MODULE Counting -------------------------------
(***************************************************************************)
(* Facts about finite sets that the proofs of several modules rest on: the *)
(* first and the last of a set of positions, how large subsets are, and    *)
(* what happens to a sum when a summand comes, goes or changes.            *)
(*                                                                         *)
(* Induction is by least counterexample: strict inclusion is well-founded  *)
(* on the subsets of a finite set, so a set of subsets that is not empty   *)
(* has a member of which no proper part is in it.                          *)
(***************************************************************************)
EXTENDS Functions, FiniteSetTheorems, FunctionTheorems, WellFoundedInduction, TLAPS

(* Of a family of subsets of a finite set, one has no proper part in it.    *)
LEMMA Smallest ==
  ASSUME NEW S, IsFiniteSet(S), NEW Family, Family \subseteq SUBSET S, Family # {}
  PROVE  \E t \in Family : \A u \in Family : u \subseteq t => t \subseteq u
<1> DEFINE R == StrictSubsetOrdering(S)
<1>1. IsWellFoundedOn(R, SUBSET S)
  BY FS_StrictSubsetOrderingWellFounded, FS_FiniteSubsetsOfFinite
<1>2. PICK t \in Family : \A u \in Family : ~(<<u, t>> \in R)
  <2> HIDE DEF R
  <2> QED
    BY <1>1, WFMin
<1>3. ASSUME NEW u \in Family, u \subseteq t PROVE t \subseteq u
  <2>1. ~(u # t)
    BY <1>2, <1>3 DEF StrictSubsetOrdering
  <2> QED
    BY <2>1
<1> QED
  BY <1>3

-----------------------------------------------------------------------------
(* Positions.                                                               *)

(* A set of positions that is not empty has a first one.                    *)
LEMMA LeastOf ==
  ASSUME NEW n \in Nat, NEW T \in SUBSET (1 .. n), T # {}
  PROVE  \E x \in T : \A y \in T : x <= y
<1> DEFINE Below(x) == {y \in T : y < x}
           Family == {Below(x) : x \in T}
           R == StrictSubsetOrdering(T)
<1>1. T \subseteq Nat
  OBVIOUS
<1>2. IsFiniteSet(1 .. n)
  BY FS_Interval
<1>3. IsWellFoundedOn(R, SUBSET T)
  BY <1>2, FS_Subset, FS_StrictSubsetOrderingWellFounded, FS_FiniteSubsetsOfFinite
<1>4. Family \subseteq SUBSET T /\ Family # {}
  OBVIOUS
<1>5. \E A \in Family : \A B \in Family : ~(<<B, A>> \in R)
  <2> HIDE DEF Family, R
  <2> QED
    BY <1>3, <1>4, WFMin
<1>6. PICK x \in T : \A y \in T : ~(<<Below(y), Below(x)>> \in R)
  BY <1>5
<1>7. ASSUME NEW y \in T, y < x PROVE FALSE
  <2>1. y \in Below(x)
    BY <1>7
  <2>2. y \notin Below(y)
    BY <1>1
  <2>3. ASSUME NEW z \in Below(y) PROVE z \in Below(x)
    <3>1. z \in T /\ z \in Nat /\ z < y
      BY <2>3, <1>1
    <3>2. z < x
      BY <3>1, <1>1, <1>7
    <3> QED
      BY <3>1, <3>2
  <2>4. <<Below(y), Below(x)>> \in R
    BY <2>1, <2>2, <2>3 DEF StrictSubsetOrdering
  <2> QED
    BY <2>4, <1>6
<1> QED
  BY <1>1, <1>7

(* A set of positions that is not empty has a last one.                     *)
LEMMA GreatestOf ==
  ASSUME NEW n \in Nat, NEW T \in SUBSET (1 .. n), T # {}
  PROVE  \E x \in T : \A y \in T : y <= x
<1> DEFINE Above(x) == {y \in T : y > x}
           Family == {Above(x) : x \in T}
           R == StrictSubsetOrdering(T)
<1>1. T \subseteq Nat
  OBVIOUS
<1>2. IsFiniteSet(1 .. n)
  BY FS_Interval
<1>3. IsWellFoundedOn(R, SUBSET T)
  BY <1>2, FS_Subset, FS_StrictSubsetOrderingWellFounded, FS_FiniteSubsetsOfFinite
<1>4. Family \subseteq SUBSET T /\ Family # {}
  OBVIOUS
<1>5. \E A \in Family : \A B \in Family : ~(<<B, A>> \in R)
  <2> HIDE DEF Family, R
  <2> QED
    BY <1>3, <1>4, WFMin
<1>6. PICK x \in T : \A y \in T : ~(<<Above(y), Above(x)>> \in R)
  BY <1>5
<1>7. ASSUME NEW y \in T, y > x PROVE FALSE
  <2>1. y \in Above(x)
    BY <1>7
  <2>2. y \notin Above(y)
    BY <1>1
  <2>3. ASSUME NEW z \in Above(y) PROVE z \in Above(x)
    <3>1. z \in T /\ z \in Nat /\ z > y
      BY <2>3, <1>1
    <3>2. z > x
      BY <3>1, <1>1, <1>7
    <3> QED
      BY <3>1, <3>2
  <2>4. <<Above(y), Above(x)>> \in R
    BY <2>1, <2>2, <2>3 DEF StrictSubsetOrdering
  <2> QED
    BY <2>4, <1>6
<1> QED
  BY <1>1, <1>7

(* The positions up to n are n.                                             *)
LEMMA UpTo ==
  ASSUME NEW n \in Nat
  PROVE  IsFiniteSet(1 .. n) /\ Cardinality(1 .. n) = n
<1>1. IsFiniteSet(1 .. n) /\ Cardinality(1 .. n) = IF 1 > n THEN 0 ELSE n - 1 + 1
  BY FS_Interval
<1> QED
  BY <1>1

(* A set that is one member richer than another is larger.                  *)
LEMMA Larger ==
  ASSUME NEW S, IsFiniteSet(S), NEW A \in SUBSET S, NEW B \in SUBSET S,
         A \subseteq B, NEW x \in B, x \notin A
  PROVE  /\ Cardinality(A) \in Nat /\ Cardinality(B) \in Nat
         /\ Cardinality(A) < Cardinality(B)
<1>1. IsFiniteSet(A) /\ IsFiniteSet(B)
  BY FS_Subset
<1>2. Cardinality(A) \in Nat /\ Cardinality(B) \in Nat
  BY <1>1, FS_CardinalityType
<1>3. Cardinality(A) <= Cardinality(B) /\ (Cardinality(B) = Cardinality(A) => B = A)
  BY <1>1, FS_Subset
<1> QED
  BY <1>2, <1>3

(* Numbers that tell the members of a set apart, and are below its size,    *)
(* leave none out.                                                          *)
LEMMA Ranked ==
  ASSUME NEW S, IsFiniteSet(S), NEW f \in [S -> 1 .. Cardinality(S)],
         \A i, j \in S : f[i] = f[j] => i = j
  PROVE  \A k \in 1 .. Cardinality(S) : \E i \in S : f[i] = k
<1> DEFINE n == Cardinality(S)
<1>1. n \in Nat
  BY FS_CardinalityType
<1>2. IsFiniteSet(1 .. n) /\ Cardinality(1 .. n) = n
  BY <1>1, FS_Interval
<1>3. f \in Injection(S, 1 .. n)
  BY Fun_IsInj
<1>4. f \in Surjection(S, 1 .. n)
  BY <1>2, <1>3, FS_Injection
<1> QED
  BY <1>4 DEF Surjection

-----------------------------------------------------------------------------
(* Sums.  SumFunctionOnSet is a recursive function on the subsets of a set; *)
(* that there is such a function is the first thing to show.                *)

Pick(s) == CHOOSE x \in s : TRUE

PartialSum(h, f, t) == IF t = {} THEN 0 ELSE f[Pick(t)] + h[t \ {Pick(t)}]

Solves(h, f, S) == h = [t \in SUBSET S |-> PartialSum(h, f, t)]

(* The sum is what the fold's own recursion gives.                          *)
LEMMA SumIs ==
  ASSUME NEW f, NEW S
  PROVE SumFunctionOnSet(f, S) = (CHOOSE h : Solves(h, f, S))[S]
BY DEF SumFunctionOnSet, FoldFunctionOnSet, MapThenFoldSet, Solves, Pick, PartialSum

(* Two solutions agree wherever both are defined.                           *)
LEMMA SolutionsAgree ==
  ASSUME NEW f, NEW S, IsFiniteSet(S), NEW U, NEW h, NEW k,
         Solves(h, f, S), Solves(k, f, U)
  PROVE  \A t \in SUBSET S : t \in SUBSET U => h[t] = k[t]
<1> DEFINE Bad == {t \in SUBSET S : t \in SUBSET U /\ h[t] # k[t]}
<1>1. Bad \subseteq SUBSET S
  OBVIOUS
<1>2. CASE Bad = {}
  BY <1>2
<1>3. CASE Bad # {}
  <2>1. PICK t \in Bad : \A u \in Bad : u \subseteq t => t \subseteq u
    <3> HIDE DEF Bad
    <3> QED
      BY <1>1, <1>3, Smallest
  <2>2. h[t] = PartialSum(h, f, t) /\ k[t] = PartialSum(k, f, t) /\ h[t] # k[t]
    BY DEF Solves
  <2>3. t # {}
    BY <2>2 DEF PartialSum
  <2>4. Pick(t) \in t
    BY <2>3 DEF Pick
  <2> DEFINE u == t \ {Pick(t)}
  <2>5. u \in SUBSET S /\ u \in SUBSET U /\ u \subseteq t /\ ~(t \subseteq u)
    BY <2>4
  <2>6. h[u] = k[u]
    BY <2>1, <2>5
  <2> QED
    BY <2>2, <2>3, <2>6 DEF PartialSum
<1> QED
  BY <1>2, <1>3

(* Every finite set has one.                                                *)
LEMMA SolutionExists ==
  ASSUME NEW f, NEW S, IsFiniteSet(S)
  PROVE  \E h : Solves(h, f, S)
<1> DEFINE Bad == {s \in SUBSET S : ~\E h : Solves(h, f, s)}
           Of(t) == CHOOSE h : Solves(h, f, t)
<1>1. Bad \subseteq SUBSET S
  OBVIOUS
<1>2. CASE Bad = {}
  BY <1>2
<1>3. CASE Bad # {}
  <2>1. PICK s \in Bad : \A u \in Bad : u \subseteq s => s \subseteq u
    <3> HIDE DEF Bad
    <3> QED
      BY <1>1, <1>3, Smallest
  <2>2. ASSUME NEW u, u \in SUBSET s, u # s
        PROVE  Solves(Of(u), f, u)
    <3>1. u \subseteq s /\ ~(s \subseteq u) /\ u \in SUBSET S
      BY <2>2
    <3>2. u \notin Bad
      BY <2>1, <3>1
    <3> QED
      BY <3>1, <3>2
  <2> DEFINE V(u) == Of(u)[u]
             h == [t \in SUBSET s |-> IF t = {} THEN 0 ELSE f[Pick(t)] + V(t \ {Pick(t)})]
  <2>3. ASSUME NEW t \in SUBSET s, t # {}
        PROVE  h[t \ {Pick(t)}] = V(t \ {Pick(t)})
    <3> DEFINE u == t \ {Pick(t)}
    <3>1. Pick(t) \in t
      BY <2>3 DEF Pick
    <3>2. u \in SUBSET s /\ u # s
      BY <3>1
    <3>3. Solves(Of(u), f, u)
      BY <2>2, <3>2
    <3>4. V(u) = PartialSum(Of(u), f, u)
      <4>1. u \in SUBSET u
        OBVIOUS
      <4> HIDE DEF Of, u
      <4> QED
        BY <3>3, <4>1 DEF Solves
    <3>5. CASE u = {}
      BY <3>2, <3>4, <3>5 DEF PartialSum
    <3>6. CASE u # {}
      <4> DEFINE w == u \ {Pick(u)}
      <4>1. Pick(u) \in u
        BY <3>6 DEF Pick
      <4>2. w \in SUBSET u /\ w \in SUBSET s /\ w # s
        BY <3>2, <4>1
      <4>3. Solves(Of(w), f, w)
        BY <2>2, <4>2
      <4>4. IsFiniteSet(u)
        BY <3>2, FS_Subset
      <4>5. Of(u)[w] = Of(w)[w]
        <5>1. w \in SUBSET w
          OBVIOUS
        <5> HIDE DEF Of, u, w
        <5> QED
          BY <3>3, <4>2, <4>3, <4>4, <5>1, SolutionsAgree
      <4>6. h[u] = f[Pick(u)] + V(w)
        BY <3>2, <3>6
      <4>7. V(u) = f[Pick(u)] + Of(u)[w]
        BY <3>4, <3>6 DEF PartialSum
      <4> QED
        BY <4>5, <4>6, <4>7
    <3> QED
      BY <3>5, <3>6
  <2>4. Solves(h, f, s)
    <3>1. ASSUME NEW t \in SUBSET s
          PROVE  h[t] = PartialSum(h, f, t)
      <4>1. h[t] = IF t = {} THEN 0 ELSE f[Pick(t)] + V(t \ {Pick(t)})
        OBVIOUS
      <4>2. t # {} => h[t \ {Pick(t)}] = V(t \ {Pick(t)})
        BY <2>3
      <4> HIDE DEF h, V
      <4> QED
        BY <4>1, <4>2 DEF PartialSum
    <3> DEFINE k == [t \in SUBSET s |-> PartialSum(h, f, t)]
    <3>2. h = [t \in SUBSET s |-> h[t]]
      OBVIOUS
    <3> HIDE DEF h
    <3>3. [t \in SUBSET s |-> h[t]] = k
      BY <3>1
    <3> QED
      BY <3>2, <3>3 DEF Solves
  <2> QED
    BY <2>1, <2>4
<1> QED
  BY <1>2, <1>3

(* The sum is the value of a solution.                                      *)
LEMMA SumSolves ==
  ASSUME NEW f, NEW S, IsFiniteSet(S)
  PROVE  \E h : Solves(h, f, S) /\ SumFunctionOnSet(f, S) = h[S]
<1> DEFINE h == CHOOSE k : Solves(k, f, S)
<1>1. Solves(h, f, S)
  BY SolutionExists
<1> QED
  BY <1>1, SumIs

(* The sum of a part of the set is in the same solution.                    *)
LEMMA SumOfPart ==
  ASSUME NEW f, NEW S, IsFiniteSet(S), NEW h, Solves(h, f, S), NEW t \in SUBSET S
  PROVE  SumFunctionOnSet(f, t) = h[t]
<1>1. IsFiniteSet(t)
  BY FS_Subset
<1>2. PICK k : Solves(k, f, t) /\ SumFunctionOnSet(f, t) = k[t]
  BY <1>1, SumSolves
<1>3. t \in SUBSET t
  OBVIOUS
<1> QED
  BY <1>1, <1>2, <1>3, SolutionsAgree

(* A sum is its chosen summand and the sum of the others.                   *)
LEMMA SumUnfolds ==
  ASSUME NEW f, NEW S, IsFiniteSet(S)
  PROVE  SumFunctionOnSet(f, S) =
           IF S = {} THEN 0 ELSE f[Pick(S)] + SumFunctionOnSet(f, S \ {Pick(S)})
<1>1. PICK h : Solves(h, f, S) /\ SumFunctionOnSet(f, S) = h[S]
  BY SumSolves
<1>2. h[S] = PartialSum(h, f, S)
  <2>1. S \in SUBSET S
    OBVIOUS
  <2> QED
    BY <1>1, <2>1 DEF Solves
<1>3. S \ {Pick(S)} \in SUBSET S
  OBVIOUS
<1>4. SumFunctionOnSet(f, S \ {Pick(S)}) = h[S \ {Pick(S)}]
  BY <1>1, <1>3, SumOfPart
<1> QED
  BY <1>1, <1>2, <1>4 DEF PartialSum

(* A sum of integers is an integer.                                         *)
LEMMA SumType ==
  ASSUME NEW f, NEW S, IsFiniteSet(S), \A x \in S : f[x] \in Int
  PROVE  SumFunctionOnSet(f, S) \in Int
<1> DEFINE Bad == {t \in SUBSET S : SumFunctionOnSet(f, t) \notin Int}
<1>1. Bad \subseteq SUBSET S
  OBVIOUS
<1>2. CASE Bad = {}
  BY <1>2
<1>3. CASE Bad # {}
  <2>1. PICK t \in Bad : \A u \in Bad : u \subseteq t => t \subseteq u
    <3> HIDE DEF Bad
    <3> QED
      BY <1>1, <1>3, Smallest
  <2>2. IsFiniteSet(t)
    BY FS_Subset
  <2>3. SumFunctionOnSet(f, t) =
          IF t = {} THEN 0 ELSE f[Pick(t)] + SumFunctionOnSet(f, t \ {Pick(t)})
    BY <2>2, SumUnfolds
  <2>4. t # {}
    BY <2>1, <2>3
  <2>5. Pick(t) \in t
    BY <2>4 DEF Pick
  <2>6. t \ {Pick(t)} \subseteq t /\ ~(t \subseteq t \ {Pick(t)}) /\ t \ {Pick(t)} \in SUBSET S
    BY <2>5
  <2>7. SumFunctionOnSet(f, t \ {Pick(t)}) \in Int
    <3> DEFINE u == t \ {Pick(t)}
    <3>1. u \notin Bad
      BY <2>1, <2>6
    <3> QED
      BY <3>1, <2>6
  <2>8. f[Pick(t)] \in Int
    BY <2>5
  <2> QED
    BY <2>1, <2>3, <2>4, <2>7, <2>8
<1> QED
  BY <1>2, <1>3

(* Any summand may be taken out.                                            *)
LEMMA SumTakes ==
  ASSUME NEW f, NEW S, IsFiniteSet(S), \A x \in S : f[x] \in Int
  PROVE  \A t \in SUBSET S : \A x \in t : SumFunctionOnSet(f, t) = f[x] + SumFunctionOnSet(f, t \ {x})
<1> DEFINE Sum(t) == SumFunctionOnSet(f, t)
           Bad == {t \in SUBSET S : \E x \in t : Sum(t) # f[x] + Sum(t \ {x})}
<1>1. Bad \subseteq SUBSET S
  OBVIOUS
<1>2. CASE Bad = {}
  BY <1>2
<1>3. CASE Bad # {}
  <2>1. PICK t \in Bad : \A u \in Bad : u \subseteq t => t \subseteq u
    <3> HIDE DEF Bad
    <3> QED
      BY <1>1, <1>3, Smallest
  <2>2. PICK x \in t : Sum(t) # f[x] + Sum(t \ {x})
    BY <2>1
  <2> DEFINE y == Pick(t)
  <2>3. y \in t
    BY <2>2 DEF Pick
  <2>4. \A u \in SUBSET S : IsFiniteSet(u) /\ Sum(u) \in Int
    <3>1. ASSUME NEW u \in SUBSET S PROVE IsFiniteSet(u) /\ Sum(u) \in Int
      <4>1. IsFiniteSet(u)
        BY FS_Subset
      <4> QED
        BY <4>1, SumType
    <3> QED
      BY <3>1
  <2>5. Sum(t) = f[y] + Sum(t \ {y})
    BY <2>2, <2>4, SumUnfolds
  <2>6. x # y
    BY <2>2, <2>5
  <2> HIDE DEF y, Sum
  <2>7. t \ {y} \subseteq t /\ ~(t \subseteq t \ {y}) /\ t \ {y} \in SUBSET S /\ x \in t \ {y}
    BY <2>2, <2>3, <2>6
  <2>8. t \ {x} \subseteq t /\ ~(t \subseteq t \ {x}) /\ t \ {x} \in SUBSET S /\ y \in t \ {x}
    BY <2>2, <2>3, <2>6
  <2>9. Sum(t \ {y}) = f[x] + Sum((t \ {y}) \ {x})
    BY <2>1, <2>7
  <2>10. Sum(t \ {x}) = f[y] + Sum((t \ {x}) \ {y})
    BY <2>1, <2>8
  <2>11. (t \ {y}) \ {x} = (t \ {x}) \ {y}
    OBVIOUS
  <2>12. f[x] \in Int /\ f[y] \in Int /\ Sum((t \ {x}) \ {y}) \in Int
    BY <2>2, <2>3, <2>4
  <2>13. f[y] + (f[x] + Sum((t \ {x}) \ {y})) = f[x] + (f[y] + Sum((t \ {x}) \ {y}))
    BY <2>12
  <2> QED
    BY <2>2, <2>5, <2>9, <2>10, <2>11, <2>13
<1> QED
  BY <1>2, <1>3

(* What one more summand adds. *)
LEMMA SumWith ==
  ASSUME NEW f, NEW S, IsFiniteSet(S), NEW x, x \notin S, \A y \in S \cup {x} : f[y] \in Int
  PROVE  SumFunctionOnSet(f, S \cup {x}) = SumFunctionOnSet(f, S) + f[x]
<1> DEFINE U == S \cup {x}
<1>1. IsFiniteSet(U)
  BY FS_AddElement
<1>2. U \in SUBSET U /\ x \in U /\ U \ {x} = S
  OBVIOUS
<1>3. SumFunctionOnSet(f, U) = f[x] + SumFunctionOnSet(f, U \ {x})
  BY <1>1, <1>2, SumTakes
<1>4. SumFunctionOnSet(f, S) \in Int /\ f[x] \in Int
  BY SumType
<1>5. f[x] + SumFunctionOnSet(f, S) = SumFunctionOnSet(f, S) + f[x]
  BY <1>4
<1> QED
  BY <1>2, <1>3, <1>5

(* Only the summands matter. *)
LEMMA SumSame ==
  ASSUME NEW f, NEW g, NEW S, IsFiniteSet(S), \A x \in S : f[x] = g[x]
  PROVE  SumFunctionOnSet(f, S) = SumFunctionOnSet(g, S)
<1> DEFINE Bad == {t \in SUBSET S : SumFunctionOnSet(f, t) # SumFunctionOnSet(g, t)}
<1>1. Bad \subseteq SUBSET S
  OBVIOUS
<1>2. CASE Bad = {}
  BY <1>2
<1>3. CASE Bad # {}
  <2>1. PICK t \in Bad : \A u \in Bad : u \subseteq t => t \subseteq u
    <3> HIDE DEF Bad
    <3> QED
      BY <1>1, <1>3, Smallest
  <2>2. IsFiniteSet(t)
    BY FS_Subset
  <2>3. /\ SumFunctionOnSet(f, t) =
             IF t = {} THEN 0 ELSE f[Pick(t)] + SumFunctionOnSet(f, t \ {Pick(t)})
        /\ SumFunctionOnSet(g, t) =
             IF t = {} THEN 0 ELSE g[Pick(t)] + SumFunctionOnSet(g, t \ {Pick(t)})
    BY <2>2, SumUnfolds
  <2>4. t # {}
    BY <2>1, <2>3
  <2>5. Pick(t) \in t
    BY <2>4 DEF Pick
  <2> DEFINE u == t \ {Pick(t)}
  <2>6. u \subseteq t /\ ~(t \subseteq u) /\ u \in SUBSET S
    BY <2>5
  <2>7. SumFunctionOnSet(f, u) = SumFunctionOnSet(g, u)
    BY <2>1, <2>6
  <2>8. f[Pick(t)] = g[Pick(t)]
    BY <2>5
  <2> QED
    BY <2>1, <2>3, <2>4, <2>7, <2>8
<1> QED
  BY <1>2, <1>3

(* A function with one more argument has one more summand.                  *)
LEMMA SumExtends ==
  ASSUME NEW f, NEW g, IsFiniteSet(DOMAIN f), NEW x, x \notin DOMAIN f,
         DOMAIN g = DOMAIN f \cup {x}, g[x] \in Int,
         \A y \in DOMAIN f : f[y] \in Int /\ g[y] = f[y]
  PROVE  /\ SumFunction(f) \in Int /\ SumFunction(g) \in Int
         /\ SumFunction(g) = SumFunction(f) + g[x]
<1> DEFINE S == DOMAIN f
<1>1. SumFunctionOnSet(f, S) \in Int
  BY SumType
<1>2. SumFunctionOnSet(g, S) = SumFunctionOnSet(f, S)
  BY SumSame
<1>3. SumFunctionOnSet(g, S \cup {x}) = SumFunctionOnSet(g, S) + g[x]
  <2>1. \A y \in S \cup {x} : g[y] \in Int
    OBVIOUS
  <2> QED
    BY <2>1, SumWith
<1> QED
  BY <1>1, <1>2, <1>3 DEF SumFunction

(* The sum of no summands.                                                  *)
LEMMA SumOfNone ==
  ASSUME NEW f, DOMAIN f = {}
  PROVE  SumFunction(f) = 0
BY FS_EmptySet, SumUnfolds DEF SumFunction


(* What a changed summand changes.                                          *)
LEMMA SumChanges ==
  ASSUME NEW f, NEW g, IsFiniteSet(DOMAIN f), NEW x \in DOMAIN f, DOMAIN g = DOMAIN f,
         f[x] \in Int, g[x] \in Int, \A y \in DOMAIN f : y # x => f[y] \in Int /\ g[y] = f[y]
  PROVE  /\ SumFunction(f) \in Int
         /\ SumFunction(g) = SumFunction(f) + g[x] - f[x]
<1> DEFINE rest == DOMAIN f \ {x}
           h == [y \in rest |-> f[y]]
<1>1. /\ IsFiniteSet(rest) /\ x \notin rest /\ DOMAIN f = rest \cup {x} /\ DOMAIN h = rest
      /\ \A y \in rest : h[y] \in Int /\ f[y] = h[y] /\ g[y] = h[y]
  BY FS_RemoveElement
<1> HIDE DEF rest, h
<1>2. SumFunction(h) \in Int /\ SumFunction(f) = SumFunction(h) + f[x]
  BY <1>1, SumExtends
<1>3. SumFunction(g) = SumFunction(h) + g[x]
  BY <1>1, SumExtends
<1> QED
  BY <1>2, <1>3

(* A sum of zeros.                                                          *)
LEMMA SumOfZeros ==
  ASSUME NEW f, IsFiniteSet(DOMAIN f), \A x \in DOMAIN f : f[x] = 0
  PROVE  SumFunction(f) = 0
<1> DEFINE S == DOMAIN f
           Bad == {t \in SUBSET S : SumFunctionOnSet(f, t) # 0}
<1>1. Bad \subseteq SUBSET S
  OBVIOUS
<1>2. CASE Bad = {}
  BY <1>2 DEF SumFunction
<1>3. CASE Bad # {}
  <2>1. PICK t \in Bad : \A u \in Bad : u \subseteq t => t \subseteq u
    <3> HIDE DEF Bad
    <3> QED
      BY <1>1, <1>3, Smallest
  <2>2. SumFunctionOnSet(f, t) =
          IF t = {} THEN 0 ELSE f[Pick(t)] + SumFunctionOnSet(f, t \ {Pick(t)})
    BY FS_Subset, SumUnfolds
  <2>3. t # {}
    BY <2>1, <2>2
  <2>4. Pick(t) \in t
    BY <2>3 DEF Pick
  <2> DEFINE u == t \ {Pick(t)}
  <2>5. u \subseteq t /\ ~(t \subseteq u) /\ u \in SUBSET S
    BY <2>4
  <2>6. SumFunctionOnSet(f, u) = 0
    BY <2>1, <2>5
  <2>7. f[Pick(t)] = 0
    BY <2>4
  <2> QED
    BY <2>1, <2>2, <2>3, <2>6, <2>7
<1> QED
  BY <1>2, <1>3
=============================================================================
