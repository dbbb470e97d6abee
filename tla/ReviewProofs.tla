---------------------------- MODULE ReviewProofs -----------------------------
(***************************************************************************)
(* From a live run to a calibrated judge, for any cases, answers, models,  *)
(* limits and edits by hand: what a manifest's verdict stands for, what a  *)
(* review is made of, what no process writes over, what a judge costs, and *)
(* what it takes to be called calibrated.                                  *)
(***************************************************************************)
EXTENDS Review, Counting, SequenceTheorems

-----------------------------------------------------------------------------
(* Orders.                                                                  *)

StrictTotalOrder(S, order) ==
  /\ \A i \in S : <<i, i>> \notin order
  /\ \A i, j, k \in S : <<i, j>> \in order /\ <<j, k>> \in order => <<i, k>> \in order
  /\ \A i, j \in S : i = j \/ <<i, j>> \in order \/ <<j, i>> \in order

Before(S, order, i) == {j \in S : <<j, i>> \in order}

(* The k-th in order is a member with k - 1 members before it, and every    *)
(* member is the k-th for some k.                                           *)
LEMMA InOrderRanks ==
  ASSUME NEW S, IsFiniteSet(S), NEW order, StrictTotalOrder(S, order)
  PROVE  /\ Cardinality(S) \in Nat
         /\ InOrder(S, order) \in [1 .. Cardinality(S) -> S]
         /\ \A k \in 1 .. Cardinality(S) :
              Cardinality(Before(S, order, InOrder(S, order)[k])) = k - 1
         /\ \A i \in S : /\ Cardinality(Before(S, order, i)) \in 0 .. Cardinality(S) - 1
                         /\ InOrder(S, order)[Cardinality(Before(S, order, i)) + 1] = i
         /\ \A i, j \in S : <<i, j>> \in order <=>
              Cardinality(Before(S, order, i)) < Cardinality(Before(S, order, j))
<1> DEFINE n == Cardinality(S)
           rank(i) == Cardinality(Before(S, order, i))
           f == [i \in S |-> rank(i) + 1]
<1>1. n \in Nat
  BY FS_CardinalityType
<1>2. ASSUME NEW i \in S PROVE rank(i) \in 0 .. n - 1
  <2>1. Before(S, order, i) \in SUBSET S /\ S \in SUBSET S /\ i \notin Before(S, order, i)
    BY DEF Before, StrictTotalOrder
  <2>2. rank(i) \in Nat /\ rank(i) < n
    BY <2>1, Larger
  <2> QED
    BY <1>1, <2>2
<1>3. ASSUME NEW i \in S, NEW j \in S, <<i, j>> \in order PROVE rank(i) < rank(j)
  <2>1. /\ Before(S, order, i) \in SUBSET S /\ Before(S, order, j) \in SUBSET S
        /\ i \in Before(S, order, j) /\ i \notin Before(S, order, i)
    BY <1>3 DEF Before, StrictTotalOrder
  <2>2. Before(S, order, i) \subseteq Before(S, order, j)
    BY <1>3 DEF Before, StrictTotalOrder
  <2> QED
    BY <2>1, <2>2, Larger
<1>4. ASSUME NEW i \in S, NEW j \in S, rank(i) = rank(j) PROVE i = j
  <2>1. i = j \/ <<i, j>> \in order \/ <<j, i>> \in order
    BY DEF StrictTotalOrder
  <2>2. rank(i) \in Nat /\ rank(j) \in Nat
    BY <1>1, <1>2
  <2>3. ~(rank(i) < rank(j)) /\ ~(rank(j) < rank(i))
    <3> HIDE DEF rank
    <3> QED
      BY <2>2, <1>4
  <2> QED
    BY <2>1, <2>3, <1>3
<1>5. f \in [S -> 1 .. n]
  BY <1>1, <1>2
<1>6. \A i, j \in S : f[i] = f[j] => i = j
  BY <1>2, <1>4
<1>7. \A k \in 1 .. n : \E i \in S : rank(i) = k - 1
  <2>1. \A k \in 1 .. n : \E i \in S : f[i] = k
    <3> HIDE DEF f
    <3> QED
      BY <1>5, <1>6, Ranked
  <2> QED
    BY <2>1, <1>1, <1>2
<1>8. ASSUME NEW k \in 1 .. n
      PROVE  /\ InOrder(S, order)[k] \in S
             /\ rank(InOrder(S, order)[k]) = k - 1
  <2>1. InOrder(S, order)[k] = CHOOSE i \in S : rank(i) = k - 1
    BY DEF InOrder, Before
  <2>2. \E i \in S : rank(i) = k - 1
    BY <1>7
  <2> HIDE DEF rank
  <2> QED
    BY <2>1, <2>2
<1>9. InOrder(S, order) \in [1 .. n -> S]
  BY <1>8 DEF InOrder
<1>10. ASSUME NEW i \in S PROVE InOrder(S, order)[rank(i) + 1] = i
  <2>1. rank(i) + 1 \in 1 .. n /\ (rank(i) + 1) - 1 = rank(i)
    BY <1>1, <1>2
  <2>2. InOrder(S, order)[rank(i) + 1] \in S /\ rank(InOrder(S, order)[rank(i) + 1]) = rank(i)
    BY <2>1, <1>8
  <2> QED
    BY <2>2, <1>4
<1>11. ASSUME NEW i \in S, NEW j \in S, rank(i) < rank(j) PROVE <<i, j>> \in order
  <2>1. rank(i) \in Nat /\ rank(j) \in Nat
    BY <1>1, <1>2
  <2>2. i # j /\ ~(<<j, i>> \in order)
    BY <2>1, <1>11, <1>3
  <2> QED
    BY <2>2 DEF StrictTotalOrder
<1> QED
  BY <1>1, <1>2, <1>3, <1>8, <1>9, <1>10, <1>11
-----------------------------------------------------------------------------
(* Candidates and their rounds.                                             *)

(* The answers may be selected from: each has a case, and so a stratum.     *)
Classified(answers) == \A i \in DOMAIN answers : answers[i].case \in ToSet(Cases)

LEMMA CandidatesAre ==
  ASSUME NEW T, NEW answers \in Seq(T)
  PROVE  /\ Candidates(answers) \in SUBSET (1 .. Len(answers))
         /\ IsFiniteSet(Candidates(answers))
         /\ Cardinality(Candidates(answers)) \in Nat
         /\ \A i, j \in Candidates(answers) : answers[i] = answers[j] => i = j
         /\ \A i \in DOMAIN answers : \E c \in Candidates(answers) : answers[c] = answers[i]
<1>1. Len(answers) \in Nat /\ DOMAIN answers = 1 .. Len(answers)
  OBVIOUS
<1>2. Candidates(answers) \in SUBSET (1 .. Len(answers))
  BY <1>1 DEF Candidates
<1>3. IsFiniteSet(Candidates(answers))
  <2>1. IsFiniteSet(1 .. Len(answers))
    BY <1>1, FS_Interval
  <2> QED
    BY <2>1, <1>2, FS_Subset
<1>4. ASSUME NEW i \in Candidates(answers), NEW j \in Candidates(answers), answers[i] = answers[j]
      PROVE  i = j
  <2>1. i \in Nat /\ j \in Nat /\ i >= 1 /\ j >= 1
    BY <1>2
  <2>2. CASE i < j
    <3>1. i \in 1 .. j - 1
      BY <2>1, <2>2
    <3> QED
      BY <3>1, <1>4 DEF Candidates
  <2>3. CASE j < i
    <3>1. j \in 1 .. i - 1
      BY <2>1, <2>3
    <3> QED
      BY <3>1, <1>4 DEF Candidates
  <2> QED
    BY <2>1, <2>2, <2>3
<1>5. ASSUME NEW i \in DOMAIN answers
      PROVE  \E c \in Candidates(answers) : answers[c] = answers[i]
  <2> DEFINE same == {j \in DOMAIN answers : answers[j] = answers[i]}
  <2>1. same \in SUBSET (1 .. Len(answers)) /\ same # {}
    BY <1>1
  <2>2. PICK c \in same : \A j \in same : c <= j
    <3> HIDE DEF same
    <3> QED
      BY <1>1, <2>1, LeastOf
  <2>3. c \in 1 .. Len(answers) /\ answers[c] = answers[i]
    BY <2>1, <2>2
  <2>4. ASSUME NEW j \in 1 .. c - 1 PROVE answers[j] # answers[c]
    <3>1. j \in DOMAIN answers /\ ~(c <= j)
      BY <1>1, <2>3
    <3> QED
      BY <3>1, <2>2, <2>3
  <2>5. c \in Candidates(answers)
    BY <1>1, <2>3, <2>4 DEF Candidates
  <2> QED
    BY <2>3, <2>5
<1> QED
  BY <1>2, <1>3, <1>4, <1>5, FS_CardinalityType

(* As many different answers as candidates, of any subset of them.          *)
LEMMA AsManyAnswers ==
  ASSUME NEW T, NEW answers \in Seq(T), NEW P \in SUBSET Candidates(answers)
  PROVE  /\ IsFiniteSet(P) /\ Cardinality(P) \in Nat
         /\ IsFiniteSet({answers[i] : i \in P})
         /\ Cardinality({answers[i] : i \in P}) = Cardinality(P)
<1> DEFINE f == [i \in P |-> answers[i]]
           image == {answers[i] : i \in P}
<1>1. IsFiniteSet(P)
  BY CandidatesAre, FS_Subset
<1>2. f \in [P -> image] /\ \A a, b \in P : f[a] = f[b] => a = b
  BY CandidatesAre
<1>3. \A y \in image : \E i \in P : f[i] = y
  OBVIOUS
<1>4. f \in Bijection(P, image)
  <2> HIDE DEF f, image
  <2> QED
    BY <1>2, <1>3, Fun_IsBij
<1> QED
  BY <1>1, <1>4, FS_Bijection, FS_CardinalityType DEF ExistsBijection

LEMMA AllAnswers ==
  ASSUME NEW T, NEW answers \in Seq(T)
  PROVE  ToSet(answers) = {answers[i] : i \in Candidates(answers)}
BY CandidatesAre DEF ToSet

LEMMA PositionType ==
  ASSUME NEW T, NEW answers \in Seq(T), Classified(answers), NEW i \in Candidates(answers)
  PROVE  Position(answers, i) \in Nat
<1>1. i \in DOMAIN answers
  BY CandidatesAre
<1> QED
  BY <1>1, ReviewAssumption DEF ReviewAssumption, Position, Classified

(* The rounds of a stratum are 1, 2, ... in the order of its candidates.    *)
LEMMA RoundsCount ==
  ASSUME NEW T, NEW answers \in Seq(T)
  PROVE  /\ DOMAIN Rounds(answers) = Candidates(answers)
         /\ \A i \in Candidates(answers) : Rounds(answers)[i] \in Nat \ {0}
         /\ \A i, j \in Candidates(answers) :
              Position(answers, i) = Position(answers, j) /\ Rounds(answers)[i] = Rounds(answers)[j] => i = j
         /\ \A i \in Candidates(answers) : \A r \in 1 .. Rounds(answers)[i] :
              \E j \in Candidates(answers) :
                Position(answers, j) = Position(answers, i) /\ Rounds(answers)[j] = r
<1> DEFINE C == Candidates(answers)
           peers(i) == {j \in C : Position(answers, j) = Position(answers, i)}
           less == {p \in Nat \X Nat : p[1] < p[2]}
           taken(i) == {j \in C : j <= i /\ Position(answers, j) = Position(answers, i)}
<1>1. C \subseteq Nat /\ IsFiniteSet(C)
  BY CandidatesAre
<1>2. DOMAIN Rounds(answers) = C /\ \A i \in C : Rounds(answers)[i] = Cardinality(taken(i))
  BY DEF Rounds
<1>3. ASSUME NEW i \in C
      PROVE  /\ peers(i) \in SUBSET C /\ IsFiniteSet(peers(i)) /\ i \in peers(i)
             /\ StrictTotalOrder(peers(i), less)
             /\ \A j \in peers(i) :
                  Rounds(answers)[j] = Cardinality(Before(peers(i), less, j)) + 1
  <2>1. peers(i) \in SUBSET C /\ IsFiniteSet(peers(i)) /\ i \in peers(i)
    BY <1>1, FS_Subset
  <2>2. StrictTotalOrder(peers(i), less)
    BY <1>1 DEF StrictTotalOrder
  <2>3. ASSUME NEW j \in peers(i)
        PROVE  Rounds(answers)[j] = Cardinality(Before(peers(i), less, j)) + 1
    <3>1. taken(j) = Before(peers(i), less, j) \cup {j} /\ j \notin Before(peers(i), less, j)
      BY <1>1 DEF Before
    <3>2. IsFiniteSet(Before(peers(i), less, j))
      BY <2>1, FS_Subset DEF Before
    <3>3. Cardinality(taken(j)) = Cardinality(Before(peers(i), less, j)) + 1
      <4> HIDE DEF taken, peers, less
      <4> QED
        BY <3>1, <3>2, FS_AddElement
    <3>4. Rounds(answers)[j] = Cardinality(taken(j))
      BY <1>2
    <3> QED
      BY <3>3, <3>4
  <2> QED
    BY <2>1, <2>2, <2>3
<1> HIDE DEF C, peers, less, taken
<1>4. ASSUME NEW i \in C PROVE Rounds(answers)[i] \in Nat \ {0}
  <2>1. Cardinality(Before(peers(i), less, i)) \in 0 .. Cardinality(peers(i)) - 1
    BY <1>3, InOrderRanks
  <2> QED
    BY <1>3, <2>1
<1>5. ASSUME NEW i \in C, NEW j \in C, Position(answers, i) = Position(answers, j),
             Rounds(answers)[i] = Rounds(answers)[j]
      PROVE  i = j
  <2> DEFINE S == peers(i)
             rank(x) == Cardinality(Before(S, less, x))
  <2>1. j \in S /\ i \in S
    BY <1>3, <1>5 DEF peers
  <2>2. /\ Cardinality(S) \in Nat
        /\ rank(i) \in 0 .. Cardinality(S) - 1 /\ rank(j) \in 0 .. Cardinality(S) - 1
    BY <2>1, <1>3, InOrderRanks
  <2>3. InOrder(S, less)[rank(i) + 1] = i /\ InOrder(S, less)[rank(j) + 1] = j
    BY <2>1, <1>3, InOrderRanks
  <2>4. rank(i) = rank(j)
    <3>1. Rounds(answers)[i] = rank(i) + 1 /\ Rounds(answers)[j] = rank(j) + 1
      BY <1>3, <2>1
    <3>2. rank(i) \in Nat /\ rank(j) \in Nat
      BY <2>2
    <3>3. rank(i) + 1 = rank(j) + 1
      BY <3>1, <1>5
    <3> HIDE DEF rank
    <3> QED
      BY <3>2, <3>3
  <2> QED
    BY <2>3, <2>4
<1>6. ASSUME NEW i \in C, NEW r \in 1 .. Rounds(answers)[i]
      PROVE  \E j \in C : Position(answers, j) = Position(answers, i) /\ Rounds(answers)[j] = r
  <2> DEFINE S == peers(i)
             j == InOrder(S, less)[r]
  <2>1. Cardinality(Before(S, less, i)) \in 0 .. Cardinality(S) - 1 /\ Cardinality(S) \in Nat
    BY <1>3, InOrderRanks
  <2>2. Rounds(answers)[i] = Cardinality(Before(S, less, i)) + 1
    BY <1>3
  <2>3. r \in 1 .. Cardinality(S)
    <3> HIDE DEF S
    <3> QED
      BY <2>1, <2>2
  <2>4. j \in S /\ Cardinality(Before(S, less, j)) = r - 1
    BY <2>3, <1>3, InOrderRanks
  <2>5. Rounds(answers)[j] = r
    <3>1. Rounds(answers)[j] = Cardinality(Before(S, less, j)) + 1
      BY <2>4, <1>3
    <3> HIDE DEF S, j
    <3> QED
      BY <3>1, <2>4
  <2>6. j \in C /\ Position(answers, j) = Position(answers, i)
    BY <2>4 DEF peers
  <2> QED
    BY <2>5, <2>6
<1> QED
  BY <1>2, <1>4, <1>5, <1>6 DEF C

LEMMA TurnsOrder ==
  ASSUME NEW T, NEW answers \in Seq(T), Classified(answers)
  PROVE  StrictTotalOrder(Candidates(answers), Turns(answers))
<1> DEFINE C == Candidates(answers)
           round == Rounds(answers)
           at(i) == Position(answers, i)
<1>1. \A i \in C : at(i) \in Nat
  BY PositionType
<1>2. DOMAIN round = C /\ \A i \in C : round[i] \in Nat
  BY RoundsCount
<1>3. \A i, j \in C : at(i) = at(j) /\ round[i] = round[j] => i = j
  BY RoundsCount
<1>4. \A i, j \in C : <<i, j>> \in Turns(answers) <=>
         round[i] < round[j] \/ (round[i] = round[j] /\ at(i) < at(j))
  BY <1>2 DEF Turns
<1> HIDE DEF C, round, at
<1>5. \A i \in C : <<i, i>> \notin Turns(answers)
  BY <1>1, <1>2, <1>4
<1>6. ASSUME NEW i \in C, NEW j \in C, NEW k \in C,
             <<i, j>> \in Turns(answers), <<j, k>> \in Turns(answers)
      PROVE  <<i, k>> \in Turns(answers)
  <2>1. round[i] < round[j] \/ (round[i] = round[j] /\ at(i) < at(j))
    BY <1>4, <1>6
  <2>2. round[j] < round[k] \/ (round[j] = round[k] /\ at(j) < at(k))
    BY <1>4, <1>6
  <2>3. /\ round[i] \in Nat /\ round[j] \in Nat /\ round[k] \in Nat
        /\ at(i) \in Nat /\ at(j) \in Nat /\ at(k) \in Nat
    BY <1>1, <1>2
  <2>4. round[i] < round[k] \/ (round[i] = round[k] /\ at(i) < at(k))
    BY <2>1, <2>2, <2>3
  <2> QED
    BY <1>4, <2>4
<1>7. ASSUME NEW i \in C, NEW j \in C
      PROVE  i = j \/ <<i, j>> \in Turns(answers) \/ <<j, i>> \in Turns(answers)
  <2>1. round[i] \in Nat /\ round[j] \in Nat /\ at(i) \in Nat /\ at(j) \in Nat
    BY <1>1, <1>2
  <2>2. \/ round[i] < round[j] \/ (round[i] = round[j] /\ at(i) < at(j))
        \/ round[j] < round[i] \/ (round[j] = round[i] /\ at(j) < at(i))
        \/ at(i) = at(j) /\ round[i] = round[j]
    BY <2>1
  <2> QED
    BY <2>2, <1>3, <1>4
<1> QED
  BY <1>5, <1>6, <1>7 DEF StrictTotalOrder, C
-----------------------------------------------------------------------------
(* The selection.                                                           *)

(* The candidates that are taken: those with fewer than n before them.      *)
Taken(answers) ==
  {i \in Candidates(answers) :
     Cardinality(Before(Candidates(answers), Turns(answers), i)) < SampleSize(answers)}

LEMMA SampleSizeIs ==
  ASSUME NEW T, NEW answers \in Seq(T)
  PROVE  /\ SampleSize(answers) \in Nat
         /\ SampleSize(answers) <= Cardinality(Candidates(answers))
         /\ SampleSize(answers) <= limit
         /\ SampleSize(answers) \in {limit, Cardinality(Candidates(answers))}
<1> DEFINE n == Cardinality(Candidates(answers))
<1>1. n \in Nat /\ limit \in Nat
  BY CandidatesAre, ReviewAssumption DEF ReviewAssumption
<1>2. \E x \in {limit, n} : \A y \in {limit, n} : x <= y
  <2> HIDE DEF n
  <2>1. limit <= n \/ n <= limit
    BY <1>1
  <2> QED
    BY <1>1, <2>1
<1>3. SampleSize(answers) \in {limit, n} /\ \A y \in {limit, n} : SampleSize(answers) <= y
  <2>1. SampleSize(answers) = CHOOSE x \in {limit, n} : \A y \in {limit, n} : x <= y
    BY DEF SampleSize, Min
  <2> HIDE DEF n
  <2> QED
    BY <1>2, <2>1
<1> QED
  BY <1>1, <1>3

LEMMA SelectedIs ==
  ASSUME NEW T, NEW answers \in Seq(T), Classified(answers)
  PROVE  /\ Selected(answers) \in Seq(T)
         /\ Len(Selected(answers)) = SampleSize(answers)
         /\ ToSet(Selected(answers)) = {answers[i] : i \in Taken(answers)}
         /\ Cardinality(Taken(answers)) = SampleSize(answers)
         /\ Taken(answers) \in SUBSET Candidates(answers)
<1> DEFINE C == Candidates(answers)
           n == SampleSize(answers)
           order == InOrder(C, Turns(answers))
           rank(i) == Cardinality(Before(C, Turns(answers), i))
           f == [k \in 1 .. n |-> order[k]]
<1>1. IsFiniteSet(C) /\ StrictTotalOrder(C, Turns(answers)) /\ C \in SUBSET (DOMAIN answers)
  BY CandidatesAre, TurnsOrder
<1>2. n \in Nat /\ Cardinality(C) \in Nat /\ n <= Cardinality(C)
  BY SampleSizeIs, CandidatesAre
<1>3. /\ \A k \in 1 .. Cardinality(C) : order[k] \in C /\ rank(order[k]) = k - 1
      /\ \A i \in C : rank(i) \in 0 .. Cardinality(C) - 1 /\ order[rank(i) + 1] = i
  BY <1>1, InOrderRanks
<1>4. \A k \in 1 .. n : k \in 1 .. Cardinality(C)
  BY <1>2
<1>5. Taken(answers) = {i \in C : rank(i) < n}
  BY DEF Taken
<1>6. Selected(answers) = [k \in 1 .. n |-> answers[order[k]]]
  BY DEF Selected
<1> HIDE DEF C, n, order, rank
<1>7. \A k \in 1 .. n : order[k] \in Taken(answers)
  BY <1>2, <1>3, <1>4, <1>5
<1>8. ASSUME NEW i \in Taken(answers)
      PROVE  rank(i) + 1 \in 1 .. n /\ order[rank(i) + 1] = i
  BY <1>2, <1>3, <1>5
<1>9. f \in Bijection(1 .. n, Taken(answers))
  <2>1. f \in [1 .. n -> Taken(answers)]
    BY <1>7
  <2>2. ASSUME NEW k \in 1 .. n, NEW l \in 1 .. n, f[k] = f[l] PROVE k = l
    <3>1. rank(order[k]) = k - 1 /\ rank(order[l]) = l - 1 /\ order[k] = order[l]
      BY <1>3, <1>4, <2>2
    <3> QED
      BY <3>1, <1>2
  <2>3. \A i \in Taken(answers) : \E k \in 1 .. n : f[k] = i
    BY <1>8
  <2> HIDE DEF f
  <2> QED
    BY <2>1, <2>2, <2>3, Fun_IsBij
<1>10. Cardinality(Taken(answers)) = n
  <2>1. IsFiniteSet(1 .. n) /\ Cardinality(1 .. n) = n
    BY <1>2, FS_Interval
  <2> HIDE DEF f
  <2> QED
    BY <1>9, <2>1, FS_Bijection DEF ExistsBijection
<1>11. \A k \in 1 .. n : answers[order[k]] \in T
  BY <1>1, <1>3, <1>4
<1>12. Selected(answers) \in Seq(T) /\ Len(Selected(answers)) = n
  BY <1>2, <1>6, <1>11
<1>13. ToSet(Selected(answers)) = {answers[i] : i \in Taken(answers)}
  <2>1. ToSet(Selected(answers)) = {answers[order[k]] : k \in 1 .. n}
    BY <1>6 DEF ToSet
  <2> QED
    BY <2>1, <1>7, <1>8
<1> QED
  BY <1>5, <1>10, <1>12, <1>13 DEF C, n

(* What is not taken comes after everything that is.                        *)
LEMMA TakenFirst ==
  ASSUME NEW T, NEW answers \in Seq(T), Classified(answers)
  PROVE  /\ \A i \in Taken(answers) : \A j \in Candidates(answers) \ Taken(answers) :
              Rounds(answers)[i] <= Rounds(answers)[j]
         /\ \A i \in Taken(answers) : \A j \in Candidates(answers) :
              Rounds(answers)[j] < Rounds(answers)[i] => j \in Taken(answers)
<1> DEFINE C == Candidates(answers)
           n == SampleSize(answers)
           rank(i) == Cardinality(Before(C, Turns(answers), i))
           round == Rounds(answers)
<1>1. IsFiniteSet(C) /\ StrictTotalOrder(C, Turns(answers))
  BY CandidatesAre, TurnsOrder
<1>2. n \in Nat /\ Cardinality(C) \in Nat
  BY SampleSizeIs, CandidatesAre
<1>3. \A i \in C : rank(i) \in 0 .. Cardinality(C) - 1
  BY <1>1, InOrderRanks
<1>4. \A i, j \in C : <<i, j>> \in Turns(answers) <=> rank(i) < rank(j)
  BY <1>1, InOrderRanks
<1>5. Taken(answers) = {i \in C : rank(i) < n}
  BY DEF Taken
<1>6. DOMAIN round = C /\ \A i \in C : round[i] \in Nat
  BY RoundsCount
<1>7. \A i, j \in C : /\ <<i, j>> \in Turns(answers) => round[i] <= round[j]
                      /\ round[i] < round[j] => <<i, j>> \in Turns(answers)
  BY <1>6 DEF Turns
<1> HIDE DEF C, n, rank, round
<1>8. \A i \in C : rank(i) \in Nat
  BY <1>2, <1>3
<1>9. ASSUME NEW i \in Taken(answers), NEW j \in C \ Taken(answers)
      PROVE  round[i] <= round[j]
  <2>1. i \in C /\ rank(i) < n /\ ~(rank(j) < n)
    BY <1>5
  <2>2. rank(i) < rank(j)
    BY <2>1, <1>2, <1>8
  <2> QED
    BY <2>1, <2>2, <1>4, <1>7
<1>10. ASSUME NEW i \in Taken(answers), NEW j \in C, round[j] < round[i]
       PROVE  j \in Taken(answers)
  <2>1. i \in C /\ rank(i) < n
    BY <1>5
  <2>2. rank(j) < rank(i)
    BY <2>1, <1>4, <1>7, <1>10
  <2>3. rank(j) < n
    BY <2>1, <2>2, <1>2, <1>8
  <2> QED
    BY <2>3, <1>5
<1> QED
  BY <1>9, <1>10 DEF C, round

(* The candidates of a stratum that are taken.                              *)
TakenOf(answers, s) == {i \in Taken(answers) : Position(answers, i) = s}

(* A stratum behind another by two has none left: the other's last taken    *)
(* candidate is of a round that this one would have had its turn in.        *)
LEMMA TakenBalanced ==
  ASSUME NEW T, NEW answers \in Seq(T), Classified(answers), NEW s, NEW u,
         Cardinality(TakenOf(answers, s)) > Cardinality(TakenOf(answers, u)) + 1,
         NEW i \in Candidates(answers), Position(answers, i) = u
  PROVE  i \in Taken(answers)
<1> DEFINE C == Candidates(answers)
           round == Rounds(answers)
           S == TakenOf(answers, s)
           U == TakenOf(answers, u)
           m == Cardinality(S)
<1>1. S \subseteq C /\ U \subseteq C /\ S \subseteq Taken(answers)
  BY DEF TakenOf, Taken
<1>2. IsFiniteSet(C)
  BY CandidatesAre
<1>3. IsFiniteSet(S) /\ IsFiniteSet(U) /\ m \in Nat /\ Cardinality(U) \in Nat
  BY <1>1, <1>2, FS_Subset, FS_CardinalityType
<1>4. \A j \in C : round[j] \in Nat \ {0}
  BY RoundsCount
<1>5. \A j, k \in C : Position(answers, j) = Position(answers, k) /\ round[j] = round[k] => j = k
  BY RoundsCount
<1>6. m > Cardinality(U) + 1
  OBVIOUS
<1> SUFFICES ASSUME i \notin Taken(answers) PROVE FALSE
  OBVIOUS
<1>7. \E j \in S : round[j] >= m
  <2> SUFFICES ASSUME \A j \in S : round[j] < m PROVE FALSE
    <3>1. \A j \in S : round[j] \in Nat
      BY <1>1, <1>4
    <3> QED
      BY <3>1, <1>3
  <2> DEFINE f == [j \in S |-> round[j]]
  <2>1. f \in [S -> 1 .. m - 1]
    <3> SUFFICES ASSUME NEW j \in S PROVE round[j] \in 1 .. m - 1
      OBVIOUS
    <3>1. round[j] \in Nat \ {0} /\ round[j] < m
      BY <1>1, <1>4
    <3> HIDE DEF m, round
    <3> QED
      BY <3>1, <1>3
  <2>2. \A j, k \in S : f[j] = f[k] => j = k
    BY <1>1, <1>5 DEF TakenOf
  <2>3. m >= 1
    BY <1>3, <1>6
  <2>4. IsFiniteSet(1 .. m - 1) /\ Cardinality(1 .. m - 1) = m - 1
    <3> HIDE DEF m
    <3>1. m - 1 \in Nat
      BY <2>3, <1>3
    <3> QED
      BY <3>1, UpTo
  <2>5. m <= m - 1
    <3>1. f \in Injection(S, 1 .. m - 1)
      <4> HIDE DEF f, m, S
      <4> QED
        BY <2>1, <2>2, Fun_IsInj
    <3>2. Cardinality(S) <= Cardinality(1 .. m - 1)
      <4> HIDE DEF f, m, S
      <4> QED
        BY <3>1, <2>4, FS_Injection
    <3> QED
      BY <3>2, <2>4
  <2> HIDE DEF m
  <2> QED
    BY <2>5, <1>3
<1>8. PICK j \in S : round[j] >= m
  BY <1>7
<1>9. j \in C /\ j \in Taken(answers) /\ round[j] \in Nat \ {0} /\ round[i] \in Nat \ {0}
  BY <1>1, <1>4
<1>10. round[j] <= round[i]
  BY <1>9, TakenFirst
<1> DEFINE w(r) == CHOOSE k \in C : Position(answers, k) = u /\ round[k] = r
           g == [r \in 1 .. round[j] - 1 |-> w(r)]
<1>11. ASSUME NEW r \in 1 .. round[j] - 1
       PROVE  w(r) \in U /\ round[w(r)] = r
  <2>1. r \in 1 .. round[i] /\ r < round[j]
    <3> HIDE DEF round
    <3> QED
      BY <1>9, <1>10
  <2>2. \E k \in C : Position(answers, k) = u /\ round[k] = r
    BY <2>1, RoundsCount
  <2>3. w(r) \in C /\ Position(answers, w(r)) = u /\ round[w(r)] = r
    BY <2>2
  <2>4. w(r) \in Taken(answers)
    BY <2>1, <2>3, <1>9, TakenFirst
  <2> QED
    BY <2>3, <2>4 DEF TakenOf
<1>12. g \in Injection(1 .. round[j] - 1, U)
  <2>1. g \in [1 .. round[j] - 1 -> U]
    BY <1>11
  <2>2. \A a, b \in 1 .. round[j] - 1 : g[a] = g[b] => a = b
    BY <1>11
  <2> HIDE DEF g, U, round
  <2> QED
    BY <2>1, <2>2, Fun_IsInj
<1>13. Cardinality(1 .. round[j] - 1) <= Cardinality(U)
  <2> HIDE DEF g, U, round
  <2> QED
    BY <1>12, <1>3, FS_Injection
<1>14. Cardinality(1 .. round[j] - 1) = round[j] - 1
  <2> HIDE DEF round
  <2>1. round[j] - 1 \in Nat
    BY <1>9
  <2> QED
    BY <2>1, UpTo
<1> HIDE DEF U, m, round
<1> QED
  BY <1>3, <1>6, <1>8, <1>9, <1>13, <1>14
-----------------------------------------------------------------------------

(* What prepare_review writes for any answers: some of them, none twice, as *)
(* many as there are or the limit allows, and no stratum two behind another *)
(* while it has any left.                                                   *)
THEOREM SelectedIsBalanced ==
  ASSUME NEW T, NEW answers \in Seq(T), Classified(answers)
  PROVE  LET items == Selected(answers)
             all == ToSet(answers)
             of(s, set) == {i \in set : Stratum[i.case] = s}
             chosen == ToSet(items)
         IN  /\ Cardinality(chosen) = Len(items) /\ chosen \subseteq all
             /\ Len(items) = Min({limit, Cardinality(all)})
             /\ \A s, u \in {Stratum[i.case] : i \in all} :
                  Cardinality(of(s, chosen)) > Cardinality(of(u, chosen)) + 1 => of(u, all) \subseteq chosen
<1> DEFINE items == Selected(answers)
           all == ToSet(answers)
           of(s, set) == {i \in set : Stratum[i.case] = s}
           chosen == ToSet(items)
           C == Candidates(answers)
           P == Taken(answers)
<1>1. all = {answers[i] : i \in C}
  BY AllAnswers
<1>2. chosen = {answers[i] : i \in P} /\ P \in SUBSET C
      /\ Len(items) = SampleSize(answers) /\ Cardinality(P) = SampleSize(answers)
  BY SelectedIs
<1>3. Cardinality(chosen) = Len(items)
  <2>1. Cardinality({answers[i] : i \in P}) = Cardinality(P)
    BY <1>2, AsManyAnswers
  <2> QED
    BY <1>2, <2>1
<1>4. chosen \subseteq all
  BY <1>1, <1>2
<1>5. Len(items) = Min({limit, Cardinality(all)})
  <2>1. Cardinality({answers[i] : i \in C}) = Cardinality(C)
    BY AsManyAnswers
  <2> QED
    BY <1>1, <1>2, <2>1 DEF SampleSize
<1>6. \A s : of(s, chosen) = {answers[i] : i \in TakenOf(answers, s)}
  BY <1>2 DEF TakenOf, Position
<1>7. \A s : Cardinality(of(s, chosen)) = Cardinality(TakenOf(answers, s))
  <2> SUFFICES ASSUME NEW s
               PROVE  Cardinality({answers[i] : i \in TakenOf(answers, s)})
                        = Cardinality(TakenOf(answers, s))
    BY <1>6
  <2>1. TakenOf(answers, s) \in SUBSET C
    BY <1>2 DEF TakenOf
  <2> QED
    BY <2>1, AsManyAnswers
<1>8. ASSUME NEW s, NEW u, Cardinality(of(s, chosen)) > Cardinality(of(u, chosen)) + 1
      PROVE  of(u, all) \subseteq chosen
  <2>1. Cardinality(TakenOf(answers, s)) > Cardinality(TakenOf(answers, u)) + 1
    BY <1>7, <1>8
  <2>2. ASSUME NEW x \in of(u, all) PROVE x \in chosen
    <3>1. PICK i \in C : x = answers[i]
      BY <1>1
    <3>2. Position(answers, i) = u
      BY <3>1 DEF Position
    <3>3. i \in P
      BY <3>2, <2>1, TakenBalanced
    <3> QED
      BY <1>2, <3>1, <3>3
  <2> QED
    BY <2>2
<1> QED
  BY <1>3, <1>4, <1>5, <1>8

-----------------------------------------------------------------------------

(* What a run records, and what is selected of it.                          *)
Rows == [case: ToSet(Cases), answer: Answers \cup {Refusal}, error: BOOLEAN,
         kind: {"deterministic_no_model_call", "live", "non_live_or_unknown"}]
Items == [case: ToSet(Cases), answer: Answers \cup {Refusal}]
Predictions == [item: Items, label: Labels \cup {Unset}, valid: BOOLEAN, live: BOOLEAN,
                served: Models \cup {Unset}]

(* run_live_comparison goes through the cases in order and one route after  *)
(* the other; until it has ended a route's file is what was recorded.       *)
RunInv ==
  /\ stage \in Aliases \cup {"start", "report", "ended"}
  /\ injected \in BOOLEAN
  /\ events \in [Aliases -> Seq(AllFinals)]
  /\ rows \in [Aliases -> Seq(Rows)]
  /\ \A a \in Aliases : /\ Len(rows[a]) <= Len(Cases)
                        /\ \A i \in 1 .. Len(rows[a]) : rows[a][i].case = Cases[i]
  /\ stage \in {"start", "primary"} => DOMAIN run_dir = {}
  /\ stage = "open_weight" => DOMAIN run_dir = {"primary"}
  /\ stage = "report" => DOMAIN run_dir = Aliases
  /\ stage # "ended" => \A a \in DOMAIN run_dir : run_dir[a] = rows[a]

(* What a run that calls itself complete has done.                          *)
Whole(inj, log, answered) ==
  /\ ~inj
  /\ \A a \in Aliases :
       /\ Len(answered[a]) = Len(Cases)
       /\ \A i \in DOMAIN Cases : answered[a][i].case = Cases[i] /\ ~answered[a][i].error
       /\ Cardinality({e.served : e \in Received(log[a])}) = 1
  /\ \A e \in Received(log["primary"]), f \in Received(log["open_weight"]) : e.served # f.served

(* A manifest has the hashes of what was recorded, and a verdict that was   *)
(* earned; only its mark of live evidence may have been edited.             *)
WellMade(m, inj, log, answered) ==
  /\ DOMAIN m = {"status", "live", "aliases", "files"}
  /\ m.aliases \in SUBSET Aliases
  /\ m.files = [a \in m.aliases |-> answered[a]]
  /\ m.status \in {"LIVE_COMPLETE", "PILOT_COMPLETE"} => Whole(inj, log, answered)
  /\ m.status \in {"LIVE_COMPLETE", "PILOT_COMPLETE", "LIVE_ERRORS"} =>
       m.aliases = Aliases /\ \A a \in Aliases : Len(answered[a]) = Len(Cases)

(* The run is live and went through every case of both routes.              *)
LiveAndWhole(m, inj, answered) ==
  ~inj /\ m.aliases = Aliases /\ \A a \in Aliases : Len(answered[a]) = Len(Cases)

VerdictInv ==
  "manifest" \in DOMAIN run_dir =>
    /\ stage = "ended"
    /\ WellMade(run_dir["manifest"], injected, events, rows)
    /\ "review" \notin DOMAIN review_dir => (run_dir["manifest"].live => ~injected)

(* A review is the selection from the run it is bound to.                   *)
BoundInv ==
  /\ DOMAIN review_dir # {} \/ job # "none" => "manifest" \in DOMAIN run_dir
  /\ job = "binding" =>
       /\ "review" \notin DOMAIN review_dir
       /\ review_dir["items"] = Selected(RecordedAnswers(run_dir["manifest"]))
       /\ source.is_live => LiveAndWhole(run_dir["manifest"], injected, rows)
  /\ "review" \in DOMAIN review_dir =>
       LET review == review_dir["review"] IN
       /\ WellMade(review.manifest, injected, events, rows)
       /\ review.items = Selected(RecordedAnswers(review.manifest))
       /\ review.source_is_live => LiveAndWhole(review.manifest, injected, rows)

(* The files of a review appear in order, and no process writes one that is *)
(* there.                                                                   *)
FilesInv ==
  /\ job \in {"none", "binding", "judging", "metering", "signing"}
  /\ job = "judging" => "predictions" \notin DOMAIN review_dir
  /\ job = "metering" => "judge_events" \notin DOMAIN review_dir
  /\ job = "signing" => "judge" \notin DOMAIN review_dir
  /\ job \in {"judging", "metering", "signing"} => "review" \in DOMAIN review_dir
  /\ "predictions" \notin DOMAIN review_dir => "judge_events" \notin DOMAIN review_dir
  /\ "judge_events" \notin DOMAIN review_dir => "judge" \notin DOMAIN review_dir
  /\ "review" \notin DOMAIN review_dir => "predictions" \notin DOMAIN review_dir

(* The judge's client, and what it has collected: the items in order, each  *)
(* called live only if the client was. *)
JudgeInv ==
  /\ DOMAIN judge = DOMAIN NoJudge
  /\ judge.injected \in BOOLEAN /\ judge.stopped \in BOOLEAN
  /\ judge.initial \in Nat /\ judge.wire \in Nat
  /\ judge.wire - judge.initial <= judge_max_calls
  /\ judge.events \in Seq(AllFinals)
  /\ judge.predictions \in Seq(Predictions)
  /\ \A p \in ToSet(judge.predictions) : p.live => ~judge.injected
  /\ IF "review" \in DOMAIN review_dir
     THEN \A k \in 1 .. Len(judge.predictions) :
            /\ k <= Len(review_dir["review"].items)
            /\ judge.predictions[k].item = review_dir["review"].items[k]
     ELSE judge.predictions = <<>>

(* What the judge's manifest is written for is what the judge said.         *)
SignedInv ==
  /\ job \in {"metering", "signing"} =>
       "predictions" \in DOMAIN review_dir /\ review_dir["predictions"] = judge.predictions
  /\ job = "signing" =>
       "judge_events" \in DOMAIN review_dir /\ review_dir["judge_events"] = judge.events
  /\ "judge" \in DOMAIN review_dir =>
       /\ review_dir["judge"].predictions = judge.predictions
       /\ review_dir["judge"].events = judge.events

IInv ==
  RunInv /\ VerdictInv /\ BoundInv /\ FilesInv /\ JudgeInv /\ SignedInv /\ edits \in Nat

-----------------------------------------------------------------------------
(* Operators of the model.                                                  *)

LEMMA WriteIs ==
  ASSUME NEW dir, NEW file, NEW content
  PROVE  /\ DOMAIN Write(dir, file, content) = DOMAIN dir \cup {file}
         /\ Write(dir, file, content)[file] = content
         /\ \A f \in DOMAIN dir : f # file => Write(dir, file, content)[f] = dir[f]
BY DEF Write

LEMMA CasesAre == /\ Cases \in Seq(Nat) /\ Len(Cases) \in Nat \ {0}
                  /\ \A i \in 1 .. Len(Cases) : Cases[i] \in ToSet(Cases)
BY LiveRunAssumption DEF LiveRunAssumption, ToSet

LEMMA AttemptsType ==
  ASSUME NEW retried \in BOOLEAN, NEW final \in AllFinals
  PROVE  Attempts(retried, final) \in Seq(AllFinals)
<1>1. [kind |-> "unanswered", served |-> Unset] \in AllFinals
  BY DEF AllFinals, Unserved
<1> DEFINE first == IF retried THEN <<[kind |-> "unanswered", served |-> Unset]>> ELSE <<>>
           last == IF final.kind \in {"no_call", "refused"} THEN <<>> ELSE <<final>>
<1>2. first \in Seq(AllFinals) /\ last \in Seq(AllFinals)
  BY <1>1
<1>3. Attempts(retried, final) = first \o last
  BY DEF Attempts
<1> HIDE DEF first, last
<1> QED
  BY <1>2, <1>3

(* The case and answer of every row of the live run.                        *)
RowItems ==
  {[case |-> row.case, answer |-> row.answer] : row \in UNION {ToSet(rows[a]) : a \in Aliases}}

(* The recorded answers are those of the rows the manifest was made of.     *)
LEMMA RecordedAre ==
  ASSUME rows \in [Aliases -> Seq(Rows)], NEW m, m.aliases \in SUBSET Aliases,
         m.files = [a \in m.aliases |-> rows[a]]
  PROVE  /\ RecordedAnswers(m) \in Seq(Items)
         /\ Classified(RecordedAnswers(m))
         /\ ToSet(RecordedAnswers(m)) \subseteq RowItems
<1> DEFINE of(a) == IF a \in m.aliases THEN m.files[a] ELSE <<>>
           all == of("primary") \o of("open_weight")
<1>1. ASSUME NEW a \in Aliases
      PROVE  of(a) \in Seq(Rows) /\ \A i \in DOMAIN of(a) : of(a)[i] \in ToSet(rows[a])
  BY DEF ToSet
<1>2. "primary" \in Aliases /\ "open_weight" \in Aliases
  BY DEF Aliases
<1>3. of("primary") \in Seq(Rows) /\ of("open_weight") \in Seq(Rows)
  BY <1>1, <1>2
<1>4. RecordedAnswers(m) = [i \in DOMAIN all |-> [case |-> all[i].case, answer |-> all[i].answer]]
  BY DEF RecordedAnswers
<1>5. \A i \in DOMAIN of("primary") : of("primary")[i] \in ToSet(rows["primary"])
  BY <1>1, <1>2
<1>6. \A i \in DOMAIN of("open_weight") : of("open_weight")[i] \in ToSet(rows["open_weight"])
  BY <1>1, <1>2
<1> HIDE DEF of
<1>7. all \in Seq(Rows) /\ Len(all) = Len(of("primary")) + Len(of("open_weight"))
  BY <1>3
<1>8. ASSUME NEW i \in DOMAIN all
      PROVE  all[i] \in Rows /\ \E a \in Aliases : all[i] \in ToSet(rows[a])
  <2>1. all[i] \in Rows
    BY <1>7
  <2>2. CASE i <= Len(of("primary"))
    <3>1. i \in DOMAIN of("primary") /\ all[i] = of("primary")[i]
      BY <1>3, <1>7, <2>2
    <3> QED
      BY <1>2, <1>5, <2>1, <3>1
  <2>3. CASE ~(i <= Len(of("primary")))
    <3>1. /\ i - Len(of("primary")) \in DOMAIN of("open_weight")
          /\ all[i] = of("open_weight")[i - Len(of("primary"))]
      BY <1>3, <1>7, <2>3
    <3> QED
      BY <1>2, <1>6, <2>1, <3>1
  <2> QED
    BY <2>2, <2>3
<1> HIDE DEF all
<1>9. \A r \in Rows : r.case \in ToSet(Cases) /\ r.answer \in Answers \cup {Refusal}
  BY DEF Rows
<1>10. DOMAIN RecordedAnswers(m) = DOMAIN all /\ DOMAIN all = 1 .. Len(all) /\ Len(all) \in Nat
  BY <1>4, <1>7
<1>11. \A i \in DOMAIN all : RecordedAnswers(m)[i] = [case |-> all[i].case, answer |-> all[i].answer]
  BY <1>4
<1>12. ASSUME NEW i \in DOMAIN all PROVE RecordedAnswers(m)[i] \in Items
  <2>1. all[i].case \in ToSet(Cases) /\ all[i].answer \in Answers \cup {Refusal}
    BY <1>8, <1>9
  <2>2. [case |-> all[i].case, answer |-> all[i].answer] \in Items
    BY <2>1 DEF Items
  <2> QED
    BY <2>2, <1>11
<1>13. RecordedAnswers(m) \in Seq(Items)
  <2>1. RecordedAnswers(m) = [i \in 1 .. Len(all) |-> RecordedAnswers(m)[i]]
    BY <1>4, <1>10
  <2> QED
    BY <2>1, <1>10, <1>12
<1>14. Classified(RecordedAnswers(m))
  BY <1>10, <1>12 DEF Classified, Items
<1>15. ASSUME NEW i \in DOMAIN all
       PROVE  RecordedAnswers(m)[i] \in RowItems
  <2>1. all[i] \in UNION {ToSet(rows[a]) : a \in Aliases}
    BY <1>8
  <2> QED
    BY <2>1, <1>11 DEF RowItems
<1>16. ToSet(RecordedAnswers(m)) \subseteq RowItems
  BY <1>10, <1>15 DEF ToSet
<1> QED
  BY <1>13, <1>14, <1>16
-----------------------------------------------------------------------------
(* The live run.                                                            *)

LEMMA EvaluateCaseInv ==
  ASSUME RunInv, NEW a \in Aliases, EvaluateCase(a)
  PROVE  RunInv'
<1>1. PICK retried \in BOOLEAN, final \in Finals, answer \in Answers \cup {Refusal} :
        /\ events' = [events EXCEPT ![a] = @ \o Attempts(retried, final)]
        /\ rows' = [rows EXCEPT ![a] = Append(@,
             [case |-> Cases[Len(@) + 1], answer |-> answer,
              error |-> final.kind \notin {"no_call", "success"}, kind |-> evidence_kind(final)])]
  BY DEF EvaluateCase
<1>2. stage = a /\ Len(rows[a]) < Len(Cases)
      /\ UNCHANGED <<stage, injected, stop_reason, run_dir>>
  BY DEF EvaluateCase
<1> DEFINE row == [case |-> Cases[Len(rows[a]) + 1], answer |-> answer,
                   error |-> final.kind \notin {"no_call", "success"}, kind |-> evidence_kind(final)]
<1>3. /\ events \in [Aliases -> Seq(AllFinals)] /\ rows \in [Aliases -> Seq(Rows)]
      /\ stage \in Aliases \cup {"start", "report", "ended"} /\ injected \in BOOLEAN
  BY DEF RunInv
<1>4. \A b \in Aliases : /\ Len(rows[b]) <= Len(Cases)
                         /\ \A i \in 1 .. Len(rows[b]) : rows[b][i].case = Cases[i]
  BY DEF RunInv
<1>5. events' \in [Aliases -> Seq(AllFinals)]
  <2>1. Attempts(retried, final) \in Seq(AllFinals)
    BY AttemptsType, LiveRunAssumption DEF LiveRunAssumption
  <2>2. events[a] \o Attempts(retried, final) \in Seq(AllFinals)
    BY <1>3, <2>1
  <2> QED
    BY <1>1, <1>3, <2>2
<1>6. row \in Rows
  <2>1. Len(rows[a]) + 1 \in 1 .. Len(Cases)
    BY <1>2, <1>3, CasesAre
  <2>2. Cases[Len(rows[a]) + 1] \in ToSet(Cases)
    BY <2>1, CasesAre
  <2>3. evidence_kind(final) \in {"deterministic_no_model_call", "live", "non_live_or_unknown"}
    BY DEF evidence_kind
  <2> QED
    BY <2>2, <2>3 DEF Rows
<1>7. rows'[a] = Append(rows[a], row) /\ \A b \in Aliases \ {a} : rows'[b] = rows[b]
  BY <1>1, <1>3
<1>8. row.case = Cases[Len(rows[a]) + 1]
  OBVIOUS
<1> HIDE DEF row
<1>9. rows' \in [Aliases -> Seq(Rows)]
  BY <1>1, <1>3, <1>6, <1>7
<1>10. ASSUME NEW b \in Aliases
       PROVE  /\ Len(rows'[b]) <= Len(Cases)
              /\ \A i \in 1 .. Len(rows'[b]) : rows'[b][i].case = Cases[i]
  <2>1. CASE b # a
    BY <2>1, <1>4, <1>7
  <2>2. CASE b = a
    <3>1. rows[a] \in Seq(Rows) /\ Len(rows[a]) \in Nat
      BY <1>3
    <3>2. /\ Len(rows'[a]) = Len(rows[a]) + 1
          /\ rows'[a][Len(rows[a]) + 1] = row
          /\ \A i \in 1 .. Len(rows[a]) : rows'[a][i] = rows[a][i]
      BY <1>6, <1>7, <3>1
    <3>3. Len(rows'[a]) <= Len(Cases)
      BY <3>1, <3>2, <1>2, CasesAre
    <3>4. \A i \in 1 .. Len(rows'[a]) : i \in 1 .. Len(rows[a]) \/ i = Len(rows[a]) + 1
      BY <3>1, <3>2
    <3> QED
      BY <2>2, <3>2, <3>3, <3>4, <1>4, <1>8
  <2> QED
    BY <2>1, <2>2
<1>11. \A f \in DOMAIN run_dir : run_dir[f] = rows[f] /\ f # a
  BY <1>2 DEF RunInv, Aliases
<1>12. \A f \in DOMAIN run_dir : f \in Aliases
  BY <1>2 DEF RunInv, Aliases
<1>13. \A f \in DOMAIN run_dir : run_dir[f] = rows'[f]
  BY <1>7, <1>11, <1>12
<1>14. /\ stage \in {"start", "primary"} => DOMAIN run_dir = {}
       /\ stage = "open_weight" => DOMAIN run_dir = {"primary"}
       /\ stage = "report" => DOMAIN run_dir = Aliases
  BY DEF RunInv
<1> QED
  BY <1>2, <1>3, <1>5, <1>9, <1>10, <1>13, <1>14 DEF RunInv

LEMMA CloseAliasInv ==
  ASSUME RunInv, NEW a \in Aliases, CloseAlias(a)
  PROVE  RunInv'
<1>1. /\ stage = a /\ UNCHANGED <<injected, events, rows>>
      /\ run_dir' = Write(run_dir, a, rows[a])
      /\ stage' = IF a = "primary" THEN "open_weight" ELSE "report"
  BY DEF CloseAlias, client
<1>2. /\ DOMAIN run_dir' = DOMAIN run_dir \cup {a} /\ run_dir'[a] = rows[a]
      /\ \A f \in DOMAIN run_dir : f # a => run_dir'[f] = run_dir[f]
  BY <1>1 DEF Write
<1>3. \A f \in DOMAIN run_dir' : run_dir'[f] = rows[f]
  BY <1>1, <1>2 DEF RunInv, Aliases
<1>4. /\ stage' \in Aliases \cup {"start", "report", "ended"}
      /\ stage' \notin {"start", "primary"}
      /\ stage' = "open_weight" => DOMAIN run_dir' = {"primary"}
      /\ stage' = "report" => DOMAIN run_dir' = Aliases
  BY <1>1, <1>2 DEF RunInv, Aliases
<1> QED
  BY <1>1, <1>3, <1>4 DEF RunInv

(* Until a run has ended there is neither a manifest nor a review of it.    *)
LEMMA UnderWay ==
  ASSUME RunInv, VerdictInv, BoundInv, stage # "ended"
  PROVE  "manifest" \notin DOMAIN run_dir /\ DOMAIN review_dir = {} /\ job = "none"
BY DEF VerdictInv, BoundInv

LEMMA RunInvStep ==
  ASSUME RunInv, RunNext
  PROVE  RunInv'
<1>1. CASE \E a \in Aliases : EvaluateCase(a)
  BY <1>1, EvaluateCaseInv
<1>2. CASE \E a \in Aliases : CloseAlias(a)
  BY <1>2, CloseAliasInv
<1>3. CASE Begin
  BY <1>3 DEF Begin, RunInv, client, Aliases
<1>4. CASE NotRun \/ Report \/ Error \/ Killed
  <2>1. stage' = "ended" /\ UNCHANGED <<injected, events, rows>>
    BY <1>4 DEF NotRun, Report, Error, Killed, client
  <2> QED
    BY <2>1 DEF RunInv, Aliases
<1> QED
  BY <1>1, <1>2, <1>3, <1>4 DEF RunNext

(* What a run may call complete is.                                         *)
LEMMA ReportEarned ==
  ASSUME RunInv, stage = "report"
  PROVE  /\ RunStatus \in {"LIVE_COMPLETE", "PILOT_COMPLETE"} => Whole(injected, events, rows)
         /\ RunStatus \in {"LIVE_COMPLETE", "PILOT_COMPLETE", "LIVE_ERRORS"} =>
              \A a \in Aliases : Len(rows[a]) = Len(Cases)
         /\ live_model_evidence => ~injected
<1>1. /\ rows \in [Aliases -> Seq(Rows)] /\ events \in [Aliases -> Seq(AllFinals)]
      /\ \A a \in Aliases : /\ Len(rows[a]) <= Len(Cases)
                            /\ \A i \in 1 .. Len(rows[a]) : rows[a][i].case = Cases[i]
  BY DEF RunInv
<1>2. Aliases = {"primary", "open_weight"}
  BY DEF Aliases
<1>3. live_model_evidence => ~injected
  BY <1>2 DEF live_model_evidence, mode_matches
<1>4. ~incomplete => \A a \in Aliases : Len(rows[a]) = Len(Cases)
  BY <1>1, CasesAre DEF incomplete
<1>5. ASSUME ~errors, NEW a \in Aliases, NEW i \in 1 .. Len(rows[a])
      PROVE  ~rows[a][i].error
  <2>1. rows[a][i] \in ToSet(rows[a])
    BY <1>1 DEF ToSet
  <2> QED
    BY <2>1, <1>5 DEF errors
<1>6. ASSUME live_model_evidence, NEW a \in Aliases
      PROVE  Cardinality({e.served : e \in Received(events[a])}) = 1
  <2>1. PICK m \in Models : {e.served : e \in Received(events[a])} = {m}
    BY <1>6 DEF live_model_evidence, single_known_served_model
  <2> QED
    BY <2>1, FS_Singleton
<1>7. ASSUME live_model_evidence,
             NEW e \in Received(events["primary"]), NEW f \in Received(events["open_weight"])
      PROVE  e.served # f.served
  <2>1. /\ \E m \in Models : {x.served : x \in Received(events["primary"])} = {m}
        /\ \E m \in Models : {x.served : x \in Received(events["open_weight"])} = {m}
    BY <1>2, <1>7 DEF live_model_evidence, single_known_served_model
  <2>2. e.served \in Models /\ f.served \in Models /\ Unset \notin Models
    BY <2>1, LiveRunAssumption DEF LiveRunAssumption
  <2>3. /\ e.served \in served_models(events["primary"])
        /\ f.served \in served_models(events["open_weight"])
    BY <2>2 DEF served_models
  <2> QED
    BY <2>3, <1>7 DEF live_model_evidence, distinct
<1>8. RunStatus \in {"LIVE_COMPLETE", "PILOT_COMPLETE", "LIVE_ERRORS"} => ~incomplete
  BY DEF RunStatus
<1>9. RunStatus \in {"LIVE_COMPLETE", "PILOT_COMPLETE"} => ~errors /\ live_model_evidence
  BY DEF RunStatus
<1>10. DOMAIN Cases = 1 .. Len(Cases)
  BY CasesAre
<1>11. ASSUME ~incomplete, ~errors, live_model_evidence PROVE Whole(injected, events, rows)
  <2>1. \A a \in Aliases : Len(rows[a]) = Len(Cases)
    BY <1>4, <1>11
  <2>2. \A a \in Aliases : \A i \in DOMAIN Cases : rows[a][i].case = Cases[i] /\ ~rows[a][i].error
    BY <2>1, <1>1, <1>5, <1>10, <1>11
  <2> QED
    BY <2>1, <2>2, <1>3, <1>6, <1>7, <1>11 DEF Whole
<1> QED
  BY <1>3, <1>4, <1>8, <1>9, <1>11

LEMMA ManifestMade ==
  ASSUME RunInv, stage # "ended", NEW status, NEW live \in BOOLEAN, NEW done \in SUBSET Aliases,
         done \subseteq DOMAIN run_dir, live => ~injected,
         status \in {"LIVE_COMPLETE", "PILOT_COMPLETE"} => Whole(injected, events, rows),
         status \in {"LIVE_COMPLETE", "PILOT_COMPLETE", "LIVE_ERRORS"} =>
           done = Aliases /\ \A a \in Aliases : Len(rows[a]) = Len(Cases)
  PROVE  /\ WellMade(Manifest(status, live, done), injected, events, rows)
         /\ Manifest(status, live, done).live => ~injected
<1> DEFINE m == Manifest(status, live, done)
<1>1. \A a \in done : run_dir[a] = rows[a]
  BY DEF RunInv
<1>2. /\ DOMAIN m = {"status", "live", "aliases", "files"}
      /\ m.status = status /\ m.aliases = done /\ m.files = [a \in done |-> run_dir[a]]
  BY DEF Manifest
<1>3. m.live => ~injected
  BY DEF Manifest
<1>4. m.files = [a \in m.aliases |-> rows[a]]
  BY <1>1, <1>2
<1> HIDE DEF m
<1>5. WellMade(m, injected, events, rows)
  BY <1>2, <1>4 DEF WellMade
<1> QED
  BY <1>3, <1>5 DEF m

LEMMA VerdictStep ==
  ASSUME RunInv, VerdictInv, BoundInv, RunNext, UNCHANGED reviewvars
  PROVE  VerdictInv' /\ BoundInv'
<1>1. stage # "ended"
  BY DEF RunNext, NotRun, Begin, Report, Error, Killed, EvaluateCase, CloseAlias, Aliases
<1>2. "manifest" \notin DOMAIN run_dir /\ DOMAIN review_dir = {} /\ job = "none"
  BY <1>1, UnderWay
<1>3. DOMAIN review_dir' = {} /\ job' = "none"
  BY <1>2 DEF reviewvars
<1>4. BoundInv'
  BY <1>3 DEF BoundInv
<1>5. CASE Begin \/ Killed \/ \E a \in Aliases : EvaluateCase(a) \/ CloseAlias(a)
  <2>1. "manifest" \notin DOMAIN run_dir'
    <3>1. CASE \E a \in Aliases : CloseAlias(a)
      <4>1. PICK a \in Aliases : run_dir' = Write(run_dir, a, rows[a])
        BY <3>1 DEF CloseAlias
      <4> QED
        BY <4>1, <1>2 DEF Aliases, Write
    <3>2. CASE Begin \/ Killed \/ \E a \in Aliases : EvaluateCase(a)
      BY <3>2, <1>2 DEF Begin, Killed, EvaluateCase
    <3> QED
      BY <1>5, <3>1, <3>2
  <2> QED
    BY <1>4, <2>1 DEF VerdictInv
<1>6. CASE NotRun \/ Report \/ Error
  <2>1. stage' = "ended" /\ UNCHANGED <<injected, events, rows>>
    BY <1>6 DEF NotRun, Report, Error, client
  <2> DEFINE m == run_dir'["manifest"]
  <2>2. WellMade(m, injected, events, rows) /\ (m.live => ~injected)
    <3>1. CASE NotRun
      <4>1. PICK status \in {"NOT_RUN", "NOT_CONFIGURED"} :
              run_dir' = Write(run_dir, "manifest", Manifest(status, FALSE, {}))
        BY <3>1 DEF NotRun
      <4>2. m = Manifest(status, FALSE, {})
        BY <4>1 DEF Write
      <4> HIDE DEF m
      <4> QED
        BY <4>2, <1>1, ManifestMade
    <3>2. CASE Error
      <4>1. m = Manifest("ERROR", FALSE, Closed)
        BY <3>2 DEF Error, Write
      <4>2. Closed \in SUBSET Aliases /\ Closed \subseteq DOMAIN run_dir
        BY DEF Closed
      <4> HIDE DEF m
      <4> QED
        BY <4>1, <4>2, <1>1, ManifestMade
    <3>3. CASE Report
      <4>1. m = Manifest(RunStatus, live_model_evidence, Aliases) /\ stage = "report"
        BY <3>3 DEF Report, Write
      <4>2. DOMAIN run_dir = Aliases
        BY <4>1 DEF RunInv
      <4>3. live_model_evidence \in BOOLEAN
        BY DEF live_model_evidence
      <4> HIDE DEF m
      <4> QED
        BY <4>1, <4>2, <4>3, <1>1, ReportEarned, ManifestMade
    <3> QED
      BY <1>6, <3>1, <3>2, <3>3
  <2> HIDE DEF m
  <2>8. WellMade(run_dir'["manifest"], injected', events', rows')
    BY <2>1, <2>2 DEF m
  <2>9. run_dir'["manifest"].live => ~injected'
    BY <2>1, <2>2 DEF m
  <2> QED
    BY <1>4, <2>1, <2>8, <2>9 DEF VerdictInv
<1> QED
  BY <1>4, <1>5, <1>6 DEF RunNext
-----------------------------------------------------------------------------
(* The review.                                                              *)

ReviewStep ==
  \/ \E allow_non_live \in BOOLEAN : prepare_review(allow_non_live)
  \/ BindReview
  \/ BeginJudge \/ JudgeItem \/ WritePredictions \/ WriteJudgeEvents \/ WriteJudgeManifest
  \/ Stop
  \/ \E label \in [ToSet(review_dir["review"].items) -> Labels \cup {Unset}], source_matches \in BOOLEAN :
       score_review(label, source_matches)

EditStep == (\E a \in Aliases : EditRun(a)) \/ EditManifest \/ EditReview

LEMMA NextSteps ==
  ASSUME Next
  PROVE  (RunNext /\ UNCHANGED reviewvars) \/ ReviewStep \/ EditStep
BY DEF Next, Run, ReviewStep, EditStep

(* What each step leaves alone.                                             *)
LEMMA StepFrames ==
  /\ ReviewStep => UNCHANGED runvars /\ edits' = edits
  /\ EditStep => /\ UNCHANGED <<stage, injected, events, rows, job, source, judge, calibration>>
                 /\ job = "none" /\ edits' = edits + 1
<1>1. ReviewStep => UNCHANGED runvars /\ edits' = edits
  BY DEF ReviewStep, prepare_review, BindReview, BeginJudge, JudgeItem, WritePredictions,
         WriteJudgeEvents, WriteJudgeManifest, Stop, score_review
<1>2. EditStep => /\ UNCHANGED <<stage, injected, events, rows, job, source, judge, calibration>>
                  /\ job = "none" /\ edits' = edits + 1
  BY DEF EditStep, EditRun, EditManifest, EditReview, MayEdit, runvars, client
<1> QED
  BY <1>1, <1>2

(* An edit by hand changes no set of files, and nothing that was signed or  *)
(* bound.                                                                   *)
LEMMA EditsAre ==
  ASSUME EditStep
  PROVE  /\ DOMAIN run_dir' = DOMAIN run_dir /\ DOMAIN review_dir' = DOMAIN review_dir
         /\ review_dir'["review"] = review_dir["review"] /\ review_dir'["judge"] = review_dir["judge"]
         /\ "manifest" \in DOMAIN run_dir =>
              \/ run_dir'["manifest"] = run_dir["manifest"]
              \/ /\ "review" \in DOMAIN review_dir
                 /\ run_dir'["manifest"] = [run_dir["manifest"] EXCEPT !.live = ~@]
<1>1. CASE \E a \in Aliases : EditRun(a)
  <2>1. PICK a \in Aliases : EditRun(a)
    BY <1>1
  <2>2. PICK answer : run_dir' = [run_dir EXCEPT ![a][1].answer = answer]
    BY <2>1 DEF EditRun
  <2>3. review_dir' = review_dir /\ a # "manifest"
    BY <2>1 DEF EditRun, Aliases
  <2> QED
    BY <2>2, <2>3
<1>2. CASE EditManifest
  <2>1. run_dir' = [run_dir EXCEPT !["manifest"].live = ~@] /\ "review" \in DOMAIN review_dir
        /\ review_dir' = review_dir
    BY <1>2 DEF EditManifest
  <2> QED
    BY <2>1
<1>3. CASE EditReview
  <2>1. run_dir' = run_dir
    BY <1>3 DEF EditReview, runvars
  <2>2. \/ \E answer : review_dir' = [review_dir EXCEPT !["items"][1].answer = answer]
        \/ review_dir' = [review_dir EXCEPT !["rubric"] = "another"]
        \/ \E label : review_dir' = [review_dir EXCEPT !["predictions"][1].label = label]
        \/ review_dir' = [review_dir EXCEPT !["judge_events"] = Tail(@)]
    BY <1>3 DEF EditReview
  <2>3. /\ DOMAIN review_dir' = DOMAIN review_dir
        /\ review_dir'["review"] = review_dir["review"] /\ review_dir'["judge"] = review_dir["judge"]
    <3>1. ASSUME NEW f, f \notin {"review", "judge"}, NEW x, review_dir' = [review_dir EXCEPT ![f] = x]
          PROVE  <2>3
      BY <3>1
    <3>2. CASE \E answer : review_dir' = [review_dir EXCEPT !["items"][1].answer = answer]
      BY <3>2
    <3>3. CASE review_dir' = [review_dir EXCEPT !["rubric"] = "another"]
      BY <3>3
    <3>4. CASE \E label : review_dir' = [review_dir EXCEPT !["predictions"][1].label = label]
      BY <3>4
    <3>5. CASE review_dir' = [review_dir EXCEPT !["judge_events"] = Tail(@)]
      <4>1. review_dir' = [review_dir EXCEPT !["judge_events"] = Tail(review_dir["judge_events"])]
        BY <3>5
      <4> QED
        BY <4>1, <3>1
    <3> QED
      BY <2>2, <3>2, <3>3, <3>4, <3>5
  <2> QED
    BY <2>1, <2>3
<1> QED
  BY <1>1, <1>2, <1>3 DEF EditStep

LEMMA EditsKeepVerdict ==
  ASSUME RunInv, VerdictInv, BoundInv, EditStep
  PROVE  RunInv' /\ VerdictInv'
<1>1. UNCHANGED <<stage, injected, events, rows>> /\ DOMAIN run_dir' = DOMAIN run_dir
      /\ DOMAIN review_dir' = DOMAIN review_dir
  BY StepFrames, EditsAre
<1>2. stage = "ended"
  <2>1. CASE \E a \in Aliases : EditRun(a)
    BY <2>1 DEF EditRun
  <2>2. CASE EditManifest
    BY <2>2 DEF EditManifest, BoundInv, VerdictInv
  <2>3. CASE EditReview
    <3>1. DOMAIN review_dir # {}
      BY <2>3 DEF EditReview
    <3> QED
      BY <3>1 DEF BoundInv, VerdictInv
  <2> QED
    BY <2>1, <2>2, <2>3 DEF EditStep
<1>3. RunInv'
  BY <1>1, <1>2 DEF RunInv, Aliases
<1>4. ASSUME "manifest" \in DOMAIN run_dir
      PROVE  WellMade(run_dir'["manifest"], injected, events, rows)
             /\ ("review" \notin DOMAIN review_dir => (run_dir'["manifest"].live => ~injected))
  <2>1. WellMade(run_dir["manifest"], injected, events, rows)
        /\ ("review" \notin DOMAIN review_dir => (run_dir["manifest"].live => ~injected))
    BY <1>4 DEF VerdictInv
  <2>2. CASE run_dir'["manifest"] = run_dir["manifest"]
    BY <2>1, <2>2
  <2>3. CASE /\ "review" \in DOMAIN review_dir
             /\ run_dir'["manifest"] = [run_dir["manifest"] EXCEPT !.live = ~@]
    <3> DEFINE m == run_dir["manifest"]
               n == [m EXCEPT !.live = ~@]
    <3>1. DOMAIN m = {"status", "live", "aliases", "files"}
      BY <2>1 DEF WellMade
    <3>2. DOMAIN n = DOMAIN m /\ n.status = m.status /\ n.aliases = m.aliases /\ n.files = m.files
      <4> HIDE DEF m
      <4> QED
        BY <3>1
    <3>3. WellMade(m, injected, events, rows)
      BY <2>1
    <3> HIDE DEF m, n
    <3>4. WellMade(n, injected, events, rows)
      BY <3>2, <3>3 DEF WellMade
    <3>5. run_dir'["manifest"] = n
      BY <2>3 DEF m, n
    <3> QED
      BY <2>3, <3>4, <3>5
  <2> QED
    BY <1>4, <2>2, <2>3, EditsAre
<1>5. VerdictInv'
  BY <1>1, <1>2, <1>4 DEF VerdictInv
<1> QED
  BY <1>3, <1>5

LEMMA EditsKeepBound ==
  ASSUME BoundInv, EditStep
  PROVE  BoundInv'
<1>1. /\ UNCHANGED <<injected, events, rows, job, source>> /\ job = "none"
      /\ DOMAIN run_dir' = DOMAIN run_dir /\ DOMAIN review_dir' = DOMAIN review_dir
      /\ review_dir'["review"] = review_dir["review"]
  BY StepFrames, EditsAre
<1> QED
  BY <1>1 DEF BoundInv

(* A live verdict of an unedited manifest is about a live run.              *)
LEMMA LiveIsLive ==
  ASSUME VerdictInv, "manifest" \in DOMAIN run_dir, "review" \notin DOMAIN review_dir,
         is_live(run_dir["manifest"])
  PROVE  LiveAndWhole(run_dir["manifest"], injected, rows)
<1> DEFINE m == run_dir["manifest"]
<1>1. WellMade(m, injected, events, rows) /\ (m.live => ~injected)
  BY DEF VerdictInv
<1>2. m.live /\ m.status \in {"LIVE_COMPLETE", "PILOT_COMPLETE", "LIVE_ERRORS"}
  BY DEF is_live
<1> HIDE DEF m
<1>3. m.aliases = Aliases /\ \A a \in Aliases : Len(rows[a]) = Len(Cases)
  BY <1>1, <1>2 DEF WellMade
<1>4. LiveAndWhole(m, injected, rows)
  BY <1>1, <1>2, <1>3 DEF LiveAndWhole
<1> QED
  BY <1>4 DEF m

LEMMA PrepareBound ==
  ASSUME VerdictInv, BoundInv, NEW allow_non_live \in BOOLEAN, prepare_review(allow_non_live)
  PROVE  /\ DOMAIN review_dir = {} /\ DOMAIN review_dir' = {"rubric", "items"}
         /\ job = "none" /\ job' = "binding"
         /\ BoundInv'
<1> DEFINE m == run_dir["manifest"]
<1>1. /\ DOMAIN review_dir = {} /\ "manifest" \in DOMAIN run_dir /\ job = "none" /\ job' = "binding"
      /\ source' = [is_live |-> is_live(m)]
      /\ review_dir' = Write(Write(review_dir, "rubric", "rubric"), "items", Selected(RecordedAnswers(m)))
      /\ UNCHANGED <<run_dir, injected, rows>>
  BY DEF prepare_review, runvars, client
<1>2. DOMAIN review_dir' = {"rubric", "items"}
      /\ review_dir'["items"] = Selected(RecordedAnswers(m))
  BY <1>1 DEF Write
<1>3. is_live(m) => LiveAndWhole(m, injected, rows)
  BY <1>1, LiveIsLive
<1>4. run_dir'["manifest"] = m
  BY <1>1
<1>5. source'.is_live => LiveAndWhole(m, injected, rows)
  BY <1>1, <1>3
<1> HIDE DEF m
<1>6. source'.is_live => LiveAndWhole(run_dir'["manifest"], injected', rows')
  BY <1>1, <1>4, <1>5
<1>7. review_dir'["items"] = Selected(RecordedAnswers(run_dir'["manifest"]))
  BY <1>2, <1>4
<1>8. BoundInv'
  BY <1>1, <1>2, <1>6, <1>7 DEF BoundInv
<1> QED
  BY <1>1, <1>2, <1>8

LEMMA BindBound ==
  ASSUME VerdictInv, BoundInv, BindReview
  PROVE  BoundInv'
<1> DEFINE m == run_dir["manifest"]
           r == [manifest |-> m, items |-> review_dir["items"], rubric |-> "rubric",
                 source_is_live |-> source.is_live]
<1>1. /\ job = "binding" /\ job' = "none" /\ UNCHANGED <<run_dir, injected, events, rows>>
      /\ review_dir' = Write(review_dir, "review", r)
  BY DEF BindReview, runvars, client
<1>2. "manifest" \in DOMAIN run_dir /\ WellMade(m, injected, events, rows)
  BY <1>1 DEF BoundInv, VerdictInv
<1>3. /\ review_dir["items"] = Selected(RecordedAnswers(m))
      /\ source.is_live => LiveAndWhole(m, injected, rows)
  BY <1>1 DEF BoundInv
<1>4. r.manifest = m /\ r.items = review_dir["items"] /\ r.source_is_live = source.is_live
  OBVIOUS
<1>5. review_dir'["review"] = r
  BY <1>1 DEF Write
<1> HIDE DEF r, m
<1>6. /\ WellMade(r.manifest, injected', events', rows')
      /\ r.items = Selected(RecordedAnswers(r.manifest))
      /\ r.source_is_live => LiveAndWhole(r.manifest, injected', rows')
  BY <1>1, <1>2, <1>3, <1>4
<1> QED
  BY <1>1, <1>2, <1>5, <1>6 DEF BoundInv

LEMMA OtherBound ==
  ASSUME BoundInv, FilesInv,
         \/ BeginJudge \/ JudgeItem \/ WritePredictions \/ WriteJudgeEvents \/ WriteJudgeManifest \/ Stop
         \/ \E label, source_matches : score_review(label, source_matches)
  PROVE  BoundInv'
<1>1. UNCHANGED <<run_dir, injected, events, rows, source>>
  BY DEF BeginJudge, JudgeItem, WritePredictions, WriteJudgeEvents, WriteJudgeManifest, Stop,
         score_review, runvars, client
<1>2. CASE Stop
  BY <1>1, <1>2 DEF BoundInv, Stop
<1>3. CASE \E label, source_matches : score_review(label, source_matches)
  BY <1>1, <1>3 DEF BoundInv, score_review
<1>4. CASE BeginJudge \/ JudgeItem
  BY <1>1, <1>4 DEF BoundInv, BeginJudge, JudgeItem, ReviewIntact
<1>5. CASE WritePredictions \/ WriteJudgeEvents \/ WriteJudgeManifest
  <2>1. /\ job \in {"judging", "metering", "signing"} /\ job' # "binding"
        /\ "review" \in DOMAIN review_dir'
        /\ review_dir'["review"] = review_dir["review"]
    BY <1>5 DEF WritePredictions, WriteJudgeEvents, WriteJudgeManifest, Write, FilesInv
  <2>2. "review" \in DOMAIN review_dir /\ "manifest" \in DOMAIN run_dir'
    BY <1>1, <2>1 DEF FilesInv, BoundInv
  <2> QED
    BY <1>1, <2>1, <2>2 DEF BoundInv
<1> QED
  BY <1>2, <1>3, <1>4, <1>5
-----------------------------------------------------------------------------
(* The files of the review.                                                 *)

LEMMA FilesStep ==
  ASSUME VerdictInv, BoundInv, FilesInv, SignedInv, ReviewStep \/ EditStep
  PROVE  FilesInv'
<1>1. CASE \E allow_non_live \in BOOLEAN : prepare_review(allow_non_live)
  <2>1. DOMAIN review_dir' = {"rubric", "items"} /\ job' = "binding"
    BY <1>1, PrepareBound
  <2> QED
    BY <2>1 DEF FilesInv
<1>2. CASE BindReview
  BY <1>2 DEF FilesInv, BindReview, Write
<1>3. CASE BeginJudge
  BY <1>3 DEF FilesInv, BeginJudge, ReviewIntact
<1>4. CASE JudgeItem
  BY <1>4 DEF FilesInv, JudgeItem
<1>5. CASE WritePredictions
  <2>1. /\ job = "judging" /\ job' = "metering"
        /\ DOMAIN review_dir' = DOMAIN review_dir \cup {"predictions"}
    BY <1>5 DEF WritePredictions, Write
  <2> QED
    BY <2>1 DEF FilesInv
<1>6. CASE WriteJudgeEvents
  <2>1. /\ job = "metering" /\ job' = "signing"
        /\ DOMAIN review_dir' = DOMAIN review_dir \cup {"judge_events"}
    BY <1>6 DEF WriteJudgeEvents, Write
  <2>2. "predictions" \in DOMAIN review_dir
    BY <2>1 DEF SignedInv
  <2> QED
    BY <2>1, <2>2 DEF FilesInv
<1>7. CASE WriteJudgeManifest
  <2>1. /\ job = "signing" /\ job' = "none"
        /\ DOMAIN review_dir' = DOMAIN review_dir \cup {"judge"}
    BY <1>7 DEF WriteJudgeManifest, Write
  <2>2. "predictions" \in DOMAIN review_dir /\ "judge_events" \in DOMAIN review_dir
    BY <2>1 DEF SignedInv
  <2> QED
    BY <2>1, <2>2 DEF FilesInv
<1>8. CASE Stop
  BY <1>8 DEF FilesInv, Stop
<1>9. CASE \E label \in [ToSet(review_dir["review"].items) -> Labels \cup {Unset}],
              source_matches \in BOOLEAN : score_review(label, source_matches)
  BY <1>9 DEF FilesInv, score_review
<1>10. CASE EditStep
  <2>1. job' = job /\ DOMAIN review_dir' = DOMAIN review_dir
    BY <1>10, StepFrames, EditsAre
  <2> QED
    BY <2>1 DEF FilesInv
<1> QED
  BY <1>1, <1>2, <1>3, <1>4, <1>5, <1>6, <1>7, <1>8, <1>9, <1>10 DEF ReviewStep

(* A process writes only a file that is not there.                          *)
LEMMA KeptStep ==
  ASSUME BoundInv, FilesInv, ReviewStep
  PROVE  \A f \in DOMAIN review_dir : f \in DOMAIN review_dir' /\ review_dir'[f] = review_dir[f]
<1>1. CASE \E allow_non_live \in BOOLEAN : prepare_review(allow_non_live)
  BY <1>1 DEF prepare_review
<1>2. CASE BindReview
  BY <1>2 DEF BoundInv, BindReview, Write
<1>3. CASE WritePredictions
  BY <1>3 DEF FilesInv, WritePredictions, Write
<1>4. CASE WriteJudgeEvents
  BY <1>4 DEF FilesInv, WriteJudgeEvents, Write
<1>5. CASE WriteJudgeManifest
  BY <1>5 DEF FilesInv, WriteJudgeManifest, Write
<1>6. CASE \/ BeginJudge \/ JudgeItem \/ Stop
           \/ \E label \in [ToSet(review_dir["review"].items) -> Labels \cup {Unset}],
                 source_matches \in BOOLEAN : score_review(label, source_matches)
  <2>1. review_dir' = review_dir
    BY <1>6 DEF BeginJudge, JudgeItem, Stop, score_review
  <2> QED
    BY <2>1
<1> QED
  BY <1>1, <1>2, <1>3, <1>4, <1>5, <1>6 DEF ReviewStep

-----------------------------------------------------------------------------
(* The judge.                                                               *)

LEMMA JudgeFrame ==
  ASSUME JudgeInv, judge' = judge,
         "review" \in DOMAIN review_dir' <=> "review" \in DOMAIN review_dir,
         review_dir'["review"] = review_dir["review"]
  PROVE  JudgeInv'
BY DEF JudgeInv

LEMMA BeginJudgeInv ==
  ASSUME BeginJudge
  PROVE  JudgeInv' /\ judge'.predictions = <<>>
<1>1. PICK prior \in PriorCalls, transport \in BOOLEAN :
        judge' = [NoJudge EXCEPT !.injected = transport, !.initial = prior, !.wire = prior]
  BY DEF BeginJudge
<1>2. prior \in Nat /\ judge_max_calls \in Nat
  BY ReviewAssumption DEF ReviewAssumption
<1>3. /\ DOMAIN judge' = DOMAIN NoJudge
      /\ judge'.injected = transport /\ judge'.stopped = FALSE
      /\ judge'.initial = prior /\ judge'.wire = prior
      /\ judge'.events = <<>> /\ judge'.predictions = <<>>
  BY <1>1 DEF NoJudge
<1>4. "review" \in DOMAIN review_dir'
  BY DEF BeginJudge, ReviewIntact
<1>5. ToSet(judge'.predictions) = {}
  BY <1>3 DEF ToSet
<1>6. judge'.predictions \in Seq(Predictions) /\ Len(judge'.predictions) = 0
      /\ judge'.events \in Seq(AllFinals)
  BY <1>3
<1>7. judge'.wire - judge'.initial <= judge_max_calls
  BY <1>2, <1>3
<1>8. \A k \in 1 .. Len(judge'.predictions) : FALSE
  BY <1>6
<1>9. judge'.injected \in BOOLEAN /\ judge'.stopped \in BOOLEAN
      /\ judge'.initial \in Nat /\ judge'.wire \in Nat
  BY <1>2, <1>3
<1>10. DOMAIN judge' = DOMAIN NoJudge /\ judge'.predictions = <<>>
  BY <1>3
<1>11. \A p \in ToSet(judge'.predictions) : p.live => ~judge'.injected
  BY <1>5
<1> QED
  BY <1>4, <1>6, <1>7, <1>8, <1>9, <1>10, <1>11 DEF JudgeInv

LEMMA BoundItems ==
  ASSUME RunInv, BoundInv, "review" \in DOMAIN review_dir
  PROVE  /\ RecordedAnswers(review_dir["review"].manifest) \in Seq(Items)
         /\ Classified(RecordedAnswers(review_dir["review"].manifest))
         /\ review_dir["review"].items \in Seq(Items)
<1> DEFINE m == review_dir["review"].manifest
<1>1. rows \in [Aliases -> Seq(Rows)]
  BY DEF RunInv
<1>2. m.aliases \in SUBSET Aliases /\ m.files = [a \in m.aliases |-> rows[a]]
      /\ review_dir["review"].items = Selected(RecordedAnswers(m))
  BY DEF BoundInv, WellMade
<1> HIDE DEF m
<1>3. RecordedAnswers(m) \in Seq(Items) /\ Classified(RecordedAnswers(m))
  BY <1>1, <1>2, RecordedAre
<1>4. Selected(RecordedAnswers(m)) \in Seq(Items)
  BY <1>3, SelectedIs
<1> QED
  BY <1>2, <1>3, <1>4 DEF m

LEMMA JudgeItemInv ==
  ASSUME RunInv, BoundInv, FilesInv, JudgeInv, JudgeItem
  PROVE  JudgeInv'
<1> DEFINE items == review_dir["review"].items
           done == judge.predictions
<1>1. PICK retries \in 0 .. worst - 1, final \in JudgeFinals, label \in Labels \cup {Unset},
           stop \in BOOLEAN :
        judge' = [judge EXCEPT
            !.wire = @ + Len([i \in 1 .. retries |-> [kind |-> "unanswered", served |-> Unset]]
                             \o (IF final.kind \in {"no_call", "refused"} THEN <<>> ELSE <<final>>)),
            !.events = @ \o ([i \in 1 .. retries |-> [kind |-> "unanswered", served |-> Unset]]
                             \o (IF final.kind \in {"no_call", "refused"} THEN <<>> ELSE <<final>>)),
            !.stopped = stop,
            !.predictions = Append(@, run_judge(items[Len(@) + 1], final, label))]
  BY DEF JudgeItem
<1> DEFINE early == [i \in 1 .. retries |-> [kind |-> "unanswered", served |-> Unset]]
           last == IF final.kind \in {"no_call", "refused"} THEN <<>> ELSE <<final>>
           sent == early \o last
           said == run_judge(items[Len(done) + 1], final, label)
<1>2. /\ "review" \in DOMAIN review_dir /\ review_dir' = review_dir
      /\ Len(done) < Len(items)
      /\ judge.wire - judge.initial + worst <= judge_max_calls
  BY DEF JudgeItem, FilesInv, MayJudge
<1>3. worst \in Nat \ {0} /\ judge_max_calls \in Nat /\ final \in AllFinals
  BY ReviewAssumption DEF ReviewAssumption
<1>4. early \in Seq(AllFinals) /\ Len(early) = retries /\ retries \in Nat /\ retries <= worst - 1
  <2>1. [kind |-> "unanswered", served |-> Unset] \in AllFinals
    BY DEF AllFinals, Unserved
  <2>2. retries \in Nat /\ retries <= worst - 1
    BY <1>3
  <2> QED
    BY <2>1, <2>2
<1>5. last \in Seq(AllFinals) /\ Len(last) \in {0, 1}
  BY <1>3
<1> HIDE DEF early, last
<1>6. sent \in Seq(AllFinals) /\ Len(sent) \in Nat /\ Len(sent) <= worst
  <2>1. sent \in Seq(AllFinals) /\ Len(sent) = Len(early) + Len(last)
    BY <1>4, <1>5
  <2>2. Len(sent) = retries + Len(last) /\ (Len(last) = 0 \/ Len(last) = 1)
    BY <2>1, <1>4, <1>5
  <2>3. retries \in Nat /\ retries <= worst - 1 /\ worst \in Nat
    BY <1>3, <1>4
  <2>4. Len(sent) = retries \/ Len(sent) = retries + 1
    <3>1. CASE Len(last) = 0
      BY <3>1, <2>2, <2>3
    <3>2. CASE Len(last) = 1
      BY <3>2, <2>2
    <3> QED
      BY <2>2, <3>1, <3>2
  <2>5. \A n : n = retries \/ n = retries + 1 => n \in Nat /\ n <= worst
    BY <2>3
  <2> HIDE DEF sent
  <2> QED
    BY <2>1, <2>4, <2>5
<1>7. /\ DOMAIN judge = DOMAIN NoJudge
      /\ judge.injected \in BOOLEAN /\ judge.initial \in Nat /\ judge.wire \in Nat
      /\ judge.events \in Seq(AllFinals) /\ done \in Seq(Predictions)
      /\ \A p \in ToSet(done) : p.live => ~judge.injected
      /\ \A k \in 1 .. Len(done) : k <= Len(items) /\ done[k].item = items[k]
  BY <1>2 DEF JudgeInv
<1>8. items \in Seq(Items) /\ Len(items) \in Nat /\ Len(done) \in Nat
  <2>1. items \in Seq(Items)
    BY <1>2, BoundItems
  <2> QED
    BY <2>1, <1>7
<1>9. /\ said.item = items[Len(done) + 1]
      /\ said \in Predictions
      /\ said.live => ~judge.injected
  <2>1. items[Len(done) + 1] \in Items
    BY <1>2, <1>8
  <2>2. final.served \in Models \cup {Unset}
    BY <1>3 DEF AllFinals, Served
  <2>3. said.item = items[Len(done) + 1] /\ (said.live => ~judge.injected)
    BY DEF run_judge
  <2>4. said \in Predictions
    BY <2>1, <2>2 DEF run_judge, Predictions
  <2> QED
    BY <2>3, <2>4
<1>10. DOMAIN judge = {"injected", "initial", "wire", "stopped", "events", "predictions"}
  BY <1>7 DEF NoJudge
<1>11. /\ DOMAIN judge' = DOMAIN judge
       /\ judge'.injected = judge.injected /\ judge'.initial = judge.initial
       /\ judge'.wire = judge.wire + Len(sent)
       /\ judge'.events = judge.events \o sent
       /\ judge'.stopped = stop
       /\ judge'.predictions = Append(done, said)
  BY <1>1, <1>10 DEF early, last
<1> HIDE DEF sent, said, done, items
<1>12. judge'.wire \in Nat /\ judge'.wire - judge'.initial <= judge_max_calls
  <2> DEFINE w == judge.wire
             i == judge.initial
             l == Len(sent)
  <2>1. w \in Nat /\ i \in Nat /\ l \in Nat /\ worst \in Nat /\ judge_max_calls \in Nat
        /\ l <= worst /\ w - i + worst <= judge_max_calls
    BY <1>2, <1>3, <1>6, <1>7
  <2>2. judge'.wire = w + l /\ judge'.initial = i
    BY <1>11
  <2> HIDE DEF w, i, l
  <2>3. w + l \in Nat /\ (w + l) - i <= judge_max_calls
    BY <2>1
  <2> QED
    BY <2>2, <2>3
<1>13. judge'.events \in Seq(AllFinals) /\ judge'.predictions \in Seq(Predictions)
       /\ Len(judge'.predictions) = Len(done) + 1
  BY <1>6, <1>7, <1>9, <1>11
<1>14. ASSUME NEW k \in 1 .. Len(judge'.predictions)
       PROVE  \/ k \in 1 .. Len(done) /\ judge'.predictions[k] = done[k]
              \/ k = Len(done) + 1 /\ judge'.predictions[k] = said
  BY <1>7, <1>8, <1>9, <1>11, <1>13
<1>15. ASSUME NEW k \in 1 .. Len(judge'.predictions)
       PROVE  k <= Len(items) /\ judge'.predictions[k].item = items[k]
  <2>1. CASE k \in 1 .. Len(done) /\ judge'.predictions[k] = done[k]
    BY <2>1, <1>7
  <2>2. CASE k = Len(done) + 1 /\ judge'.predictions[k] = said
    <3>1. k <= Len(items)
      BY <2>2, <1>2, <1>8
    <3> QED
      BY <2>2, <3>1, <1>9
  <2> QED
    BY <2>1, <2>2, <1>14
<1>16. ASSUME NEW p \in ToSet(judge'.predictions) PROVE p.live => ~judge'.injected
  <2>1. PICK k \in 1 .. Len(judge'.predictions) : p = judge'.predictions[k]
    BY <1>13 DEF ToSet
  <2>2. p = said \/ p \in ToSet(done)
    BY <2>1, <1>7, <1>14 DEF ToSet
  <2> QED
    BY <2>2, <1>7, <1>9, <1>11
<1>17. review_dir'["review"].items = items
  BY <1>2 DEF items
<1> QED
  BY <1>2, <1>7, <1>11, <1>12, <1>13, <1>15, <1>16, <1>17 DEF JudgeInv

LEMMA JudgeStep ==
  ASSUME RunInv, VerdictInv, BoundInv, FilesInv, JudgeInv, ReviewStep \/ EditStep
  PROVE  JudgeInv'
<1>1. CASE \E allow_non_live \in BOOLEAN : prepare_review(allow_non_live)
  <2>1. DOMAIN review_dir = {} /\ DOMAIN review_dir' = {"rubric", "items"}
    BY <1>1, PrepareBound
  <2>2. judge' = judge
    BY <1>1 DEF prepare_review
  <2> QED
    BY <2>1, <2>2 DEF JudgeInv
<1>2. CASE BindReview
  <2>1. judge' = judge /\ "review" \notin DOMAIN review_dir
    BY <1>2 DEF BindReview, BoundInv
  <2>2. Len(judge'.predictions) = 0
    BY <2>1 DEF JudgeInv
  <2>3. judge'.predictions = <<>>
    BY <2>1 DEF JudgeInv
  <2> QED
    BY <2>1, <2>2, <2>3 DEF JudgeInv
<1>3. CASE BeginJudge
  BY <1>3, BeginJudgeInv
<1>4. CASE JudgeItem
  BY <1>4, JudgeItemInv
<1>5. CASE WritePredictions \/ WriteJudgeEvents \/ WriteJudgeManifest
  <2>1. /\ judge' = judge /\ review_dir'["review"] = review_dir["review"]
        /\ "review" \in DOMAIN review_dir' <=> "review" \in DOMAIN review_dir
    BY <1>5 DEF WritePredictions, WriteJudgeEvents, WriteJudgeManifest, Write, FilesInv
  <2> QED
    BY <2>1, JudgeFrame
<1>6. CASE Stop \/ \E label \in [ToSet(review_dir["review"].items) -> Labels \cup {Unset}],
                      source_matches \in BOOLEAN : score_review(label, source_matches)
  <2>1. judge' = judge /\ review_dir' = review_dir
    BY <1>6 DEF Stop, score_review
  <2> QED
    BY <2>1, JudgeFrame
<1>7. CASE EditStep
  <2>1. judge' = judge /\ DOMAIN review_dir' = DOMAIN review_dir
        /\ review_dir'["review"] = review_dir["review"]
    BY <1>7, StepFrames, EditsAre
  <2> QED
    BY <2>1, JudgeFrame
<1> QED
  BY <1>1, <1>2, <1>3, <1>4, <1>5, <1>6, <1>7 DEF ReviewStep

LEMMA SignedStep ==
  ASSUME FilesInv, SignedInv, VerdictInv, BoundInv, ReviewStep \/ EditStep
  PROVE  SignedInv'
<1>1. CASE \E allow_non_live \in BOOLEAN : prepare_review(allow_non_live)
  <2>1. DOMAIN review_dir' = {"rubric", "items"} /\ job' = "binding"
    BY <1>1, PrepareBound
  <2> QED
    BY <2>1 DEF SignedInv
<1>2. CASE BindReview
  BY <1>2 DEF SignedInv, BindReview, Write, FilesInv
<1>3. CASE BeginJudge
  BY <1>3 DEF SignedInv, BeginJudge, FilesInv
<1>4. CASE JudgeItem
  BY <1>4 DEF SignedInv, JudgeItem, FilesInv
<1>5. CASE WritePredictions
  BY <1>5 DEF SignedInv, WritePredictions, Write, FilesInv
<1>6. CASE WriteJudgeEvents
  BY <1>6 DEF SignedInv, WriteJudgeEvents, Write, FilesInv
<1>7. CASE WriteJudgeManifest
  BY <1>7 DEF SignedInv, WriteJudgeManifest, Write, FilesInv
<1>8. CASE Stop
  BY <1>8 DEF SignedInv, Stop
<1>9. CASE \E label \in [ToSet(review_dir["review"].items) -> Labels \cup {Unset}],
              source_matches \in BOOLEAN : score_review(label, source_matches)
  BY <1>9 DEF SignedInv, score_review
<1>10. CASE EditStep
  <2>1. job' = job /\ job = "none" /\ judge' = judge /\ DOMAIN review_dir' = DOMAIN review_dir
        /\ review_dir'["judge"] = review_dir["judge"]
    BY <1>10, StepFrames, EditsAre
  <2> QED
    BY <2>1 DEF SignedInv
<1> QED
  BY <1>1, <1>2, <1>3, <1>4, <1>5, <1>6, <1>7, <1>8, <1>9, <1>10 DEF ReviewStep
-----------------------------------------------------------------------------
(* The invariant, and what follows from it.                                 *)

LEMMA InitInv ==
  ASSUME Init
  PROVE  IInv
<1>1. /\ stage = "start" /\ injected \in BOOLEAN
      /\ events = [a \in Aliases |-> <<>>] /\ rows = [a \in Aliases |-> <<>>]
      /\ DOMAIN run_dir = {} /\ DOMAIN review_dir = {} /\ job = "none" /\ judge = NoJudge
  BY DEF Init, RunInit
<1>2. RunInv
  <2>1. events \in [Aliases -> Seq(AllFinals)] /\ rows \in [Aliases -> Seq(Rows)]
    BY <1>1
  <2>2. \A a \in Aliases : Len(rows[a]) = 0
    BY <1>1
  <2> QED
    BY <1>1, <2>1, <2>2, CasesAre DEF RunInv, Aliases
<1>3. VerdictInv /\ BoundInv /\ FilesInv /\ SignedInv
  BY <1>1 DEF VerdictInv, BoundInv, FilesInv, SignedInv
<1>4. JudgeInv
  <2>1. judge_max_calls \in Nat
    BY ReviewAssumption DEF ReviewAssumption
  <2>2. /\ judge.injected = FALSE /\ judge.stopped = FALSE /\ judge.initial = 0 /\ judge.wire = 0
        /\ judge.events = <<>> /\ judge.predictions = <<>>
    BY <1>1 DEF NoJudge
  <2>3. ToSet(judge.predictions) = {}
    BY <2>2 DEF ToSet
  <2>4. DOMAIN judge = DOMAIN NoJudge /\ "review" \notin DOMAIN review_dir
    BY <1>1
  <2>5. judge.events \in Seq(AllFinals) /\ judge.predictions \in Seq(Predictions)
    BY <2>2
  <2>6. judge.wire - judge.initial <= judge_max_calls
    BY <2>1, <2>2
  <2>7. judge.injected \in BOOLEAN /\ judge.stopped \in BOOLEAN
        /\ judge.initial \in Nat /\ judge.wire \in Nat
    BY <1>1 DEF NoJudge
  <2> QED
    BY <2>2, <2>3, <2>4, <2>5, <2>6, <2>7 DEF JudgeInv
<1>5. edits \in Nat
  BY DEF Init
<1> QED
  BY <1>2, <1>3, <1>4, <1>5 DEF IInv

LEMMA NextInv ==
  ASSUME IInv, Next
  PROVE  IInv'
<1>1. CASE RunNext /\ UNCHANGED reviewvars
  <2>1. RunInv' /\ VerdictInv' /\ BoundInv'
    BY <1>1, RunInvStep, VerdictStep DEF IInv
  <2>2. UNCHANGED <<job, judge, review_dir, edits>>
    BY <1>1 DEF reviewvars
  <2>3. FilesInv'
    BY <2>2 DEF IInv, FilesInv
  <2>4. JudgeInv'
    BY <2>2, JudgeFrame DEF IInv
  <2>5. SignedInv'
    BY <2>2 DEF IInv, SignedInv
  <2> QED
    BY <2>1, <2>2, <2>3, <2>4, <2>5 DEF IInv
<1>2. CASE ReviewStep
  <2>1. UNCHANGED <<stage, injected, events, rows, run_dir>>
    BY <1>2, StepFrames DEF runvars, client
  <2>2. RunInv'
    BY <2>1 DEF IInv, RunInv
  <2>3. VerdictInv'
    <3>1. "review" \in DOMAIN review_dir => "review" \in DOMAIN review_dir'
      BY <1>2, KeptStep DEF IInv
    <3> QED
      BY <2>1, <3>1 DEF IInv, VerdictInv
  <2>4. BoundInv'
    BY <1>2, PrepareBound, BindBound, OtherBound DEF ReviewStep, IInv
  <2> QED
    BY <1>2, <2>2, <2>3, <2>4, StepFrames, FilesStep, JudgeStep, SignedStep DEF IInv
<1>3. CASE EditStep
  BY <1>3, StepFrames, EditsKeepVerdict, EditsKeepBound, FilesStep, JudgeStep, SignedStep DEF IInv
<1> QED
  BY <1>1, <1>2, <1>3, NextSteps

LEMMA StutterInv ==
  ASSUME IInv, UNCHANGED vars
  PROVE  IInv'
<1>1. UNCHANGED <<stage, injected, events, rows, run_dir, job, source, judge, review_dir, edits>>
  BY DEF vars, runvars, reviewvars, client
<1>2. RunInv' /\ VerdictInv' /\ BoundInv'
  BY <1>1 DEF IInv, RunInv, VerdictInv, BoundInv
<1>3. FilesInv' /\ SignedInv'
  BY <1>1 DEF IInv, FilesInv, SignedInv
<1>4. JudgeInv'
  BY <1>1, JudgeFrame DEF IInv
<1> QED
  BY <1>1, <1>2, <1>3, <1>4 DEF IInv

(* The inductive invariant of run_live_comparison, prepare_review,          *)
(* judge_review and score_review, whatever people edit in between.          *)
THEOREM ReviewInvariant == Spec => []IInv
<1>1. Init => IInv
  BY InitInv
<1>2. IInv /\ [Next]_vars => IInv'
  BY NextInv, StutterInv
<1> QED
  BY <1>1, <1>2, PTL DEF Spec

(* A manifest of run_live_comparison that says LIVE_COMPLETE or             *)
(* PILOT_COMPLETE stands for every case of both routes, each answered by    *)
(* the one model of its route, without an injected transport.               *)
THEOREM ReviewCompleteMeansEverything == Spec => []CompleteMeansEverything
<1>1. IInv => CompleteMeansEverything
  BY DEF IInv, VerdictInv, WellMade, Whole, CompleteMeansEverything
<1> QED
  BY <1>1, ReviewInvariant, PTL

(* prepare_review's sample is balanced over the strata, whatever the limit  *)
(* and the answers.                                                         *)
THEOREM ReviewSelectionBalanced == Spec => []SelectionBalanced
<1>1. ASSUME IInv PROVE SelectionBalanced
  <2> SUFFICES ASSUME "review" \in DOMAIN review_dir PROVE SelectionBalanced
    BY DEF SelectionBalanced
  <2> DEFINE answers == RecordedAnswers(review_dir["review"].manifest)
  <2>1. answers \in Seq(Items) /\ Classified(answers)
    BY <1>1, BoundItems DEF IInv
  <2>2. review_dir["review"].items = Selected(answers)
    BY <1>1 DEF IInv, BoundInv
  <2> HIDE DEF answers
  <2>3. LET items == Selected(answers)
            all == ToSet(answers)
            of(s, set) == {i \in set : Stratum[i.case] = s}
            chosen == ToSet(items)
        IN  /\ Cardinality(chosen) = Len(items) /\ chosen \subseteq all
            /\ Len(items) = Min({limit, Cardinality(all)})
            /\ \A s, u \in {Stratum[i.case] : i \in all} :
                 Cardinality(of(s, chosen)) > Cardinality(of(u, chosen)) + 1 => of(u, all) \subseteq chosen
    BY <2>1, SelectedIsBalanced
  <2> QED
    BY <2>2, <2>3 DEF SelectionBalanced, answers
<1> QED
  BY <1>1, ReviewInvariant, PTL

(* judge_review sends no more than max_calls of its own, retries included.  *)
THEOREM ReviewJudgeWithinCap == Spec => []JudgeWithinCap
<1>1. IInv => JudgeWithinCap
  BY DEF IInv, JudgeInv, JudgeWithinCap
<1> QED
  BY <1>1, ReviewInvariant, PTL

(* No step of prepare_review, judge_review or score_review, of a process    *)
(* that was stopped or of its successor, changes a file of the review.      *)
THEOREM ReviewEvidenceKept == Spec => EvidenceKept
<1> DEFINE Kept == edits' = edits =>
             \A f \in DOMAIN review_dir : f \in DOMAIN review_dir' /\ review_dir'[f] = review_dir[f]
<1>1. ASSUME IInv, Next PROVE Kept
  <2>1. CASE RunNext /\ UNCHANGED reviewvars
    BY <2>1 DEF reviewvars
  <2>2. CASE ReviewStep
    BY <2>2, <1>1, KeptStep DEF IInv
  <2>3. CASE EditStep
    <3>1. edits' # edits
      BY <1>1, <2>3, StepFrames DEF IInv
    <3> QED
      BY <3>1
  <2> QED
    BY <1>1, <2>1, <2>2, <2>3, NextSteps
<1>2. IInv /\ [Next]_vars => [Kept]_review_dir
  BY <1>1 DEF vars, reviewvars
<1> QED
  BY <1>2, ReviewInvariant, PTL DEF Spec, EvidenceKept

-----------------------------------------------------------------------------
(* What it takes to be called calibrated.                                   *)

LEMMA NoGateReason ==
  ASSUME NEW label, NEW predictions, NEW log, NEW pairs, NEW source_matches,
         gate_reasons(label, predictions, log, pairs, source_matches) = {}
  PROVE  /\ ~(Cardinality(pairs) < min_pairs)
         /\ Cardinality(pairs) = Cardinality(ToSet(review_dir["review"].items))
         /\ Len(predictions) = Cardinality(ToSet(review_dir["review"].items))
         /\ review_dir["review"].source_is_live
         /\ pairs # {} /\ \A p \in pairs : p.live
         /\ judge_identity(predictions, log)
<1> DEFINE items == ToSet(review_dir["review"].items)
           reason(name, holds) == IF holds THEN {name} ELSE {}
           few == reason("insufficient_unique_human_pairs", Cardinality(pairs) < min_pairs)
           partial == reason("incomplete_annotation_or_judge_coverage",
                        Cardinality(pairs) # Cardinality(items) \/ Len(predictions) # Cardinality(items))
           dead == reason("source_answers_are_not_verified_live", ~review_dir["review"].source_is_live)
           faked == reason("judge_is_not_verified_live", pairs = {} \/ \E p \in pairs : ~p.live)
           mixed == reason("judge_served_model_identity_unknown_or_mixed", ~judge_identity(predictions, log))
           apart == reason("kappa_not_established_or_below_threshold", ~agreement_holds(pairs))
           moved == reason("application_source_changed_since_evaluation", ~source_matches)
<1>1. gate_reasons(label, predictions, log, pairs, source_matches)
        = UNION {few, partial, dead, faked, mixed, apart, moved}
  BY DEF gate_reasons
<1>2. few = {} /\ partial = {} /\ dead = {} /\ faked = {} /\ mixed = {}
  <2> HIDE DEF few, partial, dead, faked, mixed, apart, moved
  <2> QED
    BY <1>1
<1>3. ~(Cardinality(pairs) < min_pairs)
  BY <1>2
<1>4. Cardinality(pairs) = Cardinality(items) /\ Len(predictions) = Cardinality(items)
  BY <1>2
<1>5. review_dir["review"].source_is_live
  BY <1>2
<1>6. pairs # {} /\ \A p \in pairs : p.live
  BY <1>2
<1>7. judge_identity(predictions, log)
  BY <1>2
<1> QED
  BY <1>3, <1>4, <1>5, <1>6, <1>7

Earned(calibrated) ==
  LET items == ToSet(review_dir["items"]) IN
  /\ ~injected /\ \A a \in Aliases : run_dir[a] = rows[a] /\ Len(rows[a]) = Len(Cases)
  /\ \A i \in items : \E a \in Aliases : \E row \in ToSet(rows[a]) :
       i = [case |-> row.case, answer |-> row.answer]
  /\ Cardinality(items) >= min_pairs
  /\ calibrated.pairs = Cardinality(items)
  /\ ~judge.injected
  /\ review_dir["predictions"] = judge.predictions
  /\ {p.item : p \in ToSet(judge.predictions)} = items
  /\ \E m \in Models : \A e \in Received(judge.events) : e.served = m

LEMMA ScoreEarned ==
  ASSUME IInv, NEW label, NEW source_matches, score_review(label, source_matches),
         calibration'.status = "CALIBRATED"
  PROVE  Earned(calibration')
<1> DEFINE judged == "predictions" \in DOMAIN review_dir
           predictions == IF judged THEN review_dir["predictions"] ELSE <<>>
           log == IF judged THEN review_dir["judge_events"] ELSE <<>>
           pairs == {[item |-> p.item, human |-> label[p.item], judge |-> p.label, live |-> p.live] :
                       p \in {q \in ToSet(predictions) : q.valid /\ label[q.item] # Unset}}
           reasons == gate_reasons(label, predictions, log, pairs, source_matches)
           review == review_dir["review"]
           items == review.items
           n == Cardinality(ToSet(items))
<1>1. /\ ReviewIntact
      /\ judged => JudgeIntact
      /\ calibration' = [status |-> IF reasons = {} THEN "CALIBRATED" ELSE "NOT_CALIBRATED",
                         pairs |-> Cardinality(pairs)]
  BY DEF score_review
<1>2. reasons = {} /\ calibration'.pairs = Cardinality(pairs)
  <2> HIDE DEF reasons, pairs
  <2> QED
    BY <1>1
<1>3. /\ ~(Cardinality(pairs) < min_pairs)
      /\ Cardinality(pairs) = n /\ Len(predictions) = n
      /\ review.source_is_live
      /\ pairs # {} /\ \A p \in pairs : p.live
      /\ judge_identity(predictions, log)
  <2> HIDE DEF pairs, predictions, log
  <2> QED
    BY <1>2, NoGateReason
<1>4. "review" \in DOMAIN review_dir /\ review_dir["items"] = items
      /\ run_dir["manifest"] = review.manifest /\ SourceIntact(run_dir["manifest"])
  BY <1>1 DEF ReviewIntact
<1>5. judged
  <2> SUFFICES ASSUME ~judged PROVE FALSE
    OBVIOUS
  <2>1. ToSet(predictions) = {}
    BY DEF ToSet
  <2>2. pairs = {}
    <3> HIDE DEF predictions
    <3> QED
      BY <2>1
  <2> QED
    BY <2>2, <1>3
<1>6. predictions = judge.predictions /\ log = judge.events
      /\ review_dir["predictions"] = judge.predictions
  BY <1>1, <1>5 DEF JudgeIntact, IInv, SignedInv
<1>7. /\ WellMade(review.manifest, injected, events, rows)
      /\ LiveAndWhole(review.manifest, injected, rows)
      /\ items = Selected(RecordedAnswers(review.manifest))
  BY <1>3, <1>4 DEF IInv, BoundInv
<1>8. ~injected /\ \A a \in Aliases : run_dir[a] = rows[a] /\ Len(rows[a]) = Len(Cases)
  BY <1>4, <1>7 DEF WellMade, LiveAndWhole, SourceIntact
<1>9. ASSUME NEW i \in ToSet(items)
      PROVE  \E a \in Aliases : \E row \in ToSet(rows[a]) :
               i = [case |-> row.case, answer |-> row.answer]
  <2> DEFINE answers == RecordedAnswers(review.manifest)
  <2>1. answers \in Seq(Items) /\ Classified(answers)
    BY <1>4, BoundItems DEF IInv
  <2>2. ToSet(Selected(answers)) \subseteq ToSet(answers)
    <3> HIDE DEF answers
    <3> QED
      BY <2>1, SelectedIs, AllAnswers
  <2>3. i \in ToSet(answers)
    BY <1>7, <2>2
  <2> DEFINE m == review.manifest
  <2>4. rows \in [Aliases -> Seq(Rows)] /\ m.aliases \in SUBSET Aliases
        /\ m.files = [a \in m.aliases |-> rows[a]]
    BY <1>7 DEF WellMade, IInv, RunInv
  <2>5. ToSet(RecordedAnswers(m)) \subseteq RowItems
    <3> HIDE DEF m
    <3> QED
      BY <2>4, RecordedAre
  <2> HIDE DEF answers, m
  <2>6. i \in RowItems
    BY <2>3, <2>5 DEF answers, m
  <2> QED
    BY <2>6 DEF RowItems
<1>10. n \in Nat /\ n = Len(items) /\ items \in Seq(Items)
  <2> DEFINE answers == RecordedAnswers(review.manifest)
  <2>1. answers \in Seq(Items) /\ Classified(answers) /\ items \in Seq(Items)
    BY <1>4, BoundItems DEF IInv
  <2>2. Cardinality(ToSet(Selected(answers))) = Len(Selected(answers))
    <3> HIDE DEF answers
    <3> QED
      BY <2>1, SelectedIsBalanced
  <2> QED
    BY <1>7, <2>1, <2>2
<1>11. min_pairs \in Nat /\ n >= min_pairs
  BY <1>3, <1>10, ReviewAssumption DEF ReviewAssumption
<1>12. ~judge.injected
  <2>1. PICK p \in ToSet(predictions) : p.live
    BY <1>3
  <2> QED
    BY <2>1, <1>6 DEF IInv, JudgeInv
<1>13. {p.item : p \in ToSet(judge.predictions)} = ToSet(items)
  <2>1. /\ judge.predictions \in Seq(Predictions)
        /\ \A k \in 1 .. Len(judge.predictions) : judge.predictions[k].item = items[k]
    BY <1>4 DEF IInv, JudgeInv
  <2>2. Len(judge.predictions) = Len(items)
    BY <1>3, <1>6, <1>10
  <2>3. DOMAIN judge.predictions = 1 .. Len(items) /\ DOMAIN items = 1 .. Len(items)
    BY <2>1, <2>2, <1>10
  <2> HIDE DEF items
  <2> QED
    BY <2>1, <2>2, <2>3 DEF ToSet
<1>14. \E m \in Models : \A e \in Received(judge.events) : e.served = m
  <2>1. single_known_served_model(judge.events)
    <3> HIDE DEF predictions, log
    <3> QED
      BY <1>3, <1>6 DEF judge_identity
  <2> QED
    BY <2>1 DEF single_known_served_model
<1> HIDE DEF pairs, predictions, log, items
<1> QED
  BY <1>2, <1>3, <1>4, <1>6, <1>8, <1>9, <1>11, <1>12, <1>13, <1>14 DEF Earned

(* score_review calls a judge calibrated only for a live, whole, unchanged  *)
(* run, a review of its answers that a judge of one model covered, and the  *)
(* labels that judge gave, whatever was stopped or edited before.           *)
THEOREM ReviewCalibratedIsEarned == Spec => CalibratedIsEarned
<1> DEFINE Fair == calibration' # calibration /\ calibration'.status = "CALIBRATED" => Earned(calibration')
<1>1. ASSUME IInv, Next, calibration' # calibration, calibration'.status = "CALIBRATED"
      PROVE  Earned(calibration')
  <2>1. CASE RunNext /\ UNCHANGED reviewvars
    BY <1>1, <2>1 DEF reviewvars
  <2>2. CASE ReviewStep
    <3>1. \E label, source_matches : score_review(label, source_matches)
      BY <1>1, <2>2 DEF ReviewStep, prepare_review, BindReview, BeginJudge, JudgeItem,
         WritePredictions, WriteJudgeEvents, WriteJudgeManifest, Stop
    <3> QED
      BY <1>1, <3>1, ScoreEarned
  <2>3. CASE EditStep
    BY <1>1, <2>3, StepFrames
  <2> QED
    BY <1>1, <2>1, <2>2, <2>3, NextSteps
<1>2. IInv /\ [Next]_vars => [Fair]_calibration
  BY <1>1 DEF vars, reviewvars
<1> QED
  BY <1>2, ReviewInvariant, PTL DEF Spec, CalibratedIsEarned, Earned
=============================================================================
