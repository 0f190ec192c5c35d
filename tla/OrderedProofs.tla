------------------------------ MODULE OrderedProofs ------------------------------
(***************************************************************************)
(* Lemmas about numbers, orders and sequences that the proofs of several   *)
(* components cite: ranks in an order, the entries at some positions, a    *)
(* sequence without one entry, induction and recursion up to a number.     *)
(***************************************************************************)
EXTENDS Ordered, SequencesExt, WellFoundedInduction, FiniteSetTheorems, TLAPS

\* how many elements of S the order R does not put behind a
RankIn(S, R, a) == Cardinality({x \in S : <<x, a>> \in R})

(* The ranks of the elements in a total order are the numbers up to how    *)
(* many there are, and follow the order.                                   *)
LEMMA Ranked ==
  ASSUME NEW S, IsFiniteSet(S), NEW R,
         \A a \in S : <<a, a>> \in R,
         \A a, b \in S : <<a, b>> \in R \/ <<b, a>> \in R,
         \A a, b \in S : <<a, b>> \in R /\ <<b, a>> \in R => a = b,
         \A a, b, c \in S : <<a, b>> \in R /\ <<b, c>> \in R => <<a, c>> \in R
  PROVE  /\ \A a, b \in S : <<a, b>> \in R /\ a # b => RankIn(S, R, a) < RankIn(S, R, b)
         /\ \A a \in S : RankIn(S, R, a) \in 1..Cardinality(S)
         /\ \A k \in 1..Cardinality(S) : \E a \in S : RankIn(S, R, a) = k
<1> DEFINE Upto(a) == {x \in S : <<x, a>> \in R}
           N == Cardinality(S)
           r == [a \in S |-> Cardinality(Upto(a))]
<1>1. N \in Nat /\ IsFiniteSet(1..N) /\ Cardinality(1..N) = N
  BY FS_CardinalityType, FS_Interval
<1>2. \A a \in S : IsFiniteSet(Upto(a)) /\ Cardinality(Upto(a)) \in 1..N
  <2>1. SUFFICES ASSUME NEW a \in S PROVE IsFiniteSet(Upto(a)) /\ Cardinality(Upto(a)) \in 1..N
    OBVIOUS
  <2>2. IsFiniteSet(Upto(a)) /\ Cardinality(Upto(a)) <= N
    BY FS_Subset
  <2>3. Cardinality(Upto(a)) \in Nat
    BY <2>2, FS_CardinalityType
  <2>4. a \in Upto(a)
    OBVIOUS
  <2>5. Cardinality(Upto(a)) # 0
    BY <2>2, <2>4, FS_EmptySet
  <2> HIDE DEF Upto
  <2> QED
    BY <1>1, <2>2, <2>3, <2>5
<1>3. \A a, b \in S : <<a, b>> \in R /\ a # b => Cardinality(Upto(a)) < Cardinality(Upto(b))
  <2>1. SUFFICES ASSUME NEW a \in S, NEW b \in S, <<a, b>> \in R, a # b
                 PROVE  Cardinality(Upto(a)) < Cardinality(Upto(b))
    OBVIOUS
  <2>2. Upto(a) \subseteq Upto(b)
    BY <2>1
  <2>3. b \in Upto(b) /\ b \notin Upto(a)
    BY <2>1
  <2> HIDE DEF Upto
  <2>4. Upto(a) \in SUBSET Upto(b) /\ Upto(a) # Upto(b)
    BY <2>2, <2>3
  <2>5. Cardinality(Upto(a)) <= Cardinality(Upto(b)) /\ Cardinality(Upto(a)) # Cardinality(Upto(b))
    BY <1>2, <2>1, <2>4, FS_Subset
  <2>6. Cardinality(Upto(a)) \in 1..N /\ Cardinality(Upto(b)) \in 1..N
    BY <1>2, <2>1
  <2> HIDE DEF N
  <2> QED
    BY <1>1, <2>5, <2>6
<1>4. r \in Injection(S, 1..N)
  <2>1. \A a, b \in S : Cardinality(Upto(a)) = Cardinality(Upto(b)) => a = b
    <3>1. SUFFICES ASSUME NEW a \in S, NEW b \in S, a # b
                   PROVE  Cardinality(Upto(a)) # Cardinality(Upto(b))
      OBVIOUS
    <3>2. Cardinality(Upto(a)) \in 1..N /\ Cardinality(Upto(b)) \in 1..N
      BY <1>2
    <3> HIDE DEF Upto, N
    <3>3. Cardinality(Upto(a)) < Cardinality(Upto(b)) \/ Cardinality(Upto(b)) < Cardinality(Upto(a))
      BY <1>3, <3>1
    <3> QED
      BY <1>1, <3>2, <3>3
  <2> HIDE DEF Upto
  <2> QED
    BY <1>2, <2>1 DEF Injection, IsInjective
<1> HIDE DEF Upto, r
<1>5. r \in Surjection(S, 1..N)
  BY <1>1, <1>4, FS_Injection
<1>6. \A k \in 1..N : \E a \in S : r[a] = k
  BY <1>5 DEF Surjection
<1>7. \A k \in 1..N : \E a \in S : Cardinality(Upto(a)) = k
  BY <1>6 DEF r
<1> QED
  BY <1>2, <1>3, <1>7 DEF Upto, RankIn

(* The rank of a number in a set is its place in the order of the set.      *)
LEMMA RankOf ==
  ASSUME NEW I \in SUBSET Nat, IsFiniteSet(I)
  PROVE  /\ \A a, b \in I : a <= b /\ a # b => Cardinality({j \in I : j <= a}) < Cardinality({j \in I : j <= b})
         /\ \A i \in I : Cardinality({j \in I : j <= i}) \in 1..Cardinality(I)
         /\ \A i \in I : NthIn(I, Cardinality({j \in I : j <= i})) = i
         /\ \A k \in 1..Cardinality(I) : NthIn(I, k) \in I /\ Cardinality({j \in I : j <= NthIn(I, k)}) = k
<1> DEFINE N == Cardinality(I)
           R == {p \in Nat \X Nat : p[1] <= p[2]}
           Upto(i) == {j \in I : j <= i}
<1>1. /\ \A a, b \in I : <<a, b>> \in R <=> a <= b
      /\ \A a \in I : {x \in I : <<x, a>> \in R} = Upto(a)
  OBVIOUS
<1>2. /\ \A a, b \in I : a <= b /\ a # b => Cardinality(Upto(a)) < Cardinality(Upto(b))
      /\ \A a \in I : Cardinality(Upto(a)) \in 1..N
      /\ \A k \in 1..N : \E a \in I : Cardinality(Upto(a)) = k
  <2>1. /\ \A a \in I : <<a, a>> \in R
        /\ \A a, b \in I : <<a, b>> \in R \/ <<b, a>> \in R
        /\ \A a, b \in I : <<a, b>> \in R /\ <<b, a>> \in R => a = b
        /\ \A a, b, c \in I : <<a, b>> \in R /\ <<b, c>> \in R => <<a, c>> \in R
    BY <1>1
  <2> HIDE DEF R
  <2>2. /\ \A a, b \in I : <<a, b>> \in R /\ a # b => RankIn(I, R, a) < RankIn(I, R, b)
        /\ \A a \in I : RankIn(I, R, a) \in 1..Cardinality(I)
        /\ \A k \in 1..Cardinality(I) : \E a \in I : RankIn(I, R, a) = k
    BY <2>1, Ranked
  <2>3. \A a \in I : RankIn(I, R, a) = Cardinality(Upto(a))
    BY <1>1 DEF RankIn
  <2> HIDE DEF Upto
  <2> QED
    BY <1>1, <2>2, <2>3
<1>3. \A k \in 1..N : NthIn(I, k) \in I /\ Cardinality(Upto(NthIn(I, k))) = k
  BY <1>2 DEF NthIn
<1>4. N \in Nat
  BY FS_CardinalityType
<1> HIDE DEF Upto, N, R
<1>5. \A i, j \in I : Cardinality(Upto(i)) = Cardinality(Upto(j)) => i = j
  <2>1. SUFFICES ASSUME NEW i \in I, NEW j \in I, i # j PROVE Cardinality(Upto(i)) # Cardinality(Upto(j))
    OBVIOUS
  <2>2. i <= j \/ j <= i
    OBVIOUS
  <2>3. Cardinality(Upto(i)) \in Nat /\ Cardinality(Upto(j)) \in Nat
    BY <1>2, <1>4
  <2> QED
    BY <1>2, <2>1, <2>2, <2>3
<1>6. \A i \in I : NthIn(I, Cardinality(Upto(i))) = i
  BY <1>2, <1>3, <1>5
<1> QED
  BY <1>2, <1>3, <1>6 DEF N, Upto

(* The positions of a set, in their order.                                  *)
LEMMA Positions ==
  ASSUME NEW I \in SUBSET Nat, IsFiniteSet(I)
  PROVE  /\ \A k \in 1..Cardinality(I) : NthIn(I, k) \in I
         /\ \A i \in I : \E k \in 1..Cardinality(I) : NthIn(I, k) = i
         /\ \A j, k \in 1..Cardinality(I) : j < k => NthIn(I, j) < NthIn(I, k)
<1> DEFINE N == Cardinality(I)
           Upto(i) == {j \in I : j <= i}
<1>2. /\ \A a, b \in I : a <= b /\ a # b => Cardinality(Upto(a)) < Cardinality(Upto(b))
      /\ \A a \in I : Cardinality(Upto(a)) \in 1..N
  BY RankOf
<1>3. \A k \in 1..N : NthIn(I, k) \in I /\ Cardinality(Upto(NthIn(I, k))) = k
  BY RankOf
<1>4. N \in Nat
  BY FS_CardinalityType
<1>6. \A i \in I : NthIn(I, Cardinality(Upto(i))) = i
  BY RankOf
<1> HIDE DEF Upto, N
<1>7. \A j, k \in 1..N : j < k => NthIn(I, j) < NthIn(I, k)
  <2>1. SUFFICES ASSUME NEW j \in 1..N, NEW k \in 1..N, j < k PROVE NthIn(I, j) < NthIn(I, k)
    OBVIOUS
  <2>2. PICK a, b : a = NthIn(I, j) /\ b = NthIn(I, k)
    OBVIOUS
  <2>3. a \in I /\ b \in I /\ Cardinality(Upto(a)) = j /\ Cardinality(Upto(b)) = k
    BY <1>3, <2>2
  <2>4. a # b /\ ~(b <= a)
    BY <1>2, <1>4, <2>1, <2>3
  <2>5. a < b
    BY <2>3, <2>4
  <2> QED
    BY <2>2, <2>5
<1> QED
  BY <1>2, <1>3, <1>6, <1>7 DEF N

(* What stays of a sequence when some of its entries go.                    *)
LEMMA AtPositions ==
  ASSUME NEW E, NEW s \in Seq(E), NEW I \in SUBSET (DOMAIN s)
  PROVE  /\ IsFiniteSet(I) /\ EntriesAt(s, I) \in Seq(E)
         /\ Len(EntriesAt(s, I)) = Cardinality(I) /\ Cardinality(I) <= Len(s)
         /\ DOMAIN EntriesAt(s, I) = 1..Cardinality(I) /\ Cardinality(I) \in Nat
         /\ \A k \in DOMAIN EntriesAt(s, I) : NthIn(I, k) \in I /\ EntriesAt(s, I)[k] = s[NthIn(I, k)]
         /\ \A i \in I : \E k \in DOMAIN EntriesAt(s, I) : NthIn(I, k) = i /\ EntriesAt(s, I)[k] = s[i]
         /\ \A j, k \in DOMAIN EntriesAt(s, I) : j < k => NthIn(I, j) < NthIn(I, k)
<1>1. Len(s) \in Nat /\ DOMAIN s = 1..Len(s) /\ IsFiniteSet(1..Len(s)) /\ Cardinality(1..Len(s)) = Len(s)
  <2>1. Len(s) \in Nat /\ DOMAIN s = 1..Len(s)
    OBVIOUS
  <2>2. \A n \in Nat : IsFiniteSet(1..n) /\ Cardinality(1..n) = n
    BY FS_Interval
  <2> QED
    BY <2>1, <2>2
<1>2. IsFiniteSet(I) /\ Cardinality(I) <= Len(s)
  BY <1>1, FS_Subset
<1>3. Cardinality(I) \in Nat
  BY <1>2, FS_CardinalityType
<1>4. I \in SUBSET Nat
  BY <1>1
<1> HIDE DEF EntriesAt
<1>5. EntriesAt(s, I) = [k \in 1..Cardinality(I) |-> s[NthIn(I, k)]]
  BY DEF EntriesAt
<1>6. /\ \A k \in 1..Cardinality(I) : NthIn(I, k) \in I
      /\ \A i \in I : \E k \in 1..Cardinality(I) : NthIn(I, k) = i
      /\ \A j, k \in 1..Cardinality(I) : j < k => NthIn(I, j) < NthIn(I, k)
  BY <1>2, <1>4, Positions
<1>7. \A k \in 1..Cardinality(I) : s[NthIn(I, k)] \in E
  BY <1>1, <1>6
<1>8. EntriesAt(s, I) \in Seq(E) /\ Len(EntriesAt(s, I)) = Cardinality(I) /\ DOMAIN EntriesAt(s, I) = 1..Cardinality(I)
  BY <1>3, <1>5, <1>7
<1> QED
  BY <1>2, <1>3, <1>5, <1>6, <1>8

(* A total order of the numbers up to n puts each of them at a place.      *)
LEMMA Places ==
  ASSUME NEW n \in Nat, NEW R,
         \A a \in 1..n : <<a, a>> \in R,
         \A a, b \in 1..n : <<a, b>> \in R \/ <<b, a>> \in R,
         \A a, b \in 1..n : <<a, b>> \in R /\ <<b, a>> \in R => a = b,
         \A a, b, c \in 1..n : <<a, b>> \in R /\ <<b, c>> \in R => <<a, c>> \in R
  PROVE  LET nth == [k \in 1..n |-> CHOOSE i \in 1..n : RankIn(1..n, R, i) = k] IN
         /\ nth \in Bijection(1..n, 1..n)
         /\ \A k \in 1..n : RankIn(1..n, R, nth[k]) = k
         /\ \A i \in 1..n : nth[RankIn(1..n, R, i)] = i
         /\ \A j, k \in 1..n : j < k => <<nth[j], nth[k]>> \in R
<1> DEFINE D == 1..n
           rank(i) == RankIn(D, R, i)
           nth == [k \in D |-> CHOOSE i \in D : rank(i) = k]
<1>1. IsFiniteSet(D) /\ Cardinality(D) = n
  BY FS_Interval
<1>2. /\ \A a, b \in D : <<a, b>> \in R /\ a # b => rank(a) < rank(b)
      /\ \A a \in D : rank(a) \in D
      /\ \A k \in D : \E a \in D : rank(a) = k
  BY <1>1, Ranked
<1> HIDE DEF rank
<1>3. \A k \in D : nth[k] \in D /\ rank(nth[k]) = k
  BY <1>2
<1>4. D \subseteq Int /\ \A a, b \in D : <<a, b>> \in R \/ <<b, a>> \in R
  OBVIOUS
<1> HIDE DEF nth, D
<1>5. \A a, b \in D : rank(a) = rank(b) => a = b
  <2>1. SUFFICES ASSUME NEW a \in D, NEW b \in D, a # b PROVE rank(a) # rank(b)
    OBVIOUS
  <2>2. rank(a) \in Int /\ rank(b) \in Int
    BY <1>2, <1>4
  <2>3. rank(a) < rank(b) \/ rank(b) < rank(a)
    BY <1>2, <1>4, <2>1
  <2> QED
    BY <2>2, <2>3
<1>6. \A i \in D : nth[rank(i)] = i
  BY <1>2, <1>3, <1>5
<1>7. \A j, k \in D : j < k => <<nth[j], nth[k]>> \in R
  <2>1. SUFFICES ASSUME NEW j \in D, NEW k \in D, j < k, <<nth[j], nth[k]>> \notin R PROVE FALSE
    OBVIOUS
  <2>2. nth[j] \in D /\ nth[k] \in D /\ j \in Int /\ k \in Int
    BY <1>3, <1>4
  <2>3. <<nth[k], nth[j]>> \in R /\ nth[k] # nth[j]
    BY <1>3, <1>4, <2>1, <2>2
  <2>4. rank(nth[k]) < rank(nth[j])
    BY <1>2, <2>2, <2>3
  <2> QED
    BY <1>3, <2>1, <2>2, <2>4
<1>8. nth \in Bijection(D, D)
  <2>1. nth \in [D -> D]
    <3>1. nth = [k \in D |-> nth[k]]
      BY DEF nth
    <3> QED
      BY <1>3, <3>1
  <2>2. \A j, k \in D : nth[j] = nth[k] => j = k
    BY <1>3
  <2>3. \A i \in D : \E k \in D : nth[k] = i
    BY <1>2, <1>6
  <2> HIDE DEF D
  <2> QED
    BY <2>1, <2>2, <2>3 DEF Bijection, Injection, Surjection, IsInjective
<1> QED
  BY <1>3, <1>6, <1>7, <1>8 DEF nth, rank, D

(* A sorted list has the entries of the list, each as often as it was, by   *)
(* the order of their names.                                               *)
LEMMA NamesSorted ==
  ASSUME NEW E, NEW s \in Seq(E), \A i \in DOMAIN s : s[i].name \in Int
  PROVE  /\ NameSorted(s) \in Seq(E) /\ Len(NameSorted(s)) = Len(s)
         /\ \E p \in Bijection(DOMAIN s, DOMAIN s) : \A k \in DOMAIN s : NameSorted(s)[k] = s[p[k]]
         /\ \A j, k \in DOMAIN s : j < k => NameSorted(s)[j].name <= NameSorted(s)[k].name
<1> DEFINE n == Len(s)
           D == 1..n
           R == {p \in D \X D : NotBehind(s, p[1], p[2])}
           nth == [k \in D |-> CHOOSE i \in D : RankIn(D, R, i) = k]
<1>1. n \in Nat /\ DOMAIN s = D
  OBVIOUS
<1>2. \A a, b \in D : <<a, b>> \in R <=> NotBehind(s, a, b)
  OBVIOUS
<1>3. \A a \in D : RankIn(D, R, a) = Cardinality({x \in D : NotBehind(s, x, a)})
  BY <1>2 DEF RankIn
<1>4. \A a \in D : s[a].name \in Int /\ a \in Nat
  BY <1>1
<1>5. /\ \A a \in D : <<a, a>> \in R
      /\ \A a, b \in D : <<a, b>> \in R \/ <<b, a>> \in R
      /\ \A a, b \in D : <<a, b>> \in R /\ <<b, a>> \in R => a = b
      /\ \A a, b, c \in D : <<a, b>> \in R /\ <<b, c>> \in R => <<a, c>> \in R
  <2> HIDE DEF R, D
  <2> QED
    BY <1>2, <1>4 DEF NotBehind
<1> HIDE DEF R, n
<1>6. /\ nth \in Bijection(D, D)
      /\ \A k \in D : RankIn(D, R, nth[k]) = k
      /\ \A i \in D : nth[RankIn(D, R, i)] = i
      /\ \A j, k \in D : j < k => <<nth[j], nth[k]>> \in R
  BY <1>1, <1>5, Places
<1> HIDE DEF nth, D
<1>7. \A k \in D : nth[k] \in D
  BY <1>6 DEF Bijection, Injection
<1>8. NameSorted(s) = [k \in D |-> s[nth[k]]]
  <2> DEFINE C(i) == Cardinality({x \in D : NotBehind(s, x, i)})
  <2>1. NameSorted(s) = [k \in D |-> s[CHOOSE i \in D : C(i) = k]]
    BY <1>1 DEF NameSorted
  <2> HIDE DEF C
  <2>2. \A i \in D : C(i) = RankIn(D, R, i)
    BY <1>3 DEF C
  <2>3. ASSUME NEW k \in D PROVE (CHOOSE i \in D : C(i) = k) = nth[k]
    <3>1. PICK c : c = CHOOSE i \in D : C(i) = k
      OBVIOUS
    <3>2. nth[k] \in D /\ C(nth[k]) = k
      BY <1>6, <1>7, <2>2
    <3>3. c \in D /\ C(c) = k
      BY <3>1, <3>2
    <3>4. nth[k] = c
      BY <1>6, <2>2, <3>3
    <3> QED
      BY <3>1, <3>4
  <2> QED
    BY <2>1, <2>3
<1>9. \A j, k \in D : j < k => s[nth[j]].name <= s[nth[k]].name
  <2>1. SUFFICES ASSUME NEW j \in D, NEW k \in D, j < k PROVE s[nth[j]].name <= s[nth[k]].name
    OBVIOUS
  <2>2. NotBehind(s, nth[j], nth[k])
    BY <1>2, <1>6, <1>7, <2>1
  <2>3. s[nth[j]].name \in Int /\ s[nth[k]].name \in Int
    BY <1>4, <1>7
  <2> QED
    BY <2>2, <2>3 DEF NotBehind
<1>10. \A k \in D : s[nth[k]] \in E
  BY <1>1, <1>7
<1>11. NameSorted(s) \in Seq(E) /\ Len(NameSorted(s)) = Len(s)
  BY <1>1, <1>8, <1>10 DEF D, n
<1>12. /\ \A k \in D : NameSorted(s)[k] = s[nth[k]]
       /\ \A j, k \in D : j < k => NameSorted(s)[j].name <= NameSorted(s)[k].name
  BY <1>8, <1>9
<1> QED
  BY <1>1, <1>6, <1>11, <1>12

(* Every nonempty set of numbers has a least one.                          *)
LEMMA Least ==
  ASSUME NEW T \in SUBSET Nat, T # {}
  PROVE  \E x \in T : \A y \in T : x <= y
<1>1. PICK x \in T : \A y \in T : ~(<<y, x>> \in OpToRel(<, Nat))
  BY NatLessThanWellFounded, WFMin
<1>2. \A y \in T : ~(y < x)
  BY <1>1 DEF OpToRel
<1>3. QED
  BY <1>2

(* A list without the entry at a position.                                  *)
LEMMA RemovedAt ==
  ASSUME NEW E, NEW s \in Seq(E), NEW i \in DOMAIN s
  PROVE  /\ RemoveAt(s, i) \in Seq(E) /\ Len(RemoveAt(s, i)) = Len(s) - 1
         /\ DOMAIN RemoveAt(s, i) = 1..Len(s) - 1
         /\ \A k \in 1..Len(s) - 1 : RemoveAt(s, i)[k] = IF k < i THEN s[k] ELSE s[k + 1]
<1>1. Len(s) \in Nat /\ DOMAIN s = 1..Len(s) /\ i \in 1..Len(s)
  OBVIOUS
<1>2. PICK a : a = SubSeq(s, 1, i - 1)
  OBVIOUS
<1>3. PICK b : b = SubSeq(s, i + 1, Len(s))
  OBVIOUS
<1>4. a \in Seq(E) /\ Len(a) = i - 1 /\ \A k \in 1..i - 1 : a[k] = s[k]
  BY <1>1, <1>2
<1>5. b \in Seq(E) /\ Len(b) = Len(s) - i /\ \A k \in 1..Len(s) - i : b[k] = s[k + i]
  BY <1>1, <1>3
<1>6. RemoveAt(s, i) = a \o b
  BY <1>2, <1>3 DEF RemoveAt
<1>7. PICK r : r = a \o b
  OBVIOUS
<1>8. r \in Seq(E) /\ Len(r) = Len(s) - 1 /\ DOMAIN r = 1..Len(s) - 1
  <2>1. r \in Seq(E) /\ Len(r) = Len(a) + Len(b) /\ DOMAIN r = 1..Len(r)
    <3>1. a \in Seq(E) /\ b \in Seq(E)
      BY <1>4, <1>5
    <3>2. a \o b \in Seq(E) /\ Len(a \o b) = Len(a) + Len(b)
      BY <3>1
    <3>3. r \in Seq(E) /\ Len(r) = Len(a) + Len(b)
      BY <1>7, <3>2
    <3> QED
      BY <3>3
  <2>2. i - 1 + (Len(s) - i) = Len(s) - 1
    BY <1>1
  <2> QED
    BY <1>4, <1>5, <2>1, <2>2
<1>9. \A k \in 1..Len(s) - 1 : r[k] = IF k < i THEN s[k] ELSE s[k + 1]
  <2>1. SUFFICES ASSUME NEW k \in 1..Len(s) - 1 PROVE r[k] = IF k < i THEN s[k] ELSE s[k + 1]
    OBVIOUS
  <2>2. CASE k < i
    BY <1>1, <1>4, <1>5, <1>7, <2>2
  <2>3. CASE ~(k < i)
    <3>1. r[k] = b[k - (i - 1)] /\ k - (i - 1) \in 1..Len(s) - i
      BY <1>1, <1>4, <1>5, <1>7, <2>3, SMTT(30)
    <3>2. b[k - (i - 1)] = s[k - (i - 1) + i] /\ k - (i - 1) + i = k + 1
      BY <1>1, <1>5, <3>1
    <3> QED
      BY <2>3, <3>1, <3>2
  <2> QED
    BY <2>2, <2>3
<1> QED
  BY <1>6, <1>7, <1>8, <1>9

(* Induction up to a number.                                               *)
LEMMA Induct ==
  ASSUME NEW N \in Nat, NEW P, 0 \in P, \A n \in 1..N : n - 1 \in P => n \in P
  PROVE  \A n \in 0..N : n \in P
<1> DEFINE Off == {n \in 0..N : n \notin P}
<1>1. ASSUME Off # {} PROVE FALSE
  <2>1. Off \in SUBSET Nat
    OBVIOUS
  <2>2. PICK n \in Off : \A j \in Off : n <= j
    <3> HIDE DEF Off
    <3> QED
      BY <1>1, <2>1, Least
  <2>3. n \in 1..N /\ n - 1 \in 0..N /\ ~(n <= n - 1)
    BY <2>2
  <2>4. n - 1 \notin Off
    <3> HIDE DEF Off
    <3> QED
      BY <2>2, <2>3
  <2> QED
    BY <2>2, <2>3, <2>4
<1> QED
  BY <1>1

(* Sequences of whatever.                                                  *)
IsSeq(s) == \E S : s \in Seq(S)

LEMMA StartsAt ==
  ASSUME NEW e, NEW rest, IsSeq(rest)
  PROVE  /\ Len(rest) \in Nat /\ Len(<<e>> \o rest) = Len(rest) + 1
         /\ \A i \in 1..Len(rest) + 1 : (<<e>> \o rest)[i] = IF i = 1 THEN e ELSE rest[i - 1]
<1>1. PICK S : rest \in Seq(S)
  BY DEF IsSeq
<1>2. rest \in Seq(S \cup {e}) /\ <<e>> \in Seq(S \cup {e}) /\ Len(rest) \in Nat
  BY <1>1
<1> QED
  BY <1>2

LEMMA Starts ==
  ASSUME NEW e, NEW rest, IsSeq(rest)
  PROVE  \A s : s = <<e>> \o rest => IsSeq(s) /\ s # <<>> /\ Head(s) = e /\ Tail(s) = rest
<1> SUFFICES ASSUME NEW s, s = <<e>> \o rest PROVE IsSeq(s) /\ s # <<>> /\ Head(s) = e /\ Tail(s) = rest
  OBVIOUS
<1>1. PICK S : rest \in Seq(S)
  BY DEF IsSeq
<1>2. rest \in Seq(S \cup {e}) /\ <<e>> \in Seq(S \cup {e}) /\ Len(rest) \in Nat
  BY <1>1
<1>3. s \in Seq(S \cup {e}) /\ Len(s) = Len(rest) + 1
  BY <1>2
<1>4. \A i \in 1..Len(rest) + 1 : s[i] = IF i = 1 THEN e ELSE rest[i - 1]
  BY <1>2
<1>5. Tail(s) = rest
  <2>1. Tail(s) \in Seq(S \cup {e}) /\ Len(Tail(s)) = Len(rest)
    BY <1>2, <1>3
  <2>2. \A i \in 1..Len(rest) : Tail(s)[i] = rest[i]
    BY <1>2, <1>3, <1>4
  <2> QED
    BY <1>2, <2>1, <2>2
<1>6. IsSeq(s)
  BY <1>3 DEF IsSeq
<1>7. Head(s) = e
  BY <1>2, <1>3, <1>4
<1>8. s # <<>>
  BY <1>2, <1>3
<1> QED
  BY <1>5, <1>6, <1>7, <1>8

LEMMA Nothing ==
  ASSUME NEW rest, IsSeq(rest)
  PROVE  <<>> \o rest = rest /\ rest \o <<>> = rest
<1>1. PICK S : rest \in Seq(S)
  BY DEF IsSeq
<1> QED
  BY <1>1

LEMMA Empty == IsSeq(<<>>)
<1>1. <<>> \in Seq({})
  OBVIOUS
<1> QED
  BY <1>1 DEF IsSeq

LEMMA Joins ==
  ASSUME NEW a, NEW b, IsSeq(a), IsSeq(b)
  PROVE  /\ IsSeq(a \o b) /\ Len(a \o b) = Len(a) + Len(b) /\ Len(a) \in Nat /\ Len(b) \in Nat
         /\ \A i \in 1..Len(a) + Len(b) : (a \o b)[i] = IF i <= Len(a) THEN a[i] ELSE b[i - Len(a)]
<1>1. PICK S, T : a \in Seq(S) /\ b \in Seq(T)
  BY DEF IsSeq
<1>2. a \in Seq(S \cup T) /\ b \in Seq(S \cup T)
  BY <1>1
<1>3. a \o b \in Seq(S \cup T)
  BY <1>2
<1> QED
  BY <1>2, <1>3 DEF IsSeq

LEMMA Assoc ==
  ASSUME NEW a, NEW b, NEW c, IsSeq(a), IsSeq(b), IsSeq(c)
  PROVE  (a \o b) \o c = a \o (b \o c)
<1>1. PICK S, T, U : a \in Seq(S) /\ b \in Seq(T) /\ c \in Seq(U)
  BY DEF IsSeq
<1> DEFINE E == S \cup T \cup U
<1>2. a \in Seq(E) /\ b \in Seq(E) /\ c \in Seq(E)
  BY <1>1
<1> HIDE DEF E
<1>3. a \o b \in Seq(E) /\ b \o c \in Seq(E)
  BY <1>2
<1>4. (a \o b) \o c \in Seq(E) /\ a \o (b \o c) \in Seq(E)
  BY <1>2, <1>3
<1>5. Len((a \o b) \o c) = Len(a \o (b \o c))
  BY <1>2, <1>3
<1>6. ASSUME NEW i \in 1..Len((a \o b) \o c) PROVE ((a \o b) \o c)[i] = (a \o (b \o c))[i]
  <2>1. i \in 1..Len(a) + Len(b) + Len(c) /\ Len(a) \in Nat /\ Len(b) \in Nat /\ Len(c) \in Nat
    BY <1>2, <1>3
  <2>2. CASE i <= Len(a)
    BY <1>2, <1>3, <2>1, <2>2
  <2>3. CASE i > Len(a) /\ i <= Len(a) + Len(b)
    BY <1>2, <1>3, <2>1, <2>3
  <2>4. CASE i > Len(a) + Len(b)
    BY <1>2, <1>3, <2>1, <2>4
  <2> QED
    BY <2>1, <2>2, <2>3, <2>4
<1> QED
  BY <1>4, <1>5, <1>6

(* A set moved in its order has its members at the same places.            *)
LEMMA MovedInOrder ==
  ASSUME NEW I \in SUBSET Nat, IsFiniteSet(I), NEW J \in SUBSET Nat, NEW h \in [I -> J],
         \A i, j \in I : i < j => h[i] < h[j], \A j \in J : \E i \in I : h[i] = j
  PROVE  /\ IsFiniteSet(J) /\ Cardinality(J) = Cardinality(I)
         /\ \A k \in 1..Cardinality(I) : NthIn(J, k) = h[NthIn(I, k)]
<1>1. \A i, j \in I : h[i] = h[j] => i = j
  <2>1. SUFFICES ASSUME NEW i \in I, NEW j \in I, i # j PROVE h[i] # h[j]
    OBVIOUS
  <2>2. i \in Nat /\ j \in Nat /\ h[i] \in Nat /\ h[j] \in Nat
    OBVIOUS
  <2>3. h[i] < h[j] \/ h[j] < h[i]
    BY <2>1, <2>2
  <2> QED
    BY <2>2, <2>3
<1>2. \A A \in SUBSET I : \A B \in SUBSET J :
        (\A i \in A : h[i] \in B) /\ (\A j \in B : \E i \in A : h[i] = j) =>
          IsFiniteSet(B) /\ Cardinality(B) = Cardinality(A)
  <2>1. SUFFICES ASSUME NEW A \in SUBSET I, NEW B \in SUBSET J,
                        \A i \in A : h[i] \in B, \A j \in B : \E i \in A : h[i] = j
                 PROVE  IsFiniteSet(B) /\ Cardinality(B) = Cardinality(A)
    OBVIOUS
  <2>2. PICK g : g = [i \in A |-> h[i]]
    OBVIOUS
  <2>3. g \in [A -> B] /\ (\A i \in A : g[i] = h[i])
    BY <2>1, <2>2
  <2>4. (\A i, j \in A : g[i] = g[j] => i = j) /\ (\A j \in B : \E i \in A : g[i] = j)
    BY <1>1, <2>1, <2>3
  <2>5. g \in Bijection(A, B)
    BY <2>3, <2>4 DEF Bijection, Injection, Surjection, IsInjective
  <2>6. IsFiniteSet(A)
    BY FS_Subset
  <2>7. ExistsBijection(A, B)
    BY <2>5 DEF ExistsBijection
  <2> QED
    BY <2>6, <2>7, FS_Bijection
<1>3. IsFiniteSet(J) /\ Cardinality(J) = Cardinality(I)
  BY <1>2
<1>4. \A i \in I : Cardinality({j \in J : j <= h[i]}) = Cardinality({j \in I : j <= i})
  <2>1. SUFFICES ASSUME NEW i \in I PROVE Cardinality({j \in J : j <= h[i]}) = Cardinality({j \in I : j <= i})
    OBVIOUS
  <2>2. PICK A : A = {j \in I : j <= i}
    OBVIOUS
  <2>3. PICK B : B = {j \in J : j <= h[i]}
    OBVIOUS
  <2>4. \A j \in I : j <= i => h[j] <= h[i]
    <3>1. \A j \in I : j \in Nat /\ i \in Nat /\ h[i] \in Nat /\ h[j] \in Nat
      OBVIOUS
    <3> QED
      BY <3>1
  <2>5. \A j \in I : h[j] <= h[i] => j <= i
    <3>1. \A j \in I : j \in Nat /\ i \in Nat /\ h[i] \in Nat /\ h[j] \in Nat
      OBVIOUS
    <3> QED
      BY <3>1
  <2>6. A \in SUBSET I /\ B \in SUBSET J
    BY <2>2, <2>3
  <2>7. \A j \in A : h[j] \in B
    BY <2>2, <2>3, <2>4
  <2>8. \A x \in B : \E j \in A : h[j] = x
    <3>1. SUFFICES ASSUME NEW x \in B PROVE \E j \in A : h[j] = x
      OBVIOUS
    <3>2. x \in J /\ x <= h[i]
      BY <2>3
    <3>3. PICK j \in I : h[j] = x
      BY <3>2
    <3>4. j \in A
      BY <2>2, <2>5, <3>2, <3>3
    <3> QED
      BY <3>3, <3>4
  <2> QED
    BY <1>2, <2>2, <2>3, <2>6, <2>7, <2>8
<1>5. SUFFICES ASSUME NEW k \in 1..Cardinality(I) PROVE NthIn(J, k) = h[NthIn(I, k)]
  BY <1>3
<1>6. PICK i : i = NthIn(I, k)
  OBVIOUS
<1>7. i \in I /\ Cardinality({j \in I : j <= i}) = k
  BY <1>6, RankOf
<1>8. h[i] \in J /\ Cardinality({j \in J : j <= h[i]}) = k
  BY <1>4, <1>7
<1>9. NthIn(J, Cardinality({j \in J : j <= h[i]})) = h[i]
  BY <1>3, <1>8, RankOf
<1> QED
  BY <1>6, <1>8, <1>9

(* Two sequences have the same entries at positions that correspond.       *)
LEMMA SameEntries ==
  ASSUME NEW E, NEW s \in Seq(E), NEW t \in Seq(E), NEW I \in SUBSET (DOMAIN s), NEW J \in SUBSET (DOMAIN t),
         NEW h \in [I -> J], \A i, j \in I : i < j => h[i] < h[j], \A j \in J : \E i \in I : h[i] = j,
         \A i \in I : t[h[i]] = s[i]
  PROVE  EntriesAt(t, J) = EntriesAt(s, I)
<1>1. I \in SUBSET Nat /\ J \in SUBSET Nat
  OBVIOUS
<1>2. IsFiniteSet(I)
  BY AtPositions
<1>3. Cardinality(J) = Cardinality(I) /\ \A k \in 1..Cardinality(I) : NthIn(J, k) = h[NthIn(I, k)]
  BY <1>1, <1>2, MovedInOrder
<1>4. \A k \in 1..Cardinality(I) : NthIn(I, k) \in I
  BY <1>1, <1>2, Positions
<1>5. \A k \in 1..Cardinality(I) : t[NthIn(J, k)] = s[NthIn(I, k)]
  BY <1>3, <1>4
<1> QED
  BY <1>3, <1>5 DEF EntriesAt

(* All entries of a sequence.                                              *)
LEMMA AllEntries ==
  ASSUME NEW E, NEW s \in Seq(E)
  PROVE  EntriesAt(s, DOMAIN s) = s
<1> DEFINE n == Len(s)
<1>1. n \in Nat /\ DOMAIN s = 1..n /\ 1..n \in SUBSET Nat /\ IsFiniteSet(1..n) /\ Cardinality(1..n) = n
  <2>1. n \in Nat /\ DOMAIN s = 1..n
    OBVIOUS
  <2>2. \A m \in Nat : IsFiniteSet(1..m) /\ Cardinality(1..m) = m
    BY FS_Interval
  <2> QED
    BY <2>1, <2>2
<1> HIDE DEF n
<1>2. ASSUME NEW k \in 1..n PROVE NthIn(1..n, k) = k
  <2>1. {j \in 1..n : j <= k} = 1..k /\ k \in Nat
    BY <1>1
  <2>2. Cardinality(1..k) = k
    BY <2>1, FS_Interval
  <2>3. NthIn(1..n, Cardinality({j \in 1..n : j <= k})) = k
    BY <1>1, RankOf
  <2> QED
    BY <2>1, <2>2, <2>3
<1>3. EntriesAt(s, 1..n) = [k \in 1..n |-> s[k]]
  BY <1>1, <1>2 DEF EntriesAt
<1> QED
  BY <1>1, <1>3

(* Of what stays of a sequence, some entries stay.                         *)
LEMMA EntriesOfEntries ==
  ASSUME NEW E, NEW s \in Seq(E), NEW I \in SUBSET (DOMAIN s), NEW K \in SUBSET (DOMAIN s), K \in SUBSET I,
         NEW J \in SUBSET (DOMAIN EntriesAt(s, I)),
         \A k \in DOMAIN EntriesAt(s, I) : k \in J <=> NthIn(I, k) \in K
  PROVE  EntriesAt(EntriesAt(s, I), J) = EntriesAt(s, K)
<1>1. PICK t : t = EntriesAt(s, I)
  OBVIOUS
<1>2. /\ t \in Seq(E) /\ J \in SUBSET (DOMAIN t)
      /\ \A k \in DOMAIN t : NthIn(I, k) \in I /\ t[k] = s[NthIn(I, k)]
      /\ \A i \in I : \E k \in DOMAIN t : NthIn(I, k) = i
      /\ \A j, k \in DOMAIN t : j < k => NthIn(I, j) < NthIn(I, k)
      /\ \A k \in DOMAIN t : k \in J <=> NthIn(I, k) \in K
  BY <1>1, AtPositions
<1>3. PICK h : h = [k \in J |-> NthIn(I, k)]
  OBVIOUS
<1>4. h \in [J -> K] /\ \A k \in J : h[k] = NthIn(I, k)
  BY <1>2, <1>3
<1>5. \A j, k \in J : j < k => h[j] < h[k]
  BY <1>2, <1>4
<1>6. \A i \in K : \E k \in J : h[k] = i
  BY <1>2, <1>4
<1>7. \A k \in J : s[h[k]] = t[k]
  BY <1>2, <1>4
<1>8. EntriesAt(s, K) = EntriesAt(t, J)
  BY <1>2, <1>4, <1>5, <1>6, <1>7, SameEntries
<1> QED
  BY <1>1, <1>8

(* Recursion up to a number.                                               *)
Recursive(N, S, a, step, f) ==
  f \in [0..N -> S] /\ f[0] = a /\ \A n \in 1..N : f[n] = step[<<n, f[n - 1]>>]
LEMMA Recursion ==
  ASSUME NEW N \in Nat, NEW S, NEW a \in S, NEW step \in [(1..N) \X S -> S]
  PROVE  \E f : Recursive(N, S, a, step, f)
<1> DEFINE Good(m, f) == f \in [0..m -> S] /\ f[0] = a /\ \A n \in 1..m : f[n] = step[<<n, f[n - 1]>>]
           Ok == {m \in 0..N : \E f : Good(m, f)}
<1>1. 0 \in Ok
  <2>1. PICK f : f = [n \in 0..0 |-> a]
    OBVIOUS
  <2>2. Good(0, f)
    BY <2>1
  <2> QED
    BY <2>2
<1>2. ASSUME NEW m \in 1..N, m - 1 \in Ok PROVE m \in Ok
  <2>1. PICK f : Good(m - 1, f)
    BY <1>2
  <2>2. PICK last : last = step[<<m, f[m - 1]>>]
    OBVIOUS
  <2>3. last \in S
    BY <2>1, <2>2
  <2>4. PICK g : g = [n \in 0..m |-> IF n = m THEN last ELSE f[n]]
    OBVIOUS
  <2>5. \A n \in 0..m - 1 : g[n] = f[n]
    BY <2>4
  <2>6. g \in [0..m -> S] /\ g[0] = a
    BY <2>1, <2>3, <2>4
  <2>7. ASSUME NEW n \in 1..m PROVE g[n] = step[<<n, g[n - 1]>>]
    <3>1. CASE n = m
      <4>1. m - 1 \in 0..m - 1 /\ m \in 0..m
        OBVIOUS
      <4>2. g[m - 1] = f[m - 1] /\ g[m] = last
        BY <2>4, <2>5, <4>1
      <4>3. step[<<m, f[m - 1]>>] = step[<<m, g[m - 1]>>]
        BY <4>2
      <4> QED
        BY <2>2, <3>1, <4>2, <4>3
    <3>2. CASE n # m
      <4>1. n \in 1..m - 1 /\ n \in 0..m - 1 /\ n - 1 \in 0..m - 1
        BY <3>2
      <4>2. f[n] = step[<<n, f[n - 1]>>]
        BY <2>1, <4>1
      <4> QED
        BY <2>5, <4>1, <4>2
    <3> QED
      BY <3>1, <3>2
  <2>8. Good(m, g)
    BY <2>6, <2>7
  <2> HIDE DEF Good
  <2> QED
    BY <2>8
<1>3. N \in Ok
  <2>1. \A n \in 1..N : n - 1 \in Ok => n \in Ok
    BY <1>2
  <2> HIDE DEF Ok
  <2>2. \A n \in 0..N : n \in Ok
    BY <1>1, <2>1, Induct
  <2> QED
    BY <2>2
<1> QED
  BY <1>3 DEF Recursive

(* A sequence with an entry more.                                          *)
LEMMA InsertedAt ==
  ASSUME NEW E, NEW s \in Seq(E), NEW i \in 1..Len(s) + 1, NEW e \in E
  PROVE  /\ InsertAt(s, i, e) \in Seq(E) /\ Len(InsertAt(s, i, e)) = Len(s) + 1
         /\ \A k \in 1..Len(s) + 1 :
              InsertAt(s, i, e)[k] = IF k < i THEN s[k] ELSE IF k = i THEN e ELSE s[k - 1]
<1>1. PICK a : a = SubSeq(s, 1, i - 1)
  OBVIOUS
<1>2. PICK b : b = SubSeq(s, i, Len(s))
  OBVIOUS
<1>3. a \in Seq(E) /\ Len(a) = i - 1 /\ \A k \in 1..i - 1 : a[k] = s[k]
  BY <1>1
<1>4. b \in Seq(E) /\ Len(b) = Len(s) + 1 - i /\ \A k \in 1..Len(s) + 1 - i : b[k] = s[k + i - 1]
  BY <1>2
<1>5. InsertAt(s, i, e) = (a \o <<e>>) \o b
  BY <1>1, <1>2 DEF InsertAt
<1>6. PICK c : c = a \o <<e>>
  OBVIOUS
<1>7. c \in Seq(E) /\ Len(c) = i /\ \A k \in 1..i : c[k] = IF k = i THEN e ELSE s[k]
  <2>1. <<e>> \in Seq(E) /\ Len(<<e>>) = 1 /\ <<e>>[1] = e
    OBVIOUS
  <2> QED
    BY <1>3, <1>6, <2>1
<1>8. PICK r : r = c \o b
  OBVIOUS
<1>9. Len(s) \in Nat /\ i \in Nat /\ Len(c) \in Nat /\ Len(b) \in Nat
  BY <1>4, <1>7
<1>10. r \in Seq(E) /\ Len(r) = Len(c) + Len(b)
       /\ \A k \in 1..Len(c) + Len(b) : r[k] = IF k <= Len(c) THEN c[k] ELSE b[k - Len(c)]
  <2>1. c \in Seq(E) /\ b \in Seq(E)
    BY <1>4, <1>7
  <2> QED
    BY <1>8, <2>1
<1>11. Len(c) + Len(b) = Len(s) + 1
  BY <1>4, <1>7, <1>9
<1>12. ASSUME NEW k \in 1..Len(s) + 1
       PROVE  r[k] = IF k < i THEN s[k] ELSE IF k = i THEN e ELSE s[k - 1]
  <2>1. CASE k <= i
    BY <1>7, <1>10, <1>11, <2>1
  <2>2. CASE ~(k <= i)
    <3>1. r[k] = b[k - i] /\ k - i \in 1..Len(s) + 1 - i
      BY <1>7, <1>9, <1>10, <1>11, <2>2
    <3>2. b[k - i] = s[k - i + i - 1] /\ k - i + i - 1 = k - 1
      BY <1>4, <1>9, <3>1
    <3> QED
      BY <1>9, <2>2, <3>1, <3>2
  <2> QED
    BY <1>9, <2>1, <2>2
<1> QED
  BY <1>5, <1>6, <1>8, <1>10, <1>11, <1>12

(* The numbers of a set up to n, the least first.                          *)
LEMMA AscendingIs ==
  ASSUME NEW n \in Nat, NEW I \in SUBSET (1..n)
  PROVE  /\ Ascending(I) \in Seq(1..n) /\ Len(Ascending(I)) \in 0..n
         /\ DOMAIN Ascending(I) = 1..Len(Ascending(I))
         /\ Range(Ascending(I)) = I
         /\ \A j, k \in DOMAIN Ascending(I) : j < k => Ascending(I)[j] < Ascending(I)[k]
         /\ I = 1..n => Ascending(I) = [k \in 1..n |-> k]
<1>1. IsFiniteSet(1..n) /\ Cardinality(1..n) = n
  BY FS_Interval
<1>2. IsFiniteSet(I) /\ Cardinality(I) <= n
  BY <1>1, FS_Subset
<1>3. Cardinality(I) \in 0..n
  BY <1>2, FS_CardinalityType
<1>4. I \in SUBSET Nat
  OBVIOUS
<1>5. /\ \A k \in 1..Cardinality(I) : NthIn(I, k) \in I
      /\ \A i \in I : \E k \in 1..Cardinality(I) : NthIn(I, k) = i
      /\ \A j, k \in 1..Cardinality(I) : j < k => NthIn(I, j) < NthIn(I, k)
  BY <1>2, <1>4, Positions
<1>6. Ascending(I) = [k \in 1..Cardinality(I) |-> NthIn(I, k)]
  BY DEF Ascending
<1>7. /\ Ascending(I) \in Seq(1..n) /\ Len(Ascending(I)) = Cardinality(I)
      /\ DOMAIN Ascending(I) = 1..Cardinality(I)
  <2>1. \A k \in 1..Cardinality(I) : NthIn(I, k) \in 1..n
    BY <1>5
  <2> QED
    BY <1>3, <1>6, <2>1
<1>8. Range(Ascending(I)) = I
  <2>1. Range(Ascending(I)) = {Ascending(I)[k] : k \in 1..Cardinality(I)}
    BY <1>7 DEF Range
  <2>2. \A k \in 1..Cardinality(I) : Ascending(I)[k] = NthIn(I, k)
    BY <1>6
  <2>3. Range(Ascending(I)) \subseteq I
    BY <1>5, <2>1, <2>2
  <2>4. I \subseteq Range(Ascending(I))
    BY <1>5, <2>1, <2>2
  <2> QED
    BY <2>3, <2>4
<1>9. ASSUME I = 1..n PROVE Ascending(I) = [k \in 1..n |-> k]
  <2>1. ASSUME NEW k \in 1..n PROVE NthIn(1..n, k) = k
    <3>1. ASSUME NEW i \in 1..n PROVE Cardinality({j \in 1..n : j <= i}) = i
      <4>1. {j \in 1..n : j <= i} = 1..i
        OBVIOUS
      <4>2. \A m \in Nat : Cardinality(1..m) = m
        BY FS_Interval
      <4>3. Cardinality(1..i) = i
        BY <4>2
      <4> QED
        BY <4>1, <4>3
    <3> QED
      BY <3>1 DEF NthIn
  <2> QED
    BY <1>1, <1>6, <1>9, <2>1
<1> QED
  BY <1>3, <1>5, <1>6, <1>7, <1>8, <1>9

(* A sequence whose entries rise is that of its entries, the least first.  *)
LEMMA AscendingOf ==
  ASSUME NEW n \in Nat, NEW w \in Seq(1..n),
         \A j, k \in DOMAIN w : j < k => w[j] < w[k]
  PROVE  Ascending(Range(w)) = w
<1>1. PICK L \in Nat : L = Len(w) /\ DOMAIN w = 1..L
  OBVIOUS
<1>2. \A j \in 1..L : w[j] \in Nat
  BY <1>1
<1> DEFINE First(m) == {w[j] : j \in 1..m}
<1>3. \A j, k \in 1..L : w[j] = w[k] => j = k
  <2>1. SUFFICES ASSUME NEW j \in 1..L, NEW k \in 1..L, j # k PROVE w[j] # w[k]
    OBVIOUS
  <2>2. j < k \/ k < j
    BY <2>1
  <2> QED
    BY <1>1, <1>2, <2>1, <2>2
<1>4. ASSUME NEW m \in 0..L PROVE Cardinality(First(m)) = m
  <2>1. PICK f : f = [j \in 1..m |-> w[j]]
    OBVIOUS
  <2>2. f \in [1..m -> First(m)] /\ \A x \in First(m) : \E j \in 1..m : f[j] = x
    BY <2>1
  <2>3. \A j, k \in 1..m : f[j] = f[k] => j = k
    BY <1>3, <2>1
  <2>4. f \in Bijection(1..m, First(m))
    <3> HIDE DEF First
    <3> QED
      BY <2>2, <2>3 DEF Bijection, Injection, Surjection, IsInjective
  <2>5. ExistsBijection(1..m, First(m))
    BY <2>4 DEF ExistsBijection
  <2>6. \A i \in Nat : IsFiniteSet(1..i) /\ Cardinality(1..i) = i
    BY FS_Interval
  <2>7. IsFiniteSet(1..m) /\ Cardinality(1..m) = m
    BY <2>6
  <2> HIDE DEF First
  <2> QED
    BY <2>5, <2>7, FS_Bijection
<1>5. Range(w) = First(L)
  BY <1>1 DEF Range
<1>6. Cardinality(Range(w)) = L
  BY <1>4, <1>5
<1>7. ASSUME NEW k \in 1..L PROVE Cardinality({i \in Range(w) : i <= w[k]}) = k
  <2>1. ASSUME NEW j \in 1..L PROVE w[j] <= w[k] <=> j <= k
    <3>1. j < k \/ j = k \/ k < j
      OBVIOUS
    <3>2. w[j] \in Nat /\ w[k] \in Nat
      BY <1>2
    <3>3. (j < k => w[j] < w[k]) /\ (k < j => w[k] < w[j])
      BY <1>1
    <3> QED
      BY <3>1, <3>2, <3>3
  <2>2. {i \in First(L) : i <= w[k]} = First(k)
    BY <2>1
  <2>3. k \in 0..L
    OBVIOUS
  <2> HIDE DEF First
  <2> QED
    BY <1>4, <1>5, <2>2, <2>3
<1>8. ASSUME NEW k \in 1..L PROVE NthIn(Range(w), k) = w[k]
  <2>1. \A i \in Range(w) : Cardinality({j \in Range(w) : j <= i}) = k <=> i = w[k]
    BY <1>5, <1>7
  <2>2. w[k] \in Range(w)
    BY <1>1 DEF Range
  <2> QED
    BY <2>1, <2>2 DEF NthIn
<1>9. w = [k \in 1..L |-> w[k]]
  BY <1>1
<1> QED
  BY <1>6, <1>8, <1>9 DEF Ascending

(* The image of a finite set.                                               *)
LEMMA FiniteImage ==
  ASSUME NEW S, IsFiniteSet(S), NEW f
  PROVE  IsFiniteSet({f[x] : x \in S})
<1> DEFINE T == {f[x] : x \in S}
           g == [x \in S |-> f[x]]
<1>1. g \in Surjection(S, T)
  BY DEF Surjection
<1> QED
  BY <1>1, FS_Surjection
=============================================================================
