----------------------------- MODULE DataProofs -----------------------------
(***************************************************************************)
(* Facts about the data that the components compute with: sequences of     *)
(* time stamps and sums of integers.                                       *)
(*                                                                         *)
(* SortTimes returns an ascending permutation of its argument.  Ranks are  *)
(* distinct and lie in 1..Len(s), so by counting every rank belongs to     *)
(* exactly one position; the ascending order is the order of the ranks.    *)
(*                                                                         *)
(* Sums are folds of the community modules, which are recursive functions  *)
(* on the subsets of a set; what they compute is proved by minimal         *)
(* counterexample, as every non-empty set of subsets of a finite set has a *)
(* minimal one.                                                            *)
(***************************************************************************)
EXTENDS TimeSeq, Functions, FiniteSetsExt, FiniteSetTheorems, SequenceTheorems, TLAPS

----------------------------------------------------------------------------
(* Sorting                                                                 *)

\* The order by which Rank numbers the positions: by time, ties by position.
Precedes(s, i, j) == s[i] < s[j] \/ (s[i] = s[j] /\ i <= j)

\* The positions 1..n are n in number.
LEMMA InitialSegment ==
  ASSUME NEW n \in Nat
  PROVE  IsFiniteSet(1..n) /\ Cardinality(1..n) = n
<1>1. n \in Int /\ 1 \in Int
  OBVIOUS
<1>2. IsFiniteSet(1..n) /\ Cardinality(1..n) = IF 1 > n THEN 0 ELSE n - 1 + 1
  BY <1>1, FS_Interval
<1> QED
  BY <1>2

\* The rank of a position is one of 1..Len(s).
LEMMA RankRange ==
  ASSUME NEW s \in Seq(Int), NEW i \in 1..Len(s)
  PROVE  /\ IsFiniteSet(AtOrBelow(s, i))
         /\ Rank(s, i) \in 1..Len(s)
<1>1. Len(s) \in Nat /\ s[i] \in Int
  BY LenProperties, ElementOfSeq
<1>2. IsFiniteSet(1..Len(s)) /\ Cardinality(1..Len(s)) = Len(s)
  BY <1>1, InitialSegment, Zenon
<1>3. AtOrBelow(s, i) \in SUBSET (1..Len(s)) /\ i \in AtOrBelow(s, i)
  BY <1>1 DEF AtOrBelow
<1>4. IsFiniteSet(AtOrBelow(s, i)) /\ Rank(s, i) <= Len(s)
  BY <1>2, <1>3, FS_Subset DEF Rank
<1>5. Rank(s, i) \in Nat /\ Rank(s, i) # 0
  BY <1>3, <1>4, FS_CardinalityType, FS_EmptySet DEF Rank
<1> QED
  BY <1>1, <1>4, <1>5

\* A position that strictly precedes another one has a smaller rank.
LEMMA RankMonotone ==
  ASSUME NEW s \in Seq(Int), NEW i \in 1..Len(s), NEW j \in 1..Len(s),
         i # j, Precedes(s, i, j)
  PROVE  Rank(s, i) < Rank(s, j)
<1>1. Len(s) \in Nat /\ (\A k \in 1..Len(s) : s[k] \in Int)
  BY LenProperties, ElementOfSeq
<1>2. AtOrBelow(s, i) \subseteq AtOrBelow(s, j)
  BY <1>1 DEF AtOrBelow, Precedes
<1>3. j \in AtOrBelow(s, j) /\ j \notin AtOrBelow(s, i)
  BY <1>1 DEF AtOrBelow, Precedes
<1>4. IsFiniteSet(AtOrBelow(s, j))
  BY RankRange
<1>5. /\ Rank(s, i) <= Rank(s, j)
      /\ Rank(s, i) # Rank(s, j)
  <2>1. AtOrBelow(s, i) \in SUBSET AtOrBelow(s, j)
    BY <1>2
  <2> QED
    BY <1>3, <1>4, <2>1, FS_Subset DEF Rank
<1>6. Rank(s, i) \in Int /\ Rank(s, j) \in Int
  BY RankRange, <1>1
<1> QED
  BY <1>5, <1>6

\* Every number of 1..Len(s) is the rank of exactly one position.
LEMMA RankBijective ==
  ASSUME NEW s \in Seq(Int)
  PROVE  [i \in 1..Len(s) |-> Rank(s, i)] \in Bijection(1..Len(s), 1..Len(s))
<1> DEFINE n == Len(s)
           f == [i \in 1..n |-> Rank(s, i)]
<1>1. n \in Nat /\ (\A k \in 1..n : s[k] \in Int)
  BY LenProperties, ElementOfSeq
<1>2. f \in [1..n -> 1..n]
  BY RankRange
<1>3. \A i, j \in 1..n : f[i] = f[j] => i = j
  <2> SUFFICES ASSUME NEW i \in 1..n, NEW j \in 1..n, i # j
               PROVE  f[i] # f[j]
    OBVIOUS
  <2>1. Rank(s, i) \in Int /\ Rank(s, j) \in Int
    BY RankRange, <1>1
  <2>2. Precedes(s, i, j) \/ Precedes(s, j, i)
    BY <1>1 DEF Precedes
  <2>3. Rank(s, i) < Rank(s, j) \/ Rank(s, j) < Rank(s, i)
    BY <2>2, RankMonotone
  <2> QED
    BY <2>1, <2>3
<1>4. f \in Injection(1..n, 1..n)
  BY <1>2, <1>3 DEF Injection, IsInjective
<1>5. IsFiniteSet(1..n)
  BY <1>1, InitialSegment, Zenon
<1>6. f \in Surjection(1..n, 1..n)
  BY <1>4, <1>5, FS_Injection
<1> QED
  BY <1>4, <1>6 DEF Bijection

\* The position that holds the element of rank k, and that it is the only one.
LEMMA RankChoice ==
  ASSUME NEW s \in Seq(Int), NEW k \in 1..Len(s)
  PROVE  LET i == CHOOSE i \in 1..Len(s) : Rank(s, i) = k
         IN  /\ i \in 1..Len(s)
             /\ Rank(s, i) = k
             /\ SortTimes(s)[k] = s[i]
<1>1. \E i \in 1..Len(s) : Rank(s, i) = k
  BY RankBijective DEF Bijection, Surjection
<1> QED
  BY <1>1 DEF SortTimes

\* sort.Slice keeps the number and the type of the elements.
THEOREM SortTimesType ==
  ASSUME NEW S, S \subseteq Int, NEW s \in Seq(S)
  PROVE  /\ SortTimes(s) \in Seq(S)
         /\ Len(SortTimes(s)) = Len(s)
<1>1. s \in Seq(Int)
  BY SeqMonotonic
<1>2. Len(s) \in Nat
  BY LenProperties
<1>3. \A k \in 1..Len(s) : SortTimes(s)[k] \in S
  <2> SUFFICES ASSUME NEW k \in 1..Len(s) PROVE SortTimes(s)[k] \in S
    OBVIOUS
  <2>1. PICK i \in 1..Len(s) : SortTimes(s)[k] = s[i]
    BY <1>1, RankChoice
  <2>2. s[i] \in S
    BY ElementOfSeq
  <2> QED
    BY <2>1, <2>2
<1>4. SortTimes(s) \in [1..Len(s) -> S]
  BY <1>3 DEF SortTimes
<1>5. SortTimes(s) \in Seq(S)
  BY <1>2, <1>4, SeqDef
<1>6. Len(SortTimes(s)) = Len(s)
  BY <1>2, <1>4, <1>5, LenProperties
<1> QED
  BY <1>5, <1>6

\* What sort.Slice returns is ascending.
THEOREM SortTimesAscending ==
  ASSUME NEW s \in Seq(Int)
  PROVE  IsAscending(SortTimes(s))
<1>1. Len(SortTimes(s)) = Len(s) /\ Len(s) \in Nat
  BY SortTimesType, LenProperties
<1> SUFFICES ASSUME NEW a \in 1..Len(s), NEW b \in 1..Len(s), a < b
             PROVE  SortTimes(s)[a] <= SortTimes(s)[b]
  BY <1>1 DEF IsAscending
<1> DEFINE i == CHOOSE x \in 1..Len(s) : Rank(s, x) = a
           j == CHOOSE x \in 1..Len(s) : Rank(s, x) = b
<1>2. i \in 1..Len(s) /\ Rank(s, i) = a /\ SortTimes(s)[a] = s[i]
  BY RankChoice
<1>3. j \in 1..Len(s) /\ Rank(s, j) = b /\ SortTimes(s)[b] = s[j]
  BY RankChoice
<1> HIDE DEF i, j
<1>4. s[i] \in Int /\ s[j] \in Int
  BY <1>2, <1>3, ElementOfSeq
<1>5. CASE s[j] < s[i]
  <2>1. Precedes(s, j, i) /\ i # j
    BY <1>4, <1>5 DEF Precedes
  <2>2. Rank(s, j) < Rank(s, i)
    BY <1>2, <1>3, <2>1, RankMonotone
  <2> QED
    BY <1>1, <1>2, <1>3, <2>2
<1> QED
  BY <1>2, <1>3, <1>4, <1>5

\* sort.Slice neither loses nor invents an element: each element of the
\* result comes from its own position of the argument.
THEOREM SortTimesPermutes ==
  ASSUME NEW s \in Seq(Int)
  PROVE  \E p \in Bijection(1..Len(s), 1..Len(s)) :
           \A i \in 1..Len(s) : SortTimes(s)[p[i]] = s[i]
<1> DEFINE p == [i \in 1..Len(s) |-> Rank(s, i)]
<1>1. p \in Bijection(1..Len(s), 1..Len(s))
  BY RankBijective
<1>2. ASSUME NEW i \in 1..Len(s)
      PROVE  SortTimes(s)[p[i]] = s[i]
  <2> DEFINE k == Rank(s, i)
             c == CHOOSE x \in 1..Len(s) : Rank(s, x) = k
  <2>1. k \in 1..Len(s)
    BY RankRange
  <2>2. c \in 1..Len(s) /\ Rank(s, c) = k /\ SortTimes(s)[k] = s[c]
    BY <2>1, RankChoice
  <2>3. c = i
    BY <2>2, <1>1 DEF Bijection, Injection, IsInjective
  <2> QED
    BY <2>2, <2>3
<1> QED
  BY <1>1, <1>2

----------------------------------------------------------------------------
(* How many elements of a sequence lie in a set                            *)

Places(s, T) == {i \in 1..Len(s) : s[i] \in T}
Amount(s, T) == Cardinality(Places(s, T))

LEMMA AmountType ==
  ASSUME NEW S, NEW s \in Seq(S), NEW T
  PROVE  /\ IsFiniteSet(Places(s, T))
         /\ Amount(s, T) \in Nat /\ Amount(s, T) <= Len(s)
         /\ (\A i \in 1..Len(s) : s[i] \in T) => Amount(s, T) = Len(s)
         /\ (\A i \in 1..Len(s) : s[i] \notin T) => Amount(s, T) = 0
<1>1. Len(s) \in Nat
  BY LenProperties
<1>2. IsFiniteSet(1..Len(s)) /\ Cardinality(1..Len(s)) = Len(s)
  BY <1>1, InitialSegment, Zenon
<1>3. Places(s, T) \in SUBSET (1..Len(s))
  BY DEF Places
<1>4. IsFiniteSet(Places(s, T)) /\ Amount(s, T) <= Len(s)
  BY <1>2, <1>3, FS_Subset DEF Amount
<1>5. Amount(s, T) \in Nat
  BY <1>4, FS_CardinalityType DEF Amount
<1>6. (\A i \in 1..Len(s) : s[i] \in T) => Amount(s, T) = Len(s)
  <2>1. (\A i \in 1..Len(s) : s[i] \in T) => Places(s, T) = 1..Len(s)
    BY DEF Places
  <2> QED
    BY <1>2, <2>1 DEF Amount
<1>7. (\A i \in 1..Len(s) : s[i] \notin T) => Amount(s, T) = 0
  <2>1. (\A i \in 1..Len(s) : s[i] \notin T) => Places(s, T) = {}
    BY DEF Places
  <2> QED
    BY <2>1, FS_EmptySet DEF Amount
<1> QED
  BY <1>4, <1>5, <1>6, <1>7

\* A one-to-one renaming of the places does not change their number.
LEMMA SameAmount ==
  ASSUME NEW A, NEW B, IsFiniteSet(A), NEW p \in [A -> B],
         \A i, j \in A : p[i] = p[j] => i = j,
         \A b \in B : \E i \in A : p[i] = b
  PROVE  IsFiniteSet(B) /\ Cardinality(B) = Cardinality(A)
<1>1. p \in Bijection(A, B)
  BY DEF Bijection, Injection, IsInjective, Surjection
<1>2. ExistsBijection(A, B)
  BY <1>1 DEF ExistsBijection
<1> QED
  BY <1>1, <1>2, FS_Bijection

\* sort.Slice keeps every such number.
LEMMA AmountSorted ==
  ASSUME NEW s \in Seq(Int), NEW T
  PROVE  Amount(SortTimes(s), T) = Amount(s, T)
<1> DEFINE A == Places(s, T)
           B == Places(SortTimes(s), T)
<1>1. Len(SortTimes(s)) = Len(s)
  BY SortTimesType
<1>2. PICK p \in Bijection(1..Len(s), 1..Len(s)) :
        \A i \in 1..Len(s) : SortTimes(s)[p[i]] = s[i]
  BY SortTimesPermutes
<1>3. /\ p \in [1..Len(s) -> 1..Len(s)]
      /\ \A i, j \in 1..Len(s) : p[i] = p[j] => i = j
      /\ \A k \in 1..Len(s) : \E i \in 1..Len(s) : p[i] = k
  BY DEF Bijection, Injection, IsInjective, Surjection
<1> DEFINE q == [i \in A |-> p[i]]
<1>4. q \in [A -> B]
  BY <1>1, <1>2, <1>3 DEF Places
<1>5. \A i, j \in A : q[i] = q[j] => i = j
  BY <1>3 DEF Places
<1>6. \A b \in B : \E i \in A : q[i] = b
  BY <1>1, <1>2, <1>3 DEF Places
<1>7. IsFiniteSet(A)
  BY AmountType
<1> HIDE DEF A, B, q
<1>8. Cardinality(B) = Cardinality(A)
  BY <1>4, <1>5, <1>6, <1>7, SameAmount
<1> QED
  BY <1>8 DEF A, B, Amount

\* The places of a concatenation are those of its two parts.
LEMMA AmountConcat ==
  ASSUME NEW S, NEW s \in Seq(S), NEW u \in Seq(S), NEW T
  PROVE  Amount(s \o u, T) = Amount(s, T) + Amount(u, T)
<1> DEFINE w == s \o u
           m == Len(s)
           A == Places(s, T)
           B == Places(u, T)
           C == {i \in Places(w, T) : i > m}
           p == [i \in B |-> m + i]
<1>1. m \in Nat /\ Len(u) \in Nat /\ Len(w) = m + Len(u) /\ w \in Seq(S)
  BY ConcatProperties, LenProperties
<1>2. /\ \A i \in 1..m : w[i] = s[i]
      /\ \A i \in 1..Len(u) : w[m + i] = u[i]
  BY ConcatProperties
<1> HIDE DEF w, m
<1>3. Places(w, T) = A \cup C /\ A \cap C = {}
  <2>1. A \subseteq Places(w, T) /\ A \cap C = {}
    BY <1>1, <1>2 DEF Places, m
  <2>2. \A i \in Places(w, T) : i > m \/ i \in A
    BY <1>1, <1>2 DEF Places, m
  <2> QED
    BY <2>1, <2>2
<1>4. p \in [B -> C]
  BY <1>1, <1>2 DEF Places
<1>5. \A i, j \in B : p[i] = p[j] => i = j
  BY <1>1 DEF Places
<1>6. \A c \in C : \E i \in B : p[i] = c
  <2> SUFFICES ASSUME NEW c \in C PROVE \E i \in B : p[i] = c
    OBVIOUS
  <2>1. c - m \in 1..Len(u) /\ m + (c - m) = c /\ w[c] \in T
    BY <1>1 DEF Places
  <2>2. c - m \in B
    BY <1>2, <2>1 DEF Places
  <2> QED
    BY <2>1, <2>2
<1>7. IsFiniteSet(A) /\ IsFiniteSet(B)
  BY AmountType
<1> HIDE DEF A, B, C, p
<1>8. IsFiniteSet(C) /\ Cardinality(C) = Cardinality(B)
  BY <1>4, <1>5, <1>6, <1>7, SameAmount
<1>9. Cardinality(A \cup C) = Cardinality(A) + Cardinality(C)
  <2>1. Cardinality(A \cap C) = 0
    BY <1>3, FS_EmptySet
  <2>2. Cardinality(A \cup C) = Cardinality(A) + Cardinality(C) - Cardinality(A \cap C)
    BY <1>7, <1>8, FS_Union
  <2>3. Cardinality(A) \in Nat /\ Cardinality(C) \in Nat
    BY <1>7, <1>8, FS_CardinalityType
  <2> QED
    BY <2>1, <2>2, <2>3
<1> QED
  BY <1>3, <1>8, <1>9 DEF A, B, w, Amount

\* A sequence without its head has one place less, if the head was one.
LEMMA AmountTail ==
  ASSUME NEW S, NEW s \in Seq(S), s # <<>>, NEW T
  PROVE  Amount(s, T) = Amount(Tail(s), T) + IF Head(s) \in T THEN 1 ELSE 0
<1>1. Head(s) \in S /\ Tail(s) \in Seq(S) /\ s = <<Head(s)>> \o Tail(s)
  BY HeadTailProperties
<1>2. <<Head(s)>> \in Seq(S) /\ Len(<<Head(s)>>) = 1 /\ <<Head(s)>>[1] = Head(s)
  BY <1>1
<1>3. Amount(<<Head(s)>>, T) = IF Head(s) \in T THEN 1 ELSE 0
  <2>1. \A i \in 1..Len(<<Head(s)>>) : <<Head(s)>>[i] = Head(s)
    BY <1>2
  <2> QED
    BY <1>2, <2>1, AmountType
<1>4. Amount(<<Head(s)>> \o Tail(s), T) = Amount(<<Head(s)>>, T) + Amount(Tail(s), T)
  BY <1>1, <1>2, AmountConcat
<1>5. Amount(Tail(s), T) \in Nat
  BY <1>1, AmountType
<1> DEFINE one == Amount(<<Head(s)>>, T)
           rest == Amount(Tail(s), T)
<1>6. Amount(s, T) = one + rest
  BY <1>1, <1>4, Zenon
<1>7. one \in {0, 1} /\ one = IF Head(s) \in T THEN 1 ELSE 0
  BY <1>3
<1> HIDE DEF one, rest
<1>8. one + rest = rest + one
  BY <1>5, <1>7 DEF rest
<1> QED
  BY <1>6, <1>7, <1>8 DEF rest

\* Only a sequence that lies in T altogether has all its places in T.
LEMMA AmountAll ==
  ASSUME NEW S, NEW s \in Seq(S), NEW T, Amount(s, T) = Len(s)
  PROVE  \A i \in 1..Len(s) : s[i] \in T
<1>1. Len(s) \in Nat
  BY LenProperties
<1>2. IsFiniteSet(1..Len(s)) /\ Cardinality(1..Len(s)) = Len(s)
  BY <1>1, InitialSegment, Zenon
<1>3. Places(s, T) \in SUBSET (1..Len(s))
  BY DEF Places
<1>4. Places(s, T) = 1..Len(s)
  BY <1>2, <1>3, FS_Subset DEF Amount
<1> QED
  BY <1>4 DEF Places

\* An element of the sorted sequence splits the elements at its place.
LEMMA SortedSplits ==
  ASSUME NEW s \in Seq(Int), NEW k \in 1..Len(s), NEW q, q = SortTimes(s)[k]
  PROVE  /\ Cardinality({i \in 1..Len(s) : s[i] < q}) \in Nat
         /\ Cardinality({i \in 1..Len(s) : s[i] < q}) <= k - 1
         /\ Cardinality({i \in 1..Len(s) : s[i] <= q}) \in Nat
         /\ Cardinality({i \in 1..Len(s) : s[i] <= q}) >= k
<1> DEFINE n == Len(s)
           t == SortTimes(s)
           Below == {x \in Int : x < q}
           UpTo  == {x \in Int : x <= q}
<1>1. \A i \in 1..n : s[i] \in Int
  BY ElementOfSeq
<1>2. /\ Len(t) = n /\ n \in Nat /\ IsAscending(t) /\ t \in Seq(Int)
      /\ \A i \in 1..n : t[i] \in Int
  BY SortTimesType, SortTimesAscending, ElementOfSeq, LenProperties
<1>3. q \in Int
  BY <1>2
<1> HIDE DEF n, t
<1>4. /\ {i \in 1..n : s[i] < q} = Places(s, Below)
      /\ {i \in 1..n : s[i] <= q} = Places(s, UpTo)
  BY <1>1 DEF Places, n
<1>5. /\ Places(t, Below) \subseteq 1..(k - 1)
      /\ 1..k \subseteq Places(t, UpTo)
  <2>1. ASSUME NEW i \in Places(t, Below) PROVE i \in 1..(k - 1)
    <3>1. i \in 1..n /\ t[i] < t[k] /\ k \in 1..n
      BY <1>2 DEF Places, n, t
    <3>2. ~(k < i) /\ i # k
      BY <1>2, <3>1 DEF IsAscending
    <3> QED
      BY <1>2, <3>1, <3>2
  <2>2. ASSUME NEW i \in 1..k PROVE i \in Places(t, UpTo)
    <3>1. i \in 1..n /\ k \in 1..n /\ q = t[k]
      BY <1>2 DEF n, t
    <3>2. t[i] <= t[k]
      BY <1>2, <3>1 DEF IsAscending
    <3> QED
      BY <1>2, <3>1, <3>2 DEF Places
  <2> QED
    BY <2>1, <2>2
<1> HIDE DEF Below, UpTo
<1>6. k \in Nat /\ k - 1 \in Nat
  BY <1>2 DEF n
<1>7. /\ IsFiniteSet(1..k) /\ Cardinality(1..k) = k
      /\ IsFiniteSet(1..(k - 1)) /\ Cardinality(1..(k - 1)) = k - 1
  BY <1>6, InitialSegment, Zenon
<1>8. IsFiniteSet(Places(t, UpTo)) /\ Amount(t, UpTo) \in Nat /\ Amount(t, Below) \in Nat
  BY <1>2, AmountType
<1>9. Amount(t, Below) <= k - 1
  BY <1>5, <1>7, FS_Subset DEF Amount
<1>10. Amount(t, UpTo) >= k
  <2>1. k <= Amount(t, UpTo)
    BY <1>5, <1>7, <1>8, FS_Subset DEF Amount
  <2> QED
    BY <1>6, <1>8, <2>1
<1>11. Amount(t, Below) = Amount(s, Below) /\ Amount(t, UpTo) = Amount(s, UpTo)
  BY AmountSorted DEF t
<1> QED
  BY <1>4, <1>8, <1>9, <1>10, <1>11 DEF Amount, n

----------------------------------------------------------------------------
(* Sums over finite sets                                                   *)

\* A function that satisfies the recursive equation of the fold of + over f.
OneOf(s) == CHOOSE x \in s : TRUE
Solves(g, f, S) ==
  g = [s \in SUBSET S |-> IF s = {} THEN 0 ELSE f[OneOf(s)] + g[s \ {OneOf(s)}]]
Solution(f, S) == CHOOSE g : Solves(g, f, S)
SumOn(f, S)    == Solution(f, S)[S]

LEMMA FoldIsSum ==
  ASSUME NEW f
  PROVE  FoldFunction(+, 0, f) = SumOn(f, DOMAIN f)
BY Zenon DEF FoldFunction, FoldFunctionOnSet, MapThenFoldSet, SumOn, Solution, Solves, OneOf

LEMMA MapThenSumIsSum ==
  ASSUME NEW f, NEW S
  PROVE  MapThenSumSet(LAMBDA i : f[i], S) = SumOn(f, S)
BY Zenon DEF MapThenSumSet, MapThenFoldSet, SumOn, Solution, Solves, OneOf

LEMMA MinimalSubset ==
  ASSUME NEW S, IsFiniteSet(S), NEW T, T \subseteq SUBSET S, T # {}
  PROVE  \E m \in T : \A u \in T : u \subseteq m => u = m
<1>1. IsWellFoundedOn(StrictSubsetOrdering(S), SUBSET S)
  BY FS_StrictSubsetOrderingWellFounded, FS_FiniteSubsetsOfFinite
<1>2. PICK m \in T : \A u \in T : ~(<<u, m>> \in StrictSubsetOrdering(S))
  BY <1>1, WFMin
<1> QED
  BY <1>2 DEF StrictSubsetOrdering

LEMMA LeastElement ==
  ASSUME NEW B \in SUBSET Nat, B # {}
  PROVE  \E m \in B : \A k \in B : m <= k
<1>1. PICK m \in B : \A k \in B : ~(<<k, m>> \in OpToRel(<, Nat))
  BY NatLessThanWellFounded, WFMin
<1>2. \A k \in B : ~(k < m)
  BY <1>1 DEF OpToRel
<1> QED
  BY <1>2

LEMMA OneOfIn ==
  ASSUME NEW s, s # {}
  PROVE  OneOf(s) \in s /\ s \ {OneOf(s)} \subseteq s /\ s \ {OneOf(s)} # s
BY DEF OneOf

\* Solutions agree where both are defined.
LEMMA SolutionsAgree ==
  ASSUME NEW f, NEW S, IsFiniteSet(S), NEW T \in SUBSET S,
         NEW g, Solves(g, f, S), NEW h, Solves(h, f, T)
  PROVE  \A s \in SUBSET T : g[s] = h[s]
<1> DEFINE Bad == {s \in SUBSET T : g[s] # h[s]}
<1>1. SUFFICES ASSUME Bad # {} PROVE FALSE
  OBVIOUS
<1>2. Bad \subseteq SUBSET S
  OBVIOUS
<1>3. PICK m \in Bad : \A u \in Bad : u \subseteq m => u = m
  <2> HIDE DEF Bad
  <2> QED
    BY <1>1, <1>2, MinimalSubset
<1>4. \A s \in SUBSET T : /\ g[s] = IF s = {} THEN 0 ELSE f[OneOf(s)] + g[s \ {OneOf(s)}]
                          /\ h[s] = IF s = {} THEN 0 ELSE f[OneOf(s)] + h[s \ {OneOf(s)}]
  BY DEF Solves
<1>5. m # {}
  BY <1>4
<1>6. m \ {OneOf(m)} \in SUBSET T /\ m \ {OneOf(m)} \subseteq m /\ m \ {OneOf(m)} # m
  BY <1>5, OneOfIn
<1>7. g[m \ {OneOf(m)}] = h[m \ {OneOf(m)}]
  BY <1>3, <1>6
<1> QED
  BY <1>4, <1>5, <1>7

\* There is one, so the fold satisfies its equation.
LEMMA SolutionExists ==
  ASSUME NEW f, NEW S, IsFiniteSet(S)
  PROVE  Solves(Solution(f, S), f, S)
<1> DEFINE Bad == {T \in SUBSET S : ~Solves(Solution(f, T), f, T)}
<1>1. SUFFICES ASSUME Bad # {} PROVE FALSE
  OBVIOUS
<1>2. PICK T \in Bad : \A U \in Bad : U \subseteq T => U = T
  <2>1. Bad \subseteq SUBSET S
    OBVIOUS
  <2> HIDE DEF Bad
  <2> QED
    BY <1>1, <2>1, MinimalSubset
<1>3. \A U \in SUBSET T : U # T => Solves(Solution(f, U), f, U)
  BY <1>2
<1> DEFINE g == [s \in SUBSET T |->
                   IF s = {} THEN 0 ELSE f[OneOf(s)] + Solution(f, s \ {OneOf(s)})[s \ {OneOf(s)}]]
<1>4. \A s \in SUBSET T : s # T => g[s] = Solution(f, s)[s]
  <2> SUFFICES ASSUME NEW s \in SUBSET T, s # T
               PROVE  g[s] = Solution(f, s)[s]
    OBVIOUS
  <2> DEFINE r == s \ {OneOf(s)}
  <2>1. Solves(Solution(f, s), f, s)
    BY <1>3
  <2>2. Solution(f, s)[s] = IF s = {} THEN 0 ELSE f[OneOf(s)] + Solution(f, s)[r]
    <3> HIDE DEF r
    <3>1. \A u \in SUBSET s : Solution(f, s)[u] = IF u = {} THEN 0 ELSE f[OneOf(u)] + Solution(f, s)[u \ {OneOf(u)}]
      BY <2>1 DEF Solves
    <3> QED
      BY <3>1 DEF r
  <2>3. s # {} => Solution(f, s)[r] = Solution(f, r)[r]
    <3> SUFFICES ASSUME s # {} PROVE Solution(f, s)[r] = Solution(f, r)[r]
      OBVIOUS
    <3>1. r \in SUBSET s /\ r \in SUBSET T /\ r # T
      BY OneOfIn
    <3>2. Solves(Solution(f, r), f, r)
      BY <1>3, <3>1
    <3>3. IsFiniteSet(s)
      <4>1. s \in SUBSET S
        BY <1>2
      <4> QED
        BY <4>1, FS_Subset
    <3> QED
      BY <2>1, <3>1, <3>2, <3>3, SolutionsAgree
  <2>4. g[s] = IF s = {} THEN 0 ELSE f[OneOf(s)] + Solution(f, r)[r]
    OBVIOUS
  <2> QED
    BY <2>2, <2>3, <2>4
<1>5. Solves(g, f, T)
  <2>1. \A s \in SUBSET T : s # {} => /\ s \ {OneOf(s)} \in SUBSET T /\ s \ {OneOf(s)} # T
                                      /\ g[s \ {OneOf(s)}] = Solution(f, s \ {OneOf(s)})[s \ {OneOf(s)}]
    BY <1>4, OneOfIn
  <2>2. \A s \in SUBSET T : g[s] = IF s = {} THEN 0 ELSE f[OneOf(s)] + g[s \ {OneOf(s)}]
    BY <2>1
  <2>3. g = [s \in SUBSET T |-> g[s]]
    OBVIOUS
  <2> HIDE DEF g
  <2> QED
    BY <2>2, <2>3 DEF Solves
<1>6. Solves(Solution(f, T), f, T)
  BY <1>5 DEF Solution
<1> QED
  BY <1>2, <1>6

\* The two cases of the fold.
LEMMA SumCases ==
  ASSUME NEW f, NEW S, IsFiniteSet(S)
  PROVE  /\ SumOn(f, {}) = 0
         /\ S # {} => SumOn(f, S) = f[OneOf(S)] + SumOn(f, S \ {OneOf(S)})
<1>1. SumOn(f, {}) = 0
  <2>1. Solves(Solution(f, {}), f, {})
    BY SolutionExists, FS_EmptySet
  <2> QED
    BY <2>1 DEF Solves, SumOn
<1>2. ASSUME S # {} PROVE SumOn(f, S) = f[OneOf(S)] + SumOn(f, S \ {OneOf(S)})
  <2> DEFINE r == S \ {OneOf(S)}
  <2>1. Solves(Solution(f, S), f, S) /\ r \in SUBSET S /\ IsFiniteSet(r)
    BY SolutionExists, FS_Subset
  <2>2. Solves(Solution(f, r), f, r)
    BY <2>1, SolutionExists
  <2>3. Solution(f, S)[r] = Solution(f, r)[r]
    <3> HIDE DEF r
    <3>1. \A s \in SUBSET r : Solution(f, S)[s] = Solution(f, r)[s]
      BY <2>1, <2>2, SolutionsAgree
    <3> QED
      BY <3>1
  <2>4. Solution(f, S)[S] = f[OneOf(S)] + Solution(f, S)[r]
    BY <1>2, <2>1 DEF Solves
  <2> QED
    BY <2>3, <2>4 DEF SumOn
<1> QED
  BY <1>1, <1>2

----------------------------------------------------------------------------
(* Sums of integers *)

LEMMA SumType ==
  ASSUME NEW f, NEW S, IsFiniteSet(S), \A x \in S : f[x] \in Int
  PROVE  SumOn(f, S) \in Int
<1> DEFINE Bad == {T \in SUBSET S : SumOn(f, T) \notin Int}
<1>1. SUFFICES ASSUME Bad # {} PROVE FALSE
  OBVIOUS
<1>2. PICK T \in Bad : \A U \in Bad : U \subseteq T => U = T
  <2>1. Bad \subseteq SUBSET S
    OBVIOUS
  <2> HIDE DEF Bad
  <2> QED
    BY <1>1, <2>1, MinimalSubset
<1>3. T \in SUBSET S /\ IsFiniteSet(T)
  BY <1>2, FS_Subset
<1>4. T # {}
  <2>1. SumOn(f, {}) = 0
    BY <1>3, SumCases, Zenon
  <2>2. SumOn(f, T) \notin Int
    BY <1>2
  <2> QED
    BY <2>1, <2>2
<1>5. SumOn(f, T \ {OneOf(T)}) \in Int /\ f[OneOf(T)] \in Int
  BY <1>2, <1>3, <1>4, OneOfIn
<1>6. SumOn(f, T) = f[OneOf(T)] + SumOn(f, T \ {OneOf(T)})
  BY <1>3, <1>4, SumCases
<1> QED
  BY <1>2, <1>5, <1>6

\* Any element may be taken out of a sum.
LEMMA SumSplit ==
  ASSUME NEW f, NEW S, IsFiniteSet(S), \A x \in S : f[x] \in Int, NEW x \in S
  PROVE  SumOn(f, S) = f[x] + SumOn(f, S \ {x})
<1> DEFINE Splits(T) == \A y \in T : SumOn(f, T) = f[y] + SumOn(f, T \ {y})
           Bad == {T \in SUBSET S : ~Splits(T)}
<1>1. SUFFICES ASSUME Bad # {} PROVE FALSE
  OBVIOUS
<1>2. PICK T \in Bad : \A U \in Bad : U \subseteq T => U = T
  <2>1. Bad \subseteq SUBSET S
    OBVIOUS
  <2> HIDE DEF Bad
  <2> QED
    BY <1>1, <2>1, MinimalSubset
<1>3. T \in SUBSET S /\ IsFiniteSet(T) /\ ~Splits(T)
  BY <1>2, FS_Subset
<1>4. \A U \in SUBSET T : U # T => Splits(U)
  BY <1>2
<1>5. PICK y \in T : SumOn(f, T) # f[y] + SumOn(f, T \ {y})
  BY <1>3
<1> DEFINE c == OneOf(T)
<1>6. /\ c \in T /\ c \in S /\ y \in S
      /\ SumOn(f, T) = f[c] + SumOn(f, T \ {c})
  BY <1>3, <1>5, SumCases, OneOfIn
<1> HIDE DEF c
<1>7. c # y
  BY <1>5, <1>6
<1>8. Splits(T \ {c}) /\ Splits(T \ {y})
  BY <1>4, <1>5, <1>6
<1>9. (T \ {c}) \ {y} = (T \ {y}) \ {c} /\ y \in T \ {c} /\ c \in T \ {y}
  BY <1>5, <1>6, <1>7
<1>10. /\ SumOn(f, T \ {c}) = f[y] + SumOn(f, (T \ {c}) \ {y})
       /\ SumOn(f, T \ {y}) = f[c] + SumOn(f, (T \ {c}) \ {y})
  BY <1>8, <1>9
<1>11. f[y] \in Int /\ f[c] \in Int /\ SumOn(f, (T \ {c}) \ {y}) \in Int
  <2>1. IsFiniteSet((T \ {c}) \ {y}) /\ (T \ {c}) \ {y} \subseteq S
    BY <1>3, FS_Subset
  <2> QED
    BY <1>6, <2>1, SumType
<1> QED
  BY <1>5, <1>6, <1>10, <1>11

\* Only the values on the set matter.
LEMMA SumCongruence ==
  ASSUME NEW f, NEW g, NEW S, IsFiniteSet(S), \A x \in S : f[x] = g[x]
  PROVE  SumOn(f, S) = SumOn(g, S)
<1> DEFINE Bad == {T \in SUBSET S : SumOn(f, T) # SumOn(g, T)}
<1>1. SUFFICES ASSUME Bad # {} PROVE FALSE
  OBVIOUS
<1>2. PICK T \in Bad : \A U \in Bad : U \subseteq T => U = T
  <2>1. Bad \subseteq SUBSET S
    OBVIOUS
  <2> HIDE DEF Bad
  <2> QED
    BY <1>1, <2>1, MinimalSubset
<1>3. T \in SUBSET S /\ IsFiniteSet(T)
  BY <1>2, FS_Subset
<1>4. T # {}
  BY <1>2, <1>3, SumCases
<1>5. SumOn(f, T \ {OneOf(T)}) = SumOn(g, T \ {OneOf(T)}) /\ f[OneOf(T)] = g[OneOf(T)]
  BY <1>2, <1>3, <1>4, OneOfIn
<1>6. /\ SumOn(f, T) = f[OneOf(T)] + SumOn(f, T \ {OneOf(T)})
      /\ SumOn(g, T) = g[OneOf(T)] + SumOn(g, T \ {OneOf(T)})
  BY <1>3, <1>4, SumCases
<1> QED
  BY <1>2, <1>5, <1>6

\* A change at one place changes the sum by as much.
LEMMA SumChange ==
  ASSUME NEW f, NEW g, NEW S, IsFiniteSet(S), NEW x \in S,
         \A y \in S : f[y] \in Int /\ g[y] \in Int,
         \A y \in S \ {x} : f[y] = g[y]
  PROVE  SumOn(g, S) = SumOn(f, S) + g[x] - f[x]
<1>1. IsFiniteSet(S \ {x})
  BY FS_RemoveElement
<1>2. SumOn(g, S \ {x}) = SumOn(f, S \ {x})
  BY <1>1, SumCongruence
<1>3. SumOn(f, S) = f[x] + SumOn(f, S \ {x})
  BY SumSplit
<1>4. SumOn(g, S) = g[x] + SumOn(g, S \ {x})
  BY SumSplit
<1>5. SumOn(f, S \ {x}) \in Int /\ f[x] \in Int /\ g[x] \in Int
  BY <1>1, SumType
<1> QED
  BY <1>2, <1>3, <1>4, <1>5

\* A sum over pairs of a function of their first components.
PairSolves(g, f, S) ==
  g = [s \in SUBSET S |-> IF s = {} THEN 0 ELSE f[OneOf(s)[1]] + g[s \ {OneOf(s)}]]

LEMMA PairSumIsSum ==
  ASSUME NEW f, NEW S, IsFiniteSet(S), NEW w, \A p \in S : w[p] = f[p[1]]
  PROVE  MapThenSumSet(LAMBDA p : f[p[1]], S) = SumOn(w, S)
<1> DEFINE h == CHOOSE g : PairSolves(g, f, S)
<1>1. MapThenSumSet(LAMBDA p : f[p[1]], S) = h[S]
  BY Zenon DEF MapThenSumSet, MapThenFoldSet, PairSolves, OneOf
<1>2. ASSUME NEW g PROVE PairSolves(g, f, S) <=> Solves(g, w, S)
  <2>1. ASSUME NEW s \in SUBSET S, s # {} PROVE f[OneOf(s)[1]] = w[OneOf(s)]
    BY <2>1, OneOfIn
  <2>2. ASSUME NEW s \in SUBSET S
        PROVE  (IF s = {} THEN 0 ELSE f[OneOf(s)[1]] + g[s \ {OneOf(s)}])
                 = (IF s = {} THEN 0 ELSE w[OneOf(s)] + g[s \ {OneOf(s)}])
    BY <2>1
  <2>3. [s \in SUBSET S |-> IF s = {} THEN 0 ELSE f[OneOf(s)[1]] + g[s \ {OneOf(s)}]]
          = [s \in SUBSET S |-> IF s = {} THEN 0 ELSE w[OneOf(s)] + g[s \ {OneOf(s)}]]
    BY <2>2
  <2> QED
    BY <2>3, Zenon DEF PairSolves, Solves
<1>3. Solves(Solution(w, S), w, S)
  BY SolutionExists
<1>4. PairSolves(h, f, S)
  <2>1. \E g : PairSolves(g, f, S)
    BY <1>2, <1>3, Zenon
  <2> QED
    BY <2>1, Zenon
<1> HIDE DEF h
<1>5. Solves(h, w, S)
  BY <1>2, <1>4
<1>6. h[S] = Solution(w, S)[S]
  <2>1. \A s \in SUBSET S : h[s] = Solution(w, S)[s]
    BY <1>3, <1>5, SolutionsAgree
  <2> QED
    BY <2>1
<1> QED
  BY <1>1, <1>6 DEF SumOn

LEMMA SumEmpty ==
  ASSUME NEW f
  PROVE  SumOn(f, {}) = 0
<1>1. IsFiniteSet({})
  BY FS_EmptySet
<1> QED
  BY <1>1, SumCases, Zenon

LEMMA SumOfOne ==
  ASSUME NEW f, NEW x, f[x] \in Int
  PROVE  SumOn(f, {x}) = f[x]
<1>1. IsFiniteSet({x}) /\ {x} \ {x} = {} /\ IsFiniteSet({})
  BY FS_Singleton, FS_EmptySet
<1>2. SumOn(f, {x}) = f[x] + SumOn(f, {x} \ {x})
  BY <1>1, SumSplit
<1>3. SumOn(f, {x} \ {x}) = 0
  BY <1>1, SumEmpty, Zenon
<1> QED
  BY <1>2, <1>3

LEMMA SumConstant ==
  ASSUME NEW f, NEW S, IsFiniteSet(S), NEW c \in Int, \A x \in S : f[x] = c
  PROVE  SumOn(f, S) = Cardinality(S) * c
<1> DEFINE Bad == {T \in SUBSET S : SumOn(f, T) # Cardinality(T) * c}
<1>1. SUFFICES ASSUME Bad # {} PROVE FALSE
  OBVIOUS
<1>2. PICK T \in Bad : \A U \in Bad : U \subseteq T => U = T
  <2>1. Bad \subseteq SUBSET S
    OBVIOUS
  <2> HIDE DEF Bad
  <2> QED
    BY <1>1, <2>1, MinimalSubset
<1>3. T \in SUBSET S /\ IsFiniteSet(T) /\ SumOn(f, T) # Cardinality(T) * c
  BY <1>2, FS_Subset
<1>4. T # {}
  <2>1. SumOn(f, {}) = 0
    BY SumEmpty
  <2>2. Cardinality({}) = 0 /\ 0 * c = 0
    BY FS_EmptySet
  <2> QED
    BY <1>3, <2>1, <2>2
<1>5. PICK x \in T : TRUE
  BY <1>4
<1> DEFINE U == T \ {x}
<1>6. IsFiniteSet(U) /\ U \in SUBSET S /\ U \subseteq T /\ U # T
  BY <1>3, <1>5, FS_Subset
<1>7. SumOn(f, U) = Cardinality(U) * c
  BY <1>2, <1>6
<1>8. Cardinality(U) = Cardinality(T) - 1 /\ Cardinality(T) \in Nat
  BY <1>3, <1>5, FS_RemoveElement, FS_CardinalityType
<1>9. SumOn(f, T) = f[x] + SumOn(f, U) /\ f[x] = c
  <2>1. \A y \in T : f[y] \in Int /\ f[y] = c
    BY <1>3
  <2> QED
    BY <1>3, <1>5, <2>1, SumSplit
<1> HIDE DEF U
<1>10. PICK m \in Nat : m = Cardinality(T)
  BY <1>8
<1>11. (m - 1) * c = m * c - c /\ m * c \in Int
  OBVIOUS
<1> QED
  BY <1>3, <1>7, <1>8, <1>9, <1>10, <1>11

LEMMA SumUnion ==
  ASSUME NEW f, NEW A, NEW B, IsFiniteSet(A), IsFiniteSet(B), A \cap B = {},
         \A x \in A \cup B : f[x] \in Int
  PROVE  SumOn(f, A \cup B) = SumOn(f, A) + SumOn(f, B)
<1> DEFINE Bad == {T \in SUBSET B : SumOn(f, A \cup T) # SumOn(f, A) + SumOn(f, T)}
<1>1. SUFFICES ASSUME Bad # {} PROVE FALSE
  OBVIOUS
<1>2. PICK T \in Bad : \A U \in Bad : U \subseteq T => U = T
  <2>1. Bad \subseteq SUBSET B
    OBVIOUS
  <2> HIDE DEF Bad
  <2> QED
    BY <1>1, <2>1, MinimalSubset
<1>3. T \in SUBSET B /\ IsFiniteSet(T) /\ SumOn(f, A) \in Int
  BY <1>2, FS_Subset, SumType
<1>4. T # {}
  <2>1. SumOn(f, {}) = 0
    BY SumEmpty
  <2>2. SumOn(f, A \cup T) # SumOn(f, A) + SumOn(f, T)
    BY <1>2
  <2>3. T = {} => SumOn(f, A \cup T) = SumOn(f, A) /\ SumOn(f, T) = 0
    <3>1. T = {} => A \cup T = A
      OBVIOUS
    <3> QED
      BY <2>1, <3>1, Zenon
  <2> QED
    BY <1>3, <2>2, <2>3
<1>5. PICK x \in T : TRUE
  BY <1>4
<1> DEFINE U == T \ {x}
<1>6. /\ IsFiniteSet(U) /\ U \in SUBSET B /\ U \subseteq T /\ U # T
      /\ x \in A \cup T /\ (A \cup T) \ {x} = A \cup U
      /\ IsFiniteSet(A \cup T)
      /\ \A y \in A \cup T : f[y] \in Int
  <2>1. IsFiniteSet(U)
    BY <1>3, FS_Subset
  <2>2. IsFiniteSet(A \cup T)
    BY <1>3, FS_Union
  <2>3. x \notin A
    BY <1>3, <1>5
  <2> QED
    BY <1>3, <1>5, <2>1, <2>2, <2>3
<1>7. SumOn(f, A \cup U) = SumOn(f, A) + SumOn(f, U)
  BY <1>2, <1>6
<1>8. SumOn(f, A \cup T) = f[x] + SumOn(f, A \cup U)
  <2>1. SumOn(f, A \cup T) = f[x] + SumOn(f, (A \cup T) \ {x})
    BY <1>6, SumSplit
  <2> QED
    BY <1>6, <2>1
<1>9. SumOn(f, T) = f[x] + SumOn(f, U)
  BY <1>3, <1>5, SumSplit
<1>10. f[x] \in Int /\ SumOn(f, U) \in Int
  BY <1>3, <1>5, <1>6, SumType
<1>11. SumOn(f, A \cup T) # SumOn(f, A) + SumOn(f, T)
  BY <1>2
<1> HIDE DEF U, Bad
<1> QED
  BY <1>3, <1>7, <1>8, <1>9, <1>10, <1>11

LEMMA SumScale ==
  ASSUME NEW f, NEW g, NEW S, IsFiniteSet(S), NEW a \in Int,
         \A x \in S : f[x] \in Int /\ g[x] = a * f[x]
  PROVE  SumOn(g, S) = a * SumOn(f, S)
<1> DEFINE Bad == {T \in SUBSET S : SumOn(g, T) # a * SumOn(f, T)}
<1>1. SUFFICES ASSUME Bad # {} PROVE FALSE
  OBVIOUS
<1>2. PICK T \in Bad : \A U \in Bad : U \subseteq T => U = T
  <2>1. Bad \subseteq SUBSET S
    OBVIOUS
  <2> HIDE DEF Bad
  <2> QED
    BY <1>1, <2>1, MinimalSubset
<1>3. T \in SUBSET S /\ IsFiniteSet(T) /\ SumOn(g, T) # a * SumOn(f, T)
  BY <1>2, FS_Subset
<1>4. T # {}
  <2>1. SumOn(f, {}) = 0 /\ SumOn(g, {}) = 0
    BY SumEmpty
  <2>2. a * 0 = 0
    OBVIOUS
  <2> QED
    BY <1>3, <2>1, <2>2
<1>5. PICK x \in T : TRUE
  BY <1>4
<1> DEFINE U == T \ {x}
<1>6. IsFiniteSet(U) /\ U \in SUBSET S /\ U \subseteq T /\ U # T
  BY <1>3, <1>5, FS_Subset
<1>7. SumOn(g, U) = a * SumOn(f, U)
  BY <1>2, <1>6
<1>8. /\ \A y \in T : f[y] \in Int /\ g[y] \in Int
      /\ f[x] \in Int /\ g[x] = a * f[x]
  <2>1. \A y \in T : f[y] \in Int /\ g[y] = a * f[y]
    BY <1>3
  <2>2. \A y \in T : f[y] \in Int => a * f[y] \in Int
    OBVIOUS
  <2> QED
    BY <1>5, <2>1, <2>2
<1>9. SumOn(f, T) = f[x] + SumOn(f, U) /\ SumOn(g, T) = g[x] + SumOn(g, U)
  BY <1>3, <1>5, <1>8, SumSplit
<1>10. SumOn(f, U) \in Int
  BY <1>6, <1>8, SumType
<1> HIDE DEF U
<1>11. PICK u \in Int, y \in Int : u = SumOn(f, U) /\ y = f[x]
  BY <1>8, <1>10
<1>12. a * (y + u) = a * y + a * u
  OBVIOUS
<1> QED
  BY <1>3, <1>7, <1>8, <1>9, <1>11, <1>12

\* A sum may be taken class by class.
Fiber(P, h, q) == {p \in P : h[p] = q}

LEMMA SumFibers ==
  ASSUME NEW f, NEW P, IsFiniteSet(P), \A p \in P : f[p] \in Int,
         NEW Q, IsFiniteSet(Q), NEW h \in [P -> Q],
         NEW g, \A q \in Q : g[q] = SumOn(f, Fiber(P, h, q))
  PROVE  SumOn(f, P) = SumOn(g, Q)
<1> DEFINE Over(T) == {p \in P : h[p] \in T}
           Bad == {T \in SUBSET Q : SumOn(f, Over(T)) # SumOn(g, T)}
<1>0. Over(Q) = P
  OBVIOUS
<1>1. SUFFICES ASSUME Bad # {} PROVE FALSE
  BY <1>0
<1>2. PICK T \in Bad : \A U \in Bad : U \subseteq T => U = T
  <2>1. Bad \subseteq SUBSET Q
    OBVIOUS
  <2> HIDE DEF Bad
  <2> QED
    BY <1>1, <2>1, MinimalSubset
<1>3. T \in SUBSET Q /\ IsFiniteSet(T) /\ SumOn(f, Over(T)) # SumOn(g, T)
  BY <1>2, FS_Subset
<1>4. T # {}
  <2>1. SumOn(f, {}) = 0 /\ SumOn(g, {}) = 0
    BY SumEmpty
  <2>2. Over({}) = {}
    OBVIOUS
  <2> QED
    BY <1>3, <2>1, <2>2
<1>5. PICK q \in T : TRUE
  BY <1>4
<1> DEFINE U == T \ {q}
<1>6. IsFiniteSet(U) /\ U \in SUBSET Q /\ U \subseteq T /\ U # T
  BY <1>3, <1>5, FS_Subset
<1>7. SumOn(f, Over(U)) = SumOn(g, U)
  BY <1>2, <1>6
<1>8. /\ Over(T) = Over(U) \cup Over({q}) /\ Over(U) \cap Over({q}) = {}
      /\ Over({q}) = Fiber(P, h, q)
  BY <1>5 DEF Fiber
<1>9. IsFiniteSet(Over(U)) /\ IsFiniteSet(Over({q}))
  <2>1. Over(U) \in SUBSET P /\ Over({q}) \in SUBSET P
    OBVIOUS
  <2> HIDE DEF Over
  <2> QED
    BY <2>1, FS_Subset
<1>10. \A y \in T : g[y] \in Int
  <2> SUFFICES ASSUME NEW y \in T PROVE g[y] \in Int
    OBVIOUS
  <2> DEFINE F == Fiber(P, h, y)
  <2>1. F \in SUBSET P /\ g[y] = SumOn(f, F)
    BY <1>3 DEF Fiber
  <2> HIDE DEF F
  <2>2. IsFiniteSet(F) /\ \A p \in F : f[p] \in Int
    BY <2>1, FS_Subset
  <2> QED
    BY <2>1, <2>2, SumType
<1>11. SumOn(g, T) = g[q] + SumOn(g, U)
  BY <1>3, <1>5, <1>10, SumSplit
<1>12. g[q] = SumOn(f, Over({q}))
  BY <1>3, <1>5, <1>8
<1>13. \A p \in Over(U) \cup Over({q}) : f[p] \in Int
  OBVIOUS
<1> HIDE DEF Over, U, Bad
<1> DEFINE A == Over(U)
           B == Over({q})
<1>14. SumOn(f, Over(T)) = SumOn(f, Over(U)) + SumOn(f, Over({q}))
  <2>1. Over(T) = A \cup B /\ A \cap B = {} /\ IsFiniteSet(A) /\ IsFiniteSet(B)
    BY <1>8, <1>9
  <2>2. \A p \in A \cup B : f[p] \in Int
    BY <1>13
  <2> HIDE DEF A, B
  <2>3. SumOn(f, A \cup B) = SumOn(f, A) + SumOn(f, B)
    BY <2>1, <2>2, SumUnion
  <2> QED
    BY <2>1, <2>3 DEF A, B
<1>15. SumOn(f, Over(U)) \in Int /\ SumOn(f, Over({q})) \in Int
  BY <1>9, <1>13, SumType
<1> QED
  BY <1>3, <1>7, <1>11, <1>12, <1>14, <1>15

LEMMA SumNatural ==
  ASSUME NEW f, NEW S, IsFiniteSet(S), \A x \in S : f[x] \in Nat
  PROVE  SumOn(f, S) \in Nat
<1> DEFINE Bad == {T \in SUBSET S : SumOn(f, T) \notin Nat}
<1>1. SUFFICES ASSUME Bad # {} PROVE FALSE
  OBVIOUS
<1>2. PICK T \in Bad : \A U \in Bad : U \subseteq T => U = T
  <2>1. Bad \subseteq SUBSET S
    OBVIOUS
  <2> HIDE DEF Bad
  <2> QED
    BY <1>1, <2>1, MinimalSubset
<1>3. T \in SUBSET S /\ IsFiniteSet(T) /\ SumOn(f, T) \notin Nat
  BY <1>2, FS_Subset
<1>4. T # {}
  BY <1>3, SumEmpty
<1>5. PICK x \in T : TRUE
  BY <1>4
<1>6. SumOn(f, T \ {x}) \in Nat /\ f[x] \in Nat
  BY <1>2, <1>3, <1>5
<1>7. SumOn(f, T) = f[x] + SumOn(f, T \ {x})
  <2>1. \A y \in T : f[y] \in Int
    BY <1>3
  <2> QED
    BY <1>3, <1>5, <2>1, SumSplit
<1> QED
  BY <1>3, <1>6, <1>7

LEMMA SumAdd ==
  ASSUME NEW f, NEW g, NEW h, NEW S, IsFiniteSet(S),
         \A x \in S : f[x] \in Int /\ g[x] \in Int /\ h[x] = f[x] + g[x]
  PROVE  SumOn(h, S) = SumOn(f, S) + SumOn(g, S)
<1> DEFINE Bad == {T \in SUBSET S : SumOn(h, T) # SumOn(f, T) + SumOn(g, T)}
<1>1. SUFFICES ASSUME Bad # {} PROVE FALSE
  OBVIOUS
<1>2. PICK T \in Bad : \A U \in Bad : U \subseteq T => U = T
  <2>1. Bad \subseteq SUBSET S
    OBVIOUS
  <2> HIDE DEF Bad
  <2> QED
    BY <1>1, <2>1, MinimalSubset
<1>3. T \in SUBSET S /\ IsFiniteSet(T) /\ SumOn(h, T) # SumOn(f, T) + SumOn(g, T)
  BY <1>2, FS_Subset
<1>4. T # {}
  <2>1. SumOn(f, {}) = 0 /\ SumOn(g, {}) = 0 /\ SumOn(h, {}) = 0
    BY SumEmpty
  <2> QED
    BY <1>3, <2>1
<1>5. PICK x \in T : TRUE
  BY <1>4
<1> DEFINE U == T \ {x}
<1>6. IsFiniteSet(U) /\ U \in SUBSET S /\ U \subseteq T /\ U # T
  BY <1>3, <1>5, FS_Subset
<1>7. SumOn(h, U) = SumOn(f, U) + SumOn(g, U)
  BY <1>2, <1>6
<1>8. \A y \in T : f[y] \in Int /\ g[y] \in Int /\ h[y] \in Int /\ h[y] = f[y] + g[y]
  BY <1>3
<1>9. /\ SumOn(f, T) = f[x] + SumOn(f, U)
      /\ SumOn(g, T) = g[x] + SumOn(g, U)
      /\ SumOn(h, T) = h[x] + SumOn(h, U)
  BY <1>3, <1>5, <1>8, SumSplit
<1>10. SumOn(f, U) \in Int /\ SumOn(g, U) \in Int
  BY <1>6, <1>8, SumType
<1> HIDE DEF U
<1> QED
  BY <1>3, <1>5, <1>7, <1>8, <1>9, <1>10

\* Numbers that are not negative add up to zero only if all are zero.
LEMMA SumZero ==
  ASSUME NEW f, NEW S, IsFiniteSet(S), \A x \in S : f[x] \in Nat
  PROVE  SumOn(f, S) = 0 <=> \A x \in S : f[x] = 0
<1>1. ASSUME SumOn(f, S) = 0, NEW x \in S PROVE f[x] = 0
  <2>1. SumOn(f, S) = f[x] + SumOn(f, S \ {x})
    BY SumSplit
  <2>2. SumOn(f, S \ {x}) \in Nat
    BY FS_Subset, SumNatural
  <2> QED
    BY <1>1, <2>1, <2>2
<1>2. ASSUME \A x \in S : f[x] = 0 PROVE SumOn(f, S) = 0
  <2>1. SumOn(f, S) = Cardinality(S) * 0
    BY <1>2, SumConstant
  <2> QED
    BY <2>1, FS_CardinalityType
<1> QED
  BY <1>1, <1>2

\* A sum of squares.
SquareSolves(g, f, S) ==
  g = [s \in SUBSET S |-> IF s = {} THEN 0 ELSE f[OneOf(s)] * f[OneOf(s)] + g[s \ {OneOf(s)}]]

LEMMA SquareSumIsSum ==
  ASSUME NEW f, NEW S, IsFiniteSet(S), NEW w, \A x \in S : w[x] = f[x] * f[x]
  PROVE  MapThenSumSet(LAMBDA x : f[x] * f[x], S) = SumOn(w, S)
<1> DEFINE h == CHOOSE g : SquareSolves(g, f, S)
<1>1. MapThenSumSet(LAMBDA x : f[x] * f[x], S) = h[S]
  BY Zenon DEF MapThenSumSet, MapThenFoldSet, SquareSolves, OneOf
<1>2. ASSUME NEW g PROVE SquareSolves(g, f, S) <=> Solves(g, w, S)
  <2>1. ASSUME NEW s \in SUBSET S, s # {} PROVE f[OneOf(s)] * f[OneOf(s)] = w[OneOf(s)]
    BY <2>1, OneOfIn
  <2>2. ASSUME NEW s \in SUBSET S
        PROVE  (IF s = {} THEN 0 ELSE f[OneOf(s)] * f[OneOf(s)] + g[s \ {OneOf(s)}])
                 = (IF s = {} THEN 0 ELSE w[OneOf(s)] + g[s \ {OneOf(s)}])
    BY <2>1, Zenon
  <2>3. [s \in SUBSET S |-> IF s = {} THEN 0 ELSE f[OneOf(s)] * f[OneOf(s)] + g[s \ {OneOf(s)}]]
          = [s \in SUBSET S |-> IF s = {} THEN 0 ELSE w[OneOf(s)] + g[s \ {OneOf(s)}]]
    BY <2>2, Zenon
  <2> QED
    BY <2>3, Zenon DEF SquareSolves, Solves
<1>3. Solves(Solution(w, S), w, S)
  BY SolutionExists
<1>4. SquareSolves(h, f, S)
  <2>1. \E g : SquareSolves(g, f, S)
    BY <1>2, <1>3, Zenon
  <2> QED
    BY <2>1, Zenon
<1> HIDE DEF h
<1>5. Solves(h, w, S)
  BY <1>2, <1>4
<1>6. h[S] = Solution(w, S)[S]
  <2>1. \A s \in SUBSET S : h[s] = Solution(w, S)[s]
    BY <1>3, <1>5, SolutionsAgree
  <2> QED
    BY <2>1
<1> QED
  BY <1>1, <1>6 DEF SumOn

\* The variance of n numbers: never negative, and zero for equal ones only.
LEMMA Variance ==
  ASSUME NEW c, NEW S, IsFiniteSet(S), NEW n \in Nat \ {0}, n = Cardinality(S),
         \A x \in S : c[x] \in Nat,
         NEW sq, \A x \in S : sq[x] = c[x] * c[x],
         NEW a \in Int, a = SumOn(c, S), NEW b \in Int, b = SumOn(sq, S)
  PROVE  /\ n * b - a * a >= 0
         /\ n * b - a * a = 0 <=> \A x \in S : n * c[x] = a
<1> DEFINE d  == [x \in S |-> (n * c[x] - a) * (n * c[x] - a)]
           e1 == [x \in S |-> (n * n) * sq[x]]
           e2 == [x \in S |-> (-(2 * n * a)) * c[x]]
           e3 == [x \in S |-> a * a]
           e  == [x \in S |-> e1[x] + e2[x]]
<1>1. ASSUME NEW x \in S
      PROVE  /\ c[x] \in Int /\ sq[x] \in Int
             /\ e1[x] = (n * n) * sq[x] /\ e2[x] = (-(2 * n * a)) * c[x] /\ e3[x] = a * a
             /\ e1[x] \in Int /\ e2[x] \in Int /\ e3[x] \in Int
             /\ e[x] = e1[x] + e2[x] /\ e[x] \in Int
  <2>1. PICK y \in Int : y = c[x] /\ sq[x] = y * y
    OBVIOUS
  <2>2. /\ e1[x] = (n * n) * sq[x] /\ e2[x] = (-(2 * n * a)) * c[x] /\ e3[x] = a * a
        /\ e[x] = e1[x] + e2[x]
    OBVIOUS
  <2>3. (n * n) * (y * y) \in Int /\ (-(2 * n * a)) * y \in Int /\ a * a \in Int /\ y * y \in Int
    OBVIOUS
  <2> HIDE DEF e, e1, e2, e3
  <2> QED
    BY <2>1, <2>2, <2>3
<1>2. ASSUME NEW x \in S
      PROVE  d[x] = e[x] + e3[x] /\ d[x] \in Nat /\ (d[x] = 0 <=> n * c[x] = a)
  <2>1. PICK y \in Int : y = c[x] /\ sq[x] = y * y
    OBVIOUS
  <2>2. d[x] = (n * y - a) * (n * y - a)
    BY <2>1
  <2>3. (n * y - a) * (n * y - a) = (n * n) * (y * y) + (-(2 * n * a)) * y + a * a
    OBVIOUS
  <2>4. \A z \in Int : z * z \in Nat /\ (z * z = 0 <=> z = 0)
    OBVIOUS
  <2>5. n * y - a \in Int /\ (n * y - a = 0 <=> n * y = a)
    OBVIOUS
  <2> HIDE DEF d, e, e1, e2, e3
  <2>6. e[x] + e3[x] = (n * n) * (y * y) + (-(2 * n * a)) * y + a * a
    BY <1>1, <2>1
  <2>7. d[x] \in Nat /\ (d[x] = 0 <=> n * y = a)
    BY <2>2, <2>4, <2>5
  <2> QED
    BY <2>1, <2>2, <2>3, <2>6, <2>7
<1> HIDE DEF d, e, e1, e2, e3
<1>3. SumOn(e1, S) = (n * n) * b
  <2>1. PICK k \in Int : k = n * n
    OBVIOUS
  <2>2. \A x \in S : sq[x] \in Int /\ e1[x] = k * sq[x]
    BY <1>1, <2>1
  <2>3. SumOn(e1, S) = k * SumOn(sq, S)
    BY <2>2, SumScale
  <2> QED
    BY <2>1, <2>3
<1>4. SumOn(e2, S) = (-(2 * n * a)) * a
  BY <1>1, SumScale
<1>5. SumOn(e3, S) = n * (a * a)
  BY <1>1, SumConstant
<1>6. SumOn(e, S) = SumOn(e1, S) + SumOn(e2, S)
  BY <1>1, SumAdd
<1>7. SumOn(d, S) = SumOn(e, S) + SumOn(e3, S)
  BY <1>1, <1>2, SumAdd
<1>8. SumOn(d, S) = n * (n * b - a * a)
  <2>1. (n * n) * b + (-(2 * n * a)) * a + n * (a * a) = n * (n * b - a * a)
    OBVIOUS
  <2> QED
    BY <1>3, <1>4, <1>5, <1>6, <1>7, <2>1
<1>9. SumOn(d, S) \in Nat /\ (SumOn(d, S) = 0 <=> \A x \in S : d[x] = 0)
  BY <1>2, SumNatural, SumZero
<1>10. PICK v \in Int : v = n * b - a * a
  OBVIOUS
<1>11. n * v >= 0 => v >= 0
  OBVIOUS
<1>12. n * v = 0 <=> v = 0
  OBVIOUS
<1>13. n * v \in Nat /\ (n * v = 0 <=> \A x \in S : d[x] = 0)
  BY <1>8, <1>9, <1>10
<1> QED
  BY <1>2, <1>10, <1>11, <1>12, <1>13

----------------------------------------------------------------------------
(* Folds over sequences                                                    *)
(*                                                                         *)
(* FoldLeft is a recursive function on the sets of positions, which takes  *)
(* the last position off.  Its turn is here a function of a state and an   *)
(* element; an operator agrees with such a function on its states.         *)

\* The maximum of a non-empty finite set of positions is one of them.
LEMMA MaxIn ==
  ASSUME NEW S, IsFiniteSet(S), S \subseteq Nat, NEW s \in SUBSET S, s # {}
  PROVE  Max(s) \in s /\ (\A x \in s : x <= Max(s)) /\ s \ {Max(s)} \in SUBSET S /\ s \ {Max(s)} # s
<1> DEFINE Topped(t) == \E m \in t : \A x \in t : x <= m
           Bad == {t \in SUBSET S : t # {} /\ ~Topped(t)}
<1>1. Bad = {}
  <2> SUFFICES ASSUME Bad # {} PROVE FALSE
    OBVIOUS
  <2>1. PICK t \in Bad : \A u \in Bad : u \subseteq t => u = t
    <3>1. Bad \subseteq SUBSET S
      OBVIOUS
    <3> HIDE DEF Bad
    <3> QED
      BY ONLY IsFiniteSet(S), Bad # {}, <3>1, MinimalSubset
  <2>2. PICK x \in t : x \in Nat
    BY <2>1
  <2>3. CASE t \ {x} = {}
    <3>1. t = {x}
      BY <2>2, <2>3
    <3>2. Topped(t)
      BY <2>2, <3>1
    <3> QED
      BY <2>1, <3>2
  <2>4. CASE t \ {x} # {}
    <3>1. Topped(t \ {x})
      <4>1. t \ {x} \in SUBSET S /\ t \ {x} # t
        BY <2>1, <2>2
      <4>2. t \ {x} \notin Bad
        BY <2>1, <4>1
      <4> QED
        BY <2>4, <4>1, <4>2
    <3>2. PICK m \in t \ {x} : \A y \in t \ {x} : y <= m
      BY <3>1
    <3>3. m \in Nat /\ t \subseteq Nat
      BY <2>1, <3>2
    <3>4. Topped(t)
      <4>1. CASE m <= x
        BY <2>2, <3>2, <3>3, <4>1
      <4>2. CASE x <= m
        BY <2>2, <3>2, <3>3, <4>2
      <4> QED
        BY <2>2, <3>3, <4>1, <4>2
    <3> QED
      BY <2>1, <3>4
  <2> QED
    BY <2>3, <2>4
<1>2. \E m \in s : \A x \in s : m >= x
  <2>1. Topped(s)
    BY <1>1
  <2> QED
    BY <2>1
<1>3. Max(s) \in s /\ \A x \in s : Max(s) >= x
  BY <1>2 DEF Max
<1> QED
  BY <1>3

\* A function that satisfies the recursive equation of the fold.
Turns(g, T, base, f, S) ==
  g = [s \in SUBSET S |-> IF s = {} THEN base ELSE T[<<g[s \ {Max(s)}], f[Max(s)]>>]]
Turning(T, base, f, S) == CHOOSE g : Turns(g, T, base, f, S)

\* Sets of positions.
Positions(S) == IsFiniteSet(S) /\ S \subseteq Nat

\* The equation, set by set.
LEMMA TurnsAt ==
  ASSUME NEW T, NEW base, NEW f, NEW S, NEW g, Turns(g, T, base, f, S), NEW s \in SUBSET S
  PROVE  g[s] = IF s = {} THEN base ELSE T[<<g[s \ {Max(s)}], f[Max(s)]>>]
<1> DEFINE e == [u \in SUBSET S |-> IF u = {} THEN base ELSE T[<<g[u \ {Max(u)}], f[Max(u)]>>]]
<1>1. g = e
  BY Zenon DEF Turns
<1>2. e[s] = IF s = {} THEN base ELSE T[<<g[s \ {Max(s)}], f[Max(s)]>>]
  BY Zenon
<1> HIDE DEF e
<1> QED
  BY <1>1, <1>2, Zenon

\* What is left without the last position.
LEMMA WithoutLast ==
  ASSUME NEW S, Positions(S), NEW s \in SUBSET S, s # {}
  PROVE  /\ Max(s) \in s /\ Max(s) \in S
         /\ s \ {Max(s)} \in SUBSET S /\ s \ {Max(s)} \subseteq s /\ s \ {Max(s)} # s
<1>1. Max(s) \in s /\ s \ {Max(s)} \in SUBSET S /\ s \ {Max(s)} # s
  BY MaxIn DEF Positions
<1> QED
  BY <1>1

\* Solutions of the equation agree where both are defined.
LEMMA TurnsAgree ==
  ASSUME NEW T, NEW base, NEW f, NEW S, Positions(S), NEW U \in SUBSET S,
         NEW g, Turns(g, T, base, f, S), NEW h, Turns(h, T, base, f, U)
  PROVE  \A s \in SUBSET U : g[s] = h[s]
<1> DEFINE Bad == {s \in SUBSET U : g[s] # h[s]}
<1>1. SUFFICES ASSUME Bad # {} PROVE FALSE
  OBVIOUS
<1>2. Bad \subseteq SUBSET S
  OBVIOUS
<1>3. PICK m \in Bad : \A u \in Bad : u \subseteq m => u = m
  <2>1. IsFiniteSet(S)
    BY DEF Positions
  <2> HIDE DEF Bad
  <2> QED
    BY ONLY <2>1, <1>1, <1>2, MinimalSubset
<1>4. m \in SUBSET S /\ m \in SUBSET U
  BY <1>3
<1>5. /\ g[m] = IF m = {} THEN base ELSE T[<<g[m \ {Max(m)}], f[Max(m)]>>]
      /\ h[m] = IF m = {} THEN base ELSE T[<<h[m \ {Max(m)}], f[Max(m)]>>]
  BY <1>4, TurnsAt
<1>6. m # {}
  BY <1>3, <1>5
<1>7. m \ {Max(m)} \subseteq m /\ m \ {Max(m)} # m
  BY <1>4, <1>6, WithoutLast
<1>8. g[m \ {Max(m)}] = h[m \ {Max(m)}]
  BY <1>3, <1>7
<1> QED
  BY <1>3, <1>5, <1>6, <1>8

\* There is one: a least set on which there is none has solutions on all its
\* subsets, and one turn more makes a solution of them.
LEMMA TurningExists ==
  ASSUME NEW T, NEW base, NEW f, NEW S, Positions(S)
  PROVE  Turns(Turning(T, base, f, S), T, base, f, S)
<1> DEFINE R(s) == Turning(T, base, f, s)
           Has(s) == Turns(R(s), T, base, f, s)
           Bad == {U \in SUBSET S : ~Has(U)}
<1>1. SUFFICES ASSUME Bad # {} PROVE FALSE
  OBVIOUS
<1>2. PICK U \in Bad : \A V \in Bad : V \subseteq U => V = U
  <2>1. Bad \subseteq SUBSET S
    OBVIOUS
  <2>2. IsFiniteSet(S)
    BY DEF Positions
  <2> HIDE DEF Bad
  <2> QED
    BY ONLY <2>2, <1>1, <2>1, MinimalSubset
<1>3. U \in SUBSET S /\ ~Has(U) /\ Positions(U)
  BY <1>2, FS_Subset DEF Positions
<1>4. \A V \in SUBSET U : V # U => Has(V) /\ Positions(V)
  BY <1>2, <1>3, FS_Subset DEF Positions
<1> DEFINE less(s) == s \ {Max(s)}
           g == [s \in SUBSET U |-> IF s = {} THEN base ELSE T[<<R(less(s))[less(s)], f[Max(s)]>>]]
<1>5. ASSUME NEW s \in SUBSET U, s # {}
      PROVE  less(s) \in SUBSET U /\ less(s) \in SUBSET s /\ less(s) # U
  BY <1>3, <1>5, WithoutLast
<1> HIDE DEF Has
<1>6. \A s \in SUBSET U : s # U => g[s] = R(s)[s]
  <2> SUFFICES ASSUME NEW s \in SUBSET U, s # U
               PROVE  g[s] = R(s)[s]
    OBVIOUS
  <2>1. Turns(R(s), T, base, f, s) /\ Positions(s)
    BY <1>4 DEF Has
  <2>2. R(s)[s] = IF s = {} THEN base ELSE T[<<R(s)[less(s)], f[Max(s)]>>]
    <3> HIDE DEF R
    <3> QED
      BY <2>1, TurnsAt
  <2>3. ASSUME s # {} PROVE R(s)[less(s)] = R(less(s))[less(s)]
    <3>1. less(s) \in SUBSET s /\ Turns(R(less(s)), T, base, f, less(s))
      BY <1>4, <1>5, <2>3 DEF Has
    <3> HIDE DEF R, less
    <3>2. \A u \in SUBSET less(s) : R(s)[u] = R(less(s))[u]
      BY <2>1, <3>1, TurnsAgree
    <3> QED
      BY <3>2
  <2>4. g[s] = IF s = {} THEN base ELSE T[<<R(less(s))[less(s)], f[Max(s)]>>]
    OBVIOUS
  <2> HIDE DEF R, g, less
  <2> QED
    BY <2>2, <2>3, <2>4
<1>7. Turns(g, T, base, f, U)
  <2>1. \A s \in SUBSET U : s # {} => g[less(s)] = R(less(s))[less(s)]
    <3> HIDE DEF g, R, less
    <3> QED
      BY <1>5, <1>6
  <2>2. \A s \in SUBSET U : g[s] = IF s = {} THEN base ELSE T[<<g[less(s)], f[Max(s)]>>]
    BY <2>1
  <2>3. g = [s \in SUBSET U |-> g[s]]
    OBVIOUS
  <2> HIDE DEF g
  <2> QED
    BY <2>2, <2>3 DEF Turns
<1>8. Has(U)
  BY <1>7 DEF Has, Turning
<1> QED
  BY <1>3, <1>8

\* If turns lead from states to states, a solution has only states.
LEMMA TurningType ==
  ASSUME NEW St, NEW Rec, NEW T \in [St \X Rec -> St], NEW base \in St,
         NEW S, Positions(S), NEW f, \A i \in S : f[i] \in Rec,
         NEW g, Turns(g, T, base, f, S)
  PROVE  \A s \in SUBSET S : g[s] \in St
<1> DEFINE Bad == {s \in SUBSET S : g[s] \notin St}
<1>1. SUFFICES ASSUME Bad # {} PROVE FALSE
  OBVIOUS
<1>2. PICK m \in Bad : \A u \in Bad : u \subseteq m => u = m
  <2>1. IsFiniteSet(S) /\ Bad \subseteq SUBSET S
    BY DEF Positions
  <2> HIDE DEF Bad
  <2> QED
    BY ONLY <2>1, <1>1, MinimalSubset
<1>3. m \in SUBSET S /\ g[m] \notin St
  BY <1>2
<1>4. g[m] = IF m = {} THEN base ELSE T[<<g[m \ {Max(m)}], f[Max(m)]>>]
  BY <1>3, TurnsAt
<1>5. m # {}
  BY <1>3, <1>4
<1>6. /\ m \ {Max(m)} \in SUBSET S /\ m \ {Max(m)} \subseteq m /\ m \ {Max(m)} # m
      /\ Max(m) \in S
  BY <1>3, <1>5, WithoutLast
<1>7. g[m \ {Max(m)}] \in St /\ f[Max(m)] \in Rec
  BY <1>2, <1>6
<1> QED
  BY <1>3, <1>4, <1>5, <1>7

\* What the proofs need of a solution whose turns lead from states to states.
Solved(g, St, Rec, T, base, f, S) ==
  /\ g = [s \in SUBSET S |-> g[s]]
  /\ \A s \in SUBSET S : g[s] \in St
  /\ \A s \in SUBSET S : g[s] = IF s = {} THEN base ELSE T[<<g[s \ {Max(s)}], f[Max(s)]>>]
  /\ \A s \in SUBSET S : s # {} => g[s \ {Max(s)}] \in St /\ f[Max(s)] \in Rec

LEMMA SolvedExists ==
  ASSUME NEW St, NEW Rec, NEW T \in [St \X Rec -> St], NEW base \in St,
         NEW S, Positions(S), NEW f, \A i \in S : f[i] \in Rec
  PROVE  \E g : Solved(g, St, Rec, T, base, f, S)
<1>1. PICK g : Turns(g, T, base, f, S)
  BY TurningExists
<1>2. g = [s \in SUBSET S |-> g[s]]
  BY <1>1 DEF Turns
<1>3. \A s \in SUBSET S : g[s] \in St
  BY <1>1, TurningType
<1>4. \A s \in SUBSET S : g[s] = IF s = {} THEN base ELSE T[<<g[s \ {Max(s)}], f[Max(s)]>>]
  BY <1>1, TurnsAt
<1>5. \A s \in SUBSET S : s # {} => g[s \ {Max(s)}] \in St /\ f[Max(s)] \in Rec
  BY <1>3, WithoutLast
<1> QED
  BY <1>2, <1>3, <1>4, <1>5 DEF Solved

\* The first n + 1 positions are the first n and one more.
LEMMA LastOfFirst ==
  ASSUME NEW n \in Nat
  PROVE  Max(1..(n + 1)) = n + 1 /\ (1..(n + 1)) \ {n + 1} = 1..n /\ 1..(n + 1) # {}
<1> DEFINE S == 1..(n + 1)
<1>1. n + 1 \in S /\ S \subseteq Nat /\ S # {}
  <2>1. n + 1 \in S /\ S \subseteq Nat
    OBVIOUS
  <2> HIDE DEF S
  <2> QED
    BY <2>1
<1>2. IsFiniteSet(S) /\ S \in SUBSET S
  BY FS_Interval
<1>3. Max(S) \in S /\ \A x \in S : x <= Max(S)
  <2> HIDE DEF S
  <2> QED
    BY <1>1, <1>2, MaxIn
<1>4. Max(S) = n + 1
  BY <1>1, <1>3
<1> QED
  BY <1>4

\* A fold as a run: the state after n elements, for every n.
RunOver(r, St, T, base, f, N) ==
  /\ r \in [0..N -> St]
  /\ r[0] = base
  /\ \A n \in 0..(N - 1) : r[n + 1] = T[<<r[n], f[n + 1]>>]

LEMMA RunExists ==
  ASSUME NEW St, NEW Rec, NEW T \in [St \X Rec -> St], NEW base \in St,
         NEW N \in Nat, NEW f, \A i \in 1..N : f[i] \in Rec
  PROVE  \E r : RunOver(r, St, T, base, f, N)
<1> DEFINE S == 1..N
<1>1. Positions(S)
  BY FS_Interval DEF Positions
<1>2. PICK g : Solved(g, St, Rec, T, base, f, S)
  BY <1>1, SolvedExists
<1>3. \A s \in SUBSET S : g[s] \in St
  BY <1>2 DEF Solved
<1> DEFINE r == [n \in 0..N |-> g[1..n]]
<1>4. r \in [0..N -> St]
  BY <1>3
<1> HIDE DEF S
<1>5. \A s \in SUBSET S : g[s] = IF s = {} THEN base ELSE T[<<g[s \ {Max(s)}], f[Max(s)]>>]
  BY <1>2 DEF Solved
<1>6. ASSUME NEW n \in 0..(N - 1) PROVE g[1..(n + 1)] = T[<<g[1..n], f[n + 1]>>]
  <2>1. 1..(n + 1) \in SUBSET S /\ n \in Nat
    BY DEF S
  <2> DEFINE s == 1..(n + 1)
  <2>2. Max(s) = n + 1 /\ s \ {n + 1} = 1..n /\ s # {}
    BY <2>1, LastOfFirst
  <2> HIDE DEF s
  <2>3. g[s] = T[<<g[s \ {Max(s)}], f[Max(s)]>>]
    BY <1>5, <2>1, <2>2 DEF s
  <2> QED
    BY <2>2, <2>3 DEF s
<1>7. r[0] = base
  <2>1. 1..0 = {} /\ {} \in SUBSET S
    OBVIOUS
  <2>2. g[{}] = base
    BY <1>5, <2>1
  <2> QED
    BY <2>1, <2>2
<1>8. \A n \in 0..(N - 1) : r[n + 1] = T[<<r[n], f[n + 1]>>]
  BY <1>6
<1> HIDE DEF r
<1>9. RunOver(r, St, T, base, f, N)
  BY <1>4, <1>7, <1>8 DEF RunOver
<1> QED
  BY <1>9

=============================================================================
