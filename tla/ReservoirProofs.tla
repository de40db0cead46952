-------------------------- MODULE ReservoirProofs --------------------------
(***************************************************************************)
(* The figures of a summary are sound whatever the draws of the reservoir  *)
(* were, and the draws keep every set of samples in equally many ways: for *)
(* every sample size, every set of values and every number of samples.     *)
(***************************************************************************)
EXTENDS Reservoir, DataProofs

\* The samples so far are counted.
SeenInv == seen \in Seq(Values) /\ Len(seen) = count

\* The extremes are those of the samples so far.
ExtremesInv ==
  count > 0 => /\ \A i \in 1..count : min <= seen[i] /\ seen[i] <= max
               /\ \E i \in 1..count : seen[i] = min
               /\ \E i \in 1..count : seen[i] = max

\* latencyStats adds every sample to its sum.
SumInv == sampler = "latencyStats" => sum = SumOn(seen, 1..count)

\* The reservoir is full as soon as it can be, holds only samples that were
\* seen, and holds all of them in their order while there is room.
KeptInv ==
  /\ Len(reservoir) = IF count < MaxSamples THEN count ELSE MaxSamples
  /\ \A i \in 1..Len(reservoir) : \E k \in 1..count : reservoir[i] = seen[k]
  /\ count <= MaxSamples => reservoir = seen

IInv == TypeOK /\ SeenInv /\ ExtremesInv /\ SumInv /\ KeptInv

----------------------------------------------------------------------------
(* The invariant is inductive                                              *)

LEMMA ValuesAreNumbers ==
  ASSUME NEW s \in Seq(Values)
  PROVE  s \in Seq(Int) /\ \A i \in 1..Len(s) : s[i] \in Int
<1>1. s \in Seq(Int)
  BY ReservoirAssumption, SeqMonotonic
<1> QED
  BY <1>1, ElementOfSeq

LEMMA InitInv == Init => IInv
<1> SUFFICES ASSUME Init PROVE IInv
  OBVIOUS
<1>1. /\ count = 0 /\ sum = 0 /\ min = 0 /\ max = 0 /\ reservoir = <<>> /\ seen = <<>>
      /\ <<>> \in Seq(Values) /\ Len(<<>>) = 0
  BY EmptySeq DEF Init
<1>2. MaxSamples \in Nat \ {0} /\ MaxCount \in Nat
  BY ReservoirAssumption
<1>3. TypeOK
  BY <1>1, <1>2 DEF TypeOK
<1>4. SumInv
  <2>1. 1..0 = {}
    OBVIOUS
  <2>2. SumOn(seen, {}) = 0
    BY SumCases, FS_EmptySet
  <2> QED
    BY <1>1, <2>1, <2>2 DEF SumInv
<1>5. SeenInv /\ ExtremesInv
  BY <1>1 DEF SeenInv, ExtremesInv
<1>6. KeptInv
  BY <1>1, <1>2 DEF KeptInv
<1> QED
  BY <1>3, <1>4, <1>5, <1>6 DEF IInv

\* What seen is after one more sample.
LEMMA SeenNext ==
  ASSUME IInv, NEW v \in Values, seen' = Append(seen, v)
  PROVE  /\ count \in Nat /\ v \in Int
         /\ seen' \in Seq(Values) /\ Len(seen') = count + 1
         /\ seen'[count + 1] = v
         /\ \A i \in 1..count : seen'[i] = seen[i] /\ seen[i] \in Int
<1>1. seen \in Seq(Values) /\ Len(seen) = count /\ Values \subseteq Int
  BY ReservoirAssumption DEF IInv, SeenInv
<1>2. count \in Nat
  BY <1>1, LenProperties
<1>3. \A i \in 1..count : seen[i] \in Int
  BY <1>1, ValuesAreNumbers
<1>4. v \in Int
  BY <1>1
<1>5. /\ seen' \in Seq(Values) /\ Len(seen') = Len(seen) + 1
      /\ seen'[Len(seen) + 1] = v
      /\ \A i \in 1..Len(seen) : seen'[i] = seen[i]
  BY <1>1, AppendProperties
<1> QED
  BY <1>1, <1>2, <1>3, <1>4, <1>5

LEMMA ExtremesNext ==
  ASSUME IInv, NEW v \in Values, Add(v)
  PROVE  ExtremesInv' /\ min' \in Int /\ max' \in Int
<1>1. /\ count \in Nat /\ v \in Int
      /\ seen'[count + 1] = v
      /\ \A i \in 1..count : seen'[i] = seen[i] /\ seen[i] \in Int
  BY SeenNext DEF Add
<1>2. min \in Int /\ max \in Int /\ count' = count + 1
  BY DEF IInv, TypeOK, Add
<1>3. /\ min' = IF count = 0 \/ v < min THEN v ELSE min
      /\ max' = IF count = 0 \/ v > max THEN v ELSE max
  BY DEF Add, Extremes
<1>4. count + 1 \in 1..(count + 1)
  BY <1>1
<1>5. CASE count = 0
  BY <1>1, <1>2, <1>3, <1>5 DEF ExtremesInv
<1>6. CASE count # 0
  <2>1. PICK lo \in 1..count, hi \in 1..count : seen[lo] = min /\ seen[hi] = max
    BY <1>1, <1>6 DEF IInv, ExtremesInv
  <2>2. \A i \in 1..count : min <= seen[i] /\ seen[i] <= max
    BY <1>1, <1>6 DEF IInv, ExtremesInv
  <2>3. ASSUME NEW i \in 1..(count + 1) PROVE min' <= seen'[i] /\ seen'[i] <= max'
    <3>1. CASE i \in 1..count
      BY <1>1, <1>2, <1>3, <1>6, <2>2, <3>1
    <3>2. CASE i = count + 1
      BY <1>1, <1>2, <1>3, <1>6, <3>2
    <3> QED
      BY <1>1, <3>1, <3>2
  <2>4. \E i \in 1..(count + 1) : seen'[i] = min'
    BY <1>1, <1>3, <1>4, <1>6, <2>1
  <2>5. \E i \in 1..(count + 1) : seen'[i] = max'
    BY <1>1, <1>3, <1>4, <1>6, <2>1
  <2>6. min' \in Int /\ max' \in Int
    BY <1>1, <1>2, <1>3
  <2> QED
    BY <1>2, <2>3, <2>4, <2>5, <2>6 DEF ExtremesInv
<1> QED
  BY <1>5, <1>6

LEMMA KeptNext ==
  ASSUME IInv, NEW v \in Values, Add(v)
  PROVE  KeptInv' /\ reservoir' \in Seq(Values) /\ Len(reservoir') <= MaxSamples
<1>1. /\ count \in Nat /\ v \in Int
      /\ seen'[count + 1] = v
      /\ \A i \in 1..count : seen'[i] = seen[i]
  BY SeenNext DEF Add
<1>2. /\ count' = count + 1 /\ MaxSamples \in Nat \ {0} /\ seen' = Append(seen, v)
      /\ reservoir \in Seq(Values) /\ Len(reservoir) \in Nat
  BY ReservoirAssumption, LenProperties DEF IInv, TypeOK, Add
<1>3. PICK j \in Draws : reservoir' = Store(reservoir, v, j)
  BY DEF Add
<1>4. /\ Len(reservoir) = IF count < MaxSamples THEN count ELSE MaxSamples
      /\ \A i \in 1..Len(reservoir) : \E k \in 1..count : reservoir[i] = seen[k]
      /\ count <= MaxSamples => reservoir = seen
  BY DEF IInv, KeptInv
<1>5. \A i \in 1..Len(reservoir) : \E k \in 1..(count + 1) : reservoir[i] = seen'[k]
  BY <1>1, <1>4
<1>6. count + 1 \in 1..(count + 1)
  BY <1>1
<1>7. CASE count < MaxSamples
  <2>1. Len(reservoir) = count /\ reservoir = seen
    BY <1>1, <1>2, <1>4, <1>7
  <2>2. reservoir' = Append(reservoir, v)
    BY <1>3, <1>7, <2>1 DEF Store
  <2>3. /\ reservoir' \in Seq(Values) /\ Len(reservoir') = count + 1
        /\ reservoir'[count + 1] = v
        /\ \A i \in 1..count : reservoir'[i] = reservoir[i]
    BY <1>2, <2>1, <2>2, AppendProperties
  <2>4. reservoir' = seen'
    BY <1>2, <2>1, <2>2
  <2>5. \A i \in 1..Len(reservoir') : \E k \in 1..count' : reservoir'[i] = seen'[k]
    BY <1>2, <2>3, <2>4
  <2>6. Len(reservoir') = IF count' < MaxSamples THEN count' ELSE MaxSamples
    BY <1>1, <1>2, <1>7, <2>3
  <2>7. Len(reservoir') <= MaxSamples
    BY <1>1, <1>2, <1>7, <2>3
  <2>8. KeptInv'
    BY <2>4, <2>5, <2>6 DEF KeptInv
  <2> QED
    BY <2>3, <2>7, <2>8
<1>8. CASE ~(count < MaxSamples)
  <2>1. Len(reservoir) = MaxSamples
    BY <1>4, <1>8
  <2>2. reservoir' = reservoir \/ reservoir' = [reservoir EXCEPT ![j + 1] = v]
    BY <1>3, <2>1 DEF Store
  <2>3. /\ reservoir' \in Seq(Values) /\ Len(reservoir') = Len(reservoir)
        /\ \A i \in 1..Len(reservoir) : reservoir'[i] = reservoir[i] \/ reservoir'[i] = v
    <3>1. CASE reservoir' = reservoir
      BY <1>2, <3>1
    <3>2. CASE reservoir' = [reservoir EXCEPT ![j + 1] = v]
      <4>1. CASE j + 1 \in 1..Len(reservoir)
        <5>1. /\ [reservoir EXCEPT ![j + 1] = v] \in Seq(Values)
              /\ Len([reservoir EXCEPT ![j + 1] = v]) = Len(reservoir)
              /\ \A i \in 1..Len(reservoir) :
                   [reservoir EXCEPT ![j + 1] = v][i] = IF i = j + 1 THEN v ELSE reservoir[i]
          BY <1>2, <4>1, ExceptSeq
        <5> QED
          BY <3>2, <5>1
      <4>2. CASE j + 1 \notin 1..Len(reservoir)
        <5>1. reservoir' = reservoir
          BY <1>2, <3>2, <4>2, LenProperties
        <5> QED
          BY <1>2, <5>1
      <4> QED
        BY <4>1, <4>2
    <3> QED
      BY <2>2, <3>1, <3>2
  <2>4. \A i \in 1..Len(reservoir') : \E k \in 1..count' : reservoir'[i] = seen'[k]
    BY <1>1, <1>2, <1>5, <1>6, <2>3
  <2>5. ~(count' < MaxSamples) /\ ~(count' <= MaxSamples)
    BY <1>1, <1>2, <1>8
  <2>6. Len(reservoir') = MaxSamples
    BY <2>1, <2>3
  <2>7. KeptInv'
    BY <2>4, <2>5, <2>6 DEF KeptInv
  <2> QED
    BY <1>2, <2>3, <2>6, <2>7
<1> QED
  BY <1>7, <1>8

LEMMA SumNext ==
  ASSUME IInv, NEW v \in Values, LatencyAdd(v) \/ DiffAdd(v)
  PROVE  SumInv' /\ sum' \in Int
<1>1. /\ count \in Nat /\ v \in Int /\ count' = count + 1 /\ sampler' = sampler
      /\ seen'[count + 1] = v
      /\ \A i \in 1..count : seen'[i] = seen[i] /\ seen[i] \in Int
  BY SeenNext DEF LatencyAdd, DiffAdd, Add
<1>2. sum \in Int
  BY DEF IInv, TypeOK
<1>3. CASE DiffAdd(v)
  BY <1>1, <1>2, <1>3 DEF DiffAdd, SumInv
<1>4. CASE LatencyAdd(v)
  <2>1. sampler = "latencyStats" /\ sum' = sum + v /\ sum = SumOn(seen, 1..count)
    BY <1>4 DEF LatencyAdd, IInv, SumInv
  <2> DEFINE S == 1..(count + 1)
  <2>2. IsFiniteSet(S) /\ IsFiniteSet(1..count)
    BY <1>1, InitialSegment
  <2>3. /\ count + 1 \in S /\ S \ {count + 1} = 1..count
        /\ \A i \in S : seen'[i] \in Int
    BY <1>1
  <2> HIDE DEF S
  <2>4. SumOn(seen', S) = seen'[count + 1] + SumOn(seen', S \ {count + 1})
    BY <2>2, <2>3, SumSplit
  <2>5. SumOn(seen', 1..count) = SumOn(seen, 1..count)
    BY <1>1, <2>2, SumCongruence
  <2>6. SumOn(seen', S) = v + sum
    BY <1>1, <2>1, <2>3, <2>4, <2>5
  <2>7. SumOn(seen', 1..count') = sum'
    BY <1>1, <1>2, <2>1, <2>6 DEF S
  <2> QED
    BY <1>1, <1>2, <2>1, <2>7 DEF SumInv
<1> QED
  BY <1>3, <1>4

LEMMA StepInv == IInv /\ [Next]_vars => IInv'
<1> SUFFICES ASSUME IInv, [Next]_vars PROVE IInv'
  OBVIOUS
<1>1. ASSUME count < MaxCount, NEW v \in Values, LatencyAdd(v) \/ DiffAdd(v) PROVE IInv'
  <2>1. Add(v)
    BY <1>1 DEF LatencyAdd, DiffAdd
  <2>2. /\ count \in Nat /\ count' = count + 1 /\ count' \in 0..MaxCount
        /\ seen' \in Seq(Values) /\ Len(seen') = count'
    BY <1>1, <2>1, SeenNext, ReservoirAssumption DEF Add
  <2>3. ExtremesInv' /\ min' \in Int /\ max' \in Int
    BY <2>1, ExtremesNext
  <2>4. KeptInv' /\ reservoir' \in Seq(Values) /\ Len(reservoir') <= MaxSamples
    BY <2>1, KeptNext
  <2>5. SumInv' /\ sum' \in Int
    BY <1>1, SumNext
  <2>6. TypeOK'
    BY <2>2, <2>3, <2>4, <2>5 DEF TypeOK
  <2> QED
    BY <2>2, <2>3, <2>4, <2>5, <2>6 DEF IInv, SeenInv
<1>2. CASE UNCHANGED vars
  BY <1>2 DEF vars, IInv, TypeOK, SeenInv, ExtremesInv, SumInv, KeptInv
<1> QED
  BY <1>1, <1>2 DEF Next, Done

----------------------------------------------------------------------------
(* The figures of the summary                                              *)

\* The place in the sorted reservoir of a percentile below the hundredth.
PlaceOf(p, n) == ((p * n) \div 100) + 1
Percents == {50, 90, 99}

LEMMA PlaceOfType ==
  ASSUME NEW p \in Percents, NEW n \in Nat \ {0}
  PROVE  /\ PlaceOf(p, n) \in 1..n
         /\ (p * n) \div 100 = PlaceOf(p, n) - 1
         /\ 100 * (PlaceOf(p, n) - 1) <= p * n
         /\ 100 * PlaceOf(p, n) > p * n
         /\ p * n \in Nat
BY DEF PlaceOf, Percents

LEMMA PlacesAscend ==
  ASSUME NEW n \in Nat \ {0}
  PROVE  PlaceOf(50, n) <= PlaceOf(90, n) /\ PlaceOf(90, n) <= PlaceOf(99, n)
BY DEF PlaceOf

\* The sorted reservoir.
Kept == SortTimes(reservoir)

LEMMA KeptFacts ==
  ASSUME IInv, count > 0
  PROVE  /\ Kept \in Seq(Int) /\ Len(Kept) = Len(reservoir) /\ Len(Kept) \in Nat \ {0}
         /\ IsAscending(Kept)
         /\ \A k \in 1..Len(Kept) : Kept[k] \in Int /\ min <= Kept[k] /\ Kept[k] <= max
<1>1. /\ MaxSamples \in Nat \ {0} /\ count \in Nat \ {0}
      /\ reservoir \in Seq(Values)
      /\ Len(reservoir) = IF count < MaxSamples THEN count ELSE MaxSamples
      /\ \A i \in 1..Len(reservoir) : \E k \in 1..count : reservoir[i] = seen[k]
  <2>1. seen \in Seq(Values) /\ Len(seen) = count
    BY DEF IInv, SeenInv
  <2>2. count \in Nat
    BY <2>1, LenProperties
  <2> QED
    BY <2>2, ReservoirAssumption DEF IInv, TypeOK, KeptInv
<1>2. reservoir \in Seq(Int) /\ \A i \in 1..Len(reservoir) : reservoir[i] \in Int
  BY <1>1, ValuesAreNumbers
<1>3. Kept \in Seq(Int) /\ Len(Kept) = Len(reservoir) /\ IsAscending(Kept)
  BY <1>2, SortTimesType, SortTimesAscending DEF Kept
<1> DEFINE Between == {x \in Int : min <= x /\ x <= max}
<1>4. \A i \in 1..count : min <= seen[i] /\ seen[i] <= max
  BY <1>1 DEF IInv, ExtremesInv
<1>5. \A i \in 1..Len(reservoir) : reservoir[i] \in Between
  <2> SUFFICES ASSUME NEW i \in 1..Len(reservoir) PROVE reservoir[i] \in Between
    OBVIOUS
  <2>1. PICK k \in 1..count : reservoir[i] = seen[k]
    BY <1>1
  <2> QED
    BY <1>2, <1>4, <2>1
<1> HIDE DEF Between
<1>6. Amount(reservoir, Between) = Len(reservoir)
  BY <1>1, <1>5, AmountType
<1>7. Amount(Kept, Between) = Len(Kept)
  BY <1>2, <1>3, <1>6, AmountSorted DEF Kept
<1>8. \A k \in 1..Len(Kept) : Kept[k] \in Between
  BY <1>3, <1>7, AmountAll
<1> QED
  BY <1>1, <1>3, <1>8 DEF Between

LEMMA PercentileIs ==
  ASSUME IInv, count > 0, NEW p \in Percents
  PROVE  Percentile(p) = Kept[PlaceOf(p, Len(Kept))]
<1> DEFINE n == Len(Kept)
<1>1. n \in Nat \ {0}
  BY KeptFacts
<1> HIDE DEF n
<1>2. PlaceOf(p, n) \in 1..n /\ (p * n) \div 100 = PlaceOf(p, n) - 1
  BY <1>1, PlaceOfType
<1>3. Percentile(p) = Kept[IF (p * n) \div 100 >= n THEN n ELSE (p * n) \div 100 + 1]
  BY DEF Percentile, Kept, n
<1>4. ~((p * n) \div 100 >= n) /\ (p * n) \div 100 + 1 = PlaceOf(p, n)
  BY <1>1, <1>2
<1> QED
  BY <1>3, <1>4 DEF n

LEMMA PercentilesOrdered ==
  ASSUME IInv, count > 0
  PROVE  /\ min <= Percentile(50) /\ Percentile(50) <= Percentile(90)
         /\ Percentile(90) <= Percentile(99) /\ Percentile(99) <= max
<1> DEFINE n == Len(Kept)
<1>1. /\ n \in Nat \ {0} /\ IsAscending(Kept)
      /\ \A k \in 1..n : Kept[k] \in Int /\ min <= Kept[k] /\ Kept[k] <= max
  BY KeptFacts
<1> HIDE DEF n
<1>2. PlaceOf(50, n) \in 1..n /\ PlaceOf(90, n) \in 1..n /\ PlaceOf(99, n) \in 1..n
  BY <1>1, PlaceOfType DEF Percents
<1>3. PlaceOf(50, n) <= PlaceOf(90, n) /\ PlaceOf(90, n) <= PlaceOf(99, n)
  BY <1>1, PlacesAscend
<1>4. ASSUME NEW i \in 1..n, NEW j \in 1..n, i <= j PROVE Kept[i] <= Kept[j]
  BY <1>1, <1>4 DEF IsAscending, n
<1>5. /\ Percentile(50) = Kept[PlaceOf(50, n)]
      /\ Percentile(90) = Kept[PlaceOf(90, n)]
      /\ Percentile(99) = Kept[PlaceOf(99, n)]
  BY PercentileIs DEF n, Percents
<1> QED
  BY <1>1, <1>2, <1>3, <1>4, <1>5

\* The share of what was seen below an element of the sorted reservoir, and at
\* or below it, while everything is in the reservoir.
LEMMA SplitsAtPlace ==
  ASSUME IInv, count > 0, count <= MaxSamples, NEW k \in 1..Len(seen), NEW q, q = Kept[k]
  PROVE  /\ Len(Kept) = Len(seen) /\ Len(seen) \in Nat \ {0}
         /\ Cardinality({i \in 1..Len(seen) : seen[i] < q}) \in Nat
         /\ Cardinality({i \in 1..Len(seen) : seen[i] < q}) <= k - 1
         /\ Cardinality({i \in 1..Len(seen) : seen[i] <= q}) \in Nat
         /\ Cardinality({i \in 1..Len(seen) : seen[i] <= q}) >= k
<1>1. reservoir = seen /\ seen \in Seq(Int)
  BY ValuesAreNumbers DEF IInv, KeptInv, SeenInv
<1>2. Len(Kept) = Len(seen) /\ Len(seen) \in Nat \ {0}
  BY <1>1, KeptFacts
<1>3. q = SortTimes(seen)[k]
  BY <1>1 DEF Kept
<1> QED
  BY <1>1, <1>2, <1>3, SortedSplits

LEMMA SplitsInProportion ==
  ASSUME IInv, count > 0, count <= MaxSamples, NEW p \in Percents,
         NEW q, q = Percentile(p)
  PROVE  /\ 100 * Cardinality({i \in 1..Len(seen) : seen[i] < q}) <= p * Len(seen)
         /\ 100 * Cardinality({i \in 1..Len(seen) : seen[i] <= q}) > p * Len(seen)
<1> DEFINE n == Len(seen)
           low == Cardinality({i \in 1..Len(seen) : seen[i] < q})
           high == Cardinality({i \in 1..Len(seen) : seen[i] <= q})
<1>1. Len(Kept) = Len(reservoir) /\ Len(Kept) \in Nat \ {0} /\ reservoir = seen
  BY KeptFacts DEF IInv, KeptInv
<1>2. n \in Nat \ {0} /\ Len(Kept) = n
  BY <1>1
<1>3. PICK k \in 1..n : /\ k = PlaceOf(p, n) /\ 100 * (k - 1) <= p * n /\ 100 * k > p * n
  BY <1>2, PlaceOfType
<1>4. q = Kept[k]
  BY <1>2, <1>3, PercentileIs
<1>5. low \in Nat /\ low <= k - 1 /\ high \in Nat /\ high >= k
  BY <1>3, <1>4, SplitsAtPlace
<1> HIDE DEF low, high, n
<1>6. PICK share \in Nat : share = p * n
  BY <1>2, PlaceOfType
<1>7. 100 * low <= share /\ 100 * high > share
  BY <1>2, <1>3, <1>5, <1>6
<1> QED
  BY <1>6, <1>7 DEF low, high, n

LEMMA ExtremesHold ==
  ASSUME IInv
  PROVE  ExtremesExact
<1> SUFFICES ASSUME seen # <<>>
             PROVE  /\ Summary.n = Len(seen)
                    /\ Summary.lo = Min({seen[i] : i \in 1..Len(seen)})
                    /\ Summary.hi = Max({seen[i] : i \in 1..Len(seen)})
                    /\ sampler = "latencyStats" =>
                         Summary.sum = MapThenSumSet(LAMBDA i : seen[i], 1..Len(seen))
  BY Zenon DEF ExtremesExact
<1>1. seen \in Seq(Values) /\ Len(seen) = count /\ count \in Nat \ {0}
  BY EmptySeq, LenProperties DEF IInv, SeenInv
<1>2. /\ Summary.n = count /\ Summary.lo = min /\ Summary.hi = max /\ Summary.sum = sum
  BY <1>1 DEF Summary
<1>3. /\ min \in Int /\ max \in Int
      /\ \A i \in 1..count : seen[i] \in Int /\ min <= seen[i] /\ seen[i] <= max
      /\ \E i \in 1..count : seen[i] = min
      /\ \E i \in 1..count : seen[i] = max
  <2>1. \A i \in 1..count : seen[i] \in Int
    BY <1>1, ValuesAreNumbers
  <2> QED
    BY <1>1, <2>1 DEF IInv, TypeOK, ExtremesInv
<1> DEFINE S == {seen[i] : i \in 1..Len(seen)}
<1>4. /\ min \in S /\ max \in S
      /\ \A x \in S : x \in Int /\ min <= x /\ x <= max
  BY <1>1, <1>3
<1> HIDE DEF S
<1>5. Min(S) = min
  <2>1. Min(S) \in S /\ \A y \in S : Min(S) <= y
    BY <1>4 DEF Min
  <2> QED
    BY <1>4, <2>1
<1>6. Max(S) = max
  <2>1. Max(S) \in S /\ \A y \in S : Max(S) >= y
    BY <1>3, <1>4 DEF Max
  <2> QED
    BY <1>4, <2>1
<1>7. sampler = "latencyStats" => sum = MapThenSumSet(LAMBDA i : seen[i], 1..Len(seen))
  <2>1. MapThenSumSet(LAMBDA i : seen[i], 1..Len(seen)) = SumOn(seen, 1..Len(seen))
    BY MapThenSumIsSum, Zenon
  <2> QED
    BY <1>1, <2>1 DEF IInv, SumInv
<1> QED
  BY <1>1, <1>2, <1>5, <1>6, <1>7, Zenon DEF S

LEMMA PercentilesHold ==
  ASSUME IInv
  PROVE  PercentilesSound
<1> DEFINE Splits(q, p) ==
      /\ 100 * Cardinality({i \in 1..Len(seen) : seen[i] < q}) <= p * Len(seen)
      /\ 100 * Cardinality({i \in 1..Len(seen) : seen[i] <= q}) > p * Len(seen)
<1> SUFFICES ASSUME count > 0
             PROVE  /\ Summary.lo <= Summary.p50 /\ Summary.p50 <= Summary.p90
                    /\ Summary.p90 <= Summary.p99 /\ Summary.p99 <= Summary.hi
                    /\ count <= MaxSamples =>
                         /\ Splits(Summary.p50, 50)
                         /\ Splits(Summary.p90, 90)
                         /\ Splits(Summary.p99, 99)
  BY Zenon DEF PercentilesSound
<1>1. count # 0
  BY DEF IInv, TypeOK
<1>2. /\ Summary.lo = min /\ Summary.hi = max
      /\ Summary.p50 = Percentile(50) /\ Summary.p90 = Percentile(90)
      /\ Summary.p99 = Percentile(99)
  BY <1>1 DEF Summary
<1>3. ASSUME count <= MaxSamples, NEW p \in Percents PROVE Splits(Percentile(p), p)
  BY <1>3, SplitsInProportion
<1> HIDE DEF Splits
<1>4. count <= MaxSamples =>
        /\ Splits(Summary.p50, 50) /\ Splits(Summary.p90, 90) /\ Splits(Summary.p99, 99)
  BY <1>2, <1>3 DEF Percents
<1> QED
  BY <1>2, <1>4, PercentilesOrdered

\* The figures of every summary are sound, whatever the draws have kept:
\* count, sum and extremes are those of everything seen, the percentiles are
\* ordered between the extremes, and each splits what was seen in its
\* proportion as long as nothing was replaced.
THEOREM SummaryAlwaysSound == Spec => []SummarySound
<1>1. IInv => SummarySound
  BY ExtremesHold, PercentilesHold DEF SummarySound, IInv
<1> QED
  BY <1>1, InitInv, StepInv, PTL DEF Spec

----------------------------------------------------------------------------
(* Algorithm R is uniform: counting the draws                              *)

\* The samples in a reservoir, and in how many ways it comes to hold just S.
Held(c) == {c[i] : i \in 1..Len(c)}
Like(w, S) == SumOn(w, {c \in DOMAIN w : Held(c) = S})

\* A full reservoir of distinct samples among the first n.
Full(c, n) == /\ c \in Seq(1..n) /\ Len(c) = MaxSamples
              /\ \A i, k \in 1..Len(c) : c[i] = c[k] => i = k

\* Every reservoir with every draw for sample n + 1, and where they lead.
Moves(w, n) == (DOMAIN w) \X (0..n)
Into(p, n)  == Store(p[1], n + 1, p[2])
Weight(w, n) == [p \in Moves(w, n) |-> w[p[1]]]
Advance(w, n) ==
  [d \in {Into(p, n) : p \in Moves(w, n)} |->
     MapThenSumSet(LAMBDA p : w[p[1]], {p \in Moves(w, n) : Into(p, n) = d})]

\* A table of reservoirs after n samples.
Table(w, n) ==
  /\ IsFiniteSet(DOMAIN w)
  /\ \A c \in DOMAIN w : Full(c, n) /\ w[c] \in Nat

\* Any two sets of MaxSamples samples are equally likely.
Even(w, n) ==
  \A S, T \in kSubset(MaxSamples, 1..n) : Like(w, S) = Like(w, T) /\ Like(w, S) > 0

\* One draw: either nothing changes, or one sample gives way to the new one.
LEMMA OneMove ==
  ASSUME NEW n \in Nat, NEW c, Full(c, n), NEW j \in 0..n
  PROVE  /\ Full(Into(<<c, j>>, n), n + 1)
         /\ j >= MaxSamples => Into(<<c, j>>, n) = c
         /\ j < MaxSamples => /\ j + 1 \in 1..Len(c)
                              /\ Held(Into(<<c, j>>, n)) = (Held(c) \ {c[j + 1]}) \cup {n + 1}
         /\ Held(c) \subseteq 1..n
<1>1. /\ MaxSamples \in Nat \ {0} /\ c \in Seq(1..n) /\ Len(c) = MaxSamples
      /\ \A i \in 1..Len(c) : c[i] \in 1..n
      /\ \A i, k \in 1..Len(c) : c[i] = c[k] => i = k
  BY ReservoirAssumption, ElementOfSeq DEF Full
<1>2. Into(<<c, j>>, n) = IF j < MaxSamples THEN [c EXCEPT ![j + 1] = n + 1] ELSE c
  BY <1>1 DEF Into, Store
<1>3. Held(c) \subseteq 1..n
  BY <1>1 DEF Held
<1>4. c \in Seq(1..(n + 1))
  <2>1. 1..n \subseteq 1..(n + 1)
    OBVIOUS
  <2> QED
    BY <1>1, <2>1, SeqMonotonic
<1>5. CASE j < MaxSamples
  <2> DEFINE d == [c EXCEPT ![j + 1] = n + 1]
  <2>1. j + 1 \in 1..Len(c) /\ n + 1 \in 1..(n + 1)
    BY <1>1, <1>5
  <2>2. /\ d \in Seq(1..(n + 1)) /\ Len(d) = Len(c)
        /\ \A i \in 1..Len(c) : d[i] = IF i = j + 1 THEN n + 1 ELSE c[i]
    BY <1>4, <2>1, ExceptSeq
  <2> HIDE DEF d
  <2>3. \A i \in 1..Len(c) : c[i] # n + 1
    BY <1>1
  <2>4. \A i, k \in 1..Len(d) : d[i] = d[k] => i = k
    BY <1>1, <2>2, <2>3
  <2>5. Held(d) = (Held(c) \ {c[j + 1]}) \cup {n + 1}
    <3>1. ASSUME NEW x \in Held(d) PROVE x \in (Held(c) \ {c[j + 1]}) \cup {n + 1}
      <4>1. PICK i \in 1..Len(c) : x = d[i]
        BY <2>2 DEF Held
      <4> QED
        BY <1>1, <2>1, <2>2, <4>1 DEF Held
    <3>2. n + 1 \in Held(d)
      BY <2>1, <2>2 DEF Held
    <3>3. ASSUME NEW x \in Held(c) \ {c[j + 1]} PROVE x \in Held(d)
      <4>1. PICK i \in 1..Len(c) : x = c[i] /\ i # j + 1
        BY DEF Held
      <4> QED
        BY <2>2, <4>1 DEF Held
    <3> QED
      BY <3>1, <3>2, <3>3
  <2>6. Into(<<c, j>>, n) = d
    BY <1>2, <1>5 DEF d
  <2>7. Full(d, n + 1)
    BY <1>1, <2>2, <2>4 DEF Full
  <2>8. ~(j >= MaxSamples)
    BY <1>1, <1>5
  <2> QED
    BY <1>3, <2>1, <2>5, <2>6, <2>7, <2>8
<1>6. CASE j >= MaxSamples
  <2>1. Into(<<c, j>>, n) = c /\ ~(j < MaxSamples)
    BY <1>1, <1>2, <1>6
  <2>2. Full(c, n + 1)
    BY <1>1, <1>4 DEF Full
  <2> QED
    BY <1>3, <1>6, <2>1, <2>2
<1>7. j < MaxSamples \/ j >= MaxSamples
  BY <1>1
<1> QED
  BY <1>5, <1>6, <1>7

LEMMA MovesFinite ==
  ASSUME NEW n \in Nat, NEW w, Table(w, n)
  PROVE  /\ IsFiniteSet(Moves(w, n))
         /\ \A p \in Moves(w, n) : /\ p = <<p[1], p[2]>> /\ p[1] \in DOMAIN w /\ p[2] \in 0..n
                                   /\ Weight(w, n)[p] = w[p[1]] /\ w[p[1]] \in Nat
<1>1. IsFiniteSet(0..n)
  BY FS_Interval
<1>2. IsFiniteSet(Moves(w, n))
  BY <1>1, FS_Product DEF Table, Moves
<1>3. \A p \in Moves(w, n) : p = <<p[1], p[2]>> /\ p[1] \in DOMAIN w /\ p[2] \in 0..n
  BY DEF Moves
<1> QED
  BY <1>2, <1>3 DEF Weight, Table

\* The next table, place by place.
LEMMA AdvanceIs ==
  ASSUME NEW n \in Nat, NEW w, Table(w, n)
  PROVE  /\ Table(Advance(w, n), n + 1)
         /\ DOMAIN Advance(w, n) = {Into(p, n) : p \in Moves(w, n)}
         /\ \A d \in DOMAIN Advance(w, n) :
              Advance(w, n)[d] = SumOn(Weight(w, n), {p \in Moves(w, n) : Into(p, n) = d})
<1> DEFINE D == {Into(p, n) : p \in Moves(w, n)}
<1>1. DOMAIN Advance(w, n) = D
  BY DEF Advance
<1>2. ASSUME NEW d \in D
      PROVE  /\ Advance(w, n)[d] = SumOn(Weight(w, n), {p \in Moves(w, n) : Into(p, n) = d})
             /\ Advance(w, n)[d] \in Nat
  <2> DEFINE P == {p \in Moves(w, n) : Into(p, n) = d}
  <2>1. P \subseteq Moves(w, n) /\ IsFiniteSet(P)
    BY MovesFinite, FS_Subset
  <2>2. \A p \in P : Weight(w, n)[p] = w[p[1]] /\ Weight(w, n)[p] \in Nat
    BY <2>1, MovesFinite
  <2>3. Advance(w, n)[d] = MapThenSumSet(LAMBDA p : w[p[1]], P)
    BY Zenon DEF Advance
  <2> HIDE DEF P
  <2>4. MapThenSumSet(LAMBDA p : w[p[1]], P) = SumOn(Weight(w, n), P)
    BY <2>1, <2>2, PairSumIsSum, Zenon
  <2>5. SumOn(Weight(w, n), P) \in Nat
    BY <2>1, <2>2, SumNatural
  <2> QED
    BY <2>3, <2>4, <2>5 DEF P
<1>3. IsFiniteSet(D)
  <2> DEFINE g == [p \in Moves(w, n) |-> Into(p, n)]
  <2>1. IsFiniteSet(Moves(w, n))
    BY MovesFinite
  <2>2. g \in Surjection(Moves(w, n), D)
    BY DEF Surjection
  <2> HIDE DEF g, D
  <2> QED
    BY <2>1, <2>2, FS_Surjection
<1>4. ASSUME NEW d \in D PROVE Full(d, n + 1)
  <2>1. PICK p \in Moves(w, n) : d = Into(p, n)
    OBVIOUS
  <2>2. p = <<p[1], p[2]>> /\ p[1] \in DOMAIN w /\ p[2] \in 0..n /\ Full(p[1], n)
    BY MovesFinite DEF Table
  <2>3. Full(Into(<<p[1], p[2]>>, n), n + 1)
    BY <2>2, OneMove
  <2> QED
    BY <2>1, <2>2, <2>3
<1> HIDE DEF D
<1>5. Table(Advance(w, n), n + 1)
  BY <1>1, <1>2, <1>3, <1>4 DEF Table
<1> QED
  BY <1>1, <1>2, <1>5 DEF D

\* The ways to S after the next sample are those of the moves that lead to S.
LEMMA LikeNext ==
  ASSUME NEW n \in Nat, NEW w, Table(w, n), NEW S
  PROVE  Like(Advance(w, n), S) = SumOn(Weight(w, n), {p \in Moves(w, n) : Held(Into(p, n)) = S})
<1> DEFINE A == Advance(w, n)
           W == Weight(w, n)
           P == {p \in Moves(w, n) : Held(Into(p, n)) = S}
           Q == {d \in DOMAIN A : Held(d) = S}
           h == [p \in P |-> Into(p, n)]
<1>1. IsFiniteSet(P) /\ IsFiniteSet(Q)
  <2>1. P \in SUBSET Moves(w, n) /\ Q \in SUBSET DOMAIN A
    OBVIOUS
  <2>2. IsFiniteSet(Moves(w, n)) /\ IsFiniteSet(DOMAIN A)
    BY MovesFinite, AdvanceIs DEF Table
  <2> HIDE DEF P, Q, A
  <2> QED
    BY <2>1, <2>2, FS_Subset
<1>2. \A p \in P : W[p] \in Int
  BY MovesFinite
<1>3. h \in [P -> Q]
  BY AdvanceIs
<1>4. \A q \in Q : A[q] = SumOn(W, Fiber(P, h, q))
  <2> SUFFICES ASSUME NEW d \in Q PROVE A[d] = SumOn(W, Fiber(P, h, d))
    OBVIOUS
  <2>1. Fiber(P, h, d) = {p \in Moves(w, n) : Into(p, n) = d}
    BY DEF Fiber
  <2>2. A[d] = SumOn(W, {p \in Moves(w, n) : Into(p, n) = d})
    BY AdvanceIs
  <2> QED
    BY <2>1, <2>2
<1> HIDE DEF P, Q, h, W, A
<1>5. SumOn(W, P) = SumOn(A, Q)
  BY <1>1, <1>2, <1>3, <1>4, SumFibers
<1> QED
  BY <1>5 DEF Like, A, W, P, Q

\* A reservoir that stays as it is has as many draws that keep it as there are
\* places past the last.
LEMMA LikeOfOld ==
  ASSUME NEW n \in Nat, MaxSamples <= n, NEW w, Table(w, n), NEW S, n + 1 \notin S
  PROVE  Like(Advance(w, n), S) = (n + 1 - MaxSamples) * Like(w, S)
<1> DEFINE A == {c \in DOMAIN w : Held(c) = S}
           P == {p \in Moves(w, n) : Held(Into(p, n)) = S}
           W == Weight(w, n)
           h == [p \in P |-> p[1]]
           a == n + 1 - MaxSamples
           g == [c \in A |-> a * w[c]]
<1>0. MaxSamples \in Nat \ {0} /\ a \in Nat
  BY ReservoirAssumption
<1>1. ASSUME NEW c \in DOMAIN w, NEW j \in 0..n
      PROVE  <<c, j>> \in P <=> c \in A /\ j \in MaxSamples..n
  <2>1. Full(c, n) /\ <<c, j>> \in Moves(w, n)
    BY DEF Table, Moves
  <2>2. CASE j < MaxSamples
    <3>1. Held(Into(<<c, j>>, n)) = (Held(c) \ {c[j + 1]}) \cup {n + 1}
      BY <2>1, <2>2, OneMove
    <3> QED
      BY <1>0, <2>2, <3>1
  <2>3. CASE j >= MaxSamples
    <3>1. Into(<<c, j>>, n) = c
      BY <2>1, <2>3, OneMove
    <3> QED
      BY <1>0, <2>1, <2>3, <3>1
  <2> QED
    BY <1>0, <2>2, <2>3
<1>2. \A p \in P : p = <<p[1], p[2]>> /\ p[1] \in DOMAIN w /\ p[2] \in 0..n /\ W[p] = w[p[1]]
                   /\ w[p[1]] \in Nat
  BY MovesFinite
<1>3. \A p \in P : p[1] \in A
  BY <1>1, <1>2
<1>4. h \in [P -> A]
  BY <1>3
<1>5. IsFiniteSet(P) /\ IsFiniteSet(A) /\ A \subseteq DOMAIN w
  <2>1. P \in SUBSET Moves(w, n) /\ A \in SUBSET DOMAIN w
    OBVIOUS
  <2>2. IsFiniteSet(Moves(w, n)) /\ IsFiniteSet(DOMAIN w)
    BY MovesFinite DEF Table
  <2> HIDE DEF P, A
  <2> QED
    BY <2>1, <2>2, FS_Subset
<1>6. \A c \in A : g[c] = SumOn(W, Fiber(P, h, c))
  <2> SUFFICES ASSUME NEW c \in A PROVE g[c] = SumOn(W, Fiber(P, h, c))
    OBVIOUS
  <2> DEFINE F == Fiber(P, h, c)
             J == MaxSamples..n
             f == [j \in J |-> <<c, j>>]
  <2>1. ASSUME NEW p \in F PROVE p = <<c, p[2]>> /\ p[2] \in J /\ W[p] = w[c]
    <3>1. p \in P /\ p[1] = c
      BY DEF Fiber
    <3> QED
      BY <1>1, <1>2, <3>1
  <2>2. \A j \in J : <<c, j>> \in F
    <3> SUFFICES ASSUME NEW j \in J PROVE <<c, j>> \in F
      OBVIOUS
    <3>1. j \in 0..n /\ c \in DOMAIN w
      BY <1>0
    <3>2. <<c, j>> \in P
      BY <1>1, <3>1
    <3> QED
      BY <3>2 DEF Fiber
  <2>3. IsFiniteSet(J) /\ Cardinality(J) = a
    <3>1. IsFiniteSet(J) /\ Cardinality(J) = IF MaxSamples > n THEN 0 ELSE n - MaxSamples + 1
      BY <1>0, FS_Interval
    <3> QED
      BY <1>0, <3>1
  <2> HIDE DEF F
  <2>4. f \in [J -> F] /\ (\A j, k \in J : f[j] = f[k] => j = k) /\ \A p \in F : \E j \in J : f[j] = p
    BY <2>1, <2>2
  <2> HIDE DEF J, f
  <2>5. IsFiniteSet(F) /\ Cardinality(F) = a
    BY <2>3, <2>4, SameAmount
  <2>6. w[c] \in Int
    BY <1>5 DEF Table
  <2>7. SumOn(W, F) = Cardinality(F) * w[c]
    BY <2>1, <2>5, <2>6, SumConstant
  <2> QED
    BY <2>5, <2>7 DEF F
<1>7. \A c \in A : w[c] \in Nat /\ g[c] = a * w[c]
  BY <1>5 DEF Table
<1>8. \A p \in P : W[p] \in Int
  BY <1>2
<1> HIDE DEF A, P, W, h, a, g
<1>9. SumOn(W, P) = SumOn(g, A)
  BY <1>4, <1>5, <1>6, <1>8, SumFibers
<1>10. SumOn(g, A) = a * SumOn(w, A)
  BY <1>0, <1>5, <1>7, SumScale
<1>11. Like(Advance(w, n), S) = SumOn(W, P)
  BY LikeNext DEF W, P
<1> QED
  BY <1>9, <1>10, <1>11 DEF Like, A, a

\* The moves that bring the new sample in beside R come from the reservoirs
\* that hold one sample more than R, each by the one draw that hits it.
LEMMA LikeOfNew ==
  ASSUME NEW n \in Nat, MaxSamples <= n, NEW w, Table(w, n),
         NEW R \in SUBSET (1..n), Cardinality(R) = MaxSamples - 1,
         NEW like \in Nat, \A T \in kSubset(MaxSamples, 1..n) : Like(w, T) = like
  PROVE  Like(Advance(w, n), R \cup {n + 1}) = (n + 1 - MaxSamples) * like
<1> DEFINE S == R \cup {n + 1}
           P == {p \in Moves(w, n) : Held(Into(p, n)) = S}
           W == Weight(w, n)
           Q == (1..n) \ R
           h == [p \in P |-> p[1][p[2] + 1]]
           g == [x \in Q |-> like]
           a == n + 1 - MaxSamples
<1>0. MaxSamples \in Nat \ {0} /\ a \in Nat /\ n + 1 \notin 1..n
  BY ReservoirAssumption
<1>1. ASSUME NEW c \in DOMAIN w, NEW j \in 0..n
      PROVE  <<c, j>> \in P <=>
               /\ j < MaxSamples /\ j + 1 \in 1..Len(c)
               /\ c[j + 1] \in Q /\ Held(c) = R \cup {c[j + 1]}
  <2>1. Full(c, n) /\ <<c, j>> \in Moves(w, n)
    BY DEF Table, Moves
  <2>2. Held(c) \subseteq 1..n
    BY <2>1, OneMove
  <2>3. CASE j < MaxSamples
    <3>1. j + 1 \in 1..Len(c) /\ Held(Into(<<c, j>>, n)) = (Held(c) \ {c[j + 1]}) \cup {n + 1}
      BY <2>1, <2>3, OneMove
    <3>2. c[j + 1] \in Held(c)
      BY <3>1 DEF Held
    <3> QED
      BY <1>0, <2>1, <2>2, <2>3, <3>1, <3>2
  <2>4. CASE j >= MaxSamples
    <3>1. Into(<<c, j>>, n) = c
      BY <2>1, <2>4, OneMove
    <3> QED
      BY <1>0, <2>1, <2>2, <2>4, <3>1
  <2> QED
    BY <1>0, <2>3, <2>4
<1>2. \A p \in P : /\ p = <<p[1], p[2]>> /\ p[1] \in DOMAIN w /\ p[2] \in 0..n
                   /\ W[p] = w[p[1]] /\ w[p[1]] \in Nat
  BY MovesFinite
<1>3. \A p \in P : /\ p[2] < MaxSamples /\ p[2] + 1 \in 1..Len(p[1])
                   /\ p[1][p[2] + 1] \in Q /\ Held(p[1]) = R \cup {p[1][p[2] + 1]}
  BY <1>1, <1>2
<1>4. h \in [P -> Q]
  BY <1>3
<1>5. IsFiniteSet(P)
  <2>1. P \in SUBSET Moves(w, n)
    OBVIOUS
  <2>2. IsFiniteSet(Moves(w, n))
    BY MovesFinite
  <2> HIDE DEF P
  <2> QED
    BY <2>1, <2>2, FS_Subset
<1>6. IsFiniteSet(R) /\ IsFiniteSet(Q) /\ Cardinality(Q) = a
  <2>1. IsFiniteSet(1..n) /\ Cardinality(1..n) = n
    BY InitialSegment, Zenon
  <2>2. IsFiniteSet(R) /\ IsFiniteSet(Q)
    BY <2>1, FS_Subset
  <2>3. Cardinality((1..n) \ R) = Cardinality(1..n) - Cardinality((1..n) \cap R)
    BY <2>1, FS_Difference
  <2>4. (1..n) \cap R = R
    OBVIOUS
  <2>5. Cardinality(Q) = n - (MaxSamples - 1)
    BY <2>1, <2>3, <2>4
  <2> QED
    BY <1>0, <2>2, <2>5
<1>7. ASSUME NEW x \in Q PROVE R \cup {x} \in kSubset(MaxSamples, 1..n)
  <2>1. x \notin R /\ R \cup {x} \in SUBSET (1..n)
    OBVIOUS
  <2>2. Cardinality(R \cup {x}) = Cardinality(R) + 1
    BY <1>6, <2>1, FS_AddElement
  <2>3. Cardinality(R \cup {x}) = MaxSamples
    BY <1>0, <2>2
  <2> QED
    BY <2>1, <2>3 DEF kSubset
<1>8. \A x \in Q : g[x] = SumOn(W, Fiber(P, h, x))
  <2> SUFFICES ASSUME NEW x \in Q PROVE g[x] = SumOn(W, Fiber(P, h, x))
    OBVIOUS
  <2> DEFINE F == Fiber(P, h, x)
             A == {c \in DOMAIN w : Held(c) = R \cup {x}}
             f == [p \in F |-> p[1]]
  <2>1. ASSUME NEW p \in F
        PROVE  /\ p \in P /\ p = <<p[1], p[2]>> /\ p[1] \in A /\ W[p] = w[p[1]] /\ w[p[1]] \in Nat
               /\ p[2] \in 0..n /\ p[2] + 1 \in 1..Len(p[1]) /\ p[1][p[2] + 1] = x
    <3>1. p \in P /\ p[1][p[2] + 1] = x
      BY DEF Fiber
    <3> QED
      BY <1>2, <1>3, <3>1
  <2>2. ASSUME NEW c \in A PROVE \E p \in F : p[1] = c
    <3>1. Full(c, n) /\ c \in DOMAIN w /\ x \in Held(c)
      BY DEF Table
    <3>2. PICK i \in 1..Len(c) : c[i] = x
      BY <3>1 DEF Held
    <3>3. /\ Len(c) = MaxSamples /\ i \in 1..MaxSamples /\ i - 1 \in 0..n
          /\ (i - 1) + 1 = i /\ i - 1 < MaxSamples
      BY <1>0, <3>1, <3>2 DEF Full
    <3>4. <<c, i - 1>> \in P
      BY <1>1, <3>1, <3>2, <3>3
    <3>5. <<c, i - 1>> \in F
      BY <3>2, <3>3, <3>4 DEF Fiber
    <3> QED
      BY <3>5
  <2>3. ASSUME NEW p \in F, NEW q \in F, p[1] = q[1] PROVE p = q
    <3>1. Full(p[1], n)
      BY <2>1 DEF Table
    <3> DEFINE i == p[2] + 1
               k == q[2] + 1
               c == p[1]
    <3>2. i = k
      <4>1. i \in 1..Len(c) /\ k \in 1..Len(c) /\ c[i] = x /\ c[k] = x
        BY <2>1, <2>3
      <4> HIDE DEF i, k
      <4> QED
        BY <3>1, <4>1 DEF Full
    <3>3. p[2] \in Int /\ q[2] \in Int
      BY <2>1
    <3> QED
      BY <2>1, <2>3, <3>2, <3>3
  <2>4. IsFiniteSet(F) /\ IsFiniteSet(A)
    <3>1. F \in SUBSET P /\ A \in SUBSET DOMAIN w /\ IsFiniteSet(DOMAIN w)
      BY DEF Fiber, Table
    <3> HIDE DEF F, A, P
    <3> QED
      BY <1>5, <3>1, FS_Subset
  <2>5. f \in [F -> A]
    BY <2>1
  <2>6. \A c \in A : w[c] = SumOn(W, Fiber(F, f, c))
    <3> SUFFICES ASSUME NEW c \in A PROVE w[c] = SumOn(W, Fiber(F, f, c))
      OBVIOUS
    <3>1. PICK p \in F : p[1] = c
      BY <2>2
    <3>2. Fiber(F, f, c) = {p}
      <4> HIDE DEF F
      <4> QED
        BY <2>3, <3>1 DEF Fiber
    <3>3. W[p] = w[c] /\ W[p] \in Int
      BY <2>1, <3>1
    <3>4. SumOn(W, {p}) = W[p]
      BY <3>3, SumOfOne
    <3> QED
      BY <3>2, <3>3, <3>4
  <2>7. \A p \in F : W[p] \in Int
    BY <2>1
  <2> HIDE DEF F, A, f, W
  <2>8. SumOn(W, F) = SumOn(w, A)
    BY <2>4, <2>5, <2>6, <2>7, SumFibers
  <2>9. SumOn(w, A) = like
    BY <1>7 DEF Like, A
  <2> QED
    BY <2>8, <2>9 DEF F
<1>9. \A p \in P : W[p] \in Int
  BY <1>2
<1>10. \A x \in Q : g[x] = like /\ like \in Int
  OBVIOUS
<1> HIDE DEF S, P, W, Q, h, g, a
<1>11. SumOn(W, P) = SumOn(g, Q)
  BY <1>4, <1>5, <1>6, <1>8, <1>9, SumFibers
<1>12. SumOn(g, Q) = Cardinality(Q) * like
  BY <1>6, <1>10, SumConstant
<1>13. Like(Advance(w, n), S) = SumOn(W, P)
  BY LikeNext DEF W, P
<1> QED
  BY <1>6, <1>11, <1>12, <1>13 DEF S, a

LEMMA EvenNext ==
  ASSUME NEW n \in Nat, MaxSamples <= n, NEW w, Table(w, n), Even(w, n)
  PROVE  Even(Advance(w, n), n + 1)
<1> DEFINE a == n + 1 - MaxSamples
           like == Like(w, 1..MaxSamples)
<1>1. MaxSamples \in Nat \ {0} /\ a \in Nat \ {0}
  BY ReservoirAssumption
<1>2. 1..MaxSamples \in kSubset(MaxSamples, 1..n)
  <2>1. Cardinality(1..MaxSamples) = MaxSamples
    BY <1>1, InitialSegment, Zenon
  <2>2. 1..MaxSamples \in SUBSET (1..n)
    BY <1>1
  <2> QED
    BY <2>1, <2>2 DEF kSubset
<1>3. like \in Nat /\ like > 0 /\ \A T \in kSubset(MaxSamples, 1..n) : Like(w, T) = like
  <2> DEFINE C == {c \in DOMAIN w : Held(c) = 1..MaxSamples}
  <2>1. C \in SUBSET DOMAIN w /\ IsFiniteSet(DOMAIN w) /\ \A c \in C : w[c] \in Nat
    BY DEF Table
  <2> HIDE DEF C
  <2>2. IsFiniteSet(C)
    BY <2>1, FS_Subset
  <2>3. SumOn(w, C) \in Nat
    BY <2>1, <2>2, SumNatural
  <2> QED
    BY <1>2, <2>3 DEF Like, C, Even
<1> HIDE DEF like
<1>4. ASSUME NEW S \in kSubset(MaxSamples, 1..(n + 1))
      PROVE  Like(Advance(w, n), S) = a * like
  <2>1. S \in SUBSET (1..(n + 1)) /\ Cardinality(S) = MaxSamples
    BY DEF kSubset
  <2>2. CASE n + 1 \notin S
    <3>1. S \in SUBSET (1..n)
      BY <2>1, <2>2
    <3>2. S \in kSubset(MaxSamples, 1..n)
      BY <2>1, <3>1 DEF kSubset
    <3> QED
      BY <1>3, <2>2, <3>2, LikeOfOld
  <2>3. CASE n + 1 \in S
    <3> DEFINE R == S \ {n + 1}
    <3>1. IsFiniteSet(S)
      <4>1. IsFiniteSet(1..(n + 1))
        BY FS_Interval
      <4> QED
        BY <2>1, <4>1, FS_Subset
    <3>2. Cardinality(R) = MaxSamples - 1
      BY <2>1, <2>3, <3>1, FS_RemoveElement
    <3>3. R \in SUBSET (1..n) /\ S = R \cup {n + 1}
      BY <2>1, <2>3
    <3> HIDE DEF R
    <3>4. Like(Advance(w, n), R \cup {n + 1}) = (n + 1 - MaxSamples) * like
      BY <1>3, <3>2, <3>3, LikeOfNew
    <3> QED
      BY <3>3, <3>4
  <2> QED
    BY <2>2, <2>3
<1>5. a * like > 0
  BY <1>1, <1>3
<1> QED
  BY <1>4, <1>5 DEF Even

----------------------------------------------------------------------------
(* The table of the model                                                  *)

\* The only reservoir while there is room: every sample in its order.
Straight(n) == [i \in 1..n |-> i]

LEMMA StraightIs ==
  ASSUME NEW n \in Nat
  PROVE  /\ Straight(n) \in Seq(1..n) /\ Len(Straight(n)) = n
         /\ Held(Straight(n)) = 1..n
         /\ Append(Straight(n), n + 1) = Straight(n + 1)
<1>1. Straight(n) \in Seq(1..n) /\ Len(Straight(n)) = n
  BY DEF Straight
<1>2. Held(Straight(n)) = 1..n
  BY <1>1 DEF Held, Straight
<1>3. Append(Straight(n), n + 1) = Straight(n + 1)
  BY <1>1 DEF Straight
<1> QED
  BY <1>1, <1>2, <1>3

\* Up to a full reservoir there is one way, and from there on every set of
\* MaxSamples samples has as many ways as any other.
WaysInv ==
  /\ count <= MaxSamples => ways = [c \in {Straight(count)} |-> 1]
  /\ count >= MaxSamples => Table(ways, count) /\ Even(ways, count)

LEMMA OneWay ==
  ASSUME NEW n \in Nat, NEW w, w = [c \in {Straight(n)} |-> 1]
  PROVE  /\ Like(w, 1..n) = 1
         /\ kSubset(n, 1..n) = {1..n}
         /\ n = MaxSamples => Table(w, n) /\ Even(w, n)
<1>1. DOMAIN w = {Straight(n)} /\ w[Straight(n)] = 1
  OBVIOUS
<1>2. Like(w, 1..n) = 1
  <2>1. {c \in DOMAIN w : Held(c) = 1..n} = {Straight(n)}
    BY <1>1, StraightIs
  <2>2. SumOn(w, {Straight(n)}) = 1
    BY <1>1, SumOfOne
  <2> QED
    BY <2>1, <2>2 DEF Like
<1>3. kSubset(n, 1..n) = {1..n}
  <2>1. IsFiniteSet(1..n) /\ Cardinality(1..n) = n
    BY InitialSegment, Zenon
  <2>2. ASSUME NEW S \in SUBSET (1..n), Cardinality(S) = n PROVE S = 1..n
    BY <2>1, <2>2, FS_Subset
  <2> QED
    BY <2>1, <2>2 DEF kSubset
<1>4. ASSUME n = MaxSamples PROVE Table(w, n) /\ Even(w, n)
  <2>1. Full(Straight(n), n)
    <3>1. \A i, k \in 1..n : Straight(n)[i] = Straight(n)[k] => i = k
      BY DEF Straight
    <3> QED
      BY <1>4, <3>1, StraightIs DEF Full
  <2>2. Table(w, n)
    BY <1>1, <2>1, FS_Singleton DEF Table
  <2> QED
    BY <1>2, <1>3, <1>4, <2>2 DEF Even
<1> QED
  BY <1>2, <1>3, <1>4

LEMMA WaysInit == Init => WaysInv
<1> SUFFICES ASSUME Init PROVE WaysInv
  OBVIOUS
<1>1. count = 0 /\ ways = [c \in {<<>>} |-> 1] /\ MaxSamples \in Nat \ {0}
  BY ReservoirAssumption DEF Init
<1>2. Straight(0) = <<>>
  <2>1. Straight(0) \in Seq(1..0) /\ Len(Straight(0)) = 0
    BY StraightIs
  <2> QED
    BY <2>1, EmptySeq
<1> QED
  BY <1>1, <1>2 DEF WaysInv

\* The sum over pairs of what their first members weigh, and over one pair.
Total(w, P) == MapThenSumSet(LAMBDA p : w[p[1]], P)

LEMMA OnePairSum ==
  ASSUME NEW w, NEW c, NEW j, w[c] = 1
  PROVE  Total(w, {<<c, j>>}) = 1
<1> DEFINE P == {<<c, j>>}
           one == [p \in P |-> 1]
<1>1. IsFiniteSet(P) /\ \A p \in P : one[p] = w[p[1]]
  <2>1. \A p \in P : p[1] = c /\ one[p] = 1
    OBVIOUS
  <2> QED
    BY <2>1, FS_Singleton
<1>2. one[<<c, j>>] = 1
  OBVIOUS
<1> HIDE DEF one
<1>3. MapThenSumSet(LAMBDA p : w[p[1]], P) = SumOn(one, P)
  BY <1>1, PairSumIsSum, Zenon
<1>4. SumOn(one, P) = 1
  BY <1>2, SumOfOne
<1> QED
  BY <1>3, <1>4, Zenon DEF Total

\* The next table while there is room.
Onward(w) == (DOMAIN w) \X {0}
Filled(w, n) ==
  [d \in {Into(p, n) : p \in Onward(w)} |->
     Total(w, {p \in Onward(w) : Into(p, n) = d})]

LEMMA FilledIs ==
  ASSUME NEW n \in Nat, n < MaxSamples, NEW w, w = [c \in {Straight(n)} |-> 1]
  PROVE  Filled(w, n) = [c \in {Straight(n + 1)} |-> 1]
<1> DEFINE s == Straight(n)
           d == Straight(n + 1)
           P == Onward(w)
<1>1. DOMAIN w = {s} /\ w[s] = 1
  OBVIOUS
<1>2. P = {<<s, 0>>}
  BY <1>1 DEF Onward
<1>3. \A p \in P : p = <<s, 0>> /\ Into(p, n) = d
  <2>1. Len(s) = n /\ Append(s, n + 1) = d
    BY StraightIs
  <2>2. \A p \in P : p = <<s, 0>> /\ p[1] = s /\ p[2] = 0
    BY <1>2
  <2>3. ASSUME NEW p \in P PROVE Into(p, n) = Store(s, n + 1, 0)
    BY <2>2 DEF Into
  <2>4. Store(s, n + 1, 0) = d
    BY <2>1 DEF Store
  <2> QED
    BY <2>2, <2>3, <2>4
<1> HIDE DEF P, s, d
<1>4. {Into(p, n) : p \in P} = {d} /\ {p \in P : Into(p, n) = d} = P
  BY <1>2, <1>3
<1>5. Total(w, P) = 1
  BY <1>1, <1>2, OnePairSum
<1>6. Filled(w, n) = [e \in {Into(p, n) : p \in P} |->
                       Total(w, {p \in P : Into(p, n) = e})]
  BY DEF Filled, P
<1>7. ASSUME NEW e, e = d
      PROVE  Total(w, {p \in P : Into(p, n) = e}) = 1
  <2>1. {p \in P : Into(p, n) = e} = P
    BY <1>4, <1>7
  <2> QED
    BY <1>5, <2>1
<1>8. Filled(w, n) = [e \in {d} |-> 1]
  BY <1>4, <1>6, <1>7
<1> QED
  BY <1>8 DEF d

LEMMA WaysFill ==
  ASSUME count \in Nat, count < MaxSamples, ways = [c \in {Straight(count)} |-> 1], CountWays
  PROVE  ways' = [c \in {Straight(count + 1)} |-> 1]
<1>1. (DOMAIN ways) \X Draws = Onward(ways)
  BY DEF Draws, Onward
<1>2. ways' = Filled(ways, count)
  BY <1>1, Zenon DEF CountWays, Filled, Total, Into
<1> QED
  BY <1>2, FilledIs

\* The next table of full reservoirs.
LEMMA WaysAdvance ==
  ASSUME count \in Nat, count >= MaxSamples, CountWays
  PROVE  ways' = Advance(ways, count)
<1>1. Draws = 0..count
  BY ReservoirAssumption DEF Draws
<1>2. (DOMAIN ways) \X Draws = Moves(ways, count)
  BY <1>1 DEF Moves
<1> QED
  BY <1>2, Zenon DEF CountWays, Advance, Into

LEMMA WaysStep == IInv /\ WaysInv /\ [Next]_vars => WaysInv'
<1> SUFFICES ASSUME IInv, WaysInv, [Next]_vars PROVE WaysInv'
  OBVIOUS
<1>1. ASSUME NEW v \in Values, LatencyAdd(v) \/ DiffAdd(v) PROVE WaysInv'
  <2>1. count' = count + 1 /\ CountWays /\ count \in Nat /\ MaxSamples \in Nat \ {0}
    BY <1>1, ReservoirAssumption DEF LatencyAdd, DiffAdd, Add, IInv, TypeOK
  <2>2. CASE count < MaxSamples
    <3>1. ways = [c \in {Straight(count)} |-> 1]
      BY <2>1, <2>2 DEF WaysInv
    <3>2. ways' = [c \in {Straight(count + 1)} |-> 1]
      BY <2>1, <2>2, <3>1, WaysFill
    <3>3. count + 1 = MaxSamples => Table(ways', count + 1) /\ Even(ways', count + 1)
      BY <2>1, <3>2, OneWay
    <3>4. count + 1 >= MaxSamples => count + 1 = MaxSamples
      BY <2>1, <2>2
    <3> QED
      BY <2>1, <3>2, <3>3, <3>4 DEF WaysInv
  <2>3. CASE count >= MaxSamples
    <3>1. ways' = Advance(ways, count)
      BY <2>1, <2>3, WaysAdvance
    <3>2. Table(ways, count) /\ Even(ways, count)
      BY <2>3 DEF WaysInv
    <3>3. Table(ways', count + 1) /\ Even(ways', count + 1)
      BY <2>1, <2>3, <3>1, <3>2, AdvanceIs, EvenNext
    <3>4. ~(count + 1 <= MaxSamples)
      BY <2>1, <2>3
    <3> QED
      BY <2>1, <3>3, <3>4 DEF WaysInv
  <2> QED
    BY <2>1, <2>2, <2>3
<1>2. CASE UNCHANGED vars
  BY <1>2 DEF vars, WaysInv
<1> QED
  BY <1>1, <1>2 DEF Next, Done

LEMMA WaysUniform ==
  ASSUME IInv, WaysInv
  PROVE  UniformSample
<1> DEFINE k == IF count < MaxSamples THEN count ELSE MaxSamples
           L(S) == MapThenSumSet(LAMBDA c : ways[c],
                     {c \in DOMAIN ways : {c[i] : i \in 1..Len(c)} = S})
<1>1. count \in Nat /\ MaxSamples \in Nat \ {0}
  BY ReservoirAssumption DEF IInv, TypeOK
<1>2. ASSUME NEW S PROVE L(S) = Like(ways, S)
  <2> DEFINE C == {c \in DOMAIN ways : {c[i] : i \in 1..Len(c)} = S}
  <2>1. MapThenSumSet(LAMBDA c : ways[c], C) = SumOn(ways, C)
    BY MapThenSumIsSum, Zenon
  <2> QED
    BY <2>1 DEF Like, Held
<1>3. \A S, T \in kSubset(k, 1..count) : Like(ways, S) = Like(ways, T) /\ Like(ways, S) > 0
  <2>1. CASE count < MaxSamples
    <3>1. ways = [c \in {Straight(count)} |-> 1] /\ k = count
      BY <1>1, <2>1 DEF WaysInv
    <3>2. Like(ways, 1..count) = 1 /\ kSubset(count, 1..count) = {1..count}
      BY <1>1, <3>1, OneWay
    <3> QED
      BY <3>1, <3>2
  <2>2. CASE ~(count < MaxSamples)
    BY <1>1, <2>2 DEF WaysInv, Even
  <2> QED
    BY <2>1, <2>2
<1> HIDE DEF L
<1>4. \A S, T \in kSubset(k, 1..count) : L(S) = L(T) /\ L(S) > 0
  BY <1>2, <1>3
<1> QED
  BY <1>4, Zenon DEF UniformSample, L

\* Algorithm R is uniform: however many samples have come, and in whatever
\* order, any two sets of samples of the reservoir's size are kept by equally
\* many of the equally likely draw sequences, and by at least one.
THEOREM SampleAlwaysUniform == Spec => []UniformSample
<1>1. IInv /\ WaysInv => UniformSample
  BY WaysUniform
<1> QED
  BY <1>1, InitInv, StepInv, WaysInit, WaysStep, PTL DEF Spec
=============================================================================
