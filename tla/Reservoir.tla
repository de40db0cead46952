----------------------------- MODULE Reservoir -----------------------------
(***************************************************************************)
(* The bounded samples behind the percentiles: latencyStats (main.go) and  *)
(* diffSampler (grpc-parity-check).  Both keep exact extremes and a        *)
(* reservoir by Algorithm R; latencyStats also keeps the sum.  Callers     *)
(* hold a mutex, so add is one step.                                       *)
(*                                                                         *)
(* The draw of Int63n is a choice.  How likely a reservoir is, is kept in  *)
(* the history variable ways: for each reservoir, as a sequence of sample  *)
(* numbers, the number of equally likely draw sequences that lead to it.   *)
(***************************************************************************)
EXTENDS TimeSeq, FiniteSetsExt

CONSTANTS
  MaxSamples,   \* maxLatencySamples, maxDiffSamples
  Values,       \* the samples, as integers
  MaxCount      \* bound: calls of add

ASSUME ReservoirAssumption ==
  /\ MaxSamples \in Nat \ {0}
  /\ MaxCount \in Nat
  /\ Values \subseteq Int

VARIABLES
  sampler,     \* which of the two types this is
  count, sum, min, max, reservoir,
  seen,        \* history: the arguments of add
  ways         \* history: see above

vars == <<sampler, count, sum, min, max, reservoir, seen, ways>>

Init ==
  /\ sampler \in {"latencyStats", "diffSampler"}
  /\ count = 0 /\ sum = 0 /\ min = 0 /\ max = 0
  /\ reservoir = <<>>
  /\ seen = <<>>
  /\ ways = [c \in {<<>>} |-> 1]

----------------------------------------------------------------------------
(* add *)

\* Mutant: the count is not looked at, and the zero of an empty sampler stays.
Extremes_FromZero(v) ==
  /\ min' = IF v < min THEN v ELSE min
  /\ max' = IF v > max THEN v ELSE max

\* The first sample sets both.
Extremes(v) ==
  /\ min' = IF count = 0 \/ v < min THEN v ELSE min
  /\ max' = IF count = 0 \/ v > max THEN v ELSE max

\* Mutant: the draw is made with the count before this sample.
Draws_Before == IF count < MaxSamples THEN {0} ELSE 0..(count - 1)

\* Int63n(count), after the count was increased; none while there is room.
Draws == IF count < MaxSamples THEN {0} ELSE 0..count

\* The reservoir after the draw j.
Store(kept, x, j) ==
  IF Len(kept) < MaxSamples THEN Append(kept, x)
  ELSE IF j < Len(kept) THEN [kept EXCEPT ![j + 1] = x] ELSE kept

\* Every reservoir passes its ways on along every draw.
CountWays ==
  LET step(c, j) == Store(c, count + 1, j)
      cj         == (DOMAIN ways) \X Draws
  IN  ways' = [d \in {step(p[1], p[2]) : p \in cj} |->
                 MapThenSumSet(LAMBDA p : ways[p[1]], {p \in cj : step(p[1], p[2]) = d})]

Add(v) ==
  /\ Extremes(v)
  /\ count' = count + 1
  /\ \E j \in Draws : reservoir' = Store(reservoir, v, j)
  /\ CountWays
  /\ seen' = Append(seen, v)
  /\ UNCHANGED sampler

LatencyAdd(v) == sampler = "latencyStats" /\ sum' = sum + v /\ Add(v)

DiffAdd(v) == sampler = "diffSampler" /\ UNCHANGED sum /\ Add(v)

----------------------------------------------------------------------------
(* summary, and the report of the parity check *)

\* q: the element at int(p * len), for p a percentage.
Percentile(p) ==
  LET s   == SortTimes(reservoir)
      idx == (p * Len(s)) \div 100
  IN  s[IF idx >= Len(s) THEN Len(s) ELSE idx + 1]

\* The average is the quotient of sum and n.
Summary == IF count = 0 THEN [n |-> 0]
           ELSE [n |-> count, lo |-> min, hi |-> max, sum |-> sum,
                 p50 |-> Percentile(50), p90 |-> Percentile(90), p99 |-> Percentile(99)]

\* No more samples come.
Done == UNCHANGED vars

Next == (count < MaxCount /\ \E v \in Values : LatencyAdd(v) \/ DiffAdd(v)) \/ Done

Spec == Init /\ [][Next]_vars

----------------------------------------------------------------------------
(* Properties *)

TypeOK ==
  /\ count \in 0..MaxCount /\ {sum, min, max} \subseteq Int
  /\ reservoir \in Seq(Values) /\ Len(reservoir) <= MaxSamples

\* "a uniform reservoir sample (Algorithm R)": any two sets of samples of the
\* reservoir's size are equally likely to be the ones that are kept, from the
\* first sample to the last and whatever their order of arrival.
UniformSample ==
  LET k == IF count < MaxSamples THEN count ELSE MaxSamples
      likelihood(S) == MapThenSumSet(LAMBDA c : ways[c],
                         {c \in DOMAIN ways : {c[i] : i \in 1..Len(c)} = S})
  IN  \A S, T \in kSubset(k, 1..count) : likelihood(S) = likelihood(T) /\ likelihood(S) > 0

\* "min/avg/max are exact": they are those of everything seen, not of what
\* the reservoir happens to hold.
ExtremesExact ==
  LET s == Summary
  IN  seen # <<>> =>
        /\ s.n = Len(seen)
        /\ s.lo = Min({seen[i] : i \in 1..Len(seen)})
        /\ s.hi = Max({seen[i] : i \in 1..Len(seen)})
        /\ sampler = "latencyStats" => s.sum = MapThenSumSet(LAMBDA i : seen[i], 1..Len(seen))

\* The percentiles are ordered between the extremes and, as long as nothing
\* was replaced ("exact when count <= maxLatencySamples"), each splits what
\* was seen in its proportion.
PercentilesSound ==
  LET s == Summary
      n == Len(seen)
      splits(q, p) == /\ 100 * Cardinality({i \in 1..n : seen[i] < q}) <= p * n
                      /\ 100 * Cardinality({i \in 1..n : seen[i] <= q}) > p * n
  IN  count > 0 =>
        /\ s.lo <= s.p50 /\ s.p50 <= s.p90 /\ s.p90 <= s.p99 /\ s.p99 <= s.hi
        /\ count <= MaxSamples => splits(s.p50, 50) /\ splits(s.p90, 90) /\ splits(s.p99, 99)

\* Every figure of the summary, from whatever the draws have kept.
SummarySound == TypeOK /\ ExtremesExact /\ PercentilesSound

=============================================================================
