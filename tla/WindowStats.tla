---------------------------- MODULE WindowStats ----------------------------
(***************************************************************************)
(* WindowAnalyzer.Summary (metrics.go): the dispatch time stamps of a run, *)
(* counted in fixed bins.  The floats become exact: a quantile's p is a    *)
(* percentage, and the Fano factor a numerator over a denominator.  Rates  *)
(* and the mean, which are quotients of fields that are here, are left     *)
(* out.                                                                    *)
(***************************************************************************)
EXTENDS TimeSeq, FiniteSetsExt

CONSTANT MaxSummaryBins   \* maxSummaryBins

ASSUME WindowStatsAssumption == MaxSummaryBins \in Nat \ {0}

\* No more bins than MaxSummaryBins, however small the window.
NumBins(first, last, window) ==
  LET n == (last - first) \div window + 1
  IN  IF n > MaxSummaryBins THEN MaxSummaryBins ELSE n

\* Mutant: the index of a late sample is not clamped.
BinIndex_Unclamped(t, first, window, numBins) == (t - first) \div window

\* What is past the last bin folds into it.
BinIndex(t, first, window, numBins) ==
  LET idx == (t - first) \div window
  IN  IF idx >= numBins THEN numBins - 1 ELSE idx

\* The bins from 0 on as a sequence from 1 on.
Counts(ts, window) ==
  LET first   == ts[1]
      numBins == NumBins(first, ts[Len(ts)], window)
  IN  [b \in 1..numBins |->
         Cardinality({k \in 1..Len(ts) : BinIndex(ts[k], first, window, numBins) = b - 1})]

\* Var/Mean of the bins, both multiplied by the square of their number.
Fano(counts) ==
  LET n     == Len(counts)
      sum   == MapThenSumSet(LAMBDA b : counts[b], 1..n)
      sumSq == MapThenSumSet(LAMBDA b : counts[b] * counts[b], 1..n)
  IN  [num |-> n * sumSq - sum * sum, den |-> n * sum]

\* The bin count at index int(p * (numBins-1)) of the sorted counts.
CountQuantile(counts, p) == SortTimes(counts)[((p * (Len(counts) - 1)) \div 100) + 1]

BinsAtLeast(counts, th) == Cardinality({b \in 1..Len(counts) : counts[b] >= th})

\* WindowAnalyzer.Summary; samples may be in any order.
SenderSummary(samples, window, thresholds) ==
  IF window <= 0 \/ samples = <<>> THEN [numEvents |-> 0]
  ELSE LET ts     == SortTimes(samples)
           counts == Counts(ts, window)
       IN  [numBins   |-> Len(counts),
            numEvents |-> Len(ts),
            fano      |-> Fano(counts),
            max       |-> Max({counts[b] : b \in 1..Len(counts)}),
            p50       |-> CountQuantile(counts, 50),
            p90       |-> CountQuantile(counts, 90),
            p99       |-> CountQuantile(counts, 99),
            crosses   |-> [th \in thresholds |-> BinsAtLeast(counts, th)]]

=============================================================================
