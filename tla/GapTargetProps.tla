--------------------------- MODULE GapTargetProps ---------------------------
(* The properties of the gap target, and of the two window analyses: its   *)
(* own, and that of the sender (WindowStats).                               *)
EXTENDS GapTarget, WindowStats

\* Both programs cap their histograms at 5,000,000 bins.
ASSUME SameCaps == MaxBins = MaxSummaryBins

Times == 0..MaxTime

TypeOK ==
  /\ now \in Times
  /\ accepting \in BOOLEAN /\ stopping \in BOOLEAN /\ listenerFailed \in BOOLEAN
  /\ handlerPC \in [Handlers -> {"new", "stamp", "record", "receive", "done"}]
  /\ stamp \in [Handlers -> Times \cup {Unset}]
  /\ gone \subseteq Handlers
  /\ arrivalsNs \in Seq(Times) /\ Len(arrivalsNs) <= ArrivalSampleCap
  /\ dropped \in Nat /\ note \in Nat \cup {Unset}
  /\ mainPC \in {"serve", "readDropped", "snapshot", "exited"}

Printed == mainPC = "exited"
Full == Printed /\ "span" \in DOMAIN Summary

\* After a graceful stop the summary is about every stream that a client ever
\* opened: none is still to be recorded when main takes the snapshot.
SummaryComplete ==
  Printed /\ ~listenerFailed =>
    /\ Summary.requests + note = Cardinality({h \in Handlers : handlerPC[h] # "new"})
    /\ \A h \in Handlers : ~Running(h)

\* The note about dropped arrivals says that the summary covers the captured
\* prefix: a summary with such a note is about a full buffer, even when main
\* reads both while handlers still run.
NoteMeansFull == Printed /\ note > 0 => Summary.requests = ArrivalSampleCap

\* Whatever the order in which handlers took the lock: no gap is negative,
\* the gaps add up to the span of the recorded arrivals, and the percentiles
\* are ordered and within it.
GapsMeasureSpan ==
  Full =>
    LET s == Summary
    IN  /\ s.gapSum = s.span
        /\ \A i, j \in 1..Len(arrivalsNs) : arrivalsNs[i] - arrivalsNs[j] <= s.span
        /\ 0 <= s.p50 /\ s.p50 <= s.p90 /\ s.p90 <= s.p99 /\ s.p99 <= 100 * s.span

\* The windows of the summary against windows laid over the time line: as
\* long as the histogram is not cut off, a window is a stretch of time from
\* the first arrival on, and its count is that of the arrivals in it.
WindowsExact ==
  Full =>
    LET summary == Summary IN
    \A cfg \in Windows :
      LET w       == summary.windows[cfg]
          first   == Min({arrivalsNs[k] : k \in 1..Len(arrivalsNs)})
          inWindow(b) == {k \in 1..Len(arrivalsNs) :
                            /\ first + b * cfg.window <= arrivalsNs[k]
                            /\ arrivalsNs[k] < first + (b + 1) * cfg.window}
          crossing == {b \in 0..MaxTime : Cardinality(inWindow(b)) >= cfg.threshold}
      IN  IF summary.span \div cfg.window < MaxBins
          THEN /\ w.burstWindows = Cardinality(crossing)
               /\ \A b \in 0..MaxTime : Cardinality(inWindow(b)) <= w.maxInWindow
          ELSE w.numWindows = MaxBins

\* Recording out of order does not show in gaps or windows.
SummaryExact == TypeOK /\ GapsMeasureSpan /\ WindowsExact

\* The comment on WindowAnalyzer: the sender computes the same burstiness
\* metrics as grpc-gap-target.  For the same time stamps, recorded in any
\* order, both count the same windows, crossings and largest window, also
\* where the number of bins is cut off; and the sender's bins lose nothing.
CountsAgree ==
  Full =>
    LET summary == Summary IN
    \A cfg \in Windows :
      LET s == SenderSummary(arrivalsNs, cfg.window, {cfg.threshold})
          w == summary.windows[cfg]
      IN  /\ s.numEvents = summary.requests
          /\ s.numBins = w.numWindows
          /\ s.crosses[cfg.threshold] = w.burstWindows
          /\ s.max = w.maxInWindow
          /\ s.fano.den = s.numBins * s.numEvents

\* The sender's bin-count statistics: a quantile has fewer bins below it, and
\* more at or below it, than its share of the bins asks for, it is at most the
\* maximum; and the Fano factor is never negative, and zero only for a stream
\* that is the same in every bin.
SenderShape ==
  Full =>
    \A cfg \in Windows :
      LET s      == SenderSummary(arrivalsNs, cfg.window, {cfg.threshold})
          counts == Counts(SortTimes(arrivalsNs), cfg.window)
          bins   == 1..s.numBins
          ranked(q, p) ==
            /\ 100 * Cardinality({b \in bins : counts[b] < q}) <= p * (s.numBins - 1)
            /\ 100 * Cardinality({b \in bins : counts[b] <= q}) > p * (s.numBins - 1)
      IN  /\ ranked(s.p50, 50) /\ ranked(s.p90, 90) /\ ranked(s.p99, 99)
          /\ s.p99 <= s.max
          /\ s.fano.num >= 0
          /\ s.fano.num = 0 <=> s.max * s.numBins = s.numEvents

\* The sender's view of its own traffic can be held against the receiver's.
AnalyzersAgree == CountsAgree /\ SenderShape

\* The handler waits for a client that neither sends nor goes away.
Awaited(h) == handlerPC[h] = "receive" /\ h \notin gone

\* A signal ends the process with a summary, whatever handlers run and whatever
\* streams clients open while it stops, unless a client keeps a handler waiting
\* for ever: a graceful stop has no time limit, and RecvMsg has none either.
SummaryAfterSignal ==
  <>[](\E h \in Handlers : Awaited(h)) \/ (stopping ~> Printed)

\* SKILL.md says that SIGTERM (or SIGINT) flushes the arrival summary.  With a
\* client that opens a stream and stays silent it does not.
SignalFlushes == stopping ~> Printed

=============================================================================
