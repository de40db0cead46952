--------------------------- MODULE SchedulerProps ---------------------------
(* The properties of the scheduler. *)
EXTENDS Scheduler

----------------------------------------------------------------------------
(* What the scheduler must maintain. *)

TypeOK ==
  /\ poissonStreams \in [Streams -> Nat]
  /\ nextBurstOnset \in Nat
  /\ pendingSpikes \in Seq(Nat)
  /\ fired \in [Counters -> Nat]
  /\ latch \in [Counters -> Nat]
  /\ drained \in [Counters -> Nat]
  /\ drainStep \in Counters
  /\ zeroGaps \in 0..ZeroGapBudget
  /\ lastAt \in 0..(Deadline - 1)
  /\ exhausted \in BOOLEAN
  /\ announced \in Seq(Nat)
  /\ delivered \in [0..(Deadline - 1) -> Nat]

\* pendingSpikes stays sorted ascending (the comment on the field): Next
\* looks only at its head, so an unsorted buffer would return late arrivals.
SpikesSorted == IsAscending(pendingSpikes)

\* Nothing that is still to come lies before what Next has already returned:
\* no source ever falls behind, whatever bursts overlap.
SourcesAhead ==
  /\ \A s \in Streams : poissonStreams[s] >= lastAt
  /\ \A i \in 1..Len(pendingSpikes) : pendingSpikes[i] >= lastAt
  /\ BurstEnabled => nextBurstOnset >= lastAt

\* Merging and slicing neither lose nor duplicate a spike: every burst
\* contributes exactly Size spikes, each of them returned or still pending.
SpikeLedger == fired["spikes"] + Len(pendingSpikes) = Size * fired["bursts"]

\* When Next has said that the schedule is over, no arrival due before the
\* deadline is left behind in any source, head or not.
NothingLeftBehind ==
  exhausted => /\ \A s \in Streams : poissonStreams[s] >= Deadline
               /\ \A i \in 1..Len(pendingSpikes) : pendingSpikes[i] >= Deadline
               /\ BurstEnabled => nextBurstOnset >= Deadline

\* However the reporter's swaps interleave with Next, every event is counted
\* in exactly one drain or still latched.
CountersConserved == \A c \in Counters : latch[c] + drained[c] = fired[c]

\* End to end, with fixed jitter and a shape without randomness: a run that
\* is over has returned exactly the spikes of the timetable k*Period + offset.
Timetable ==
  LET offset(i) == IF Shape = "spike" THEN (i - 1) * Microsecond
                                      ELSE (Window * (i - 1)) \div Size
      planned(t) == {ki \in (1..Deadline) \X (1..Size) :
                       ki[1] * Period + offset(ki[2]) = t}
  IN  (exhausted /\ BurstEnabled /\ Jitter = "fixed" /\ Shape # "random") =>
        \A t \in 0..(Deadline - 1) : delivered[t] = Cardinality(planned(t))

\* The comment on NewSchedulerWithReplicas: at most ceil(window/period)+1
\* bursts overlap, for which the buffer is sized.
OverlapBound ==
  BurstEnabled => Len(pendingSpikes) <= Size * (((Window + Period - 1) \div Period) + 1)

\* README and the comment on BurstConfig.Window: the spikes of a burst fire
\* within Window of its onset.  A pending spike does not name its burst, so any
\* onset announced so far may account for it; that the times are those of the
\* right burst is Timetable.
SpikesInWindow ==
  \A i \in 1..Len(pendingSpikes) :
    \E k \in 1..Len(announced) :
      pendingSpikes[i] \in announced[k]..(announced[k] + Window - 1)

\* Overlapping bursts stay within their room and within their time.
BurstsConfined == OverlapBound /\ SpikesInWindow

----------------------------------------------------------------------------
(* Liveness and refinement. *)

\* The schedule of a run comes to its end: bursts that are spawned inside the
\* loop of Next cannot keep the dispatcher from the deadline for ever.
ScheduleEnds == <>exhausted

\* The caller sees an ArrivalStream: times in order, all before the deadline,
\* and an end of stream that is final.
Stream == INSTANCE ArrivalStream WITH
            arrivals <- fired["base"] + fired["spikes"]

StreamSpec == Stream!Spec

=============================================================================
