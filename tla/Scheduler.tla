----------------------------- MODULE Scheduler -----------------------------
(***************************************************************************)
(* The arrival scheduler (scheduler.go): replicas independent Poisson      *)
(* streams, an optional burst overlay that turns every onset into Size     *)
(* spikes, and the counters that another goroutine drains.                 *)
(*                                                                         *)
(* Time is an integer number of ticks counted from the start of the run.   *)
(* A random draw is a choice from the set Gaps.  One call of Next is the   *)
(* sequence of SpawnBurst steps that its loop executes (the "continue"     *)
(* branch), closed by the step that returns: FireBase, FireSpike or        *)
(* Exhaust.  The reporter's DrainCounters interleaves with them.           *)
(***************************************************************************)
EXTENDS TimeSeq

CONSTANTS
  TargetQPS,       \* --qps
  Replicas,        \* --replicas
  Second,          \* ticks in a second
  Gaps,            \* the inter-arrival gaps that a draw may return
  ZeroGapBudget,   \* bound: how many later draws may return a gap of zero
  Size, Window, Period, Shape, Jitter, Mode,     \* BurstConfig
  Microsecond,     \* ticks between the spikes of shape "spike"
  Deadline,        \* end of the run
  IntMax           \* the largest value of the int64 used for durations

Shapes  == {"uniform", "spike", "random"}
Jitters == {"fixed", "poisson"}
Modes   == {"additive", "absorbing"}
Counters == {"bursts", "spikes", "base"}

\* BurstConfig.Validate: what a configuration must satisfy to be accepted.
Validate == /\ Size >= 0
            /\ Size > 0 => /\ Window > 0 /\ Period > 0
                           /\ Shape \in Shapes
                           /\ Jitter \in Jitters
                           /\ Mode \in Modes

ASSUME SchedulerAssumption ==
  /\ {TargetQPS, ZeroGapBudget, Size, Window, Period, Microsecond, IntMax} \subseteq Nat
  /\ Replicas \in Int
  /\ {Second, Deadline} \subseteq Nat \ {0}
  /\ Gaps \subseteq Nat
  /\ Validate

BurstEnabled == Size > 0 /\ Period > 0

\* The Poisson rate left for the base, times Period so that it stays integral.
BaseRate ==
  LET target == TargetQPS * Period
      rest   == target - Size * Second
  IN  IF BurstEnabled /\ Mode = "absorbing"
      THEN IF rest < 0 THEN 0 ELSE rest
      ELSE IF BurstEnabled THEN target ELSE TargetQPS

Streams == IF BaseRate > 0 THEN 1..(IF Replicas < 1 THEN 1 ELSE Replicas) ELSE {}

VARIABLES
  poissonStreams,  \* per stream, the time of its next arrival
  nextBurstOnset,
  pendingSpikes,
  fired,           \* cumulative counters
  latch,           \* counters since the last drain
  drained,         \* what DrainCounters has taken so far, in all
  drainStep,       \* the swap that the reporter executes next
  zeroGaps,        \* how many zero gaps were drawn (see ZeroGapBudget)
  lastAt,          \* the time that Next returned last
  exhausted,       \* Next has returned ok = false
  announced,       \* history: the onsets passed to OnBurstSpawned
  delivered        \* history: how many spikes Next returned for each time

streamVars  == <<poissonStreams, nextBurstOnset, pendingSpikes, zeroGaps>>
callerVars  == <<lastAt, exhausted, announced, delivered>>
drainVars   == <<drained, drainStep>>
vars == <<streamVars, fired, latch, drainVars, callerVars>>

Zero == [c \in Counters |-> 0]

Init ==
  /\ poissonStreams \in [Streams -> Gaps]
  /\ nextBurstOnset = Period
  /\ pendingSpikes = <<>>
  /\ fired = Zero /\ latch = Zero /\ drained = Zero
  /\ drainStep = "bursts"
  /\ zeroGaps = 0
  /\ lastAt = 0 /\ exhausted = FALSE
  /\ announced = <<>>
  /\ delivered = [t \in 0..(Deadline - 1) |-> 0]

----------------------------------------------------------------------------
(* peekEarliest: on a tie a Poisson arrival goes before a spike, and a     *)
(* spike before an onset.                                                  *)

PoissonIsEarliest(s) ==
  /\ \A r \in Streams : poissonStreams[s] <= poissonStreams[r]
  /\ pendingSpikes # <<>> => poissonStreams[s] <= Head(pendingSpikes)
  /\ BurstEnabled => poissonStreams[s] <= nextBurstOnset

SpikeIsEarliest ==
  /\ pendingSpikes # <<>>
  /\ \A r \in Streams : Head(pendingSpikes) < poissonStreams[r]
  /\ BurstEnabled => Head(pendingSpikes) <= nextBurstOnset

\* Mutant: an onset goes first whatever else is due.
OnsetIsEarliest_Eager == BurstEnabled

OnsetIsEarliest ==
  /\ BurstEnabled
  /\ \A r \in Streams : nextBurstOnset < poissonStreams[r]
  /\ pendingSpikes # <<>> => nextBurstOnset < Head(pendingSpikes)

Count(c) == /\ fired' = [fired EXCEPT ![c] = @ + 1]
            /\ latch' = [latch EXCEPT ![c] = @ + 1]

\* Mutant: an event at the deadline itself still counts.
BeforeDeadline_Inclusive(t) == t <= Deadline

BeforeDeadline(t) == t < Deadline

Return(t) == lastAt' = t /\ UNCHANGED exhausted

\* One exponential draw; a gap of zero uses up the budget.
Draw(gap) == /\ gap = 0 => zeroGaps < ZeroGapBudget
             /\ zeroGaps' = IF gap = 0 THEN zeroGaps + 1 ELSE zeroGaps

----------------------------------------------------------------------------
(* Next *)

FireBase ==
  \E s \in Streams :
    /\ PoissonIsEarliest(s)
    /\ BeforeDeadline(poissonStreams[s])
    /\ \E gap \in Gaps :
         /\ Draw(gap)
         /\ poissonStreams' = [poissonStreams EXCEPT ![s] = @ + gap]
    /\ Count("base")
    /\ Return(poissonStreams[s])
    /\ UNCHANGED <<nextBurstOnset, pendingSpikes, drainVars, announced, delivered>>

FireSpike ==
  /\ SpikeIsEarliest
  /\ BeforeDeadline(Head(pendingSpikes))
  /\ pendingSpikes' = Tail(pendingSpikes)
  /\ Count("spikes")
  /\ Return(Head(pendingSpikes))
  /\ delivered' = [delivered EXCEPT ![Head(pendingSpikes)] = @ + 1]
  /\ UNCHANGED <<poissonStreams, nextBurstOnset, zeroGaps, drainVars, announced>>

\* int64 arithmetic: a product that does not fit wraps around.
Wrap(x) == IF x <= IntMax THEN x
           ELSE ((x + IntMax + 1) % (2 * (IntMax + 1))) - (IntMax + 1)

\* Go's division truncates toward zero.
GoDiv(x, n) == IF x >= 0 THEN x \div n ELSE -((-x) \div n)

\* Mutant: the random offsets are not sorted.
RandomOffsets_Unsorted == [1..Size -> 0..(Window - 1)]

UniformOffsets == [i \in 1..Size |-> GoDiv(Wrap(Window * (i - 1)), Size)]
SpikeOffsets   == [i \in 1..Size |-> (i - 1) * Microsecond]
RandomOffsets  == {SortTimes(o) : o \in [1..Size -> 0..(Window - 1)]}

\* The offsets from the onset that one spawnBurst may choose.
FreshOffsets == CASE Shape = "spike"  -> {SpikeOffsets}
                  [] Shape = "random" -> RandomOffsets
                  [] OTHER            -> {UniformOffsets}

\* Mutant: the fresh spikes are appended without sorting.
MergeSpikes_Unsorted(fresh) == pendingSpikes \o fresh

\* Mutant: the buffer is always truncated before the append.
MergeSpikes_Truncating(fresh) == fresh

\* The sort runs only when spikes of an earlier burst are still pending.
MergeSpikes(fresh) == IF pendingSpikes = <<>> THEN fresh
                      ELSE SortTimes(pendingSpikes \o fresh)

\* advanceBurstOnset
OnsetGaps == IF Jitter = "poisson" THEN Gaps ELSE {Period}

SpawnBurst ==
  /\ OnsetIsEarliest
  /\ BeforeDeadline(nextBurstOnset)
  /\ \E offsets \in FreshOffsets :
       pendingSpikes' = MergeSpikes([i \in 1..Size |-> nextBurstOnset + offsets[i]])
  /\ \E gap \in OnsetGaps : Draw(gap) /\ nextBurstOnset' = nextBurstOnset + gap
  /\ Count("bursts")
  /\ announced' = Append(announced, nextBurstOnset)
  /\ UNCHANGED <<poissonStreams, drainVars, lastAt, exhausted, delivered>>

\* Mutant: the schedule does not end before the buffer has run empty.
NothingBeforeDeadline_BufferEmpty ==
  /\ \A s \in Streams : ~BeforeDeadline(poissonStreams[s])
  /\ pendingSpikes = <<>>
  /\ BurstEnabled => ~BeforeDeadline(nextBurstOnset)

\* Every source is at or past the deadline, or there is no source at all.
NothingBeforeDeadline ==
  /\ \A s \in Streams : ~BeforeDeadline(poissonStreams[s])
  /\ pendingSpikes # <<>> => ~BeforeDeadline(Head(pendingSpikes))
  /\ BurstEnabled => ~BeforeDeadline(nextBurstOnset)

Exhaust == /\ NothingBeforeDeadline
           /\ ~exhausted
           /\ exhausted' = TRUE
           /\ UNCHANGED <<streamVars, fired, latch, drainVars, lastAt, announced, delivered>>

Produce == FireBase \/ FireSpike \/ SpawnBurst \/ Exhaust

----------------------------------------------------------------------------
(* DrainCounters, run by the reporter: three separate swaps. *)

StepAfter == [bursts |-> "spikes", spikes |-> "base", base |-> "bursts"]

\* Mutant: the first swap resets all three counters.
Drain_ResetsAll ==
  /\ drained' = [drained EXCEPT ![drainStep] = @ + latch[drainStep]]
  /\ latch' = Zero
  /\ drainStep' = StepAfter[drainStep]
  /\ UNCHANGED <<streamVars, fired, callerVars>>

Drain ==
  /\ drained' = [drained EXCEPT ![drainStep] = @ + latch[drainStep]]
  /\ latch' = [latch EXCEPT ![drainStep] = 0]
  /\ drainStep' = StepAfter[drainStep]
  /\ UNCHANGED <<streamVars, fired, callerVars>>

Next == Produce \/ Drain

\* The dispatcher calls Next again and again until it returns ok = false.
Spec == Init /\ [][Next]_vars /\ WF_vars(Produce)

=============================================================================
