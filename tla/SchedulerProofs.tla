-------------------------- MODULE SchedulerProofs --------------------------
(***************************************************************************)
(* The scheduler keeps its buffer sorted, loses no spike and implements    *)
(* ArrivalStream, and the dispatch loop that drives it sends nothing early *)
(* and explains its delays, for every configuration in which the uniform   *)
(* offsets do not overflow.                                                *)
(*                                                                         *)
(* None of these facts is inductive alone.  Next looks only at the head of *)
(* pendingSpikes, so that no source falls behind needs the buffer sorted;  *)
(* that a merge keeps it sorted needs nothing, but that what is merged     *)
(* lies ahead needs the onset to lie ahead; and that the end of the stream *)
(* is final needs all of them.  IInv is their conjunction.                 *)
(*                                                                         *)
(* With fixed jitter the spikes are counted by their time as well: those   *)
(* that are due at a time are delivered or pending (TimetableInv), and     *)
(* from the end of a burst on only later bursts have any (ConfinedInv).    *)
(*                                                                         *)
(* The last part is about Replayer, for any clock, stalls and capacity of  *)
(* the queue.  The steps of its loop are steps of the scheduler or leave   *)
(* it alone, so that IInv is an invariant of the loop as well.             *)
(***************************************************************************)
EXTENDS Replayer, DataProofs

\* No product Window * i of the uniform shape exceeds the largest int64.
OffsetsFit == Window * (Size - 1) <= IntMax

IInv == /\ TypeOK
        /\ SpikesSorted
        /\ SourcesAhead
        /\ SpikeLedger
        /\ NothingLeftBehind
        /\ CountersConserved

----------------------------------------------------------------------------
(* The offsets of a burst *)

\* Division by a positive number is monotone on the naturals.
LEMMA DivMonotone ==
  ASSUME NEW a \in Nat, NEW b \in Nat, NEW n \in Nat, n > 0, a <= b
  PROVE  a \div n \in Nat /\ a \div n <= b \div n
OBVIOUS

LEMMA TimesMonotone ==
  ASSUME NEW w \in Nat, NEW i \in Nat, NEW j \in Nat, i <= j
  PROVE  w * i \in Nat /\ w * i <= w * j
OBVIOUS

\* Without overflow the uniform offsets are natural numbers in ascending order.
LEMMA UniformOffsetsAscend ==
  ASSUME OffsetsFit, Size > 0
  PROVE  UniformOffsets \in [1..Size -> Nat] /\ IsAscending(UniformOffsets)
<1>1. Size \in Nat /\ Window \in Nat /\ IntMax \in Nat
  BY SchedulerAssumption
<1>2. ASSUME NEW i \in 1..Size
      PROVE  /\ Window * (i - 1) \in Nat
             /\ UniformOffsets[i] = (Window * (i - 1)) \div Size
  <2>1. i - 1 \in Nat /\ Size - 1 \in Nat /\ i - 1 <= Size - 1
    BY <1>1
  <2>2. Window * (i - 1) \in Nat /\ Window * (i - 1) <= Window * (Size - 1)
    BY <1>1, <2>1, TimesMonotone
  <2>3. Window * (Size - 1) \in Nat
    BY <1>1, <2>1, TimesMonotone
  <2>4. Window * (i - 1) <= IntMax
    BY <1>1, <2>2, <2>3 DEF OffsetsFit
  <2>5. Wrap(Window * (i - 1)) = Window * (i - 1)
    BY <2>4 DEF Wrap
  <2>6. GoDiv(Window * (i - 1), Size) = (Window * (i - 1)) \div Size
    BY <2>2 DEF GoDiv
  <2> QED
    BY <2>2, <2>5, <2>6 DEF UniformOffsets
<1>3. UniformOffsets \in [1..Size -> Nat]
  <2>1. \A i \in 1..Size : UniformOffsets[i] \in Nat
    BY <1>1, <1>2, DivMonotone
  <2> QED
    BY <2>1 DEF UniformOffsets
<1>4. Len(UniformOffsets) = Size
  BY <1>1 DEF UniformOffsets
<1>5. ASSUME NEW i \in 1..Size, NEW j \in 1..Size, i < j
      PROVE  UniformOffsets[i] <= UniformOffsets[j]
  <2>1. Window * (i - 1) <= Window * (j - 1)
    BY <1>1, <1>5, TimesMonotone
  <2> QED
    BY <1>1, <1>2, <2>1, DivMonotone
<1> QED
  BY <1>3, <1>4, <1>5 DEF IsAscending

\* The offsets of shape "spike" likewise, whatever the window.
LEMMA SpikeOffsetsAscend ==
  SpikeOffsets \in [1..Size -> Nat] /\ IsAscending(SpikeOffsets)
<1>1. Size \in Nat /\ Microsecond \in Nat
  BY SchedulerAssumption
<1>2. \A i \in 1..Size : SpikeOffsets[i] = Microsecond * (i - 1) /\ i - 1 \in Nat
  BY <1>1 DEF SpikeOffsets
<1>3. \A i \in 1..Size : SpikeOffsets[i] \in Nat
  BY <1>1, <1>2, TimesMonotone
<1>4. Len(SpikeOffsets) = Size
  BY <1>1 DEF SpikeOffsets
<1>5. ASSUME NEW i \in 1..Size, NEW j \in 1..Size, i < j
      PROVE  SpikeOffsets[i] <= SpikeOffsets[j]
  BY <1>1, <1>2, <1>5, TimesMonotone
<1> QED
  BY <1>3, <1>4, <1>5 DEF IsAscending, SpikeOffsets

\* Every choice of offsets is a sequence of Size natural numbers, ascending.
LEMMA FreshOffsetsAscend ==
  ASSUME OffsetsFit, Size > 0, NEW offsets \in FreshOffsets
  PROVE  /\ offsets \in Seq(Nat)
         /\ Len(offsets) = Size
         /\ IsAscending(offsets)
<1>1. Size \in Nat /\ Window \in Nat
  BY SchedulerAssumption
<1>2. ASSUME NEW o \in [1..Size -> Nat]
      PROVE  o \in Seq(Nat) /\ Len(o) = Size
  BY <1>1, SeqDef, LenProperties
<1>3. CASE offsets \in RandomOffsets
  <2>1. PICK o \in [1..Size -> 0..(Window - 1)] : offsets = SortTimes(o)
    BY <1>3 DEF RandomOffsets
  <2>2. o \in [1..Size -> Nat]
    BY <1>1, <2>1
  <2>3. o \in Seq(Nat) /\ Len(o) = Size
    BY <1>2, <2>2
  <2>4. o \in Seq(Int) /\ Nat \subseteq Int
    BY <2>3, SeqMonotonic
  <2> QED
    BY <2>1, <2>3, <2>4, SortTimesType, SortTimesAscending
<1>4. CASE offsets = SpikeOffsets
  BY <1>2, <1>4, SpikeOffsetsAscend
<1>5. CASE offsets = UniformOffsets
  BY <1>2, <1>5, UniformOffsetsAscend
<1> QED
  BY <1>3, <1>4, <1>5 DEF FreshOffsets

\* What spawnBurst leaves in the buffer: the old and the fresh spikes, sorted,
\* none of them before a time that both the old ones and the onset respect.
LEMMA MergeSpikesSorted ==
  ASSUME OffsetsFit, Size > 0, NEW offsets \in FreshOffsets,
         pendingSpikes \in Seq(Nat), SpikesSorted,
         nextBurstOnset \in Nat, NEW low \in Nat, low <= nextBurstOnset,
         \A i \in 1..Len(pendingSpikes) : pendingSpikes[i] >= low,
         NEW fresh, fresh = [i \in 1..Size |-> nextBurstOnset + offsets[i]]
  PROVE  /\ MergeSpikes(fresh) \in Seq(Nat)
         /\ Len(MergeSpikes(fresh)) = Len(pendingSpikes) + Size
         /\ IsAscending(MergeSpikes(fresh))
         /\ \A i \in 1..Len(MergeSpikes(fresh)) : MergeSpikes(fresh)[i] >= low
<1> DEFINE Late == {t \in Nat : t >= low}
<1>1. Size \in Nat
  BY SchedulerAssumption
<1>2. offsets \in Seq(Nat) /\ Len(offsets) = Size /\ IsAscending(offsets)
  BY FreshOffsetsAscend
<1>3. \A i \in 1..Size : offsets[i] \in Nat
  BY <1>2, ElementOfSeq
<1>4. fresh \in Seq(Late) /\ Len(fresh) = Size
  <2>1. fresh \in [1..Size -> Late]
    BY <1>3
  <2>2. fresh \in Seq(Late)
    BY <1>1, <2>1, SeqDef
  <2> QED
    BY <1>1, <2>1, <2>2, LenProperties
<1>5. IsAscending(fresh)
  <2> SUFFICES ASSUME NEW i \in 1..Size, NEW j \in 1..Size, i < j
               PROVE  fresh[i] <= fresh[j]
    BY <1>4 DEF IsAscending
  <2>1. offsets[i] <= offsets[j]
    BY <1>2 DEF IsAscending
  <2>2. fresh[i] = nextBurstOnset + offsets[i] /\ fresh[j] = nextBurstOnset + offsets[j]
    OBVIOUS
  <2> QED
    BY <1>3, <2>1, <2>2
<1>6. pendingSpikes \in Seq(Late) /\ Len(pendingSpikes) \in Nat
  <2>1. Len(pendingSpikes) \in Nat /\ pendingSpikes \in [1..Len(pendingSpikes) -> Nat]
    BY LenProperties
  <2>2. pendingSpikes \in [1..Len(pendingSpikes) -> Late]
    BY <2>1
  <2> QED
    BY <2>1, <2>2, SeqDef
<1> HIDE DEF Late
<1>7. Late \subseteq Nat /\ (\A t \in Late : t >= low)
  BY DEF Late
<1>8. CASE pendingSpikes = <<>>
  <2>1. MergeSpikes(fresh) = fresh /\ Len(pendingSpikes) = 0
    BY <1>8 DEF MergeSpikes
  <2>2. fresh \in Seq(Nat) /\ \A i \in 1..Len(fresh) : fresh[i] >= low
    BY <1>4, <1>7, SeqMonotonic, ElementOfSeq
  <2> QED
    BY <1>1, <1>4, <1>5, <2>1, <2>2
<1>9. CASE pendingSpikes # <<>>
  <2> DEFINE both == pendingSpikes \o fresh
  <2>1. both \in Seq(Late) /\ Len(both) = Len(pendingSpikes) + Size
    <3>1. /\ pendingSpikes \o fresh \in Seq(Late)
          /\ Len(pendingSpikes \o fresh) = Len(pendingSpikes) + Len(fresh)
      BY <1>4, <1>6, ConcatProperties, Zenon
    <3> QED
      BY <1>4, <3>1
  <2> HIDE DEF both
  <2>7. Late \subseteq Int
    BY <1>7
  <2>2. both \in Seq(Int) /\ Late \subseteq Int
    BY <2>1, <2>7, SeqMonotonic
  <2>3. MergeSpikes(fresh) = SortTimes(both)
    BY <1>9 DEF MergeSpikes, both
  <2>4. SortTimes(both) \in Seq(Late) /\ Len(SortTimes(both)) = Len(both)
    BY <2>1, <2>2, SortTimesType
  <2>5. SortTimes(both) \in Seq(Nat)
    BY <1>7, <2>4, SeqMonotonic
  <2>6. \A i \in 1..Len(SortTimes(both)) : SortTimes(both)[i] >= low
    BY <1>7, <2>4, ElementOfSeq
  <2> QED
    BY <2>1, <2>2, <2>3, <2>4, <2>5, <2>6, SortTimesAscending
<1> QED
  BY <1>8, <1>9

----------------------------------------------------------------------------
(* Initial states and steps *)

LEMMA InitInv == Init => IInv
<1> SUFFICES ASSUME Init PROVE IInv
  OBVIOUS
<1> USE SchedulerAssumption DEF Init
<1>1. TypeOK
  <2>2. pendingSpikes \in Seq(Nat) /\ announced \in Seq(Nat)
    BY EmptySeq
  <2>3. poissonStreams \in [Streams -> Nat]
    OBVIOUS
  <2>4. fired \in [Counters -> Nat] /\ latch \in [Counters -> Nat]
        /\ drained \in [Counters -> Nat] /\ drainStep \in Counters
    BY DEF Zero, Counters
  <2>5. /\ lastAt \in 0..(Deadline - 1) /\ zeroGaps \in 0..ZeroGapBudget
        /\ nextBurstOnset \in Nat
    OBVIOUS
  <2>6. delivered \in [0..(Deadline - 1) -> Nat] /\ exhausted \in BOOLEAN
    OBVIOUS
  <2> QED
    BY <2>2, <2>3, <2>4, <2>5, <2>6 DEF TypeOK
<1>2. SpikesSorted
  BY <1>1, EmptySeq DEF SpikesSorted, IsAscending, TypeOK
<1>3. SourcesAhead
  BY <1>1 DEF SourcesAhead, TypeOK
<1>4. SpikeLedger
  BY EmptySeq DEF SpikeLedger, Zero, Counters
<1>5. NothingLeftBehind /\ CountersConserved
  BY DEF NothingLeftBehind, CountersConserved, Zero, Counters
<1> QED
  BY <1>1, <1>2, <1>3, <1>4, <1>5 DEF IInv

\* One more event of kind c: every counter keeps its type and its balance.
LEMMA CountStep ==
  ASSUME fired \in [Counters -> Nat], latch \in [Counters -> Nat],
         drained \in [Counters -> Nat], CountersConserved,
         NEW c \in Counters, Count(c), UNCHANGED drained
  PROVE  /\ fired' \in [Counters -> Nat] /\ latch' \in [Counters -> Nat]
         /\ CountersConserved'
         /\ \A k \in Counters : fired'[k] = IF k = c THEN fired[k] + 1 ELSE fired[k]
BY DEF Count, CountersConserved

\* The head of a sorted buffer is the earliest of all pending spikes.
LEMMA HeadIsEarliest ==
  ASSUME pendingSpikes \in Seq(Nat), SpikesSorted, pendingSpikes # <<>>
  PROVE  /\ Head(pendingSpikes) \in Nat
         /\ \A i \in 1..Len(pendingSpikes) : Head(pendingSpikes) <= pendingSpikes[i]
<1>1. Len(pendingSpikes) \in Nat \ {0}
  BY EmptySeq
<1>2. Head(pendingSpikes) = pendingSpikes[1] /\ Head(pendingSpikes) \in Nat
  BY <1>1, HeadTailProperties
<1>3. \A i \in 1..Len(pendingSpikes) : pendingSpikes[i] \in Nat
  BY ElementOfSeq
<1>4. ASSUME NEW i \in 1..Len(pendingSpikes)
      PROVE  pendingSpikes[1] <= pendingSpikes[i]
  BY <1>1, <1>3 DEF SpikesSorted, IsAscending
<1> QED
  BY <1>2, <1>4

\* Counting one more keeps a table of counts a table of counts.
LEMMA BumpType ==
  ASSUME NEW S, NEW f \in [S -> Nat], NEW x
  PROVE  [f EXCEPT ![x] = @ + 1] \in [S -> Nat]
<1>1. CASE x \in S
  BY <1>1
<1>2. CASE x \notin S
  BY <1>2
<1> QED
  BY <1>1, <1>2

LEMMA FireBaseInv == IInv /\ FireBase => IInv'
<1> SUFFICES ASSUME IInv, FireBase PROVE IInv'
  OBVIOUS
<1> USE DEF IInv
<1>1. PICK s \in Streams : 
        /\ PoissonIsEarliest(s)
        /\ BeforeDeadline(poissonStreams[s])
        /\ \E gap \in Gaps : /\ Draw(gap)
                             /\ poissonStreams' = [poissonStreams EXCEPT ![s] = @ + gap]
        /\ Count("base")
        /\ Return(poissonStreams[s])
        /\ UNCHANGED <<nextBurstOnset, pendingSpikes, drainVars, announced, delivered>>
  BY DEF FireBase
<1>2. PICK gap \in Gaps : Draw(gap) /\ poissonStreams' = [poissonStreams EXCEPT ![s] = @ + gap]
  BY <1>1
<1>3. gap \in Nat /\ Deadline \in Nat /\ ZeroGapBudget \in Nat
  BY SchedulerAssumption
<1>4. /\ poissonStreams' \in [Streams -> Nat]
      /\ \A r \in Streams : poissonStreams'[r] >= poissonStreams[r]
      /\ poissonStreams[s] \in Nat
  BY <1>2, <1>3 DEF TypeOK
<1>5. lastAt' = poissonStreams[s] /\ exhausted' = exhausted
  BY <1>1 DEF Return
<1>6. zeroGaps' \in 0..ZeroGapBudget
  BY <1>2, <1>3 DEF Draw, TypeOK
<1>7. /\ fired' \in [Counters -> Nat] /\ latch' \in [Counters -> Nat]
      /\ CountersConserved'
      /\ fired'["spikes"] = fired["spikes"] /\ fired'["bursts"] = fired["bursts"]
  BY <1>1, CountStep DEF drainVars, TypeOK, Counters
<1>8. TypeOK'
  <2>1. lastAt' \in 0..(Deadline - 1)
    BY <1>1, <1>3, <1>4, <1>5 DEF BeforeDeadline
  <2>2. UNCHANGED <<nextBurstOnset, pendingSpikes, drained, drainStep,
                    announced, delivered, exhausted>>
    BY <1>1, <1>5 DEF drainVars
  <2> QED
    BY <1>4, <1>6, <1>7, <2>1, <2>2 DEF TypeOK
<1>9. SpikesSorted' /\ SpikeLedger'
  BY <1>1, <1>7 DEF SpikesSorted, SpikeLedger
<1>10. SourcesAhead'
  <2>1. \A r \in Streams : poissonStreams'[r] >= lastAt'
    BY <1>1, <1>4, <1>5, <1>8 DEF PoissonIsEarliest, TypeOK
  <2>2. \A i \in 1..Len(pendingSpikes) : pendingSpikes[i] >= lastAt'
    <3> SUFFICES ASSUME NEW i \in 1..Len(pendingSpikes) PROVE pendingSpikes[i] >= lastAt'
      OBVIOUS
    <3>1. pendingSpikes # <<>>
      BY EmptySeq
    <3>2. pendingSpikes[i] \in Nat
      BY ElementOfSeq DEF TypeOK
    <3>3. /\ Head(pendingSpikes) \in Nat
          /\ Head(pendingSpikes) <= pendingSpikes[i]
      BY <3>1, HeadIsEarliest DEF TypeOK
    <3>4. poissonStreams[s] <= Head(pendingSpikes)
      BY <1>1, <3>1 DEF PoissonIsEarliest
    <3> QED
      BY <1>4, <1>5, <3>2, <3>3, <3>4
  <2>3. BurstEnabled => nextBurstOnset >= lastAt'
    BY <1>1, <1>4, <1>5 DEF PoissonIsEarliest, TypeOK
  <2> QED
    BY <1>1, <2>1, <2>2, <2>3 DEF SourcesAhead
<1>11. NothingLeftBehind'
  <2>1. ~exhausted
    BY <1>1, <1>3, <1>4 DEF NothingLeftBehind, BeforeDeadline
  <2> QED
    BY <1>5, <2>1 DEF NothingLeftBehind
<1> QED
  BY <1>7, <1>8, <1>9, <1>10, <1>11

LEMMA FireSpikeInv == IInv /\ FireSpike => IInv'
<1> SUFFICES ASSUME IInv, FireSpike PROVE IInv'
  OBVIOUS
<1> USE DEF IInv
<1>1. /\ pendingSpikes # <<>> /\ pendingSpikes \in Seq(Nat)
      /\ BeforeDeadline(Head(pendingSpikes))
      /\ pendingSpikes' = Tail(pendingSpikes)
  BY DEF FireSpike, SpikeIsEarliest, TypeOK
<1>2. Deadline \in Nat
  BY SchedulerAssumption
<1>3. /\ Head(pendingSpikes) \in Nat
      /\ \A i \in 1..Len(pendingSpikes) : Head(pendingSpikes) <= pendingSpikes[i]
      /\ \A i \in 1..Len(pendingSpikes) : pendingSpikes[i] \in Nat
  BY <1>1, HeadIsEarliest, ElementOfSeq
<1>4. /\ pendingSpikes' \in Seq(Nat)
      /\ Len(pendingSpikes) \in Nat \ {0}
      /\ Len(pendingSpikes') = Len(pendingSpikes) - 1
      /\ \A i \in 1..Len(pendingSpikes') :
            i + 1 \in 1..Len(pendingSpikes) /\ pendingSpikes'[i] = pendingSpikes[i + 1]
  BY <1>1, HeadTailProperties, EmptySeq
<1>5. lastAt' = Head(pendingSpikes) /\ exhausted' = exhausted
  BY DEF FireSpike, Return
<1>6. /\ fired' \in [Counters -> Nat] /\ latch' \in [Counters -> Nat]
      /\ CountersConserved'
      /\ fired'["spikes"] = fired["spikes"] + 1 /\ fired'["bursts"] = fired["bursts"]
  BY CountStep DEF FireSpike, drainVars, TypeOK, Counters
<1>8. TypeOK'
  <2>1. delivered' \in [0..(Deadline - 1) -> Nat]
    BY BumpType DEF FireSpike, TypeOK
  <2>2. lastAt' \in 0..(Deadline - 1)
    BY <1>1, <1>2, <1>3, <1>5 DEF BeforeDeadline
  <2>3. UNCHANGED <<poissonStreams, nextBurstOnset, zeroGaps, drained, drainStep,
                    announced, exhausted>>
    BY <1>5 DEF FireSpike, drainVars
  <2> QED
    BY <1>4, <1>6, <2>1, <2>2, <2>3 DEF TypeOK
<1>9. SpikesSorted'
  <2> SUFFICES ASSUME NEW i \in 1..Len(pendingSpikes'), NEW j \in 1..Len(pendingSpikes'), i < j
               PROVE  pendingSpikes'[i] <= pendingSpikes'[j]
    BY DEF SpikesSorted, IsAscending
  <2>1. /\ i + 1 \in 1..Len(pendingSpikes) /\ pendingSpikes'[i] = pendingSpikes[i + 1]
        /\ j + 1 \in 1..Len(pendingSpikes) /\ pendingSpikes'[j] = pendingSpikes[j + 1]
    BY <1>4
  <2> QED
    BY <2>1 DEF SpikesSorted, IsAscending
<1>10. SpikeLedger'
  <2>1. fired["spikes"] \in Nat
    BY DEF TypeOK, Counters
  <2> QED
    BY <1>4, <1>6, <2>1 DEF SpikeLedger
<1>11. SourcesAhead'
  BY <1>3, <1>4, <1>5 DEF SourcesAhead, FireSpike, SpikeIsEarliest, TypeOK
<1>12. NothingLeftBehind'
  <2>1. ~exhausted
    BY <1>1, <1>2, <1>3, <1>4 DEF NothingLeftBehind, BeforeDeadline
  <2> QED
    BY <1>5, <2>1 DEF NothingLeftBehind
<1> QED
  BY <1>6, <1>8, <1>9, <1>10, <1>11, <1>12

\* One more burst of n spikes on both sides of the ledger.
LEMMA OneMoreBurst ==
  ASSUME NEW n \in Nat, NEW bursts \in Nat
  PROVE  n * bursts \in Nat /\ n * (bursts + 1) = n * bursts + n
<1>1. n * bursts \in Nat
  BY TimesMonotone
<1>2. n * (bursts + 1) = n * bursts + n
  OBVIOUS
<1> QED
  BY <1>1, <1>2

LEMMA SpawnBurstInv ==
  ASSUME OffsetsFit
  PROVE  IInv /\ SpawnBurst => IInv'
<1> SUFFICES ASSUME IInv, SpawnBurst PROVE IInv'
  OBVIOUS
<1> USE DEF IInv
<1>1. Size \in Nat /\ Size > 0 /\ Deadline \in Nat /\ Gaps \subseteq Nat /\ Period \in Nat
      /\ ZeroGapBudget \in Nat
  BY SchedulerAssumption DEF SpawnBurst, OnsetIsEarliest, BurstEnabled
<1>2. PICK offsets \in FreshOffsets :
        pendingSpikes' = MergeSpikes([i \in 1..Size |-> nextBurstOnset + offsets[i]])
  BY DEF SpawnBurst
<1>3. /\ pendingSpikes \in Seq(Nat) /\ nextBurstOnset \in Nat /\ lastAt \in Nat
      /\ lastAt <= nextBurstOnset
      /\ \A i \in 1..Len(pendingSpikes) : pendingSpikes[i] >= lastAt
  BY <1>1 DEF TypeOK, SourcesAhead, SpawnBurst, OnsetIsEarliest
<1>4. /\ pendingSpikes' \in Seq(Nat)
      /\ Len(pendingSpikes') = Len(pendingSpikes) + Size
      /\ IsAscending(pendingSpikes')
      /\ \A i \in 1..Len(pendingSpikes') : pendingSpikes'[i] >= lastAt
  BY <1>1, <1>2, <1>3, MergeSpikesSorted
<1>5. PICK gap \in OnsetGaps : Draw(gap) /\ nextBurstOnset' = nextBurstOnset + gap
  BY DEF SpawnBurst
<1>6. gap \in Nat /\ nextBurstOnset' \in Nat /\ nextBurstOnset <= nextBurstOnset'
  BY <1>1, <1>3, <1>5 DEF OnsetGaps
<1>7. zeroGaps' \in 0..ZeroGapBudget
  BY <1>1, <1>5, <1>6 DEF Draw, TypeOK
<1>8. /\ fired' \in [Counters -> Nat] /\ latch' \in [Counters -> Nat]
      /\ CountersConserved'
      /\ fired'["spikes"] = fired["spikes"] /\ fired'["bursts"] = fired["bursts"] + 1
  BY CountStep DEF SpawnBurst, drainVars, TypeOK, Counters
<1>9. UNCHANGED <<poissonStreams, drained, drainStep, lastAt, exhausted, delivered>>
  BY DEF SpawnBurst, drainVars
<1>11. announced' \in Seq(Nat)
  BY <1>3, AppendProperties DEF SpawnBurst, TypeOK
<1>12. TypeOK'
  BY <1>4, <1>6, <1>7, <1>8, <1>9, <1>11 DEF TypeOK
<1>13. SpikesSorted'
  BY <1>4 DEF SpikesSorted
<1>14. SpikeLedger'
  <2>1. fired["spikes"] \in Nat /\ fired["bursts"] \in Nat /\ Len(pendingSpikes) \in Nat
    BY <1>3, LenProperties DEF TypeOK, Counters
  <2>2. fired["spikes"] + Len(pendingSpikes) = Size * fired["bursts"]
    BY DEF SpikeLedger
  <2>3. fired["spikes"] + (Len(pendingSpikes) + Size) = Size * (fired["bursts"] + 1)
    <3> DEFINE before == Size * fired["bursts"]
               after  == Size * (fired["bursts"] + 1)
    <3>1. before \in Nat /\ after = before + Size
      BY ONLY <1>1, <2>1, OneMoreBurst
    <3>2. fired["spikes"] + Len(pendingSpikes) = before
      BY <2>2
    <3> HIDE DEF before, after
    <3>3. fired["spikes"] + (Len(pendingSpikes) + Size) = after
      BY ONLY <1>1, <2>1, <3>1, <3>2
    <3> QED
      BY ONLY <3>3 DEF after
  <2>4. Len(pendingSpikes') = Len(pendingSpikes) + Size
    BY <1>4
  <2> QED
    BY ONLY <1>8, <2>3, <2>4 DEF SpikeLedger
<1>15. SourcesAhead'
  BY <1>3, <1>4, <1>6, <1>9 DEF SourcesAhead
<1>16. NothingLeftBehind'
  <2>1. nextBurstOnset < Deadline /\ BurstEnabled
    BY DEF SpawnBurst, OnsetIsEarliest, BeforeDeadline
  <2>2. ~exhausted
    BY <1>1, <1>3, <2>1 DEF NothingLeftBehind
  <2> QED
    BY <1>9, <2>2 DEF NothingLeftBehind
<1> QED
  BY <1>8, <1>12, <1>13, <1>14, <1>15, <1>16

LEMMA ExhaustInv == IInv /\ Exhaust => IInv'
<1> SUFFICES ASSUME IInv, Exhaust PROVE IInv'
  OBVIOUS
<1> USE DEF IInv
<1>1. UNCHANGED <<poissonStreams, nextBurstOnset, pendingSpikes, zeroGaps, fired,
                  latch, drained, drainStep, lastAt, announced, delivered>>
  BY DEF Exhaust, streamVars, drainVars
<1>2. TypeOK'
  BY <1>1 DEF TypeOK, Exhaust
<1>3. SpikesSorted' /\ SourcesAhead' /\ SpikeLedger' /\ CountersConserved'
  BY <1>1 DEF SpikesSorted, SourcesAhead, SpikeLedger, CountersConserved
<1>4. NothingLeftBehind'
  <2>1. NothingBeforeDeadline /\ Deadline \in Nat /\ pendingSpikes \in Seq(Nat)
    BY SchedulerAssumption DEF Exhaust, TypeOK
  <2>2. ASSUME NEW i \in 1..Len(pendingSpikes)
        PROVE  pendingSpikes[i] >= Deadline
    <3>1. pendingSpikes # <<>> /\ pendingSpikes[i] \in Nat
      BY <2>1, EmptySeq, ElementOfSeq
    <3>2. Head(pendingSpikes) \in Nat /\ Head(pendingSpikes) <= pendingSpikes[i]
      BY <2>1, <3>1, HeadIsEarliest
    <3>3. Head(pendingSpikes) >= Deadline
      BY <2>1, <3>1, <3>2 DEF NothingBeforeDeadline, BeforeDeadline
    <3> QED
      BY ONLY <2>1, <3>1, <3>2, <3>3
  <2> QED
    BY <1>1, <2>1, <2>2 DEF NothingBeforeDeadline, BeforeDeadline, NothingLeftBehind, TypeOK
<1> QED
  BY <1>2, <1>3, <1>4

LEMMA DrainInv == IInv /\ Drain => IInv'
<1> SUFFICES ASSUME IInv, Drain PROVE IInv'
  OBVIOUS
<1> USE DEF IInv
<1>1. UNCHANGED <<poissonStreams, nextBurstOnset, pendingSpikes, zeroGaps, fired,
                  lastAt, exhausted, announced, delivered>>
  BY DEF Drain, streamVars, callerVars
<1>2. /\ latch' \in [Counters -> Nat] /\ drained' \in [Counters -> Nat]
      /\ CountersConserved'
  BY <1>1 DEF Drain, TypeOK, CountersConserved
<1>3. drainStep' \in Counters
  BY DEF Drain, TypeOK, Counters, StepAfter
<1>4. TypeOK'
  BY <1>1, <1>2, <1>3 DEF TypeOK
<1>5. SpikesSorted' /\ SourcesAhead' /\ SpikeLedger' /\ NothingLeftBehind'
  BY <1>1 DEF SpikesSorted, SourcesAhead, SpikeLedger, NothingLeftBehind
<1> QED
  BY <1>2, <1>4, <1>5

LEMMA StutterInv == IInv /\ UNCHANGED vars => IInv'
<1> SUFFICES ASSUME IInv, UNCHANGED vars PROVE IInv'
  OBVIOUS
<1>1. UNCHANGED <<poissonStreams, nextBurstOnset, pendingSpikes, zeroGaps, fired,
                  latch, drained, drainStep, lastAt, exhausted, announced, delivered>>
  BY DEF vars, streamVars, drainVars, callerVars
<1>2. TypeOK'
  BY <1>1 DEF IInv, TypeOK
<1>3. SpikesSorted' /\ SourcesAhead' /\ SpikeLedger'
  BY <1>1 DEF IInv, SpikesSorted, SourcesAhead, SpikeLedger
<1>4. NothingLeftBehind' /\ CountersConserved'
  BY <1>1 DEF IInv, NothingLeftBehind, CountersConserved
<1> QED
  BY <1>2, <1>3, <1>4 DEF IInv

----------------------------------------------------------------------------
(* The theorems *)

\* The inductive invariant holds in every behaviour of the scheduler.
THEOREM Inductive ==
  ASSUME OffsetsFit
  PROVE  Spec => []IInv
<1>1. IInv /\ [Next]_vars => IInv'
  BY FireBaseInv, FireSpikeInv, SpawnBurstInv, ExhaustInv, DrainInv, StutterInv
     DEF Next, Produce
<1> QED
  BY <1>1, InitInv, PTL DEF Spec

\* Every variable of the scheduler keeps its type; in particular Next never
\* returns a time at or past the deadline (lastAt).
THEOREM TypeCorrect ==
  ASSUME OffsetsFit
  PROVE  Spec => []TypeOK
BY Inductive, PTL DEF IInv

\* pendingSpikes is sorted whatever bursts overlap and whatever shape draws.
THEOREM BufferSorted ==
  ASSUME OffsetsFit
  PROVE  Spec => []SpikesSorted
BY Inductive, PTL DEF IInv

\* No source falls behind the time Next returned last.
THEOREM NoLateArrival ==
  ASSUME OffsetsFit
  PROVE  Spec => []SourcesAhead
BY Inductive, PTL DEF IInv

\* Spikes are conserved: Size per burst, each of them returned or pending.
THEOREM SpikesConserved ==
  ASSUME OffsetsFit
  PROVE  Spec => []SpikeLedger
BY Inductive, PTL DEF IInv

\* At the end of the schedule nothing due before the deadline is left.
THEOREM ScheduleComplete ==
  ASSUME OffsetsFit
  PROVE  Spec => []NothingLeftBehind
BY Inductive, PTL DEF IInv

\* No interleaving of Next and DrainCounters loses or repeats an event.
THEOREM DrainsConserve ==
  ASSUME OffsetsFit
  PROVE  Spec => []CountersConserved
BY Inductive, PTL DEF IInv

----------------------------------------------------------------------------
(* Counting spikes by their time, under fixed jitter                       *)

\* The onsets are the multiples of Period, each before the deadline.
OnsetInv ==
  /\ nextBurstOnset = (Len(announced) + 1) * Period
  /\ \A k \in 1..Len(announced) : announced[k] = k * Period /\ announced[k] < Deadline

\* The burst overlay puts nothing else into the buffer than a burst's spikes.
LEMMA MergeAmount ==
  ASSUME pendingSpikes \in Seq(Nat), NEW fresh \in Seq(Nat), NEW T
  PROVE  Amount(MergeSpikes(fresh), T) = Amount(pendingSpikes, T) + Amount(fresh, T)
<1> DEFINE both == pendingSpikes \o fresh
<1>1. both \in Seq(Nat) /\ Amount(both, T) = Amount(pendingSpikes, T) + Amount(fresh, T)
  BY AmountConcat, ConcatProperties
<1>2. Amount(fresh, T) \in Nat /\ Amount(pendingSpikes, T) \in Nat
  BY AmountType
<1> HIDE DEF both
<1>3. CASE pendingSpikes = <<>>
  <2>3. \A i \in 1..Len(pendingSpikes) : pendingSpikes[i] \notin T
    BY <1>3, EmptySeq
  <2>1. Amount(pendingSpikes, T) = 0
    BY <2>3, AmountType
  <2>2. MergeSpikes(fresh) = fresh
    BY <1>3 DEF MergeSpikes
  <2> QED
    BY <1>2, <2>1, <2>2
<1>4. CASE pendingSpikes # <<>>
  <2>1. MergeSpikes(fresh) = SortTimes(both)
    BY <1>4 DEF MergeSpikes, both
  <2>2. both \in Seq(Int) /\ Nat \subseteq Int
    BY <1>1, SeqMonotonic
  <2>3. Amount(SortTimes(both), T) = Amount(both, T)
    BY <2>2, AmountSorted
  <2> QED
    BY <1>1, <2>1, <2>3
<1> QED
  BY <1>3, <1>4

\* What a burst puts there.
LEMMA SpawnFacts ==
  ASSUME OffsetsFit, IInv, SpawnBurst
  PROVE  \E offsets \in FreshOffsets, fresh \in Seq(Nat) :
           /\ offsets \in Seq(Nat) /\ Len(offsets) = Size
           /\ fresh = [i \in 1..Size |-> nextBurstOnset + offsets[i]] /\ Len(fresh) = Size
           /\ pendingSpikes' = MergeSpikes(fresh)
           /\ Size \in Nat /\ Size > 0 /\ Period \in Nat /\ Period > 0
           /\ Len(announced) \in Nat /\ Len(announced') = Len(announced) + 1
           /\ announced'[Len(announced) + 1] = nextBurstOnset
           /\ \A k \in 1..Len(announced) : announced'[k] = announced[k]
           /\ nextBurstOnset < Deadline
           /\ Jitter = "fixed" => nextBurstOnset' = nextBurstOnset + Period
<1>1. /\ Size \in Nat /\ Size > 0 /\ Period \in Nat /\ Period > 0
      /\ nextBurstOnset \in Nat /\ announced \in Seq(Nat)
  BY SchedulerAssumption DEF SpawnBurst, OnsetIsEarliest, BurstEnabled, IInv, TypeOK
<1>2. PICK offsets \in FreshOffsets :
        pendingSpikes' = MergeSpikes([i \in 1..Size |-> nextBurstOnset + offsets[i]])
  BY DEF SpawnBurst
<1>3. offsets \in Seq(Nat) /\ Len(offsets) = Size
  BY <1>1, FreshOffsetsAscend
<1> DEFINE fresh == [i \in 1..Size |-> nextBurstOnset + offsets[i]]
<1>4. fresh \in Seq(Nat) /\ Len(fresh) = Size
  <2>1. \A i \in 1..Size : offsets[i] \in Nat
    BY <1>3, ElementOfSeq
  <2>2. fresh \in [1..Size -> Nat]
    BY <1>1, <2>1
  <2> QED
    BY <1>1, <2>2, SeqDef, LenProperties
<1>5. announced' = Append(announced, nextBurstOnset)
  BY DEF SpawnBurst
<1>6. /\ Len(announced) \in Nat /\ Len(announced') = Len(announced) + 1
      /\ announced'[Len(announced) + 1] = nextBurstOnset
      /\ \A k \in 1..Len(announced) : announced'[k] = announced[k]
  BY <1>1, <1>5, AppendProperties, LenProperties
<1>7. nextBurstOnset < Deadline /\ (Jitter = "fixed" => nextBurstOnset' = nextBurstOnset + Period)
  BY DEF SpawnBurst, BeforeDeadline, OnsetGaps
<1> HIDE DEF fresh
<1>8. fresh = [i \in 1..Size |-> nextBurstOnset + offsets[i]] /\ pendingSpikes' = MergeSpikes(fresh)
  BY <1>2 DEF fresh
<1> QED
  BY <1>1, <1>3, <1>4, <1>6, <1>7, <1>8

\* The other steps leave the onsets alone.
LEMMA OnsetsKept ==
  ASSUME FireBase \/ FireSpike \/ Exhaust \/ Drain \/ UNCHANGED vars
  PROVE  UNCHANGED <<nextBurstOnset, announced>>
BY DEF FireBase, FireSpike, Exhaust, Drain, vars, streamVars, callerVars

LEMMA OnsetStep ==
  ASSUME OffsetsFit, Jitter = "fixed", IInv, OnsetInv, [Next]_vars
  PROVE  OnsetInv'
<1>1. CASE SpawnBurst
  <2> DEFINE K == Len(announced)
  <2>1. /\ Period \in Nat /\ K \in Nat /\ Len(announced') = K + 1
        /\ announced'[K + 1] = nextBurstOnset
        /\ \A k \in 1..K : announced'[k] = announced[k]
        /\ nextBurstOnset < Deadline /\ nextBurstOnset' = nextBurstOnset + Period
    BY <1>1, SpawnFacts
  <2>2. nextBurstOnset = (K + 1) * Period
    BY DEF OnsetInv
  <2>3. ((K + 1) + 1) * Period = (K + 1) * Period + Period
    BY <2>1
  <2>4. ASSUME NEW k \in 1..(K + 1)
        PROVE  announced'[k] = k * Period /\ announced'[k] < Deadline
    <3>1. k \in 1..K \/ k = K + 1
      BY <2>1
    <3> QED
      BY <2>1, <2>2, <3>1 DEF OnsetInv
  <2> QED
    BY <2>1, <2>2, <2>3, <2>4 DEF OnsetInv
<1>2. CASE FireBase \/ FireSpike \/ Exhaust \/ Drain \/ UNCHANGED vars
  BY <1>2, OnsetsKept DEF OnsetInv
<1> QED
  BY <1>1, <1>2 DEF Next, Produce

----------------------------------------------------------------------------
(* The timetable                                                           *)

Offset(i) == IF Shape = "spike" THEN (i - 1) * Microsecond ELSE (Window * (i - 1)) \div Size

\* The spikes of the first K bursts that are due at t.
Due(K, t) == {ki \in (1..K) \X (1..Size) : ki[1] * Period + Offset(ki[2]) = t}

\* Every spike of the bursts so far is delivered or pending, at its own time.
TimetableInv ==
  \A t \in 0..(Deadline - 1) :
    delivered[t] + Amount(pendingSpikes, {t}) = Cardinality(Due(Len(announced), t))

\* A shape without randomness has the offsets of the timetable.
LEMMA OffsetsOfShape ==
  ASSUME OffsetsFit, Size > 0, Shape # "random", NEW offsets \in FreshOffsets
  PROVE  \A i \in 1..Size : offsets[i] = Offset(i)
<1>1. Size \in Nat /\ Window \in Nat /\ IntMax \in Nat /\ Microsecond \in Nat
  BY SchedulerAssumption
<1>2. CASE Shape = "spike"
  BY <1>2 DEF FreshOffsets, SpikeOffsets, Offset
<1>3. CASE Shape # "spike"
  <2> SUFFICES ASSUME NEW i \in 1..Size PROVE offsets[i] = Offset(i)
    OBVIOUS
  <2>1. offsets = UniformOffsets
    BY <1>3 DEF FreshOffsets
  <2>2. i - 1 \in Nat /\ Size - 1 \in Nat /\ i - 1 <= Size - 1
    BY <1>1
  <2>3. /\ Window * (i - 1) \in Nat /\ Window * (Size - 1) \in Nat
        /\ Window * (i - 1) <= Window * (Size - 1)
    BY <1>1, <2>2, TimesMonotone
  <2>4. Wrap(Window * (i - 1)) = Window * (i - 1)
    BY <1>1, <2>3 DEF OffsetsFit, Wrap
  <2>5. GoDiv(Window * (i - 1), Size) = (Window * (i - 1)) \div Size
    BY <2>3 DEF GoDiv
  <2> QED
    BY <1>3, <2>1, <2>4, <2>5 DEF UniformOffsets, Offset
<1> QED
  BY <1>2, <1>3

\* One more burst adds its spikes to what is due.
LEMMA DueNext ==
  ASSUME NEW K \in Nat, NEW t, Size \in Nat, NEW fresh \in Seq(Nat), Len(fresh) = Size,
         \A i \in 1..Size : fresh[i] = (K + 1) * Period + Offset(i)
  PROVE  /\ IsFiniteSet(Due(K, t)) /\ Cardinality(Due(K, t)) \in Nat
         /\ Cardinality(Due(K + 1, t)) = Cardinality(Due(K, t)) + Amount(fresh, {t})
<1> DEFINE A == Places(fresh, {t})
           C == {ki \in Due(K + 1, t) : ki[1] = K + 1}
           p == [i \in A |-> <<K + 1, i>>]
<1>1. IsFiniteSet(Due(K, t)) /\ Cardinality(Due(K, t)) \in Nat
  <2>1. IsFiniteSet(1..K) /\ IsFiniteSet(1..Size)
    BY InitialSegment, Zenon
  <2>2. IsFiniteSet((1..K) \X (1..Size))
    BY <2>1, FS_Product
  <2>3. Due(K, t) \in SUBSET ((1..K) \X (1..Size))
    BY DEF Due
  <2>4. IsFiniteSet(Due(K, t))
    BY <2>2, <2>3, FS_Subset
  <2> QED
    BY <2>4, FS_CardinalityType
<1>2. Due(K + 1, t) = Due(K, t) \cup C /\ Due(K, t) \cap C = {}
  <2>1. \A k : k \in 1..(K + 1) <=> k \in 1..K \/ k = K + 1
    OBVIOUS
  <2>2. \A k \in 1..K : k # K + 1
    OBVIOUS
  <2>3. Due(K, t) \subseteq Due(K + 1, t) /\ Due(K, t) \cap C = {}
    BY <2>1, <2>2 DEF Due
  <2>4. \A ki \in Due(K + 1, t) : ki \in Due(K, t) \/ ki[1] = K + 1
    BY <2>1 DEF Due
  <2> QED
    BY <2>3, <2>4
<1>3. p \in [A -> C]
  <2> SUFFICES ASSUME NEW i \in A PROVE <<K + 1, i>> \in C
    OBVIOUS
  <2>1. i \in 1..Size /\ (K + 1) * Period + Offset(i) = t
    BY DEF Places
  <2> QED
    BY <2>1 DEF Due
<1>4. \A i, j \in A : p[i] = p[j] => i = j
  OBVIOUS
<1>5. \A c \in C : \E i \in A : p[i] = c
  <2> SUFFICES ASSUME NEW c \in C PROVE \E i \in A : p[i] = c
    OBVIOUS
  <2>1. c \in (1..(K + 1)) \X (1..Size) /\ c[1] = K + 1 /\ c[1] * Period + Offset(c[2]) = t
    BY DEF Due
  <2>2. c[2] \in 1..Size /\ c = <<K + 1, c[2]>> /\ fresh[c[2]] = t
    BY <2>1
  <2>3. c[2] \in A
    BY <2>2 DEF Places
  <2> QED
    BY <2>2, <2>3
<1>6. IsFiniteSet(A)
  BY AmountType
<1> HIDE DEF A, C, p
<1>7. IsFiniteSet(C) /\ Cardinality(C) = Cardinality(A)
  BY <1>3, <1>4, <1>5, <1>6, SameAmount
<1>8. Cardinality(Due(K, t) \cup C) = Cardinality(Due(K, t)) + Cardinality(C)
  <2>1. Cardinality(Due(K, t) \cap C) = 0
    BY <1>2, FS_EmptySet
  <2>2. Cardinality(Due(K, t) \cup C)
          = Cardinality(Due(K, t)) + Cardinality(C) - Cardinality(Due(K, t) \cap C)
    BY <1>1, <1>7, FS_Union
  <2>3. Cardinality(C) \in Nat
    BY <1>7, FS_CardinalityType
  <2> QED
    BY <1>1, <2>1, <2>2, <2>3
<1> QED
  BY <1>1, <1>2, <1>7, <1>8 DEF A, Amount

LEMMA TimetableStart == Init => TimetableInv
<1> SUFFICES ASSUME Init, NEW t \in 0..(Deadline - 1)
             PROVE  delivered[t] + Amount(pendingSpikes, {t}) = Cardinality(Due(Len(announced), t))
  BY DEF TimetableInv
<1>1. delivered[t] = 0 /\ pendingSpikes = <<>> /\ announced = <<>>
  BY DEF Init
<1>2. Amount(<<>>, {t}) = 0
  <2>1. <<>> \in Seq(Nat) /\ Len(<<>>) = 0
    BY EmptySeq
  <2>2. \A i \in 1..Len(<<>>) : <<>>[i] \notin {t}
    BY <2>1
  <2> QED
    BY <2>1, <2>2, AmountType
<1>3. Due(0, t) = {}
  BY DEF Due
<1>4. Cardinality(Due(0, t)) = 0
  BY <1>3, FS_EmptySet
<1>5. Len(announced) = 0
  BY <1>1, EmptySeq
<1> QED
  BY <1>1, <1>2, <1>4, <1>5

LEMMA TimetableSpawn ==
  ASSUME OffsetsFit, Jitter = "fixed", Shape # "random", IInv, OnsetInv, TimetableInv, SpawnBurst
  PROVE  TimetableInv'
<1> SUFFICES ASSUME NEW t \in 0..(Deadline - 1)
             PROVE  delivered'[t] + Amount(pendingSpikes', {t}) = Cardinality(Due(Len(announced'), t))
  BY DEF TimetableInv
<1> DEFINE K == Len(announced)
<1>1. PICK offsets \in FreshOffsets, fresh \in Seq(Nat) :
        /\ offsets \in Seq(Nat) /\ Len(offsets) = Size
        /\ fresh = [i \in 1..Size |-> nextBurstOnset + offsets[i]] /\ Len(fresh) = Size
        /\ pendingSpikes' = MergeSpikes(fresh)
        /\ Size \in Nat /\ Size > 0 /\ K \in Nat /\ Len(announced') = K + 1
  BY SpawnFacts
<1>2. pendingSpikes \in Seq(Nat) /\ delivered[t] \in Nat /\ delivered' = delivered
  BY DEF IInv, TypeOK, SpawnBurst
<1>3. \A i \in 1..Size : fresh[i] = (K + 1) * Period + Offset(i)
  BY <1>1, OffsetsOfShape DEF OnsetInv
<1> HIDE DEF K
<1>4. /\ Cardinality(Due(K, t)) \in Nat
      /\ Cardinality(Due(K + 1, t)) = Cardinality(Due(K, t)) + Amount(fresh, {t})
  BY <1>1, <1>3, DueNext
<1>5. Amount(MergeSpikes(fresh), {t}) = Amount(pendingSpikes, {t}) + Amount(fresh, {t})
  BY <1>1, <1>2, MergeAmount
<1>6. Amount(pendingSpikes, {t}) \in Nat /\ Amount(fresh, {t}) \in Nat
  BY <1>1, <1>2, AmountType
<1>7. delivered[t] + Amount(pendingSpikes, {t}) = Cardinality(Due(K, t))
  BY DEF TimetableInv, K
<1>8. PICK a \in Nat : a = Amount(pendingSpikes, {t})
  BY <1>6
<1>9. PICK b \in Nat : b = Amount(fresh, {t})
  BY <1>6
<1>10. PICK d \in Nat : d = Cardinality(Due(K, t))
  BY <1>4
<1>11. PICK x \in Nat : x = delivered[t]
  BY <1>2
<1>12. x + a = d
  BY <1>7, <1>8, <1>10, <1>11
<1>13. x + (a + b) = d + b
  BY ONLY <1>12
<1>14. delivered'[t] = x
  BY <1>2, <1>11
<1>15. Amount(pendingSpikes', {t}) = a + b
  BY <1>1, <1>5, <1>8, <1>9
<1>16. Cardinality(Due(Len(announced'), t)) = d + b
  BY <1>1, <1>4, <1>9, <1>10
<1> QED
  BY ONLY <1>13, <1>14, <1>15, <1>16

LEMMA TimetableFire ==
  ASSUME IInv, TimetableInv, FireSpike
  PROVE  TimetableInv'
<1> SUFFICES ASSUME NEW t \in 0..(Deadline - 1)
             PROVE  delivered'[t] + Amount(pendingSpikes', {t}) = Cardinality(Due(Len(announced'), t))
  BY DEF TimetableInv
<1> DEFINE h == Head(pendingSpikes)
<1>1. /\ pendingSpikes \in Seq(Nat) /\ pendingSpikes # <<>>
      /\ pendingSpikes' = Tail(pendingSpikes) /\ announced' = announced
      /\ delivered \in [0..(Deadline - 1) -> Nat]
      /\ delivered' = [delivered EXCEPT ![h] = @ + 1]
  BY DEF IInv, TypeOK, FireSpike, SpikeIsEarliest
<1>2. Tail(pendingSpikes) \in Seq(Nat)
  BY <1>1, HeadTailProperties
<1>3. delivered'[t] = delivered[t] + IF h \in {t} THEN 1 ELSE 0
  BY <1>1
<1>4. Amount(pendingSpikes, {t}) = Amount(Tail(pendingSpikes), {t}) + IF h \in {t} THEN 1 ELSE 0
  BY <1>1, AmountTail
<1>5. Amount(Tail(pendingSpikes), {t}) \in Nat /\ delivered[t] \in Nat
  BY <1>1, <1>2, AmountType
<1>6. delivered[t] + Amount(pendingSpikes, {t}) = Cardinality(Due(Len(announced), t))
  BY DEF TimetableInv
<1> DEFINE a == Amount(Tail(pendingSpikes), {t})
           c == IF h \in {t} THEN 1 ELSE 0
           d == Cardinality(Due(Len(announced), t))
<1>7. c \in Nat /\ a \in Nat /\ delivered'[t] = delivered[t] + c /\ delivered[t] + (a + c) = d
  BY <1>3, <1>4, <1>5, <1>6
<1>8. Amount(pendingSpikes', {t}) = a /\ Cardinality(Due(Len(announced'), t)) = d
  BY <1>1
<1> HIDE DEF a, c, d
<1> QED
  BY <1>5, <1>7, <1>8

LEMMA TimetableStep ==
  ASSUME OffsetsFit, Jitter = "fixed", Shape # "random", IInv, OnsetInv, TimetableInv, [Next]_vars
  PROVE  TimetableInv'
<1>1. CASE FireBase \/ Exhaust \/ Drain \/ UNCHANGED vars
  <2>1. UNCHANGED <<delivered, pendingSpikes, announced>>
    BY <1>1 DEF FireBase, Exhaust, Drain, vars, streamVars, callerVars
  <2> QED
    BY <2>1 DEF TimetableInv
<1> QED
  BY <1>1, TimetableSpawn, TimetableFire DEF Next, Produce

\* The timetable of all bursts is due from those that were spawned: the next
\* onset and all later ones lie at or past the deadline.
LEMMA DueAll ==
  ASSUME NEW K \in Nat, Period \in Nat, Period > 0, Deadline \in Nat,
         (K + 1) * Period >= Deadline,
         \A k \in 1..K : k * Period < Deadline,
         NEW t \in 0..(Deadline - 1), Size \in Nat, \A i \in 1..Size : Offset(i) \in Nat
  PROVE  Due(Deadline, t) = Due(K, t)
<1>1. ASSUME NEW k \in 1..K PROVE k \in 1..Deadline
  <2>1. k * 1 <= k * Period /\ k * Period \in Nat
    BY TimesMonotone
  <2>2. k * Period < Deadline
    OBVIOUS
  <2> QED
    BY <2>1, <2>2
<1>2. ASSUME NEW k \in 1..Deadline, NEW i \in 1..Size, k * Period + Offset(i) = t PROVE k \in 1..K
  <2>1. CASE k > K
    <3>1. Period * (K + 1) <= Period * k /\ Period * (K + 1) \in Nat /\ Period * k \in Nat
      BY <2>1, TimesMonotone
    <3>2. Period * (K + 1) = (K + 1) * Period /\ Period * k = k * Period
      OBVIOUS
    <3>3. Offset(i) \in Nat
      OBVIOUS
    <3> DEFINE x == (K + 1) * Period
               y == k * Period
    <3>4. x <= y /\ x \in Nat /\ y \in Nat /\ x >= Deadline /\ y + Offset(i) = t
      BY <1>2, <3>1, <3>2
    <3> HIDE DEF x, y
    <3> QED
      BY <3>3, <3>4
  <2> QED
    BY <2>1
<1> QED
  BY <1>1, <1>2 DEF Due

\* At the end of the stream the ledger of times is the timetable.
LEMMA TimetableAtEnd ==
  ASSUME OffsetsFit, BurstEnabled, Jitter = "fixed", Shape # "random",
         IInv, OnsetInv, TimetableInv, exhausted, NEW t \in 0..(Deadline - 1)
  PROVE  delivered[t] = Cardinality(Due(Deadline, t))
<1> DEFINE K == Len(announced)
<1>1. /\ Size \in Nat /\ Size > 0 /\ Period \in Nat /\ Period > 0 /\ Window \in Nat
      /\ Microsecond \in Nat /\ Deadline \in Nat
  BY SchedulerAssumption DEF BurstEnabled
<1>2. /\ pendingSpikes \in Seq(Nat) /\ delivered[t] \in Nat /\ K \in Nat
      /\ \A i \in 1..Len(pendingSpikes) : pendingSpikes[i] >= Deadline
      /\ nextBurstOnset >= Deadline
  BY LenProperties DEF IInv, TypeOK, NothingLeftBehind
<1>3. Amount(pendingSpikes, {t}) = 0
  <2>1. \A i \in 1..Len(pendingSpikes) : pendingSpikes[i] \in Nat
    BY <1>2, ElementOfSeq
  <2>2. \A i \in 1..Len(pendingSpikes) : pendingSpikes[i] \notin {t}
    BY <1>1, <1>2, <2>1
  <2> QED
    BY <1>2, <2>2, AmountType
<1>4. \A i \in 1..Size : Offset(i) \in Nat
  <2> SUFFICES ASSUME NEW i \in 1..Size PROVE Offset(i) \in Nat
    OBVIOUS
  <2>1. i - 1 \in Nat
    OBVIOUS
  <2>2. Window * (i - 1) \in Nat /\ Microsecond * (i - 1) \in Nat
    BY <1>1, <2>1, TimesMonotone
  <2>3. (Window * (i - 1)) \div Size \in Nat /\ (i - 1) * Microsecond \in Nat
    BY <1>1, <2>1, <2>2, DivMonotone
  <2> QED
    BY <2>3 DEF Offset
<1>5. (K + 1) * Period >= Deadline /\ \A k \in 1..K : k * Period < Deadline
  BY <1>2 DEF OnsetInv
<1> HIDE DEF K
<1>6. Due(Deadline, t) = Due(K, t)
  BY <1>1, <1>2, <1>4, <1>5, DueAll
<1>7. delivered[t] + Amount(pendingSpikes, {t}) = Cardinality(Due(K, t))
  BY DEF TimetableInv, K
<1> QED
  BY <1>2, <1>3, <1>6, <1>7

\* A run that is over has returned exactly the spikes of its timetable: under
\* fixed jitter and a shape without randomness, each spike k*Period + offset
\* before the deadline was returned once, and no other.
THEOREM TimetableKept ==
  ASSUME OffsetsFit
  PROVE  Spec => []Timetable
<1>1. CASE Jitter = "fixed" /\ Shape # "random"
  <2>1. Init => OnsetInv /\ TimetableInv
    <3>1. Init => OnsetInv
      BY SchedulerAssumption, EmptySeq DEF Init, OnsetInv
    <3> QED
      BY <3>1, TimetableStart
  <2>2. IInv /\ OnsetInv /\ TimetableInv /\ [Next]_vars => OnsetInv' /\ TimetableInv'
    BY <1>1, OnsetStep, TimetableStep
  <2>3. IInv /\ OnsetInv /\ TimetableInv => Timetable
    <3> SUFFICES ASSUME IInv, OnsetInv, TimetableInv, exhausted, BurstEnabled,
                        NEW t \in 0..(Deadline - 1)
                 PROVE  delivered[t] = Cardinality(Due(Deadline, t))
      BY DEF Timetable, Due, Offset
    <3> QED
      BY <1>1, TimetableAtEnd
  <2> QED
    BY <2>1, <2>2, <2>3, Inductive, PTL DEF Spec
<1>2. CASE ~(Jitter = "fixed" /\ Shape # "random")
  <2>1. Timetable
    BY <1>2 DEF Timetable
  <2> QED
    BY <2>1, PTL
<1> QED
  BY <1>1, <1>2

----------------------------------------------------------------------------
(* Where and how many: overlapping bursts under fixed jitter               *)

\* The times from the end of burst m on; every time when no burst is meant.
From(m) == IF m = 0 THEN Nat ELSE {x \in Nat : x >= m * Period + Window}

\* Every pending spike lies in the window of a burst and not before the last
\* onset, and from the end of burst m on only the spikes of later bursts can
\* be pending.
ConfinedInv ==
  /\ SpikesInWindow
  /\ \A i \in 1..Len(pendingSpikes) : pendingSpikes[i] >= Len(announced) * Period
  /\ \A m \in 0..Len(announced) :
       Amount(pendingSpikes, From(m)) <= Size * (Len(announced) - m)

\* A quotient by n is below w when the dividend is below n * w.
LEMMA QuotientBelow ==
  ASSUME NEW x \in Nat, NEW n \in Nat, n > 0, NEW w \in Nat, x < n * w
  PROVE  x \div n \in Nat /\ x \div n < w
<1>1. x \div n \in Nat /\ n * (x \div n) <= x
  OBVIOUS
<1>2. CASE x \div n >= w
  <2>1. n * w <= n * (x \div n)
    BY <1>1, <1>2, TimesMonotone
  <2> QED
    BY <1>1, <2>1, TimesMonotone
<1> QED
  BY <1>1, <1>2

\* Shape "spike" ignores the window; its spikes, a microsecond apart, may or
\* may not fit into it.
FitsWindow == Shape = "spike" => Microsecond * (Size - 1) < Window

\* The offsets of shapes "uniform" and "random" stay below the window.
LEMMA OffsetsWithinWindow ==
  ASSUME OffsetsFit, FitsWindow, Size > 0, NEW offsets \in FreshOffsets
  PROVE  \A i \in 1..Size : offsets[i] \in 0..(Window - 1)
<1>1. Size \in Nat /\ Window \in Nat /\ Window > 0 /\ Shape \in Shapes /\ Microsecond \in Nat
  BY SchedulerAssumption DEF Validate
<1>2. CASE Shape = "random"
  <2>1. PICK o \in [1..Size -> 0..(Window - 1)] : offsets = SortTimes(o)
    BY <1>2 DEF FreshOffsets, RandomOffsets
  <2> DEFINE R == 0..(Window - 1)
  <2>2. o \in Seq(R) /\ Len(o) = Size
    BY <1>1, <2>1, SeqDef, LenProperties
  <2>3. R \subseteq Int
    BY <1>1
  <2> HIDE DEF R
  <2>4. o \in Seq(Int)
    BY <2>2, <2>3, SeqMonotonic
  <2>5. offsets \in Seq(R) /\ Len(offsets) = Size
    BY <2>1, <2>2, <2>3, SortTimesType
  <2>6. \A i \in 1..Size : offsets[i] \in R
    BY <2>5, ElementOfSeq
  <2> QED
    BY <2>6 DEF R
<1>3. CASE Shape = "uniform"
  <2> SUFFICES ASSUME NEW i \in 1..Size PROVE offsets[i] \in 0..(Window - 1)
    OBVIOUS
  <2>1. offsets[i] = (Window * (i - 1)) \div Size
    BY <1>3, OffsetsOfShape DEF Offset
  <2>2. i - 1 \in Nat /\ i - 1 <= Size - 1 /\ Size - 1 \in Nat
    BY <1>1
  <2>3. /\ Window * (i - 1) \in Nat /\ Window * (Size - 1) \in Nat
        /\ Window * (i - 1) <= Window * (Size - 1)
    BY <1>1, <2>2, TimesMonotone
  <2>4. Window * (Size - 1) = Size * Window - Window
    BY <1>1
  <2> DEFINE x == Window * (i - 1)
             y == Size * Window
  <2>5. y \in Nat /\ x \in Nat /\ x < y
    BY <1>1, <2>3, <2>4, TimesMonotone
  <2>6. x \div Size \in Nat /\ x \div Size < Window
    BY <1>1, <2>5, QuotientBelow
  <2> QED
    BY <1>1, <2>1, <2>6
<1>4. CASE Shape = "spike"
  <2> SUFFICES ASSUME NEW i \in 1..Size PROVE offsets[i] \in 0..(Window - 1)
    OBVIOUS
  <2>1. offsets[i] = (i - 1) * Microsecond
    BY <1>4, OffsetsOfShape DEF Offset
  <2>2. i - 1 \in Nat /\ Size - 1 \in Nat /\ i - 1 <= Size - 1
    BY <1>1
  <2>3. /\ Microsecond * (i - 1) \in Nat /\ Microsecond * (Size - 1) \in Nat
        /\ Microsecond * (i - 1) <= Microsecond * (Size - 1)
    BY <1>1, <2>2, TimesMonotone
  <2>4. offsets[i] = Microsecond * (i - 1)
    BY <1>1, <2>1, <2>2
  <2> QED
    BY <1>1, <1>4, <2>3, <2>4 DEF FitsWindow
<1> QED
  BY <1>1, <1>2, <1>3, <1>4 DEF Shapes

\* A merge of spikes that all lie in T has all its places in T.
LEMMA MergeAll ==
  ASSUME pendingSpikes \in Seq(Nat), NEW fresh \in Seq(Nat), NEW T, MergeSpikes(fresh) \in Seq(Nat),
         \A i \in 1..Len(pendingSpikes) : pendingSpikes[i] \in T,
         \A i \in 1..Len(fresh) : fresh[i] \in T
  PROVE  Len(MergeSpikes(fresh)) = Amount(MergeSpikes(fresh), T)
<1>1. /\ Amount(pendingSpikes, T) = Len(pendingSpikes)
      /\ Amount(fresh, T) = Len(fresh)
  BY AmountType
<1>2. /\ Amount(pendingSpikes, Nat) = Len(pendingSpikes)
      /\ Amount(fresh, Nat) = Len(fresh)
      /\ Amount(MergeSpikes(fresh), Nat) = Len(MergeSpikes(fresh))
  BY ElementOfSeq, AmountType
<1>3. /\ Amount(MergeSpikes(fresh), T) = Amount(pendingSpikes, T) + Amount(fresh, T)
      /\ Amount(MergeSpikes(fresh), Nat) = Amount(pendingSpikes, Nat) + Amount(fresh, Nat)
  BY MergeAmount
<1> QED
  BY <1>1, <1>2, <1>3

\* Taking the first spike leaves the others where they are.
LEMMA WindowFire ==
  ASSUME IInv, SpikesInWindow, FireSpike
  PROVE  SpikesInWindow'
<1>1. /\ pendingSpikes \in Seq(Nat) /\ pendingSpikes # <<>>
      /\ pendingSpikes' = Tail(pendingSpikes) /\ announced' = announced
  BY DEF IInv, TypeOK, FireSpike, SpikeIsEarliest
<1>2. \A i \in 1..Len(Tail(pendingSpikes)) :
        i + 1 \in 1..Len(pendingSpikes) /\ pendingSpikes'[i] = pendingSpikes[i + 1]
  BY <1>1, HeadTailProperties, EmptySeq
<1> SUFFICES ASSUME NEW i \in 1..Len(pendingSpikes')
             PROVE  \E k \in 1..Len(announced') :
                      pendingSpikes'[i] \in announced'[k]..(announced'[k] + Window - 1)
  BY DEF SpikesInWindow
<1>3. i + 1 \in 1..Len(pendingSpikes) /\ pendingSpikes'[i] = pendingSpikes[i + 1]
  BY <1>1, <1>2
<1>4. PICK k \in 1..Len(announced) :
        pendingSpikes[i + 1] \in announced[k]..(announced[k] + Window - 1)
  BY <1>3 DEF SpikesInWindow
<1> QED
  BY <1>1, <1>3, <1>4

\* The spikes of a burst lie in the window of its onset, and a merge adds no
\* other times.
LEMMA WindowSpawn ==
  ASSUME OffsetsFit, FitsWindow, IInv, SpikesInWindow, SpawnBurst
  PROVE  SpikesInWindow'
<1> DEFINE K == Len(announced)
<1>1. PICK offsets \in FreshOffsets, fresh \in Seq(Nat) :
        /\ fresh = [i \in 1..Size |-> nextBurstOnset + offsets[i]] /\ Len(fresh) = Size
        /\ pendingSpikes' = MergeSpikes(fresh)
        /\ Size \in Nat /\ Size > 0
        /\ K \in Nat /\ Len(announced') = K + 1
        /\ announced'[K + 1] = nextBurstOnset
        /\ \A k \in 1..K : announced'[k] = announced[k]
  BY SpawnFacts
<1>2. /\ pendingSpikes \in Seq(Nat) /\ pendingSpikes' \in Seq(Nat) /\ Window \in Nat
      /\ nextBurstOnset \in Nat
  <2>1. IInv'
    BY SpawnBurstInv
  <2> QED
    BY <2>1, SchedulerAssumption DEF IInv, TypeOK, SpawnBurst, OnsetIsEarliest
<1> DEFINE InSome(x) == \E k \in 1..(K + 1) : x \in announced'[k]..(announced'[k] + Window - 1)
           Room == {x \in Nat : InSome(x)}
<1>3. \A i \in 1..Len(pendingSpikes) : pendingSpikes[i] \in Room
  <2> SUFFICES ASSUME NEW i \in 1..Len(pendingSpikes) PROVE pendingSpikes[i] \in Room
    OBVIOUS
  <2>1. PICK k \in 1..K : pendingSpikes[i] \in announced[k]..(announced[k] + Window - 1)
    BY DEF SpikesInWindow
  <2>2. k \in 1..(K + 1) /\ announced'[k] = announced[k]
    BY <1>1
  <2>3. pendingSpikes[i] \in Nat
    BY <1>2, ElementOfSeq
  <2> QED
    BY <2>1, <2>2, <2>3
<1>4. \A i \in 1..Len(fresh) : fresh[i] \in Room
  <2> SUFFICES ASSUME NEW i \in 1..Size PROVE fresh[i] \in Room
    BY <1>1
  <2>1. offsets[i] \in 0..(Window - 1) /\ fresh[i] = nextBurstOnset + offsets[i]
    BY <1>1, OffsetsWithinWindow
  <2>2. fresh[i] \in nextBurstOnset..(nextBurstOnset + Window - 1) /\ fresh[i] \in Nat
    BY <1>2, <2>1
  <2>3. K + 1 \in 1..(K + 1) /\ announced'[K + 1] = nextBurstOnset
    BY <1>1
  <2>4. InSome(fresh[i])
    BY <2>2, <2>3
  <2> QED
    BY <2>2, <2>4
<1> HIDE DEF K, InSome, Room
<1>5. \A i \in 1..Len(pendingSpikes') : pendingSpikes'[i] \in Room
  <2>1. Len(pendingSpikes') \in Nat
    BY <1>2, LenProperties
  <2>2. Len(pendingSpikes') = Amount(pendingSpikes', Room)
    BY <1>1, <1>2, <1>3, <1>4, MergeAll
  <2> QED
    BY <1>2, <2>2, AmountAll
<1> QED
  BY <1>1, <1>5 DEF SpikesInWindow, InSome, Room

LEMMA ConfinedStart == Init => ConfinedInv
<1> SUFFICES ASSUME Init PROVE ConfinedInv
  OBVIOUS
<1>1. pendingSpikes = <<>> /\ announced = <<>> /\ Len(pendingSpikes) = 0 /\ Len(announced) = 0
      /\ pendingSpikes \in Seq(Nat) /\ Size \in Nat
  BY SchedulerAssumption, EmptySeq DEF Init
<1>2. \A i \in 1..Len(pendingSpikes) : FALSE
  BY <1>1
<1>3. \A m \in 0..Len(announced) : m = 0
  BY <1>1
<1>4. Amount(pendingSpikes, From(0)) = 0
  BY <1>1, <1>2, AmountType
<1>5. Size * (0 - 0) = 0
  BY <1>1
<1>6. \A m \in 0..Len(announced) : Amount(pendingSpikes, From(m)) <= Size * (Len(announced) - m)
  BY <1>1, <1>3, <1>4, <1>5
<1> QED
  BY <1>2, <1>6 DEF ConfinedInv, SpikesInWindow

\* Firing a spike moves nothing and can only lower the counts.
LEMMA ConfinedFire ==
  ASSUME IInv, ConfinedInv, FireSpike
  PROVE  ConfinedInv'
<1>1. /\ pendingSpikes \in Seq(Nat) /\ pendingSpikes # <<>>
      /\ pendingSpikes' = Tail(pendingSpikes) /\ announced' = announced
      /\ announced \in Seq(Nat) /\ Size \in Nat
  BY SchedulerAssumption DEF IInv, TypeOK, FireSpike, SpikeIsEarliest
<1>2. /\ Tail(pendingSpikes) \in Seq(Nat)
      /\ \A i \in 1..Len(Tail(pendingSpikes)) :
           i + 1 \in 1..Len(pendingSpikes) /\ pendingSpikes'[i] = pendingSpikes[i + 1]
  BY <1>1, HeadTailProperties, EmptySeq
<1>3. SpikesInWindow'
  BY WindowFire DEF ConfinedInv
<1>4. \A i \in 1..Len(pendingSpikes') : pendingSpikes'[i] >= Len(announced') * Period
  BY <1>1, <1>2 DEF ConfinedInv
<1>5. ASSUME NEW m \in 0..Len(announced')
      PROVE  Amount(pendingSpikes', From(m)) <= Size * (Len(announced') - m)
  <2>1. Len(announced') = Len(announced) /\ Len(announced) \in Nat
    BY <1>1, LenProperties
  <2>2. Amount(pendingSpikes, From(m)) <= Size * (Len(announced) - m)
    BY <2>1 DEF ConfinedInv
  <2>3. /\ Amount(pendingSpikes, From(m)) \in Nat /\ Amount(Tail(pendingSpikes), From(m)) \in Nat
        /\ Amount(pendingSpikes, From(m))
             = Amount(Tail(pendingSpikes), From(m)) + IF Head(pendingSpikes) \in From(m) THEN 1 ELSE 0
    BY <1>1, <1>2, AmountType, AmountTail
  <2>4. Amount(Tail(pendingSpikes), From(m)) <= Amount(pendingSpikes, From(m))
    BY <2>3
  <2>5. Len(announced) - m \in Nat
    BY <2>1
  <2>6. Size * (Len(announced) - m) \in Nat
    BY <1>1, <2>5, TimesMonotone
  <2>7. PICK bound \in Nat : bound = Size * (Len(announced) - m)
    BY <2>6
  <2>8. Amount(Tail(pendingSpikes), From(m)) <= bound
    BY <2>2, <2>3, <2>4, <2>7
  <2> QED
    BY <1>1, <2>1, <2>7, <2>8
<1> QED
  BY <1>3, <1>4, <1>5 DEF ConfinedInv

LEMMA ConfinedSpawn ==
  ASSUME OffsetsFit, FitsWindow, Jitter = "fixed", IInv, OnsetInv, ConfinedInv, SpawnBurst
  PROVE  ConfinedInv'
<1> DEFINE K == Len(announced)
<1>1. PICK offsets \in FreshOffsets, fresh \in Seq(Nat) :
        /\ offsets \in Seq(Nat) /\ Len(offsets) = Size
        /\ fresh = [i \in 1..Size |-> nextBurstOnset + offsets[i]] /\ Len(fresh) = Size
        /\ pendingSpikes' = MergeSpikes(fresh)
        /\ Size \in Nat /\ Size > 0 /\ Period \in Nat /\ Period > 0
        /\ K \in Nat /\ Len(announced') = K + 1
        /\ announced'[K + 1] = nextBurstOnset
        /\ \A k \in 1..K : announced'[k] = announced[k]
        /\ nextBurstOnset < Deadline /\ nextBurstOnset' = nextBurstOnset + Period
  BY SpawnFacts
<1>2. /\ pendingSpikes \in Seq(Nat) /\ pendingSpikes' \in Seq(Nat) /\ Window \in Nat
      /\ nextBurstOnset = (K + 1) * Period /\ nextBurstOnset \in Nat
  <2>1. IInv'
    BY SpawnBurstInv
  <2> QED
    BY <2>1, SchedulerAssumption DEF IInv, TypeOK, OnsetInv
<1>3. OnsetInv'
  BY OnsetStep DEF Next, Produce
<1>4. \A i \in 1..Size : fresh[i] \in nextBurstOnset..(nextBurstOnset + Window - 1)
  <2>1. \A i \in 1..Size : offsets[i] \in 0..(Window - 1)
    BY <1>1, OffsetsWithinWindow
  <2> SUFFICES ASSUME NEW i \in 1..Size
               PROVE  fresh[i] \in nextBurstOnset..(nextBurstOnset + Window - 1)
    OBVIOUS
  <2>2. fresh[i] = nextBurstOnset + offsets[i]
    BY <1>1
  <2>3. offsets[i] \in 0..(Window - 1)
    BY <2>1
  <2> QED
    BY <1>2, <2>2, <2>3
<1>5. \A i \in 1..Len(pendingSpikes) : pendingSpikes[i] >= nextBurstOnset
  <2> SUFFICES ASSUME NEW i \in 1..Len(pendingSpikes) PROVE pendingSpikes[i] >= nextBurstOnset
    OBVIOUS
  <2>1. pendingSpikes # <<>>
    BY EmptySeq
  <2>2. Head(pendingSpikes) \in Nat /\ Head(pendingSpikes) <= pendingSpikes[i]
    BY <1>2, <2>1, HeadIsEarliest DEF IInv
  <2>3. nextBurstOnset < Head(pendingSpikes)
    BY <2>1 DEF SpawnBurst, OnsetIsEarliest
  <2>4. pendingSpikes[i] \in Nat
    BY <1>2, ElementOfSeq
  <2> QED
    BY <1>2, <2>2, <2>3, <2>4
<1> HIDE DEF K
<1>6. \A i \in 1..Len(pendingSpikes') : pendingSpikes'[i] \in Nat /\ pendingSpikes'[i] >= nextBurstOnset
  <2> DEFINE Ahead == {x \in Nat : x >= nextBurstOnset}
  <2>1. \A i \in 1..Len(pendingSpikes) : pendingSpikes[i] \in Ahead
    BY <1>2, <1>5, ElementOfSeq
  <2>2. \A i \in 1..Len(fresh) : fresh[i] \in Ahead
    BY <1>1, <1>2, <1>4
  <2>3. Len(pendingSpikes') \in Nat
    BY <1>2, LenProperties
  <2> HIDE DEF Ahead
  <2>4. Len(pendingSpikes') = Amount(pendingSpikes', Ahead)
    BY <1>1, <1>2, <2>1, <2>2, MergeAll
  <2>5. \A i \in 1..Len(pendingSpikes') : pendingSpikes'[i] \in Ahead
    BY <1>2, <2>4, AmountAll
  <2> QED
    BY <2>5 DEF Ahead
<1>7. SpikesInWindow'
  BY WindowSpawn DEF ConfinedInv
<1>8. \A i \in 1..Len(pendingSpikes') : pendingSpikes'[i] >= Len(announced') * Period
  BY <1>1, <1>2, <1>6
<1>9. ASSUME NEW m \in 0..(K + 1)
       PROVE  Amount(pendingSpikes', From(m)) <= Size * ((K + 1) - m)
  <2>1. CASE m \in 0..K
    <3>1. Amount(pendingSpikes, From(m)) <= Size * (K - m)
      BY <2>1 DEF ConfinedInv, K
    <3>2. Amount(MergeSpikes(fresh), From(m)) = Amount(pendingSpikes, From(m)) + Amount(fresh, From(m))
      BY <1>2, MergeAmount
    <3>3. /\ Amount(pendingSpikes, From(m)) \in Nat /\ Amount(fresh, From(m)) \in Nat
          /\ Amount(fresh, From(m)) <= Size
      BY <1>1, <1>2, AmountType
    <3>4. K - m \in Nat /\ (K + 1) - m = (K - m) + 1
      BY <1>1, <2>1
    <3>5. Size * (K - m) \in Nat /\ Size * ((K - m) + 1) = Size * (K - m) + Size
      BY <1>1, <3>4, OneMoreBurst
    <3>6. PICK a \in Nat, b \in Nat, c \in Nat :
            /\ a = Amount(pendingSpikes, From(m)) /\ b = Amount(fresh, From(m))
            /\ c = Size * (K - m)
      BY <3>3, <3>5
    <3>7. a + b <= c + Size
      BY <1>1, <3>1, <3>3, <3>6
    <3>8. Size * ((K + 1) - m) = c + Size
      BY <3>4, <3>5, <3>6
    <3>9. Amount(pendingSpikes', From(m)) = a + b
      BY <1>1, <3>2, <3>6
    <3> QED
      BY ONLY <3>7, <3>8, <3>9
  <2>2. CASE m = K + 1
    <3>1. \A i \in 1..Len(pendingSpikes') : pendingSpikes'[i] \notin From(m)
      <4> SUFFICES ASSUME NEW i \in 1..Len(pendingSpikes'), pendingSpikes'[i] \in From(m) PROVE FALSE
        OBVIOUS
      <4>1. pendingSpikes'[i] \in Nat /\ pendingSpikes'[i] >= nextBurstOnset + Window
        BY <1>1, <1>2, <2>2 DEF From
      <4>2. PICK k \in 1..(K + 1) : pendingSpikes'[i] \in announced'[k]..(announced'[k] + Window - 1)
        BY <1>1, <1>7 DEF SpikesInWindow
      <4>3. announced'[k] = k * Period
        BY <1>1, <1>3 DEF OnsetInv
      <4>4. Period * k <= Period * (K + 1) /\ Period * k = k * Period /\ k * Period \in Nat
            /\ Period * (K + 1) = (K + 1) * Period
        BY <1>1, TimesMonotone
      <4>5. announced'[k] \in Nat /\ announced'[k] <= nextBurstOnset
        BY <1>2, <4>3, <4>4
      <4> QED
        BY <1>2, <4>1, <4>2, <4>5
    <3>2. Amount(pendingSpikes', From(m)) = 0
      BY <1>2, <3>1, AmountType
    <3>3. (K + 1) - m = 0 /\ Size * 0 = 0
      BY <1>1, <2>2
    <3> QED
      BY <3>2, <3>3
  <2> QED
    BY <1>1, <2>1, <2>2
<1> QED
  BY <1>1, <1>7, <1>8, <1>9 DEF ConfinedInv

LEMMA ConfinedStep ==
  ASSUME OffsetsFit, FitsWindow, Jitter = "fixed", IInv, OnsetInv, ConfinedInv, [Next]_vars
  PROVE  ConfinedInv'
<1>1. CASE FireBase \/ Exhaust \/ Drain \/ UNCHANGED vars
  <2>1. UNCHANGED <<pendingSpikes, announced>>
    BY <1>1 DEF FireBase, Exhaust, Drain, vars, streamVars, callerVars
  <2> QED
    BY <2>1 DEF ConfinedInv, SpikesInWindow
<1> QED
  BY <1>1, ConfinedSpawn, ConfinedFire DEF Next, Produce

\* The onset of burst K lies at or past the end of every burst before the last c.
LEMMA LastOnset ==
  ASSUME NEW K \in Nat, NEW c \in Nat, NEW p \in Nat, NEW w \in Nat, NEW x \in Nat,
         c < K, w <= c * p, x >= K * p
  PROVE  x >= (K - c) * p + w
<1> DEFINE m == K - c
<1>1. m \in Nat /\ K = m + c
  OBVIOUS
<1> HIDE DEF m
<1>2. (m + c) * p = m * p + c * p
  BY <1>1
<1>3. m * p \in Nat /\ c * p \in Nat
  BY <1>1, TimesMonotone
<1>4. K * p = m * p + c * p
  BY <1>1, <1>2
<1>5. PICK y \in Nat, z \in Nat : y = m * p /\ z = c * p
  BY <1>3
<1>6. x >= y + z /\ w <= z
  BY <1>4, <1>5
<1>7. x >= y + w
  BY ONLY <1>6
<1> QED
  BY <1>5, <1>7 DEF m

\* The last c bursts are the only ones with spikes pending, when c periods
\* cover the window.
LEMMA RoomForPending ==
  ASSUME OffsetsFit, BurstEnabled, IInv, ConfinedInv, NEW c \in Nat, Window <= c * Period
  PROVE  Len(pendingSpikes) <= Size * c
<1> DEFINE K == Len(announced)
<1>1. /\ Size \in Nat /\ Period \in Nat /\ Window \in Nat
      /\ pendingSpikes \in Seq(Nat) /\ K \in Nat /\ Len(pendingSpikes) \in Nat
  BY SchedulerAssumption, LenProperties DEF IInv, TypeOK, BurstEnabled
<1> DEFINE m == IF K <= c THEN 0 ELSE K - c
<1>2. m \in 0..K /\ K - m \in Nat /\ K - m <= c
  BY <1>1
<1>3. \A i \in 1..Len(pendingSpikes) : pendingSpikes[i] \in From(m)
  <2> SUFFICES ASSUME NEW i \in 1..Len(pendingSpikes) PROVE pendingSpikes[i] \in From(m)
    OBVIOUS
  <2>1. pendingSpikes[i] \in Nat /\ pendingSpikes[i] >= K * Period
    BY <1>1, ElementOfSeq DEF ConfinedInv
  <2>2. CASE K <= c
    BY <2>1, <2>2 DEF From
  <2>3. CASE K > c
    <3>1. m = K - c /\ m # 0 /\ m \in Nat
      BY <1>1, <2>3
    <3>5. pendingSpikes[i] >= (K - c) * Period + Window
      BY <1>1, <2>1, <2>3, LastOnset
    <3> QED
      BY <2>1, <3>1, <3>5 DEF From
  <2> QED
    BY <1>1, <2>2, <2>3
<1> HIDE DEF m
<1>4. Amount(pendingSpikes, From(m)) = Len(pendingSpikes)
  BY <1>1, <1>3, AmountType
<1>5. Amount(pendingSpikes, From(m)) <= Size * (K - m)
  BY <1>2 DEF ConfinedInv
<1>6. Size * (K - m) <= Size * c /\ Size * (K - m) \in Nat /\ Size * c \in Nat
  BY <1>1, <1>2, TimesMonotone
<1> QED
  BY <1>1, <1>4, <1>5, <1>6

\* ceil(Window / Period) periods cover the window.
LEMMA CeilingCovers ==
  ASSUME NEW w \in Nat, NEW p \in Nat, p > 0
  PROVE  (w + p - 1) \div p \in Nat /\ w <= ((w + p - 1) \div p) * p
<1> DEFINE c == (w + p - 1) \div p
<1>1. w + p - 1 \in Nat
  OBVIOUS
<1>2. c \in Nat /\ w + p - 1 < p * c + p
  BY <1>1
<1>3. p * c = c * p
  BY <1>2
<1> QED
  BY <1>2, <1>3, TimesMonotone

\* Overlapping bursts stay within their room and within their time: the
\* pending spikes never outnumber those of ceil(Window/Period)+1 bursts, and
\* each lies within Window of an onset.  Onsets with poisson jitter may crowd,
\* so the room is not claimed of those.
THEOREM BurstsStayConfined ==
  ASSUME OffsetsFit, FitsWindow, Jitter = "fixed"
  PROVE  Spec => []BurstsConfined
<1>1. Init => OnsetInv /\ ConfinedInv
  <2>1. Init => OnsetInv
    BY SchedulerAssumption, EmptySeq DEF Init, OnsetInv
  <2> QED
    BY <2>1, ConfinedStart
<1>2. IInv /\ OnsetInv /\ ConfinedInv /\ [Next]_vars => OnsetInv' /\ ConfinedInv'
  BY OnsetStep, ConfinedStep
<1>3. IInv /\ ConfinedInv => BurstsConfined
  <2> SUFFICES ASSUME IInv, ConfinedInv, BurstEnabled
               PROVE  Len(pendingSpikes) <= Size * (((Window + Period - 1) \div Period) + 1)
    BY DEF BurstsConfined, OverlapBound, ConfinedInv
  <2> DEFINE c == (Window + Period - 1) \div Period
  <2>1. /\ Size \in Nat /\ Period \in Nat /\ Period > 0 /\ Window \in Nat
        /\ Len(pendingSpikes) \in Nat
    BY SchedulerAssumption, LenProperties DEF BurstEnabled, IInv, TypeOK
  <2>2. c \in Nat /\ Window <= c * Period
    BY <2>1, CeilingCovers
  <2> HIDE DEF c
  <2>3. Len(pendingSpikes) <= Size * c
    BY <2>2, RoomForPending
  <2>4. Size * c <= Size * (c + 1) /\ Size * c \in Nat /\ Size * (c + 1) \in Nat
    BY <2>1, <2>2, TimesMonotone
  <2> QED
    BY <2>1, <2>3, <2>4 DEF c
<1> QED
  BY <1>1, <1>2, <1>3, Inductive, PTL DEF Spec

\* With poisson jitter as well, every pending spike lies within Window of the
\* onset of a burst that was announced.
THEOREM SpikesStayInWindow ==
  ASSUME OffsetsFit, FitsWindow
  PROVE  Spec => []SpikesInWindow
<1>1. Init => SpikesInWindow
  BY ConfinedStart DEF ConfinedInv
<1>2. IInv /\ SpikesInWindow /\ [Next]_vars => SpikesInWindow'
  <2> SUFFICES ASSUME IInv, SpikesInWindow, [Next]_vars PROVE SpikesInWindow'
    OBVIOUS
  <2>1. CASE FireBase \/ Exhaust \/ Drain \/ UNCHANGED vars
    <3>1. UNCHANGED <<pendingSpikes, announced>>
      BY <2>1 DEF FireBase, Exhaust, Drain, vars, streamVars, callerVars
    <3> QED
      BY <3>1 DEF SpikesInWindow
  <2> QED
    BY <2>1, WindowFire, WindowSpawn DEF Next, Produce
<1> QED
  BY <1>1, <1>2, Inductive, PTL DEF Spec

----------------------------------------------------------------------------
(* Implementation of ArrivalStream *)

\* The scheduler implements ArrivalStream.
THEOREM ImplementsStream ==
  ASSUME OffsetsFit
  PROVE  Spec => StreamSpec
<1>1. Init => Stream!Init
  BY DEF Init, Zero, Counters, Stream!Init
<1>2. IInv /\ [Next]_vars => [Stream!Next]_(Stream!vars)
  <2> SUFFICES ASSUME IInv, [Next]_vars
               PROVE  Stream!Next \/ UNCHANGED Stream!vars
    OBVIOUS
  <2> USE DEF IInv
  <2>1. /\ Deadline \in Nat /\ lastAt \in Nat
        /\ fired["base"] \in Nat /\ fired["spikes"] \in Nat /\ fired["bursts"] \in Nat
        /\ pendingSpikes \in Seq(Nat)
        /\ "base" \in Counters /\ "spikes" \in Counters /\ "bursts" \in Counters
    BY SchedulerAssumption DEF TypeOK, Counters
  <2>2. ASSUME FireBase PROVE Stream!Next
    <3>1. PICK s \in Streams : /\ BeforeDeadline(poissonStreams[s])
                               /\ Count("base") /\ Return(poissonStreams[s])
      BY <2>2 DEF FireBase
    <3>2. poissonStreams[s] \in Nat /\ lastAt <= poissonStreams[s] /\ ~exhausted
      <4>1. poissonStreams[s] \in Nat
        BY <3>1 DEF TypeOK
      <4>2. lastAt <= poissonStreams[s]
        BY <2>1, <4>1 DEF SourcesAhead
      <4>3. ~(poissonStreams[s] >= Deadline)
        BY <2>1, <3>1, <4>1 DEF BeforeDeadline
      <4> QED
        BY <4>1, <4>2, <4>3 DEF NothingLeftBehind
    <3>3. lastAt' \in lastAt..(Deadline - 1) /\ exhausted' = exhausted
      BY <2>1, <3>1, <3>2 DEF Return, BeforeDeadline
    <3>4. fired'["base"] + fired'["spikes"] = fired["base"] + fired["spikes"] + 1
      BY <2>1, <3>1 DEF Count, TypeOK
    <3> QED
      BY <3>2, <3>3, <3>4 DEF Stream!Next, Stream!Arrive
  <2>3. ASSUME FireSpike PROVE Stream!Next
    <3>1. /\ pendingSpikes # <<>> /\ BeforeDeadline(Head(pendingSpikes))
          /\ Count("spikes") /\ Return(Head(pendingSpikes))
      BY <2>3 DEF FireSpike, SpikeIsEarliest
    <3>2. /\ Head(pendingSpikes) = pendingSpikes[1]
          /\ 1 \in 1..Len(pendingSpikes) /\ pendingSpikes[1] \in Nat
      BY <2>1, <3>1, EmptySeq, ElementOfSeq
    <3>3. lastAt <= pendingSpikes[1] /\ ~exhausted
      BY <2>1, <3>1, <3>2 DEF SourcesAhead, NothingLeftBehind, BeforeDeadline
    <3>4. lastAt' \in lastAt..(Deadline - 1) /\ exhausted' = exhausted
      BY <2>1, <3>1, <3>2, <3>3 DEF Return, BeforeDeadline
    <3>5. fired'["base"] + fired'["spikes"] = fired["base"] + fired["spikes"] + 1
      BY <2>1, <3>1 DEF Count, TypeOK
    <3> QED
      BY <3>3, <3>4, <3>5 DEF Stream!Next, Stream!Arrive
  <2>4. ASSUME SpawnBurst PROVE UNCHANGED Stream!vars
    <3>1. Count("bursts") /\ UNCHANGED <<lastAt, exhausted>>
      BY <2>4 DEF SpawnBurst
    <3>2. fired'["base"] = fired["base"] /\ fired'["spikes"] = fired["spikes"]
      BY <2>1, <3>1 DEF Count, TypeOK
    <3> QED
      BY <3>1, <3>2 DEF Stream!vars
  <2>5. ASSUME Exhaust PROVE Stream!Next
    BY <2>5 DEF Exhaust, Stream!Next, Stream!End
  <2>6. ASSUME Drain \/ UNCHANGED vars PROVE UNCHANGED Stream!vars
    BY <2>6 DEF Drain, callerVars, vars, Stream!vars
  <2> QED
    BY <2>2, <2>3, <2>4, <2>5, <2>6 DEF Next, Produce
<1> QED
  BY <1>1, <1>2, Inductive, PTL DEF Spec, StreamSpec, Stream!Spec

----------------------------------------------------------------------------
(* The inductive invariant *)

LoopType ==
  /\ now \in 0..MaxTime /\ stalled \in 0..MaxStall
  /\ dispatcher \in {"next", "check", "sleep", "record", "enqueue", "closed"}
  /\ nextAt \in Nat /\ lastRecorded \in Nat /\ enqueueStart \in Nat
  /\ sent \in Nat /\ lag \in Nat /\ blocked \in Nat
  /\ queue \in 0..QueueCapacity

\* The arrival in hand is the one that Next has returned last, and no time
\* that the loop has noted is in the future.
TimesNoted ==
  /\ nextAt = lastAt
  /\ lastRecorded <= now /\ enqueueStart <= now
  /\ dispatcher = "record" => now >= nextAt
  /\ dispatcher = "enqueue" => lastRecorded = enqueueStart /\ lastRecorded >= nextAt

\* How late the loop is, wherever it is: a delay that is not a stall has been
\* added to one sum by the time the next arrival is taken, and to the other as
\* soon as the arrival is seen to be late.
DelayExplained ==
  /\ dispatcher \in {"next", "check", "sleep", "record"} => now - nextAt <= blocked + stalled
  /\ dispatcher \in {"sleep", "record"} => now - nextAt <= lag + stalled

LoopInv == LoopType /\ TimesNoted /\ SentMatchesFired /\ DelayExplained /\ LatenessExplained

----------------------------------------------------------------------------
(* What the loop relies on in the scheduler *)

\* An arrival is never before the one that Next returned last, and it is counted.
LEMMA ArrivalTaken ==
  ASSUME IInv, FireBase \/ FireSpike
  PROVE  /\ lastAt' >= lastAt
         /\ fired'["base"] + fired'["spikes"] = fired["base"] + fired["spikes"] + 1
<1> USE DEF IInv
<1>1. /\ lastAt \in Nat /\ pendingSpikes \in Seq(Nat) /\ fired \in [Counters -> Nat]
      /\ fired["base"] \in Nat /\ fired["spikes"] \in Nat
      /\ "base" \in Counters /\ "spikes" \in Counters
  BY DEF TypeOK, Counters
<1>2. ASSUME FireBase
      PROVE  /\ lastAt' >= lastAt
             /\ fired'["base"] + fired'["spikes"] = fired["base"] + fired["spikes"] + 1
  <2>1. PICK s \in Streams : Count("base") /\ Return(poissonStreams[s])
    BY <1>2 DEF FireBase
  <2>2. lastAt' >= lastAt
    BY <2>1 DEF Return, SourcesAhead
  <2>3. fired'["base"] + fired'["spikes"] = fired["base"] + fired["spikes"] + 1
    BY <1>1, <2>1 DEF Count
  <2> QED
    BY <2>2, <2>3
<1>3. ASSUME FireSpike
      PROVE  /\ lastAt' >= lastAt
             /\ fired'["base"] + fired'["spikes"] = fired["base"] + fired["spikes"] + 1
  <2>1. pendingSpikes # <<>> /\ Count("spikes") /\ Return(Head(pendingSpikes))
    BY <1>3 DEF FireSpike, SpikeIsEarliest
  <2>2. Head(pendingSpikes) = pendingSpikes[1] /\ 1 \in 1..Len(pendingSpikes)
    BY <1>1, <2>1, EmptySeq
  <2>3. lastAt' >= lastAt
    BY <2>1, <2>2 DEF Return, SourcesAhead
  <2>4. fired'["base"] + fired'["spikes"] = fired["base"] + fired["spikes"] + 1
    BY <1>1, <2>1 DEF Count
  <2> QED
    BY <2>3, <2>4
<1> QED
  BY <1>2, <1>3

\* The scheduler's invariant through any step of the loop.
LEMMA SchedulerKept ==
  ASSUME OffsetsFit, IInv, [ReplayNext]_replayVars
  PROVE  IInv'
<1>1. FireBase \/ FireSpike \/ SpawnBurst \/ Exhaust \/ UNCHANGED vars
  BY DEF ReplayNext, Dispatch, SpawnInNext, TakeNext, CloseJobs, FallAsleep, GoOn, WakeUp,
         RecordDispatch, Enqueue, WorkerTakes, Tick, Over, replayVars
<1> QED
  BY <1>1, FireBaseInv, FireSpikeInv, SpawnBurstInv, ExhaustInv, StutterInv

----------------------------------------------------------------------------
(* The invariant of the loop *)

LEMMA LoopInit == ReplayInit => LoopInv
<1> SUFFICES ASSUME ReplayInit PROVE LoopInv
  OBVIOUS
<1> USE ReplayerAssumption DEF ReplayInit
<1>1. LoopType
  BY DEF LoopType
<1>2. TimesNoted
  BY DEF TimesNoted, Init
<1>3. SentMatchesFired
  BY DEF SentMatchesFired, InHand, Init, Zero, Counters
<1>4. DelayExplained /\ LatenessExplained
  BY DEF DelayExplained, LatenessExplained
<1> QED
  BY <1>1, <1>2, <1>3, <1>4 DEF LoopInv

\* The parts that speak of the scheduler, through a step that leaves it alone
\* and takes and sends nothing.
LEMMA TotalsFrame ==
  ASSUME IInv, SentMatchesFired, UNCHANGED <<vars, sent>>, InHand' = InHand
  PROVE  SentMatchesFired' /\ lastAt' = lastAt
BY DEF SentMatchesFired, vars, callerVars

LEMMA LoopStep == IInv /\ LoopInv /\ [ReplayNext]_replayVars => LoopInv'
<1> SUFFICES ASSUME IInv, LoopInv, [ReplayNext]_replayVars PROVE LoopInv'
  OBVIOUS
<1> USE DEF LoopInv
<1>1. /\ now \in Nat /\ stalled \in Nat /\ MaxTime \in Nat /\ MaxStall \in Nat
      /\ queue \in Nat /\ QueueCapacity \in Nat
      /\ nextAt \in Nat /\ lastRecorded \in Nat /\ enqueueStart \in Nat
      /\ sent \in Nat /\ lag \in Nat /\ blocked \in Nat /\ lastAt \in Nat
      /\ fired["base"] \in Nat /\ fired["spikes"] \in Nat
  BY ReplayerAssumption DEF LoopType, IInv, TypeOK, Counters
<1>2. CASE SpawnInNext \/ CloseJobs
  <2>1. /\ dispatcher = "next" /\ dispatcher' \in {"next", "closed"}
        /\ UNCHANGED <<now, queue, stalled, nextAt, enqueueStart, lastRecorded, sent, lag,
                       blocked>>
    BY <1>2 DEF SpawnInNext, CloseJobs, Step, loopVars
  <2>2. /\ lastAt' = lastAt
        /\ fired'["base"] = fired["base"] /\ fired'["spikes"] = fired["spikes"]
    BY <1>2 DEF SpawnInNext, CloseJobs, SpawnBurst, Exhaust, Count, IInv, TypeOK, Counters
  <2>3. LoopType'
    BY <2>1 DEF LoopType
  <2>4. TimesNoted'
    BY <2>1, <2>2 DEF TimesNoted
  <2>5. SentMatchesFired'
    BY <2>1, <2>2 DEF SentMatchesFired, InHand
  <2>6. DelayExplained' /\ LatenessExplained'
    BY <2>1 DEF DelayExplained, LatenessExplained
  <2> QED
    BY <2>3, <2>4, <2>5, <2>6
<1>3. CASE TakeNext
  <2>1. /\ dispatcher = "next" /\ dispatcher' = "check" /\ nextAt' = lastAt'
        /\ UNCHANGED <<now, queue, stalled, enqueueStart, lastRecorded, sent, lag, blocked>>
    BY <1>3 DEF TakeNext, Step
  <2>2. /\ lastAt' >= lastAt
        /\ fired'["base"] + fired'["spikes"] = fired["base"] + fired["spikes"] + 1
    BY <1>3, ArrivalTaken DEF TakeNext
  <2>3. lastAt' \in Nat
    <3>1. FireBase \/ FireSpike
      BY <1>3 DEF TakeNext
    <3>2. IInv'
      BY <3>1, FireBaseInv, FireSpikeInv
    <3> QED
      BY <3>2 DEF IInv, TypeOK
  <2>4. LoopType'
    BY <2>1, <2>3 DEF LoopType
  <2>5. TimesNoted'
    BY <2>1 DEF TimesNoted
  <2>6. SentMatchesFired'
    BY <1>1, <2>1, <2>2 DEF SentMatchesFired, InHand
  <2>7. now - nextAt <= blocked + stalled /\ nextAt <= nextAt'
    BY <2>1, <2>2 DEF DelayExplained, TimesNoted
  <2>8. DelayExplained' /\ LatenessExplained'
    <3>1. now - nextAt' <= blocked + stalled
      <4>1. nextAt' \in Nat
        BY <2>1, <2>3
      <4>2. ASSUME NEW a \in Nat, NEW b \in Nat, NEW c \in Nat, NEW d \in Nat,
                   a - b <= d, b <= c
            PROVE  a - c <= d
        BY ONLY <4>2
      <4>3. blocked + stalled \in Nat
        BY <1>1
      <4> QED
        BY <1>1, <2>7, <4>1, <4>2, <4>3
    <3> QED
      BY <2>1, <3>1 DEF DelayExplained, LatenessExplained
  <2> QED
    BY <2>4, <2>5, <2>6, <2>8
<1>4. CASE FallAsleep \/ WakeUp
  <2>1. /\ \/ dispatcher = "check" /\ dispatcher' = "sleep" /\ now < nextAt
           \/ dispatcher = "sleep" /\ dispatcher' = "record" /\ now >= nextAt
        /\ UNCHANGED <<vars, now, queue, stalled, nextAt, enqueueStart, lastRecorded, sent, lag,
                       blocked>>
    BY <1>4 DEF FallAsleep, WakeUp, Step, loopVars
  <2>2. SentMatchesFired' /\ lastAt' = lastAt
    BY <2>1, TotalsFrame DEF InHand
  <2>3. LoopType'
    BY <2>1 DEF LoopType
  <2>4. TimesNoted'
    BY <2>1, <2>2 DEF TimesNoted
  <2>5. DelayExplained' /\ LatenessExplained'
    BY <1>1, <2>1 DEF DelayExplained, LatenessExplained
  <2> QED
    BY <2>2, <2>3, <2>4, <2>5
<1>5. CASE GoOn
  <2>1. /\ dispatcher = "check" /\ dispatcher' = "record" /\ now >= nextAt
        /\ lag' = lag + (now - nextAt)
        /\ UNCHANGED <<vars, now, queue, stalled, nextAt, enqueueStart, lastRecorded, sent,
                       blocked>>
    BY <1>5 DEF GoOn, Step
  <2>2. SentMatchesFired' /\ lastAt' = lastAt
    BY <2>1, TotalsFrame DEF InHand
  <2>3. lag' \in Nat /\ now - nextAt <= lag' + stalled
    BY <1>1, <2>1
  <2>4. LoopType'
    BY <2>1, <2>3 DEF LoopType
  <2>5. TimesNoted'
    BY <2>1, <2>2 DEF TimesNoted
  <2>6. DelayExplained' /\ LatenessExplained'
    BY <2>1, <2>3 DEF DelayExplained, LatenessExplained
  <2> QED
    BY <2>2, <2>4, <2>5, <2>6
<1>6. CASE RecordDispatch
  <2>1. /\ dispatcher = "record" /\ dispatcher' = "enqueue"
        /\ lastRecorded' = now /\ enqueueStart' = now
        /\ UNCHANGED <<vars, now, queue, stalled, nextAt, sent, lag, blocked>>
    BY <1>6 DEF RecordDispatch, Step
  <2>2. SentMatchesFired' /\ lastAt' = lastAt
    BY <2>1, TotalsFrame DEF InHand
  <2>3. LoopType'
    BY <1>1, <2>1 DEF LoopType
  <2>4. TimesNoted'
    BY <1>1, <2>1, <2>2 DEF TimesNoted
  <2>5. DelayExplained' /\ LatenessExplained'
    BY <2>1 DEF DelayExplained, LatenessExplained
  <2> QED
    BY <2>2, <2>3, <2>4, <2>5
<1>7. CASE Enqueue
  <2>1. /\ dispatcher = "enqueue" /\ dispatcher' = "next" /\ queue < QueueCapacity
        /\ queue' = queue + 1 /\ sent' = sent + 1 /\ blocked' = blocked + (now - enqueueStart)
        /\ UNCHANGED <<vars, now, stalled, nextAt, enqueueStart, lastRecorded, lag>>
    BY <1>7 DEF Enqueue, Step
  <2>2. lastAt' = lastAt /\ fired' = fired
    BY <2>1 DEF vars, callerVars
  <2>3. enqueueStart <= now /\ lastRecorded = enqueueStart
    BY <2>1 DEF TimesNoted
  <2>4. blocked' \in Nat
    BY <1>1, <2>1, <2>3
  <2>5. now - nextAt <= blocked' + stalled
    <3>1. lastRecorded - nextAt <= blocked + stalled
      BY <2>1 DEF LatenessExplained
    <3> QED
      BY <1>1, <2>1, <2>3, <3>1
  <2>6. LoopType'
    BY <1>1, <2>1, <2>4 DEF LoopType
  <2>7. TimesNoted'
    BY <2>1, <2>2 DEF TimesNoted
  <2>8. SentMatchesFired'
    BY <1>1, <2>1, <2>2 DEF SentMatchesFired, InHand
  <2>9. DelayExplained' /\ LatenessExplained'
    BY <2>1, <2>5 DEF DelayExplained, LatenessExplained
  <2> QED
    BY <2>6, <2>7, <2>8, <2>9
<1>8. CASE WorkerTakes
  <2>1. /\ queue > 0 /\ queue' = queue - 1
        /\ UNCHANGED <<vars, now, dispatcher, stalled, nextAt, enqueueStart, lastRecorded, sent,
                       lag, blocked>>
    BY <1>8 DEF WorkerTakes, loopVars
  <2>2. SentMatchesFired' /\ lastAt' = lastAt
    BY <2>1, TotalsFrame DEF InHand
  <2>3. LoopType'
    BY <1>1, <2>1 DEF LoopType
  <2>4. TimesNoted' /\ DelayExplained' /\ LatenessExplained'
    BY <2>1, <2>2 DEF TimesNoted, DelayExplained, LatenessExplained
  <2> QED
    BY <2>2, <2>3, <2>4
<1>9. CASE Tick
  <2>1. /\ now < MaxTime /\ (~Waiting => stalled < MaxStall) /\ now' = now + 1
        /\ stalled' = IF Waiting THEN stalled ELSE stalled + 1
        /\ UNCHANGED <<vars, dispatcher, queue, nextAt, enqueueStart, lastRecorded, sent, lag,
                       blocked>>
    BY <1>9 DEF Tick, loopVars
  <2>2. SentMatchesFired' /\ lastAt' = lastAt
    BY <2>1, TotalsFrame DEF InHand
  <2>3. LoopType'
    BY <1>1, <2>1 DEF LoopType
  <2>4. TimesNoted'
    BY <1>1, <2>1, <2>2 DEF TimesNoted
  <2>5. DelayExplained'
    BY <1>1, <2>1 DEF DelayExplained, Waiting
  <2>6. LatenessExplained'
    BY <1>1, <2>1 DEF LatenessExplained, Waiting
  <2> QED
    BY <2>2, <2>3, <2>4, <2>5, <2>6
<1>10. CASE UNCHANGED replayVars
  <2>1. UNCHANGED <<vars, now, dispatcher, queue, stalled, nextAt, enqueueStart, lastRecorded,
                    sent, lag, blocked>>
    BY <1>10 DEF replayVars, loopVars
  <2>2. SentMatchesFired' /\ lastAt' = lastAt
    BY <2>1, TotalsFrame DEF InHand
  <2>3. LoopType'
    BY <2>1 DEF LoopType
  <2>4. TimesNoted' /\ DelayExplained' /\ LatenessExplained'
    BY <2>1, <2>2 DEF TimesNoted, DelayExplained, LatenessExplained
  <2> QED
    BY <2>2, <2>3, <2>4
<1> QED
  BY <1>2, <1>3, <1>4, <1>5, <1>6, <1>7, <1>8, <1>9, <1>10 DEF ReplayNext, Dispatch, Over

----------------------------------------------------------------------------
(* The theorems about the loop *)

\* The inductive invariant holds in every behaviour of the dispatch loop.
THEOREM ReplayInductive ==
  ASSUME OffsetsFit
  PROVE  ReplaySpec => [](IInv /\ LoopInv)
<1>1. ReplayInit => IInv /\ LoopInv
  BY InitInv, LoopInit DEF ReplayInit
<1>2. IInv /\ LoopInv /\ [ReplayNext]_replayVars => IInv' /\ LoopInv'
  BY SchedulerKept, LoopStep
<1> QED
  BY <1>1, <1>2, PTL DEF ReplaySpec

\* The totals of the summary agree at any moment: what was sent is what the
\* scheduler counted as fired, but for the arrival in hand; and every variable
\* of the loop has its type, so that the queue is never longer than it may be.
THEOREM TotalsAlwaysAgree ==
  ASSUME OffsetsFit
  PROVE  ReplaySpec => []TotalsAgree
<1>1. IInv /\ LoopInv => TotalsAgree
  BY DEF IInv, LoopInv, LoopType, TotalsAgree, ReplayerTypeOK
<1> QED
  BY <1>1, ReplayInductive, PTL

\* No arrival is dispatched before it is due, and the times that the analyzer
\* records never run ahead of the clock.
THEOREM NothingEarly ==
  ASSUME OffsetsFit
  PROVE  ReplaySpec => []NeverEarly
<1>1. LoopInv => NeverEarly
  BY DEF LoopInv, TimesNoted, NeverEarly
<1> QED
  BY <1>1, ReplayInductive, PTL

\* Every late dispatch is explained: by the time blocked on the queue and the
\* stalls, and by the reported lag and the stalls.
THEOREM EveryDelayExplained ==
  ASSUME OffsetsFit
  PROVE  ReplaySpec => []LatenessExplained
<1>1. LoopInv => LatenessExplained
  BY DEF LoopInv
<1> QED
  BY <1>1, ReplayInductive, PTL

============================================================================
