--------------------------- MODULE GapTargetProofs ---------------------------
(***************************************************************************)
(* Theorems about the gap target, for any number of streams and any cap of *)
(* the buffer: after a graceful stop the summary is about every stream;    *)
(* a note about dropped arrivals comes with a full buffer; the figures of  *)
(* the summary are those of the recorded arrivals, in whatever order they  *)
(* were recorded; and the sender's analysis of them agrees.                *)
(***************************************************************************)
EXTENDS GapTargetProps, DataProofs

----------------------------------------------------------------------------
(* The inductive invariant *)

\* The handlers that have been through the critical section.
Recorded == {h \in Handlers : handlerPC[h] \in {"receive", "done"}}

\* A handler has its time stamp in hand when it is about to record it.
StampTaken == \A h \in Handlers : handlerPC[h] = "record" => stamp[h] # Unset

\* Each handler adds one to the buffer or to the dropped ones, and those only
\* grow once the buffer is full.
BufferLedger ==
  /\ Len(arrivalsNs) + dropped = Cardinality(Recorded)
  /\ dropped > 0 => Len(arrivalsNs) = ArrivalSampleCap

\* After a graceful stop there is no handler left, and none can come.
StopOrder ==
  mainPC # "serve" /\ ~listenerFailed =>
    /\ ~accepting
    /\ \A h \in Handlers : ~Running(h)

\* What main has read is never ahead of the stats, and behind them only while
\* handlers run.
ReadOrder ==
  /\ mainPC \in {"serve", "readDropped"} => note = Unset
  /\ mainPC \in {"snapshot", "exited"} => /\ note \in 0..dropped
                                          /\ ~listenerFailed => note = dropped
  /\ mainPC = "exited" => snapshot = arrivalsNs
  /\ mainPC = "serve" => ~listenerFailed

IInv == TypeOK /\ StampTaken /\ BufferLedger /\ StopOrder /\ ReadOrder

----------------------------------------------------------------------------
(* Counting handlers *)

LEMMA HandlersFinite ==
  ASSUME NEW S \in SUBSET Handlers
  PROVE  IsFiniteSet(S) /\ Cardinality(S) \in Nat
<1>1. IsFiniteSet(Handlers)
  BY GapTargetAssumption, InitialSegment DEF Handlers
<1> QED
  BY <1>1, FS_Subset, FS_CardinalityType

\* A handler that moves from one place to another joins those that have
\* recorded only when it comes from its critical section.
LEMMA RecordedStep ==
  ASSUME TypeOK, NEW h \in Handlers, NEW from, NEW to, Goto(h, from, to)
  PROVE  Recorded' = IF to \in {"receive", "done"} THEN Recorded \cup {h} ELSE Recorded \ {h}
BY DEF TypeOK, Goto, Recorded

----------------------------------------------------------------------------
(* Each step *)

LEMMA InitInv ==
  ASSUME Init
  PROVE  IInv
<1> USE GapTargetAssumption
<1>1. TypeOK
  <2>1. 0 \in Times /\ 0 <= ArrivalSampleCap
    BY DEF Times
  <2>2. arrivalsNs \in Seq(Times) /\ Len(arrivalsNs) = 0
    BY DEF Init
  <2>3. stamp \in [Handlers -> Times \cup {Unset}]
    BY DEF Init
  <2> QED
    BY <2>1, <2>2, <2>3 DEF Init, TypeOK
<1>2. StampTaken /\ StopOrder /\ ReadOrder
  BY DEF Init, StampTaken, StopOrder, ReadOrder
<1>3. BufferLedger
  <2>1. Recorded = {}
    BY DEF Init, Recorded
  <2> QED
    BY <2>1, FS_EmptySet DEF Init, BufferLedger
<1> QED
  BY <1>1, <1>2, <1>3 DEF IInv

LEMMA HandlerStep ==
  ASSUME IInv, NEW h \in Handlers, Handler(h)
  PROVE  IInv'
<1> USE GapTargetAssumption DEF IInv
<1>1. /\ UNCHANGED <<now, accepting, stopping, mainPC, listenerFailed, note, snapshot>>
      /\ mainPC # "exited"
  BY DEF Handler, OwnStep, Accept, TakeStamp, RecordArrival, ReceiveFails, Reply, Goto, Alive, serverVars, mainVars
<1>2. StopOrder'
  <2>1. SUFFICES ASSUME mainPC # "serve", ~listenerFailed PROVE FALSE
    BY <1>1 DEF StopOrder
  <2>2. ~accepting /\ handlerPC[h] \in {"new", "done"}
    BY <2>1 DEF StopOrder, Running
  <2> QED
    BY <2>2 DEF Handler, OwnStep, Accept, TakeStamp, RecordArrival, ReceiveFails, Reply, Goto
<1>3. IsFiniteSet(Recorded) /\ Cardinality(Recorded) \in Nat
  BY HandlersFinite DEF Recorded
<1>4. CASE RecordArrival(h)
  <2>1. /\ handlerPC[h] = "record" /\ stamp[h] \in Times
        /\ arrivalsNs \in Seq(Times) /\ Len(arrivalsNs) \in Nat /\ dropped \in Nat
    BY <1>4 DEF RecordArrival, Goto, TypeOK, StampTaken
  <2>2. Cardinality(Recorded') = Cardinality(Recorded) + 1
    <3>1. Recorded' = Recorded \cup {h}
      BY <1>4, RecordedStep DEF RecordArrival
    <3>2. h \notin Recorded
      BY <2>1 DEF Recorded
    <3> QED
      BY <1>3, <3>1, <3>2, FS_AddElement
  <2>3. /\ handlerPC' \in [Handlers -> {"new", "stamp", "record", "receive", "done"}]
        /\ stamp' \in [Handlers -> Times \cup {Unset}]
        /\ gone' \subseteq Handlers
        /\ StampTaken'
    BY <1>4 DEF RecordArrival, Goto, TypeOK, StampTaken
  <2>4. CASE Len(arrivalsNs) < ArrivalSampleCap
    <3>1. arrivalsNs' = Append(arrivalsNs, stamp[h]) /\ dropped' = dropped
      BY <1>4, <2>4 DEF RecordArrival
    <3>2. arrivalsNs' \in Seq(Times) /\ Len(arrivalsNs') = Len(arrivalsNs) + 1
      BY <2>1, <3>1, AppendProperties
    <3>3. TypeOK'
      BY <1>1, <2>1, <2>3, <2>4, <3>1, <3>2 DEF TypeOK
    <3>4. BufferLedger'
      BY <1>3, <2>1, <2>2, <2>4, <3>1, <3>2 DEF BufferLedger
    <3>5. ReadOrder'
      BY <1>1, <3>1 DEF ReadOrder
    <3> QED
      BY <1>2, <2>3, <3>3, <3>4, <3>5
  <2>5. CASE ~(Len(arrivalsNs) < ArrivalSampleCap)
    <3>1. arrivalsNs' = arrivalsNs /\ dropped' = dropped + 1
      BY <1>4, <2>5 DEF RecordArrival
    <3>2. TypeOK'
      BY <1>1, <2>1, <2>3, <3>1 DEF TypeOK
    <3>3. BufferLedger'
      BY <1>3, <2>1, <2>2, <2>5, <3>1 DEF BufferLedger, TypeOK
    <3>4. ReadOrder'
      <4>1. mainPC \in {"snapshot", "exited"} => listenerFailed
        BY <1>1, <1>4 DEF RecordArrival, Goto, StopOrder, Running
      <4> QED
        BY <1>1, <2>1, <3>1, <4>1 DEF ReadOrder
    <3> QED
      BY <1>2, <2>3, <3>2, <3>3, <3>4
  <2> QED
    BY <2>4, <2>5
<1>5. CASE Accept(h) \/ TakeStamp(h) \/ ReceiveFails(h) \/ Reply(h)
  <2>1. UNCHANGED <<arrivalsNs, dropped>>
    BY <1>5 DEF Accept, TakeStamp, ReceiveFails, Reply, stats
  <2>2. Recorded' = Recorded
    <3>1. CASE Accept(h)
      BY <3>1, RecordedStep DEF Accept, Goto, Recorded
    <3>2. CASE TakeStamp(h)
      BY <3>2, RecordedStep DEF TakeStamp, Goto, Recorded
    <3>3. CASE ReceiveFails(h) \/ Reply(h)
      BY <3>3, RecordedStep DEF ReceiveFails, Reply, Goto, Recorded
    <3> QED
      BY <1>5, <3>1, <3>2, <3>3
  <2>3. TypeOK' /\ StampTaken'
    <3>1. now \in Times /\ now # Unset
      BY DEF TypeOK, Times, Unset
    <3>2. /\ handlerPC' \in [Handlers -> {"new", "stamp", "record", "receive", "done"}]
          /\ stamp' \in [Handlers -> Times \cup {Unset}]
          /\ gone' \subseteq Handlers
      BY <1>5, <3>1 DEF Accept, TakeStamp, ReceiveFails, Reply, Goto, TypeOK
    <3>3. StampTaken'
      BY <1>5, <3>1 DEF Accept, TakeStamp, ReceiveFails, Reply, Goto, TypeOK, StampTaken
    <3> QED
      BY <1>1, <2>1, <3>2, <3>3 DEF TypeOK
  <2>4. BufferLedger' /\ ReadOrder'
    BY <1>1, <2>1, <2>2 DEF BufferLedger, ReadOrder
  <2> QED
    BY <1>2, <2>3, <2>4
<1> QED
  BY <1>4, <1>5 DEF Handler, OwnStep

LEMMA OtherStep ==
  ASSUME IInv,
         \/ \E h \in Handlers : ClientGoes(h)
         \/ Signal \/ CloseConnections \/ Main \/ Tick \/ UNCHANGED vars
  PROVE  IInv'
<1> USE GapTargetAssumption DEF IInv
<1>1. UNCHANGED <<handlerPC, stamp, arrivalsNs, dropped>> /\ gone' \subseteq Handlers
  BY DEF ClientGoes, TypeOK, Signal, CloseConnections, Main, ServeReturns, ServeFails, ReadDropped, Summarise, Tick,
         vars, handlerVars, stats
<1>2. BufferLedger' /\ StampTaken'
  BY <1>1 DEF BufferLedger, StampTaken, Recorded
<1>3. \A h \in Handlers : Running(h)' <=> Running(h)
  BY <1>1 DEF Running
<1>4. CASE (\E h \in Handlers : ClientGoes(h)) \/ Signal \/ CloseConnections \/ Tick \/ UNCHANGED vars
  <2>1. UNCHANGED <<mainPC, listenerFailed, note, snapshot>> /\ (accepting' => accepting)
    BY <1>4 DEF ClientGoes, Signal, CloseConnections, Tick, vars, serverVars, mainVars, TypeOK
  <2>2. now' \in Times /\ accepting' \in BOOLEAN /\ stopping' \in BOOLEAN
    <3>1. now' = now \/ (now < MaxTime /\ now' = now + 1)
      BY <1>4 DEF ClientGoes, Signal, CloseConnections, Tick, vars
    <3>2. now \in Times
      BY DEF TypeOK
    <3>3. now' \in Times
      BY <3>1, <3>2 DEF Times
    <3>4. accepting' \in BOOLEAN /\ stopping' \in BOOLEAN
      BY <1>4 DEF ClientGoes, Signal, CloseConnections, Tick, vars, serverVars, TypeOK
    <3> QED
      BY <3>3, <3>4
  <2> QED
    BY <1>1, <1>2, <1>3, <2>1, <2>2 DEF TypeOK, StopOrder, ReadOrder
<1>5. CASE Main
  <2>1. TypeOK'
    BY <1>1, <1>5 DEF Main, ServeReturns, ServeFails, ReadDropped, Summarise, TypeOK, serverVars
  <2>2. StopOrder'
    BY <1>3, <1>5 DEF Main, ServeReturns, ServeFails, ReadDropped, Summarise, StopOrder, serverVars
  <2>3. ReadOrder'
    BY <1>1, <1>5 DEF Main, ServeReturns, ServeFails, ReadDropped, Summarise, ReadOrder, TypeOK
  <2> QED
    BY <1>2, <2>1, <2>2, <2>3
<1> QED
  BY <1>4, <1>5

THEOREM Inductive == Spec => []IInv
<1>1. Init => IInv
  BY InitInv
<1>2. IInv /\ [Next]_vars => IInv'
  BY HandlerStep, OtherStep DEF Next, Exited
<1> QED
  BY <1>1, <1>2, PTL DEF Spec

----------------------------------------------------------------------------
(* What is printed *)

\* Either form of the summary counts what main has read.
LEMMA RequestsPrinted ==
  ASSUME IInv, Printed
  PROVE  Summary.requests = Len(arrivalsNs)
<1>1. snapshot = arrivalsNs /\ snapshot \in Seq(Times)
  BY DEF IInv, ReadOrder, Printed, TypeOK
<1>2. Len(SortTimes(snapshot)) = Len(arrivalsNs)
  BY <1>1, SortTimesType, GapTargetAssumption DEF Times
<1>3. \A a : FullSummary(a).requests = Len(a)
  BY Zenon DEF FullSummary
<1> QED
  BY <1>2, <1>3 DEF Summary, PrintSummary

\* After a graceful stop no stream is missing from the summary and its note,
\* however many handlers ran when the signal came.
THEOREM SummaryAlwaysComplete == Spec => []SummaryComplete
<1>1. IInv => SummaryComplete
  <2> SUFFICES ASSUME IInv, Printed, ~listenerFailed
               PROVE  /\ Summary.requests + note = Cardinality({h \in Handlers : handlerPC[h] # "new"})
                      /\ \A h \in Handlers : ~Running(h)
    BY DEF SummaryComplete
  <2>1. (\A h \in Handlers : ~Running(h)) /\ note = dropped
    BY DEF IInv, StopOrder, ReadOrder, Printed
  <2>2. Recorded = {h \in Handlers : handlerPC[h] # "new"}
    BY <2>1 DEF Recorded, Running
  <2> QED
    BY <2>1, <2>2, RequestsPrinted DEF IInv, BufferLedger
<1> QED
  BY <1>1, Inductive, PTL

\* A note about dropped arrivals is only printed with a full buffer, even when
\* the listener has failed and handlers still run while main reads.
THEOREM NoteAlwaysMeansFull == Spec => []NoteMeansFull
<1>1. IInv => NoteMeansFull
  BY RequestsPrinted DEF IInv, BufferLedger, ReadOrder, TypeOK, Printed, NoteMeansFull
<1> QED
  BY <1>1, Inductive, PTL


----------------------------------------------------------------------------
(* The gaps                                                                *)

\* The arrivals that the summary is about, in the order of time.
Arrivals == SortTimes(arrivalsNs)

LEMMA ArrivalsAscend ==
  ASSUME IInv
  PROVE  /\ arrivalsNs \in Seq(Int) /\ Arrivals \in Seq(Int)
         /\ Len(Arrivals) = Len(arrivalsNs) /\ Len(Arrivals) \in Nat
         /\ IsAscending(Arrivals)
         /\ \A i \in 1..Len(Arrivals) : Arrivals[i] \in Times
         /\ \A i \in 1..Len(Arrivals) : arrivalsNs[i] \in Times
<1>1. arrivalsNs \in Seq(Times) /\ Times \subseteq Int
  BY GapTargetAssumption DEF IInv, TypeOK, Times
<1>2. arrivalsNs \in Seq(Int)
  BY <1>1, SeqMonotonic
<1>3. Arrivals \in Seq(Times) /\ Len(Arrivals) = Len(arrivalsNs)
  BY <1>1, SortTimesType DEF Arrivals
<1>4. Arrivals \in Seq(Int)
  BY <1>1, <1>3, SeqMonotonic
<1>5. IsAscending(Arrivals)
  BY <1>2, SortTimesAscending DEF Arrivals
<1>6. /\ \A i \in 1..Len(Arrivals) : Arrivals[i] \in Times
      /\ \A i \in 1..Len(Arrivals) : arrivalsNs[i] \in Times
  BY <1>1, <1>3, ElementOfSeq
<1>7. Len(Arrivals) \in Nat
  BY <1>3, LenProperties
<1> QED
  BY <1>2, <1>3, <1>4, <1>5, <1>6, <1>7

LEMMA FullIs ==
  ASSUME IInv, Full
  PROVE  /\ Summary = FullSummary(Arrivals)
         /\ Len(Arrivals) >= 2 /\ Arrivals[1] < Arrivals[Len(Arrivals)]
<1>1. snapshot = arrivalsNs
  BY DEF IInv, ReadOrder, Full, Printed
<1>2. Summary = IF Len(Arrivals) < 2 \/ Arrivals[Len(Arrivals)] <= Arrivals[1]
                THEN [requests |-> Len(Arrivals)]
                ELSE FullSummary(Arrivals)
  BY <1>1 DEF Summary, PrintSummary, Arrivals
<1>3. "span" \in DOMAIN Summary /\ DOMAIN [requests |-> Len(Arrivals)] = {"requests"}
  BY DEF Full
<1>4. ~(Len(Arrivals) < 2 \/ Arrivals[Len(Arrivals)] <= Arrivals[1])
  BY <1>2, <1>3
<1>5. Len(Arrivals) \in Nat /\ \A i \in 1..Len(Arrivals) : Arrivals[i] \in Int
  BY ArrivalsAscend, GapTargetAssumption DEF Times
<1>6. Len(Arrivals) >= 2
  BY <1>4, <1>5
<1>7. 1 \in 1..Len(Arrivals) /\ Len(Arrivals) \in 1..Len(Arrivals)
  BY <1>5, <1>6
<1> QED
  BY <1>2, <1>4, <1>5, <1>6, <1>7

\* The gaps up to an arrival add up to its distance from the first.
LEMMA GapsTelescope ==
  ASSUME NEW a, NEW n \in Nat \ {0}, \A i \in 1..n : a[i] \in Int,
         NEW g, \A i \in 1..(n - 1) : g[i] = a[i + 1] - a[i]
  PROVE  SumOn(g, 1..(n - 1)) = a[n] - a[1]
<1> DEFINE Bad == {m \in 0..(n - 1) : SumOn(g, 1..m) # a[m + 1] - a[1]}
<1>1. SUFFICES ASSUME Bad # {} PROVE FALSE
  OBVIOUS
<1>2. PICK m \in Bad : \A k \in Bad : m <= k
  <2>1. Bad \in SUBSET Nat
    OBVIOUS
  <2> HIDE DEF Bad
  <2> QED
    BY <1>1, <2>1, LeastElement
<1>3. m \in 0..(n - 1) /\ SumOn(g, 1..m) # a[m + 1] - a[1]
  BY <1>2
<1>4. m # 0
  <2>1. 1..0 = {} /\ SumOn(g, {}) = 0
    BY SumEmpty
  <2>2. a[0 + 1] - a[1] = 0
    OBVIOUS
  <2> QED
    BY <1>3, <2>1, <2>2
<1>5. m - 1 \in 0..(n - 1) /\ m \in 1..m /\ (1..m) \ {m} = 1..(m - 1) /\ (m - 1) + 1 = m
  BY <1>3, <1>4
<1>6. SumOn(g, 1..(m - 1)) = a[m] - a[1]
  <2>1. m - 1 \notin Bad
    BY <1>2, <1>3
  <2> QED
    BY <1>5, <2>1
<1> HIDE DEF Bad
<1>7. SumOn(g, 1..m) = g[m] + SumOn(g, 1..(m - 1))
  <2>1. IsFiniteSet(1..m)
    BY <1>3, FS_Interval
  <2>2. ASSUME NEW i \in 1..m PROVE g[i] \in Int
    <3>1. i \in 1..(n - 1) /\ i \in 1..n /\ i + 1 \in 1..n
      BY <1>3
    <3> QED
      BY <3>1
  <2> DEFINE S == 1..m
  <2>4. m \in S /\ IsFiniteSet(S) /\ \A i \in S : g[i] \in Int
    BY <1>5, <2>1, <2>2
  <2> HIDE DEF S
  <2>3. SumOn(g, S) = g[m] + SumOn(g, S \ {m})
    BY <2>4, SumSplit
  <2> QED
    BY <1>5, <2>3 DEF S
<1>8. g[m] = a[m + 1] - a[m]
  BY <1>3, <1>4
<1>9. a[1] \in Int /\ a[m] \in Int /\ a[m + 1] \in Int
  BY <1>3, <1>4
<1> QED
  BY <1>3, <1>6, <1>7, <1>8, <1>9

\* The interpolated element at a place given in hundredths.
Lo(idx)    == idx \div 100
Hi(idx)    == (idx + 99) \div 100
Rest(idx)  == idx % 100
At(s, idx) == s[Lo(idx) + 1] * (100 - Rest(idx)) + s[Hi(idx) + 1] * Rest(idx)

LEMMA PlaceParts ==
  ASSUME NEW m \in Nat, NEW idx \in 0..(100 * m)
  PROVE  /\ Lo(idx) \in 0..m /\ Hi(idx) \in 0..m /\ Rest(idx) \in 0..99
         /\ idx = 100 * Lo(idx) + Rest(idx)
         /\ Hi(idx) = IF Rest(idx) = 0 THEN Lo(idx) ELSE Lo(idx) + 1
BY DEF Lo, Hi, Rest

LEMMA PartsAscend ==
  ASSUME NEW m \in Nat, NEW i \in 0..(100 * m), NEW j \in 0..(100 * m), i <= j
  PROVE  /\ Lo(i) = Lo(j) => Rest(i) <= Rest(j)
         /\ (Lo(i) = Lo(j) /\ Rest(i) # 0) \/ Hi(i) <= Lo(j)
<1>1. /\ Lo(i) \in 0..m /\ Rest(i) \in 0..99 /\ Lo(j) \in 0..m /\ Rest(j) \in 0..99
      /\ Hi(i) = IF Rest(i) = 0 THEN Lo(i) ELSE Lo(i) + 1
  BY PlaceParts
<1>2. 100 * Lo(i) + Rest(i) <= 100 * Lo(j) + Rest(j)
  <2>1. i = 100 * Lo(i) + Rest(i) /\ j = 100 * Lo(j) + Rest(j)
    BY PlaceParts
  <2> QED
    BY <2>1, Zenon
<1>3. Lo(i) <= Lo(j) /\ (Lo(i) = Lo(j) => Rest(i) <= Rest(j))
  BY <1>1, <1>2
<1> QED
  BY <1>1, <1>3

\* It lies between the neighbours and goes up with the place.
LEMMA AtBetween ==
  ASSUME NEW x \in Int, NEW y \in Int, x <= y, NEW r \in 0..100, NEW t \in 0..100, r <= t
  PROVE  /\ 100 * x <= x * (100 - r) + y * r
         /\ x * (100 - r) + y * r <= x * (100 - t) + y * t
         /\ x * (100 - t) + y * t <= 100 * y
<1>1. PICK d \in Nat : y = x + d
  <2>1. y - x \in Nat /\ y = x + (y - x)
    OBVIOUS
  <2> QED
    BY <2>1
<1>2. /\ x * (100 - r) + y * r = 100 * x + d * r
      /\ x * (100 - t) + y * t = 100 * x + d * t
  BY <1>1
<1>3. 0 <= d * r /\ d * r <= d * t /\ d * t <= d * 100
  BY <1>1
<1>4. d * r \in Int /\ d * t \in Int
  BY <1>1
<1> QED
  BY <1>1, <1>2, <1>3, <1>4

LEMMA AtAscends ==
  ASSUME NEW s, NEW m \in Nat, \A i \in 1..(m + 1) : s[i] \in Int,
         \A i, j \in 1..(m + 1) : i <= j => s[i] <= s[j],
         NEW i \in 0..(100 * m), NEW j \in 0..(100 * m), i <= j
  PROVE  /\ At(s, i) <= At(s, j)
         /\ 100 * s[1] <= At(s, i) /\ At(s, i) <= 100 * s[m + 1]
         /\ At(s, i) \in Int /\ At(s, j) \in Int
<1>1. ASSUME NEW k \in 0..(100 * m), NEW x, x = s[Lo(k) + 1], NEW y, y = s[Hi(k) + 1]
      PROVE  /\ x \in Int /\ y \in Int /\ x <= y /\ s[1] <= x /\ y <= s[m + 1]
             /\ s[1] \in Int /\ s[m + 1] \in Int
             /\ 100 * x <= At(s, k) /\ At(s, k) <= 100 * y /\ At(s, k) \in Int
  <2>1. /\ Lo(k) \in 0..m /\ Hi(k) \in 0..m /\ Rest(k) \in 0..99
        /\ Hi(k) = IF Rest(k) = 0 THEN Lo(k) ELSE Lo(k) + 1
    BY PlaceParts
  <2>2. /\ Lo(k) + 1 \in 1..(m + 1) /\ Hi(k) + 1 \in 1..(m + 1) /\ Lo(k) + 1 <= Hi(k) + 1
        /\ 1 \in 1..(m + 1) /\ m + 1 \in 1..(m + 1)
    BY <2>1
  <2>3. /\ x \in Int /\ y \in Int /\ x <= y /\ s[1] <= x /\ y <= s[m + 1]
        /\ s[1] \in Int /\ s[m + 1] \in Int
    BY <1>1, <2>2
  <2>4. PICK r \in 0..100 : r = Rest(k)
    BY <2>1
  <2>5. At(s, k) = x * (100 - r) + y * r
    BY <1>1, <2>4 DEF At
  <2>6. 100 * x <= x * (100 - r) + y * r /\ x * (100 - r) + y * r <= 100 * y
    BY <2>3, AtBetween
  <2>7. x * (100 - r) + y * r \in Int
    BY <2>3
  <2> QED
    BY <2>3, <2>5, <2>6, <2>7
<1> DEFINE xi == s[Lo(i) + 1]
           yi == s[Hi(i) + 1]
           xj == s[Lo(j) + 1]
           yj == s[Hi(j) + 1]
<1>2. /\ xi \in Int /\ yi \in Int /\ xi <= yi /\ s[1] <= xi /\ yi <= s[m + 1]
      /\ 100 * xi <= At(s, i) /\ At(s, i) <= 100 * yi /\ At(s, i) \in Int
      /\ s[1] \in Int /\ s[m + 1] \in Int
      /\ xj \in Int /\ yj \in Int
      /\ 100 * xj <= At(s, j) /\ At(s, j) \in Int
  BY <1>1
<1>3. /\ Lo(i) \in 0..m /\ Hi(i) \in 0..m /\ Rest(i) \in 0..99
      /\ Hi(i) = IF Rest(i) = 0 THEN Lo(i) ELSE Lo(i) + 1
      /\ Lo(j) \in 0..m /\ Hi(j) \in 0..m /\ Rest(j) \in 0..99
      /\ Hi(j) = IF Rest(j) = 0 THEN Lo(j) ELSE Lo(j) + 1
  BY PlaceParts
<1>4. At(s, i) <= At(s, j)
  <2>1. CASE Lo(i) = Lo(j) /\ Rest(i) # 0
    <3>1. Rest(i) <= Rest(j) /\ Rest(i) \in 0..100 /\ Rest(j) \in 0..100
      BY <1>3, <2>1, PartsAscend
    <3>2. xi = xj /\ yi = yj
      BY <1>3, <2>1, <3>1
    <3>3. xi * (100 - Rest(i)) + yi * Rest(i) <= xi * (100 - Rest(j)) + yi * Rest(j)
      <4> HIDE DEF xi, yi
      <4> QED
        BY <1>2, <3>1, AtBetween
    <3> QED
      BY <3>2, <3>3 DEF At
  <2>2. CASE Hi(i) <= Lo(j)
    <3>1. Hi(i) + 1 \in 1..(m + 1) /\ Lo(j) + 1 \in 1..(m + 1) /\ Hi(i) + 1 <= Lo(j) + 1
      BY <1>3, <2>2
    <3>2. yi <= xj
      BY <3>1
    <3> HIDE DEF xi, yi, xj
    <3> QED
      BY <1>2, <3>2
  <2>3. (Lo(i) = Lo(j) /\ Rest(i) # 0) \/ Hi(i) <= Lo(j)
    BY PartsAscend
  <2> QED
    BY <2>1, <2>2, <2>3
<1> HIDE DEF xi, yi
<1>5. 100 * s[1] <= At(s, i) /\ At(s, i) <= 100 * s[m + 1]
  BY <1>2
<1> QED
  BY <1>2, <1>4, <1>5

LEMMA SortedFrom ==
  ASSUME NEW s \in Seq(Int), NEW k \in 1..Len(s)
  PROVE  \E i \in 1..Len(s) : SortTimes(s)[k] = s[i]
BY RankChoice

\* Every arrival lies between the first and the last of them.
LEMMA ArrivalsBetween ==
  ASSUME IInv, NEW i \in 1..Len(arrivalsNs)
  PROVE  Arrivals[1] <= arrivalsNs[i] /\ arrivalsNs[i] <= Arrivals[Len(Arrivals)]
<1> DEFINE n == Len(Arrivals)
<1>1. /\ arrivalsNs \in Seq(Int) /\ n = Len(arrivalsNs) /\ n \in Nat /\ IsAscending(Arrivals)
      /\ \A k \in 1..n : Arrivals[k] \in Int
  BY ArrivalsAscend, GapTargetAssumption DEF Times
<1>2. PICK p \in Bijection(1..n, 1..n) : \A k \in 1..n : Arrivals[p[k]] = arrivalsNs[k]
  BY <1>1, SortTimesPermutes DEF Arrivals
<1>3. p[i] \in 1..n /\ 1 \in 1..n /\ n \in 1..n
  <2>1. p \in [1..n -> 1..n]
    BY <1>2 DEF Bijection, Injection
  <2>2. i \in 1..n
    BY <1>1
  <2> HIDE DEF n
  <2> QED
    BY <1>1, <2>1, <2>2
<1>4. Arrivals[1] <= Arrivals[p[i]] /\ Arrivals[p[i]] <= Arrivals[n]
  <2> HIDE DEF n
  <2>1. p[i] = 1 \/ 1 < p[i]
    BY <1>1, <1>3
  <2>2. p[i] = n \/ p[i] < n
    BY <1>1, <1>3
  <2> QED
    BY <1>1, <1>3, <2>1, <2>2 DEF IsAscending, n
<1> QED
  BY <1>1, <1>2, <1>4

LEMMA GapsHold ==
  ASSUME IInv
  PROVE  GapsMeasureSpan
<1> SUFFICES ASSUME Full
             PROVE  /\ Summary.gapSum = Summary.span
                    /\ \A i, j \in 1..Len(arrivalsNs) : arrivalsNs[i] - arrivalsNs[j] <= Summary.span
                    /\ 0 <= Summary.p50 /\ Summary.p50 <= Summary.p90
                    /\ Summary.p90 <= Summary.p99 /\ Summary.p99 <= 100 * Summary.span
  BY Zenon DEF GapsMeasureSpan
<1> DEFINE a == Arrivals
           n == Len(a)
           gaps == [i \in 1..(n - 1) |-> a[i + 1] - a[i]]
           sorted == SortTimes(gaps)
           span == a[n] - a[1]
           m == n - 2
<1>1. /\ n \in Nat /\ n >= 2 /\ IsAscending(a) /\ n = Len(arrivalsNs) /\ m \in Nat
      /\ \A i \in 1..n : a[i] \in Int
      /\ Summary = FullSummary(a)
  BY ArrivalsAscend, FullIs, GapTargetAssumption DEF Times
<1>2. /\ Summary.span = span
      /\ Summary.gapSum = MapThenSumSet(LAMBDA i : gaps[i], 1..(n - 1))
      /\ Summary.p50 = Quantile(sorted, 50)
      /\ Summary.p90 = Quantile(sorted, 90)
      /\ Summary.p99 = Quantile(sorted, 99)
  BY <1>1, Zenon DEF FullSummary
<1> HIDE DEF a
<1>3. /\ a[1] \in Int /\ a[n] \in Int /\ span \in Int
      /\ \A i \in 1..(n - 1) : a[i] \in Int /\ a[i + 1] \in Int /\ gaps[i] \in Nat /\ gaps[i] <= span
  <2>1. a[1] \in Int /\ a[n] \in Int
    BY <1>1
  <2>2. ASSUME NEW i \in 1..(n - 1)
        PROVE  a[i] \in Int /\ a[i + 1] \in Int /\ gaps[i] \in Nat /\ gaps[i] <= span
    <3>1. i \in 1..n /\ i + 1 \in 1..n /\ i < i + 1 /\ 1 \in 1..n /\ n \in 1..n
      BY <1>1
    <3>2. a[i] <= a[i + 1]
      BY <1>1, <3>1 DEF IsAscending
    <3>3. a[1] <= a[i] /\ a[i + 1] <= a[n]
      <4>1. 1 = i \/ 1 < i
        BY <1>1
      <4>2. i + 1 = n \/ i + 1 < n
        BY <1>1
      <4> HIDE DEF n
      <4> QED
        BY <1>1, <2>1, <3>1, <4>1, <4>2 DEF IsAscending, n
    <3>4. gaps[i] = a[i + 1] - a[i]
      OBVIOUS
    <3> HIDE DEF n, gaps
    <3> QED
      BY <1>1, <2>1, <3>1, <3>2, <3>3, <3>4
  <2> QED
    BY <2>1, <2>2
<1>4. Summary.gapSum = Summary.span
  <2>1. Summary.gapSum = SumOn(gaps, 1..(n - 1))
    <3>1. MapThenSumSet(LAMBDA i : gaps[i], 1..(n - 1)) = SumOn(gaps, 1..(n - 1))
      BY MapThenSumIsSum, Zenon
    <3> QED
      BY <1>2, <3>1, Zenon
  <2>2. SumOn(gaps, 1..(n - 1)) = a[n] - a[1]
    <3>1. \A i \in 1..(n - 1) : gaps[i] = a[i + 1] - a[i]
      OBVIOUS
    <3>2. n \in Nat \ {0} /\ \A i \in 1..n : a[i] \in Int
      BY <1>1
    <3> HIDE DEF gaps, n
    <3> QED
      BY <3>1, <3>2, GapsTelescope
  <2> QED
    BY <1>2, <2>1, <2>2
<1>5. \A i, j \in 1..Len(arrivalsNs) : arrivalsNs[i] - arrivalsNs[j] <= Summary.span
  <2> SUFFICES ASSUME NEW i \in 1..Len(arrivalsNs), NEW j \in 1..Len(arrivalsNs)
               PROVE  arrivalsNs[i] - arrivalsNs[j] <= span
    BY <1>2
  <2>1. arrivalsNs[i] <= a[n] /\ a[1] <= arrivalsNs[j]
    BY ArrivalsBetween DEF a
  <2>2. arrivalsNs[i] \in Int /\ arrivalsNs[j] \in Int
    BY ArrivalsAscend, ElementOfSeq
  <2> QED
    BY <1>3, <2>1, <2>2
<1>6. /\ gaps \in Seq(Int) /\ Len(gaps) = m + 1
      /\ sorted \in Seq(Int) /\ Len(sorted) = m + 1 /\ IsAscending(sorted)
  <2>1. gaps \in Seq(Int) /\ Len(gaps) = m + 1
    BY <1>1, <1>3
  <2> HIDE DEF gaps, m
  <2> QED
    BY <2>1, SortTimesType, SortTimesAscending
<1>7. ASSUME NEW k \in 1..(m + 1)
      PROVE  sorted[k] \in Int /\ 0 <= sorted[k] /\ sorted[k] <= span
  <2>1. PICK i \in 1..(m + 1) : sorted[k] = gaps[i]
    <3>1. gaps \in Seq(Int) /\ k \in 1..Len(gaps) /\ 1..Len(gaps) = 1..(m + 1)
      BY <1>6
    <3> HIDE DEF gaps, m
    <3>2. \E i \in 1..Len(gaps) : SortTimes(gaps)[k] = gaps[i]
      BY <3>1, SortedFrom
    <3> QED
      BY <3>1, <3>2
  <2>2. i \in 1..(n - 1)
    BY <1>1
  <2> HIDE DEF gaps, sorted, span
  <2> QED
    BY <1>3, <2>1, <2>2
<1>8. \A i, j \in 1..(m + 1) : i <= j => sorted[i] <= sorted[j]
  <2> HIDE DEF sorted, m, span
  <2> SUFFICES ASSUME NEW i \in 1..(m + 1), NEW j \in 1..(m + 1), i <= j
               PROVE  sorted[i] <= sorted[j]
    OBVIOUS
  <2>1. i = j \/ i < j
    BY <1>1
  <2> QED
    BY <1>6, <1>7, <2>1 DEF IsAscending
<1>9. ASSUME NEW p \in 0..100 PROVE Quantile(sorted, p) = At(sorted, p * m)
  <2>1. Len(sorted) - 1 = m
    BY <1>1, <1>6
  <2> HIDE DEF sorted, m
  <2> QED
    BY <2>1 DEF Quantile, At, Lo, Hi, Rest
<1>10. 50 * m \in 0..(100 * m) /\ 90 * m \in 0..(100 * m) /\ 99 * m \in 0..(100 * m)
       /\ 50 * m <= 90 * m /\ 90 * m <= 99 * m
  BY <1>1
<1> HIDE DEF sorted, m, span, gaps, n
<1>11. /\ At(sorted, 50 * m) <= At(sorted, 90 * m)
       /\ At(sorted, 90 * m) <= At(sorted, 99 * m)
       /\ 100 * sorted[1] <= At(sorted, 50 * m)
       /\ At(sorted, 99 * m) <= 100 * sorted[m + 1]
       /\ At(sorted, 50 * m) \in Int /\ At(sorted, 99 * m) \in Int
  <2>1. \A i \in 1..(m + 1) : sorted[i] \in Int
    BY <1>7
  <2>2. ASSUME NEW i \in 0..(100 * m), NEW j \in 0..(100 * m), i <= j
        PROVE  /\ At(sorted, i) <= At(sorted, j)
               /\ 100 * sorted[1] <= At(sorted, i) /\ At(sorted, i) <= 100 * sorted[m + 1]
               /\ At(sorted, i) \in Int
    BY <1>1, <1>8, <2>1, <2>2, AtAscends
  <2>3. 99 * m <= 99 * m
    BY <1>1
  <2> QED
    BY <1>10, <2>2, <2>3
<1>12. /\ Summary.p50 = At(sorted, 50 * m) /\ Summary.p90 = At(sorted, 90 * m)
       /\ Summary.p99 = At(sorted, 99 * m)
  BY <1>2, <1>9
<1>13. /\ sorted[1] \in Int /\ 0 <= sorted[1]
       /\ sorted[m + 1] \in Int /\ sorted[m + 1] <= span
  BY <1>1, <1>7
<1>14. 0 <= At(sorted, 50 * m) /\ At(sorted, 99 * m) <= 100 * span
  BY <1>3, <1>11, <1>13
<1> QED
  BY <1>2, <1>4, <1>5, <1>11, <1>12, <1>14

----------------------------------------------------------------------------
(* The windows                                                             *)

LEMMA QuotientIs ==
  ASSUME NEW x \in Int, NEW w \in Nat \ {0}
  PROVE  x \div w \in Int /\ w * (x \div w) <= x /\ x < w * (x \div w) + w
OBVIOUS

LEMMA OnlyQuotient ==
  ASSUME NEW x \in Int, NEW w \in Nat \ {0}, NEW q \in Int
  PROVE  (w * q <= x /\ x < w * q + w) <=> x \div w = q
<1>1. x \div w \in Int /\ w * (x \div w) <= x /\ x < w * (x \div w) + w
  BY QuotientIs
<1>2. ASSUME w * q <= x, x < w * q + w PROVE x \div w = q
  <2>1. PICK d \in Int : d = x \div w
    BY <1>1
  <2>2. w * (d - q) < w /\ w * (q - d) < w
    <3>1. w * (d - q) = w * d - w * q /\ w * (q - d) = w * q - w * d
      OBVIOUS
    <3>2. w * d \in Int /\ w * q \in Int /\ w * d <= x /\ x < w * d + w
      BY <1>1, <2>1
    <3> QED
      BY <1>2, <3>1, <3>2
  <2>3. \A e \in Int : w * e < w => e < 1
    OBVIOUS
  <2>4. d - q < 1 /\ q - d < 1
    BY <2>2, <2>3
  <2> QED
    BY <2>1, <2>4
<1> QED
  BY <1>1, <1>2

LEMMA QuotientAscends ==
  ASSUME NEW x \in Nat, NEW y \in Nat, x <= y, NEW w \in Nat \ {0}
  PROVE  x \div w \in Nat /\ x \div w <= y \div w /\ x \div w <= x
<1>1. PICK c \in Int, d \in Int : c = x \div w /\ d = y \div w
  BY QuotientIs
<1>2. w * c <= x /\ x < w * c + w /\ w * d <= y /\ y < w * d + w
  BY <1>1, QuotientIs
<1>3. w * c \in Int /\ w * d \in Int
  OBVIOUS
<1>4. c <= d
  <2>1. CASE c > d
    <3>1. w * (d + 1) <= w * c
      BY <2>1
    <3>2. w * (d + 1) = w * d + w
      OBVIOUS
    <3> QED
      BY <1>2, <1>3, <3>1, <3>2
  <2> QED
    BY <2>1
<1>5. c >= 0
  <2>1. CASE c < 0
    <3>1. w * (c + 1) <= 0
      BY <2>1
    <3>2. w * (c + 1) = w * c + w
      OBVIOUS
    <3> QED
      BY <1>2, <1>3, <3>1, <3>2
  <2> QED
    BY <2>1
<1>6. c <= x
  <2>1. c <= w * c
    BY <1>5
  <2> QED
    BY <1>2, <1>3, <2>1
<1> QED
  BY <1>1, <1>4, <1>5, <1>6

\* The largest of a set of numbers with a bound.
LEMMA MaxIs ==
  ASSUME NEW S \in SUBSET Nat, S # {}, NEW top \in Nat, \A x \in S : x <= top
  PROVE  Max(S) \in S /\ \A x \in S : x <= Max(S)
<1> DEFINE B == {m \in Nat : \A x \in S : x <= m}
<1>1. PICK m \in B : \A k \in B : m <= k
  <2>1. B \in SUBSET Nat /\ top \in B
    OBVIOUS
  <2> HIDE DEF B
  <2> QED
    BY <2>1, LeastElement
<1>2. m \in Nat /\ \A x \in S : x <= m
  OBVIOUS
<1>3. m \in S
  <2>1. CASE m \notin S
    <3>1. PICK x \in S : TRUE
      OBVIOUS
    <3>2. \A y \in S : y <= m - 1
      BY <1>2, <2>1
    <3>3. m - 1 \in Nat
      BY <1>2, <3>1, <3>2
    <3>4. m - 1 \in B
      BY <3>2, <3>3
    <3>5. m <= m - 1
      BY <1>1, <3>4
    <3> QED
      BY <1>2, <3>5
  <2> QED
    BY <2>1
<1>4. \E y \in S : \A x \in S : y >= x
  BY <1>2, <1>3
<1>5. Max(S) \in S /\ \A x \in S : Max(S) >= x
  BY <1>4, Zenon DEF Max
<1> QED
  BY <1>5

\* What the analysis of a window is made of: the number of windows, and how
\* many arrivals each holds.
First == Arrivals[1]
Span  == Arrivals[Len(Arrivals)] - Arrivals[1]
Bins(w) == NumWindows(Arrivals, w)
InBin(w, b) == {t \in Times : WindowOf(t, First, w, Bins(w)) = b}
Load(w, b) == Amount(arrivalsNs, InBin(w, b))

LEMMA SpanType ==
  ASSUME IInv, Len(Arrivals) >= 1
  PROVE  /\ First \in Times /\ Span \in 0..MaxTime
         /\ \A t \in Times : First <= t => t - First \in Nat
         /\ \A i \in 1..Len(Arrivals) :
              Arrivals[i] - First \in Nat /\ Arrivals[i] - First <= Span
<1> DEFINE n == Len(Arrivals)
<1>1. /\ n \in Nat /\ n >= 1 /\ IsAscending(Arrivals) /\ MaxTime \in Nat
      /\ \A i \in 1..n : Arrivals[i] \in 0..MaxTime
  BY ArrivalsAscend, GapTargetAssumption DEF Times
<1>2. 1 \in 1..n /\ n \in 1..n
  BY <1>1
<1>3. ASSUME NEW i \in 1..n PROVE Arrivals[1] <= Arrivals[i] /\ Arrivals[i] <= Arrivals[n]
  <2>1. (i = 1 \/ 1 < i) /\ (i = n \/ i < n)
    BY <1>1
  <2> HIDE DEF n
  <2> QED
    BY <1>1, <1>2, <2>1 DEF IsAscending, n
<1> HIDE DEF n
<1>4. Span = Arrivals[n] - Arrivals[1] /\ First = Arrivals[1] /\ Arrivals[1] <= Arrivals[n]
  BY <1>2, <1>3 DEF Span, First, n
<1> QED
  BY <1>1, <1>2, <1>3, <1>4 DEF Times, n

LEMMA BinsType ==
  ASSUME IInv, Len(Arrivals) >= 1, NEW w \in Nat \ {0}
  PROVE  /\ Bins(w) = IF Span \div w + 1 > MaxBins THEN MaxBins ELSE Span \div w + 1
         /\ Bins(w) \in Nat \ {0} /\ Span \div w \in 0..MaxTime
<1>1. Bins(w) = IF Span \div w + 1 > MaxBins THEN MaxBins ELSE Span \div w + 1
  BY DEF Bins, NumWindows, Span
<1>2. Span \in Nat /\ Span <= MaxTime /\ MaxTime \in Nat /\ MaxBins \in Nat \ {0}
  BY SpanType, GapTargetAssumption
<1>3. Span \div w \in Nat /\ Span \div w <= Span
  BY <1>2, QuotientAscends
<1> QED
  BY <1>1, <1>2, <1>3

\* The bin of a recorded arrival is one of the bins.
LEMMA BinOf ==
  ASSUME IInv, Len(Arrivals) >= 1, NEW w \in Nat \ {0}, NEW t \in Times, First <= t
  PROVE  /\ WindowOf(t, First, w, Bins(w)) \in 0..(Bins(w) - 1)
         /\ WindowOf(t, First, w, Bins(w)) =
              IF (t - First) \div w >= Bins(w) THEN Bins(w) - 1 ELSE (t - First) \div w
<1>1. t - First \in Nat
  BY SpanType
<1>2. (t - First) \div w \in Nat
  BY <1>1, QuotientAscends
<1>3. Bins(w) \in Nat \ {0}
  BY BinsType
<1> DEFINE q == (t - First) \div w
<1>4. WindowOf(t, First, w, Bins(w)) = IF q < 0 THEN 0 ELSE IF q >= Bins(w) THEN Bins(w) - 1 ELSE q
  BY DEF WindowOf
<1>5. q \in Nat
  BY <1>2
<1> HIDE DEF q
<1>6. WindowOf(t, First, w, Bins(w)) = IF q >= Bins(w) THEN Bins(w) - 1 ELSE q
  BY <1>4, <1>5
<1>7. WindowOf(t, First, w, Bins(w)) \in 0..(Bins(w) - 1)
  BY <1>3, <1>5, <1>6
<1> QED
  BY <1>6, <1>7 DEF q

LEMMA LoadType ==
  ASSUME IInv, NEW w, NEW b
  PROVE  Load(w, b) \in 0..Len(arrivalsNs) /\ Load(w, b) \in Nat
<1>1. arrivalsNs \in Seq(Int) /\ Len(arrivalsNs) \in Nat
  BY ArrivalsAscend, LenProperties
<1>2. Load(w, b) \in Nat /\ Load(w, b) <= Len(arrivalsNs)
  BY <1>1, AmountType DEF Load
<1> QED
  BY <1>1, <1>2

\* The sorted arrivals fall into the bins as the recorded ones do.
LEMMA SortedLoad ==
  ASSUME IInv, NEW w, NEW b
  PROVE  Cardinality({k \in 1..Len(Arrivals) : WindowOf(Arrivals[k], First, w, Bins(w)) = b})
           = Load(w, b)
<1>1. /\ arrivalsNs \in Seq(Int)
      /\ \A k \in 1..Len(Arrivals) : Arrivals[k] \in Times
  BY ArrivalsAscend
<1>2. {k \in 1..Len(Arrivals) : WindowOf(Arrivals[k], First, w, Bins(w)) = b}
        = Places(Arrivals, InBin(w, b))
  BY <1>1 DEF Places, InBin
<1>3. Amount(Arrivals, InBin(w, b)) = Amount(arrivalsNs, InBin(w, b))
  BY <1>1, AmountSorted DEF Arrivals
<1> QED
  BY <1>2, <1>3 DEF Load, Amount

LEMMA AnalysisIs ==
  ASSUME IInv, NEW w, NEW th
  PROVE  AnalyzeWindows(Arrivals, w, th) =
           [numWindows   |-> Bins(w),
            burstWindows |-> Cardinality({b \in 0..(Bins(w) - 1) : Load(w, b) >= th}),
            maxInWindow  |-> Max({Load(w, b) : b \in 0..(Bins(w) - 1)})]
<1> DEFINE n == Bins(w)
           counts == [v \in 0..(n - 1) |->
                        Cardinality({k \in 1..Len(Arrivals) :
                                       WindowOf(Arrivals[k], Arrivals[1], w, n) = v})]
<1>1. AnalyzeWindows(Arrivals, w, th) =
        [numWindows   |-> n,
         burstWindows |-> Cardinality({v \in 0..(n - 1) : counts[v] >= th}),
         maxInWindow  |-> Max({counts[v] : v \in 0..(n - 1)})]
  BY Zenon DEF AnalyzeWindows, Bins
<1>2. \A v \in 0..(n - 1) : counts[v] = Load(w, v)
  <2> SUFFICES ASSUME NEW v \in 0..(n - 1) PROVE counts[v] = Load(w, v)
    OBVIOUS
  <2>1. counts[v] = Cardinality({k \in 1..Len(Arrivals) : WindowOf(Arrivals[k], First, w, Bins(w)) = v})
    BY DEF First
  <2> QED
    BY <2>1, SortedLoad
<1> HIDE DEF counts, n
<1>3. /\ {v \in 0..(n - 1) : counts[v] >= th} = {b \in 0..(n - 1) : Load(w, b) >= th}
      /\ {counts[v] : v \in 0..(n - 1)} = {Load(w, b) : b \in 0..(n - 1)}
  BY <1>2
<1> QED
  BY <1>1, <1>3 DEF n

LEMMA FirstIsMin ==
  ASSUME IInv, Len(Arrivals) >= 1
  PROVE  Min({arrivalsNs[k] : k \in 1..Len(arrivalsNs)}) = First
<1> DEFINE S == {arrivalsNs[k] : k \in 1..Len(arrivalsNs)}
<1>1. /\ arrivalsNs \in Seq(Int) /\ Len(Arrivals) = Len(arrivalsNs) /\ Len(Arrivals) \in Nat
      /\ \A k \in 1..Len(arrivalsNs) : arrivalsNs[k] \in Int
  BY ArrivalsAscend, ElementOfSeq
<1>2. First \in S
  <2>1. 1 \in 1..Len(arrivalsNs)
    BY <1>1
  <2>2. PICK i \in 1..Len(arrivalsNs) : Arrivals[1] = arrivalsNs[i]
    BY <1>1, <2>1, SortedFrom DEF Arrivals
  <2> QED
    BY <2>2 DEF First
<1>3. \A x \in S : x \in Int /\ First <= x
  BY <1>1, ArrivalsBetween DEF First
<1> HIDE DEF S
<1>4. Min(S) \in S /\ \A y \in S : Min(S) <= y
  <2>1. \E x \in S : \A y \in S : x <= y
    BY <1>2, <1>3
  <2> QED
    BY <2>1, Zenon DEF Min
<1>5. Min(S) = First
  BY <1>2, <1>3, <1>4
<1> QED
  BY <1>5 DEF S

\* As long as the histogram is not cut off, a bin is a stretch of time.
LEMMA StretchIs ==
  ASSUME IInv, Len(Arrivals) >= 1, NEW w \in Nat \ {0}, Span \div w < MaxBins, NEW b \in Nat
  PROVE  Cardinality({k \in 1..Len(arrivalsNs) : /\ First + b * w <= arrivalsNs[k]
                                                 /\ arrivalsNs[k] < First + (b + 1) * w})
           = IF b < Bins(w) THEN Load(w, b) ELSE 0
<1> DEFINE In == {k \in 1..Len(arrivalsNs) : /\ First + b * w <= arrivalsNs[k]
                                             /\ arrivalsNs[k] < First + (b + 1) * w}
<1>1. First \in Int /\ Span \in Nat
  BY SpanType, GapTargetAssumption DEF Times
<1>2. Bins(w) = Span \div w + 1 /\ Span \div w \in Nat
  BY BinsType, GapTargetAssumption
<1>3. ASSUME NEW k \in 1..Len(arrivalsNs)
      PROVE  /\ WindowOf(arrivalsNs[k], First, w, Bins(w)) \in 0..(Bins(w) - 1)
             /\ k \in In <=> WindowOf(arrivalsNs[k], First, w, Bins(w)) = b
             /\ arrivalsNs[k] \in Times
  <2> DEFINE t == arrivalsNs[k]
             x == t - First
             q == x \div w
  <2>1. t \in Times /\ t \in Int /\ First <= t /\ t <= Arrivals[Len(Arrivals)]
    BY ArrivalsAscend, ArrivalsBetween, GapTargetAssumption DEF Times, First
  <2>2. Arrivals[Len(Arrivals)] \in Int
    <3>1. Len(Arrivals) \in 1..Len(Arrivals)
      BY ArrivalsAscend
    <3> QED
      BY <3>1, ArrivalsAscend, GapTargetAssumption DEF Times
  <2>3. x \in Nat /\ x <= Span
    BY <1>1, <2>1, <2>2 DEF Span, First
  <2>4. q \in Nat /\ q <= Span \div w
    BY <1>1, <2>3, QuotientAscends
  <2>5. /\ WindowOf(t, First, w, Bins(w)) \in 0..(Bins(w) - 1)
        /\ WindowOf(t, First, w, Bins(w)) = IF q >= Bins(w) THEN Bins(w) - 1 ELSE q
    BY <2>1, BinOf
  <2>6. ~(q >= Bins(w))
    <3> HIDE DEF q
    <3> QED
      BY <1>2, <2>4
  <2>7. WindowOf(t, First, w, Bins(w)) = q
    BY <2>5, <2>6
  <2>8. (w * b <= x /\ x < w * b + w) <=> q = b
    BY <2>3, OnlyQuotient
  <2>9. k \in In <=> (w * b <= x /\ x < w * b + w)
    <3>1. b * w \in Int /\ b * w = w * b /\ (b + 1) * w = w * b + w
      OBVIOUS
    <3>2. k \in In <=> First + b * w <= t /\ t < First + (b + 1) * w
      OBVIOUS
    <3> QED
      BY <1>1, <2>1, <3>1, <3>2
  <2> QED
    BY <2>1, <2>5, <2>7, <2>8, <2>9
<1> HIDE DEF In
<1>4. In \subseteq 1..Len(arrivalsNs)
  BY DEF In
<1>5. CASE b < Bins(w)
  <2>1. In = Places(arrivalsNs, InBin(w, b))
    BY <1>3, <1>4 DEF Places, InBin
  <2> QED
    BY <1>5, <2>1 DEF Load, Amount, In
<1>6. CASE ~(b < Bins(w))
  <2>1. \A c \in 0..(Bins(w) - 1) : c # b
    BY <1>2, <1>6
  <2>2. In = {}
    BY <1>3, <1>4, <2>1
  <2> QED
    BY <1>6, <2>2, FS_EmptySet DEF In
<1> QED
  BY <1>5, <1>6

\* What is printed about a window.
LEMMA PrintedWindow ==
  ASSUME IInv, Full, NEW cfg \in Windows
  PROVE  /\ cfg.window \in Nat \ {0} /\ cfg.threshold \in Nat \ {0}
         /\ Summary.requests = Len(Arrivals) /\ Summary.span = Span
         /\ Summary.windows[cfg] = AnalyzeWindows(Arrivals, cfg.window, cfg.threshold)
         /\ Len(Arrivals) >= 1 /\ Len(Arrivals) = Len(arrivalsNs)
<1>1. cfg.window \in Nat \ {0} /\ cfg.threshold \in Nat \ {0}
  BY GapTargetAssumption
<1>2. Summary = FullSummary(Arrivals) /\ Len(Arrivals) >= 2
  BY FullIs
<1>3. /\ Summary.requests = Len(Arrivals)
      /\ Summary.span = Arrivals[Len(Arrivals)] - Arrivals[1]
      /\ Summary.windows = [c \in Windows |-> AnalyzeWindows(Arrivals, c.window, c.threshold)]
  BY <1>2, Zenon DEF FullSummary
<1>4. Len(Arrivals) \in Nat /\ Len(Arrivals) = Len(arrivalsNs)
  BY ArrivalsAscend
<1> QED
  BY <1>1, <1>2, <1>3, <1>4 DEF Span

LEMMA LoadsBounded ==
  ASSUME IInv, Len(Arrivals) >= 1, NEW w \in Nat \ {0}
  PROVE  LET loads == {Load(w, b) : b \in 0..(Bins(w) - 1)}
         IN  loads \in SUBSET Nat /\ Max(loads) \in loads /\ \A x \in loads : x <= Max(loads)
<1> DEFINE loads == {Load(w, b) : b \in 0..(Bins(w) - 1)}
<1>1. loads \in SUBSET Nat /\ \A x \in loads : x <= Len(arrivalsNs)
  BY LoadType
<1>2. 0 \in 0..(Bins(w) - 1)
  BY BinsType
<1>3. loads # {}
  BY <1>2
<1>4. Len(arrivalsNs) \in Nat
  BY ArrivalsAscend
<1> HIDE DEF loads
<1>5. Max(loads) \in loads /\ \A x \in loads : x <= Max(loads)
  BY <1>1, <1>3, <1>4, MaxIs
<1> QED
  BY <1>1, <1>5 DEF loads

LEMMA WindowsHold ==
  ASSUME IInv
  PROVE  WindowsExact
<1> DEFINE Held(cfg, first, b) == {k \in 1..Len(arrivalsNs) :
                                     /\ first + b * cfg.window <= arrivalsNs[k]
                                     /\ arrivalsNs[k] < first + (b + 1) * cfg.window}
           Least == Min({arrivalsNs[k] : k \in 1..Len(arrivalsNs)})
<1> SUFFICES ASSUME Full, NEW cfg \in Windows
             PROVE  IF Summary.span \div cfg.window < MaxBins
                    THEN /\ Summary.windows[cfg].burstWindows =
                              Cardinality({b \in 0..MaxTime :
                                             Cardinality(Held(cfg, Least, b)) >= cfg.threshold})
                         /\ \A b \in 0..MaxTime :
                              Cardinality(Held(cfg, Least, b)) <= Summary.windows[cfg].maxInWindow
                    ELSE Summary.windows[cfg].numWindows = MaxBins
  BY Zenon DEF WindowsExact
<1> DEFINE w == cfg.window
           th == cfg.threshold
           n == Bins(w)
           loads == {Load(w, b) : b \in 0..(n - 1)}
<1>1. /\ w \in Nat \ {0} /\ th \in Nat \ {0} /\ Summary.span = Span
      /\ Summary.windows[cfg] = AnalyzeWindows(Arrivals, w, th)
      /\ Len(Arrivals) >= 1
  BY PrintedWindow
<1>2. /\ Summary.windows[cfg].numWindows = n
      /\ Summary.windows[cfg].burstWindows = Cardinality({b \in 0..(n - 1) : Load(w, b) >= th})
      /\ Summary.windows[cfg].maxInWindow = Max(loads)
  <2>1. AnalyzeWindows(Arrivals, w, th) =
          [numWindows   |-> n,
           burstWindows |-> Cardinality({b \in 0..(n - 1) : Load(w, b) >= th}),
           maxInWindow  |-> Max(loads)]
    BY AnalysisIs, Zenon
  <2> HIDE DEF w, th, n, loads
  <2> QED
    BY <1>1, <2>1
<1>3. loads \in SUBSET Nat /\ Max(loads) \in loads /\ \A x \in loads : x <= Max(loads)
  BY <1>1, LoadsBounded
<1>4. Least = First
  BY <1>1, FirstIsMin
<1>5. /\ n = IF Span \div w + 1 > MaxBins THEN MaxBins ELSE Span \div w + 1
      /\ Span \div w \in 0..MaxTime /\ MaxBins \in Nat \ {0} /\ MaxTime \in Nat
      /\ n \in Nat \ {0}
  BY <1>1, BinsType, GapTargetAssumption
<1> HIDE DEF w, th, n
<1>6. CASE Span \div w < MaxBins
  <2>1. n = Span \div w + 1 /\ n - 1 \in 0..MaxTime
    BY <1>5, <1>6
  <2>2. ASSUME NEW b \in 0..MaxTime
        PROVE  Cardinality(Held(cfg, Least, b)) = IF b < n THEN Load(w, b) ELSE 0
    <3>1. b \in Nat
      OBVIOUS
    <3> QED
      BY <1>1, <1>4, <1>6, <3>1, StretchIs DEF w, n
  <2> HIDE DEF Held, Least
  <2>3. {b \in 0..MaxTime : Cardinality(Held(cfg, Least, b)) >= th}
          = {b \in 0..(n - 1) : Load(w, b) >= th}
    <3>1. ASSUME NEW b \in 0..MaxTime
          PROVE  Cardinality(Held(cfg, Least, b)) >= th <=> b < n /\ Load(w, b) >= th
      BY <1>1, <2>2
    <3>2. \A b \in 0..(n - 1) : b \in 0..MaxTime /\ b < n
      BY <1>5, <2>1
    <3>3. \A b \in 0..MaxTime : b < n => b \in 0..(n - 1)
      BY <1>5, <2>1
    <3> QED
      BY <3>1, <3>2, <3>3
  <2>4. ASSUME NEW b \in 0..MaxTime
        PROVE  Cardinality(Held(cfg, Least, b)) <= Max(loads)
    <3>1. CASE b < n
      <4>1. b \in 0..(n - 1)
        BY <2>1, <3>1
      <4>2. Load(w, b) \in loads
        BY <4>1
      <4> QED
        BY <1>3, <2>2, <3>1, <4>2
    <3>2. CASE ~(b < n)
      <4>1. Max(loads) \in Nat
        BY <1>3
      <4> QED
        BY <2>2, <3>2, <4>1
    <3> QED
      BY <3>1, <3>2
  <2> QED
    BY <1>1, <1>2, <1>6, <2>3, <2>4 DEF w, th
<1>7. CASE ~(Span \div w < MaxBins)
  <2>1. n = MaxBins
    BY <1>5, <1>7
  <2> QED
    BY <1>1, <1>2, <1>7, <2>1 DEF w
<1> QED
  BY <1>6, <1>7

\* The summary is exact: whatever the order in which the handlers took the
\* lock, the gaps measure the span, the percentiles are ordered in it, and
\* until the histogram is cut off a window is a stretch of time with just the
\* arrivals in it.
THEOREM SummaryAlwaysExact == Spec => []SummaryExact
<1>1. IInv => SummaryExact
  BY GapsHold, WindowsHold DEF SummaryExact, IInv
<1> QED
  BY <1>1, Inductive, PTL

----------------------------------------------------------------------------
(* The two analyses                                                        *)

\* The sender's bins of the same arrivals.
SenderCounts(w) == Counts(Arrivals, w)

LEMMA CountsAre ==
  ASSUME IInv, Len(Arrivals) >= 1, NEW w \in Nat \ {0}
  PROVE  /\ SenderCounts(w) \in Seq(Nat) /\ SenderCounts(w) \in Seq(Int)
         /\ Len(SenderCounts(w)) = Bins(w)
         /\ \A b \in 1..Bins(w) : SenderCounts(w)[b] = Load(w, b - 1) /\ SenderCounts(w)[b] \in Nat
<1> DEFINE n == Bins(w)
<1>1. NumBins(Arrivals[1], Arrivals[Len(Arrivals)], w) = n
  BY SameCaps DEF NumBins, Bins, NumWindows
<1>2. n \in Nat \ {0}
  BY BinsType
<1>3. SenderCounts(w) =
        [b \in 1..n |-> Cardinality({k \in 1..Len(Arrivals) :
                                       BinIndex(Arrivals[k], First, w, n) = b - 1})]
  BY <1>1, Zenon DEF SenderCounts, Counts, First
<1>4. \A k \in 1..Len(Arrivals) :
        BinIndex(Arrivals[k], First, w, n) = WindowOf(Arrivals[k], First, w, Bins(w))
  <2> SUFFICES ASSUME NEW k \in 1..Len(Arrivals)
               PROVE  BinIndex(Arrivals[k], First, w, n) = WindowOf(Arrivals[k], First, w, Bins(w))
    OBVIOUS
  <2>1. Arrivals[k] \in Times /\ Arrivals[k] - First \in Nat /\ First \in Times
    BY ArrivalsAscend, SpanType
  <2>2. First <= Arrivals[k]
    BY <2>1, GapTargetAssumption DEF Times
  <2> QED
    BY <2>1, <2>2, BinOf DEF BinIndex
<1> HIDE DEF n
<1>5. \A b \in 1..n : SenderCounts(w)[b] = Load(w, b - 1) /\ SenderCounts(w)[b] \in Nat
  <2> SUFFICES ASSUME NEW b \in 1..n
               PROVE  SenderCounts(w)[b] = Load(w, b - 1) /\ SenderCounts(w)[b] \in Nat
    OBVIOUS
  <2>1. SenderCounts(w)[b] = Cardinality({k \in 1..Len(Arrivals) :
                                            BinIndex(Arrivals[k], First, w, n) = b - 1})
    BY <1>3
  <2>2. {k \in 1..Len(Arrivals) : BinIndex(Arrivals[k], First, w, n) = b - 1}
          = {k \in 1..Len(Arrivals) : WindowOf(Arrivals[k], First, w, Bins(w)) = b - 1}
    BY <1>4
  <2> QED
    BY <2>1, <2>2, SortedLoad, LoadType
<1>6. SenderCounts(w) \in Seq(Nat) /\ Len(SenderCounts(w)) = n
  <2>1. DOMAIN SenderCounts(w) = 1..n /\ SenderCounts(w) = [b \in 1..n |-> SenderCounts(w)[b]]
    BY <1>3
  <2>2. SenderCounts(w) \in [1..n -> Nat]
    BY <1>5, <2>1
  <2> QED
    BY <1>2, <2>2
<1>7. SenderCounts(w) \in Seq(Int)
  BY <1>6, SeqMonotonic
<1> QED
  BY <1>5, <1>6, <1>7 DEF n

\* No arrival is lost between the bins.
LEMMA CountsAddUp ==
  ASSUME IInv, Len(Arrivals) >= 1, NEW w \in Nat \ {0}
  PROVE  SumOn(SenderCounts(w), 1..Bins(w)) = Len(Arrivals)
<1> DEFINE P == 1..Len(Arrivals)
           Q == 1..Bins(w)
           one == [k \in P |-> 1]
           h == [k \in P |-> WindowOf(Arrivals[k], First, w, Bins(w)) + 1]
           C == SenderCounts(w)
<1>1. /\ Len(Arrivals) \in Nat /\ Bins(w) \in Nat \ {0}
      /\ IsFiniteSet(P) /\ Cardinality(P) = Len(Arrivals) /\ IsFiniteSet(Q)
  <2>1. Len(Arrivals) \in Nat /\ Bins(w) \in Nat \ {0}
    BY ArrivalsAscend, BinsType
  <2>2. IsFiniteSet(1..Bins(w))
    BY <2>1, FS_Interval
  <2>3. IsFiniteSet(1..Len(Arrivals)) /\ Cardinality(1..Len(Arrivals)) = Len(Arrivals)
    BY <2>1, InitialSegment, Zenon
  <2> QED
    BY <2>1, <2>2, <2>3
<1>2. \A k \in P : WindowOf(Arrivals[k], First, w, Bins(w)) \in 0..(Bins(w) - 1)
  <2> SUFFICES ASSUME NEW k \in P PROVE WindowOf(Arrivals[k], First, w, Bins(w)) \in 0..(Bins(w) - 1)
    OBVIOUS
  <2>1. Arrivals[k] \in Times /\ Arrivals[k] - First \in Nat /\ First \in Times
    BY ArrivalsAscend, SpanType
  <2>2. First <= Arrivals[k]
    BY <2>1, GapTargetAssumption DEF Times
  <2> QED
    BY <2>1, <2>2, BinOf
<1>3. h \in [P -> Q]
  BY <1>1, <1>2
<1>4. \A q \in Q : C[q] = SumOn(one, Fiber(P, h, q))
  <2> SUFFICES ASSUME NEW q \in Q PROVE C[q] = SumOn(one, Fiber(P, h, q))
    OBVIOUS
  <2> DEFINE F == Fiber(P, h, q)
  <2>1. F = {k \in P : WindowOf(Arrivals[k], First, w, Bins(w)) = q - 1}
    BY <1>1, <1>2 DEF Fiber
  <2>2. Cardinality(F) = C[q]
    <3>1. C[q] = Load(w, q - 1)
      BY CountsAre
    <3> QED
      BY <2>1, <3>1, SortedLoad
  <2>3. IsFiniteSet(F) /\ \A x \in F : one[x] = 1
    <3>1. F \in SUBSET P
      BY <2>1
    <3>2. \A x \in F : one[x] = 1
      BY <3>1
    <3> HIDE DEF F, P, one
    <3> QED
      BY <1>1, <3>1, <3>2, FS_Subset
  <2>4. C[q] \in Nat
    BY CountsAre
  <2> HIDE DEF F, one, C
  <2>5. SumOn(one, F) = Cardinality(F) * 1
    BY <2>3, SumConstant
  <2> QED
    BY <2>2, <2>4, <2>5 DEF F
<1>5. \A x \in P : one[x] = 1
  OBVIOUS
<1> HIDE DEF P, Q, one, h, C
<1>6. SumOn(one, P) = SumOn(C, Q)
  <2>1. \A x \in P : one[x] \in Int
    BY <1>5
  <2> QED
    BY <1>1, <1>3, <1>4, <2>1, SumFibers
<1>7. SumOn(one, P) = Cardinality(P) * 1
  BY <1>1, <1>5, SumConstant
<1> QED
  BY <1>1, <1>6, <1>7 DEF C, Q

\* What the sender prints about the same arrivals.
LEMMA SenderIs ==
  ASSUME IInv, Len(Arrivals) >= 1, NEW w \in Nat \ {0}, NEW ths
  PROVE  SenderSummary(arrivalsNs, w, ths) =
           [numBins   |-> Len(SenderCounts(w)),
            numEvents |-> Len(Arrivals),
            fano      |-> Fano(SenderCounts(w)),
            max       |-> Max({SenderCounts(w)[b] : b \in 1..Len(SenderCounts(w))}),
            p50       |-> CountQuantile(SenderCounts(w), 50),
            p90       |-> CountQuantile(SenderCounts(w), 90),
            p99       |-> CountQuantile(SenderCounts(w), 99),
            crosses   |-> [th \in ths |-> BinsAtLeast(SenderCounts(w), th)]]
<1>1. ~(w <= 0 \/ arrivalsNs = <<>>)
  <2>1. ~(w <= 0)
    OBVIOUS
  <2>2. Len(arrivalsNs) # 0
    BY ArrivalsAscend
  <2>3. arrivalsNs # <<>>
    BY <2>2, EmptySeq
  <2> QED
    BY <2>1, <2>3
<1> QED
  BY <1>1, Zenon DEF SenderSummary, SenderCounts, Arrivals

LEMMA CountsHold ==
  ASSUME IInv
  PROVE  CountsAgree
<1> DEFINE s(cfg) == SenderSummary(arrivalsNs, cfg.window, {cfg.threshold})
<1> SUFFICES ASSUME Full, NEW cfg \in Windows
             PROVE  /\ s(cfg).numEvents = Summary.requests
                    /\ s(cfg).numBins = Summary.windows[cfg].numWindows
                    /\ s(cfg).crosses[cfg.threshold] = Summary.windows[cfg].burstWindows
                    /\ s(cfg).max = Summary.windows[cfg].maxInWindow
                    /\ s(cfg).fano.den = s(cfg).numBins * s(cfg).numEvents
  BY Zenon DEF CountsAgree
<1> DEFINE w == cfg.window
           th == cfg.threshold
           n == Bins(w)
           C == SenderCounts(w)
<1>1. /\ w \in Nat \ {0} /\ Summary.requests = Len(Arrivals)
      /\ Summary.windows[cfg] = AnalyzeWindows(Arrivals, w, th)
      /\ Len(Arrivals) >= 1
  BY PrintedWindow
<1>2. /\ s(cfg).numBins = Len(C) /\ s(cfg).numEvents = Len(Arrivals) /\ s(cfg).fano = Fano(C)
      /\ s(cfg).max = Max({C[b] : b \in 1..Len(C)})
      /\ s(cfg).crosses[th] = BinsAtLeast(C, th)
  <2>1. s(cfg) = [numBins   |-> Len(C), numEvents |-> Len(Arrivals), fano |-> Fano(C),
                  max       |-> Max({C[b] : b \in 1..Len(C)}),
                  p50       |-> CountQuantile(C, 50),
                  p90       |-> CountQuantile(C, 90),
                  p99       |-> CountQuantile(C, 99),
                  crosses   |-> [x \in {th} |-> BinsAtLeast(C, x)]]
    BY <1>1, SenderIs, Zenon
  <2> HIDE DEF s, C, th
  <2> QED
    BY <2>1
<1>3. AnalyzeWindows(Arrivals, w, th) =
        [numWindows   |-> n,
         burstWindows |-> Cardinality({b \in 0..(n - 1) : Load(w, b) >= th}),
         maxInWindow  |-> Max({Load(w, b) : b \in 0..(n - 1)})]
  BY AnalysisIs, Zenon
<1>4. /\ Len(C) = n /\ n \in Nat \ {0}
      /\ \A b \in 1..n : C[b] = Load(w, b - 1) /\ C[b] \in Nat
  BY <1>1, CountsAre, BinsType
<1> HIDE DEF s, w, th, n, C
<1>5. /\ Summary.windows[cfg].numWindows = n
      /\ Summary.windows[cfg].burstWindows = Cardinality({b \in 0..(n - 1) : Load(w, b) >= th})
      /\ Summary.windows[cfg].maxInWindow = Max({Load(w, b) : b \in 0..(n - 1)})
  BY <1>1, <1>3
<1>6. \A b \in 0..(n - 1) : b + 1 \in 1..n /\ C[b + 1] = Load(w, b)
  <2> SUFFICES ASSUME NEW b \in 0..(n - 1) PROVE b + 1 \in 1..n /\ C[b + 1] = Load(w, b)
    OBVIOUS
  <2>1. b + 1 \in 1..n /\ (b + 1) - 1 = b
    BY <1>4
  <2> QED
    BY <1>4, <2>1
<1>7. {C[b] : b \in 1..n} = {Load(w, b) : b \in 0..(n - 1)}
  <2>1. \A b \in 1..n : b - 1 \in 0..(n - 1)
    BY <1>4
  <2> QED
    BY <1>4, <1>6, <2>1
<1>8. BinsAtLeast(C, th) = Cardinality({b \in 0..(n - 1) : Load(w, b) >= th})
  <2> DEFINE A == {b \in 0..(n - 1) : Load(w, b) >= th}
             B == {b \in 1..n : C[b] >= th}
             p == [b \in A |-> b + 1]
  <2>1. p \in [A -> B]
    BY <1>6
  <2>2. \A i, j \in A : p[i] = p[j] => i = j
    BY <1>4
  <2>3. ASSUME NEW b \in B PROVE \E i \in A : p[i] = b
    <3>1. b - 1 \in 0..(n - 1) /\ (b - 1) + 1 = b
      BY <1>4
    <3>2. b - 1 \in A
      BY <1>4, <3>1
    <3>3. p[b - 1] = b
      BY <3>1, <3>2
    <3> QED
      BY <3>2, <3>3
  <2>4. IsFiniteSet(A)
    <3>1. IsFiniteSet(0..(n - 1)) /\ A \in SUBSET (0..(n - 1))
      BY <1>4, FS_Interval
    <3> HIDE DEF A
    <3> QED
      BY <3>1, FS_Subset
  <2>5. BinsAtLeast(C, th) = Cardinality(B)
    BY <1>4 DEF BinsAtLeast
  <2> HIDE DEF A, B, p
  <2>6. Cardinality(B) = Cardinality(A)
    BY <2>1, <2>2, <2>3, <2>4, SameAmount
  <2> QED
    BY <2>5, <2>6 DEF A
<1>9. Fano(C).den = n * SumOn(C, 1..n)
  <2>1. Fano(C).den = Len(C) * MapThenSumSet(LAMBDA b : C[b], 1..Len(C))
    BY Zenon DEF Fano
  <2>2. MapThenSumSet(LAMBDA b : C[b], 1..Len(C)) = SumOn(C, 1..Len(C))
    BY MapThenSumIsSum, Zenon
  <2> QED
    BY <1>4, <2>1, <2>2
<1>10. SumOn(C, 1..n) = Len(Arrivals)
  BY <1>1, CountsAddUp DEF C, n
<1> QED
  BY <1>1, <1>2, <1>4, <1>5, <1>7, <1>8, <1>9, <1>10 DEF th

\* The element at a percentage of the places up to the last.
LEMMA QuantileRanked ==
  ASSUME NEW C \in Seq(Int), Len(C) >= 1, NEW p \in Nat, p < 100, NEW q, q = CountQuantile(C, p)
  PROVE  /\ 100 * Cardinality({b \in 1..Len(C) : C[b] < q}) <= p * (Len(C) - 1)
         /\ 100 * Cardinality({b \in 1..Len(C) : C[b] <= q}) > p * (Len(C) - 1)
<1> DEFINE at == ((p * (Len(C) - 1)) \div 100) + 1
           low == Cardinality({b \in 1..Len(C) : C[b] < q})
           high == Cardinality({b \in 1..Len(C) : C[b] <= q})
<1>1. PICK share \in Nat : share = p * (Len(C) - 1)
  OBVIOUS
<1>2. at \in 1..Len(C) /\ 100 * (at - 1) <= share /\ share < 100 * at
  BY <1>1
<1>3. q = SortTimes(C)[at]
  BY DEF CountQuantile
<1> HIDE DEF at
<1>4. PICK k \in 1..Len(C) : k = at
  BY <1>2
<1>5. q = SortTimes(C)[k]
  BY <1>3, <1>4
<1>6. C \in Seq(Int) /\ k \in 1..Len(C)
  OBVIOUS
<1>7. low \in Nat /\ low <= k - 1 /\ high \in Nat /\ high >= k
  BY ONLY <1>5, <1>6, SortedSplits, Zenon
<1> HIDE DEF low, high
<1>8. 100 * low <= share /\ 100 * high > share
  BY <1>2, <1>4, <1>7
<1> QED
  BY <1>1, <1>8 DEF low, high

LEMMA QuantileFrom ==
  ASSUME NEW C \in Seq(Int), Len(C) >= 1, NEW p \in Nat, p < 100
  PROVE  \E i \in 1..Len(C) : CountQuantile(C, p) = C[i]
<1> DEFINE at == ((p * (Len(C) - 1)) \div 100) + 1
<1>1. PICK share \in Nat : share = p * (Len(C) - 1)
  OBVIOUS
<1>2. at \in 1..Len(C)
  BY <1>1
<1>3. CountQuantile(C, p) = SortTimes(C)[at]
  BY DEF CountQuantile
<1> HIDE DEF at
<1>4. PICK i \in 1..Len(C) : SortTimes(C)[at] = C[i]
  BY <1>2, SortedFrom
<1> QED
  BY <1>3, <1>4

LEMMA ShapeHolds ==
  ASSUME IInv
  PROVE  SenderShape
<1> DEFINE s(cfg) == SenderSummary(arrivalsNs, cfg.window, {cfg.threshold})
           D(cfg) == Counts(SortTimes(arrivalsNs), cfg.window)
           Ranked(cfg, q, p) ==
             /\ 100 * Cardinality({b \in 1..s(cfg).numBins : D(cfg)[b] < q}) <= p * (s(cfg).numBins - 1)
             /\ 100 * Cardinality({b \in 1..s(cfg).numBins : D(cfg)[b] <= q}) > p * (s(cfg).numBins - 1)
<1> SUFFICES ASSUME Full, NEW cfg \in Windows
             PROVE  /\ Ranked(cfg, s(cfg).p50, 50) /\ Ranked(cfg, s(cfg).p90, 90)
                    /\ Ranked(cfg, s(cfg).p99, 99)
                    /\ s(cfg).p99 <= s(cfg).max
                    /\ s(cfg).fano.num >= 0
                    /\ s(cfg).fano.num = 0 <=> s(cfg).max * s(cfg).numBins = s(cfg).numEvents
  BY Zenon DEF SenderShape
<1> DEFINE w == cfg.window
           th == cfg.threshold
           n == Bins(w)
           C == SenderCounts(w)
           S == 1..n
           top == Max({C[b] : b \in S})
<1>1. w \in Nat \ {0} /\ Len(Arrivals) >= 1 /\ Len(Arrivals) \in Nat
  BY PrintedWindow, ArrivalsAscend
<1>2. /\ C \in Seq(Int) /\ Len(C) = n /\ n \in Nat \ {0}
      /\ \A b \in S : C[b] = Load(w, b - 1) /\ C[b] \in Nat
  BY <1>1, CountsAre, BinsType
<1>3. /\ s(cfg).numBins = n /\ s(cfg).numEvents = Len(Arrivals) /\ s(cfg).fano = Fano(C)
      /\ s(cfg).max = top
      /\ s(cfg).p50 = CountQuantile(C, 50)
      /\ s(cfg).p90 = CountQuantile(C, 90)
      /\ s(cfg).p99 = CountQuantile(C, 99)
  <2>1. s(cfg) = [numBins   |-> Len(C), numEvents |-> Len(Arrivals), fano |-> Fano(C),
                  max       |-> Max({C[b] : b \in 1..Len(C)}),
                  p50       |-> CountQuantile(C, 50),
                  p90       |-> CountQuantile(C, 90),
                  p99       |-> CountQuantile(C, 99),
                  crosses   |-> [x \in {th} |-> BinsAtLeast(C, x)]]
    BY <1>1, SenderIs, Zenon
  <2>2. {C[b] : b \in 1..Len(C)} = {C[b] : b \in S}
    BY <1>2
  <2> HIDE DEF s, C, th
  <2> QED
    BY <1>2, <2>1, <2>2
<1>4. D(cfg) = C
  BY DEF SenderCounts, Arrivals
<1> HIDE DEF s, D, w, th, n, C
<1>5. ASSUME NEW p \in Nat, p < 100
      PROVE  Ranked(cfg, CountQuantile(C, p), p) /\ \E i \in S : CountQuantile(C, p) = C[i]
  <2>1. C \in Seq(Int) /\ Len(C) >= 1 /\ p \in Nat /\ p < 100
    BY <1>2, <1>5
  <2> DEFINE q == CountQuantile(C, p)
  <2>2. /\ 100 * Cardinality({b \in 1..Len(C) : C[b] < q}) <= p * (Len(C) - 1)
        /\ 100 * Cardinality({b \in 1..Len(C) : C[b] <= q}) > p * (Len(C) - 1)
    <3>1. PICK r : r = q
      OBVIOUS
    <3>2. r = CountQuantile(C, p)
      BY <3>1
    <3> HIDE DEF q
    <3>3. /\ 100 * Cardinality({b \in 1..Len(C) : C[b] < r}) <= p * (Len(C) - 1)
          /\ 100 * Cardinality({b \in 1..Len(C) : C[b] <= r}) > p * (Len(C) - 1)
      BY ONLY <2>1, <3>2, QuantileRanked, Zenon
    <3> QED
      BY <3>1, <3>3
  <2>3. s(cfg).numBins = n /\ Len(C) = n
    BY <1>2, <1>3
  <2>4. 1..Len(C) = S
    BY <2>3
  <2>5. \E i \in 1..Len(C) : q = C[i]
    BY <2>1, QuantileFrom
  <2> QED
    BY <1>4, <2>2, <2>3, <2>4, <2>5, Zenon
<1>6. /\ IsFiniteSet(S) /\ Cardinality(S) = n
      /\ S # {} /\ \A b \in S : C[b] <= Len(arrivalsNs)
  <2>1. IsFiniteSet(1..n) /\ Cardinality(1..n) = n
    BY <1>2, InitialSegment, Zenon
  <2>2. 1 \in S
    BY <1>2
  <2>3. \A b \in S : C[b] <= Len(arrivalsNs)
    BY <1>2, LoadType
  <2> QED
    BY <2>1, <2>2, <2>3
<1>7. /\ top \in Nat /\ \A b \in S : C[b] <= top
      /\ \E b \in S : C[b] = top
  <2> DEFINE V == {C[b] : b \in S}
  <2>1. V \in SUBSET Nat /\ V # {} /\ (\A x \in V : x <= Len(arrivalsNs)) /\ Len(arrivalsNs) \in Nat
    BY <1>2, <1>6, ArrivalsAscend
  <2>2. Max(V) \in V /\ \A x \in V : x <= Max(V)
    <3> HIDE DEF V
    <3> QED
      BY <2>1, MaxIs
  <2>3. Max(V) \in Nat
    <3> HIDE DEF V
    <3> QED
      BY <2>1, <2>2
  <2> QED
    BY <2>2, <2>3
<1> HIDE DEF top
<1>8. SumOn(C, S) = Len(Arrivals)
  BY <1>1, CountsAddUp DEF C, n
<1> DEFINE sq == [b \in S |-> C[b] * C[b]]
           a == SumOn(C, S)
           v == SumOn(sq, S)
<1>9. Fano(C).num = n * v - a * a
  <2>1. Fano(C).num = Len(C) * MapThenSumSet(LAMBDA b : C[b] * C[b], 1..Len(C))
                        - MapThenSumSet(LAMBDA b : C[b], 1..Len(C))
                          * MapThenSumSet(LAMBDA b : C[b], 1..Len(C))
    BY Zenon DEF Fano
  <2>2. MapThenSumSet(LAMBDA b : C[b], S) = a
    BY MapThenSumIsSum, Zenon
  <2>3. \A x \in S : sq[x] = C[x] * C[x]
    OBVIOUS
  <2> HIDE DEF sq
  <2>4. MapThenSumSet(LAMBDA x : C[x] * C[x], S) = v
    BY <1>6, <2>3, SquareSumIsSum, Zenon
  <2> QED
    BY <1>2, <2>1, <2>2, <2>4
<1>10. /\ n * v - a * a >= 0
       /\ n * v - a * a = 0 <=> \A x \in S : n * C[x] = a
  <2>1. \A x \in S : sq[x] = C[x] * C[x] /\ C[x] \in Nat /\ sq[x] \in Int /\ C[x] \in Int
    BY <1>2
  <2> HIDE DEF sq, S
  <2>2. a \in Int /\ v \in Int
    BY <1>6, <2>1, SumType
  <2>3. /\ IsFiniteSet(S) /\ n \in Nat \ {0} /\ n = Cardinality(S)
        /\ a = SumOn(C, S) /\ v = SumOn(sq, S)
        /\ (\A x \in S : C[x] \in Nat) /\ (\A x \in S : sq[x] = C[x] * C[x])
    BY <1>2, <1>6, <2>1
  <2> HIDE DEF a, v
  <2> QED
    BY <2>2, <2>3, Variance
<1>11. (\A x \in S : n * C[x] = a) <=> top * n = a
  <2>1. ASSUME \A x \in S : n * C[x] = a PROVE top * n = a
    <3>1. PICK b \in S : C[b] = top
      BY <1>7
    <3>2. n * top = a
      BY <2>1, <3>1
    <3> QED
      BY <1>2, <1>7, <3>2
  <2>2. ASSUME top * n = a, NEW x \in S PROVE n * C[x] = a
    <3> DEFINE below == [b \in S |-> top - C[b]]
               same  == [b \in S |-> top]
    <3>1. \A b \in S : below[b] \in Nat /\ below[b] \in Int /\ C[b] \in Int
                       /\ same[b] = below[b] + C[b] /\ same[b] = top
      BY <1>2, <1>7
    <3>2. below[x] = top - C[x]
      OBVIOUS
    <3> HIDE DEF below, same, S
    <3>3. SumOn(same, S) = n * top
      BY <1>6, <1>7, <3>1, SumConstant
    <3>4. SumOn(same, S) = SumOn(below, S) + a
      BY <1>6, <3>1, SumAdd
    <3>5. SumOn(below, S) \in Nat /\ a \in Int
      BY <1>6, <3>1, SumNatural, SumType
    <3>6. SumOn(below, S) = 0
      BY <1>2, <1>7, <2>2, <3>3, <3>4, <3>5
    <3>7. below[x] = 0
      BY <1>6, <3>1, <3>6, SumZero
    <3>8. C[x] = top
      BY <1>7, <3>1, <3>2, <3>7
    <3> QED
      BY <1>2, <1>7, <2>2, <3>8
  <2> QED
    BY <2>1, <2>2
<1>12. s(cfg).fano.num >= 0 /\ (s(cfg).fano.num = 0 <=> top * n = Len(Arrivals))
  BY <1>3, <1>8, <1>9, <1>10, <1>11
<1>13. /\ Ranked(cfg, CountQuantile(C, 50), 50)
       /\ Ranked(cfg, CountQuantile(C, 90), 90)
       /\ Ranked(cfg, CountQuantile(C, 99), 99)
       /\ \E i \in S : CountQuantile(C, 99) = C[i]
  <2>1. /\ 50 \in Nat /\ 50 < 100 /\ 90 \in Nat /\ 90 < 100 /\ 99 \in Nat /\ 99 < 100
    OBVIOUS
  <2> HIDE DEF Ranked
  <2> QED
    BY <1>5, <2>1, Zenon
<1>14. s(cfg).p99 <= s(cfg).max
  BY <1>3, <1>7, <1>13
<1>15. Ranked(cfg, s(cfg).p50, 50) /\ Ranked(cfg, s(cfg).p90, 90) /\ Ranked(cfg, s(cfg).p99, 99)
  <2> HIDE DEF Ranked
  <2> QED
    BY <1>3, <1>13
<1> QED
  BY <1>3, <1>12, <1>14, <1>15

\* For the same arrivals the sender's analysis and the receiver's agree,
\* however late a sample falls into the last bin; the sender's quantiles have
\* their share of the bins, and its Fano factor is never negative and zero only
\* for a stream that is the same in every bin.
THEOREM AnalyzersAlwaysAgree == Spec => []AnalyzersAgree
<1>1. IInv => AnalyzersAgree
  BY CountsHold, ShapeHolds DEF AnalyzersAgree
<1> QED
  BY <1>1, Inductive, PTL
=============================================================================
