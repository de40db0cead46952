------------------------- MODULE SendPipelineProofs -------------------------
(***************************************************************************)
(* Theorems about the send pipeline, for any number of workers, arrivals   *)
(* and ticks and any capacity of the queue: the ledgers of the arrivals,   *)
(* the telemetry and the errors, the rotation of the requests and of the   *)
(* connections, no silent loss of output, the final summary, and the       *)
(* refinement of Replay but for its fairness.                              *)
(***************************************************************************)
EXTENDS SendPipelineProps, DataProofs, FiniteSetTheorems, FunctionTheorems, SequenceTheorems,
        TLAPS

----------------------------------------------------------------------------
(* The inductive invariant *)

\* A call that has returned has an outcome.
OutcomeKnown ==
  \A w \in Workers : workerPC[w] \in {"returned", "landed", "counted"} => outcome[w] # "none"

\* Shutdown is a chain: the channel is closed, then the workers leave it empty,
\* then the reporter leaves, and only then is the summary taken.
ShutdownOrder ==
  /\ jobsClosed <=> mainPC \in {"wait", "join", "warn", "close", "exited"}
  /\ \A w \in Workers : workerPC[w] = "done" => jobsClosed /\ jobs = <<>>
  /\ mainPC \in {"join", "warn", "close", "exited"} => \A w \in Workers : workerPC[w] = "done"
  /\ mainPC \in {"warn", "close", "exited"} => reporterPC = "done"

\* As long as an output has not failed it has everything that was written to it.
OutputComplete ==
  /\ ("csv" \in Outputs /\ ~csv.err) =>
        csv.rows + Cardinality(Unrecorded) = totalOK + totalErr
  /\ ~jsonl.err => jsonl.rows = jsonl.tried
  /\ recorded + dropped = reqIdx + (IF mainPC = "enqueue" THEN 1 ELSE 0)

\* After the warnings every loss has been told.
LossTold ==
  mainPC \in {"close", "exited"} =>
    /\ dropped > 0 => "analyzer" \in warned
    /\ jsonl.err => "jsonl" \in warned
    /\ csv.err => "csv" \in warned

\* A field of the row is zero until its counter is swapped into it.
RowFresh ==
  /\ reporterPC = "select" => row.sent = 0
  /\ reporterPC \in {"select", "swapOK"} => row.ok = 0
  /\ reporterPC \in {"select", "swapOK", "swapErr"} => row.err = 0
  /\ reporterPC \in {"select", "swapOK", "swapErr", "copyLatencies"} => row.lats = 0

IInv == /\ TypeOK /\ OutcomeKnown
        /\ Ledger /\ TelemetryConserved /\ RowFresh
        /\ ShutdownOrder /\ OutputComplete /\ LossTold

----------------------------------------------------------------------------
(* Counting workers *)

\* The workers whose program counter is in the set S.
At(pc, S) == {w \in Workers : pc[w] \in S}

In(x, S) == IF x \in S THEN 1 ELSE 0

\* When one worker moves, a count of workers changes by what it leaves and enters.
LEMMA MoveCount ==
  ASSUME NEW pc \in [Workers -> WorkerPCs], NEW w \in Workers, NEW to \in WorkerPCs, NEW S
  PROVE  /\ Cardinality(At(pc, S)) \in Nat
         /\ Cardinality(At([pc EXCEPT ![w] = to], S))
              = Cardinality(At(pc, S)) + In(to, S) - In(pc[w], S)
<1> DEFINE moved == [pc EXCEPT ![w] = to]
<1>1. IsFiniteSet(At(pc, S)) /\ Cardinality(At(pc, S)) \in Nat
  BY SendPipelineAssumption, FS_Subset, FS_CardinalityType DEF At
<1>2. CASE pc[w] \in S <=> to \in S
  <2>1. At(moved, S) = At(pc, S)
    BY <1>2 DEF At
  <2> QED
    BY <1>1, <1>2, <2>1 DEF In
<1>3. CASE pc[w] \in S /\ to \notin S
  <2>1. At(moved, S) = At(pc, S) \ {w} /\ w \in At(pc, S)
    BY <1>3 DEF At
  <2>2. Cardinality(At(moved, S)) = Cardinality(At(pc, S)) - 1
    BY <1>1, <2>1, FS_RemoveElement
  <2> QED
    BY <1>1, <1>3, <2>2 DEF In
<1>4. CASE pc[w] \notin S /\ to \in S
  <2>1. At(moved, S) = At(pc, S) \cup {w} /\ w \notin At(pc, S)
    BY <1>4 DEF At
  <2>2. Cardinality(At(moved, S)) = Cardinality(At(pc, S)) + 1
    BY <1>1, <2>1, FS_AddElement
  <2> QED
    BY <1>1, <1>4, <2>2 DEF In
<1> QED
  BY <1>2, <1>3, <1>4

InFlight == {w \in Workers : workerPC[w] \in {"invoking", "returned"}}

LEMMA Populations ==
  ASSUME TypeOK
  PROVE  /\ Cardinality(Holding) \in Nat
         /\ Cardinality(InFlight) \in Nat
         /\ Cardinality(Unrecorded) \in Nat
BY SendPipelineAssumption, FS_Subset, FS_CardinalityType DEF Holding, InFlight, Unrecorded

LEMMA NobodyMoves ==
  ASSUME UNCHANGED workerPC
  PROVE  Holding' = Holding /\ InFlight' = InFlight /\ Unrecorded' = Unrecorded
BY DEF Holding, InFlight, Unrecorded

HoldingPCs  == {"taken", "invoking", "returned", "landed"}
InFlightPCs == {"invoking", "returned"}

\* What a step of a worker does to the three populations.
LEMMA StepCounts ==
  ASSUME TypeOK, NEW w \in Workers, NEW from \in WorkerPCs, NEW to \in WorkerPCs,
         Goto(w, from, to)
  PROVE  /\ Cardinality(Holding')
              = Cardinality(Holding) + In(to, HoldingPCs) - In(from, HoldingPCs)
         /\ Cardinality(InFlight')
              = Cardinality(InFlight) + In(to, InFlightPCs) - In(from, InFlightPCs)
         /\ Cardinality(Unrecorded')
              = Cardinality(Unrecorded) + In(to, {"counted"}) - In(from, {"counted"})
<1>1. workerPC \in [Workers -> WorkerPCs] /\ workerPC[w] = from
      /\ workerPC' = [workerPC EXCEPT ![w] = to]
  BY DEF Goto, TypeOK, WorkerType
<1>2. /\ Holding = At(workerPC, HoldingPCs)
      /\ Holding' = At([workerPC EXCEPT ![w] = to], HoldingPCs)
  BY <1>1 DEF Holding, At, HoldingPCs
<1>3. /\ InFlight = At(workerPC, InFlightPCs)
      /\ InFlight' = At([workerPC EXCEPT ![w] = to], InFlightPCs)
  BY <1>1 DEF InFlight, At, InFlightPCs
<1>4. /\ Unrecorded = At(workerPC, {"counted"})
      /\ Unrecorded' = At([workerPC EXCEPT ![w] = to], {"counted"})
  BY <1>1 DEF Unrecorded, At
<1>5. ASSUME NEW S
      PROVE  Cardinality(At([workerPC EXCEPT ![w] = to], S))
               = Cardinality(At(workerPC, S)) + In(to, S) - In(from, S)
  BY <1>1, MoveCount
<1> QED
  BY <1>2, <1>3, <1>4, <1>5

----------------------------------------------------------------------------
(* Types *)

LEMMA TypeInit == Init => TypeOK /\ OutcomeKnown
<1> SUFFICES ASSUME Init PROVE TypeOK /\ OutcomeKnown
  OBVIOUS
<1> USE SendPipelineAssumption DEF Init
<1>1. DispatcherType
  <2>1. jobs \in Seq(Requests) /\ Len(jobs) = 0
    BY EmptySeq
  <2>2. mainPC \in MainPCs /\ reqIdx \in Nat /\ totalSent \in Nat /\ dropped \in Nat
        /\ jobsClosed \in BOOLEAN
    BY DEF MainPCs
  <2>3. recorded \in 0..AnalyzerCap /\ Len(jobs) <= QueueCapacity
    BY <2>1
  <2> QED
    BY ONLY <2>1, <2>2, <2>3 DEF DispatcherType
<1>2. WorkerType /\ OutcomeKnown
  BY DEF WorkerType, OutcomeKnown, WorkerPCs, Requests, Connections
<1>3. LatchType
  <2>1. DOMAIN errorCounts = {}
    OBVIOUS
  <2>2. csv \in [rows : Nat, err : BOOLEAN]
    <3>1. PICK fails \in BOOLEAN : csv = [rows |-> 0, err |-> fails]
      OBVIOUS
    <3> QED
      BY ONLY <3>1
  <2> QED
    BY <2>1, <2>2 DEF LatchType
<1>4. ReporterType /\ EndType
  <2>1. EmptyRow \in [sent : Nat, ok : Nat, err : Nat, lats : Nat]
    BY DEF EmptyRow
  <2>2. jsonl \in [tried : Nat, rows : Nat, err : BOOLEAN]
    OBVIOUS
  <2>3. summary \in [total : Nat, ok : Nat, err : Nat]
    BY DEF NoSummary
  <2>4. ReporterType
    <3>1. row = EmptyRow /\ reported = EmptyRow
      OBVIOUS
    <3>2. reporterPC \in ReporterPCs /\ ticks \in 0..MaxTicks
      BY DEF ReporterPCs
    <3>3. tickPending \in BOOLEAN /\ stop \in BOOLEAN
      OBVIOUS
    <3> QED
      BY ONLY <2>1, <2>2, <3>1, <3>2, <3>3 DEF ReporterType
  <2> QED
    BY <2>3, <2>4 DEF EndType
<1> QED
  BY <1>1, <1>2, <1>3, <1>4 DEF TypeOK

\* Each part of the type invariant concerns some of the variables only.
LEMMA Frames ==
  /\ DispatcherType /\ UNCHANGED <<mainVars, queueVars>> => DispatcherType'
  /\ WorkerType /\ UNCHANGED <<workerVars, totals>> => WorkerType'
  /\ OutcomeKnown /\ UNCHANGED <<workerPC, outcome>> => OutcomeKnown'
  /\ LatchType /\ UNCHANGED <<secVars, muVars>> => LatchType'
  /\ ReporterType /\ UNCHANGED <<reporterVars, tickerVars, stop, jsonl>> => ReporterType'
  /\ EndType /\ UNCHANGED endVars => EndType'
<1>1. DispatcherType /\ UNCHANGED <<mainVars, queueVars>> => DispatcherType'
  BY DEF DispatcherType, mainVars, queueVars
<1>2. WorkerType /\ UNCHANGED <<workerVars, totals>> => WorkerType'
  BY DEF WorkerType, workerVars, totals
<1>3. OutcomeKnown /\ UNCHANGED <<workerPC, outcome>> => OutcomeKnown'
  BY DEF OutcomeKnown
<1>4. LatchType /\ UNCHANGED <<secVars, muVars>> => LatchType'
  BY DEF LatchType, secVars, muVars
<1>5. ReporterType /\ UNCHANGED <<reporterVars, tickerVars, stop, jsonl>> => ReporterType'
  BY DEF ReporterType, reporterVars, tickerVars
<1>6. EndType /\ UNCHANGED endVars => EndType'
  BY DEF EndType, endVars
<1> QED
  BY <1>1, <1>2, <1>3, <1>4, <1>5, <1>6

\* What the helpers of the actions do to the outputs and to the error map.
LEMMA EmitEffect ==
  ASSUME jsonl \in [tried : Nat, rows : Nat, err : BOOLEAN], Emit
  PROVE  /\ jsonl' \in [tried : Nat, rows : Nat, err : BOOLEAN]
         /\ jsonl.err => jsonl'.err
         /\ ~jsonl'.err /\ jsonl.rows = jsonl.tried => jsonl'.rows = jsonl'.tried
<1>1. CASE "jsonl" \notin Outputs
  BY <1>1 DEF Emit
<1>2. CASE "jsonl" \in Outputs
  <2>1. PICK lost \in BOOLEAN :
          /\ jsonl.err => lost
          /\ jsonl' = [tried |-> jsonl.tried + 1,
                       rows  |-> IF lost THEN jsonl.rows ELSE jsonl.rows + 1,
                       err   |-> lost]
    BY <1>2 DEF Emit
  <2> QED
    BY <2>1
<1> QED
  BY <1>1, <1>2

LEMMA WriteCSVRowEffect ==
  ASSUME csv \in [rows : Nat, err : BOOLEAN], WriteCSVRow
  PROVE  /\ csv' \in [rows : Nat, err : BOOLEAN]
         /\ csv.err => csv'.err
         /\ "csv" \in Outputs /\ ~csv'.err => csv'.rows = csv.rows + 1
<1>1. CASE "csv" \notin Outputs
  BY <1>1 DEF WriteCSVRow
<1>2. CASE "csv" \in Outputs
  <2>1. PICK fails \in BOOLEAN :
          csv' = [rows |-> IF fails THEN csv.rows ELSE csv.rows + 1,
                  err  |-> csv.err \/ fails]
    BY <1>2 DEF WriteCSVRow
  <2> QED
    BY <2>1
<1> QED
  BY <1>1, <1>2

LEMMA CountErrorType ==
  ASSUME LatchType, NEW msg \in Messages, CountError(msg)
  PROVE  /\ DOMAIN errorCounts' \subseteq Messages
         /\ \A m \in DOMAIN errorCounts' : errorCounts'[m] \in Nat
         /\ otherErrors' \in Nat
BY DEF CountError, LatchType

LEMMA TypeStep == TypeOK /\ OutcomeKnown /\ [Next]_vars => TypeOK' /\ OutcomeKnown'
<1> SUFFICES ASSUME TypeOK, OutcomeKnown, [Next]_vars PROVE TypeOK' /\ OutcomeKnown'
  OBVIOUS
<1> USE SendPipelineAssumption DEF TypeOK
<1>0. ASSUME SpawnInNext PROVE TypeOK' /\ OutcomeKnown'
  <2>1. ReporterType'
    <3>1. jsonl' \in [tried : Nat, rows : Nat, err : BOOLEAN]
      BY <1>0, EmitEffect DEF SpawnInNext, ReporterType
    <3> QED
      BY <1>0, <3>1 DEF SpawnInNext, ReporterType, reporterVars, tickerVars
  <2>2. DispatcherType' /\ WorkerType' /\ OutcomeKnown' /\ LatchType' /\ EndType'
    BY <1>0, Frames DEF SpawnInNext, workerVars
  <2> QED
    BY <2>1, <2>2
<1>1. ASSUME NextArrival PROVE TypeOK' /\ OutcomeKnown'
  <2>1. DispatcherType'
    BY <1>1 DEF NextArrival, DispatcherType, mainVars, queueVars, MainPCs, Requests
  <2>2. WorkerType' /\ OutcomeKnown' /\ LatchType' /\ ReporterType' /\ EndType'
    BY <1>1, Frames DEF NextArrival, workerVars
  <2> QED
    BY <2>1, <2>2
<1>2. ASSUME Record PROVE TypeOK' /\ OutcomeKnown'
  <2>1. DispatcherType'
    <3>1. recorded' \in 0..AnalyzerCap /\ dropped' \in Nat
      <4>1. recorded \in 0..AnalyzerCap /\ dropped \in Nat /\ AnalyzerCap \in Nat
        BY SendPipelineAssumption DEF DispatcherType
      <4> QED
        BY <1>2, <4>1 DEF Record
    <3> QED
      BY <1>2, <3>1 DEF Record, DispatcherType, queueVars, MainPCs
  <2>2. WorkerType' /\ OutcomeKnown' /\ LatchType' /\ ReporterType' /\ EndType'
    BY <1>2, Frames DEF Record, workerVars
  <2> QED
    BY <2>1, <2>2
<1>3. ASSUME Enqueue PROVE TypeOK' /\ OutcomeKnown'
  <2>1. DispatcherType'
    BY <1>3, AppendProperties DEF Enqueue, DispatcherType, mainVars, queueVars, MainPCs, Requests
  <2>2. WorkerType' /\ OutcomeKnown' /\ LatchType' /\ ReporterType' /\ EndType'
    BY <1>3, Frames DEF Enqueue, workerVars
  <2> QED
    BY <2>1, <2>2
<1>4. ASSUME CountSent PROVE TypeOK' /\ OutcomeKnown'
  <2>1. DispatcherType'
    BY <1>4 DEF CountSent, DispatcherType, mainVars, queueVars, MainPCs, Requests
  <2>2. LatchType'
    BY <1>4 DEF CountSent, LatchType, secVars, muVars
  <2>3. WorkerType' /\ OutcomeKnown' /\ ReporterType' /\ EndType'
    BY <1>4, Frames DEF CountSent, workerVars
  <2> QED
    BY <2>1, <2>2, <2>3
<1>5. ASSUME CloseJobs PROVE TypeOK' /\ OutcomeKnown'
  <2>1. DispatcherType'
    BY <1>5 DEF CloseJobs, DispatcherType, mainVars, queueVars, MainPCs, Requests
  <2>2. WorkerType' /\ OutcomeKnown' /\ LatchType' /\ ReporterType' /\ EndType'
    BY <1>5, Frames DEF CloseJobs, workerVars
  <2> QED
    BY <2>1, <2>2
<1>6. ASSUME StopReporter PROVE TypeOK' /\ OutcomeKnown'
  <2>1. DispatcherType'
    BY <1>6 DEF StopReporter, DispatcherType, mainVars, queueVars, MainPCs, Requests
  <2>2. ReporterType'
    BY <1>6 DEF StopReporter, ReporterType, reporterVars, tickerVars, ReporterPCs
  <2>3. WorkerType' /\ OutcomeKnown' /\ LatchType' /\ EndType'
    BY <1>6, Frames DEF StopReporter, workerVars
  <2> QED
    BY <2>1, <2>2, <2>3
<1>7. ASSUME Summarise PROVE TypeOK' /\ OutcomeKnown'
  <2>1. DispatcherType'
    BY <1>7 DEF Summarise, DispatcherType, mainVars, queueVars, MainPCs, Requests
  <2>2. LatchType'
    BY <1>7 DEF Summarise, LatchType, secVars, muVars
  <2>3. ReporterType'
    <3>1. jsonl' \in [tried : Nat, rows : Nat, err : BOOLEAN]
      BY <1>7, EmitEffect DEF Summarise, ReporterType
    <3> QED
      BY <1>7, <3>1 DEF Summarise, ReporterType, reporterVars, tickerVars
  <2>4. EndType'
    BY <1>7 DEF Summarise, EndType, endVars, WorkerType, DispatcherType
  <2>5. WorkerType' /\ OutcomeKnown'
    BY <1>7, Frames DEF Summarise, workerVars
  <2> QED
    BY <2>1, <2>2, <2>3, <2>4, <2>5
<1>8. ASSUME Warn PROVE TypeOK' /\ OutcomeKnown'
  <2>1. DispatcherType'
    BY <1>8 DEF Warn, DispatcherType, mainVars, queueVars, MainPCs, Requests
  <2>2. EndType'
    BY <1>8 DEF Warn, EndType, endVars
  <2>3. WorkerType' /\ OutcomeKnown' /\ LatchType' /\ ReporterType'
    BY <1>8, Frames DEF Warn, workerVars
  <2> QED
    BY <2>1, <2>2, <2>3
<1>9. ASSUME CloseJSONL PROVE TypeOK' /\ OutcomeKnown'
  <2>1. DispatcherType'
    BY <1>9 DEF CloseJSONL, DispatcherType, mainVars, queueVars, MainPCs, Requests
  <2>2. EndType'
    BY <1>9 DEF CloseJSONL, EndType, endVars
  <2>3. WorkerType' /\ OutcomeKnown' /\ LatchType' /\ ReporterType'
    BY <1>9, Frames DEF CloseJSONL, workerVars
  <2> QED
    BY <2>1, <2>2, <2>3
<1>10. ASSUME NEW w \in Workers, TakeJob(w) PROVE TypeOK' /\ OutcomeKnown'
  <2>1. DispatcherType'
    BY <1>10, HeadTailProperties, EmptySeq
    DEF TakeJob, DispatcherType, mainVars, queueVars, MainPCs, Requests
  <2>2. WorkerType'
    BY <1>10, HeadTailProperties
    DEF TakeJob, WorkerType, Goto, workerVars, totals, WorkerPCs, Requests, DispatcherType
  <2>3. OutcomeKnown'
    BY <1>10 DEF TakeJob, OutcomeKnown, Goto, workerVars, WorkerType
  <2>4. LatchType' /\ ReporterType' /\ EndType'
    BY <1>10, Frames DEF TakeJob
  <2> QED
    BY <2>1, <2>2, <2>3, <2>4
<1>11. ASSUME NEW w \in Workers, LeaveRange(w) PROVE TypeOK' /\ OutcomeKnown'
  <2>1. WorkerType'
    BY <1>11 DEF LeaveRange, WorkerType, Goto, workerVars, totals, WorkerPCs, Requests
  <2>2. OutcomeKnown'
    BY <1>11 DEF LeaveRange, OutcomeKnown, Goto, workerVars, WorkerType
  <2>3. DispatcherType' /\ LatchType' /\ ReporterType' /\ EndType'
    BY <1>11, Frames DEF LeaveRange
  <2> QED
    BY <2>1, <2>2, <2>3
<1>12. ASSUME NEW w \in Workers, StartInvoke(w) PROVE TypeOK' /\ OutcomeKnown'
  <2>1. WorkerType'
    <3>1. connRR' \in Connections /\ inflight' \in Int
      BY <1>12 DEF StartInvoke, WorkerType, Connections
    <3>2. /\ workerPC' \in [Workers -> WorkerPCs] /\ invoked' \in [Requests -> Nat]
          /\ carried' \in [Connections -> Nat]
      BY <1>12 DEF StartInvoke, WorkerType, Goto, WorkerPCs
    <3> QED
      BY <1>12, <3>1, <3>2 DEF StartInvoke, WorkerType, totals
  <2>2. OutcomeKnown'
    BY <1>12 DEF StartInvoke, OutcomeKnown, Goto, workerVars, WorkerType
  <2>3. DispatcherType' /\ LatchType' /\ ReporterType' /\ EndType'
    BY <1>12, Frames DEF StartInvoke
  <2> QED
    BY <2>1, <2>2, <2>3
<1>13. ASSUME NEW w \in Workers, InvokeReturns(w) PROVE TypeOK' /\ OutcomeKnown'
  <2>1. WorkerType'
    <3>1. workerPC' \in [Workers -> WorkerPCs]
      BY <1>13 DEF InvokeReturns, WorkerType, Goto, WorkerPCs
    <3>2. outcome' \in [Workers -> {"none", "ok"} \cup Messages]
      BY <1>13 DEF InvokeReturns, WorkerType
    <3> QED
      BY <1>13, <3>1, <3>2 DEF InvokeReturns, WorkerType, totals
  <2>2. OutcomeKnown'
    BY <1>13 DEF InvokeReturns, OutcomeKnown, Goto, workerVars, WorkerType
  <2>3. DispatcherType' /\ LatchType' /\ ReporterType' /\ EndType'
    BY <1>13, Frames DEF InvokeReturns
  <2> QED
    BY <2>1, <2>2, <2>3
<1>14. ASSUME NEW w \in Workers, LeaveInflight(w) PROVE TypeOK' /\ OutcomeKnown'
  <2>1. WorkerType'
    BY <1>14 DEF LeaveInflight, WorkerType, Goto, workerVars, totals, WorkerPCs, Requests
  <2>2. OutcomeKnown'
    BY <1>14 DEF LeaveInflight, OutcomeKnown, Goto, workerVars, WorkerType
  <2>3. DispatcherType' /\ LatchType' /\ ReporterType' /\ EndType'
    BY <1>14, Frames DEF LeaveInflight
  <2> QED
    BY <2>1, <2>2, <2>3
<1>15. ASSUME NEW w \in Workers, CountOutcome(w) PROVE TypeOK' /\ OutcomeKnown'
  <2>1. WorkerType'
    <3>1. totalOK' \in Nat /\ totalErr' \in Nat
      BY <1>15 DEF CountOutcome, WorkerType
    <3>2. workerPC' \in [Workers -> WorkerPCs]
      BY <1>15 DEF CountOutcome, WorkerType, Goto, WorkerPCs
    <3> QED
      BY <1>15, <3>1, <3>2 DEF CountOutcome, WorkerType
  <2>2. OutcomeKnown'
    BY <1>15 DEF CountOutcome, OutcomeKnown, Goto, workerVars, WorkerType
  <2>3. LatchType'
    BY <1>15 DEF CountOutcome, LatchType, secVars, muVars
  <2>4. DispatcherType' /\ ReporterType' /\ EndType'
    BY <1>15, Frames DEF CountOutcome
  <2> QED
    BY <2>1, <2>2, <2>3, <2>4
<1>16. ASSUME NEW w \in Workers, RecordOutcome(w) PROVE TypeOK' /\ OutcomeKnown'
  <2>1. WorkerType'
    <3>1. workerPC' \in [Workers -> WorkerPCs]
      BY <1>16 DEF RecordOutcome, WorkerType, Goto, WorkerPCs
    <3>2. outcome' \in [Workers -> {"none", "ok"} \cup Messages]
      BY <1>16 DEF RecordOutcome, WorkerType
    <3>3. job' \in [Workers -> Requests]
      <4>1. 0 \in Requests
        BY DEF Requests
      <4> QED
        BY <1>16, <4>1 DEF RecordOutcome, WorkerType
    <3> QED
      BY <1>16, <3>1, <3>2, <3>3 DEF RecordOutcome, WorkerType, totals
  <2>2. OutcomeKnown'
    BY <1>16 DEF RecordOutcome, OutcomeKnown, Goto, workerVars, WorkerType
  <2>3. LatchType'
    <3>1. secLatencies' \in Nat /\ okLat' \in Nat
      BY <1>16 DEF RecordOutcome, LatchType
    <3>2. csv' \in [rows : Nat, err : BOOLEAN]
      BY <1>16, WriteCSVRowEffect DEF RecordOutcome, LatchType
    <3>3. /\ DOMAIN errorCounts' \subseteq Messages
          /\ \A m \in DOMAIN errorCounts' : errorCounts'[m] \in Nat
          /\ otherErrors' \in Nat
      <4>1. outcome[w] = "ok" \/ outcome[w] \in Messages
        BY <1>16 DEF RecordOutcome, Goto, WorkerType, OutcomeKnown
      <4>2. CASE outcome[w] = "ok"
        BY <1>16, <4>2 DEF RecordOutcome, LatchType
      <4>3. CASE outcome[w] # "ok"
        BY <1>16, <4>1, <4>3, CountErrorType DEF RecordOutcome
      <4> QED
        BY <4>2, <4>3
    <3> QED
      BY <1>16, <3>1, <3>2, <3>3 DEF RecordOutcome, LatchType, secVars
  <2>4. DispatcherType' /\ ReporterType' /\ EndType'
    BY <1>16, Frames DEF RecordOutcome
  <2> QED
    BY <2>1, <2>2, <2>3, <2>4
<1>17. ASSUME Tick PROVE TypeOK' /\ OutcomeKnown'
  <2>1. ReporterType'
    BY <1>17 DEF Tick, ReporterType, reporterVars, tickerVars, ReporterPCs
  <2>2. DispatcherType' /\ WorkerType' /\ OutcomeKnown' /\ LatchType' /\ EndType'
    BY <1>17, Frames DEF Tick, workerVars
  <2> QED
    BY <2>1, <2>2
<1>18. ASSUME SwapSent PROVE TypeOK' /\ OutcomeKnown'
  <2>1. LatchType'
    BY <1>18 DEF SwapSent, LatchType, secVars, muVars
  <2>2. ReporterType'
    BY <1>18 DEF SwapSent, ReporterType, reporterVars, tickerVars, ReporterPCs, LatchType
  <2>3. DispatcherType' /\ WorkerType' /\ OutcomeKnown' /\ EndType'
    BY <1>18, Frames DEF SwapSent, workerVars
  <2> QED
    BY <2>1, <2>2, <2>3
<1>19. ASSUME SwapOK PROVE TypeOK' /\ OutcomeKnown'
  <2>1. LatchType'
    BY <1>19 DEF SwapOK, LatchType, secVars, muVars
  <2>2. ReporterType'
    BY <1>19 DEF SwapOK, ReporterType, reporterVars, tickerVars, ReporterPCs, LatchType
  <2>3. DispatcherType' /\ WorkerType' /\ OutcomeKnown' /\ EndType'
    BY <1>19, Frames DEF SwapOK, workerVars
  <2> QED
    BY <2>1, <2>2, <2>3
<1>20. ASSUME SwapErr PROVE TypeOK' /\ OutcomeKnown'
  <2>1. LatchType'
    BY <1>20 DEF SwapErr, LatchType, secVars, muVars
  <2>2. ReporterType'
    BY <1>20 DEF SwapErr, ReporterType, reporterVars, tickerVars, ReporterPCs, LatchType
  <2>3. DispatcherType' /\ WorkerType' /\ OutcomeKnown' /\ EndType'
    BY <1>20, Frames DEF SwapErr, workerVars
  <2> QED
    BY <2>1, <2>2, <2>3
<1>21. ASSUME CopyLatencies PROVE TypeOK' /\ OutcomeKnown'
  <2>1. LatchType'
    BY <1>21 DEF CopyLatencies, LatchType, secVars, muVars
  <2>2. ReporterType'
    BY <1>21 DEF CopyLatencies, ReporterType, reporterVars, tickerVars, ReporterPCs, LatchType
  <2>3. DispatcherType' /\ WorkerType' /\ OutcomeKnown' /\ EndType'
    BY <1>21, Frames DEF CopyLatencies, workerVars
  <2> QED
    BY <2>1, <2>2, <2>3
<1>22. ASSUME EmitRow PROVE TypeOK' /\ OutcomeKnown'
  <2>1. ReporterType'
    <3>1. jsonl' \in [tried : Nat, rows : Nat, err : BOOLEAN]
      BY <1>22, EmitEffect DEF EmitRow, ReporterType
    <3>2. row' \in [sent : Nat, ok : Nat, err : Nat, lats : Nat]
      BY <1>22 DEF EmitRow, EmptyRow
    <3>3. reported' \in [sent : Nat, ok : Nat, err : Nat, lats : Nat]
      BY <1>22 DEF EmitRow, ReporterType
    <3> QED
      BY <1>22, <3>1, <3>2, <3>3 DEF EmitRow, ReporterType, tickerVars, ReporterPCs
  <2>2. DispatcherType' /\ WorkerType' /\ OutcomeKnown' /\ LatchType' /\ EndType'
    BY <1>22, Frames DEF EmitRow, workerVars
  <2> QED
    BY <2>1, <2>2
<1>23. ASSUME LeaveReporter PROVE TypeOK' /\ OutcomeKnown'
  <2>1. ReporterType'
    BY <1>23 DEF LeaveReporter, ReporterType, reporterVars, tickerVars, ReporterPCs
  <2>2. DispatcherType' /\ WorkerType' /\ OutcomeKnown' /\ LatchType' /\ EndType'
    BY <1>23, Frames DEF LeaveReporter, workerVars
  <2> QED
    BY <2>1, <2>2
<1>24. CASE UNCHANGED vars
  BY <1>24, Frames DEF vars, workerVars
<1> QED
  BY <1>0, <1>1, <1>2, <1>3, <1>4, <1>5, <1>6, <1>7, <1>8, <1>9, <1>10, <1>11, <1>12, <1>13,
     <1>14, <1>15, <1>16, <1>17, <1>18, <1>19, <1>20, <1>21, <1>22, <1>23, <1>24
  DEF Next, Dispatcher, Worker, Reporter, Exited

----------------------------------------------------------------------------
(* The ledgers *)

LEMMA LedgerInit == Init => Ledger /\ TelemetryConserved /\ RowFresh
<1> SUFFICES ASSUME Init PROVE Ledger /\ TelemetryConserved /\ RowFresh
  OBVIOUS
<1>1. /\ Holding = {} /\ Unrecorded = {}
      /\ {w \in Workers : workerPC[w] \in {"invoking", "returned"}} = {}
  BY DEF Init, Holding, Unrecorded
<1>2. Cardinality({}) = 0
  BY FS_EmptySet
<1>3. Len(jobs) = 0
  BY EmptySeq DEF Init
<1>4. Ledger
  <2>1. /\ reqIdx = 0 /\ totalSent = 0 /\ mainPC = "next"
        /\ totalOK = 0 /\ totalErr = 0 /\ inflight = 0
    BY DEF Init
  <2>2. /\ Cardinality(Holding) = 0
        /\ Cardinality({w \in Workers : workerPC[w] \in {"invoking", "returned"}}) = 0
    BY <1>1, <1>2
  <2> QED
    BY ONLY <1>3, <2>1, <2>2 DEF Ledger
<1>5. TelemetryConserved /\ RowFresh
  BY <1>1, <1>2 DEF Init, TelemetryConserved, RowFresh, EmptyRow
<1> QED
  BY <1>4, <1>5

\* The quantities that the ledgers add up.
LEMMA Quantities ==
  ASSUME TypeOK
  PROVE  /\ reqIdx \in Nat /\ totalSent \in Nat /\ Len(jobs) \in Nat
         /\ totalOK \in Nat /\ totalErr \in Nat /\ inflight \in Int
         /\ secSent \in Nat /\ secOK \in Nat /\ secErr \in Nat /\ secLatencies \in Nat
         /\ row.sent \in Nat /\ row.ok \in Nat /\ row.err \in Nat /\ row.lats \in Nat
         /\ reported.sent \in Nat /\ reported.ok \in Nat
         /\ reported.err \in Nat /\ reported.lats \in Nat
<1>1. Len(jobs) \in Nat
  BY LenProperties DEF TypeOK, DispatcherType
<1>2. /\ row \in [sent : Nat, ok : Nat, err : Nat, lats : Nat]
      /\ reported \in [sent : Nat, ok : Nat, err : Nat, lats : Nat]
  BY DEF TypeOK, ReporterType
<1> QED
  BY <1>1, <1>2 DEF TypeOK, DispatcherType, WorkerType, LatchType

LEMMA LedgerStep ==
  TypeOK /\ Ledger /\ [Next]_vars => Ledger'
<1> SUFFICES ASSUME TypeOK, Ledger, [Next]_vars PROVE Ledger'
  OBVIOUS
<1>a. /\ reqIdx \in Nat /\ totalSent \in Nat /\ Len(jobs) \in Nat
      /\ totalOK \in Nat /\ totalErr \in Nat /\ inflight \in Int
      /\ Cardinality(Holding) \in Nat /\ Cardinality(InFlight) \in Nat
  BY Quantities, Populations
<1>b. /\ reqIdx = totalSent + (IF mainPC = "count" THEN 1 ELSE 0)
      /\ reqIdx = Len(jobs) + Cardinality(Holding) + totalOK + totalErr
      /\ inflight = Cardinality(InFlight)
  BY DEF Ledger, InFlight
<1> USE <1>a, <1>b
<1>0. CASE SpawnInNext
  BY <1>0, NobodyMoves DEF SpawnInNext, Ledger, InFlight, mainVars, queueVars, workerVars, totals
<1>1. CASE NextArrival
  BY <1>1, NobodyMoves DEF NextArrival, Ledger, InFlight, mainVars, queueVars, workerVars, totals
<1>2. CASE Record
  BY <1>2, NobodyMoves DEF Record, Ledger, InFlight, mainVars, queueVars, workerVars, totals
<1>3. CASE Enqueue
  <2>1. Len(jobs') = Len(jobs) + 1
    <3>1. reqIdx % NumReqs \in Requests /\ jobs \in Seq(Requests)
      <4>1. NumReqs \in Nat \ {0}
        BY SendPipelineAssumption
      <4>2. reqIdx % NumReqs \in Requests
        BY <4>1 DEF Requests
      <4> QED
        BY <4>2 DEF TypeOK, DispatcherType
    <3> QED
      BY <1>3, <3>1, AppendProperties DEF Enqueue
  <2>2. /\ mainPC = "enqueue" /\ mainPC' = "count" /\ reqIdx' = reqIdx + 1
        /\ UNCHANGED <<totalSent, totalOK, totalErr, inflight, workerPC>>
    BY <1>3 DEF Enqueue, workerVars, totals
  <2>3. Holding' = Holding /\ InFlight' = InFlight
    BY <2>2, NobodyMoves
  <2> QED
    BY ONLY <1>a, <1>b, <2>1, <2>2, <2>3 DEF Ledger, InFlight
<1>4. CASE CountSent
  BY <1>4, NobodyMoves DEF CountSent, Ledger, InFlight, mainVars, queueVars, workerVars, totals
<1>5. CASE CloseJobs
  BY <1>5, NobodyMoves DEF CloseJobs, Ledger, InFlight, mainVars, queueVars, workerVars, totals
<1>6. CASE StopReporter
  BY <1>6, NobodyMoves DEF StopReporter, Ledger, InFlight, mainVars, queueVars, workerVars, totals
<1>7. CASE Summarise
  BY <1>7, NobodyMoves DEF Summarise, Ledger, InFlight, mainVars, queueVars, workerVars, totals
<1>8. CASE Warn
  BY <1>8, NobodyMoves DEF Warn, Ledger, InFlight, mainVars, queueVars, workerVars, totals
<1>9. CASE CloseJSONL
  BY <1>9, NobodyMoves DEF CloseJSONL, Ledger, InFlight, mainVars, queueVars, workerVars, totals
<1>10. CASE Tick
  BY <1>10, NobodyMoves DEF Tick, Ledger, InFlight, mainVars, queueVars, workerVars, totals
<1>11. CASE SwapSent
  BY <1>11, NobodyMoves DEF SwapSent, Ledger, InFlight, mainVars, queueVars, workerVars, totals
<1>12. CASE SwapOK
  BY <1>12, NobodyMoves DEF SwapOK, Ledger, InFlight, mainVars, queueVars, workerVars, totals
<1>13. CASE SwapErr
  BY <1>13, NobodyMoves DEF SwapErr, Ledger, InFlight, mainVars, queueVars, workerVars, totals
<1>14. CASE CopyLatencies
  BY <1>14, NobodyMoves DEF CopyLatencies, Ledger, InFlight, mainVars, queueVars, workerVars, totals
<1>15. CASE EmitRow
  BY <1>15, NobodyMoves DEF EmitRow, Ledger, InFlight, mainVars, queueVars, workerVars, totals
<1>16. CASE LeaveReporter
  BY <1>16, NobodyMoves DEF LeaveReporter, Ledger, InFlight, mainVars, queueVars, workerVars, totals
<1>17. ASSUME NEW w \in Workers, TakeJob(w) PROVE Ledger'
  <2>1. /\ Cardinality(Holding')
             = Cardinality(Holding) + In("taken", HoldingPCs) - In("range", HoldingPCs)
        /\ Cardinality(InFlight')
             = Cardinality(InFlight) + In("taken", InFlightPCs) - In("range", InFlightPCs)
    BY <1>17, StepCounts DEF TakeJob, WorkerPCs
  <2>2. Len(jobs') = Len(jobs) - 1
    BY <1>17, HeadTailProperties, EmptySeq DEF TakeJob, TypeOK, DispatcherType
  <2> QED
    <3>1. /\ Cardinality(Holding') = Cardinality(Holding) + 1
          /\ Cardinality(InFlight') = Cardinality(InFlight)
      BY <2>1 DEF In, HoldingPCs, InFlightPCs
    <3>2. UNCHANGED <<mainPC, reqIdx, totalSent, totalOK, totalErr, inflight>>
      BY <1>17 DEF TakeJob, mainVars, totals
    <3> QED
      <4>1. reqIdx = Len(jobs') + Cardinality(Holding') + totalOK + totalErr
        BY ONLY <1>a, <1>b, <2>2, <3>1
      <4>2. inflight = Cardinality(InFlight')
        BY ONLY <1>b, <3>1
      <4> QED
        BY ONLY <1>b, <3>2, <4>1, <4>2 DEF Ledger, InFlight
<1>18. ASSUME NEW w \in Workers, LeaveRange(w) PROVE Ledger'
  <2>1. /\ Cardinality(Holding')
             = Cardinality(Holding) + In("done", HoldingPCs) - In("range", HoldingPCs)
        /\ Cardinality(InFlight')
             = Cardinality(InFlight) + In("done", InFlightPCs) - In("range", InFlightPCs)
    BY <1>18, StepCounts DEF LeaveRange, WorkerPCs
  <2> QED
    BY <1>18, <2>1
    DEF LeaveRange, Ledger, InFlight, In, HoldingPCs, InFlightPCs, mainVars, queueVars, totals
<1>19. ASSUME NEW w \in Workers, StartInvoke(w) PROVE Ledger'
  <2>1. /\ Cardinality(Holding')
             = Cardinality(Holding) + In("invoking", HoldingPCs) - In("taken", HoldingPCs)
        /\ Cardinality(InFlight')
             = Cardinality(InFlight) + In("invoking", InFlightPCs) - In("taken", InFlightPCs)
    BY <1>19, StepCounts DEF StartInvoke, WorkerPCs
  <2> QED
    BY <1>19, <2>1
    DEF StartInvoke, Ledger, InFlight, In, HoldingPCs, InFlightPCs, mainVars, queueVars, totals
<1>20. ASSUME NEW w \in Workers, InvokeReturns(w) PROVE Ledger'
  <2>1. /\ Cardinality(Holding')
             = Cardinality(Holding) + In("returned", HoldingPCs) - In("invoking", HoldingPCs)
        /\ Cardinality(InFlight')
             = Cardinality(InFlight) + In("returned", InFlightPCs) - In("invoking", InFlightPCs)
    BY <1>20, StepCounts DEF InvokeReturns, WorkerPCs
  <2> QED
    BY <1>20, <2>1
    DEF InvokeReturns, Ledger, InFlight, In, HoldingPCs, InFlightPCs, mainVars, queueVars,
        totals
<1>21. ASSUME NEW w \in Workers, LeaveInflight(w) PROVE Ledger'
  <2>1. /\ Cardinality(Holding')
             = Cardinality(Holding) + In("landed", HoldingPCs) - In("returned", HoldingPCs)
        /\ Cardinality(InFlight')
             = Cardinality(InFlight) + In("landed", InFlightPCs) - In("returned", InFlightPCs)
    BY <1>21, StepCounts DEF LeaveInflight, WorkerPCs
  <2> QED
    BY <1>21, <2>1
    DEF LeaveInflight, Ledger, InFlight, In, HoldingPCs, InFlightPCs, mainVars, queueVars,
        totals
<1>22. ASSUME NEW w \in Workers, CountOutcome(w) PROVE Ledger'
  <2>1. /\ Cardinality(Holding')
             = Cardinality(Holding) + In("counted", HoldingPCs) - In("landed", HoldingPCs)
        /\ Cardinality(InFlight')
             = Cardinality(InFlight) + In("counted", InFlightPCs) - In("landed", InFlightPCs)
    BY <1>22, StepCounts DEF CountOutcome, WorkerPCs
  <2> QED
    <3>1. /\ Cardinality(Holding') = Cardinality(Holding) - 1
          /\ Cardinality(InFlight') = Cardinality(InFlight)
      BY <2>1 DEF In, HoldingPCs, InFlightPCs
    <3>2. \/ totalOK' = totalOK + 1 /\ totalErr' = totalErr
          \/ totalErr' = totalErr + 1 /\ totalOK' = totalOK
      BY <1>22 DEF CountOutcome
    <3>3. UNCHANGED <<mainPC, reqIdx, totalSent, jobs, inflight>>
      BY <1>22 DEF CountOutcome, mainVars, queueVars
    <3> QED
      BY ONLY <1>a, <1>b, <3>1, <3>2, <3>3 DEF Ledger, InFlight
<1>23. ASSUME NEW w \in Workers, RecordOutcome(w) PROVE Ledger'
  <2>1. /\ Cardinality(Holding')
             = Cardinality(Holding) + In("range", HoldingPCs) - In("counted", HoldingPCs)
        /\ Cardinality(InFlight')
             = Cardinality(InFlight) + In("range", InFlightPCs) - In("counted", InFlightPCs)
    BY <1>23, StepCounts DEF RecordOutcome, WorkerPCs
  <2> QED
    BY <1>23, <2>1
    DEF RecordOutcome, Ledger, InFlight, In, HoldingPCs, InFlightPCs, mainVars, queueVars,
        totals
<1>24. CASE UNCHANGED vars
  BY <1>24, NobodyMoves DEF vars, Ledger, InFlight, mainVars, queueVars, workerVars, totals
<1> QED
  BY <1>0, <1>1, <1>2, <1>3, <1>4, <1>5, <1>6, <1>7, <1>8, <1>9, <1>10, <1>11, <1>12, <1>13,
     <1>14, <1>15, <1>16, <1>17, <1>18, <1>19, <1>20, <1>21, <1>22, <1>23, <1>24
  DEF Next, Dispatcher, Worker, Reporter, Exited

LEMMA TelemetryStep ==
  TypeOK /\ TelemetryConserved /\ RowFresh /\ [Next]_vars => TelemetryConserved'
<1> SUFFICES ASSUME TypeOK, TelemetryConserved, RowFresh, [Next]_vars PROVE TelemetryConserved'
  OBVIOUS
<1>a. /\ totalSent \in Nat /\ totalOK \in Nat /\ totalErr \in Nat
      /\ secSent \in Nat /\ secOK \in Nat /\ secErr \in Nat /\ secLatencies \in Nat
      /\ row.sent \in Nat /\ row.ok \in Nat /\ row.err \in Nat /\ row.lats \in Nat
      /\ reported.sent \in Nat /\ reported.ok \in Nat
      /\ reported.err \in Nat /\ reported.lats \in Nat
      /\ Cardinality(Unrecorded) \in Nat
  BY Quantities, Populations
<1>b. /\ reported.sent + row.sent + secSent = totalSent
      /\ reported.ok + row.ok + secOK = totalOK
      /\ reported.err + row.err + secErr = totalErr
      /\ reported.lats + row.lats + secLatencies + Cardinality(Unrecorded)
           = totalOK + totalErr
  BY DEF TelemetryConserved
<1> USE <1>a, <1>b
<1>0. CASE SpawnInNext
  BY <1>0, NobodyMoves
  DEF SpawnInNext, TelemetryConserved, mainVars, workerVars, totals, secVars, muVars,
      reporterVars
<1>1. CASE NextArrival
  BY <1>1, NobodyMoves
  DEF NextArrival, TelemetryConserved, mainVars, workerVars, totals, secVars, muVars,
      reporterVars
<1>2. CASE Record
  BY <1>2, NobodyMoves
  DEF Record, TelemetryConserved, mainVars, workerVars, totals, secVars, muVars, reporterVars
<1>3. CASE Enqueue
  BY <1>3, NobodyMoves
  DEF Enqueue, TelemetryConserved, mainVars, workerVars, totals, secVars, muVars, reporterVars
<1>4. CASE CountSent
  <2>1. totalSent' = totalSent + 1 /\ secSent' = secSent + 1
    BY <1>4 DEF CountSent
  <2>2. UNCHANGED <<workerPC, totalOK, totalErr, secOK, secErr, secLatencies, row, reported>>
    BY <1>4 DEF CountSent, workerVars, totals, muVars, reporterVars
  <2>3. Unrecorded' = Unrecorded
    BY <2>2, NobodyMoves
  <2> QED
    BY ONLY <1>a, <1>b, <2>1, <2>2, <2>3 DEF TelemetryConserved
<1>5. CASE CloseJobs
  BY <1>5, NobodyMoves
  DEF CloseJobs, TelemetryConserved, mainVars, workerVars, totals, secVars, muVars, reporterVars
<1>6. CASE StopReporter
  BY <1>6, NobodyMoves
  DEF StopReporter, TelemetryConserved, mainVars, workerVars, totals, secVars, muVars,
      reporterVars
<1>7. CASE Summarise
  BY <1>7, NobodyMoves
  DEF Summarise, TelemetryConserved, mainVars, workerVars, totals, secVars, muVars, reporterVars
<1>8. CASE Warn
  BY <1>8, NobodyMoves
  DEF Warn, TelemetryConserved, mainVars, workerVars, totals, secVars, muVars, reporterVars
<1>9. CASE CloseJSONL
  BY <1>9, NobodyMoves
  DEF CloseJSONL, TelemetryConserved, mainVars, workerVars, totals, secVars, muVars,
      reporterVars
<1>10. CASE Tick
  BY <1>10, NobodyMoves
  DEF Tick, TelemetryConserved, mainVars, workerVars, totals, secVars, muVars, reporterVars
<1>11. CASE SwapSent
  <2>1. row.sent = 0 /\ row'.sent = secSent /\ secSent' = 0
    BY <1>11 DEF SwapSent, RowFresh, TypeOK, ReporterType
  <2>2. row'.ok = row.ok /\ row'.err = row.err /\ row'.lats = row.lats
    BY <1>11 DEF SwapSent, TypeOK, ReporterType
  <2>3. UNCHANGED <<workerPC, totalSent, totalOK, totalErr, secOK, secErr, secLatencies, reported>>
    BY <1>11 DEF SwapSent, mainVars, workerVars, totals, secVars, muVars
  <2>4. Unrecorded' = Unrecorded
    BY <2>3, NobodyMoves
  <2> QED
    BY ONLY <1>a, <1>b, <2>1, <2>2, <2>3, <2>4 DEF TelemetryConserved
<1>12. CASE SwapOK
  <2>1. row.ok = 0 /\ row'.ok = secOK /\ secOK' = 0
    BY <1>12 DEF SwapOK, RowFresh, TypeOK, ReporterType
  <2>2. row'.sent = row.sent /\ row'.err = row.err /\ row'.lats = row.lats
    BY <1>12 DEF SwapOK, TypeOK, ReporterType
  <2>3. UNCHANGED <<workerPC, totalSent, totalOK, totalErr, secSent, secErr, secLatencies,
                    reported>>
    BY <1>12 DEF SwapOK, mainVars, workerVars, totals, secVars, muVars
  <2>4. Unrecorded' = Unrecorded
    BY <2>3, NobodyMoves
  <2> QED
    BY ONLY <1>a, <1>b, <2>1, <2>2, <2>3, <2>4 DEF TelemetryConserved
<1>13. CASE SwapErr
  <2>1. row.err = 0 /\ row'.err = secErr /\ secErr' = 0
    BY <1>13 DEF SwapErr, RowFresh, TypeOK, ReporterType
  <2>2. row'.sent = row.sent /\ row'.ok = row.ok /\ row'.lats = row.lats
    BY <1>13 DEF SwapErr, TypeOK, ReporterType
  <2>3. UNCHANGED <<workerPC, totalSent, totalOK, totalErr, secSent, secOK, secLatencies, reported>>
    BY <1>13 DEF SwapErr, mainVars, workerVars, totals, secVars, muVars
  <2>4. Unrecorded' = Unrecorded
    BY <2>3, NobodyMoves
  <2> QED
    BY ONLY <1>a, <1>b, <2>1, <2>2, <2>3, <2>4 DEF TelemetryConserved
<1>14. CASE CopyLatencies
  <2>1. row.lats = 0 /\ row'.lats = secLatencies /\ secLatencies' = 0
    BY <1>14 DEF CopyLatencies, RowFresh, TypeOK, ReporterType
  <2>2. row'.sent = row.sent /\ row'.ok = row.ok /\ row'.err = row.err
    BY <1>14 DEF CopyLatencies, TypeOK, ReporterType
  <2>3. UNCHANGED <<workerPC, totalSent, totalOK, totalErr, secSent, secOK, secErr, reported>>
    BY <1>14 DEF CopyLatencies, mainVars, workerVars, totals, secVars, muVars
  <2>4. Unrecorded' = Unrecorded
    BY <2>3, NobodyMoves
  <2> QED
    BY ONLY <1>a, <1>b, <2>1, <2>2, <2>3, <2>4 DEF TelemetryConserved
<1>15. CASE EmitRow
  <2>1. row' = EmptyRow /\ reported' = [f \in DOMAIN row |-> reported[f] + row[f]]
    BY <1>15 DEF EmitRow
  <2>2. /\ row'.sent = 0 /\ row'.ok = 0 /\ row'.err = 0 /\ row'.lats = 0
        /\ reported'.sent = reported.sent + row.sent
        /\ reported'.ok = reported.ok + row.ok
        /\ reported'.err = reported.err + row.err
        /\ reported'.lats = reported.lats + row.lats
    BY <2>1 DEF EmptyRow, TypeOK, ReporterType
  <2>3. UNCHANGED <<workerPC, totalSent, totalOK, totalErr, secSent, secOK, secErr,
                    secLatencies>>
    BY <1>15 DEF EmitRow, mainVars, workerVars, totals, secVars, muVars
  <2>4. Unrecorded' = Unrecorded
    BY <2>3, NobodyMoves
  <2> QED
    BY ONLY <1>a, <1>b, <2>2, <2>3, <2>4 DEF TelemetryConserved
<1>16. CASE LeaveReporter
  BY <1>16, NobodyMoves
  DEF LeaveReporter, TelemetryConserved, mainVars, workerVars, totals, secVars, muVars,
      reporterVars
<1>17. ASSUME NEW w \in Workers, TakeJob(w) PROVE TelemetryConserved'
  <2>1. Cardinality(Unrecorded')
          = Cardinality(Unrecorded) + In("taken", {"counted"}) - In("range", {"counted"})
    BY <1>17, StepCounts DEF TakeJob, WorkerPCs
  <2> QED
    BY <1>17, <2>1
    DEF TakeJob, TelemetryConserved, In, mainVars, totals, secVars, muVars, reporterVars
<1>18. ASSUME NEW w \in Workers, LeaveRange(w) PROVE TelemetryConserved'
  <2>1. Cardinality(Unrecorded')
          = Cardinality(Unrecorded) + In("done", {"counted"}) - In("range", {"counted"})
    BY <1>18, StepCounts DEF LeaveRange, WorkerPCs
  <2> QED
    BY <1>18, <2>1
    DEF LeaveRange, TelemetryConserved, In, mainVars, totals, secVars, muVars, reporterVars
<1>19. ASSUME NEW w \in Workers, StartInvoke(w) PROVE TelemetryConserved'
  <2>1. Cardinality(Unrecorded')
          = Cardinality(Unrecorded) + In("invoking", {"counted"}) - In("taken", {"counted"})
    BY <1>19, StepCounts DEF StartInvoke, WorkerPCs
  <2> QED
    BY <1>19, <2>1
    DEF StartInvoke, TelemetryConserved, In, mainVars, totals, secVars, muVars, reporterVars
<1>20. ASSUME NEW w \in Workers, InvokeReturns(w) PROVE TelemetryConserved'
  <2>1. Cardinality(Unrecorded')
          = Cardinality(Unrecorded) + In("returned", {"counted"}) - In("invoking", {"counted"})
    BY <1>20, StepCounts DEF InvokeReturns, WorkerPCs
  <2> QED
    BY <1>20, <2>1
    DEF InvokeReturns, TelemetryConserved, In, mainVars, totals, secVars, muVars, reporterVars
<1>21. ASSUME NEW w \in Workers, LeaveInflight(w) PROVE TelemetryConserved'
  <2>1. Cardinality(Unrecorded')
          = Cardinality(Unrecorded) + In("landed", {"counted"}) - In("returned", {"counted"})
    BY <1>21, StepCounts DEF LeaveInflight, WorkerPCs
  <2> QED
    BY <1>21, <2>1
    DEF LeaveInflight, TelemetryConserved, In, mainVars, totals, secVars, muVars, reporterVars
<1>22. ASSUME NEW w \in Workers, CountOutcome(w) PROVE TelemetryConserved'
  <2>1. Cardinality(Unrecorded')
          = Cardinality(Unrecorded) + In("counted", {"counted"}) - In("landed", {"counted"})
    BY <1>22, StepCounts DEF CountOutcome, WorkerPCs
  <2> QED
    <3>1. Cardinality(Unrecorded') = Cardinality(Unrecorded) + 1
      BY <2>1 DEF In
    <3>2. UNCHANGED <<totalSent, secSent, secLatencies, row, reported>>
      BY <1>22 DEF CountOutcome, mainVars, muVars, reporterVars
    <3>3. CASE outcome[w] = "ok"
      <4>1. /\ totalOK' = totalOK + 1 /\ secOK' = secOK + 1
            /\ UNCHANGED <<totalErr, secErr>>
        BY <1>22, <3>3 DEF CountOutcome
      <4> QED
        BY ONLY <1>a, <1>b, <3>1, <3>2, <4>1 DEF TelemetryConserved
    <3>4. CASE outcome[w] # "ok"
      <4>1. /\ totalErr' = totalErr + 1 /\ secErr' = secErr + 1
            /\ UNCHANGED <<totalOK, secOK>>
        BY <1>22, <3>4 DEF CountOutcome
      <4> QED
        BY ONLY <1>a, <1>b, <3>1, <3>2, <4>1 DEF TelemetryConserved
    <3> QED
      BY <3>3, <3>4
<1>23. ASSUME NEW w \in Workers, RecordOutcome(w) PROVE TelemetryConserved'
  <2>1. Cardinality(Unrecorded')
          = Cardinality(Unrecorded) + In("range", {"counted"}) - In("counted", {"counted"})
    BY <1>23, StepCounts DEF RecordOutcome, WorkerPCs
  <2> QED
    <3>1. Cardinality(Unrecorded') = Cardinality(Unrecorded) - 1
      BY <2>1 DEF In
    <3>2. UNCHANGED <<totalSent, totalOK, totalErr, secSent, secOK, secErr, row, reported>>
      BY <1>23 DEF RecordOutcome, mainVars, totals, secVars, reporterVars
    <3>3. secLatencies' = secLatencies + 1
      BY <1>23 DEF RecordOutcome
    <3>4. reported.lats + row.lats + secLatencies' + Cardinality(Unrecorded')
            = totalOK + totalErr
      <4> DEFINE emitted == reported.lats + row.lats
                 all     == totalOK + totalErr
      <4>1. emitted \in Nat /\ all \in Nat
        BY ONLY <1>a
      <4>2. emitted + secLatencies + Cardinality(Unrecorded) = all
        BY ONLY <1>b
      <4> HIDE DEF emitted, all
      <4>3. emitted + secLatencies' + Cardinality(Unrecorded') = all
        BY ONLY <1>a, <3>1, <3>3, <4>1, <4>2
      <4> QED
        BY ONLY <4>3 DEF emitted, all
    <3> QED
      BY ONLY <1>b, <3>2, <3>4 DEF TelemetryConserved
<1>24. CASE UNCHANGED vars
  BY <1>24, NobodyMoves
  DEF vars, TelemetryConserved, mainVars, workerVars, totals, secVars, muVars, reporterVars
<1> QED
  BY <1>0, <1>1, <1>2, <1>3, <1>4, <1>5, <1>6, <1>7, <1>8, <1>9, <1>10, <1>11, <1>12, <1>13,
     <1>14, <1>15, <1>16, <1>17, <1>18, <1>19, <1>20, <1>21, <1>22, <1>23, <1>24
  DEF Next, Dispatcher, Worker, Reporter, Exited

LEMMA RowFreshStep == TypeOK /\ RowFresh /\ [Next]_vars => RowFresh'
<1> SUFFICES ASSUME TypeOK, RowFresh, [Next]_vars PROVE RowFresh'
  OBVIOUS
<1>1. row \in [sent : Nat, ok : Nat, err : Nat, lats : Nat]
  BY DEF TypeOK, ReporterType
<1>2. CASE SwapSent
  BY <1>1, <1>2 DEF SwapSent, RowFresh
<1>3. CASE SwapOK
  BY <1>1, <1>3 DEF SwapOK, RowFresh
<1>4. CASE SwapErr
  BY <1>1, <1>4 DEF SwapErr, RowFresh
<1>5. CASE CopyLatencies
  BY <1>1, <1>5 DEF CopyLatencies, RowFresh
<1>6. CASE EmitRow
  BY <1>6 DEF EmitRow, RowFresh, EmptyRow
<1>7. CASE LeaveReporter
  BY <1>7 DEF LeaveReporter, RowFresh
<1>8. CASE UNCHANGED <<reporterPC, row>>
  BY <1>8 DEF RowFresh
<1>9. Dispatcher \/ (\E w \in Workers : Worker(w)) \/ Tick => UNCHANGED <<reporterPC, row>>
  BY DEF Dispatcher, SpawnInNext, NextArrival, Record, Enqueue, CountSent, CloseJobs, StopReporter,
         Summarise, Warn, CloseJSONL, Worker, TakeJob, LeaveRange, StartInvoke,
         InvokeReturns, LeaveInflight, CountOutcome, RecordOutcome, Tick, reporterVars
<1>10. UNCHANGED vars => UNCHANGED <<reporterPC, row>>
  BY DEF vars, reporterVars
<1> QED
  BY <1>2, <1>3, <1>4, <1>5, <1>6, <1>7, <1>8, <1>9, <1>10 DEF Next, Reporter, Exited

----------------------------------------------------------------------------
(* Shutdown and outputs *)

LEMMA ShutdownStep ==
  TypeOK /\ ShutdownOrder /\ [Next]_vars => ShutdownOrder'
<1> SUFFICES ASSUME TypeOK, ShutdownOrder, [Next]_vars PROVE ShutdownOrder'
  OBVIOUS
<1>a. /\ mainPC \in MainPCs /\ reporterPC \in ReporterPCs
      /\ workerPC \in [Workers -> WorkerPCs]
  BY DEF TypeOK, DispatcherType, WorkerType, ReporterType
<1> USE <1>a DEF ShutdownOrder, MainPCs
<1>0. CASE SpawnInNext
  BY <1>0 DEF SpawnInNext, mainVars, queueVars, workerVars, reporterVars
<1>1. CASE NextArrival
  BY <1>1 DEF NextArrival, queueVars, workerVars, reporterVars
<1>2. CASE Record
  BY <1>2 DEF Record, queueVars, workerVars, reporterVars
<1>3. CASE Enqueue
  BY <1>3 DEF Enqueue, queueVars, workerVars, reporterVars
<1>4. CASE CountSent
  BY <1>4 DEF CountSent, queueVars, workerVars, reporterVars
<1>5. CASE CloseJobs
  BY <1>5 DEF CloseJobs, queueVars, workerVars, reporterVars
<1>6. CASE StopReporter
  BY <1>6 DEF StopReporter, queueVars, workerVars, reporterVars
<1>7. CASE Summarise
  BY <1>7 DEF Summarise, queueVars, workerVars, reporterVars
<1>8. CASE Warn
  BY <1>8 DEF Warn, queueVars, workerVars, reporterVars
<1>9. CASE CloseJSONL
  BY <1>9 DEF CloseJSONL, queueVars, workerVars, reporterVars
<1>10. ASSUME NEW w \in Workers, TakeJob(w) PROVE ShutdownOrder'
  BY <1>10 DEF TakeJob, Goto, mainVars, queueVars, reporterVars
<1>11. ASSUME NEW w \in Workers, LeaveRange(w) PROVE ShutdownOrder'
  BY <1>11 DEF LeaveRange, Goto, mainVars, queueVars, reporterVars
<1>12. ASSUME NEW w \in Workers, StartInvoke(w) PROVE ShutdownOrder'
  BY <1>12 DEF StartInvoke, Goto, mainVars, queueVars, reporterVars
<1>13. ASSUME NEW w \in Workers, InvokeReturns(w) PROVE ShutdownOrder'
  BY <1>13 DEF InvokeReturns, Goto, mainVars, queueVars, reporterVars
<1>14. ASSUME NEW w \in Workers, LeaveInflight(w) PROVE ShutdownOrder'
  BY <1>14 DEF LeaveInflight, Goto, mainVars, queueVars, reporterVars
<1>15. ASSUME NEW w \in Workers, CountOutcome(w) PROVE ShutdownOrder'
  BY <1>15 DEF CountOutcome, Goto, mainVars, queueVars, reporterVars
<1>16. ASSUME NEW w \in Workers, RecordOutcome(w) PROVE ShutdownOrder'
  BY <1>16 DEF RecordOutcome, Goto, mainVars, queueVars, reporterVars
<1>17. CASE Tick
  BY <1>17 DEF Tick, mainVars, queueVars, workerVars, reporterVars
<1>18. CASE SwapSent
  BY <1>18 DEF SwapSent, mainVars, queueVars, workerVars
<1>19. CASE SwapOK
  BY <1>19 DEF SwapOK, mainVars, queueVars, workerVars
<1>20. CASE SwapErr
  BY <1>20 DEF SwapErr, mainVars, queueVars, workerVars
<1>21. CASE CopyLatencies
  BY <1>21 DEF CopyLatencies, mainVars, queueVars, workerVars
<1>22. CASE EmitRow
  BY <1>22 DEF EmitRow, mainVars, queueVars, workerVars
<1>23. CASE LeaveReporter
  BY <1>23 DEF LeaveReporter, mainVars, queueVars, workerVars
<1>24. CASE UNCHANGED vars
  BY <1>24 DEF vars, mainVars, queueVars, workerVars, reporterVars
<1> QED
  BY <1>0, <1>1, <1>2, <1>3, <1>4, <1>5, <1>6, <1>7, <1>8, <1>9, <1>10, <1>11, <1>12, <1>13,
     <1>14, <1>15, <1>16, <1>17, <1>18, <1>19, <1>20, <1>21, <1>22, <1>23, <1>24
  DEF Next, Dispatcher, Worker, Reporter, Exited

LEMMA OutputStep ==
  TypeOK /\ OutputComplete /\ [Next]_vars => OutputComplete'
<1> SUFFICES ASSUME TypeOK, OutputComplete, [Next]_vars PROVE OutputComplete'
  OBVIOUS
<1>a. /\ totalOK \in Nat /\ totalErr \in Nat /\ reqIdx \in Nat
      /\ Cardinality(Unrecorded) \in Nat
  BY Quantities, Populations
<1>b. csv \in [rows : Nat, err : BOOLEAN] /\ jsonl \in [tried : Nat, rows : Nat, err : BOOLEAN]
  BY DEF TypeOK, LatchType, ReporterType
<1>c. recorded \in Nat /\ dropped \in Nat
  <2>1. AnalyzerCap \in Nat
    BY SendPipelineAssumption
  <2> QED
    BY <2>1 DEF TypeOK, DispatcherType
<1> USE <1>a, <1>b, <1>c DEF OutputComplete
<1>0. CASE SpawnInNext
  BY <1>0, NobodyMoves, EmitEffect DEF SpawnInNext, mainVars, workerVars, totals, muVars
<1>1. CASE NextArrival
  BY <1>1, NobodyMoves, EmitEffect DEF NextArrival, mainVars, workerVars, totals, muVars
<1>2. CASE Record
  BY <1>2, NobodyMoves, EmitEffect DEF Record, mainVars, workerVars, totals, muVars
<1>3. CASE Enqueue
  BY <1>3, NobodyMoves, EmitEffect DEF Enqueue, mainVars, workerVars, totals, muVars
<1>4. CASE CountSent
  BY <1>4, NobodyMoves, EmitEffect DEF CountSent, mainVars, workerVars, totals, muVars
<1>5. CASE CloseJobs
  BY <1>5, NobodyMoves, EmitEffect DEF CloseJobs, mainVars, workerVars, totals, muVars
<1>6. CASE StopReporter
  BY <1>6, NobodyMoves, EmitEffect DEF StopReporter, mainVars, workerVars, totals, muVars
<1>7. CASE Summarise
  BY <1>7, NobodyMoves, EmitEffect DEF Summarise, mainVars, workerVars, totals, muVars
<1>8. CASE Warn
  BY <1>8, NobodyMoves, EmitEffect DEF Warn, mainVars, workerVars, totals, muVars
<1>9. CASE CloseJSONL
  BY <1>9, NobodyMoves, EmitEffect DEF CloseJSONL, mainVars, workerVars, totals, muVars
<1>10. ASSUME NEW w \in Workers, TakeJob(w) PROVE OutputComplete'
  <2>1. Cardinality(Unrecorded')
          = Cardinality(Unrecorded) + In("taken", {"counted"}) - In("range", {"counted"})
    BY <1>10, StepCounts DEF TakeJob, WorkerPCs
  <2> QED
    BY <1>10, <2>1, WriteCSVRowEffect DEF TakeJob, In, mainVars, totals, muVars
<1>11. ASSUME NEW w \in Workers, LeaveRange(w) PROVE OutputComplete'
  <2>1. Cardinality(Unrecorded')
          = Cardinality(Unrecorded) + In("done", {"counted"}) - In("range", {"counted"})
    BY <1>11, StepCounts DEF LeaveRange, WorkerPCs
  <2> QED
    BY <1>11, <2>1, WriteCSVRowEffect DEF LeaveRange, In, mainVars, totals, muVars
<1>12. ASSUME NEW w \in Workers, StartInvoke(w) PROVE OutputComplete'
  <2>1. Cardinality(Unrecorded')
          = Cardinality(Unrecorded) + In("invoking", {"counted"}) - In("taken", {"counted"})
    BY <1>12, StepCounts DEF StartInvoke, WorkerPCs
  <2> QED
    BY <1>12, <2>1, WriteCSVRowEffect DEF StartInvoke, In, mainVars, totals, muVars
<1>13. ASSUME NEW w \in Workers, InvokeReturns(w) PROVE OutputComplete'
  <2>1. Cardinality(Unrecorded')
          = Cardinality(Unrecorded) + In("returned", {"counted"}) - In("invoking", {"counted"})
    BY <1>13, StepCounts DEF InvokeReturns, WorkerPCs
  <2> QED
    BY <1>13, <2>1, WriteCSVRowEffect DEF InvokeReturns, In, mainVars, totals, muVars
<1>14. ASSUME NEW w \in Workers, LeaveInflight(w) PROVE OutputComplete'
  <2>1. Cardinality(Unrecorded')
          = Cardinality(Unrecorded) + In("landed", {"counted"}) - In("returned", {"counted"})
    BY <1>14, StepCounts DEF LeaveInflight, WorkerPCs
  <2> QED
    BY <1>14, <2>1, WriteCSVRowEffect DEF LeaveInflight, In, mainVars, totals, muVars
<1>15. ASSUME NEW w \in Workers, CountOutcome(w) PROVE OutputComplete'
  <2>1. Cardinality(Unrecorded')
          = Cardinality(Unrecorded) + In("counted", {"counted"}) - In("landed", {"counted"})
    BY <1>15, StepCounts DEF CountOutcome, WorkerPCs
  <2> QED
    BY <1>15, <2>1, WriteCSVRowEffect DEF CountOutcome, In, mainVars, totals, muVars
<1>16. ASSUME NEW w \in Workers, RecordOutcome(w) PROVE OutputComplete'
  <2>1. Cardinality(Unrecorded')
          = Cardinality(Unrecorded) + In("range", {"counted"}) - In("counted", {"counted"})
    BY <1>16, StepCounts DEF RecordOutcome, WorkerPCs
  <2> QED
    BY <1>16, <2>1, WriteCSVRowEffect DEF RecordOutcome, In, mainVars, totals, muVars
<1>17. CASE Tick
  BY <1>17, NobodyMoves, EmitEffect DEF Tick, mainVars, workerVars, totals, muVars
<1>18. CASE SwapSent
  BY <1>18, NobodyMoves, EmitEffect DEF SwapSent, mainVars, workerVars, totals, muVars
<1>19. CASE SwapOK
  BY <1>19, NobodyMoves, EmitEffect DEF SwapOK, mainVars, workerVars, totals, muVars
<1>20. CASE SwapErr
  BY <1>20, NobodyMoves, EmitEffect DEF SwapErr, mainVars, workerVars, totals, muVars
<1>21. CASE CopyLatencies
  BY <1>21, NobodyMoves, EmitEffect DEF CopyLatencies, mainVars, workerVars, totals, muVars
<1>22. CASE EmitRow
  BY <1>22, NobodyMoves, EmitEffect DEF EmitRow, mainVars, workerVars, totals, muVars
<1>23. CASE LeaveReporter
  BY <1>23, NobodyMoves, EmitEffect DEF LeaveReporter, mainVars, workerVars, totals, muVars
<1>24. CASE UNCHANGED vars
  BY <1>24, NobodyMoves DEF vars, mainVars, workerVars, totals, muVars
<1> QED
  BY <1>0, <1>1, <1>2, <1>3, <1>4, <1>5, <1>6, <1>7, <1>8, <1>9, <1>10, <1>11, <1>12, <1>13,
     <1>14, <1>15, <1>16, <1>17, <1>18, <1>19, <1>20, <1>21, <1>22, <1>23, <1>24
  DEF Next, Dispatcher, Worker, Reporter, Exited

LEMMA LossToldStep ==
  TypeOK /\ ShutdownOrder /\ LossTold /\ [Next]_vars => LossTold'
<1> SUFFICES ASSUME TypeOK, ShutdownOrder, LossTold, [Next]_vars PROVE LossTold'
  OBVIOUS
<1>a. /\ mainPC \in MainPCs /\ csv \in [rows : Nat, err : BOOLEAN]
      /\ jsonl \in [tried : Nat, rows : Nat, err : BOOLEAN]
  BY DEF TypeOK, DispatcherType, LatchType, ReporterType
<1> USE <1>a DEF ShutdownOrder, LossTold, MainPCs
<1>0. CASE SpawnInNext
  BY <1>0 DEF SpawnInNext, mainVars, muVars, endVars
<1>1. CASE NextArrival
  BY <1>1 DEF NextArrival, mainVars, muVars, endVars
<1>2. CASE Record
  BY <1>2 DEF Record, mainVars, muVars, endVars
<1>3. CASE Enqueue
  BY <1>3 DEF Enqueue, mainVars, muVars, endVars
<1>4. CASE CountSent
  BY <1>4 DEF CountSent, mainVars, muVars, endVars
<1>5. CASE CloseJobs
  BY <1>5 DEF CloseJobs, mainVars, muVars, endVars
<1>6. CASE StopReporter
  BY <1>6 DEF StopReporter, mainVars, muVars, endVars
<1>7. CASE Summarise
  BY <1>7 DEF Summarise, mainVars, muVars, endVars
<1>8. CASE Warn
  BY <1>8 DEF Warn, mainVars, muVars, endVars
<1>9. CASE CloseJSONL
  BY <1>9 DEF CloseJSONL, mainVars, muVars, endVars
<1>10. ASSUME NEW w \in Workers, TakeJob(w) PROVE LossTold'
  BY <1>10 DEF TakeJob, Goto, mainVars, muVars, endVars
<1>11. ASSUME NEW w \in Workers, LeaveRange(w) PROVE LossTold'
  BY <1>11 DEF LeaveRange, Goto, mainVars, muVars, endVars
<1>12. ASSUME NEW w \in Workers, StartInvoke(w) PROVE LossTold'
  BY <1>12 DEF StartInvoke, Goto, mainVars, muVars, endVars
<1>13. ASSUME NEW w \in Workers, InvokeReturns(w) PROVE LossTold'
  BY <1>13 DEF InvokeReturns, Goto, mainVars, muVars, endVars
<1>14. ASSUME NEW w \in Workers, LeaveInflight(w) PROVE LossTold'
  BY <1>14 DEF LeaveInflight, Goto, mainVars, muVars, endVars
<1>15. ASSUME NEW w \in Workers, CountOutcome(w) PROVE LossTold'
  BY <1>15 DEF CountOutcome, Goto, mainVars, muVars, endVars
<1>16. ASSUME NEW w \in Workers, RecordOutcome(w) PROVE LossTold'
  BY <1>16 DEF RecordOutcome, Goto, mainVars, muVars, endVars
<1>17. CASE Tick
  BY <1>17 DEF Tick, mainVars, muVars, endVars
<1>18. CASE SwapSent
  BY <1>18 DEF SwapSent, mainVars, muVars, endVars
<1>19. CASE SwapOK
  BY <1>19 DEF SwapOK, mainVars, muVars, endVars
<1>20. CASE SwapErr
  BY <1>20 DEF SwapErr, mainVars, muVars, endVars
<1>21. CASE CopyLatencies
  BY <1>21 DEF CopyLatencies, mainVars, muVars, endVars
<1>22. CASE EmitRow
  BY <1>22 DEF EmitRow, mainVars, muVars, endVars
<1>23. CASE LeaveReporter
  BY <1>23 DEF LeaveReporter, mainVars, muVars, endVars
<1>24. CASE UNCHANGED vars
  BY <1>24 DEF vars, mainVars, muVars, endVars
<1> QED
  BY <1>0, <1>1, <1>2, <1>3, <1>4, <1>5, <1>6, <1>7, <1>8, <1>9, <1>10, <1>11, <1>12, <1>13,
     <1>14, <1>15, <1>16, <1>17, <1>18, <1>19, <1>20, <1>21, <1>22, <1>23, <1>24
  DEF Next, Dispatcher, Worker, Reporter, Exited

----------------------------------------------------------------------------
(* Theorems *)

LEMMA InitInv == Init => IInv
<1> SUFFICES ASSUME Init PROVE IInv
  OBVIOUS
<1>1. TypeOK /\ OutcomeKnown
  BY TypeInit
<1>2. Ledger /\ TelemetryConserved /\ RowFresh
  BY LedgerInit
<1>3. ShutdownOrder
  BY DEF Init, ShutdownOrder
<1>4. Cardinality(Unrecorded) = 0
  <2>1. Unrecorded = {}
    BY DEF Init, Unrecorded
  <2> QED
    BY <2>1, FS_EmptySet
<1>5. OutputComplete
  BY <1>4 DEF Init, OutputComplete
<1>6. LossTold
  BY DEF Init, LossTold
<1> QED
  BY <1>1, <1>2, <1>3, <1>5, <1>6 DEF IInv

LEMMA StepInv == IInv /\ [Next]_vars => IInv'
BY TypeStep, LedgerStep, TelemetryStep, RowFreshStep, ShutdownStep, OutputStep, LossToldStep
DEF IInv

\* The strengthening of the pipeline's invariants is an invariant.
THEOREM Inductive == Spec => []IInv
<1>1. Init => IInv
  BY InitInv
<1>2. IInv /\ [Next]_vars => IInv'
  BY StepInv
<1> QED
  BY <1>1, <1>2, PTL DEF Spec

\* Every variable has its type, whatever the numbers of workers and arrivals; in
\* particular the channel never holds more than its capacity.
THEOREM TypeCorrect == Spec => []TypeOK
<1>1. IInv => TypeOK
  BY DEF IInv
<1> QED
  BY <1>1, Inductive, PTL

\* Every arrival handed over is queued, in the hands of one worker, or completed,
\* for any number of workers.
THEOREM ArrivalsAccounted == Spec => []Ledger
<1>1. IInv => Ledger
  BY DEF IInv
<1> QED
  BY <1>1, Inductive, PTL

\* No dispatch, completion or latency is lost or counted twice between the
\* counters and the telemetry rows, however swaps and counting interleave.
THEOREM TelemetryExact == Spec => []TelemetryConserved
<1>1. IInv => TelemetryConserved
  BY DEF IInv
<1> QED
  BY <1>1, Inductive, PTL

\* When all workers are done the ledger has only completions left.
LEMMA AllCompleted ==
  ASSUME IInv, \A w \in Workers : workerPC[w] = "done", mainPC # "count"
  PROVE  /\ totalSent = reqIdx /\ totalOK + totalErr = reqIdx
         /\ Cardinality(Unrecorded) = 0
<1>1. Holding = {} /\ Unrecorded = {}
  BY DEF Holding, Unrecorded
<1>2. Cardinality(Holding) = 0 /\ Cardinality(Unrecorded) = 0
  BY <1>1, FS_EmptySet
<1>3. jobs = <<>>
  BY SendPipelineAssumption DEF IInv, ShutdownOrder
<1>4. Len(jobs) = 0
  BY <1>3, EmptySeq
<1>5. /\ reqIdx \in Nat /\ totalSent \in Nat /\ totalOK \in Nat /\ totalErr \in Nat
  BY Quantities DEF IInv
<1>6. totalSent = reqIdx /\ reqIdx = Len(jobs) + Cardinality(Holding) + totalOK + totalErr
  BY <1>5 DEF IInv, Ledger
<1> QED
  BY <1>2, <1>4, <1>5, <1>6

\* A run that exits without a warning has lost no output, for any number of
\* workers and whichever writes fail.
THEOREM LossNeverSilent == Spec => []NoSilentLoss
<1>1. IInv => NoSilentLoss
  <2> SUFFICES ASSUME IInv, mainPC = "exited" PROVE NoSilentLoss
    BY DEF NoSilentLoss
  <2>1. /\ totalSent = reqIdx /\ totalOK + totalErr = reqIdx
        /\ Cardinality(Unrecorded) = 0
    BY AllCompleted DEF IInv, ShutdownOrder
  <2>2. /\ csv \in [rows : Nat, err : BOOLEAN]
        /\ reqIdx \in Nat /\ recorded \in Nat /\ dropped \in Nat
    BY DEF IInv, TypeOK, LatchType, DispatcherType
  <2>3. "csv" \in Outputs /\ "csv" \notin warned => csv.rows = totalSent
    <3>1. "csv" \notin warned => ~csv.err
      BY DEF IInv, LossTold
    <3>2. "csv" \in Outputs /\ ~csv.err => csv.rows + 0 = totalSent
      BY <2>1 DEF IInv, OutputComplete
    <3> QED
      BY <2>2, <3>1, <3>2
  <2>4. "jsonl" \notin warned => jsonl.rows = jsonl.tried
    BY DEF IInv, LossTold, OutputComplete
  <2>5. "analyzer" \notin warned => recorded = totalSent
    <3>1. "analyzer" \notin warned => ~(dropped > 0)
      BY DEF IInv, LossTold
    <3>2. recorded + dropped = totalSent
      BY <2>1, <2>2 DEF IInv, OutputComplete
    <3> QED
      BY <2>2, <3>1, <3>2
  <2> QED
    BY <2>3, <2>4, <2>5 DEF NoSilentLoss
<1> QED
  BY <1>1, Inductive, PTL

----------------------------------------------------------------------------
(* The error map *)

\* The errors filed so far, under their message or under "other".
Filed == SumOn(errorCounts, DOMAIN errorCounts) + otherErrors

\* Errors and successes counted but not yet recorded.
UnrecordedErr == Unrecorded \ UnrecordedOK

ErrorLedger ==
  /\ IsFiniteSet(DOMAIN errorCounts)
  /\ Filed + Cardinality(UnrecordedErr) = totalErr
  /\ okLat + Cardinality(UnrecordedOK) = totalOK
  /\ Cardinality(DOMAIN errorCounts) <= MaxDistinctErrors
  /\ otherErrors > 0 => Cardinality(DOMAIN errorCounts) = MaxDistinctErrors

\* An error is filed exactly once, and the map stays within its bound.
LEMMA CountErrorFiles ==
  ASSUME LatchType, IsFiniteSet(DOMAIN errorCounts),
         Cardinality(DOMAIN errorCounts) <= MaxDistinctErrors,
         otherErrors > 0 => Cardinality(DOMAIN errorCounts) = MaxDistinctErrors,
         NEW msg \in Messages, CountError(msg)
  PROVE  /\ IsFiniteSet(DOMAIN errorCounts')
         /\ Filed \in Int /\ Filed' = Filed + 1
         /\ Cardinality(DOMAIN errorCounts') <= MaxDistinctErrors
         /\ otherErrors' > 0 => Cardinality(DOMAIN errorCounts') = MaxDistinctErrors
<1> DEFINE D == DOMAIN errorCounts
           S == SumOn(errorCounts, D)
<1>1. /\ IsFiniteSet(D) /\ otherErrors \in Nat /\ MaxDistinctErrors \in Nat
      /\ \A m \in D : errorCounts[m] \in Nat
      /\ Cardinality(D) \in Nat
  BY SendPipelineAssumption, FS_CardinalityType DEF LatchType
<1>2. S \in Int
  BY <1>1, SumType
<1>3. Filed = S + otherErrors
  BY DEF Filed
<1>4. CASE msg \in D
  <2>1. /\ errorCounts' = [m \in D |-> errorCounts[m] + (IF m = msg THEN 1 ELSE 0)]
        /\ otherErrors' = otherErrors
    <3>1. D \cup {msg} = D
      BY <1>4
    <3> QED
      BY <1>4, <3>1 DEF CountError
  <2>2. /\ DOMAIN errorCounts' = D /\ errorCounts'[msg] = errorCounts[msg] + 1
        /\ \A m \in D : errorCounts[m] \in Int /\ errorCounts'[m] \in Int
        /\ \A m \in D \ {msg} : errorCounts[m] = errorCounts'[m]
    BY <1>1, <1>4, <2>1
  <2>3. SumOn(errorCounts', D) = S + errorCounts'[msg] - errorCounts[msg]
    BY <1>1, <1>4, <2>2, SumChange
  <2>4. SumOn(errorCounts', D) = S + 1
    <3>1. errorCounts[msg] \in Int
      BY <1>4, <2>2
    <3> QED
      BY <1>2, <2>2, <2>3, <3>1
  <2>5. Filed' = SumOn(errorCounts', D) + otherErrors
    BY <2>1, <2>2 DEF Filed
  <2> QED
    BY <1>1, <1>2, <1>3, <2>1, <2>2, <2>4, <2>5
<1>5. CASE msg \notin D /\ Cardinality(D) < MaxDistinctErrors
  <2> DEFINE E == D \cup {msg}
  <2>1. /\ errorCounts' = [m \in E |-> IF m = msg THEN 1 ELSE errorCounts[m]]
        /\ otherErrors' = otherErrors
    BY <1>1, <1>5 DEF CountError
  <2>2. IsFiniteSet(E) /\ Cardinality(E) = Cardinality(D) + 1
    BY <1>1, <1>5, FS_AddElement
  <2>3. /\ DOMAIN errorCounts' = E /\ errorCounts'[msg] = 1 /\ msg \in E
        /\ \A m \in E : errorCounts'[m] \in Int
        /\ \A m \in D : errorCounts'[m] = errorCounts[m]
        /\ E \ {msg} = D
    BY <1>1, <1>5, <2>1
  <2>4. SumOn(errorCounts', E) = 1 + SumOn(errorCounts', E \ {msg})
    BY <2>2, <2>3, SumSplit
  <2>5. SumOn(errorCounts', D) = S
    BY <1>1, <2>3, SumCongruence
  <2>6. Filed' = SumOn(errorCounts', E) + otherErrors
    BY <2>1, <2>3 DEF Filed
  <2>7. ~(otherErrors > 0)
    BY <1>1, <1>5
  <2> QED
    BY <1>1, <1>2, <1>3, <1>5, <2>1, <2>2, <2>3, <2>4, <2>5, <2>6, <2>7
<1>6. CASE msg \notin D /\ ~(Cardinality(D) < MaxDistinctErrors)
  <2>1. errorCounts' = errorCounts /\ otherErrors' = otherErrors + 1
    BY <1>6 DEF CountError
  <2>2. Filed' = S + otherErrors + 1
    BY <1>1, <1>2, <2>1 DEF Filed
  <2> QED
    BY <1>1, <1>2, <1>3, <1>6, <2>1, <2>2
<1> QED
  BY <1>4, <1>5, <1>6

LEMMA ErrorInit == Init => ErrorLedger
<1> SUFFICES ASSUME Init PROVE ErrorLedger
  OBVIOUS
<1>1. DOMAIN errorCounts = {} /\ otherErrors = 0 /\ okLat = 0 /\ totalOK = 0 /\ totalErr = 0
  BY DEF Init
<1>2. UnrecordedErr = {} /\ UnrecordedOK = {}
  BY DEF Init, UnrecordedErr, UnrecordedOK, Unrecorded
<1>3. IsFiniteSet({}) /\ Cardinality({}) = 0
  BY FS_EmptySet
<1>4. SumOn(errorCounts, {}) = 0
  BY <1>3, SumCases
<1>5. MaxDistinctErrors \in Nat
  BY SendPipelineAssumption
<1> QED
  BY <1>1, <1>2, <1>3, <1>4, <1>5 DEF ErrorLedger, Filed

\* A step that neither completes nor records an outcome.
LEMMA ErrorFrame ==
  ASSUME ErrorLedger, UNCHANGED <<errorCounts, otherErrors, okLat, totals>>,
         UnrecordedErr' = UnrecordedErr, UnrecordedOK' = UnrecordedOK
  PROVE  ErrorLedger'
<1>1. Filed' = Filed
  BY DEF Filed
<1> QED
  BY <1>1 DEF ErrorLedger, totals

\* The counts of the two kinds of unrecorded outcomes.
LEMMA UnrecordedCounts ==
  /\ IsFiniteSet(UnrecordedErr) /\ Cardinality(UnrecordedErr) \in Nat
  /\ IsFiniteSet(UnrecordedOK) /\ Cardinality(UnrecordedOK) \in Nat
<1>1. UnrecordedErr \subseteq Workers /\ UnrecordedOK \subseteq Workers
  BY DEF UnrecordedErr, UnrecordedOK, Unrecorded
<1> QED
  BY <1>1, SendPipelineAssumption, FS_Subset, FS_CardinalityType

LEMMA ErrorQuantities ==
  ASSUME TypeOK, ErrorLedger
  PROVE  /\ Filed \in Int /\ okLat \in Nat /\ otherErrors \in Nat
         /\ totalOK \in Nat /\ totalErr \in Nat
<1>1. /\ \A m \in DOMAIN errorCounts : errorCounts[m] \in Int
      /\ otherErrors \in Nat /\ okLat \in Nat /\ totalOK \in Nat /\ totalErr \in Nat
  BY DEF TypeOK, LatchType, WorkerType
<1>2. SumOn(errorCounts, DOMAIN errorCounts) \in Int
  BY <1>1, SumType DEF ErrorLedger
<1> QED
  BY <1>1, <1>2 DEF Filed

LEMMA ErrorCountOutcome ==
  ASSUME IInv, ErrorLedger, NEW w \in Workers, CountOutcome(w)
  PROVE  ErrorLedger'
<1>1. /\ workerPC \in [Workers -> WorkerPCs]
      /\ workerPC[w] = "landed" /\ workerPC' = [workerPC EXCEPT ![w] = "counted"]
      /\ outcome' = outcome
      /\ UNCHANGED <<errorCounts, otherErrors, okLat>>
  BY DEF IInv, TypeOK, WorkerType, CountOutcome, Goto, muVars
<1>2. Filed' = Filed
  BY <1>1 DEF Filed
<1>3. w \notin UnrecordedOK /\ w \notin UnrecordedErr
  BY <1>1 DEF UnrecordedErr, UnrecordedOK, Unrecorded
<1>4. CASE outcome[w] = "ok"
  <2>1. UnrecordedOK' = UnrecordedOK \cup {w} /\ UnrecordedErr' = UnrecordedErr
    BY <1>1, <1>4 DEF UnrecordedErr, UnrecordedOK, Unrecorded
  <2>2. Cardinality(UnrecordedOK') = Cardinality(UnrecordedOK) + 1
    BY <1>3, <2>1, UnrecordedCounts, FS_AddElement
  <2>3. totalOK' = totalOK + 1 /\ totalErr' = totalErr
    BY <1>4 DEF CountOutcome
  <2> QED
    BY <1>1, <1>2, <2>1, <2>2, <2>3, UnrecordedCounts, ErrorQuantities DEF ErrorLedger, IInv
<1>5. CASE outcome[w] # "ok"
  <2>1. UnrecordedErr' = UnrecordedErr \cup {w} /\ UnrecordedOK' = UnrecordedOK
    BY <1>1, <1>5 DEF UnrecordedErr, UnrecordedOK, Unrecorded
  <2>2. Cardinality(UnrecordedErr') = Cardinality(UnrecordedErr) + 1
    BY <1>3, <2>1, UnrecordedCounts, FS_AddElement
  <2>3. totalErr' = totalErr + 1 /\ totalOK' = totalOK
    BY <1>5 DEF CountOutcome
  <2> QED
    BY <1>1, <1>2, <2>1, <2>2, <2>3, UnrecordedCounts, ErrorQuantities DEF ErrorLedger, IInv
<1> QED
  BY <1>4, <1>5

LEMMA ErrorRecordOutcome ==
  ASSUME IInv, ErrorLedger, NEW w \in Workers, RecordOutcome(w)
  PROVE  ErrorLedger'
<1>1. /\ workerPC \in [Workers -> WorkerPCs]
      /\ outcome \in [Workers -> {"none", "ok"} \cup Messages]
      /\ workerPC[w] = "counted" /\ workerPC' = [workerPC EXCEPT ![w] = "range"]
      /\ outcome' = [outcome EXCEPT ![w] = "none"]
      /\ UNCHANGED totals
  BY DEF IInv, TypeOK, WorkerType, RecordOutcome, Goto
<1>2. CASE outcome[w] = "ok"
  <2>1. /\ UnrecordedOK' = UnrecordedOK \ {w} /\ w \in UnrecordedOK
        /\ UnrecordedErr' = UnrecordedErr
    BY <1>1, <1>2 DEF UnrecordedErr, UnrecordedOK, Unrecorded
  <2>2. Cardinality(UnrecordedOK') = Cardinality(UnrecordedOK) - 1
    BY <2>1, UnrecordedCounts, FS_RemoveElement
  <2>3. okLat' = okLat + 1 /\ UNCHANGED <<errorCounts, otherErrors>>
    BY <1>2 DEF RecordOutcome
  <2>4. Filed' = Filed
    BY <2>3 DEF Filed
  <2> QED
    BY <1>1, <2>1, <2>2, <2>3, <2>4, UnrecordedCounts, ErrorQuantities
       DEF ErrorLedger, IInv, totals
<1>3. CASE outcome[w] # "ok"
  <2>1. /\ UnrecordedErr' = UnrecordedErr \ {w} /\ w \in UnrecordedErr
        /\ UnrecordedOK' = UnrecordedOK
    BY <1>1, <1>3 DEF UnrecordedErr, UnrecordedOK, Unrecorded
  <2>2. Cardinality(UnrecordedErr') = Cardinality(UnrecordedErr) - 1
    BY <2>1, UnrecordedCounts, FS_RemoveElement
  <2>3. okLat' = okLat /\ CountError(outcome[w])
    BY <1>3 DEF RecordOutcome
  <2>4. outcome[w] \in Messages
    BY <1>1, <1>3 DEF IInv, OutcomeKnown
  <2>5. LatchType
    BY DEF IInv, TypeOK
  <2>6. /\ IsFiniteSet(DOMAIN errorCounts') /\ Filed' = Filed + 1
        /\ Cardinality(DOMAIN errorCounts') <= MaxDistinctErrors
        /\ otherErrors' > 0 => Cardinality(DOMAIN errorCounts') = MaxDistinctErrors
    BY <2>3, <2>4, <2>5, CountErrorFiles DEF ErrorLedger
  <2> QED
    BY <1>1, <2>1, <2>2, <2>3, <2>6, UnrecordedCounts, ErrorQuantities
       DEF ErrorLedger, IInv, totals
<1> QED
  BY <1>2, <1>3

LEMMA ErrorStep == IInv /\ ErrorLedger /\ [Next]_vars => ErrorLedger'
<1> SUFFICES ASSUME IInv, ErrorLedger, [Next]_vars PROVE ErrorLedger'
  OBVIOUS
<1>1. ASSUME UNCHANGED <<workerPC, outcome, errorCounts, otherErrors, okLat, totals>>
      PROVE  ErrorLedger'
  <2>1. UnrecordedErr' = UnrecordedErr /\ UnrecordedOK' = UnrecordedOK
    BY <1>1 DEF UnrecordedErr, UnrecordedOK, Unrecorded
  <2> QED
    BY <1>1, <2>1, ErrorFrame
<1>2. ASSUME NEW w \in Workers, NEW from, NEW to, Goto(w, from, to),
             from # "counted", to # "counted",
             \A v \in Workers \ {w} : outcome'[v] = outcome[v],
             UNCHANGED <<errorCounts, otherErrors, okLat, totals>>
      PROVE  ErrorLedger'
  <2>1. /\ workerPC \in [Workers -> WorkerPCs] /\ workerPC[w] # "counted"
        /\ workerPC' = [workerPC EXCEPT ![w] = to]
    BY <1>2 DEF IInv, TypeOK, WorkerType, Goto
  <2>2. UnrecordedErr' = UnrecordedErr /\ UnrecordedOK' = UnrecordedOK
    BY <1>2, <2>1 DEF UnrecordedErr, UnrecordedOK, Unrecorded
  <2> QED
    BY <1>2, <2>2, ErrorFrame
<1>3. CASE Dispatcher
  <2>1. UNCHANGED <<workerPC, outcome, errorCounts, otherErrors, okLat, totals>>
    BY <1>3 DEF Dispatcher, SpawnInNext, NextArrival, Record, Enqueue, CountSent, CloseJobs,
                StopReporter, Summarise, Warn, CloseJSONL, workerVars, muVars
  <2> QED
    BY <1>1, <2>1
<1>4. CASE Tick \/ Reporter \/ UNCHANGED vars
  <2>1. UNCHANGED <<workerPC, outcome, errorCounts, otherErrors, okLat, totals>>
    BY <1>4 DEF Tick, Reporter, SwapSent, SwapOK, SwapErr, CopyLatencies, EmitRow,
                LeaveReporter, vars, workerVars, muVars
  <2> QED
    BY <1>1, <2>1
<1>5. ASSUME NEW w \in Workers, TakeJob(w) PROVE ErrorLedger'
  BY <1>2, <1>5 DEF TakeJob, muVars
<1>6. ASSUME NEW w \in Workers, LeaveRange(w) PROVE ErrorLedger'
  BY <1>2, <1>6 DEF LeaveRange, muVars
<1>7. ASSUME NEW w \in Workers, StartInvoke(w) PROVE ErrorLedger'
  BY <1>2, <1>7 DEF StartInvoke, muVars
<1>8. ASSUME NEW w \in Workers, InvokeReturns(w) PROVE ErrorLedger'
  <2>1. \A v \in Workers \ {w} : outcome'[v] = outcome[v]
    BY <1>8 DEF InvokeReturns, IInv, TypeOK, WorkerType
  <2> QED
    BY <1>2, <1>8, <2>1 DEF InvokeReturns, muVars
<1>9. ASSUME NEW w \in Workers, LeaveInflight(w) PROVE ErrorLedger'
  BY <1>2, <1>9 DEF LeaveInflight, muVars
<1>10. ASSUME NEW w \in Workers, CountOutcome(w) \/ RecordOutcome(w) PROVE ErrorLedger'
  BY <1>10, ErrorCountOutcome, ErrorRecordOutcome
<1> QED
  BY <1>3, <1>4, <1>5, <1>6, <1>7, <1>8, <1>9, <1>10 DEF Next, Worker, Exited

LEMMA FiledIsFold == FoldFunction(+, 0, errorCounts) + otherErrors = Filed
BY FoldIsSum DEF Filed

LEMMA ErrorsInductive == Spec => [](IInv /\ ErrorLedger)
<1>1. Init => ErrorLedger
  BY ErrorInit
<1>2. IInv /\ ErrorLedger /\ [Next]_vars => ErrorLedger'
  BY ErrorStep
<1> QED
  BY <1>1, <1>2, Inductive, PTL DEF Spec

\* Every error is counted exactly once, under its message or under "other", and
\* the map never outgrows its bound, however many workers fail at once.
THEOREM ErrorsAlwaysFiled == Spec => []ErrorsFiled
<1>1. ErrorLedger => ErrorsFiled
  BY FiledIsFold DEF ErrorLedger, ErrorsFiled, UnrecordedErr
<1> QED
  BY <1>1, ErrorsInductive, PTL

\* Once printed, the summary agrees with the counters, which have stopped.
SummaryTaken ==
  mainPC \in {"warn", "close", "exited"} =>
    summary = [total |-> totalSent, ok |-> totalOK, err |-> totalErr]

LEMMA SummaryStep == IInv /\ SummaryTaken /\ [Next]_vars => SummaryTaken'
<1> SUFFICES ASSUME IInv, SummaryTaken, [Next]_vars,
                    mainPC' \in {"warn", "close", "exited"}
             PROVE  summary' = [total |-> totalSent', ok |-> totalOK', err |-> totalErr']
  BY DEF SummaryTaken
<1>1. CASE Summarise
  BY <1>1 DEF Summarise, totals
<1>2. CASE Warn \/ CloseJSONL
  BY <1>2 DEF Warn, CloseJSONL, totals, SummaryTaken
<1>3. ASSUME SpawnInNext \/ NextArrival \/ Record \/ Enqueue \/ CountSent \/ CloseJobs
             \/ StopReporter
      PROVE  FALSE
  BY <1>3 DEF SpawnInNext, NextArrival, Record, Enqueue, CountSent, CloseJobs,
              StopReporter, mainVars
<1>4. ASSUME NEW w \in Workers, CountOutcome(w) PROVE FALSE
  <2>1. workerPC[w] = "landed" /\ mainPC' = mainPC
    BY <1>4 DEF CountOutcome, Goto, mainVars
  <2>2. workerPC[w] = "done"
    BY <2>1 DEF IInv, ShutdownOrder
  <2> QED
    BY <2>1, <2>2
<1>5. ASSUME UNCHANGED <<mainPC, totalSent, totals, summary>>
      PROVE  summary' = [total |-> totalSent', ok |-> totalOK', err |-> totalErr']
  BY <1>5 DEF SummaryTaken, totals
<1>6. ASSUME NEW w \in Workers,
             TakeJob(w) \/ LeaveRange(w) \/ StartInvoke(w) \/ InvokeReturns(w)
             \/ LeaveInflight(w) \/ RecordOutcome(w)
      PROVE  UNCHANGED <<mainPC, totalSent, totals, summary>>
  BY <1>6 DEF TakeJob, LeaveRange, StartInvoke, InvokeReturns, LeaveInflight, RecordOutcome,
              mainVars, endVars
<1>7. ASSUME Tick \/ Reporter \/ UNCHANGED vars
      PROVE  UNCHANGED <<mainPC, totalSent, totals, summary>>
  BY <1>7 DEF Tick, Reporter, SwapSent, SwapOK, SwapErr, CopyLatencies, EmitRow, LeaveReporter,
              vars, mainVars, endVars
<1> QED
  BY <1>1, <1>2, <1>3, <1>4, <1>5, <1>6, <1>7 DEF Next, Dispatcher, Worker, Exited

\* The printed summary is final and complete: no goroutine is left that could
\* change what it reports, and it agrees with the counters, the error map, the
\* latencies and the window analyzer, which were filled independently.
THEOREM SummaryAlwaysFinal == Spec => []SummaryFinal
<1>1. Init => SummaryTaken
  BY DEF Init, SummaryTaken
<1>2. IInv /\ SummaryTaken /\ [Next]_vars => SummaryTaken'
  BY SummaryStep
<1>3. IInv /\ ErrorLedger /\ SummaryTaken => SummaryFinal
  <2> SUFFICES ASSUME IInv, ErrorLedger, SummaryTaken, mainPC \in {"warn", "close", "exited"}
               PROVE  /\ \A w \in Workers : workerPC[w] = "done"
                      /\ reporterPC = "done"
                      /\ jobs = <<>> /\ inflight = 0
                      /\ summary = [total |-> reqIdx, ok |-> okLat,
                                    err |-> FoldFunction(+, 0, errorCounts) + otherErrors]
                      /\ summary.total = summary.ok + summary.err
                      /\ recorded + dropped = summary.total
    BY Zenon DEF SummaryFinal
  <2>1. (\A w \in Workers : workerPC[w] = "done") /\ reporterPC = "done"
    BY DEF IInv, ShutdownOrder
  <2>2. jobs = <<>>
    BY <2>1, SendPipelineAssumption DEF IInv, ShutdownOrder
  <2>3. inflight = 0
    <3>1. {w \in Workers : workerPC[w] \in {"invoking", "returned"}} = {}
      BY <2>1
    <3> QED
      BY <3>1, FS_EmptySet DEF IInv, Ledger
  <2>4. totalSent = reqIdx /\ totalOK + totalErr = reqIdx
    BY <2>1, AllCompleted
  <2>5. okLat = totalOK /\ Filed = totalErr
    <3>1. UnrecordedErr = {} /\ UnrecordedOK = {}
      BY <2>1 DEF UnrecordedErr, UnrecordedOK, Unrecorded
    <3>2. Cardinality({}) = 0
      BY FS_EmptySet
    <3> QED
      BY <3>1, <3>2, ErrorQuantities DEF IInv, ErrorLedger
  <2>6. summary = [total |-> reqIdx, ok |-> okLat, err |-> Filed]
    BY <2>4, <2>5 DEF SummaryTaken
  <2>7. summary.total = summary.ok + summary.err
    BY <2>4, <2>5, <2>6
  <2>8. recorded + dropped = summary.total
    <3>1. reqIdx \in Nat
      BY DEF IInv, TypeOK, DispatcherType
    <3> QED
      BY <2>6, <3>1 DEF IInv, OutputComplete
  <2> QED
    BY <2>1, <2>2, <2>3, <2>6, <2>7, <2>8, FiledIsFold
<1> QED
  BY <1>1, <1>2, <1>3, Inductive, ErrorsInductive, PTL DEF Spec

----------------------------------------------------------------------------
(* Round robin *)

QueuedFor(s, r)     == Cardinality({i \in 1..Len(s) : s[i] = r})
TakenFor(pc, jb, r) == Cardinality({w \in Workers : pc[w] = "taken" /\ jb[w] = r})
TurnsOf(n, m, r)    == Cardinality({k \in 0..(n - 1) : k % m = r})
Same(x, y)          == IF x = y THEN 1 ELSE 0

RequestInTurn(r) ==
  invoked[r] + QueuedFor(jobs, r) + TakenFor(workerPC, job, r) = TurnsOf(reqIdx, NumReqs, r)

\* The calls are counted, and the counter is at the turn of the next one.
CallsInTurn ==
  /\ Started \in Nat
  /\ connRR = Started % NumConns
  /\ \A c \in Connections : carried[c] = TurnsOf(Started, NumConns, c)

LEMMA RequestParts == RequestsInTurn <=> \A r \in Requests : RequestInTurn(r)
<1>1. \A r : {w \in Taken : job[w] = r}
               = {w \in Workers : workerPC[w] = "taken" /\ job[w] = r}
  BY DEF Taken
<1> QED
  BY <1>1 DEF RequestsInTurn, RequestInTurn, QueuedFor, TakenFor, TurnsOf

LEMMA RequestPartsNext == RequestsInTurn' <=> \A r \in Requests : RequestInTurn(r)'
<1>1. \A r : {w \in Taken' : job'[w] = r}
               = {w \in Workers : workerPC'[w] = "taken" /\ job'[w] = r}
  BY DEF Taken
<1> QED
  BY <1>1 DEF RequestsInTurn, RequestInTurn, QueuedFor, TakenFor, TurnsOf

LEMMA OneMore ==
  ASSUME NEW S, IsFiniteSet(S), NEW e, e \notin S, NEW x, NEW r,
         NEW T, T = IF x = r THEN S \cup {e} ELSE S
  PROVE  Cardinality(S) \in Nat /\ Cardinality(T) = Cardinality(S) + Same(x, r)
<1>1. Cardinality(S) \in Nat
  BY FS_CardinalityType
<1>2. CASE x = r
  BY <1>1, <1>2, FS_AddElement DEF Same
<1>3. CASE x # r
  BY <1>1, <1>3 DEF Same
<1> QED
  BY <1>1, <1>2, <1>3

\* A job that is put on the channel is one more of its request.
LEMMA QueuedAppend ==
  ASSUME NEW s \in Seq(Requests), NEW x \in Requests, NEW r
  PROVE  QueuedFor(s, r) \in Nat /\ QueuedFor(Append(s, x), r) = QueuedFor(s, r) + Same(x, r)
<1> DEFINE n == Len(s)
           S == {i \in 1..n : s[i] = r}
           T == {i \in 1..Len(Append(s, x)) : Append(s, x)[i] = r}
<1>1. /\ n \in Nat /\ Len(Append(s, x)) = n + 1 /\ Append(s, x)[n + 1] = x
      /\ \A i \in 1..n : Append(s, x)[i] = s[i]
  BY AppendProperties, LenProperties
<1>2. IsFiniteSet(S)
  <2>1. IsFiniteSet(1..n) /\ S \subseteq 1..n
    BY <1>1, FS_Interval
  <2> QED
    BY <2>1, FS_Subset
<1>3. T = IF x = r THEN S \cup {n + 1} ELSE S
  BY <1>1
<1>4. n + 1 \notin S
  BY <1>1
<1> HIDE DEF S, T, n
<1>5. Cardinality(S) \in Nat /\ Cardinality(T) = Cardinality(S) + Same(x, r)
  BY <1>2, <1>3, <1>4, OneMore
<1> QED
  BY <1>5 DEF S, T, n, QueuedFor

\* The job that is received is one less; the others move up by one place.
LEMMA QueuedTail ==
  ASSUME NEW s \in Seq(Requests), s # <<>>, NEW r
  PROVE  /\ QueuedFor(Tail(s), r) \in Nat
         /\ QueuedFor(s, r) = QueuedFor(Tail(s), r) + Same(Head(s), r)
<1> DEFINE n == Len(s)
           S == {i \in 1..n : s[i] = r}
           T == {i \in 1..Len(Tail(s)) : Tail(s)[i] = r}
           U == {i \in 2..n : s[i] = r}
           f == [i \in T |-> i + 1]
<1>1. /\ n \in Nat /\ n >= 1 /\ Len(Tail(s)) = n - 1 /\ Head(s) = s[1]
      /\ \A i \in 1..(n - 1) : Tail(s)[i] = s[i + 1]
  BY HeadTailProperties, LenProperties, EmptySeq
<1>2. IsFiniteSet(T) /\ Cardinality(T) \in Nat
  <2>1. IsFiniteSet(1..(n - 1)) /\ T \subseteq 1..(n - 1)
    BY <1>1, FS_Interval
  <2> QED
    BY <2>1, FS_Subset, FS_CardinalityType
<1>3. f \in Bijection(T, U)
  <2>1. f \in [T -> U]
    BY <1>1
  <2>2. \A a, b \in T : f[a] = f[b] => a = b
    BY <1>1
  <2>3. ASSUME NEW u \in U PROVE \E t \in T : f[t] = u
    <3>1. u - 1 \in T
      BY <1>1
    <3>2. f[u - 1] = u
      BY <3>1
    <3> QED
      BY <3>1, <3>2
  <2> HIDE DEF f, T, U
  <2> QED
    BY <2>1, <2>2, <2>3, Fun_IsBij
<1>4. IsFiniteSet(U) /\ Cardinality(U) = Cardinality(T)
  <2> HIDE DEF f, T, U
  <2>1. ExistsBijection(T, U)
    BY <1>3, Fun_ExistsBij
  <2> QED
    BY <1>2, <2>1, FS_Bijection
<1>5. S = IF Head(s) = r THEN U \cup {1} ELSE U
  BY <1>1
<1>6. 1 \notin U
  BY <1>1
<1> HIDE DEF S, T, U, n
<1>7. Cardinality(S) = Cardinality(T) + Same(Head(s), r)
  BY <1>4, <1>5, <1>6, OneMore
<1> QED
  BY <1>2, <1>7 DEF S, T, n, QueuedFor

\* The next turn is one more of the request, or the connection, that it falls to.
LEMMA TurnsNext ==
  ASSUME NEW n \in Nat, NEW m, NEW r
  PROVE  TurnsOf(n, m, r) \in Nat /\ TurnsOf(n + 1, m, r) = TurnsOf(n, m, r) + Same(n % m, r)
<1> DEFINE S == {k \in 0..(n - 1) : k % m = r}
           T == {k \in 0..((n + 1) - 1) : k % m = r}
<1>1. IsFiniteSet(S)
  <2>1. IsFiniteSet(0..(n - 1)) /\ S \subseteq 0..(n - 1)
    BY FS_Interval
  <2> QED
    BY <2>1, FS_Subset
<1>2. 0..((n + 1) - 1) = 0..(n - 1) \cup {n} /\ n \notin 0..(n - 1)
  OBVIOUS
<1>3. T = (IF n % m = r THEN S \cup {n} ELSE S) /\ n \notin S
  BY <1>2
<1> HIDE DEF S, T
<1>4. Cardinality(S) \in Nat /\ Cardinality(T) = Cardinality(S) + Same(n % m, r)
  BY <1>1, <1>3, OneMore
<1> QED
  BY <1>4 DEF S, T, TurnsOf

LEMMA TakenType ==
  ASSUME NEW pc, NEW jb, NEW r
  PROVE  TakenFor(pc, jb, r) \in Nat
<1>1. {w \in Workers : pc[w] = "taken" /\ jb[w] = r} \subseteq Workers
  OBVIOUS
<1> QED
  BY <1>1, SendPipelineAssumption, FS_Subset, FS_CardinalityType DEF TakenFor

LEMMA TakenJoins ==
  ASSUME NEW pc, NEW jb, NEW pcN, NEW jbN, NEW r, NEW w \in Workers,
         pc[w] # "taken", pcN[w] = "taken",
         \A v \in Workers \ {w} : pcN[v] = pc[v],
         \A v \in Workers \ {w} : jbN[v] = jb[v]
  PROVE  TakenFor(pcN, jbN, r) = TakenFor(pc, jb, r) + Same(jbN[w], r)
<1> DEFINE S == {v \in Workers : pc[v] = "taken" /\ jb[v] = r}
           T == {v \in Workers : pcN[v] = "taken" /\ jbN[v] = r}
<1>1. IsFiniteSet(S)
  BY SendPipelineAssumption, FS_Subset
<1>2. T = (IF jbN[w] = r THEN S \cup {w} ELSE S) /\ w \notin S
  OBVIOUS
<1> HIDE DEF S, T
<1>3. Cardinality(T) = Cardinality(S) + Same(jbN[w], r)
  BY <1>1, <1>2, OneMore
<1> QED
  BY <1>3 DEF S, T, TakenFor

LEMMA TakenLeaves ==
  ASSUME NEW pc, NEW jb, NEW pcN, NEW r, NEW w \in Workers,
         pc[w] = "taken", pcN[w] # "taken",
         \A v \in Workers \ {w} : pcN[v] = pc[v]
  PROVE  TakenFor(pc, jb, r) = TakenFor(pcN, jb, r) + Same(jb[w], r)
<1> DEFINE S == {v \in Workers : pc[v] = "taken" /\ jb[v] = r}
           T == {v \in Workers : pcN[v] = "taken" /\ jb[v] = r}
<1>1. IsFiniteSet(T)
  BY SendPipelineAssumption, FS_Subset
<1>2. S = (IF jb[w] = r THEN T \cup {w} ELSE T) /\ w \notin T
  OBVIOUS
<1> HIDE DEF S, T
<1>3. Cardinality(S) = Cardinality(T) + Same(jb[w], r)
  BY <1>1, <1>2, OneMore
<1> QED
  BY <1>3 DEF S, T, TakenFor

LEMMA RequestsInit == Init => RequestsInTurn
<1> SUFFICES ASSUME Init, NEW r \in Requests PROVE RequestInTurn(r)
  BY RequestParts
<1>1. QueuedFor(jobs, r) = 0
  <2>1. {i \in 1..Len(jobs) : jobs[i] = r} = {}
    BY EmptySeq DEF Init
  <2> QED
    BY <2>1, FS_EmptySet DEF QueuedFor
<1>2. TakenFor(workerPC, job, r) = 0
  <2>1. {w \in Workers : workerPC[w] = "taken" /\ job[w] = r} = {}
    BY DEF Init
  <2> QED
    BY <2>1, FS_EmptySet DEF TakenFor
<1>3. TurnsOf(reqIdx, NumReqs, r) = 0
  <2>1. 0..(0 - 1) = {}
    OBVIOUS
  <2>2. {k \in 0..(reqIdx - 1) : k % NumReqs = r} = {}
    BY <2>1 DEF Init
  <2> QED
    BY <2>2, FS_EmptySet DEF TurnsOf
<1>4. invoked[r] = 0
  BY DEF Init, Requests
<1> QED
  BY <1>1, <1>2, <1>3, <1>4 DEF RequestInTurn

LEMMA RequestsStep == TypeOK /\ RequestsInTurn /\ [Next]_vars => RequestsInTurn'
<1> SUFFICES ASSUME TypeOK, [Next]_vars, NEW r \in Requests, RequestInTurn(r)
             PROVE  RequestInTurn(r)'
  BY RequestParts, RequestPartsNext
<1>1. /\ jobs \in Seq(Requests) /\ reqIdx \in Nat
      /\ workerPC \in [Workers -> WorkerPCs] /\ job \in [Workers -> Requests]
      /\ invoked \in [Requests -> Nat] /\ invoked[r] \in Nat
  BY DEF TypeOK, DispatcherType, WorkerType
<1>2. invoked[r] + QueuedFor(jobs, r) + TakenFor(workerPC, job, r) = TurnsOf(reqIdx, NumReqs, r)
  BY DEF RequestInTurn
<1>3. /\ TakenFor(workerPC, job, r) \in Nat /\ TakenFor(workerPC, job, r)' \in Nat
      /\ TurnsOf(reqIdx, NumReqs, r) \in Nat
  BY <1>1, TakenType, TurnsNext
<1>4. QueuedFor(jobs, r) \in Nat
  <2>1. /\ IsFiniteSet(1..Len(jobs))
        /\ {i \in 1..Len(jobs) : jobs[i] = r} \subseteq 1..Len(jobs)
    BY <1>1, LenProperties, FS_Interval
  <2>2. IsFiniteSet({i \in 1..Len(jobs) : jobs[i] = r})
    BY <2>1, FS_Subset
  <2> QED
    BY <2>2, FS_CardinalityType DEF QueuedFor
<1>5. ASSUME UNCHANGED <<invoked, jobs, reqIdx>>,
             \A w \in Workers : workerPC'[w] = "taken" <=> workerPC[w] = "taken",
             \A w \in Workers : workerPC[w] = "taken" => job'[w] = job[w]
      PROVE  RequestInTurn(r)'
  <2>1. TakenFor(workerPC, job, r)' = TakenFor(workerPC, job, r)
    BY <1>5 DEF TakenFor
  <2>2. /\ QueuedFor(jobs, r)' = QueuedFor(jobs, r)
        /\ TurnsOf(reqIdx, NumReqs, r)' = TurnsOf(reqIdx, NumReqs, r)
    BY <1>5 DEF QueuedFor, TurnsOf
  <2> QED
    BY <1>2, <1>5, <2>1, <2>2 DEF RequestInTurn
<1>6. CASE Enqueue
  <2> DEFINE x == reqIdx % NumReqs
  <2>1. /\ jobs' = Append(jobs, x) /\ reqIdx' = reqIdx + 1
        /\ UNCHANGED <<invoked, workerPC, job>>
    BY <1>6 DEF Enqueue, workerVars
  <2>2. x \in Requests
    BY <1>1, SendPipelineAssumption DEF Requests
  <2>3. QueuedFor(jobs, r)' = QueuedFor(jobs, r) + Same(x, r)
    <3>1. QueuedFor(Append(jobs, x), r) = QueuedFor(jobs, r) + Same(x, r)
      BY <1>1, <2>2, QueuedAppend
    <3> QED
      BY <2>1, <3>1 DEF QueuedFor
  <2>4. TurnsOf(reqIdx, NumReqs, r)' = TurnsOf(reqIdx, NumReqs, r) + Same(x, r)
    BY <1>1, <2>1, TurnsNext DEF TurnsOf
  <2>5. TakenFor(workerPC, job, r)' = TakenFor(workerPC, job, r)
    BY <2>1 DEF TakenFor
  <2>6. Same(x, r) \in Nat
    BY DEF Same
  <2> QED
    BY <1>1, <1>2, <1>3, <1>4, <2>1, <2>3, <2>4, <2>5, <2>6 DEF RequestInTurn
<1>7. ASSUME NEW w \in Workers, TakeJob(w) PROVE RequestInTurn(r)'
  <2>1. /\ workerPC[w] = "range" /\ workerPC' = [workerPC EXCEPT ![w] = "taken"]
        /\ jobs # <<>> /\ jobs' = Tail(jobs) /\ job' = [job EXCEPT ![w] = Head(jobs)]
        /\ UNCHANGED <<invoked, reqIdx>>
    BY <1>7 DEF TakeJob, Goto, mainVars
  <2>2. /\ QueuedFor(jobs, r) = QueuedFor(jobs, r)' + Same(Head(jobs), r)
        /\ QueuedFor(jobs, r)' \in Nat
    <3>1. /\ QueuedFor(Tail(jobs), r) \in Nat
          /\ QueuedFor(jobs, r) = QueuedFor(Tail(jobs), r) + Same(Head(jobs), r)
      BY <1>1, <2>1, QueuedTail
    <3>2. QueuedFor(jobs, r)' = QueuedFor(Tail(jobs), r)
      BY <2>1 DEF QueuedFor
    <3> QED
      BY <3>1, <3>2
  <2>3. TakenFor(workerPC, job, r)' = TakenFor(workerPC, job, r) + Same(Head(jobs), r)
    <3>1. /\ workerPC[w] # "taken" /\ workerPC'[w] = "taken" /\ job'[w] = Head(jobs)
          /\ \A v \in Workers \ {w} : workerPC'[v] = workerPC[v]
          /\ \A v \in Workers \ {w} : job'[v] = job[v]
      BY <1>1, <2>1
    <3>2. TakenFor(workerPC', job', r) = TakenFor(workerPC, job, r) + Same(job'[w], r)
      BY ONLY <3>1, w \in Workers, TakenJoins
    <3> QED
      BY <3>1, <3>2 DEF TakenFor
  <2>4. TurnsOf(reqIdx, NumReqs, r)' = TurnsOf(reqIdx, NumReqs, r)
    BY <2>1 DEF TurnsOf
  <2>5. Same(Head(jobs), r) \in Nat
    BY DEF Same
  <2> QED
    BY <1>1, <1>2, <1>3, <2>1, <2>2, <2>3, <2>4, <2>5 DEF RequestInTurn
<1>8. ASSUME NEW w \in Workers, StartInvoke(w) PROVE RequestInTurn(r)'
  <2>1. /\ workerPC[w] = "taken" /\ workerPC' = [workerPC EXCEPT ![w] = "invoking"]
        /\ invoked' = [invoked EXCEPT ![job[w]] = @ + 1]
        /\ UNCHANGED <<job, jobs, reqIdx>>
    BY <1>8 DEF StartInvoke, Goto, queueVars, mainVars
  <2>2. TakenFor(workerPC, job, r) = TakenFor(workerPC, job, r)' + Same(job[w], r)
    <3>1. /\ workerPC[w] = "taken" /\ workerPC'[w] # "taken"
          /\ \A v \in Workers \ {w} : workerPC'[v] = workerPC[v]
      BY <1>1, <2>1
    <3>2. TakenFor(workerPC, job, r) = TakenFor(workerPC', job, r) + Same(job[w], r)
      BY <3>1, TakenLeaves
    <3> QED
      BY <2>1, <3>2 DEF TakenFor
  <2>3. invoked'[r] = invoked[r] + Same(job[w], r)
    BY <1>1, <2>1 DEF Same
  <2>4. /\ QueuedFor(jobs, r)' = QueuedFor(jobs, r)
        /\ TurnsOf(reqIdx, NumReqs, r)' = TurnsOf(reqIdx, NumReqs, r)
    BY <2>1 DEF QueuedFor, TurnsOf
  <2>5. Same(job[w], r) \in Nat
    BY DEF Same
  <2> QED
    BY <1>1, <1>2, <1>3, <1>4, <2>2, <2>3, <2>4, <2>5 DEF RequestInTurn
<1>9. ASSUME NEW w \in Workers,
             LeaveRange(w) \/ InvokeReturns(w) \/ LeaveInflight(w) \/ CountOutcome(w)
             \/ RecordOutcome(w)
      PROVE  RequestInTurn(r)'
  <2>1. PICK from, to :
          Goto(w, from, to) /\ from # "taken" /\ to # "taken"
    BY <1>9 DEF LeaveRange, InvokeReturns, LeaveInflight, CountOutcome, RecordOutcome
  <2>2. UNCHANGED <<invoked, jobs, reqIdx>> /\ (\A v \in Workers \ {w} : job'[v] = job[v])
    BY <1>1, <1>9 DEF LeaveRange, InvokeReturns, LeaveInflight, CountOutcome, RecordOutcome,
                      mainVars, queueVars
  <2>3. /\ \A v \in Workers : workerPC'[v] = "taken" <=> workerPC[v] = "taken"
        /\ \A v \in Workers : workerPC[v] = "taken" => job'[v] = job[v]
    BY <1>1, <2>1, <2>2 DEF Goto
  <2> QED
    BY <1>5, <2>2, <2>3
<1>10. CASE SpawnInNext \/ NextArrival \/ Record \/ CountSent \/ CloseJobs \/ StopReporter
            \/ Summarise \/ Warn \/ CloseJSONL \/ Tick \/ Reporter \/ UNCHANGED vars
  <2>1. UNCHANGED <<invoked, jobs, reqIdx, workerPC, job>>
    BY <1>10 DEF SpawnInNext, NextArrival, Record, CountSent, CloseJobs, StopReporter,
                 Summarise, Warn, CloseJSONL, Tick, Reporter, SwapSent, SwapOK, SwapErr,
                 CopyLatencies, EmitRow, LeaveReporter, vars, mainVars, queueVars, workerVars
  <2> QED
    BY <1>5, <2>1
<1> QED
  BY <1>6, <1>7, <1>8, <1>9, <1>10 DEF Next, Dispatcher, Worker, Exited

LEMMA CallsInit == Init => CallsInTurn
<1> SUFFICES ASSUME Init PROVE CallsInTurn
  OBVIOUS
<1>1. NumConns \in Nat \ {0}
  BY SendPipelineAssumption
<1>2. Started = 0
  <2>1. Taken = {}
    BY DEF Init, Taken
  <2> QED
    BY <2>1, EmptySeq, FS_EmptySet DEF Init, Started
<1>3. connRR = Started % NumConns
  BY <1>1, <1>2 DEF Init
<1>4. ASSUME NEW c \in Connections PROVE carried[c] = TurnsOf(Started, NumConns, c)
  <2>1. 0..(0 - 1) = {}
    OBVIOUS
  <2>2. {k \in 0..(Started - 1) : k % NumConns = c} = {}
    BY <1>2, <2>1
  <2>3. carried[c] = 0
    BY DEF Init, Connections
  <2> QED
    BY <2>2, <2>3, FS_EmptySet DEF TurnsOf
<1> QED
  BY <1>2, <1>3, <1>4 DEF CallsInTurn

\* A call is started by the step that picks its connection, and by no other: a
\* job moves from the dispatcher to the queue to a worker before that.
LEMMA StartedStep ==
  ASSUME TypeOK, [Next]_vars
  PROVE  \/ Started' = Started /\ UNCHANGED <<connRR, carried>>
         \/ /\ \E w \in Workers : StartInvoke(w)
            /\ Started' = Started + 1
<1>1. /\ jobs \in Seq(Requests) /\ Len(jobs) \in Nat /\ reqIdx \in Nat
      /\ workerPC \in [Workers -> WorkerPCs]
  BY LenProperties DEF TypeOK, DispatcherType, WorkerType
<1>2. /\ Taken = At(workerPC, {"taken"}) /\ Taken' = At(workerPC', {"taken"})
      /\ IsFiniteSet(Taken) /\ Cardinality(Taken) \in Nat
  BY SendPipelineAssumption, FS_Subset, FS_CardinalityType DEF Taken, At
<1>3. ASSUME NEW w \in Workers, NEW from \in WorkerPCs, NEW to \in WorkerPCs, Goto(w, from, to)
      PROVE  Cardinality(Taken')
               = Cardinality(Taken) + In(to, {"taken"}) - In(from, {"taken"})
  <2>1. workerPC[w] = from /\ workerPC' = [workerPC EXCEPT ![w] = to]
    BY <1>3 DEF Goto
  <2> QED
    BY <1>1, <1>2, <2>1, MoveCount
<1>4. CASE Enqueue
  <2>1. /\ Len(jobs') = Len(jobs) + 1 /\ reqIdx' = reqIdx + 1
        /\ UNCHANGED <<workerPC, connRR, carried>>
    <3>1. reqIdx % NumReqs \in Requests
      BY <1>1, SendPipelineAssumption DEF Requests
    <3> QED
      BY <1>1, <1>4, <3>1, AppendProperties DEF Enqueue, workerVars
  <2>2. Taken' = Taken
    BY <2>1 DEF Taken
  <2> QED
    BY <1>1, <1>2, <2>1, <2>2 DEF Started
<1>5. ASSUME NEW w \in Workers, TakeJob(w)
      PROVE  Started' = Started /\ UNCHANGED <<connRR, carried>>
  <2>1. Cardinality(Taken') = Cardinality(Taken) + In("taken", {"taken"}) - In("range", {"taken"})
    BY <1>3, <1>5 DEF TakeJob, WorkerPCs
  <2>2. Cardinality(Taken') = Cardinality(Taken) + 1
    BY <1>2, <2>1 DEF In
  <2>3. Len(jobs') = Len(jobs) - 1
    BY <1>1, <1>5, HeadTailProperties, EmptySeq DEF TakeJob
  <2>4. UNCHANGED <<reqIdx, connRR, carried>>
    BY <1>5 DEF TakeJob, mainVars
  <2> QED
    BY <1>1, <1>2, <2>2, <2>3, <2>4 DEF Started
<1>6. ASSUME NEW w \in Workers, StartInvoke(w) PROVE Started' = Started + 1
  <2>1. Cardinality(Taken')
          = Cardinality(Taken) + In("invoking", {"taken"}) - In("taken", {"taken"})
    BY <1>3, <1>6 DEF StartInvoke, WorkerPCs
  <2>2. Cardinality(Taken') = Cardinality(Taken) - 1
    BY <1>2, <2>1 DEF In
  <2>3. UNCHANGED <<jobs, reqIdx>>
    BY <1>6 DEF StartInvoke, mainVars, queueVars
  <2> QED
    BY <1>1, <1>2, <2>2, <2>3 DEF Started
<1>7. ASSUME NEW w \in Workers,
             LeaveRange(w) \/ InvokeReturns(w) \/ LeaveInflight(w) \/ CountOutcome(w)
             \/ RecordOutcome(w)
      PROVE  Started' = Started /\ UNCHANGED <<connRR, carried>>
  <2>1. PICK from, to : Goto(w, from, to) /\ from # "taken" /\ to # "taken"
    BY <1>7 DEF LeaveRange, InvokeReturns, LeaveInflight, CountOutcome, RecordOutcome
  <2>2. Taken' = Taken
    BY <1>1, <2>1 DEF Taken, Goto
  <2>3. UNCHANGED <<jobs, reqIdx, connRR, carried>>
    BY <1>7 DEF LeaveRange, InvokeReturns, LeaveInflight, CountOutcome, RecordOutcome,
                mainVars, queueVars
  <2> QED
    BY <2>2, <2>3 DEF Started
<1>8. CASE SpawnInNext \/ NextArrival \/ Record \/ CountSent \/ CloseJobs \/ StopReporter
           \/ Summarise \/ Warn \/ CloseJSONL \/ Tick \/ Reporter \/ UNCHANGED vars
  <2>1. UNCHANGED <<jobs, reqIdx, workerPC, connRR, carried>>
    BY <1>8 DEF SpawnInNext, NextArrival, Record, CountSent, CloseJobs, StopReporter,
                Summarise, Warn, CloseJSONL, Tick, Reporter, SwapSent, SwapOK, SwapErr,
                CopyLatencies, EmitRow, LeaveReporter, vars, mainVars, queueVars, workerVars
  <2> QED
    BY <2>1 DEF Started, Taken
<1> QED
  BY <1>4, <1>5, <1>6, <1>7, <1>8 DEF Next, Dispatcher, Worker, Exited

\* The remainder is the only number below m that differs from k by a multiple of m.
LEMMA Remainder ==
  ASSUME NEW k \in Nat, NEW m \in Nat \ {0}
  PROVE  /\ k \div m \in Nat /\ k % m \in 0..(m - 1)
         /\ k = m * (k \div m) + (k % m)
OBVIOUS

LEMMA RemainderUnique ==
  ASSUME NEW k \in Nat, NEW m \in Nat \ {0}, NEW q \in Int, NEW r \in Nat,
         r < m, k = m * q + r
  PROVE  k % m = r
BY SMTT(60)

\* The turn after that of k.
LEMMA NextTurn ==
  ASSUME NEW k \in Nat, NEW m \in Nat \ {0}
  PROVE  (k + 1) % m = ((k % m) + 1) % m
<1> DEFINE q == k \div m
           r == k % m
<1>1. q \in Nat /\ r \in 0..(m - 1) /\ k = m * q + r
  BY Remainder
<1> HIDE DEF q, r
<1>2. CASE r + 1 < m
  <2>1. k + 1 = m * q + (r + 1) /\ r + 1 = m * 0 + (r + 1)
    BY <1>1
  <2>2. (k + 1) % m = r + 1
    BY <1>1, <1>2, <2>1, RemainderUnique
  <2>3. (r + 1) % m = r + 1
    BY <1>1, <1>2, <2>1, RemainderUnique
  <2> QED
    BY <2>2, <2>3 DEF r
<1>3. CASE r + 1 = m
  <2>1. k + 1 = m * (q + 1) + 0 /\ r + 1 = m * 1 + 0
    BY <1>1, <1>3
  <2>2. (k + 1) % m = 0
    BY <1>1, <2>1, RemainderUnique
  <2>3. (r + 1) % m = 0
    BY <1>1, <2>1, RemainderUnique
  <2> QED
    BY <2>2, <2>3 DEF r
<1> QED
  BY <1>1, <1>2, <1>3

LEMMA CallsStep == TypeOK /\ CallsInTurn /\ [Next]_vars => CallsInTurn'
<1> SUFFICES ASSUME TypeOK, CallsInTurn, [Next]_vars PROVE CallsInTurn'
  OBVIOUS
<1>1. /\ Started \in Nat /\ connRR = Started % NumConns /\ NumConns \in Nat \ {0}
      /\ carried \in [Connections -> Nat]
      /\ \A c \in Connections : carried[c] = TurnsOf(Started, NumConns, c)
  BY SendPipelineAssumption DEF CallsInTurn, TypeOK, WorkerType
<1>2. CASE Started' = Started /\ UNCHANGED <<connRR, carried>>
  BY <1>1, <1>2 DEF CallsInTurn, TurnsOf
<1>3. ASSUME NEW w \in Workers, StartInvoke(w), Started' = Started + 1
      PROVE  CallsInTurn'
  <2>1. /\ connRR' = (connRR + 1) % NumConns
        /\ carried' = [carried EXCEPT ![connRR] = @ + 1]
    BY <1>3 DEF StartInvoke
  <2>2. Started' \in Nat /\ connRR' = Started' % NumConns
    <3>1. (Started + 1) % NumConns = ((Started % NumConns) + 1) % NumConns
      BY <1>1, NextTurn
    <3> QED
      BY <1>1, <1>3, <2>1, <3>1
  <2>3. ASSUME NEW c \in Connections PROVE carried'[c] = TurnsOf(Started', NumConns, c)
    <3>1. carried'[c] = carried[c] + Same(connRR, c)
      BY <1>1, <2>1 DEF Same
    <3>2. TurnsOf(Started + 1, NumConns, c)
            = TurnsOf(Started, NumConns, c) + Same(Started % NumConns, c)
      BY <1>1, TurnsNext
    <3> QED
      BY <1>1, <1>3, <3>1, <3>2
  <2> QED
    BY <2>2, <2>3 DEF CallsInTurn, TurnsOf
<1> QED
  BY <1>2, <1>3, StartedStep

\* Requests are sent in strict rotation, and the calls are spread over the
\* connections in strict rotation: request r has been sent as often as its turn
\* has come, but for the jobs queued or just taken, and connection c has carried
\* exactly its turns among the calls started, for any number of workers that take
\* jobs and pick connections in any order.
THEOREM StrictRotation == Spec => []RoundRobin
<1>1. Init => RequestsInTurn /\ CallsInTurn
  BY RequestsInit, CallsInit
<1>2. TypeOK /\ RequestsInTurn /\ CallsInTurn /\ [Next]_vars => RequestsInTurn' /\ CallsInTurn'
  BY RequestsStep, CallsStep
<1>3. RequestsInTurn /\ CallsInTurn => RoundRobin
  BY DEF RoundRobin, ConnectionsInTurn, CallsInTurn, TurnsOf
<1> QED
  BY <1>1, <1>2, <1>3, TypeCorrect, PTL DEF Spec

----------------------------------------------------------------------------
(* Refinement *)

LEMMA RefinementInit == Init => Abstract!Init
BY DEF Init, Abstract!Init, Phase, NoSummary, Abstract!NoReport

LEMMA RefinementStep == IInv /\ [Next]_vars => [Abstract!Next]_(Abstract!vars)
<1> SUFFICES ASSUME IInv, [Next]_vars PROVE [Abstract!Next]_(Abstract!vars)
  OBVIOUS
<1> USE DEF Abstract!vars, Phase
<1>1. CASE Enqueue
  <2>1. Abstract!Accept
    BY <1>1 DEF Enqueue, totals, endVars, Abstract!Accept
  <2> QED
    BY <2>1 DEF Abstract!Next
<1>2. CASE CloseJobs
  <2>1. Abstract!Drain
    BY <1>2 DEF CloseJobs, totals, endVars, Abstract!Drain
  <2> QED
    BY <2>1 DEF Abstract!Next
<1>3. CASE Summarise
  <2>1. totalSent = reqIdx /\ totalOK + totalErr = reqIdx
    BY <1>3, AllCompleted DEF Summarise, IInv, ShutdownOrder
  <2>2. Abstract!Report
    BY <1>3, <2>1 DEF Summarise, totals, Abstract!Report
  <2> QED
    BY <2>2 DEF Abstract!Next
<1>4. ASSUME NEW w \in Workers, CountOutcome(w) PROVE Abstract!Next
  <2>1. totalOK + totalErr < reqIdx
    <3>1. w \in Holding
      BY <1>4 DEF CountOutcome, Goto, Holding
    <3>2. Cardinality(Holding) # 0
      <4>1. IsFiniteSet(Holding)
        BY SendPipelineAssumption, FS_Subset DEF Holding
      <4> QED
        BY <3>1, <4>1, FS_EmptySet
    <3>3. /\ reqIdx \in Nat /\ Len(jobs) \in Nat /\ totalOK \in Nat /\ totalErr \in Nat
          /\ Cardinality(Holding) \in Nat
      BY Quantities, Populations DEF IInv
    <3>4. reqIdx = Len(jobs) + Cardinality(Holding) + totalOK + totalErr
      BY DEF IInv, Ledger
    <3> QED
      BY <3>2, <3>3, <3>4
  <2>2. Abstract!Complete
    BY <1>4, <2>1 DEF CountOutcome, mainVars, endVars, Abstract!Complete
  <2> QED
    BY <2>2 DEF Abstract!Next
<1>5. ASSUME SpawnInNext \/ NextArrival \/ Record \/ CountSent \/ StopReporter \/ Warn
             \/ CloseJSONL
      PROVE  UNCHANGED Abstract!vars
  BY <1>5 DEF SpawnInNext, NextArrival, Record, CountSent, StopReporter, Warn, CloseJSONL,
              mainVars, totals, endVars
<1>6. ASSUME NEW w \in Workers,
             TakeJob(w) \/ LeaveRange(w) \/ StartInvoke(w) \/ InvokeReturns(w)
             \/ LeaveInflight(w) \/ RecordOutcome(w)
      PROVE  UNCHANGED Abstract!vars
  BY <1>6 DEF TakeJob, LeaveRange, StartInvoke, InvokeReturns, LeaveInflight, RecordOutcome,
              mainVars, totals, endVars
<1>7. ASSUME Tick \/ Reporter \/ UNCHANGED vars
      PROVE  UNCHANGED Abstract!vars
  BY <1>7 DEF Tick, Reporter, SwapSent, SwapOK, SwapErr, CopyLatencies, EmitRow, LeaveReporter,
              vars, mainVars, totals, endVars
<1> QED
  BY <1>1, <1>2, <1>3, <1>4, <1>5, <1>6, <1>7 DEF Next, Dispatcher, Worker, Exited

\* Every behaviour of the pipeline is, but for fairness, a behaviour of Replay:
\* each arrival completes once and the report is of exactly the completed ones.
THEOREM ImplementsReplay == Spec => ReplaySafety
<1>1. Init => Abstract!Init
  BY RefinementInit
<1>2. IInv /\ [Next]_vars => [Abstract!Next]_(Abstract!vars)
  BY RefinementStep
<1> QED
  BY <1>1, <1>2, Inductive, PTL DEF Spec, ReplaySafety

=============================================================================
