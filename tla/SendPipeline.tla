---------------------------- MODULE SendPipeline ----------------------------
(***************************************************************************)
(* The send pipeline of main.go: the dispatcher (the main goroutine) takes *)
(* arrivals from the scheduler and puts jobs on a bounded channel, workers *)
(* send them, a reporter emits one telemetry row per tick, and main shuts  *)
(* everything down and prints the summary.                                 *)
(*                                                                         *)
(* One action is one atomic access to shared state: an operation of        *)
(* sync/atomic, a critical section of mu, a channel operation.  Latencies  *)
(* are counted, not measured; an error is known by its message.            *)
(***************************************************************************)
EXTENDS Integers, Sequences, FiniteSets, Functions

CONSTANTS
  Workers,            \* the worker goroutines
  QueueCapacity,      \* cap(jobs)
  NumReqs,            \* requests loaded from the replay file
  NumConns,           \* connections
  Messages,           \* the error messages that an Invoke may return
  MaxDistinctErrors,  \* maxDistinctErrors
  AnalyzerCap,        \* analyzerSampleCap
  Outputs,            \* the outputs asked for: "csv", "jsonl"
  Failing,            \* those of them whose writes may fail
  Bursts,             \* bursts are enabled: Next may emit an onset row
  MaxArrivals,        \* bound: arrivals before the deadline
  MaxTicks,           \* bound: ticks of the one-second ticker
  MaxRows             \* bound: no burst is spawned after so many telemetry rows

ASSUME SendPipelineAssumption ==
  /\ IsFiniteSet(Workers) /\ Workers # {}
  /\ {QueueCapacity, NumReqs, NumConns, MaxDistinctErrors, AnalyzerCap} \subseteq Nat \ {0}
  /\ {MaxArrivals, MaxTicks, MaxRows} \subseteq Nat
  /\ "ok" \notin Messages /\ "none" \notin Messages
  /\ Outputs \subseteq {"csv", "jsonl"} /\ Failing \subseteq Outputs
  /\ Bursts \in BOOLEAN

VARIABLES
  mainPC, reqIdx, jobs, jobsClosed, totalSent,
  workerPC, job, outcome, connRR, inflight, totalOK, totalErr,
  secSent, secOK, secErr,                                    \* latched per tick
  secLatencies, errorCounts, otherErrors, okLat, csv,        \* guarded by mu
  recorded, dropped,                                         \* window analyzer
  reporterPC, row, tickPending, ticks, stop,
  jsonl,
  summary, warned,
  reported,   \* history: the sum of all telemetry rows
  invoked,    \* history: how often each request was sent
  carried     \* history: how many calls each connection was picked for

mainVars     == <<mainPC, reqIdx, totalSent, recorded, dropped>>
queueVars    == <<jobs, jobsClosed>>
workerVars   == <<workerPC, job, outcome, connRR, inflight, invoked, carried>>
totals       == <<totalOK, totalErr>>
secVars      == <<secSent, secOK, secErr>>
muVars       == <<secLatencies, errorCounts, otherErrors, okLat, csv>>
reporterVars == <<reporterPC, row, reported>>
tickerVars   == <<tickPending, ticks>>
endVars      == <<summary, warned>>
vars == <<mainVars, queueVars, workerVars, totals, secVars, muVars, reporterVars,
          tickerVars, stop, jsonl, endVars>>

EmptyRow == [sent |-> 0, ok |-> 0, err |-> 0, lats |-> 0]
NoSummary == [total |-> 0, ok |-> 0, err |-> 0]

Init ==
  /\ mainPC = "next" /\ reqIdx = 0 /\ jobs = <<>> /\ jobsClosed = FALSE /\ totalSent = 0
  /\ workerPC = [w \in Workers |-> "range"]
  /\ job = [w \in Workers |-> 0]
  /\ outcome = [w \in Workers |-> "none"]
  /\ connRR = 0 /\ inflight = 0 /\ totalOK = 0 /\ totalErr = 0
  /\ secSent = 0 /\ secOK = 0 /\ secErr = 0
  /\ secLatencies = 0 /\ errorCounts = <<>> /\ otherErrors = 0 /\ okLat = 0
  /\ \E headerFails \in IF "csv" \in Failing THEN BOOLEAN ELSE {FALSE} :
       csv = [rows |-> 0, err |-> headerFails]
  /\ recorded = 0 /\ dropped = 0
  /\ reporterPC = "select" /\ row = EmptyRow
  /\ tickPending = FALSE /\ ticks = 0 /\ stop = FALSE
  /\ jsonl = [tried |-> 0, rows |-> 0, err |-> FALSE]
  /\ summary = NoSummary /\ warned = {}
  /\ reported = EmptyRow
  /\ invoked = [r \in 0..(NumReqs - 1) |-> 0]
  /\ carried = [c \in 0..(NumConns - 1) |-> 0]

----------------------------------------------------------------------------
(* JSONLWriter.Emit: an error is retained, and an encoder that has failed  *)
(* once fails from then on.  Without a writer Emit is a no-op.             *)

Emit ==
  IF "jsonl" \notin Outputs THEN UNCHANGED jsonl
  ELSE \E lost \in IF jsonl.err THEN {TRUE}
                   ELSE IF "jsonl" \in Failing THEN BOOLEAN ELSE {FALSE} :
         jsonl' = [tried |-> jsonl.tried + 1,
                   rows  |-> IF lost THEN jsonl.rows ELSE jsonl.rows + 1,
                   err   |-> lost]

----------------------------------------------------------------------------
(* The dispatcher *)

\* The loop of scheduler.Next comes to an onset: the burst is spawned, and
\* OnBurstSpawned writes its row from this goroutine.  There may be any number of
\* them before Next returns, whether or not it then has an arrival.
SpawnInNext ==
  /\ mainPC = "next"
  /\ Bursts /\ jsonl.tried < MaxRows
  /\ Emit
  /\ UNCHANGED <<mainVars, queueVars, workerVars, totals, secVars, muVars, reporterVars,
                 tickerVars, stop, endVars>>

\* scheduler.Next returns an arrival.
NextArrival ==
  /\ mainPC = "next"
  /\ reqIdx < MaxArrivals
  /\ mainPC' = "record"
  /\ UNCHANGED <<reqIdx, totalSent, recorded, dropped, queueVars, workerVars, totals,
                 secVars, muVars, reporterVars, tickerVars, stop, jsonl, endVars>>

\* analyzer.Record, after the sleep until the arrival is due.
Record ==
  /\ mainPC = "record"
  /\ IF recorded < AnalyzerCap
     THEN recorded' = recorded + 1 /\ UNCHANGED dropped
     ELSE dropped' = dropped + 1 /\ UNCHANGED recorded
  /\ mainPC' = "enqueue"
  /\ UNCHANGED <<reqIdx, totalSent, queueVars, workerVars, totals, secVars, muVars,
                 reporterVars, tickerVars, stop, jsonl, endVars>>

\* Mutant: jobs <- job does not wait for room.
Enqueue_Unbounded ==
  /\ mainPC = "enqueue"
  /\ jobs' = Append(jobs, reqIdx % NumReqs)
  /\ reqIdx' = reqIdx + 1
  /\ mainPC' = "count"
  /\ UNCHANGED <<totalSent, recorded, dropped, jobsClosed, workerVars, totals, secVars,
                 muVars, reporterVars, tickerVars, stop, jsonl, endVars>>

\* Mutant: the index is advanced before the request is picked.
Enqueue_OffByOne ==
  /\ mainPC = "enqueue"
  /\ Len(jobs) < QueueCapacity
  /\ jobs' = Append(jobs, (reqIdx + 1) % NumReqs)
  /\ reqIdx' = reqIdx + 1
  /\ mainPC' = "count"
  /\ UNCHANGED <<totalSent, recorded, dropped, jobsClosed, workerVars, totals, secVars,
                 muVars, reporterVars, tickerVars, stop, jsonl, endVars>>

\* jobs <- job blocks while the channel is full.
Enqueue ==
  /\ mainPC = "enqueue"
  /\ Len(jobs) < QueueCapacity
  /\ jobs' = Append(jobs, reqIdx % NumReqs)
  /\ reqIdx' = reqIdx + 1
  /\ mainPC' = "count"
  /\ UNCHANGED <<totalSent, recorded, dropped, jobsClosed, workerVars, totals, secVars,
                 muVars, reporterVars, tickerVars, stop, jsonl, endVars>>

\* The job is counted only after it is on the channel.
CountSent ==
  /\ mainPC = "count"
  /\ totalSent' = totalSent + 1
  /\ secSent' = secSent + 1
  /\ mainPC' = "next"
  /\ UNCHANGED <<reqIdx, recorded, dropped, queueVars, workerVars, totals, secOK, secErr,
                 muVars, reporterVars, tickerVars, stop, jsonl, endVars>>

\* scheduler.Next returned ok = false.
CloseJobs ==
  /\ mainPC = "next"
  /\ jobsClosed' = TRUE
  /\ mainPC' = "wait"
  /\ UNCHANGED <<reqIdx, jobs, totalSent, recorded, dropped, workerVars, totals, secVars,
                 muVars, reporterVars, tickerVars, stop, jsonl, endVars>>

\* Mutant: main does not wait for the workers.
StopReporter_NoWait ==
  /\ mainPC = "wait"
  /\ stop' = TRUE
  /\ mainPC' = "join"
  /\ UNCHANGED <<reqIdx, totalSent, recorded, dropped, queueVars, workerVars, totals,
                 secVars, muVars, reporterVars, tickerVars, jsonl, endVars>>

\* Mutant: main waits for the reporter without telling it to stop.
StopReporter_NoSignal ==
  /\ mainPC = "wait"
  /\ \A w \in Workers : workerPC[w] = "done"
  /\ mainPC' = "join"
  /\ UNCHANGED <<reqIdx, totalSent, recorded, dropped, queueVars, workerVars, totals,
                 secVars, muVars, reporterVars, tickerVars, stop, jsonl, endVars>>

\* workersWG.Wait returns; close(reporterStop).
StopReporter ==
  /\ mainPC = "wait"
  /\ \A w \in Workers : workerPC[w] = "done"
  /\ stop' = TRUE
  /\ mainPC' = "join"
  /\ UNCHANGED <<reqIdx, totalSent, recorded, dropped, queueVars, workerVars, totals,
                 secVars, muVars, reporterVars, tickerVars, jsonl, endVars>>

\* reporterWG.Wait returns; the CSV is closed (which may fail), the totals are
\* read and printed, and the summary row is written.
Summarise ==
  /\ mainPC = "join"
  /\ reporterPC = "done"
  /\ \E fails \in IF "csv" \in Failing THEN BOOLEAN ELSE {FALSE} :
       csv' = [csv EXCEPT !.err = @ \/ fails]
  /\ summary' = [total |-> totalSent, ok |-> totalOK, err |-> totalErr]
  /\ Emit
  /\ mainPC' = "warn"
  /\ UNCHANGED <<reqIdx, totalSent, recorded, dropped, queueVars, workerVars, totals,
                 secVars, secLatencies, errorCounts, otherErrors, okLat, reporterVars,
                 tickerVars, stop, warned>>

\* The warnings of the end: dropped samples, lost telemetry, lost CSV rows.
Warn ==
  /\ mainPC = "warn"
  /\ warned' = (IF dropped > 0 THEN {"analyzer"} ELSE {})
               \cup (IF jsonl.err THEN {"jsonl"} ELSE {})
               \cup (IF csv.err THEN {"csv"} ELSE {})
  /\ mainPC' = "close"
  /\ UNCHANGED <<reqIdx, totalSent, recorded, dropped, queueVars, workerVars, totals,
                 secVars, muVars, reporterVars, tickerVars, stop, jsonl, summary>>

\* The deferred close of the JSONL file has a warning of its own.
CloseJSONL ==
  /\ mainPC = "close"
  /\ \E fails \in IF "jsonl" \in Failing THEN BOOLEAN ELSE {FALSE} :
       warned' = IF fails THEN warned \cup {"jsonl"} ELSE warned
  /\ mainPC' = "exited"
  /\ UNCHANGED <<reqIdx, totalSent, recorded, dropped, queueVars, workerVars, totals,
                 secVars, muVars, reporterVars, tickerVars, stop, jsonl, summary>>

Dispatcher == SpawnInNext \/ NextArrival \/ Record \/ Enqueue \/ CountSent
              \/ CloseJobs \/ StopReporter \/ Summarise \/ Warn \/ CloseJSONL

----------------------------------------------------------------------------
(* The workers *)

Goto(w, from, to) == /\ workerPC[w] = from
                     /\ workerPC' = [workerPC EXCEPT ![w] = to]

\* Mutant: a worker looks at the next job without taking it.
TakeJob_Peek(w) ==
  /\ Goto(w, "range", "taken")
  /\ jobs # <<>>
  /\ job' = [job EXCEPT ![w] = Head(jobs)]
  /\ UNCHANGED <<outcome, connRR, inflight, invoked, carried, queueVars, mainVars, totals,
                 secVars, muVars, reporterVars, tickerVars, stop, jsonl, endVars>>

\* for job := range jobs
TakeJob(w) ==
  /\ Goto(w, "range", "taken")
  /\ jobs # <<>>
  /\ job' = [job EXCEPT ![w] = Head(jobs)]
  /\ jobs' = Tail(jobs)
  /\ UNCHANGED <<outcome, connRR, inflight, invoked, carried, jobsClosed, mainVars, totals,
                 secVars, muVars, reporterVars, tickerVars, stop, jsonl, endVars>>

\* The range loop ends when the channel is closed and drained.
LeaveRange(w) ==
  /\ Goto(w, "range", "done")
  /\ jobsClosed /\ jobs = <<>>
  /\ UNCHANGED <<job, outcome, connRR, inflight, invoked, carried, queueVars, mainVars, totals,
                 secVars, muVars, reporterVars, tickerVars, stop, jsonl, endVars>>

\* Mutant: the connection is picked by the request and not by the counter.
StartInvoke_ByRequest(w) ==
  /\ Goto(w, "taken", "invoking")
  /\ connRR' = (connRR + 1) % NumConns
  /\ inflight' = inflight + 1
  /\ invoked' = [invoked EXCEPT ![job[w]] = @ + 1]
  /\ carried' = [carried EXCEPT ![job[w] % NumConns] = @ + 1]
  /\ UNCHANGED <<job, outcome, queueVars, mainVars, totals, secVars, muVars, reporterVars,
                 tickerVars, stop, jsonl, endVars>>

\* The connection is picked, inflight goes up, Invoke starts.
StartInvoke(w) ==
  /\ Goto(w, "taken", "invoking")
  /\ connRR' = (connRR + 1) % NumConns
  /\ inflight' = inflight + 1
  /\ invoked' = [invoked EXCEPT ![job[w]] = @ + 1]
  /\ carried' = [carried EXCEPT ![connRR] = @ + 1]
  /\ UNCHANGED <<job, outcome, queueVars, mainVars, totals, secVars, muVars, reporterVars,
                 tickerVars, stop, jsonl, endVars>>

\* Invoke returns, at the latest with the error of the request timeout.
InvokeReturns(w) ==
  /\ Goto(w, "invoking", "returned")
  /\ \E result \in {"ok"} \cup Messages : outcome' = [outcome EXCEPT ![w] = result]
  /\ UNCHANGED <<job, connRR, inflight, invoked, carried, queueVars, mainVars, totals, secVars,
                 muVars, reporterVars, tickerVars, stop, jsonl, endVars>>

LeaveInflight(w) ==
  /\ Goto(w, "returned", "landed")
  /\ inflight' = inflight - 1
  /\ UNCHANGED <<job, outcome, connRR, invoked, carried, queueVars, mainVars, totals, secVars,
                 muVars, reporterVars, tickerVars, stop, jsonl, endVars>>

CountOutcome(w) ==
  /\ Goto(w, "landed", "counted")
  /\ IF outcome[w] = "ok"
     THEN secOK' = secOK + 1 /\ totalOK' = totalOK + 1 /\ UNCHANGED <<secErr, totalErr>>
     ELSE secErr' = secErr + 1 /\ totalErr' = totalErr + 1 /\ UNCHANGED <<secOK, totalOK>>
  /\ UNCHANGED <<job, outcome, connRR, inflight, invoked, carried, queueVars, mainVars, secSent,
                 muVars, reporterVars, tickerVars, stop, jsonl, endVars>>

\* Mutant: the map takes one message too many.
CountError_OffByOne(msg) ==
  IF msg \in DOMAIN errorCounts \/ Cardinality(DOMAIN errorCounts) <= MaxDistinctErrors
  THEN /\ errorCounts' = [m \in DOMAIN errorCounts \cup {msg} |->
                            (IF m \in DOMAIN errorCounts THEN errorCounts[m] ELSE 0)
                            + (IF m = msg THEN 1 ELSE 0)]
       /\ UNCHANGED otherErrors
  ELSE otherErrors' = otherErrors + 1 /\ UNCHANGED errorCounts

\* The error map takes a new message only while it is not full.
CountError(msg) ==
  IF msg \in DOMAIN errorCounts \/ Cardinality(DOMAIN errorCounts) < MaxDistinctErrors
  THEN /\ errorCounts' = [m \in DOMAIN errorCounts \cup {msg} |->
                            (IF m \in DOMAIN errorCounts THEN errorCounts[m] ELSE 0)
                            + (IF m = msg THEN 1 ELSE 0)]
       /\ UNCHANGED otherErrors
  ELSE otherErrors' = otherErrors + 1 /\ UNCHANGED errorCounts

\* Mutant: the error of a failed row is ignored.
WriteCSVRow_ErrorIgnored ==
  IF "csv" \notin Outputs THEN UNCHANGED csv
  ELSE \E fails \in IF "csv" \in Failing THEN BOOLEAN ELSE {FALSE} :
         csv' = [rows |-> IF fails THEN csv.rows ELSE csv.rows + 1,
                 err  |-> csv.err]

\* One row per completion; a failed row is lost, the first error is kept.
WriteCSVRow ==
  IF "csv" \notin Outputs THEN UNCHANGED csv
  ELSE \E fails \in IF "csv" \in Failing THEN BOOLEAN ELSE {FALSE} :
         csv' = [rows |-> IF fails THEN csv.rows ELSE csv.rows + 1,
                 err  |-> csv.err \/ fails]

\* The critical section of mu.  The worker forgets its job and its outcome.
RecordOutcome(w) ==
  /\ Goto(w, "counted", "range")
  /\ secLatencies' = secLatencies + 1
  /\ IF outcome[w] = "ok"
     THEN okLat' = okLat + 1 /\ UNCHANGED <<errorCounts, otherErrors>>
     ELSE CountError(outcome[w]) /\ UNCHANGED okLat
  /\ WriteCSVRow
  /\ outcome' = [outcome EXCEPT ![w] = "none"]
  /\ job' = [job EXCEPT ![w] = 0]
  /\ UNCHANGED <<connRR, inflight, invoked, carried, queueVars, mainVars, totals, secVars,
                 reporterVars, tickerVars, stop, jsonl, endVars>>

Worker(w) == TakeJob(w) \/ LeaveRange(w) \/ StartInvoke(w) \/ InvokeReturns(w)
             \/ LeaveInflight(w) \/ CountOutcome(w) \/ RecordOutcome(w)

----------------------------------------------------------------------------
(* The reporter and its ticker *)

\* The ticker's channel holds one tick; a tick that finds it full is dropped.
Tick ==
  /\ ticks < MaxTicks /\ mainPC # "exited"
  /\ ticks' = ticks + 1
  /\ tickPending' = TRUE
  /\ UNCHANGED <<mainVars, queueVars, workerVars, totals, secVars, muVars, reporterVars, stop,
                 jsonl, endVars>>

\* case <-ticker.C, up to the first swap.
SwapSent ==
  /\ reporterPC = "select" /\ tickPending
  /\ tickPending' = FALSE
  /\ row' = [row EXCEPT !.sent = secSent]
  /\ secSent' = 0
  /\ reporterPC' = "swapOK"
  /\ UNCHANGED <<ticks, reported, mainVars, queueVars, workerVars, totals, secOK, secErr, muVars,
                 stop, jsonl, endVars>>

SwapOK ==
  /\ reporterPC = "swapOK"
  /\ row' = [row EXCEPT !.ok = secOK]
  /\ secOK' = 0
  /\ reporterPC' = "swapErr"
  /\ UNCHANGED <<reported, mainVars, queueVars, workerVars, totals, secSent, secErr, muVars,
                 tickerVars, stop, jsonl, endVars>>

\* Mutant: load and store instead of a swap, the store one step late.
SwapErr_LateReset ==
  /\ reporterPC = "swapErr"
  /\ row' = [row EXCEPT !.err = secErr]
  /\ secErr' = 0 /\ secOK' = 0
  /\ reporterPC' = "copyLatencies"
  /\ UNCHANGED <<reported, mainVars, queueVars, workerVars, totals, secSent, muVars,
                 tickerVars, stop, jsonl, endVars>>

SwapErr ==
  /\ reporterPC = "swapErr"
  /\ row' = [row EXCEPT !.err = secErr]
  /\ secErr' = 0
  /\ reporterPC' = "copyLatencies"
  /\ UNCHANGED <<reported, mainVars, queueVars, workerVars, totals, secSent, secOK, muVars,
                 tickerVars, stop, jsonl, endVars>>

CopyLatencies ==
  /\ reporterPC = "copyLatencies"
  /\ row' = [row EXCEPT !.lats = secLatencies]
  /\ secLatencies' = 0
  /\ reporterPC' = "emit"
  /\ UNCHANGED <<reported, mainVars, queueVars, workerVars, totals, secVars, errorCounts,
                 otherErrors, okLat, csv, tickerVars, stop, jsonl, endVars>>

\* The row is printed and written.
EmitRow ==
  /\ reporterPC = "emit"
  /\ Emit
  /\ reported' = [f \in DOMAIN row |-> reported[f] + row[f]]
  /\ row' = EmptyRow
  /\ reporterPC' = "select"
  /\ UNCHANGED <<mainVars, queueVars, workerVars, totals, secVars, muVars, tickerVars, stop,
                 endVars>>

\* case <-reporterStop, which select may choose even when a tick is pending.
LeaveReporter ==
  /\ reporterPC = "select" /\ stop
  /\ reporterPC' = "done"
  /\ UNCHANGED <<row, reported, mainVars, queueVars, workerVars, totals, secVars, muVars,
                 tickerVars, stop, jsonl, endVars>>

Reporter == SwapSent \/ SwapOK \/ SwapErr \/ CopyLatencies \/ EmitRow \/ LeaveReporter

\* The process has ended; the only state in which nothing else may happen.
Exited == mainPC = "exited" /\ UNCHANGED vars

Next == Dispatcher \/ (\E w \in Workers : Worker(w)) \/ Tick \/ Reporter \/ Exited

\* The Go scheduler runs every goroutine that can run; a pending stop is
\* chosen by select in the end, since it chooses fairly among ready cases.
Spec == /\ Init /\ [][Next]_vars
        /\ WF_vars(Dispatcher)
        /\ \A w \in Workers : WF_vars(Worker(w))
        /\ WF_vars(Reporter) /\ SF_vars(LeaveReporter)

=============================================================================
