------------------------- MODULE SendPipelineProps -------------------------
(* The properties of the send pipeline. *)
EXTENDS SendPipeline

MainPCs == {"next", "record", "enqueue", "count", "wait", "join", "warn", "close", "exited"}
WorkerPCs == {"range", "taken", "invoking", "returned", "landed", "counted", "done"}
ReporterPCs == {"select", "swapOK", "swapErr", "copyLatencies", "emit", "done"}
Requests == 0..(NumReqs - 1)
Connections == 0..(NumConns - 1)

DispatcherType ==
  /\ mainPC \in MainPCs /\ reqIdx \in Nat /\ totalSent \in Nat
  /\ jobs \in Seq(Requests) /\ Len(jobs) <= QueueCapacity /\ jobsClosed \in BOOLEAN
  /\ recorded \in 0..AnalyzerCap /\ dropped \in Nat

WorkerType ==
  /\ workerPC \in [Workers -> WorkerPCs]
  /\ job \in [Workers -> Requests]
  /\ outcome \in [Workers -> {"none", "ok"} \cup Messages]
  /\ connRR \in Connections /\ inflight \in Int
  /\ totalOK \in Nat /\ totalErr \in Nat
  /\ invoked \in [Requests -> Nat] /\ carried \in [Connections -> Nat]

LatchType ==
  /\ secSent \in Nat /\ secOK \in Nat /\ secErr \in Nat /\ secLatencies \in Nat
  /\ otherErrors \in Nat /\ okLat \in Nat
  /\ DOMAIN errorCounts \subseteq Messages
  /\ \A m \in DOMAIN errorCounts : errorCounts[m] \in Nat
  /\ csv \in [rows : Nat, err : BOOLEAN]

ReporterType ==
  /\ reporterPC \in ReporterPCs
  /\ row \in [sent : Nat, ok : Nat, err : Nat, lats : Nat]
  /\ reported \in [sent : Nat, ok : Nat, err : Nat, lats : Nat]
  /\ tickPending \in BOOLEAN /\ ticks \in 0..MaxTicks /\ stop \in BOOLEAN
  /\ jsonl \in [tried : Nat, rows : Nat, err : BOOLEAN]

EndType == /\ summary \in [total : Nat, ok : Nat, err : Nat]
           /\ warned \subseteq {"analyzer", "jsonl", "csv"}

TypeOK == DispatcherType /\ WorkerType /\ LatchType /\ ReporterType /\ EndType

\* Workers that hold a job whose outcome is not counted yet.
Holding == {w \in Workers : workerPC[w] \in {"taken", "invoking", "returned", "landed"}}
\* Workers that have counted an outcome and not yet recorded it under mu.
Unrecorded == {w \in Workers : workerPC[w] = "counted"}
UnrecordedOK == {w \in Unrecorded : outcome[w] = "ok"}

\* An arrival that the dispatcher has put on the channel is in exactly one
\* place: queued, held by one worker, or completed and counted.  It is counted
\* as sent before the next one is put on the channel, so at any moment at most
\* one completion can be ahead of the number of requests sent.
Ledger ==
  /\ reqIdx = totalSent + (IF mainPC = "count" THEN 1 ELSE 0)
  /\ reqIdx = Len(jobs) + Cardinality(Holding) + totalOK + totalErr
  /\ inflight = Cardinality({w \in Workers : workerPC[w] \in {"invoking", "returned"}})

\* Workers that have received a job and not yet started its call.
Taken == {w \in Workers : workerPC[w] = "taken"}

\* The calls started: the jobs that have left the queue, but for those just taken.
Started == reqIdx - Len(jobs) - Cardinality(Taken)

\* Request r has been sent as often as its turn has come, but for the jobs that
\* are queued or just taken.
RequestsInTurn ==
  \A r \in Requests :
    invoked[r] + Cardinality({i \in 1..Len(jobs) : jobs[i] = r})
      + Cardinality({w \in Taken : job[w] = r})
      = Cardinality({k \in 0..(reqIdx - 1) : k % NumReqs = r})

\* Connection c has carried as many calls as there are turns of c among the calls
\* started, whichever worker started them and whatever they sent.
ConnectionsInTurn ==
  \A c \in Connections :
    carried[c] = Cardinality({k \in 0..(Started - 1) : k % NumConns = c})

\* Round robin survives the queue and the workers: the requests are sent in
\* strict rotation, and the calls are spread over the connections in strict
\* rotation, although workers take jobs and pick connections in any order.
RoundRobin == RequestsInTurn /\ ConnectionsInTurn

\* Whatever the interleaving of the reporter's swaps with the counting, every
\* dispatch, completion and latency is in exactly one telemetry row, in the
\* row being gathered, or still latched.
TelemetryConserved ==
  /\ reported.sent + row.sent + secSent = totalSent
  /\ reported.ok + row.ok + secOK = totalOK
  /\ reported.err + row.err + secErr = totalErr
  /\ reported.lats + row.lats + secLatencies + Cardinality(Unrecorded) = totalOK + totalErr

\* The bounded error map loses no error: each is filed under its message or,
\* once the map is full, under "other"; a success is never filed as an error.
ErrorsFiled ==
  /\ FoldFunction(+, 0, errorCounts) + otherErrors
       + Cardinality(Unrecorded \ UnrecordedOK) = totalErr
  /\ okLat + Cardinality(UnrecordedOK) = totalOK
  /\ Cardinality(DOMAIN errorCounts) <= MaxDistinctErrors
  /\ otherErrors > 0 => Cardinality(DOMAIN errorCounts) = MaxDistinctErrors

\* From the moment the summary is printed nothing it reports can change: no
\* goroutine is left, and it agrees with the error map, the latencies and the
\* window analyzer, which were filled independently.
SummaryFinal ==
  mainPC \in {"warn", "close", "exited"} =>
    /\ \A w \in Workers : workerPC[w] = "done"
    /\ reporterPC = "done"
    /\ jobs = <<>> /\ inflight = 0
    /\ summary = [total |-> reqIdx, ok |-> okLat,
                  err |-> FoldFunction(+, 0, errorCounts) + otherErrors]
    /\ summary.total = summary.ok + summary.err
    /\ recorded + dropped = summary.total

\* Lost output is never silent: if the run exits without a warning, every
\* completion has its CSV row and every telemetry row was written.
NoSilentLoss ==
  mainPC = "exited" =>
    /\ ("csv" \in Outputs /\ "csv" \notin warned) => csv.rows = totalSent
    /\ "jsonl" \notin warned => jsonl.rows = jsonl.tried
    /\ "analyzer" \notin warned => recorded = totalSent

----------------------------------------------------------------------------
(* Liveness and refinement *)

\* The run comes to its end: shutdown never deadlocks.
RunEnds == <>(mainPC = "exited")

\* The pipeline implements Replay.
Phase == CASE mainPC \in {"warn", "close", "exited"} -> "over"
           [] mainPC \in {"wait", "join"} -> "draining"
           [] OTHER -> "running"

Abstract == INSTANCE Replay WITH
              accepted <- reqIdx, ok <- totalOK, failed <- totalErr,
              phase <- Phase, report <- summary

ReplaySpec == Abstract!Spec

\* Its safety part: every step is a step of Replay or changes nothing there.
ReplaySafety == Abstract!Init /\ [][Abstract!Next]_(Abstract!vars)

=============================================================================
