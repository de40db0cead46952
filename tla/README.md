# Verification of go-replayer

`go-replayer` sends recorded gRPC requests at a target with a Poisson arrival
process and optional bursts. This directory holds TLA+ models of its
components, the TLC runs that check them on small instances, and TLAPS proofs
of their central invariants for every instance.

## 1. The system

| Component | Source | State | Operations |
|---|---|---|---|
| Arrival scheduler | `scheduler.go` | Poisson streams (heap), next burst onset, pending spikes, six atomic counters | `NewSchedulerWithReplicas`, `Next`, `DrainCounters`, `SnapshotCounters` |
| Send pipeline | `main.go:717-1069` | `jobs` channel, per-second and total atomic counters, `mu` with latencies, error map and CSV | dispatcher loop, worker goroutines, reporter goroutine, shutdown and summary |
| Metrics writer | `metrics.go:244-371` | encoder, first error | `Emit` and the three row writers, `Err`, close |
| Window analyzer | `metrics.go:20-194` | recorded timestamps, dropped count | `Record`, `Dropped`, `Summary` |
| Latency statistics | `main.go:108-159`, `diffSampler` of the parity check | count, sum, min, max, reservoir | `add`, `summary` |
| Replay file loader | `main.go:169-248`, parity check | none | `loadRequests` |
| Startup, takeover | `main.go:250-758` | the flags | takeover discovery, validation, loading, dial options, outputs |
| Parity check | `cmd/grpc-parity-check/main.go` | counters, list of differences | send every request to two targets, compare, verdict |
| Float comparison | `cmd/grpc-parity-check/proto_compare.go` | none | `compareProtoFloats` |
| Gap target | `cmd/grpc-gap-target/main.go` | recorded arrivals, dropped count | stream handler, graceful stop, gap summary |
| Dummy target | `cmd/grpc-dummy-target/main.go` | none | answer |

How they interact. The main goroutine calls `Scheduler.Next`, sleeps until the
arrival is due, tells the window analyzer, puts a job on the bounded channel
`jobs` and counts it. `Next` calls back `OnBurstSpawned`, which writes a JSONL
row. Workers take jobs, call `Invoke` with a timeout, count the outcome with
atomics and then enter the critical section of `mu`. The reporter wakes up on
every tick of a one-second ticker, swaps the per-second counters, copies the
latencies under `mu`, drains the scheduler's counters and writes a row. At the
end main closes `jobs`, waits for the workers, stops the reporter, waits for
it, and reads everything for the summary. The other programs are separate
processes that see only the replay file or the requests.

What is hard here:

* bursts that overlap are merged into a buffer of which `Next` reads only the
  head; time must not go backwards, nothing may be lost, and the schedule must
  end (also when the last burst runs past the deadline, and when absorbing
  bursts leave no base rate);
* three goroutine kinds touch the counters with separate atomic operations, so
  rows of telemetry are gathered while they change;
* shutdown is a chain of waits with a full queue, requests in flight and a
  pending tick;
* output may fail at any write or close, while the run goes on;
* a full queue holds the dispatcher back, which must catch up without skipping
  or hurrying an arrival;
* the gap target's handlers take time stamps outside the lock that records them,
  may still run when the summary is made, and wait for clients without a time limit;
* flags, takeover overrides and discovered files set the same variables, and a
  start may be refused at any of some twenty steps;
* products of durations and indexes may exceed int64.

What makes each component correct is stated by the properties of section 3; the
full list of hazards, each with its line, is in `PROJECT.json`.

## 2. Modules

| Module | Models |
|---|---|
| `TimeSeq` | sequences of time stamps; `sort.Slice` by ranks |
| `Scheduler` | `scheduler.go` and its one concurrent caller, the reporter's drain |
| `SchedulerProps` | the scheduler's properties |
| `ArrivalStream` | abstract: what a caller of `Next` may rely on |
| `MCScheduler` | values of `Gaps` for the runs |
| `SchedulerProofs` | theorems, also about `Replayer` |
| `DataProofs` | theorems and lemmas about sorting, counting, sums and folds |
| `SendPipeline` | dispatcher, channel, workers, reporter, shutdown, outputs |
| `SendPipelineProps` | the pipeline's properties |
| `Replay` | abstract: what a run promises to the reader of its summary |
| `MCSendPipeline` | symmetry of the workers |
| `SendPipelineProofs` | theorems |
| `ParityCheck` | the parity checker's loop, semaphore, goroutines, counters, output and verdict |
| `ParityCheckProps` | the parity check's properties |
| `Parity` | abstract: what a parity check promises to the reader of its exit code |
| `ParityCheckProofs` | theorems |
| `ProtoCompare` | extraction of floats from two responses and their comparison |
| `ProtoCompareProps` | the comparison's properties, against a definition without loops |
| `ProtoCompareProofs` | theorem |
| `Replayer` | the dispatch loop on top of `Scheduler`, with a clock and the bounded queue, and its properties |
| `WindowStats` | `WindowAnalyzer.Summary`: bins, quantiles, Fano factor, thresholds |
| `GapTarget`, `GapTargetProps` | the gap target's handlers, shutdown and summary; properties, also of the two window analyses against each other |
| `GapTargetProofs` | theorems |
| `Reservoir` | `latencyStats` and `diffSampler`, with their properties |
| `ReservoirProofs` | theorems |
| `ReplayFile` | the two loaders of a replay file, and the job made of a request |
| `Startup`, `StartupProps` | `main` from `flag.Parse` to the scheduler; properties, also of the loaders |
| `StartupProofs` | theorems, also about the loaders |
| `MCReplayer`, `MCGapTarget`, `MCStartup` | values of the constants |

**Scheduler.** Time is an integer number of ticks from the start of the run. A
draw of `poissonIntervalFloat` is a choice from the set `Gaps`; the rates
themselves are left out, except that a base rate of zero creates no stream.
The heap is the function `poissonStreams`; its root is any stream with the least
time. `PoissonIsEarliest`, `SpikeIsEarliest` and `OnsetIsEarliest` are the three
outcomes of `peekEarliest`, with its tie rules. A call of `Next` is a sequence of
`SpawnBurst` steps (the `continue` branch) closed by `FireBase`, `FireSpike` or
`Exhaust`. `SpawnBurst` is `spawnBurst` with `advanceBurstOnset`. The two atomic
adds per event are one step, because the cumulative counters are read only after
the last call of `Next`. `Drain` is one of the three swaps of `DrainCounters`.
int64 is the interval `-(IntMax+1)..IntMax`, with wrapping (`Wrap`) in the one
product that can exceed it, and `GoDiv` truncates. `announced` and `delivered`
are history. After `Exhaust` the actions are not switched off: that the end of
the stream is final is a property, since the code would evaluate the sources
again.

**SendPipeline.** One action is one atomic access: an operation of
`sync/atomic`, a critical section of `mu`, a channel operation. `secSent` and
`totalSent` are bumped in one step, as are the counters of an outcome, because
the totals are read only by the summary, when (`SummaryFinal`) nobody else runs.
An error is known by its message; latencies are counted and not measured;
scheduling lag, queue length and drift in the rows are left out. The scheduler
is any stream of at most `MaxArrivals` arrivals: that it ends is what
`ScheduleEnds` shows. An output in `Failing` may fail at any write and at its
close; once the JSON encoder has failed it stays failed. Inside of `Next` any number
of bursts may be spawned, each with its row (`SpawnInNext`), before it returns with an
arrival (`NextArrival`) or for the last time (`CloseJobs`). `invoked` and `carried`
are history: how often each request was sent, and each connection picked.

**ParityCheck.** Each goroutine that main starts for a request is an element of
`Checks`, named by `reqIdx`; its state `checkPC` walks through the atomic adds,
the critical section of `mu` and the deferred release of its slot. The two
goroutines inside it are the two `Answer` steps, joined by `Join` (`wg.Wait`).
How the answers relate (equal bytes, floats within the tolerance, or not) is
chosen when both are there, since nothing in the program influences it. The two
flags that change the control flow are the rigid variable `flags`, so that one run
covers their four combinations. The pacing sleep and the progress line are left
out, and of the sampler of differences only its count is kept. The duration of a
looping run may end between any two requests; `MaxChecks` bounds the requests
started before.

**ProtoCompare.** A response is the sequence of its fields on the wire. The
branches of the two extraction loops that skip, take, enter or stop are kept
apart; the decoding of tags and lengths is not modelled, except that a field may
be `broken`, where the loops stop. `FoldLeft` over the fields is the loop, one
turn per field. Values are integers: the code compares `float64` differences,
whose rounding is left out.

**Replayer** extends the scheduler: its dispatcher calls the scheduler's own
actions (`SpawnInNext`, `TakeNext`, `CloseJobs`), so the two share the variables of
`Scheduler`. Scheduled times and the clock are in the same ticks. Between `Next` and
the channel the loop is one action per reading of the clock: `FallAsleep` or `GoOn`
(the two branches on `now.Before(nextAt)`; that of equality does nothing),
`WakeUp`, `RecordDispatch`, `Enqueue`. Ticks may pass anywhere. While the
dispatcher is neither asleep nor blocked they count as `stalled`, a history
variable for what the operating system takes. A worker is a step that takes a job at
any time; what it does with it, and the reporter, are in `SendPipeline` and `Scheduler`.

**GapTarget.** A handler is `Accept`, `TakeStamp` (the argument of
`recordArrival`), `RecordArrival` (the critical section), and then what `RecvMsg`
returns: the client's message, which is answered (`Reply`), or an error
(`ReceiveFails`), once the client has ended the stream (`ClientGoes`). A client may do
neither. The behaviour of `Serve` and `GracefulStop` is the library's: after a signal
the connections close when no stream is left but those that their clients have ended
(`CloseConnections`); `Serve` returns when in addition all handlers are done
(`ServeReturns`), or at once when the listener fails (`ServeFails`). `main`
then reads `dropped` and the snapshot in two critical sections. What is printed is
the operator `Summary` of the snapshot; the formulas for what a Poisson process
would give are left out. Percentiles are multiplied by 100 to stay integral.

**WindowStats** is the sender's analysis as an operator of the recorded time stamps;
the Fano factor is kept as numerator and denominator.

**Reservoir.** The history variable `ways` counts, for every possible content of
the reservoir, the equally likely sequences of draws that lead to it; with it
"uniform" is an invariant and not a matter of statistics.

**ReplayFile, Startup.** A record is its two length prefixes and whether the file
ends inside of it; a loader is a fold of its loop's turn, whose `err` is the early
return. In `Startup` every step of `main` that can exit is one action, in the order
of the code (`Check` is the exit). A path is known by its origin, so that
precedence can be stated: the flag, the override or the candidate. Whether a path
exists, and what a file contains, is chosen when the code asks.

Operators named `X_Something` next to `X` are mutated forms of `X`: each stands
for a plausible bug and is used by no definition. They are there to show that
the properties can fail.

## 3. Runs

| Run | Shows |
|---|---|
| `sched_overlap` | uniform bursts over three periods, two streams, ties: buffer sorted (`SpikesSorted`), spikes conserved (`SpikeLedger`), nothing left before the deadline (`NothingLeftBehind`), drains conserve (`CountersConserved`), the spikes returned are exactly those of the timetable (`Timetable`), buffer within its bound and spikes inside their window (`BurstsConfined`) |
| `sched_random` | random offsets and onsets, zero gaps, gaps longer than the run; the schedule ends (`ScheduleEnds`), and what the caller sees is an `ArrivalStream` (`StreamSpec`) |
| `replayer` | absorbing bursts at exactly the target rate (no stream; the last burst is cut by the deadline), queue of two, slow workers, two ticks of stall: no dispatch is early (`NeverEarly`), the summary's totals agree (`TotalsAgree`), every delay is covered by blocked time, lag and stalls (`LatenessExplained`), everything due before the deadline is sent and taken (`RunDelivers`) |
| `pipeline_telemetry` | two workers, queue of one, two messages for a map of one: every arrival in one place (`Ledger`), requests and connections in strict rotation (`RoundRobin`), `TelemetryConserved`, `ErrorsFiled`, `SummaryFinal` |
| `pipeline_outputs` | two workers, bursts with rows of their own, failing writes and closes, sample cap reached: `NoSilentLoss`, `RunEnds` and the refinement of `Replay` (`ReplaySpec`) |
| `parity_verdict` | single passes and looping runs, errors allowed or not, two slots, every pair of answers, a failing output: slots and categories of counters add up at every moment (`CountersSound`), the report is final and the verdict is what the answers say (`OutcomeRight`), `RowsComplete`, `VerdictGiven`, refinement of `Parity` (`ParitySpec`) |
| `proto_floats` | every pair of different responses of at most two fields, each a varint, a float, a special float, a message of at most one field, or broken: the loops decide and count what the definition without loops says (`ComparisonExact`) |
| `gap_target` | `SummaryComplete`: after a graceful stop no arrival is missing; `NoteMeansFull`: a note about dropped arrivals goes with a full buffer, even if the listener failed; `SummaryExact`: recording out of order does not show in gaps and windows; `AnalyzersAgree`: sender and receiver count the same bins, and the sender's quantiles and Fano factor fit them; `SummaryAfterSignal`: a signal ends in a summary, unless some client keeps a handler waiting for ever |
| `reservoir` | `UniformSample`: no set of samples is favoured; `SummarySound`: exact extremes and ordered percentiles, with fewer and with more samples than there is room for |
| `startup` | `StartedRunnable`: what starts has usable sizes, paired credentials and bursts that fit the rate; `Precedence`: explicit over override over candidate; `OutputsTouchedLast`: a refused start leaves earlier results alone, but for the CSV file when the JSONL file cannot be created; `LoaderSound`, `LoadersAgree`: what is replayed is what is in the file, and the file that passes the parity check loads the same requests (if none of them has a payload, `main` then refuses to run) |

Where a property has named parts (`BurstsConfined`, `TotalsAgree`, `CountersSound`,
`OutcomeRight`, `ComparisonExact`, `SummaryExact`, `AnalyzersAgree`, `SummarySound`,
`StartedRunnable`), each part is a definition with a comment of its own. The type
invariants are checked by themselves for the scheduler and the pipeline, and as a
part of such a property elsewhere. `SourcesAhead` of the scheduler is proved (section
4) and is in no run: `StreamSpec`, for the last arrival, is what it is needed for.

Two runs show where a comment or the documentation says more than the code does; each
expects its property to be violated.

| Run | Property | The text | The code |
|---|---|---|---|
| `sched_overflow` | `SpikesSorted` | `pendingSpikes` sorted ascending | `window*i` overflows for very long windows and large bursts |
| `gap_silent_client` | `SignalFlushes` | `SIGTERM` flushes the arrival summary (`SKILL.md:343`) | `GracefulStop` and `RecvMsg` wait without a time limit: a client that stays silent holds the summary back |

Further divergences that the models made visible, without a run:

* `scheduler.go:222` pre-sizes the buffer "to avoid allocations in steady state";
  slicing off the head (`:266`) gives its capacity up for good, so `append` allocates
  after `Window/Period + 2` bursts even if none overlap. The
  "worst-case overlap" of `:223` holds for fixed onsets only (`OverlapBound`).
* `README.md:70` says that the requests of a burst fire within `--burst-window`; a
  `spike` burst spaces them by 1us whatever the window (`SpikeOffsets`).
* `scheduler.go:379`: `DrainCounters` resets "atomically", with three swaps; a burst
  between two of them is reported after its first spikes. Likewise the reporter
  takes `ok`/`err` and the latencies at different moments (`main.go:791-797`), so
  the quantiles of a row are not those of the completions "in the last 1s" that it
  counts (`SKILL.md:233-235`).
* A burst is counted and its `burst_onset` row written when `Next` materialises it
  (`SpawnInNext`), before the dispatcher sleeps until the onset: the row that
  `SKILL.md:240` describes as "onsets fired in the last 1s" may be ahead of them.
* Under backpressure the run sends past `-duration` (`RunDelivers` shows that all of
  it is sent), where `SKILL.md:53` gives the run's length.
* `-method` is said to override the method (`SKILL.md:54`), but it is only the
  fallback for a record without one, and no such record is loaded (`JobsFaithful`).
* `SKILL.md:338` says that absorbing bursts above the rate silence the base;
  `main.go:662` refuses them (`BurstsFitRate`).
* In takeover an explicit `-connections 4` cannot be told from the default and is
  raised; a lone `-cert` or `-key` is completed with the discovered other half, and
  only then tested for being a pair (`FillFlags`, `PairCredentials`).
* `metrics.go:14-16` and `SKILL.md:29` name a Fano factor among what
  `grpc-gap-target` reports; it prints none. Its note on dropped arrivals speaks of
  the captured prefix, which is a prefix in the order of the lock, not of time.
* That responses whose floats agree pass the comparison, whatever else differs in them,
  is documented (`README.md:131`, `SKILL.md:205`) and is no divergence:
  `ComparisonExact` states it.
* When the JSONL file cannot be created, the CSV file has already been emptied
  (`OutputsTouchedLast` states exactly this exception).

**Bounds.** `Deadline` is at most 13 ticks and leaves room for five onsets, with windows
that span up to three periods, so a merge meets spikes of two earlier bursts; `Gaps`
contains gaps that tie with onsets and spikes, a gap of zero and one as long as the run.
`ZeroGapBudget` limits how many later draws may be zero: a Poisson process draws zero
for ever with probability zero, and `ScheduleEnds` holds only under such a limit.
`MaxArrivals` is 2 or 3 with two workers and a queue of one: the dispatcher blocks, both
workers are busy, and one job waits. Two bursts may be spawned in one call of `Next` or
in the last one (`MaxRows`). `MaxTicks` of 1 lets one row be gathered at every point of
the run and a tick be pending at shutdown. `MaxDistinctErrors` and `AnalyzerCap` are
below the number of events, so both caps are reached. Worker symmetry is used only by
the run without temporal properties. `Slots` is 2 where the code has 32: with three
requests the loop blocks on the semaphore, and the drain competes with two running
checks. Responses of two fields, one of them a message, are enough to put a broken or a
special field before or after a float, inside a message and outside; the values 0, 1, 3
with a tolerance of 1 contain equal, close and distant pairs.

`replayer` has nine spikes for a queue of two, with a clock that runs three ticks past
the deadline: the dispatcher falls behind by more than a burst period and catches up,
and may still be blocked when the deadline has passed. After `MaxTime` the clock stands
still, which only leaves lateness uncounted. `gap_target` has one stream more than the
buffer has room for, clients of which two may go away at any one time (`MaxGone`), and
windows whose number reaches the bound on the bins and stays below it; two streams are
enough for `gap_silent_client`. `reservoir` goes two samples past the room for three, so
a kept sample may be replaced twice. `startup` has two candidates of each kind, sizes
that are negative, zero and given, and records at each limit of the loaders, which are
scaled down with the records; all the paths are combined with the default sizes and all
the sizes with a plain file, as no step reads both.

**Fairness.** `WF(Produce)`: the dispatcher calls `Next` until it returns false.
`WF` of the dispatcher, of each worker and of the reporter: the Go runtime runs
every goroutine that can run; `InvokeReturns` is among the worker's steps because
every call carries the request timeout. `SF(LeaveReporter)`: `select` chooses
uniformly among ready cases, so a stop that stays ready is chosen in the end even
if ticks go on. The ticker has no fairness.
The parity check assumes `WF(Main)` and `WF(Check(i))` of each goroutine: an
`Answer` comes because `Invoke` has a context with a timeout, and the deadline of a
looping run comes because time passes (its requests are bounded by `MaxChecks`).

The replayer assumes that the dispatcher runs, that a worker comes back for the next job
(every call ends by its timeout) and that time passes. The gap target assumes fairness
only of what runs inside the server: of a handler's own steps (`OwnStep`, with the error
of a stream that its client has ended), of the closing of connections that are free to
close, and of `main`. No client has to connect, to send or to go away, and no signal has
to come: nothing limits the time that `RecvMsg` waits, so a summary is promised only if
no client keeps a handler waiting for ever. `Startup` and `Reservoir` need no fairness.

Deadlock is checked in every run of a process except `startup`, which ends by exiting or
by handing over to the scheduler: the `Exited` step of the pipeline and of the parity
check marks the one state in which it may stop. `Over`, `Exited` and `Done` do so in
`Replayer`, `GapTarget` and `Reservoir`. The run of `ProtoCompare` ends with the result
of the one comparison.

## 4. Proofs

TLAPS checks the following for every value of the constants that the modules'
assumptions allow. The assumptions (`SchedulerAssumption`,
`SendPipelineAssumption` and their like) say that counts, sizes and durations are
natural numbers, that the flags passed `Validate`, that records and command lines
have their types, and that there are finitely many workers, handlers and checks; TLC
evaluates them in every run.

**`DataProofs`: sorting, counting, sums and folds.** `SortTimes` puts at place k the element of rank k,
where the rank of a position is the number of positions sorted at or before it.
Ranks lie in `1..Len(s)` (`RankRange`), and of two positions the one that precedes
has the smaller rank (`RankMonotone`), so ranks are an injection of a finite set
into itself and therefore a bijection (`RankBijective`). `SortTimesPermutes` and
`SortTimesAscending` follow without induction over the sequence. `Amount(s, T)` is the
number of elements of `s` in `T`, with the laws that the scheduler's and the
reservoir's proofs use. The community modules fold over a finite set by a recursive
function on its subsets. Instead of an induction, which the prover cannot instantiate,
the proofs take a minimal subset (`MinimalSubset`) or a least number (`LeastElement`)
for which the claim fails, and derive a smaller one. `SolutionExists` and
`SolutionsAgree` give the recursive equation, `SumSplit` and `SumChange` the laws of sums,
`SumFibers` that a sum may be taken group by group, `Variance` the identity behind the
Fano factor. `FoldLeft` is such a function on the positions of a sequence. `SolvedExists`
says that its equation has a solution whenever the turns lead from states to states, and
`LastOfFirst` that its last turn is the one at the last position; the proofs about
loaders and float extraction start from these.

**`SchedulerProofs`: the schedule.** All theorems have one hypothesis besides the
assumption: `OffsetsFit`, the largest product `Window * (Size - 1)` fits an int64.
Without it they are false, which `sched_overflow` shows. The inductive invariant
`IInv` is the type invariant and the five safety properties below. They need each other: that no later arrival can be
behind the last one (`SourcesAhead`) is kept by a returned spike only because the
buffer is sorted, so its head is its least element (`HeadIsEarliest`); the buffer
stays sorted by a burst with nothing pending only because offsets ascend
(`UniformOffsetsAscend`, where `OffsetsFit` is used), and by one with spikes pending
because the sort permutes and orders; and the fresh spikes are not behind the last
arrival because the onset is not. `ScheduleComplete` is `NothingLeftBehind`, which
is kept since `Exhaust` sees the least of every source at or past the deadline.
`ImplementsStream` maps each action to a step of `ArrivalStream` or to none.
`TimetableKept` and `BurstsStayConfined` count elements of the buffer that lie in a
set of times (`Amount`); a sort keeps every such number, a concatenation adds two and
a tail takes off at most one (`AmountSorted`, `AmountConcat`, `AmountTail`), so a merge
adds exactly what the burst puts in (`MergeAmount`). With fixed jitter onset k is at
`k * Period` (`OnsetInv`). `TimetableInv` says for each time that the spikes delivered
and pending at it are those of the bursts so far that are due then; at the end nothing
pending is due and no later onset is before the deadline, so the bursts so far are the
timetable. `ConfinedInv` says that nothing pending lies before the last onset and that
from the end of burst m on only spikes of later bursts are pending, at most `Size` each;
with the last `ceil(Window/Period)` bursts taken away nothing is left. The second theorem is
for fixed jitter and the shapes that keep to the window (`FitsWindow`: of the shape
"spike", only short bursts do), the first for all (without
fixed jitter, or with random offsets, `Timetable` claims nothing). That spikes stay in
their window needs no fixed jitter (`SpikesStayInWindow`).

**`SendPipelineProofs`: the run.** For any finite set of workers, any capacity, any
set of error messages and any outputs that fail. `IInv` adds to the checked
properties: `OutcomeKnown` (a worker past `Invoke` has an outcome), `RowFresh` (a
field of the row being gathered is zero until its counter is swapped into it,
without which a swap would overwrite what it should add), `ShutdownOrder` (the
chain of waits), `OutputComplete` (an output that has not failed has everything
that was written), and `LossTold` (the warnings cover every loss so far). `Ledger`
and `TelemetryConserved` are sums over workers in certain states; `MoveCount` says
what moving one worker to another state does to the size of such a set, and
`StepCounts` applies it to the three sets used. `AllCompleted` says that with all
workers gone the ledger has only completions left; `LossNeverSilent` and the
summary step of `ImplementsReplay` rest on it. `ImplementsReplay` is the safety part
of the refinement that `pipeline_outputs` checks: each step is a step of `Replay`
or changes nothing there. `ErrorsFiled` is about the sum of the counts in the error
map, a fold over a function; its invariant (`ErrorLedger`) relates that sum to the
failures that have been counted but not yet filed, and `DataProofs` says how the sum
changes with one entry. `StrictRotation` has two halves. The jobs of a request that are
queued, just taken or sent are its turns so far (`RequestInTurn`), because each step moves
a job from one of the three to the next. The calls started are the arrivals that are in
neither of the first two; `StartInvoke` alone starts one (`StartedStep`), and the shared
counter is at their number modulo the connections (`CallsInTurn`, `NextTurn`), so each
connection has had its turns and no others.

**`SchedulerProofs`: dispatch.** The last part of the module is about `Replayer`. The invariant is that of the scheduler and `LoopInv`
about the dispatcher: what it holds between `Next` and the channel, how the clock,
the stalls, the lag and the blocked time relate to the scheduled time at each of its
program counters. `NothingEarly` and `EveryDelayExplained` hold for every schedule,
queue size, and pace of the workers and of the clock (under `OffsetsFit`, like
everything about the scheduler).

**`ParityCheckProofs`: the verdict.** For any number of requests, slots and
concurrent checks. The counters are compared with the number of checks that have
passed each atomic add (a set per counter, with its size), a slot with the checks
that hold it; the verdict then follows from the sets when all checks are done.
`ImplementsParity` is the safety part of `ParitySpec`, step by step.

**`GapTargetProofs`: the summary.** For any number of handlers. Stamps, records and
replies are counted as sets of handlers; that the listener has not failed makes
`Serve` return only with all handlers done, so the snapshot is complete, and that
arrivals are dropped only at the cap makes a note imply a full buffer, in whatever
order main reads the two.
The figures are functions of the snapshot. Gaps of sorted arrivals are not negative and
telescope to the span; a sorted element is some arrival, so percentiles are within the
span, and interpolation between two ascending elements is ascending. A bin is a quotient,
and the arrivals with one quotient are those of one stretch of time, so below the cap
on the bins a count is that of a window on the time line (`SummaryAlwaysExact`).
For the same arrivals both analyses lay out the same bins, and both put what is past the
cap into the last one; the counts add up to the arrivals by `SumFibers`. A quantile of
the counts splits them at its place (`SortedSplits`). The Fano factor's numerator is
`n * sum c^2 - (sum c)^2`, and n times it is the sum of the squares of `n c - sum c`
(`Variance`), so it is not negative, and zero only if all counts are equal
(`AnalyzersAlwaysAgree`). Two assumptions beyond types are used: a window's threshold
is positive, as in the table of `main.go`, so that an empty window is never a crossing;
and both programs cap the bins at the same number (`SameCaps`, 5,000,000 in each).

**`ReservoirProofs`: the figures.** For every size of the sample. The reservoir holds
samples that were seen, and all of them in order while there is room (`KeptInv`); so
its sorted form lies between the extremes, and at place k of it at most k - 1 samples
are smaller and at least k no larger (`SplitsAtPlace`), from which the percentiles have
their proportion. The sum over an appended sequence is taken apart by `SumSplit`.
For the evenness of the draws, `WaysInv` says that up to a full reservoir there is one
way, and that from there on all sets of `MaxSamples` sample numbers have equally many
ways, at least one (`Even`). One more sample, number n + 1, multiplies that number by
n + 1 - `MaxSamples`, for two reasons: a set without the new sample is kept by the draws
past the last place (`LikeOfOld`), and a set with it comes from the sets in which some
other sample stood in its stead, as many as there are samples outside the set, each by
the one draw that hits that place (`LikeOfNew`). That a reservoir never holds a sample
twice (`Full`) makes this draw the only one.

**`ProtoCompareProofs`: the comparison of floats.** For responses of any length with
messages of any length in them, any values and any tolerance. The three loops are folds
whose states stay of one type, so each is a run, a state after every number of turns
(`LoopRuns`), and so is flattening (`FlattenRuns`). A turn adds the floats of its field
or stops the loop for good (`Adds`), whence the loop returns the floats of all fields up
to the first broken one, or up to its end (`LoopFinds`); this is proved for the loop over
a message first and then used for the outer loop, whose turn calls it. The loop over the
pairs counts those apart by more than the tolerance, so its count is zero exactly if there
is none, and its maximum is within the tolerance then (`PairsCount`). That the order of
the targets does not matter follows from the symmetry of the distances.

**`StartupProofs`: start-up and the loaders.** The state machine is a chain of checks;
`IInv` says for each stretch of it what the checks before have established
(`ChecksInv`), where the paths come from (`DiscoveryInv`, `PathsInv`), what was
loaded and which outputs exist. The loaders are folds over a file of any length:
`FoldsAreAfter` shows that the fold over n + 1 records is one turn after the fold
over n, and `LoadedNext` and `CheckedNext` that a turn carries a description of the
loop (`LoadedTo`, `CheckedTo`) on; the least n at which a description fails cannot
exist.

| Theorem | States |
|---|---|
| `DataProofs!SortTimesAscending`, `SortTimesPermutes` | what `sort.Slice` returns |
| `SchedulerProofs!TypeCorrect` | `TypeOK`: no arrival at or past the deadline |
| `SchedulerProofs!BufferSorted` | `SpikesSorted` |
| `SchedulerProofs!NoLateArrival` | `SourcesAhead` |
| `SchedulerProofs!SpikesConserved` | `SpikeLedger` |
| `SchedulerProofs!ScheduleComplete` | `NothingLeftBehind` |
| `SchedulerProofs!DrainsConserve` | `CountersConserved` |
| `SchedulerProofs!ImplementsStream` | `StreamSpec` |
| `SchedulerProofs!TimetableKept` | `Timetable` |
| `SchedulerProofs!BurstsStayConfined` | `BurstsConfined`, for fixed jitter and shapes that fit into the window (`FitsWindow`) |
| `SchedulerProofs!SpikesStayInWindow` | `SpikesInWindow`, also for poisson jitter |
| `SendPipelineProofs!TypeCorrect` | `TypeOK` |
| `SendPipelineProofs!ArrivalsAccounted` | `Ledger` |
| `SendPipelineProofs!TelemetryExact` | `TelemetryConserved` |
| `SendPipelineProofs!LossNeverSilent` | `NoSilentLoss` |
| `SendPipelineProofs!ImplementsReplay` | `ReplaySafety`, the safety part of `ReplaySpec` |
| `SendPipelineProofs!ErrorsAlwaysFiled` | `ErrorsFiled` |
| `SendPipelineProofs!SummaryAlwaysFinal` | `SummaryFinal` |
| `SendPipelineProofs!StrictRotation` | `RoundRobin` |
| `SchedulerProofs!TotalsAlwaysAgree` | `TotalsAgree` |
| `SchedulerProofs!NothingEarly` | `NeverEarly` |
| `SchedulerProofs!EveryDelayExplained` | `LatenessExplained` |
| `ParityCheckProofs!CountersAlwaysSound` | `CountersSound` |
| `ParityCheckProofs!OutcomeAlwaysRight` | `OutcomeRight` |
| `ParityCheckProofs!RowsNeverSilent` | `RowsComplete` |
| `ParityCheckProofs!ImplementsParity` | `ParitySafety`, the safety part of `ParitySpec` |
| `GapTargetProofs!SummaryAlwaysComplete` | `SummaryComplete` |
| `GapTargetProofs!NoteAlwaysMeansFull` | `NoteMeansFull` |
| `GapTargetProofs!SummaryAlwaysExact` | `SummaryExact` |
| `GapTargetProofs!AnalyzersAlwaysAgree` | `AnalyzersAgree` |
| `ProtoCompareProofs!ComparisonAlwaysExact` | `ComparisonExact` |
| `ReservoirProofs!SummaryAlwaysSound` | `SummarySound` |
| `ReservoirProofs!SampleAlwaysUniform` | `UniformSample` |
| `StartupProofs!StartAlwaysRunnable` | `StartedRunnable` |
| `StartupProofs!PrecedenceKept` | `Precedence` |
| `StartupProofs!OutputsAlwaysLast` | `OutputsTouchedLast` |
| `StartupProofs!LoaderAlwaysSound` | `LoaderSound` |
| `StartupProofs!LoadersAlwaysAgree` | `LoadersAgree` |

Every invariant that the passing runs check is a theorem. Only model-checked: liveness
(`ScheduleEnds`, `RunDelivers`, `RunEnds`, `VerdictGiven`, `SummaryAfterSignal`) and the
fairness of the refined specifications, which are out of the prover's reach.

## 5. Not modelled

The dummy target keeps no state (a `sync.Once` for a log line): every handler
receives one message and answers with a fixed one. gRPC, TLS and the file system
appear only through their outcomes. Formatting of rows and of the summaries, rates,
means and the Poisson expectations of the gap target are floats that no property is
about. The text of `--target` (`normalizeTargetArg`) and of the burst's names is a choice
between accepted and refused. The flags of the parity check, of the gap target and
of the dummy target are read once and end the process when they are wrong.
A parity check that sends nothing divides zero by zero and passes; the loaders refuse
an empty file, so this takes a looping run whose deadline passes before its first turn.

## 6. Plan

All components but the dummy target are modelled, and every safety property that the
runs check is proved, under the hypotheses named above. Liveness stays with TLC.
