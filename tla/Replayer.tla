------------------------------ MODULE Replayer ------------------------------
(***************************************************************************)
(* The dispatch loop of main.go on top of the scheduler, against a clock:  *)
(* it takes the next arrival, sleeps until it is due, records the dispatch *)
(* time, and blocks while the bounded queue is full.  The workers are an   *)
(* actor that takes a job at any time (SendPipeline models what they do    *)
(* with it); the reporter's drains are in Scheduler.                       *)
(*                                                                         *)
(* A scheduled time and the clock are in the same ticks.  Time may pass in *)
(* every step of the dispatcher: while it sleeps, while it is blocked, or  *)
(* because the process does not get to run, which stalled counts.          *)
(***************************************************************************)
EXTENDS SchedulerProps

CONSTANTS
  QueueCapacity,   \* --queue-capacity
  MaxStall,        \* bound: ticks for which the dispatcher is ready but does not run
  MaxTime          \* bound: ticks of the clock

ASSUME ReplayerAssumption ==
  /\ QueueCapacity \in Nat \ {0} /\ MaxStall \in Nat
  /\ MaxTime \in Nat /\ MaxTime >= Deadline

VARIABLES
  now,
  dispatcher,    \* where the loop is: "next", "check", "sleep", "record", "enqueue", "closed"
  nextAt,        \* the arrival in hand
  enqueueStart,
  lastRecorded,  \* the time that the analyzer recorded last
  queue,         \* len(jobs)
  sent,          \* totalSent
  lag, blocked,  \* schedulerLagNanos, schedulerBlockedNanos
  stalled        \* history: see above

loopVars   == <<nextAt, enqueueStart, lastRecorded, sent, lag, blocked>>
replayVars == <<vars, now, dispatcher, queue, stalled, loopVars>>

ReplayInit ==
  /\ Init
  /\ now = 0 /\ dispatcher = "next"
  /\ nextAt = 0 /\ enqueueStart = 0 /\ lastRecorded = 0
  /\ queue = 0 /\ sent = 0
  /\ lag = 0 /\ blocked = 0 /\ stalled = 0

Step(from, to) == dispatcher = from /\ dispatcher' = to

\* A burst is counted and announced here, inside of Next, and so before the
\* dispatcher sleeps until its onset.
SpawnInNext ==
  /\ Step("next", "next")
  /\ SpawnBurst
  /\ UNCHANGED <<now, queue, stalled, loopVars>>

TakeNext ==
  /\ Step("next", "check")
  /\ FireBase \/ FireSpike
  /\ nextAt' = lastAt'
  /\ UNCHANGED <<now, queue, stalled, enqueueStart, lastRecorded, sent, lag, blocked>>

\* Mutant: the loop also ends when the run's time is over.
CloseJobs_AtDeadline ==
  /\ Step("next", "closed")
  /\ \/ Exhaust
     \/ now >= Deadline /\ UNCHANGED vars
  /\ UNCHANGED <<now, queue, stalled, loopVars>>

\* Next returned ok = false: the loop ends and the queue is closed.
CloseJobs ==
  /\ Step("next", "closed")
  /\ Exhaust
  /\ UNCHANGED <<now, queue, stalled, loopVars>>

FallAsleep ==
  /\ Step("check", "sleep")
  /\ now < nextAt
  /\ UNCHANGED <<vars, now, queue, stalled, loopVars>>

\* An arrival that is late is not skipped; its lag is added up.
GoOn ==
  /\ Step("check", "record")
  /\ now >= nextAt
  /\ lag' = lag + (now - nextAt)
  /\ UNCHANGED <<vars, now, queue, stalled, nextAt, enqueueStart, lastRecorded, sent, blocked>>

\* Mutant: the sleep is a tick too short.
WakeUp_Short ==
  /\ Step("sleep", "record")
  /\ now + 1 >= nextAt
  /\ UNCHANGED <<vars, now, queue, stalled, loopVars>>

\* time.Sleep lasts at least as long as it is asked to.
WakeUp ==
  /\ Step("sleep", "record")
  /\ now >= nextAt
  /\ UNCHANGED <<vars, now, queue, stalled, loopVars>>

\* analyzer.Record(time.Now()), then enqueueStart.
RecordDispatch ==
  /\ Step("record", "enqueue")
  /\ lastRecorded' = now /\ enqueueStart' = now
  /\ UNCHANGED <<vars, now, queue, stalled, nextAt, sent, lag, blocked>>

\* Mutant: a job that finds the queue full is dropped.
Enqueue_Drops ==
  /\ Step("enqueue", "next")
  /\ IF queue < QueueCapacity THEN queue' = queue + 1 /\ sent' = sent + 1
                              ELSE UNCHANGED <<queue, sent>>
  /\ UNCHANGED <<vars, now, stalled, nextAt, enqueueStart, lastRecorded, lag, blocked>>

\* Mutant: the time that was spent blocked replaces the sum.
Enqueue_LastBlock ==
  /\ Step("enqueue", "next")
  /\ queue < QueueCapacity
  /\ queue' = queue + 1 /\ sent' = sent + 1
  /\ blocked' = now - enqueueStart
  /\ UNCHANGED <<vars, now, stalled, nextAt, enqueueStart, lastRecorded, lag>>

\* jobs <- job, and what follows it.
Enqueue ==
  /\ Step("enqueue", "next")
  /\ queue < QueueCapacity
  /\ queue' = queue + 1 /\ sent' = sent + 1
  /\ blocked' = blocked + (now - enqueueStart)
  /\ UNCHANGED <<vars, now, stalled, nextAt, enqueueStart, lastRecorded, lag>>

Dispatch == SpawnInNext \/ TakeNext \/ CloseJobs \/ FallAsleep \/ GoOn
            \/ WakeUp \/ RecordDispatch \/ Enqueue

\* A worker is free and receives from jobs.
WorkerTakes ==
  /\ queue > 0
  /\ queue' = queue - 1
  /\ UNCHANGED <<vars, now, dispatcher, stalled, loopVars>>

\* The dispatcher has nothing to do but wait for time or for a worker.
Waiting == \/ dispatcher = "sleep" /\ now < nextAt
           \/ dispatcher \in {"enqueue", "closed"}

Tick ==
  /\ now < MaxTime
  /\ ~Waiting => stalled < MaxStall
  /\ now' = now + 1
  /\ stalled' = IF Waiting THEN stalled ELSE stalled + 1
  /\ UNCHANGED <<vars, dispatcher, queue, loopVars>>

Over == dispatcher = "closed" /\ queue = 0 /\ UNCHANGED replayVars

ReplayNext == Dispatch \/ WorkerTakes \/ Tick \/ Over

\* Time goes on, the dispatcher gets to run, and a worker comes back for the
\* next job, as every call ends by its timeout.
ReplaySpec == /\ ReplayInit /\ [][ReplayNext]_replayVars
              /\ WF_replayVars(Dispatch)
              /\ WF_replayVars(WorkerTakes)
              /\ WF_replayVars(Tick)

----------------------------------------------------------------------------
(* Properties *)

ReplayerTypeOK ==
  /\ TypeOK
  /\ now \in 0..MaxTime /\ stalled \in 0..MaxStall
  /\ dispatcher \in {"next", "check", "sleep", "record", "enqueue", "closed"}
  /\ {nextAt, lastRecorded, enqueueStart, sent, lag, blocked} \subseteq Nat
  /\ queue \in 0..QueueCapacity

\* Whatever the clock, the sleeps and the backpressure do: an arrival is
\* never dispatched before it is due, and the analyzer's time stamps ascend.
NeverEarly ==
  /\ dispatcher = "enqueue" => lastRecorded >= nextAt
  /\ lastRecorded <= now

\* The totals of the summary agree: what was sent is what the scheduler
\* counted as fired, but for the arrival that the dispatcher has in hand.
InHand == IF dispatcher \in {"check", "sleep", "record", "enqueue"} THEN 1 ELSE 0

SentMatchesFired == fired["base"] + fired["spikes"] = sent + InHand

\* The two with the types: what every step of the loop keeps.
TotalsAgree == ReplayerTypeOK /\ SentMatchesFired

\* Telemetry explains every late dispatch: it is late by no more than what
\* sched_blocked_ms has added up, and what sched_lag_ms has, plus the time for
\* which the process did not run.  Without backpressure and stalls every
\* dispatch is on time.
LatenessExplained ==
  dispatcher = "enqueue" =>
    /\ lastRecorded - nextAt <= blocked + stalled
    /\ lastRecorded - nextAt <= lag + stalled

\* Backpressure cannot lose an arrival: everything that is scheduled before
\* the deadline is sent and taken by a worker, past the deadline if need be.
RunDelivers ==
  <>[](dispatcher = "closed" /\ exhausted /\ queue = 0
       /\ sent = fired["base"] + fired["spikes"])

=============================================================================
