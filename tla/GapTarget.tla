----------------------------- MODULE GapTarget -----------------------------
(***************************************************************************)
(* cmd/grpc-gap-target/main.go: a gRPC server whose handlers take a time   *)
(* stamp and then enter the critical section that records it; a signal     *)
(* starts a graceful stop; main, once Serve has returned, reads the        *)
(* recorded arrivals and prints the gap summary.                           *)
(*                                                                         *)
(* Serve and GracefulStop are the library's: Serve returns when the        *)
(* connections are closed and every handler is done, or with the error of  *)
(* the listener while handlers still run.  A connection closes when its    *)
(* last stream has ended, which takes a client that sends its message or   *)
(* goes away: neither has a time limit here.  Expected (Poisson) values    *)
(* and rates are floats and left out.                                      *)
(***************************************************************************)
EXTENDS TimeSeq, FiniteSetsExt

CONSTANTS
  MaxStreams,        \* bound: the streams that clients open, one handler each
  ArrivalSampleCap,  \* arrivalSampleCap
  MaxBins,           \* maxBins
  Windows,           \* the winCfg table: records of a window and a threshold
  MaxTime,           \* bound: ticks of the clock
  MaxGone            \* bound: handlers left alone by their clients at one time

ASSUME GapTargetAssumption ==
  /\ {MaxStreams, ArrivalSampleCap, MaxBins} \subseteq Nat \ {0}
  /\ Windows \subseteq [window : Nat \ {0}, threshold : Nat \ {0}]
  /\ {MaxTime, MaxGone} \subseteq Nat

\* The streams in the order in which they are opened.
Handlers == 1..MaxStreams

VARIABLES
  now,            \* time.Now()
  accepting,      \* a connection is open on which a client may open a stream
  stopping,       \* a signal came and GracefulStop was called
  handlerPC,
  stamp,          \* the argument of recordArrival, until it is recorded
  gone,           \* handlers that run on a stream that its client has ended
  arrivalsNs, dropped,   \* the stats, guarded by st.mu
  mainPC, listenerFailed,
  note,           \* the number of dropped arrivals that main has read
  snapshot        \* what st.snapshot() returned, the argument of printSummary

serverVars == <<accepting, stopping>>
handlerVars == <<handlerPC, stamp, gone>>
stats == <<arrivalsNs, dropped>>
mainVars == <<mainPC, listenerFailed, note, snapshot>>
vars == <<now, serverVars, handlerVars, stats, mainVars>>

Unset == -1

Init ==
  /\ now = 0
  /\ accepting = TRUE /\ stopping = FALSE
  /\ handlerPC = [h \in Handlers |-> "new"]
  /\ stamp = [h \in Handlers |-> Unset]
  /\ gone = {}
  /\ arrivalsNs = <<>> /\ dropped = 0
  /\ mainPC = "serve" /\ listenerFailed = FALSE
  /\ note = Unset
  /\ snapshot = <<>>

Alive == mainPC # "exited"

----------------------------------------------------------------------------
(* The handler of one stream. *)

Goto(h, from, to) == /\ Alive /\ handlerPC[h] = from
                     /\ handlerPC' = [handlerPC EXCEPT ![h] = to]

\* peerLogOnce.Do only delays a handler, and is left out.
Accept(h) ==
  /\ Goto(h, "new", "stamp")
  /\ accepting
  /\ h > 1 => handlerPC[h - 1] # "new"
  /\ UNCHANGED <<now, serverVars, stamp, gone, stats, mainVars>>

\* The argument of recordArrival(time.Now()) is taken before the lock.
TakeStamp(h) ==
  /\ Goto(h, "stamp", "record")
  /\ stamp' = [stamp EXCEPT ![h] = now]
  /\ UNCHANGED <<now, serverVars, gone, stats, mainVars>>

\* stats.recordArrival
RecordArrival(h) ==
  /\ Goto(h, "record", "receive")
  /\ IF Len(arrivalsNs) < ArrivalSampleCap
     THEN arrivalsNs' = Append(arrivalsNs, stamp[h]) /\ UNCHANGED dropped
     ELSE dropped' = dropped + 1 /\ UNCHANGED arrivalsNs
  /\ stamp' = [stamp EXCEPT ![h] = Unset]
  /\ UNCHANGED <<now, serverVars, gone, mainVars>>

\* RecvMsg returns the client's message, and SendMsg answers it.  The client
\* may have sent it long before, or may never send it: the server sets no
\* deadline.  SendMsg may fail, and the handler returns in any case.
Reply(h) ==
  /\ Goto(h, "receive", "done")
  /\ gone' = gone \ {h}
  /\ UNCHANGED <<now, serverVars, stamp, stats, mainVars>>

\* Mutant: a failed RecvMsg is tried again.
ReceiveFails_Retries(h) ==
  /\ Goto(h, "receive", "receive")
  /\ h \in gone
  /\ UNCHANGED <<now, serverVars, stamp, gone, stats, mainVars>>

\* RecvMsg returns an error, because the client has ended the stream.
ReceiveFails(h) ==
  /\ Goto(h, "receive", "done")
  /\ h \in gone
  /\ gone' = gone \ {h}
  /\ UNCHANGED <<now, serverVars, stamp, stats, mainVars>>

\* The steps that a handler takes by itself once it runs.
OwnStep(h) == TakeStamp(h) \/ RecordArrival(h) \/ ReceiveFails(h)

Handler(h) == Accept(h) \/ OwnStep(h) \/ Reply(h)

Running(h) == handlerPC[h] \notin {"new", "done"}

\* The client cancels the call, or its deadline or its connection ends it.
ClientGoes(h) ==
  /\ Alive /\ Running(h) /\ h \notin gone
  /\ Cardinality(gone) < MaxGone
  /\ gone' = gone \cup {h}
  /\ UNCHANGED <<now, serverVars, handlerPC, stamp, stats, mainVars>>

----------------------------------------------------------------------------
(* Signals and the server. *)

\* The first SIGINT or SIGTERM makes the waiting goroutine call GracefulStop;
\* later ones stay in the channel.
Signal ==
  /\ Alive /\ ~stopping
  /\ stopping' = TRUE
  /\ UNCHANGED <<now, accepting, handlerVars, stats, mainVars>>

\* The connections drain and close: no stream is left, or only such as their
\* clients have ended, whose handlers may still run.
CloseConnections ==
  /\ Alive /\ stopping /\ accepting
  /\ \A h \in Handlers : Running(h) => h \in gone
  /\ accepting' = FALSE
  /\ UNCHANGED <<now, stopping, handlerVars, stats, mainVars>>

\* Mutant: Stop instead of GracefulStop, which does not wait for handlers.
ServeReturns_NoWait ==
  /\ mainPC = "serve" /\ stopping /\ ~accepting
  /\ mainPC' = "readDropped"
  /\ UNCHANGED <<now, serverVars, handlerVars, stats, listenerFailed, note, snapshot>>

ServeReturns ==
  /\ mainPC = "serve" /\ stopping /\ ~accepting
  /\ \A h \in Handlers : ~Running(h)
  /\ mainPC' = "readDropped"
  /\ UNCHANGED <<now, serverVars, handlerVars, stats, listenerFailed, note, snapshot>>

\* The listener fails for good: Serve returns its error at once.
ServeFails ==
  /\ mainPC = "serve" /\ ~stopping
  /\ mainPC' = "readDropped" /\ listenerFailed' = TRUE
  /\ UNCHANGED <<now, serverVars, handlerVars, stats, note, snapshot>>

----------------------------------------------------------------------------
(* printSummary *)

\* The p-th percentile of sorted gaps, interpolated between its neighbours,
\* times 100 so that it stays integral.
Quantile(sorted, p) ==
  LET idx == p * (Len(sorted) - 1)
      lo  == idx \div 100
      hi  == (idx + 99) \div 100
  IN  sorted[lo + 1] * (100 - (idx % 100)) + sorted[hi + 1] * (idx % 100)

NumWindows(arrivals, window) ==
  LET n == (arrivals[Len(arrivals)] - arrivals[1]) \div window + 1
  IN  IF n > MaxBins THEN MaxBins ELSE n

\* The window of one arrival, clamped on both sides.
WindowOf(ts, first, window, numWindows) ==
  LET idx == (ts - first) \div window
  IN  IF idx < 0 THEN 0 ELSE IF idx >= numWindows THEN numWindows - 1 ELSE idx

AnalyzeWindows(arrivals, window, threshold) ==
  LET n == NumWindows(arrivals, window)
      counts == [w \in 0..(n - 1) |->
                   Cardinality({k \in 1..Len(arrivals) :
                                  WindowOf(arrivals[k], arrivals[1], window, n) = w})]
  IN  [numWindows   |-> n,
       burstWindows |-> Cardinality({w \in 0..(n - 1) : counts[w] >= threshold}),
       maxInWindow  |-> Max({counts[w] : w \in 0..(n - 1)})]

\* Everything that needs a gap is printed only for two arrivals and a span.
FullSummary(arrivals) ==
  LET n      == Len(arrivals)
      gaps   == [i \in 1..(n - 1) |-> arrivals[i + 1] - arrivals[i]]
      sorted == SortTimes(gaps)
  IN  [requests |-> n,
       span     |-> arrivals[n] - arrivals[1],
       gapSum   |-> MapThenSumSet(LAMBDA i : gaps[i], 1..(n - 1)),
       p50      |-> Quantile(sorted, 50),
       p90      |-> Quantile(sorted, 90),
       p99      |-> Quantile(sorted, 99),
       windows  |-> [cfg \in Windows |-> AnalyzeWindows(arrivals, cfg.window, cfg.threshold)]]

\* Mutant: the recorded order is taken for the order of the arrivals.
PrintSummary_Unsorted(arrivals) ==
  IF Len(arrivals) < 2 \/ arrivals[Len(arrivals)] <= arrivals[1]
  THEN [requests |-> Len(arrivals)]
  ELSE FullSummary(arrivals)

\* The snapshot is sorted first: handlers take the lock in any order.
PrintSummary(recorded) ==
  LET arrivals == SortTimes(recorded)
  IN  IF Len(arrivals) < 2 \/ arrivals[Len(arrivals)] <= arrivals[1]
      THEN [requests |-> Len(arrivals)]
      ELSE FullSummary(arrivals)

----------------------------------------------------------------------------
(* main, after Serve: two critical sections of st.mu. *)

\* Mutant: the snapshot is taken first.
ReadDropped_AfterSnapshot ==
  \/ /\ mainPC = "readDropped"
     /\ mainPC' = "snapshot"
     /\ snapshot' = arrivalsNs
     /\ UNCHANGED <<now, serverVars, handlerVars, stats, listenerFailed, note>>
  \/ /\ mainPC = "snapshot"
     /\ mainPC' = "exited"
     /\ note' = dropped
     /\ UNCHANGED <<now, serverVars, handlerVars, stats, listenerFailed, snapshot>>

ReadDropped ==
  /\ mainPC = "readDropped"
  /\ mainPC' = "snapshot"
  /\ note' = dropped
  /\ UNCHANGED <<now, serverVars, handlerVars, stats, listenerFailed, snapshot>>

Summarise ==
  /\ mainPC = "snapshot"
  /\ mainPC' = "exited"
  /\ snapshot' = arrivalsNs
  /\ UNCHANGED <<now, serverVars, handlerVars, stats, listenerFailed, note>>

\* What is printed at the end.
Summary == PrintSummary(snapshot)

Main == ServeReturns \/ ServeFails \/ ReadDropped \/ Summarise

----------------------------------------------------------------------------

Tick == /\ Alive /\ now < MaxTime
        /\ now' = now + 1
        /\ UNCHANGED <<serverVars, handlerVars, stats, mainVars>>

Exited == ~Alive /\ UNCHANGED vars

Next == (\E h \in Handlers : Handler(h) \/ ClientGoes(h)) \/ Signal
        \/ CloseConnections \/ Main \/ Tick \/ Exited

\* A handler runs on except where it waits for its client.  Nothing makes a
\* client connect, send or go away, a signal come or a listener fail.
Spec == /\ Init /\ [][Next]_vars
        /\ WF_vars(\E h \in Handlers : OwnStep(h))
        /\ WF_vars(CloseConnections)
        /\ WF_vars(ServeReturns \/ ReadDropped \/ Summarise)

=============================================================================
