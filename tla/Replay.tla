------------------------------- MODULE Replay -------------------------------
(***************************************************************************)
(* What a replay run promises to whoever reads its summary: every arrival  *)
(* that was accepted is completed exactly once, as a success or as an      *)
(* error, and the run ends by reporting exactly what was completed.        *)
(***************************************************************************)
EXTENDS Integers

VARIABLES accepted,    \* arrivals handed over for sending
          ok, failed,  \* completed ones, by outcome
          phase,       \* "running", "draining", "over"
          report       \* the reported totals: [total, ok, err]

vars == <<accepted, ok, failed, phase, report>>

NoReport == [total |-> 0, ok |-> 0, err |-> 0]

Init == /\ accepted = 0 /\ ok = 0 /\ failed = 0
        /\ phase = "running" /\ report = NoReport

Accept == /\ phase = "running"
          /\ accepted' = accepted + 1
          /\ UNCHANGED <<ok, failed, phase, report>>

Complete == /\ ok + failed < accepted
            /\ \/ ok' = ok + 1 /\ UNCHANGED failed
               \/ failed' = failed + 1 /\ UNCHANGED ok
            /\ UNCHANGED <<accepted, phase, report>>

Drain == /\ phase = "running"
         /\ phase' = "draining"
         /\ UNCHANGED <<accepted, ok, failed, report>>

Report == /\ phase = "draining"
          /\ ok + failed = accepted
          /\ phase' = "over"
          /\ report' = [total |-> accepted, ok |-> ok, err |-> failed]
          /\ UNCHANGED <<accepted, ok, failed>>

Next == Accept \/ Complete \/ Drain \/ Report

\* Accepting may go on as long as the schedule lasts; everything accepted is
\* completed and reported in the end.
Spec == Init /\ [][Next]_vars /\ WF_vars(Complete \/ Drain \/ Report)

=============================================================================
