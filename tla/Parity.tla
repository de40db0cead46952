------------------------------- MODULE Parity -------------------------------
(***************************************************************************)
(* What a parity check promises to whoever reads its exit code: each       *)
(* request that was started is judged by itself, once, and the verdict is  *)
(* given when none is open, for exactly those that were judged.            *)
(***************************************************************************)
CONSTANT Checks   \* the requests, by their index

VARIABLES open,      \* requests that are being compared
          judged,    \* requests whose comparison is over
          bad,       \* those of them that speak against parity
          verdict    \* "none", "passed", "failed"

vars == <<open, judged, bad, verdict>>

Init == open = {} /\ judged = {} /\ bad = {} /\ verdict = "none"

Start(i) == /\ verdict = "none" /\ i \notin open \cup judged
            /\ open' = open \cup {i}
            /\ UNCHANGED <<judged, bad, verdict>>

Finish(i) == /\ i \in open
             /\ open' = open \ {i}
             /\ judged' = judged \cup {i}
             /\ bad' \in {bad, bad \cup {i}}
             /\ UNCHANGED verdict

Decide == /\ verdict = "none" /\ open = {}
          /\ verdict' = IF bad = {} THEN "passed" ELSE "failed"
          /\ UNCHANGED <<open, judged, bad>>

Next == (\E i \in Checks : Start(i) \/ Finish(i)) \/ Decide

\* Something happens until the verdict is given.
Spec == Init /\ [][Next]_vars /\ WF_vars(Next)

=============================================================================
