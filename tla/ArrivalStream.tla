--------------------------- MODULE ArrivalStream ---------------------------
(***************************************************************************)
(* What a caller of Scheduler.Next may rely on, whatever the configuration *)
(* of replicas and bursts: a finite stream of arrivals whose times never   *)
(* go backwards and all lie before the deadline, then an end of stream     *)
(* that is final.                                                          *)
(***************************************************************************)
EXTENDS Integers

CONSTANT Deadline

VARIABLES lastAt,     \* the time of the latest arrival (0, the start, before the first)
          arrivals,   \* how many arrivals Next has returned
          exhausted   \* Next has returned ok = false

vars == <<lastAt, arrivals, exhausted>>

Init == lastAt = 0 /\ arrivals = 0 /\ exhausted = FALSE

Arrive == /\ ~exhausted
          /\ lastAt' \in lastAt..(Deadline - 1)
          /\ arrivals' = arrivals + 1
          /\ UNCHANGED exhausted

End == /\ ~exhausted
       /\ exhausted' = TRUE
       /\ UNCHANGED <<lastAt, arrivals>>

Next == Arrive \/ End

Spec == Init /\ [][Next]_vars

=============================================================================
