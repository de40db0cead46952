---------------------------- MODULE MCGapTarget ----------------------------
(* Values for the constants that a configuration file cannot write. *)
EXTENDS GapTargetProps, TLC

\* One window of a tick, whose number reaches MaxBins, and a wider one.
MCWindows == {[window |-> 1, threshold |-> 2], [window |-> 2, threshold |-> 2]}
=============================================================================
