---------------------------- MODULE MCScheduler ----------------------------
(* Values for the constants that a configuration file cannot write. *)
EXTENDS SchedulerProps

\* Two streams that interleave with the spikes and onsets, and tie with them.
MCGapsSparse == {2, 5}
\* A zero gap makes two events coincide; a gap of a whole run ends a source.
MCGapsWithZero == {0, 2, 6}
=============================================================================
