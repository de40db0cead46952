----------------------------- MODULE MCReplayer -----------------------------
(* Values for the constants that a configuration file cannot write. *)
EXTENDS Replayer

MCGapsSparse == {2, 5}
=============================================================================
