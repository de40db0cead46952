--------------------------- MODULE MCSendPipeline ---------------------------
(* The workers are interchangeable.  Symmetry is used only by the runs      *)
(* that check no liveness property.                                         *)
EXTENDS SendPipelineProps, TLC

Symmetry == Permutations(Workers)
=============================================================================
