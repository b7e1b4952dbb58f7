--------------------------- MODULE MCExperiments ----------------------------
(* Instances of Experiments for TLC.                                       *)
EXTENDS Experiments, TLC
=============================================================================
