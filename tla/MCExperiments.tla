--------------------------- MODULE MCExperiments ---------------------------
(***************************************************************************)
(* Every sequence of up to MaxStarts runs of the scripts.                  *)
(***************************************************************************)
EXTENDS Experiments
=============================================================================
