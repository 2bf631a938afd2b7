--------------------------- MODULE MCWorkingCopy ---------------------------
(***************************************************************************)
(* WorkingCopy for TLC. The bounds are given by the configurations:        *)
(* WorkingCopy.cfg, one edit (and its undoing), one write by another       *)
(* program and one fault; Revert.cfg, one edit alone.                      *)
(***************************************************************************)
EXTENDS WorkingCopy
=============================================================================
