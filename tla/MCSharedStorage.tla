--------------------------- MODULE MCSharedStorage ---------------------------
(***************************************************************************)
(* Instances of SharedStorage for TLC.                                     *)
(***************************************************************************)
EXTENDS SharedStorage
=============================================================================
