--------------------------- MODULE MCThreadFloor ---------------------------
(***************************************************************************)
(* Small instances of the threads floor.                                   *)
(***************************************************************************)
EXTENDS ThreadFloor
=============================================================================
