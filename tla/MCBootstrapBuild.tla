-------------------------- MODULE MCBootstrapBuild --------------------------
(***************************************************************************)
(* Small instances of the incremental bootstrap.                           *)
(***************************************************************************)
EXTENDS BootstrapBuild
=============================================================================
