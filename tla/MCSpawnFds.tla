----------------------------- MODULE MCSpawnFds -----------------------------
(***************************************************************************)
(* Small instances of the descriptor table.                                *)
(***************************************************************************)
EXTENDS SpawnFds, TLC

Sym == Permutations(Threads)
=============================================================================
