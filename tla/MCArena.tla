------------------------------- MODULE MCArena -------------------------------
(***************************************************************************)
(* Small instances of the arena.  The numbers keep the proportions of the  *)
(* code: a length of one word, two words of greatest alignment, three of   *)
(* Page struct.                                                            *)
(***************************************************************************)
EXTENDS Arena
=============================================================================
