---------------------------- MODULE MCProcStream ----------------------------
(***************************************************************************)
(* Small instances of a call of std.proc.                                  *)
(***************************************************************************)
EXTENDS ProcStream

Usual   == [ends |-> TRUE, autoreap |-> FALSE]
Endless == [ends |-> FALSE, autoreap |-> FALSE]
NoWait  == [ends |-> FALSE, autoreap |-> TRUE]
MCWorlds == {Usual, Endless, NoWait}
MCUsual  == {Usual}
=============================================================================
