--------------------------- MODULE MCActorRuntime ---------------------------
(***************************************************************************)
(* Small instances of the actor floor.                                     *)
(***************************************************************************)
EXTENDS ActorRuntime, TLC

\* The main program makes four calls, each actor one.
MCMaxCalls == [t \in Threads |-> IF t = Main THEN 4 ELSE 1]
\* The main program makes three calls, one of the actors makes one.
MCFewCalls ==
  [t \in Threads |-> IF t = Main THEN 3
                     ELSE IF t = CHOOSE a \in Actors : TRUE THEN 1 ELSE 0]
\* One more for the main program.
MCLiveCalls == [MCFewCalls EXCEPT ![Main] = 4]
\* Every thread makes two calls.
MCAnyCalls == [t \in Threads |-> 2]
MCSymmetry == Permutations(Actors)
=============================================================================
