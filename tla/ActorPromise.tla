---------------------------- MODULE ActorPromise ----------------------------
(***************************************************************************)
(* What a program may rely on when it uses actors, with no lock, thread or *)
(* counter in sight: a bounded mailbox per actor, admission that closes    *)
(* once and for good, turns one at a time and in the order of admission,   *)
(* and a stopped hook that runs after the last admitted message.           *)
(***************************************************************************)
EXTENDS Naturals, Sequences

CONSTANTS Actors, Messages, Capacity

VARIABLES
  life,   \* "none", "open", "closed", "stopped" (its hook has begun)
  queue,  \* admitted and not begun
  ran,    \* begun, in order
  busy    \* a hook or a turn is under way

promiseVars == <<life, queue, ran, busy>>

PromiseInit ==
  /\ life = [a \in Actors |-> "none"]
  /\ queue = [a \in Actors |-> <<>>]
  /\ ran = [a \in Actors |-> <<>>]
  /\ busy = [a \in Actors |-> FALSE]

\* An actor is born with its started hook under way.
Born(a) ==
  /\ life[a] = "none"
  /\ life' = [life EXCEPT ![a] = "open"]
  /\ busy' = [busy EXCEPT ![a] = TRUE]
  /\ UNCHANGED <<queue, ran>>

Admit(a, m) ==
  /\ life[a] = "open"
  /\ Len(queue[a]) < Capacity
  /\ queue' = [queue EXCEPT ![a] = Append(@, m)]
  /\ UNCHANGED <<life, ran, busy>>

Begin(a) ==
  /\ life[a] \in {"open", "closed"}
  /\ ~busy[a]
  /\ queue[a] # <<>>
  /\ queue' = [queue EXCEPT ![a] = Tail(@)]
  /\ ran' = [ran EXCEPT ![a] = Append(@, Head(queue[a]))]
  /\ busy' = [busy EXCEPT ![a] = TRUE]
  /\ UNCHANGED life

End(a) ==
  /\ busy[a]
  /\ busy' = [busy EXCEPT ![a] = FALSE]
  /\ UNCHANGED <<life, queue, ran>>

Close(a) ==
  /\ life[a] = "open"
  /\ life' = [life EXCEPT ![a] = "closed"]
  /\ UNCHANGED <<queue, ran, busy>>

Stopped(a) ==
  /\ life[a] = "closed"
  /\ ~busy[a]
  /\ queue[a] = <<>>
  /\ life' = [life EXCEPT ![a] = "stopped"]
  /\ UNCHANGED <<queue, ran, busy>>

PromiseNext ==
  \E a \in Actors :
    \/ Born(a) \/ Begin(a) \/ End(a) \/ Close(a) \/ Stopped(a)
    \/ \E m \in Messages : Admit(a, m)

PromiseSpec == PromiseInit /\ [][PromiseNext]_promiseVars
=============================================================================
