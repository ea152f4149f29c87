------------------------ MODULE ActorPromise_proofs ------------------------
(***************************************************************************)
(* The actor floor implements ActorPromise, for any number of actors, any  *)
(* capacity, any number of calls and any program: the initial states map   *)
(* to initial states, and every step of a thread, of a lock or of the      *)
(* shutdown maps to a step of the promise or changes nothing it speaks of. *)
(***************************************************************************)
EXTENDS ActorRuntime_proofs

USE DEF threadVars, recordVars, joinVars, processVars, teardown, history

Busy(a) == phase[a] \in {"starting", "turn"}

-----------------------------------------------------------------------------
(* The mapping, actor by actor.                                            *)

\* Whose life and turn stay as they are.
Same(a) == Life(a)' = Life(a) /\ Busy(a)' = Busy(a)

LEMMA LifeCases ==
  ASSUME NEW a \in Actors
  PROVE  Life(a) = IF phase[a] \in {"unborn", "refused"} THEN "none"
                   ELSE IF phase[a] \in {"stopping", "exited"} THEN "stopped"
                   ELSE IF open[a] THEN "open" ELSE "closed"
  BY DEF Life, Spawned

LEMMA LifeCasesNext ==
  ASSUME NEW a \in Actors
  PROVE  Life(a)' = IF phase'[a] \in {"unborn", "refused"} THEN "none"
                    ELSE IF phase'[a] \in {"stopping", "exited"} THEN "stopped"
                    ELSE IF open'[a] THEN "open" ELSE "closed"
  BY DEF Life, Spawned

\* Between two turns.
Between == {"settle", "loop", "waiting"}

\* An actor whose place changes only between those the promise cannot tell
\* apart.
LEMMA SamePlace ==
  ASSUME NEW a \in Actors, open'[a] = open[a],
         \/ phase'[a] = phase[a]
         \/ phase[a] \in Between /\ phase'[a] \in Between
         \/ phase[a] \in {"stopping", "exited"} /\ phase'[a] \in {"stopping", "exited"}
         \/ phase[a] \in {"unborn", "refused"} /\ phase'[a] \in {"unborn", "refused"}
  PROVE  Same(a)
  BY LifeCases, LifeCasesNext DEF Same, Busy, Between

LEMMA Invisible ==
  ASSUME \A a \in Actors : Same(a), mailbox' = mailbox, handled' = handled
  PROVE  UNCHANGED Promise!promiseVars
  BY DEF Same, Busy, Promise!promiseVars

LEMMA BornMaps ==
  ASSUME NEW b \in Actors, \A a \in Actors \ {b} : Same(a),
         Life(b) = "none", Life(b)' = "open", Busy(b)',
         mailbox' = mailbox, handled' = handled
  PROVE  Promise!Born(b)
  BY DEF Same, Busy, Promise!Born

LEMMA AdmitMaps ==
  ASSUME NEW b \in Actors, NEW m \in Msg, \A a \in Actors : Same(a),
         Life(b) = "open", Len(mailbox[b]) < Capacity, handled' = handled,
         mailbox' = [mailbox EXCEPT ![b] = Append(@, m)]
  PROVE  Promise!Admit(b, m)
  BY DEF Same, Busy, Promise!Admit

LEMMA BeginMaps ==
  ASSUME NEW b \in Actors, \A a \in Actors \ {b} : Same(a),
         Life(b) \in {"open", "closed"}, Life(b)' = Life(b),
         ~Busy(b), Busy(b)', mailbox[b] # <<>>,
         mailbox' = [mailbox EXCEPT ![b] = Tail(@)],
         handled' = [handled EXCEPT ![b] = Append(@, Head(mailbox[b]))]
  PROVE  Promise!Begin(b)
  BY DEF Same, Busy, Promise!Begin

LEMMA EndMaps ==
  ASSUME NEW b \in Actors, \A a \in Actors \ {b} : Same(a),
         Life(b)' = Life(b), Busy(b), ~Busy(b)',
         mailbox' = mailbox, handled' = handled
  PROVE  Promise!End(b)
<1>1. [a \in Actors |-> Busy(a)'] = [[a \in Actors |-> Busy(a)] EXCEPT ![b] = FALSE]
  <2>1. Busy(b)' = FALSE
    BY DEF Busy
  <2>2. QED
    BY <2>1 DEF Same
<1>2. [a \in Actors |-> Life(a)'] = [a \in Actors |-> Life(a)]
  BY DEF Same
<1>3. [a \in Actors |-> Busy(a)][b]
  OBVIOUS
<1>4. QED
  BY <1>1, <1>2, <1>3 DEF Busy, Promise!End

LEMMA CloseMaps ==
  ASSUME NEW b \in Actors, \A a \in Actors \ {b} : Same(a),
         Life(b) = "open", Life(b)' = "closed", Busy(b)' = Busy(b),
         mailbox' = mailbox, handled' = handled
  PROVE  Promise!Close(b)
  BY DEF Same, Busy, Promise!Close

LEMMA StoppedMaps ==
  ASSUME NEW b \in Actors, \A a \in Actors \ {b} : Same(a),
         Life(b) = "closed", Life(b)' = "stopped", ~Busy(b), ~Busy(b)',
         mailbox[b] = <<>>, mailbox' = mailbox, handled' = handled
  PROVE  Promise!Stopped(b)
<1>1. [a \in Actors |-> Busy(a)'] = [a \in Actors |-> Busy(a)]
  <2>1. Busy(b)' = Busy(b)
    BY DEF Busy
  <2>2. QED
    BY <2>1 DEF Same
<1>2. [a \in Actors |-> Life(a)'] =
        [[a \in Actors |-> Life(a)] EXCEPT ![b] = "stopped"]
  BY DEF Same
<1>3. [a \in Actors |-> Life(a)][b] = "closed" /\ ~[a \in Actors |-> Busy(a)][b]
  OBVIOUS
<1>4. QED
  BY <1>1, <1>2, <1>3 DEF Busy, Promise!Stopped

\* An open mailbox belongs to an actor that lives and is not stopping.
LEMMA OpenLives ==
  ASSUME IInv, NEW a \in Actors, open[a]
  PROVE  Life(a) = "open"
         /\ phase[a] \notin {"unborn", "refused", "stopping", "exited"}
<1>1. phase[a] \notin {"unborn", "refused"}
  BY DEF IInv, SpawnInv, Spawned
<1>2. phase[a] \notin {"stopping", "exited"}
  BY DEF IInv, StoppedDrained
<1>3. QED
  BY <1>1, <1>2, LifeCases

\* Stop and shutdown close a mailbox in the same way.
LEMMA ClosingMaps ==
  ASSUME IInv, NEW b \in Actors, CloseBox(b), phase' = Signalled(b),
         mailbox' = mailbox, handled' = handled
  PROVE  Promise!Close(b) \/ UNCHANGED Promise!promiseVars
<1>0. /\ open \in [Actors -> BOOLEAN]
      /\ open' = [open EXCEPT ![b] = FALSE]
  BY DEF CloseBox, IInv, TypeOK, RecordsOK
<1>1. /\ \A a \in Actors : phase'[a] =
           IF a = b /\ phase[b] = "waiting" THEN "loop" ELSE phase[a]
  BY SignalledType DEF IInv
<1>2. ASSUME NEW a \in Actors, a # b \/ ~open[b] PROVE Same(a)
  <2>1. open'[a] = open[a]
    BY <1>0, <1>2
  <2>2. phase'[a] = phase[a] \/ (phase[a] = "waiting" /\ phase'[a] = "loop")
    BY <1>1
  <2>3. QED
    BY <2>1, <2>2, SamePlace DEF Between
<1>3. CASE open[b]
  <2>1. /\ Life(b) = "open"
        /\ phase[b] \notin {"unborn", "refused", "stopping", "exited"}
    BY <1>3, OpenLives
  <2>2. ~open'[b]
    BY <1>0
  <2>5. \/ phase'[b] = phase[b]
        \/ phase[b] = "waiting" /\ phase'[b] = "loop"
    BY <1>1
  <2>3. Life(b)' = "closed" /\ Busy(b)' = Busy(b)
    BY <2>1, <2>2, <2>5, LifeCasesNext DEF Busy
  <2>4. QED
    BY <1>2, <2>1, <2>3, CloseMaps
<1>4. CASE ~open[b]
  BY <1>2, <1>4, Invisible
<1>5. QED
  BY <1>3, <1>4

-----------------------------------------------------------------------------
(* The steps.                                                              *)

PromiseStep == Promise!PromiseNext \/ UNCHANGED Promise!promiseVars

LEMMA UserCallMaps ==
  ASSUME IInv, NEW t \in Threads, UserCall(t)
  PROVE  PromiseStep
<1>1. PICK b \in Actors :
        \/ SpawnOk(t, b) \/ SpawnUnavailable(t, b)
        \/ SendLockRegistry(t, b) \/ Stop(t, b)
        \/ JoinRefused(t, b) \/ JoinWait(t, b)
  BY DEF UserCall
<1>2. /\ phase \in [Threads -> WorkerPhases \cup MainPhases]
      /\ open \in [Actors -> BOOLEAN] /\ Actors \subseteq Threads
  BY DEF IInv, TypeOK, ThreadsOK, RecordsOK, Threads
<1>3. CASE SpawnOk(t, b)
  <2>1. /\ phase[b] = "unborn" /\ phase' = [phase EXCEPT ![b] = "starting"]
        /\ open' = [open EXCEPT ![b] = TRUE]
        /\ mailbox' = mailbox /\ handled' = handled
    BY <1>3 DEF SpawnOk
  <2>2. \A a \in Actors \ {b} : phase'[a] = phase[a] /\ open'[a] = open[a]
    BY <1>2, <2>1
  <2>3. phase'[b] = "starting" /\ open'[b]
    BY <1>2, <2>1
  <2>4. \A a \in Actors \ {b} : Same(a)
    BY <2>2, SamePlace
  <2>5. Life(b) = "none" /\ Life(b)' = "open" /\ Busy(b)'
    BY <2>1, <2>3, LifeCases, LifeCasesNext DEF Busy
  <2>6. Promise!Born(b)
    BY <2>1, <2>4, <2>5, BornMaps
  <2>7. QED
    BY <2>6 DEF PromiseStep, Promise!PromiseNext
<1>4. CASE SpawnUnavailable(t, b)
  <2>1. /\ phase[b] = "unborn" /\ phase' = [phase EXCEPT ![b] = "refused"]
        /\ open' = open /\ mailbox' = mailbox /\ handled' = handled
    BY <1>4 DEF SpawnUnavailable
  <2>2. ASSUME NEW a \in Actors PROVE Same(a)
    <3>1. CASE a = b
      BY <1>2, <2>1, <3>1, SamePlace
    <3>2. CASE a # b
      BY <1>2, <2>1, <3>2, SamePlace
    <3>3. QED
      BY <3>1, <3>2
  <2>3. QED
    BY <2>1, <2>2, Invisible DEF PromiseStep
<1>5. CASE SendLockRegistry(t, b) \/ JoinRefused(t, b) \/ JoinWait(t, b)
  <2>1. phase' = phase /\ open' = open /\ mailbox' = mailbox /\ handled' = handled
    BY <1>5 DEF SendLockRegistry, JoinRefused, JoinWait
  <2>2. \A a \in Actors : Same(a)
    BY <2>1, SamePlace
  <2>3. QED
    BY <2>1, <2>2, Invisible DEF PromiseStep
<1>6. CASE Stop(t, b)
  <2>1. /\ CloseBox(b) /\ phase' = Signalled(b)
        /\ mailbox' = mailbox /\ handled' = handled
    BY <1>6 DEF Stop
  <2>2. QED
    BY <2>1, ClosingMaps DEF PromiseStep, Promise!PromiseNext
<1>7. QED
  BY <1>1, <1>3, <1>4, <1>5, <1>6

LEMMA CallStepMaps ==
  ASSUME IInv, NEW t \in Threads, CallStep(t)
  PROVE  PromiseStep
<1>1. PICK b \in Actors :
        \/ SendLockBox(t, b) \/ SendRefused(t, b) \/ SendAccepted(t, b)
        \/ JoinReturn(t, b)
  BY DEF CallStep
<1>2. CASE SendLockBox(t, b) \/ SendRefused(t, b) \/ JoinReturn(t, b)
  <2>1. phase' = phase /\ open' = open /\ mailbox' = mailbox /\ handled' = handled
    BY <1>2 DEF SendLockBox, SendRefused, JoinReturn
  <2>2. \A a \in Actors : Same(a)
    BY <2>1, SamePlace
  <2>3. QED
    BY <2>1, <2>2, Invisible DEF PromiseStep
<1>3. CASE SendAccepted(t, b)
  <2> DEFINE m == [from |-> t, n |-> calls[t]]
  <2>1. m \in Msg
    <3>1. op[t] = "sendIn"
      BY <1>3 DEF SendAccepted, SendUnlock
    <3>2. calls[t] > 0 /\ calls[t] <= MaxCalls[t]
      BY <3>1 DEF IInv, CallInv
    <3>3. QED
      BY <3>2, MsgType DEF IInv
  <2>2. /\ open[b] /\ Len(mailbox[b]) < Capacity /\ handled' = handled
        /\ mailbox' = [mailbox EXCEPT ![b] = Append(@, m)]
        /\ open' = open /\ phase' = Signalled(b)
    BY <1>3 DEF SendAccepted
  <2> HIDE DEF m
  <2>3. ASSUME NEW a \in Actors PROVE Same(a)
    <3>1. phase'[a] = phase[a] \/ (phase[a] = "waiting" /\ phase'[a] = "loop")
      BY <2>2, SignalledType DEF IInv
    <3>2. QED
      BY <2>2, <3>1, SamePlace DEF Between
  <2>4. Life(b) = "open"
    BY <2>2, OpenLives
  <2>5. Promise!Admit(b, m)
    BY <2>1, <2>2, <2>3, <2>4, AdmitMaps
  <2>6. QED
    BY <2>1, <2>5 DEF PromiseStep, Promise!PromiseNext
<1>4. QED
  BY <1>1, <1>2, <1>3

LEMMA WorkerMaps ==
  ASSUME IInv, NEW b \in Actors, Worker(b) \/ WorkerSpurious(b)
  PROVE  PromiseStep
<1>1. /\ phase \in [Threads -> WorkerPhases \cup MainPhases]
      /\ Actors \subseteq Threads /\ Main \notin Actors
  BY ThreadsAssumption DEF IInv, TypeOK, ThreadsOK, Threads
<1>2. CASE WorkerReturn(b)
  <2>1. /\ Busy(b) /\ phase' = [phase EXCEPT ![b] = "settle"]
        /\ open' = open /\ mailbox' = mailbox /\ handled' = handled
    BY <1>2 DEF WorkerReturn, Busy
  <2>2. phase'[b] = "settle" /\ \A a \in Actors \ {b} : phase'[a] = phase[a]
    BY <1>1, <2>1
  <2>3. \A a \in Actors \ {b} : Same(a)
    BY <2>1, <2>2, SamePlace
  <2>4. Life(b)' = Life(b) /\ ~Busy(b)'
    BY <2>1, <2>2, LifeCases, LifeCasesNext DEF Busy
  <2>5. Promise!End(b)
    BY <2>1, <2>3, <2>4, EndMaps
  <2>6. QED
    BY <2>5 DEF PromiseStep, Promise!PromiseNext
<1>3. CASE WorkerSettle(b) \/ WorkerWait(b) \/ WorkerSpurious(b) \/ WorkerExit(b)
  <2>1. open' = open /\ mailbox' = mailbox /\ handled' = handled
    BY <1>3 DEF WorkerSettle, WorkerWait, AtLoop, WorkerSpurious, WorkerExit
  <2>2. /\ \A a \in Actors \ {b} : phase'[a] = phase[a]
        /\ \/ phase[b] \in Between /\ phase'[b] \in Between
           \/ phase[b] \in {"stopping", "exited"}
              /\ phase'[b] \in {"stopping", "exited"}
    BY <1>1, <1>3 DEF WorkerSettle, WorkerWait, AtLoop, WorkerSpurious, WorkerExit,
                      Between
  <2>3. \A a \in Actors : Same(a)
    BY <2>1, <2>2, SamePlace
  <2>4. QED
    BY <2>1, <2>3, Invisible DEF PromiseStep
<1>4. CASE WorkerTake(b)
  <2>1. /\ phase[b] = "loop" /\ mailbox[b] # <<>> /\ open' = open
        /\ phase' = [phase EXCEPT ![b] = "turn"]
        /\ mailbox' = [mailbox EXCEPT ![b] = Tail(@)]
        /\ handled' = [handled EXCEPT ![b] = Append(@, Head(mailbox[b]))]
    BY <1>4 DEF WorkerTake, AtLoop
  <2>2. phase'[b] = "turn" /\ \A a \in Actors \ {b} : phase'[a] = phase[a]
    BY <1>1, <2>1
  <2>3. \A a \in Actors \ {b} : Same(a)
    BY <2>1, <2>2, SamePlace
  <2>4. /\ Life(b) \in {"open", "closed"} /\ Life(b)' = Life(b)
        /\ ~Busy(b) /\ Busy(b)'
    BY <2>1, <2>2, LifeCases, LifeCasesNext DEF Busy
  <2>5. Promise!Begin(b)
    BY <2>1, <2>3, <2>4, BeginMaps
  <2>6. QED
    BY <2>5 DEF PromiseStep, Promise!PromiseNext
<1>5. CASE WorkerDrained(b)
  <2>1. /\ phase[b] = "loop" /\ mailbox[b] = <<>> /\ ~open[b] /\ open' = open
        /\ phase' = [phase EXCEPT ![b] = "stopping"]
        /\ mailbox' = mailbox /\ handled' = handled
    BY <1>5 DEF WorkerDrained, AtLoop
  <2>2. phase'[b] = "stopping" /\ \A a \in Actors \ {b} : phase'[a] = phase[a]
    BY <1>1, <2>1
  <2>3. \A a \in Actors \ {b} : Same(a)
    BY <2>1, <2>2, SamePlace
  <2>4. Life(b) = "closed" /\ Life(b)' = "stopped" /\ ~Busy(b) /\ ~Busy(b)'
    BY <2>1, <2>2, LifeCases, LifeCasesNext DEF Busy
  <2>5. Promise!Stopped(b)
    BY <2>1, <2>3, <2>4, StoppedMaps
  <2>6. QED
    BY <2>5 DEF PromiseStep, Promise!PromiseNext
<1>6. QED
  BY <1>2, <1>3, <1>4, <1>5 DEF Worker

LEMMA ShutdownMaps ==
  ASSUME IInv, MainReturn \/ Shutdown \/ ShutdownSpurious
  PROVE  PromiseStep
<1>1. /\ phase \in [Threads -> WorkerPhases \cup MainPhases]
      /\ Actors \subseteq Threads /\ Main \notin Actors
  BY ThreadsAssumption DEF IInv, TypeOK, ThreadsOK, Threads
<1>2. CASE ShutdownClose
  <2>1. Head(cursor) \in Actors
    BY <1>2 DEF ShutdownClose, IInv, TypeOK, RecordsOK
  <2>2. /\ CloseBox(Head(cursor)) /\ phase' = Signalled(Head(cursor))
        /\ mailbox' = mailbox /\ handled' = handled
    BY <1>2 DEF ShutdownClose
  <2>3. QED
    BY <2>1, <2>2, ClosingMaps DEF PromiseStep, Promise!PromiseNext
<1>3. CASE ~ShutdownClose
  <2>1. /\ open' = open /\ mailbox' = mailbox /\ handled' = handled
        /\ \A a \in Actors : phase'[a] = phase[a]
    BY <1>1, <1>3 DEF MainReturn, Shutdown, ShutdownSpurious, ShutdownLock,
         ShutdownWait, ShutdownQuiet, ShutdownUnlock, ShutdownReap, ShutdownJoin,
         ShutdownFree, ShutdownDone
  <2>2. \A a \in Actors : Same(a)
    BY <2>1, SamePlace
  <2>3. QED
    BY <2>1, <2>2, Invisible DEF PromiseStep
<1>4. QED
  BY <1>2, <1>3

LEMMA NextMaps ==
  ASSUME IInv, [Next]_vars
  PROVE  PromiseStep
<1>1. ASSUME NEW t \in Threads, UserCall(t) PROVE PromiseStep
  BY <1>1, UserCallMaps
<1>2. ASSUME NEW t \in Threads, CallStep(t) PROVE PromiseStep
  BY <1>2, CallStepMaps
<1>3. ASSUME NEW a \in Actors, Worker(a) \/ WorkerSpurious(a) PROVE PromiseStep
  BY <1>3, WorkerMaps
<1>4. CASE MainReturn \/ Shutdown \/ ShutdownSpurious
  BY <1>4, ShutdownMaps
<1>5. CASE \/ \E t \in Threads, b \in Actors : UseAfterFree(t, b)
           \/ UNCHANGED vars
  <2>1. phase' = phase /\ open' = open /\ mailbox' = mailbox /\ handled' = handled
    BY <1>5 DEF UseAfterFree, vars
  <2>2. \A a \in Actors : Same(a)
    BY <2>1, SamePlace
  <2>3. QED
    BY <2>1, <2>2, Invisible DEF PromiseStep
<1>6. QED
  BY <1>1, <1>2, <1>3, <1>4, <1>5 DEF Next, Over

LEMMA InitMaps == Init => Promise!PromiseInit
<1> SUFFICES ASSUME Init PROVE Promise!PromiseInit
  OBVIOUS
<1>1. \A a \in Actors : phase[a] = "unborn"
  BY ThreadsAssumption DEF Init, Threads
<1>2. \A a \in Actors : Life(a) = "none"
  BY <1>1, LifeCases
<1>3. mailbox = [a \in Actors |-> <<>>] /\ handled = [a \in Actors |-> <<>>]
  BY DEF Init
<1>4. [a \in Actors |-> Life(a)] = [a \in Actors |-> "none"]
  BY <1>2
<1>5. [a \in Actors |-> phase[a] \in {"starting", "turn"}] = [a \in Actors |-> FALSE]
  <2>1. ASSUME NEW a \in Actors PROVE (phase[a] \in {"starting", "turn"}) = FALSE
    <3>1. ~(phase[a] \in {"starting", "turn"})
      BY <1>1
    <3>2. QED
      BY <3>1
  <2>2. QED
    BY <2>1
<1>6. QED
  BY <1>3, <1>4, <1>5 DEF Promise!PromiseInit

-----------------------------------------------------------------------------

\* The floor implements the promise: bounded admission that closes for good,
\* turns one at a time in the order of admission, and the stopped hook last,
\* whatever the threads, locks and wakeups of gen_c_actor.zen do.
THEOREM Implements == Spec => KeepsPromise
<1>1. Init => Promise!PromiseInit
  BY InitMaps
<1>2. IInv /\ [Next]_vars => [Promise!PromiseNext]_Promise!promiseVars
  BY NextMaps DEF PromiseStep
<1>3. QED
  BY <1>1, <1>2, Invariance, PTL DEF Spec, KeepsPromise, Promise!PromiseSpec
=============================================================================
