------------------------ MODULE ActorRuntime_proofs ------------------------
(***************************************************************************)
(* What the actor floor keeps for any number of actors, any capacity, any  *)
(* number of calls and any program, disciplined or not.                    *)
(***************************************************************************)
EXTENDS ActorRuntime, FiniteSetTheorems, SequenceTheorems, TLAPS

-----------------------------------------------------------------------------
(* The inductive invariant.                                                *)

\* A thread is inside a call only from user code; a sender holds the
\* registry lock, and shutdown holds it while it checks and closes.
CallInv ==
  /\ \A t \in Threads : op[t] # "none" =>
       phase[t] \in UserPhases /\ on[t] \in Actors /\ calls[t] > 0
  /\ \A t \in Threads : op[t] \in {"sendBox", "sendIn"} => registryLock = t
  /\ \A t \in Threads : op[t] \in {"sendBox", "sendIn", "joining"} =>
       on[t] \in Listed(registry)
  /\ phase[Main] \in {"check", "close"} => registryLock = Main
  /\ \A t \in Threads : calls[t] <= MaxCalls[t]

\* An actor nobody has started has no history; every started one is listed.
SpawnInv ==
  /\ \A a \in Actors : ~Spawned(a) =>
       /\ ~open[a] /\ settled[a] = 0
       /\ accepted[a] = <<>> /\ handled[a] = <<>> /\ mailbox[a] = <<>>
  /\ \A a \in Actors : Spawned(a) <=> a \in Listed(registry)

\* Where a worker is tells how many work items it has settled.
SettledInv ==
  \A a \in Actors : Spawned(a) =>
    settled[a] = IF phase[a] \in {"starting", "turn", "settle"}
                   THEN Len(handled[a]) ELSE Len(handled[a]) + 1

\* PendingExact, of a debt that is finite.
CountInv == IsFiniteSet(Owed) /\ PendingExact

\* What shutdown has closed and what it has not reached yet.
CloseInv ==
  /\ phase[Main] \notin {"main", "shutdown"} => shuttingDown
  /\ phase[Main] = "close" =>
       \A a \in Actors : open[a] => a \in Listed(cursor)
  /\ phase[Main] \in {"reap", "join", "free", "done"} =>
       \A a \in Actors : ~open[a]
  /\ phase[Main] \in {"join", "free"} => cursor # <<>>

IInv ==
  /\ TypeOK /\ CallInv /\ SpawnInv /\ SettledInv /\ CloseInv
  /\ NothingLost /\ CountInv /\ NoLostWakeup /\ StoppedDrained
  /\ ShutdownIsQuiet

-----------------------------------------------------------------------------
(* Lists.                                                                  *)

LEMMA ListedCons ==
  ASSUME NEW S, NEW s \in Seq(S), NEW e \in S
  PROVE  Listed(<<e>> \o s) = {e} \cup Listed(s)
<1> DEFINE c == <<e>> \o s
<1>1. /\ DOMAIN c = 1..(Len(s) + 1)
      /\ c[1] = e
      /\ \A i \in 1..Len(s) : c[i + 1] = s[i]
  OBVIOUS
<1>2. ASSUME NEW x \in Listed(c) PROVE x \in {e} \cup Listed(s)
  <2>1. PICK i \in 1..(Len(s) + 1) : x = c[i]
    BY <1>1 DEF Listed
  <2>2. CASE i = 1
    BY <1>1, <2>1, <2>2
  <2>3. CASE i # 1
    <3>1. i - 1 \in 1..Len(s) /\ c[(i - 1) + 1] = s[i - 1]
      BY <1>1, <2>3
    <3>2. x = s[i - 1]
      BY <2>1, <3>1
    <3>3. QED
      BY <3>1, <3>2 DEF Listed
  <2>4. QED
    BY <2>2, <2>3
<1>3. ASSUME NEW x \in {e} \cup Listed(s) PROVE x \in Listed(c)
  <2>1. CASE x = e
    BY <1>1, <2>1 DEF Listed
  <2>2. CASE x \in Listed(s)
    <3>1. PICK i \in 1..Len(s) : x = s[i]
      BY <2>2 DEF Listed
    <3>2. i + 1 \in DOMAIN c /\ c[i + 1] = x
      BY <1>1, <3>1
    <3>3. QED
      BY <3>2 DEF Listed
  <2>3. QED
    BY <2>1, <2>2
<1>4. QED
  BY <1>2, <1>3

LEMMA ListedTail ==
  ASSUME NEW S, NEW s \in Seq(S), s # <<>>
  PROVE  /\ Head(s) \in S
         /\ Tail(s) \in Seq(S)
         /\ Listed(s) = {Head(s)} \cup Listed(Tail(s))
<1>1. /\ Head(s) \in S
      /\ Tail(s) \in Seq(S)
      /\ s = <<Head(s)>> \o Tail(s)
  OBVIOUS
<1>2. QED
  BY <1>1, ListedCons

LEMMA ListedEmpty == Listed(<<>>) = {}
  BY DEF Listed

-----------------------------------------------------------------------------
(* The count.                                                              *)

LEMMA OwedMember ==
  ASSUME NEW w, NEW a \in Actors, NEW k, w = <<a, k>>
  PROVE  w \in Owed <=> Spawned(a) /\ k \in settled[a]..Len(accepted[a])
<1>1. ASSUME NEW c \in Actors
      PROVE  w \in OwedBy(c) <=>
               c = a /\ Spawned(c) /\ k \in settled[c]..Len(accepted[c])
  BY DEF OwedBy
<1>2. w \in Owed <=> \E c \in Actors : w \in OwedBy(c)
  BY DEF Owed
<1>3. QED
  BY <1>1, <1>2

LEMMA OwedPairs ==
  ASSUME NEW w \in Owed
  PROVE  w = <<w[1], w[2]>> /\ w[1] \in Actors
  BY DEF Owed, OwedBy

\* A step that starts, accepts and settles nothing leaves the debt alone.
LEMMA OwedSame ==
  ASSUME settled' = settled, accepted' = accepted,
         \A a \in Actors : Spawned(a)' <=> Spawned(a)
  PROVE  Owed' = Owed
  BY DEF Owed, OwedBy

-----------------------------------------------------------------------------
(* Types.                                                                  *)

USE DEF threadVars, recordVars, joinVars, processVars, teardown, history

LEMMA SignalledType ==
  ASSUME TypeOK, NEW b \in Actors
  PROVE  /\ Signalled(b) \in [Threads -> WorkerPhases \cup MainPhases]
         /\ Signalled(b)[Main] = phase[Main]
         /\ \A a \in Actors : Signalled(b)[a] =
              IF a = b /\ phase[b] = "waiting" THEN "loop" ELSE phase[a]
  BY ThreadsAssumption DEF TypeOK, ThreadsOK, Signalled, Threads, WorkerPhases

LEMMA MsgType ==
  ASSUME TypeOK, NEW t \in Threads, calls[t] > 0, calls[t] <= MaxCalls[t]
  PROVE  [from |-> t, n |-> calls[t]] \in Msg
<1>1. calls[t] \in 1..MaxCalls[t]
  BY CallsAssumption DEF TypeOK, ThreadsOK
<1>2. [from |-> t, n |-> calls[t]] \in [from : {t}, n : 1..MaxCalls[t]]
  BY <1>1
<1>3. QED
  BY <1>2 DEF Msg

LEMMA UpTo ==
  ASSUME NEW i \in Nat, NEW j \in Nat
  PROVE  i \in 0..(i + j) /\ i + j \in Nat /\ i <= i + j
  OBVIOUS

\* A worker that settles has something to settle.
LEMMA SettleOwes ==
  ASSUME IInv, NEW a \in Actors, phase[a] = "settle"
  PROVE  /\ settled[a] \in 0..Len(accepted[a])
         /\ <<a, settled[a]>> \in Owed
         /\ pending - 1 = Cardinality(Owed \ {<<a, settled[a]>>})
         /\ IsFiniteSet(Owed \ {<<a, settled[a]>>})
         /\ pending - 1 \in Nat
<1>1. Spawned(a)
  BY DEF Spawned
<1>2. settled[a] = Len(handled[a])
  BY <1>1 DEF IInv, SettledInv
<1>3. Len(accepted[a]) = Len(handled[a]) + Len(mailbox[a])
  <2>1. mailbox[a] \in Seq(Msg) /\ handled[a] \in Seq(Msg)
    BY DEF IInv, TypeOK, RecordsOK
  <2>2. accepted[a] = handled[a] \o mailbox[a]
    BY DEF IInv, NothingLost
  <2>3. QED
    BY <2>1, <2>2
<1>4. Len(mailbox[a]) \in Nat /\ Len(handled[a]) \in Nat
  BY DEF IInv, TypeOK, RecordsOK
<1>5. settled[a] \in 0..Len(accepted[a])
  BY <1>2, <1>3, <1>4, UpTo
<1>6. <<a, settled[a]>> \in Owed
  BY <1>1, <1>5, OwedMember
<1>7. IsFiniteSet(Owed) /\ pending = Cardinality(Owed)
  BY DEF IInv, CountInv, PendingExact
<1>8. /\ IsFiniteSet(Owed \ {<<a, settled[a]>>})
      /\ Cardinality(Owed \ {<<a, settled[a]>>}) = Cardinality(Owed) - 1
  BY <1>6, <1>7, FS_RemoveElement
<1>9. Cardinality(Owed \ {<<a, settled[a]>>}) \in Nat
  BY <1>8, FS_CardinalityType
<1>10. QED
  BY <1>5, <1>6, <1>7, <1>8, <1>9

LEMMA ThreadsStep == IInv /\ [Next]_vars => ThreadsOK'
<1> SUFFICES ASSUME IInv, [Next]_vars PROVE ThreadsOK'
  OBVIOUS
<1>1. TypeOK /\ ThreadsOK
  BY DEF IInv, TypeOK
<1> USE ThreadsAssumption DEF Threads, WorkerPhases, MainPhases, Ops
<1>2. ASSUME NEW t \in Threads, UserCall(t)
      PROVE  ThreadsOK'
  <2>1. PICK b \in Actors :
          \/ SpawnOk(t, b) \/ SpawnUnavailable(t, b)
          \/ SendLockRegistry(t, b) \/ Stop(t, b)
          \/ JoinRefused(t, b) \/ JoinWait(t, b)
    BY <1>2 DEF UserCall
  <2>2. CASE SpawnOk(t, b)
    BY <1>1, <2>2 DEF ThreadsOK, SpawnOk, Calls
  <2>3. CASE SpawnUnavailable(t, b)
    BY <1>1, <2>3 DEF ThreadsOK, SpawnUnavailable, Calls
  <2>4. CASE SendLockRegistry(t, b)
    BY <1>1, <2>4 DEF ThreadsOK, SendLockRegistry, Calls
  <2>5. CASE Stop(t, b)
    BY <1>1, <2>5, SignalledType DEF ThreadsOK, Stop, Calls
  <2>6. CASE JoinRefused(t, b) \/ JoinWait(t, b)
    BY <1>1, <2>6 DEF ThreadsOK, JoinRefused, JoinWait, MayJoin, Calls
  <2>7. QED
    BY <2>1, <2>2, <2>3, <2>4, <2>5, <2>6
<1>3. ASSUME NEW t \in Threads, CallStep(t)
      PROVE  ThreadsOK'
  <2>1. PICK b \in Actors :
          \/ SendLockBox(t, b) \/ SendRefused(t, b) \/ SendAccepted(t, b)
          \/ JoinReturn(t, b)
    BY <1>3 DEF CallStep
  <2>2. CASE SendLockBox(t, b) \/ SendRefused(t, b) \/ JoinReturn(t, b)
    BY <1>1, <2>2 DEF ThreadsOK, SendLockBox, SendRefused, SendUnlock,
                      JoinReturn
  <2>3. CASE SendAccepted(t, b)
    BY <1>1, <2>3, SignalledType DEF ThreadsOK, SendAccepted, SendUnlock
  <2>4. QED
    BY <2>1, <2>2, <2>3
<1>4. ASSUME NEW a \in Actors, Worker(a) \/ WorkerSpurious(a)
      PROVE  ThreadsOK'
  <2>1. CASE WorkerReturn(a) \/ WorkerExit(a) \/ WorkerSpurious(a)
    BY <1>1, <2>1 DEF ThreadsOK, WorkerReturn, WorkerExit, WorkerSpurious
  <2>2. CASE WorkerSettle(a)
    BY <1>1, <2>2 DEF ThreadsOK, WorkerSettle
  <2>3. CASE WorkerWait(a) \/ WorkerTake(a) \/ WorkerDrained(a)
    BY <1>1, <2>3 DEF ThreadsOK, WorkerWait, WorkerTake, WorkerDrained, AtLoop
  <2>4. QED
    BY <1>4, <2>1, <2>2, <2>3 DEF Worker
<1>5. CASE MainReturn \/ Shutdown \/ ShutdownSpurious
  <2>1. CASE ShutdownClose
    <3>1. Head(cursor) \in Actors
      BY <1>1, <2>1 DEF TypeOK, RecordsOK, ShutdownClose
    <3>2. QED
      BY <1>1, <2>1, <3>1, SignalledType DEF ThreadsOK, ShutdownClose
  <2>2. CASE ShutdownReap
    BY <1>1, <2>2 DEF ThreadsOK, ShutdownReap
  <2>3. CASE MainReturn \/ ShutdownSpurious \/ ShutdownLock \/ ShutdownWait
    BY <1>1, <2>3 DEF ThreadsOK, MainReturn, ShutdownSpurious, ShutdownLock,
                      ShutdownWait
  <2>4. CASE ShutdownQuiet \/ ShutdownUnlock \/ ShutdownJoin
    BY <1>1, <2>4 DEF ThreadsOK, ShutdownQuiet, ShutdownUnlock, ShutdownJoin
  <2>5. CASE ShutdownFree \/ ShutdownDone
    BY <1>1, <2>5 DEF ThreadsOK, ShutdownFree, ShutdownDone
  <2>6. QED
    BY <1>5, <2>1, <2>2, <2>3, <2>4, <2>5 DEF Shutdown
<1>6. ASSUME NEW t \in Threads, NEW b \in Actors, UseAfterFree(t, b)
      PROVE  ThreadsOK'
  BY <1>1, <1>6 DEF ThreadsOK, UseAfterFree
<1>7. CASE UNCHANGED vars
  BY <1>1, <1>7 DEF ThreadsOK, vars
<1>8. QED
  BY <1>2, <1>3, <1>4, <1>5, <1>6, <1>7 DEF Next, Over

LEMMA RecordsStep == IInv /\ [Next]_vars => RecordsOK'
<1> SUFFICES ASSUME IInv, [Next]_vars PROVE RecordsOK'
  OBVIOUS
<1>1. TypeOK /\ RecordsOK
  BY DEF IInv, TypeOK
<1>2. ASSUME NEW t \in Threads, UserCall(t)
      PROVE  RecordsOK'
  <2>1. PICK b \in Actors :
          \/ SpawnOk(t, b) \/ SpawnUnavailable(t, b)
          \/ SendLockRegistry(t, b) \/ Stop(t, b)
          \/ JoinRefused(t, b) \/ JoinWait(t, b)
    BY <1>2 DEF UserCall
  <2>2. CASE SpawnOk(t, b)
    BY <1>1, <2>2 DEF RecordsOK, SpawnOk
  <2>3. CASE SpawnUnavailable(t, b) \/ SendLockRegistry(t, b)
    BY <1>1, <2>3 DEF RecordsOK, SpawnUnavailable, SendLockRegistry
  <2>4. CASE Stop(t, b)
    BY <1>1, <2>4 DEF RecordsOK, Stop, CloseBox
  <2>5. CASE JoinRefused(t, b) \/ JoinWait(t, b)
    BY <1>1, <2>5 DEF RecordsOK, JoinRefused, JoinWait, Threads
  <2>6. QED
    BY <2>1, <2>2, <2>3, <2>4, <2>5
<1>3. ASSUME NEW t \in Threads, CallStep(t)
      PROVE  RecordsOK'
  <2>1. PICK b \in Actors :
          \/ SendLockBox(t, b) \/ SendRefused(t, b) \/ SendAccepted(t, b)
          \/ JoinReturn(t, b)
    BY <1>3 DEF CallStep
  <2>2. CASE SendLockBox(t, b) \/ SendRefused(t, b) \/ JoinReturn(t, b)
    BY <1>1, <2>2 DEF RecordsOK, SendLockBox, SendRefused, SendUnlock,
                      JoinReturn
  <2>3. CASE SendAccepted(t, b)
    <3>1. calls[t] > 0 /\ calls[t] <= MaxCalls[t]
      BY <2>3 DEF IInv, CallInv, SendAccepted, SendUnlock
    <3>2. [from |-> t, n |-> calls[t]] \in Msg
      BY <1>1, <3>1, MsgType
    <3>3. QED
      BY <1>1, <2>3, <3>2 DEF RecordsOK, SendAccepted, SendUnlock
  <2>4. QED
    BY <2>1, <2>2, <2>3
<1>4. ASSUME NEW a \in Actors, Worker(a) \/ WorkerSpurious(a)
      PROVE  RecordsOK'
  <2>1. CASE WorkerReturn(a) \/ WorkerExit(a) \/ WorkerSpurious(a)
    BY <1>1, <2>1 DEF RecordsOK, WorkerReturn, WorkerExit, WorkerSpurious
  <2>2. CASE WorkerSettle(a)
    <3>1. pending - 1 \in Nat
      BY <2>2, SettleOwes DEF WorkerSettle
    <3>2. QED
      BY <1>1, <2>2, <3>1 DEF RecordsOK, WorkerSettle
  <2>3. CASE WorkerWait(a) \/ WorkerDrained(a)
    BY <1>1, <2>3 DEF RecordsOK, WorkerWait, WorkerDrained, AtLoop
  <2>4. CASE WorkerTake(a)
    <3>1. Head(mailbox[a]) \in Msg /\ Tail(mailbox[a]) \in Seq(Msg)
      BY <1>1, <2>4 DEF RecordsOK, WorkerTake
    <3>2. QED
      BY <1>1, <2>4, <3>1 DEF RecordsOK, WorkerTake, AtLoop
  <2>5. QED
    BY <1>4, <2>1, <2>2, <2>3, <2>4 DEF Worker
<1>5. CASE MainReturn \/ Shutdown \/ ShutdownSpurious
  <2>1. CASE ShutdownClose
    BY <1>1, <2>1, ListedTail DEF RecordsOK, ShutdownClose, CloseBox
  <2>2. CASE ShutdownReap
    BY <1>1, <2>2, ListedTail DEF RecordsOK, ShutdownReap, Threads
  <2>3. CASE MainReturn \/ ShutdownSpurious \/ ShutdownLock \/ ShutdownWait
    BY <1>1, <2>3 DEF RecordsOK, MainReturn, ShutdownSpurious, ShutdownLock,
                      ShutdownWait, Threads
  <2>4. CASE ShutdownQuiet \/ ShutdownUnlock \/ ShutdownJoin
    BY <1>1, <2>4 DEF RecordsOK, ShutdownQuiet, ShutdownUnlock, ShutdownJoin
  <2>5. CASE ShutdownFree
    <3>1. cursor # <<>>
      BY <2>5 DEF ShutdownFree, IInv, CloseInv
    <3>2. QED
      BY <1>1, <2>5, <3>1, ListedTail DEF RecordsOK, ShutdownFree
  <2>6. CASE ShutdownDone
    BY <1>1, <2>6 DEF RecordsOK, ShutdownDone
  <2>7. QED
    BY <1>5, <2>1, <2>2, <2>3, <2>4, <2>5, <2>6 DEF Shutdown
<1>6. ASSUME NEW t \in Threads, NEW b \in Actors, UseAfterFree(t, b)
      PROVE  RecordsOK'
  BY <1>1, <1>6 DEF RecordsOK, UseAfterFree
<1>7. CASE UNCHANGED vars
  BY <1>1, <1>7 DEF RecordsOK, vars
<1>8. QED
  BY <1>2, <1>3, <1>4, <1>5, <1>6, <1>7 DEF Next, Over

-----------------------------------------------------------------------------
(* Calls, locks and the registry.                                          *)

LEMMA CallStepInv == IInv /\ [Next]_vars => CallInv'
<1> SUFFICES ASSUME IInv, [Next]_vars PROVE CallInv'
  OBVIOUS
<1>1. ThreadsOK /\ RecordsOK /\ CallInv
  BY DEF IInv, TypeOK
<1> USE ThreadsAssumption, CallsAssumption
    DEF Threads, UserPhases, WorkerPhases, MainPhases, CallInv
<1>2. ASSUME NEW t \in Threads, NEW b \in Actors, SpawnOk(t, b)
      PROVE  CallInv'
  <2>1. Listed(registry') = {b} \cup Listed(registry)
    BY <1>1, <1>2, ListedCons DEF SpawnOk, RecordsOK
  <2>2. /\ op' = op /\ on' = on /\ registryLock' = registryLock
        /\ \A x \in Threads : op[x] # "none" => phase'[x] = phase[x]
        /\ phase'[Main] = phase[Main]
    BY <1>1, <1>2 DEF SpawnOk, Calls, InUserCode, ThreadsOK
  <2>3. \A x \in Threads :
          calls'[x] >= calls[x] /\ calls'[x] <= MaxCalls[x]
    BY <1>1, <1>2 DEF SpawnOk, Calls, InUserCode, ThreadsOK
  <2>4. \A x \in Threads : calls'[x] \in Nat /\ calls[x] \in Nat
    BY <1>1, <1>2 DEF SpawnOk, Calls, ThreadsOK
  <2>5. QED
    BY <1>1, <2>1, <2>2, <2>3, <2>4
<1>3. ASSUME NEW t \in Threads, NEW b \in Actors, SpawnUnavailable(t, b)
      PROVE  CallInv'
  BY <1>1, <1>3 DEF SpawnUnavailable, Calls, InUserCode, ThreadsOK
<1>4. ASSUME NEW t \in Threads, NEW b \in Actors, SendLockRegistry(t, b)
      PROVE  CallInv'
  BY <1>1, <1>4 DEF SendLockRegistry, Calls, InUserCode, HasRef, ThreadsOK
<1>5. ASSUME NEW t \in Threads, NEW b \in Actors, SendLockBox(t, b)
      PROVE  CallInv'
  BY <1>1, <1>5 DEF SendLockBox, ThreadsOK
<1>6. ASSUME NEW t \in Threads, NEW b \in Actors, SendRefused(t, b)
      PROVE  CallInv'
  BY <1>1, <1>6 DEF SendRefused, SendUnlock, ThreadsOK
<1>7. ASSUME NEW t \in Threads, NEW b \in Actors, SendAccepted(t, b)
      PROVE  CallInv'
  BY <1>1, <1>7 DEF SendAccepted, SendUnlock, Signalled, ThreadsOK
<1>8. ASSUME NEW t \in Threads, NEW b \in Actors, Stop(t, b)
      PROVE  CallInv'
  BY <1>1, <1>8 DEF Stop, Calls, InUserCode, Signalled, ThreadsOK
<1>9. ASSUME NEW t \in Threads, NEW b \in Actors,
             JoinRefused(t, b) \/ JoinWait(t, b)
      PROVE  CallInv'
  BY <1>1, <1>9 DEF JoinRefused, JoinWait, MayJoin, Calls, InUserCode, HasRef,
                    ThreadsOK
<1>10. ASSUME NEW t \in Threads, NEW b \in Actors, JoinReturn(t, b)
       PROVE  CallInv'
  BY <1>1, <1>10 DEF JoinReturn, ThreadsOK
<1>11. ASSUME NEW a \in Actors, WorkerReturn(a) \/ WorkerExit(a)
       PROVE  CallInv'
  BY <1>1, <1>11 DEF WorkerReturn, WorkerExit, InUserCode, ThreadsOK
<1>12. ASSUME NEW a \in Actors, WorkerSettle(a) \/ WorkerSpurious(a)
       PROVE  CallInv'
  BY <1>1, <1>12 DEF WorkerSettle, WorkerSpurious, ThreadsOK
<1>13. ASSUME NEW a \in Actors,
              WorkerWait(a) \/ WorkerTake(a) \/ WorkerDrained(a)
       PROVE  CallInv'
  BY <1>1, <1>13 DEF WorkerWait, WorkerTake, WorkerDrained, AtLoop, ThreadsOK
<1>14. CASE MainReturn \/ ShutdownSpurious \/ ShutdownLock
  BY <1>1, <1>14 DEF MainReturn, ShutdownSpurious, ShutdownLock, InUserCode,
                     ThreadsOK
<1>15. CASE ShutdownWait \/ ShutdownUnlock
  BY <1>1, <1>15 DEF ShutdownWait, ShutdownUnlock, ThreadsOK
<1>16. CASE ShutdownClose
  BY <1>1, <1>16, ListedTail DEF ShutdownClose, Signalled, ThreadsOK, RecordsOK
<1>17. CASE ShutdownQuiet \/ ShutdownReap \/ ShutdownJoin \/ ShutdownFree
            \/ ShutdownDone
  BY <1>1, <1>17 DEF ShutdownQuiet, ShutdownReap, ShutdownJoin, ShutdownFree,
                     ShutdownDone, ThreadsOK
<1>18. CASE UNCHANGED vars \/ \E t \in Threads, b \in Actors : UseAfterFree(t, b)
  BY <1>1, <1>18 DEF UseAfterFree, vars
<1>19. QED
  BY <1>2, <1>3, <1>4, <1>5, <1>6, <1>7, <1>8, <1>9, <1>10, <1>11, <1>12,
     <1>13, <1>14, <1>15, <1>16, <1>17, <1>18
     DEF Next, UserCall, CallStep, Worker, Shutdown, Over

LEMMA SpawnStep == IInv /\ [Next]_vars => SpawnInv'
<1> SUFFICES ASSUME IInv, [Next]_vars PROVE SpawnInv'
  OBVIOUS
<1>1. ThreadsOK /\ RecordsOK /\ CallInv /\ SpawnInv /\ SettledInv
  BY DEF IInv, TypeOK
<1> USE ThreadsAssumption
    DEF Threads, UserPhases, WorkerPhases, MainPhases, SpawnInv, Spawned
<1>2. ASSUME NEW t \in Threads, NEW b \in Actors, SpawnOk(t, b)
      PROVE  SpawnInv'
  <2>1. Listed(registry') = {b} \cup Listed(registry)
    BY <1>1, <1>2, ListedCons DEF SpawnOk, RecordsOK
  <2>2. QED
    BY <1>1, <1>2, <2>1 DEF SpawnOk, ThreadsOK, RecordsOK
<1>3. ASSUME NEW t \in Threads, NEW b \in Actors, SpawnUnavailable(t, b)
      PROVE  SpawnInv'
  BY <1>1, <1>3 DEF SpawnUnavailable, ThreadsOK
<1>4. ASSUME NEW t \in Threads, NEW b \in Actors,
             \/ SendLockRegistry(t, b) \/ SendLockBox(t, b)
             \/ SendRefused(t, b) \/ JoinRefused(t, b) \/ JoinWait(t, b)
             \/ JoinReturn(t, b)
      PROVE  SpawnInv'
  BY <1>1, <1>4 DEF SendLockRegistry, SendLockBox, SendRefused, JoinRefused,
                    JoinWait, JoinReturn
<1>5. ASSUME NEW t \in Threads, NEW b \in Actors, SendAccepted(t, b)
      PROVE  SpawnInv'
  BY <1>1, <1>5 DEF SendAccepted, Signalled, ThreadsOK, RecordsOK
<1>6. ASSUME NEW t \in Threads, NEW b \in Actors, Stop(t, b)
      PROVE  SpawnInv'
  BY <1>1, <1>6 DEF Stop, CloseBox, Signalled, ThreadsOK, RecordsOK
<1>7. ASSUME NEW a \in Actors, WorkerSettle(a)
      PROVE  SpawnInv'
  BY <1>1, <1>7 DEF WorkerSettle, ThreadsOK, RecordsOK
<1>8. ASSUME NEW a \in Actors,
             WorkerReturn(a) \/ WorkerExit(a) \/ WorkerSpurious(a)
      PROVE  SpawnInv'
  BY <1>1, <1>8 DEF WorkerReturn, WorkerExit, WorkerSpurious, InUserCode,
                    ThreadsOK
<1>9. ASSUME NEW a \in Actors,
             WorkerWait(a) \/ WorkerTake(a) \/ WorkerDrained(a)
      PROVE  SpawnInv'
  <2>1. CASE WorkerTake(a)
    BY <1>1, <2>1 DEF WorkerTake, AtLoop, ThreadsOK, RecordsOK
  <2>2. CASE WorkerWait(a) \/ WorkerDrained(a)
    BY <1>1, <2>2 DEF WorkerWait, WorkerDrained, AtLoop, ThreadsOK
  <2>3. QED
    BY <1>9, <2>1, <2>2
<1>10. CASE MainReturn \/ ShutdownSpurious \/ ShutdownLock \/ ShutdownWait
            \/ ShutdownUnlock
  BY <1>1, <1>10 DEF MainReturn, ShutdownSpurious, ShutdownLock, ShutdownWait,
                     ShutdownUnlock, ThreadsOK
<1>11. CASE ShutdownClose
  <2>1. PICK b \in Actors : b = Head(cursor)
    BY <1>1, <1>11, ListedTail DEF ShutdownClose, RecordsOK
  <2>2. /\ phase' = Signalled(b)
        /\ open' = [open EXCEPT ![b] = FALSE]
        /\ UNCHANGED <<registry, settled, accepted, handled, mailbox>>
    BY <1>11, <2>1 DEF ShutdownClose, CloseBox
  <2>3. QED
    BY <1>1, <2>2 DEF Signalled, ThreadsOK, RecordsOK
<1>12. CASE ShutdownQuiet \/ ShutdownReap \/ ShutdownJoin \/ ShutdownFree
            \/ ShutdownDone
  BY <1>1, <1>12 DEF ShutdownQuiet, ShutdownReap, ShutdownJoin, ShutdownFree,
                     ShutdownDone, ThreadsOK
<1>13. CASE UNCHANGED vars \/ \E t \in Threads, b \in Actors : UseAfterFree(t, b)
  BY <1>1, <1>13 DEF UseAfterFree, vars
<1>14. QED
  BY <1>2, <1>3, <1>4, <1>5, <1>6, <1>7, <1>8, <1>9, <1>10, <1>11, <1>12, <1>13
     DEF Next, UserCall, CallStep, Worker, Shutdown, Over

-----------------------------------------------------------------------------
(* Mailboxes.                                                              *)

LEMMA AppendShift ==
  ASSUME NEW h \in Seq(Msg), NEW q \in Seq(Msg), NEW m \in Msg
  PROVE  Append(h \o q, m) = h \o Append(q, m)
<1>1. /\ Append(h \o q, m) = (h \o q) \o <<m>>
      /\ Append(q, m) = q \o <<m>>
      /\ h \o q \in Seq(Msg) /\ <<m>> \in Seq(Msg)
  BY AppendIsConcat, ConcatProperties
<1>2. QED
  BY <1>1, ConcatAssociative

LEMMA HeadShift ==
  ASSUME NEW S, NEW h \in Seq(S), NEW q \in Seq(S), q # <<>>
  PROVE  h \o q = Append(h, Head(q)) \o Tail(q)
<1>1. Head(q) \in S /\ Tail(q) \in Seq(S) /\ q = <<Head(q)>> \o Tail(q)
  OBVIOUS
<1>2. PICK e \in S, r \in Seq(S) :
        e = Head(q) /\ r = Tail(q) /\ q = <<e>> \o r
  BY <1>1
<1>3. Append(h, e) = h \o <<e>> /\ <<e>> \in Seq(S)
  BY AppendIsConcat
<1>4. (h \o <<e>>) \o r = h \o (<<e>> \o r)
  BY <1>3, ConcatAssociative
<1>5. QED
  BY <1>2, <1>3, <1>4

LEMMA NothingLostStep == IInv /\ [Next]_vars => NothingLost'
<1> SUFFICES ASSUME IInv, [Next]_vars PROVE NothingLost'
  OBVIOUS
<1>1. ThreadsOK /\ RecordsOK /\ CallInv /\ SpawnInv /\ NothingLost
  BY DEF IInv, TypeOK
<1>2. ASSUME NEW t \in Threads, NEW b \in Actors, SendAccepted(t, b)
      PROVE  NothingLost'
  <2>1. [from |-> t, n |-> calls[t]] \in Msg
    BY <1>1, <1>2, MsgType DEF IInv, CallInv, SendAccepted, SendUnlock
  <2>2. accepted[b] = handled[b] \o mailbox[b]
    BY <1>1 DEF NothingLost
  <2>3. accepted'[b] = handled'[b] \o mailbox'[b]
    <3> DEFINE m == [from |-> t, n |-> calls[t]]
    <3>1. /\ accepted'[b] = Append(accepted[b], m)
          /\ mailbox'[b] = Append(mailbox[b], m)
          /\ handled'[b] = handled[b]
      BY <1>1, <1>2 DEF SendAccepted, RecordsOK
    <3>2. handled[b] \in Seq(Msg) /\ mailbox[b] \in Seq(Msg) /\ m \in Msg
      BY <1>1, <2>1 DEF RecordsOK
    <3> HIDE DEF m
    <3>3. QED
      BY <2>2, <3>1, <3>2, AppendShift
  <2>4. \A a \in Actors \ {b} :
          accepted'[a] = accepted[a] /\ mailbox'[a] = mailbox[a]
    BY <1>1, <1>2 DEF SendAccepted, RecordsOK
  <2>5. handled' = handled
    BY <1>2 DEF SendAccepted
  <2>6. QED
    BY <1>1, <2>3, <2>4, <2>5 DEF NothingLost
<1>3. ASSUME NEW b \in Actors, WorkerTake(b)
      PROVE  NothingLost'
  <2>1. accepted[b] = handled[b] \o mailbox[b]
    BY <1>1 DEF NothingLost
  <2>2. accepted[b] = handled'[b] \o mailbox'[b]
    <3>1. /\ handled'[b] = Append(handled[b], Head(mailbox[b]))
          /\ mailbox'[b] = Tail(mailbox[b])
          /\ mailbox[b] # <<>>
      BY <1>1, <1>3 DEF WorkerTake, RecordsOK
    <3>2. handled[b] \in Seq(Msg) /\ mailbox[b] \in Seq(Msg)
      BY <1>1 DEF RecordsOK
    <3>3. \A h \in Seq(Msg), q \in Seq(Msg) :
            q # <<>> => h \o q = Append(h, Head(q)) \o Tail(q)
      BY HeadShift, Zenon
    <3>4. QED
      BY <2>1, <3>1, <3>2, <3>3
  <2>3. \A a \in Actors \ {b} :
          handled'[a] = handled[a] /\ mailbox'[a] = mailbox[a]
    BY <1>1, <1>3 DEF WorkerTake, RecordsOK
  <2>4. accepted' = accepted
    BY <1>3 DEF WorkerTake, AtLoop
  <2>5. QED
    BY <1>1, <2>2, <2>3, <2>4 DEF NothingLost
<1>4. CASE UNCHANGED <<accepted, handled, mailbox>>
  BY <1>1, <1>4 DEF NothingLost
<1>5. QED
  BY <1>2, <1>3, <1>4
     DEF Next, UserCall, CallStep, Worker, Shutdown, Over, vars, SpawnOk,
         SpawnUnavailable, SendLockRegistry, SendLockBox, SendRefused, Stop,
         JoinRefused, JoinWait, JoinReturn, WorkerReturn, WorkerSettle,
         WorkerWait, WorkerDrained, WorkerSpurious, WorkerExit, AtLoop,
         MainReturn, ShutdownLock, ShutdownWait, ShutdownSpurious,
         ShutdownQuiet, ShutdownClose, ShutdownUnlock, ShutdownReap,
         ShutdownJoin, ShutdownFree, ShutdownDone, UseAfterFree

-----------------------------------------------------------------------------
(* The count is exact.                                                     *)

LEMMA SettledStep == IInv /\ [Next]_vars => SettledInv'
<1> SUFFICES ASSUME IInv, [Next]_vars PROVE SettledInv'
  OBVIOUS
<1>1. ThreadsOK /\ RecordsOK /\ CallInv /\ SpawnInv /\ SettledInv /\ NothingLost
  BY DEF IInv, TypeOK
<1> USE ThreadsAssumption
    DEF Threads, UserPhases, WorkerPhases, MainPhases, SettledInv, Spawned
<1>2. ASSUME NEW t \in Threads, NEW b \in Actors, SpawnOk(t, b)
      PROVE  SettledInv'
  BY <1>1, <1>2 DEF SpawnOk, ThreadsOK, RecordsOK, SpawnInv
<1>3. ASSUME NEW t \in Threads, NEW b \in Actors, SpawnUnavailable(t, b)
      PROVE  SettledInv'
  BY <1>1, <1>3 DEF SpawnUnavailable, ThreadsOK
<1>4. ASSUME NEW t \in Threads, NEW b \in Actors,
             \/ SendLockRegistry(t, b) \/ SendLockBox(t, b)
             \/ SendRefused(t, b) \/ JoinRefused(t, b) \/ JoinWait(t, b)
             \/ JoinReturn(t, b)
      PROVE  SettledInv'
  BY <1>1, <1>4 DEF SendLockRegistry, SendLockBox, SendRefused, JoinRefused,
                    JoinWait, JoinReturn
<1>5. ASSUME NEW t \in Threads, NEW b \in Actors,
             SendAccepted(t, b) \/ Stop(t, b)
      PROVE  SettledInv'
  <2>1. phase' = Signalled(b) /\ settled' = settled /\ handled' = handled
    BY <1>5 DEF SendAccepted, Stop
  <2>2. QED
    BY <1>1, <2>1 DEF Signalled, ThreadsOK
<1>6. ASSUME NEW b \in Actors, WorkerTake(b)
      PROVE  SettledInv'
  <2>1. Len(handled'[b]) = Len(handled[b]) + 1
    BY <1>1, <1>6, AppendProperties DEF WorkerTake, RecordsOK
  <2>2. \A a \in Actors \ {b} : handled'[a] = handled[a]
    BY <1>1, <1>6 DEF WorkerTake, RecordsOK
  <2>3. /\ phase[b] = "loop" /\ phase' = [phase EXCEPT ![b] = "turn"]
        /\ settled' = settled
    BY <1>6 DEF WorkerTake, AtLoop
  <2>4. settled'[b] = Len(handled'[b]) /\ phase'[b] = "turn"
    BY <1>1, <2>1, <2>3 DEF ThreadsOK
  <2>5. QED
    BY <1>1, <2>2, <2>3, <2>4 DEF ThreadsOK
<1>7. ASSUME NEW a \in Actors, WorkerSettle(a)
      PROVE  SettledInv'
  BY <1>1, <1>7 DEF WorkerSettle, ThreadsOK, RecordsOK
<1>8. ASSUME NEW a \in Actors,
             WorkerReturn(a) \/ WorkerExit(a) \/ WorkerSpurious(a)
      PROVE  SettledInv'
  BY <1>1, <1>8 DEF WorkerReturn, WorkerExit, WorkerSpurious, ThreadsOK
<1>9. ASSUME NEW a \in Actors, WorkerWait(a) \/ WorkerDrained(a)
      PROVE  SettledInv'
  BY <1>1, <1>9 DEF WorkerWait, WorkerDrained, AtLoop, ThreadsOK
<1>10. CASE MainReturn \/ ShutdownSpurious \/ ShutdownLock \/ ShutdownWait
            \/ ShutdownUnlock
  BY <1>1, <1>10 DEF MainReturn, ShutdownSpurious, ShutdownLock, ShutdownWait,
                     ShutdownUnlock, ThreadsOK
<1>11. CASE ShutdownClose
  <2>1. PICK b \in Actors : phase' = Signalled(b)
    BY <1>1, <1>11, ListedTail DEF ShutdownClose, RecordsOK
  <2>2. QED
    BY <1>1, <1>11, <2>1 DEF ShutdownClose, Signalled, ThreadsOK
<1>12. CASE ShutdownQuiet \/ ShutdownReap \/ ShutdownJoin \/ ShutdownFree
            \/ ShutdownDone
  BY <1>1, <1>12 DEF ShutdownQuiet, ShutdownReap, ShutdownJoin, ShutdownFree,
                     ShutdownDone, ThreadsOK
<1>13. CASE UNCHANGED vars \/ \E t \in Threads, b \in Actors : UseAfterFree(t, b)
  BY <1>1, <1>13 DEF UseAfterFree, vars
<1>14. QED
  BY <1>2, <1>3, <1>4, <1>5, <1>6, <1>7, <1>8, <1>9, <1>10, <1>11, <1>12, <1>13
     DEF Next, UserCall, CallStep, Worker, Shutdown, Over

LEMMA IntervalGrow ==
  ASSUME NEW i \in Nat, NEW j \in Nat, i <= j + 1
  PROVE  i..(j + 1) = (i..j) \cup {j + 1}
  OBVIOUS

LEMMA IntervalShrink ==
  ASSUME NEW i \in Nat, NEW j \in Nat
  PROVE  (i + 1)..j = (i..j) \ {i}
  OBVIOUS

LEMMA CountStep == IInv /\ [Next]_vars => CountInv'
<1> SUFFICES ASSUME IInv, [Next]_vars PROVE CountInv'
  OBVIOUS
<1>1. /\ ThreadsOK /\ RecordsOK /\ CallInv /\ SpawnInv /\ NothingLost
      /\ IsFiniteSet(Owed) /\ pending = Cardinality(Owed)
  BY DEF IInv, TypeOK, CountInv, PendingExact
<1>2. ASSUME NEW t \in Threads, NEW b \in Actors, SpawnOk(t, b)
      PROVE  CountInv'
  <2>1. <<b, 0>> \notin Owed
    BY <1>2, OwedMember DEF SpawnOk, Spawned
  <2>2. \A a \in Actors : a # b => OwedBy(a)' = OwedBy(a)
    BY <1>1, <1>2, ThreadsAssumption
       DEF OwedBy, SpawnOk, Spawned, ThreadsOK, Threads
  <2>3. OwedBy(b) = {} /\ OwedBy(b)' = {<<b, 0>>}
    BY <1>1, <1>2, ThreadsAssumption
       DEF OwedBy, SpawnOk, Spawned, ThreadsOK, Threads, SpawnInv, RecordsOK
  <2>4. Owed' = Owed \cup {<<b, 0>>}
    BY <2>2, <2>3 DEF Owed
  <2>5. QED
    BY <1>1, <1>2, <2>1, <2>4, FS_AddElement
       DEF CountInv, PendingExact, SpawnOk
<1>3. ASSUME NEW t \in Threads, NEW b \in Actors, SendAccepted(t, b)
      PROVE  CountInv'
  <2>1. Spawned(b) /\ settled[b] \in Nat /\ settled[b] <= Len(accepted[b]) + 1
    <3>1. Spawned(b)
      BY <1>1, <1>3 DEF SendAccepted, SendUnlock, CallInv, SpawnInv
    <3>2. settled[b] <= Len(handled[b]) + 1 /\ settled[b] \in Nat
      BY <1>1, <3>1 DEF IInv, SettledInv, RecordsOK
    <3>3. handled[b] \in Seq(Msg) /\ mailbox[b] \in Seq(Msg)
      BY <1>1 DEF RecordsOK
    <3>4. Len(accepted[b]) = Len(handled[b]) + Len(mailbox[b])
      BY <1>1, <3>3, ConcatProperties DEF NothingLost
    <3>5. Len(handled[b]) \in Nat /\ Len(mailbox[b]) \in Nat
      BY <3>3
    <3>6. Len(accepted[b]) \in Nat /\ Len(handled[b]) <= Len(accepted[b])
      BY <3>4, <3>5, UpTo
    <3>7. QED
      BY <3>1, <3>2, <3>5, <3>6
  <2> DEFINE k == Len(accepted[b]) + 1
  <2>2. k \in Nat /\ Len(accepted'[b]) = k
    BY <1>1, <1>3, AppendProperties DEF SendAccepted, RecordsOK
  <2>3. <<b, k>> \notin Owed
    <3>1. k \notin settled[b]..Len(accepted[b])
      BY <1>1 DEF RecordsOK
    <3>2. QED
      BY <3>1, OwedMember
  <2>4. \A a \in Actors : Spawned(a)' <=> Spawned(a)
    BY <1>1, <1>3, ThreadsAssumption
       DEF SendAccepted, Signalled, Spawned, ThreadsOK, Threads
  <2>5. \A a \in Actors : a # b => OwedBy(a)' = OwedBy(a)
    BY <1>1, <1>3, <2>4 DEF OwedBy, SendAccepted, RecordsOK
  <2>6. OwedBy(b)' = OwedBy(b) \cup {<<b, k>>}
    <3>1. settled[b]..k = (settled[b]..Len(accepted[b])) \cup {k}
      BY <1>1, <2>1, IntervalGrow DEF RecordsOK
    <3>2. OwedBy(b) = {b} \X (settled[b]..Len(accepted[b]))
      BY <2>1 DEF OwedBy
    <3>3. OwedBy(b)' = {b} \X (settled[b]..k)
      BY <1>3, <2>1, <2>2, <2>4 DEF OwedBy, SendAccepted
    <3>4. QED
      BY <3>1, <3>2, <3>3
  <2>7. Owed' = Owed \cup {<<b, k>>}
    BY <2>5, <2>6 DEF Owed
  <2>8. QED
    BY <1>1, <1>3, <2>3, <2>7, FS_AddElement
       DEF CountInv, PendingExact, SendAccepted
<1>4. ASSUME NEW a \in Actors, WorkerSettle(a)
      PROVE  CountInv'
  <2> DEFINE k == settled[a]
  <2>1. Spawned(a) /\ k \in 0..Len(accepted[a])
    BY <1>4, SettleOwes DEF WorkerSettle, Spawned
  <2>2. \A c \in Actors : Spawned(c)' <=> Spawned(c)
    BY <1>1, <1>4, ThreadsAssumption
       DEF WorkerSettle, Spawned, ThreadsOK, Threads
  <2>3. \A c \in Actors : c # a => OwedBy(c)' = OwedBy(c)
    BY <1>1, <1>4, <2>2 DEF OwedBy, WorkerSettle, RecordsOK
  <2>4. OwedBy(a)' = OwedBy(a) \ {<<a, k>>}
    <3>1. (k + 1)..Len(accepted[a]) = (k..Len(accepted[a])) \ {k}
      BY <1>1, <2>1, IntervalShrink DEF RecordsOK
    <3>2. OwedBy(a) = {a} \X (k..Len(accepted[a]))
      BY <2>1 DEF OwedBy
    <3>3. OwedBy(a)' = {a} \X ((k + 1)..Len(accepted[a]))
      BY <1>1, <1>4, <2>1, <2>2 DEF OwedBy, WorkerSettle, RecordsOK
    <3>4. QED
      BY <3>1, <3>2, <3>3
  <2>5. \A c \in Actors : c # a => <<a, k>> \notin OwedBy(c)
    BY DEF OwedBy
  <2>6. Owed' = Owed \ {<<a, k>>}
    BY <2>3, <2>4, <2>5 DEF Owed
  <2>7. QED
    BY <1>4, <2>6, SettleOwes DEF CountInv, PendingExact, WorkerSettle
<1>5. CASE /\ UNCHANGED <<pending, accepted, settled>>
           /\ \A a \in Actors : Spawned(a)' <=> Spawned(a)
  BY <1>1, <1>5, OwedSame DEF CountInv, PendingExact
<1>6. ASSUME NEW t \in Threads, UserCall(t), \A b \in Actors : ~SpawnOk(t, b)
      PROVE  CountInv'
  <2>1. PICK b \in Actors :
          \/ SpawnUnavailable(t, b) \/ SendLockRegistry(t, b) \/ Stop(t, b)
          \/ JoinRefused(t, b) \/ JoinWait(t, b)
    BY <1>6 DEF UserCall
  <2>2. UNCHANGED <<pending, accepted, settled>>
    BY <2>1 DEF SpawnUnavailable, SendLockRegistry, Stop, JoinRefused, JoinWait
  <2>3. \A a \in Actors : Spawned(a)' <=> Spawned(a)
    BY <1>1, <2>1, ThreadsAssumption
       DEF SpawnUnavailable, SendLockRegistry, Stop, JoinRefused, JoinWait,
           Signalled, Spawned, ThreadsOK, Threads
  <2>4. QED
    BY <1>5, <2>2, <2>3
<1>7. ASSUME NEW t \in Threads, CallStep(t), \A b \in Actors : ~SendAccepted(t, b)
      PROVE  CountInv'
  <2>1. UNCHANGED <<pending, accepted, settled, phase>>
    BY <1>7 DEF CallStep, SendLockBox, SendRefused, JoinReturn
  <2>2. QED
    BY <1>5, <2>1 DEF Spawned
<1>8. ASSUME NEW a \in Actors, Worker(a) \/ WorkerSpurious(a), ~WorkerSettle(a)
      PROVE  CountInv'
  <2>1. UNCHANGED <<pending, accepted, settled>>
    BY <1>8 DEF Worker, WorkerReturn, WorkerWait, WorkerTake, WorkerDrained,
                WorkerExit, WorkerSpurious, AtLoop
  <2>2. \A c \in Actors : Spawned(c)' <=> Spawned(c)
    BY <1>1, <1>8, ThreadsAssumption
       DEF Worker, WorkerReturn, WorkerWait, WorkerTake, WorkerDrained,
           WorkerExit, WorkerSpurious, AtLoop, Spawned, ThreadsOK, Threads
  <2>3. QED
    BY <1>5, <2>1, <2>2
<1>9. CASE MainReturn \/ Shutdown \/ ShutdownSpurious
  <2>1. UNCHANGED <<pending, accepted, settled>>
    BY <1>9 DEF MainReturn, Shutdown, ShutdownSpurious, ShutdownLock,
         ShutdownWait, ShutdownQuiet, ShutdownClose, ShutdownUnlock,
         ShutdownReap, ShutdownJoin, ShutdownFree, ShutdownDone
  <2>2. \A c \in Actors : Spawned(c)' <=> Spawned(c)
    <3>1. CASE ShutdownClose
      <4>1. PICK b \in Actors : phase' = Signalled(b)
        BY <1>1, <3>1, ListedTail DEF ShutdownClose, RecordsOK
      <4>2. QED
        BY <1>1, <4>1, ThreadsAssumption
           DEF Signalled, Spawned, ThreadsOK, Threads
    <3>2. CASE ~ShutdownClose
      <4>1. PICK p \in MainPhases : phase' = [phase EXCEPT ![Main] = p]
        BY <1>1, <1>9, <3>2
           DEF MainReturn, Shutdown, ShutdownSpurious, ShutdownLock,
               ShutdownWait, ShutdownQuiet, ShutdownUnlock, ShutdownReap,
               ShutdownJoin, ShutdownFree, ShutdownDone, MainPhases
      <4>2. QED
        BY <1>1, <4>1, ThreadsAssumption DEF Spawned, ThreadsOK, Threads
    <3>3. QED
      BY <3>1, <3>2
  <2>3. QED
    BY <1>5, <2>1, <2>2
<1>10. CASE UNCHANGED vars \/ \E t \in Threads, b \in Actors : UseAfterFree(t, b)
  BY <1>5, <1>10 DEF UseAfterFree, vars, Spawned
<1>11. QED
  BY <1>2, <1>3, <1>4, <1>6, <1>7, <1>8, <1>9, <1>10 DEF Next, Over

-----------------------------------------------------------------------------
(* Workers.                                                                *)

WorkerInv == NoLostWakeup /\ StoppedDrained

LEMMA WorkerStep == IInv /\ [Next]_vars => WorkerInv'
<1> SUFFICES ASSUME IInv, [Next]_vars PROVE WorkerInv'
  OBVIOUS
<1>1. ThreadsOK /\ RecordsOK /\ CallInv /\ SpawnInv /\ WorkerInv
  BY DEF IInv, TypeOK, WorkerInv
<1> USE ThreadsAssumption
    DEF Threads, UserPhases, WorkerPhases, MainPhases, WorkerInv, NoLostWakeup,
        StoppedDrained
<1>2. ASSUME NEW t \in Threads, NEW b \in Actors,
             SpawnOk(t, b) \/ SpawnUnavailable(t, b)
      PROVE  WorkerInv'
  <2>1. CASE SpawnOk(t, b)
    BY <1>1, <2>1 DEF SpawnOk, ThreadsOK, RecordsOK
  <2>2. CASE SpawnUnavailable(t, b)
    BY <1>1, <2>2 DEF SpawnUnavailable, ThreadsOK
  <2>3. QED
    BY <1>2, <2>1, <2>2
<1>3. ASSUME NEW t \in Threads, NEW b \in Actors,
             \/ SendLockRegistry(t, b) \/ SendLockBox(t, b)
             \/ SendRefused(t, b) \/ JoinRefused(t, b) \/ JoinWait(t, b)
             \/ JoinReturn(t, b)
      PROVE  WorkerInv'
  BY <1>1, <1>3 DEF SendLockRegistry, SendLockBox, SendRefused, JoinRefused,
                    JoinWait, JoinReturn
<1>4. ASSUME NEW t \in Threads, NEW b \in Actors, SendAccepted(t, b)
      PROVE  WorkerInv'
  <2>1. /\ open[b] /\ open' = open /\ phase' = Signalled(b)
        /\ \A a \in Actors \ {b} : mailbox'[a] = mailbox[a]
    BY <1>1, <1>4 DEF SendAccepted, RecordsOK
  <2>2. QED
    BY <1>1, <2>1 DEF Signalled, ThreadsOK
<1>5. ASSUME NEW t \in Threads, NEW b \in Actors, Stop(t, b)
      PROVE  WorkerInv'
  BY <1>1, <1>5 DEF Stop, CloseBox, Signalled, ThreadsOK, RecordsOK
<1>6. ASSUME NEW a \in Actors, WorkerTake(a)
      PROVE  WorkerInv'
  BY <1>1, <1>6 DEF WorkerTake, AtLoop, ThreadsOK, RecordsOK
<1>7. ASSUME NEW a \in Actors, WorkerWait(a) \/ WorkerDrained(a)
      PROVE  WorkerInv'
  BY <1>1, <1>7 DEF WorkerWait, WorkerDrained, AtLoop, ThreadsOK
<1>8. ASSUME NEW a \in Actors,
             \/ WorkerReturn(a) \/ WorkerSettle(a) \/ WorkerExit(a)
             \/ WorkerSpurious(a)
      PROVE  WorkerInv'
  BY <1>1, <1>8 DEF WorkerReturn, WorkerSettle, WorkerExit, WorkerSpurious,
                    ThreadsOK
<1>9. CASE MainReturn \/ ShutdownSpurious \/ ShutdownLock \/ ShutdownWait
           \/ ShutdownUnlock
  BY <1>1, <1>9 DEF MainReturn, ShutdownSpurious, ShutdownLock, ShutdownWait,
                    ShutdownUnlock, ThreadsOK
<1>10. CASE ShutdownClose
  <2>1. PICK b \in Actors : b = Head(cursor)
    BY <1>1, <1>10, ListedTail DEF ShutdownClose, RecordsOK
  <2>2. /\ phase' = Signalled(b) /\ mailbox' = mailbox
        /\ open' = [open EXCEPT ![b] = FALSE]
    BY <1>10, <2>1 DEF ShutdownClose, CloseBox
  <2>3. QED
    BY <1>1, <2>2 DEF Signalled, ThreadsOK, RecordsOK
<1>11. CASE ShutdownQuiet \/ ShutdownReap \/ ShutdownJoin \/ ShutdownFree
            \/ ShutdownDone
  BY <1>1, <1>11 DEF ShutdownQuiet, ShutdownReap, ShutdownJoin, ShutdownFree,
                     ShutdownDone, ThreadsOK
<1>12. CASE UNCHANGED vars \/ \E t \in Threads, b \in Actors : UseAfterFree(t, b)
  BY <1>1, <1>12 DEF UseAfterFree, vars
<1>13. QED
  BY <1>2, <1>3, <1>4, <1>5, <1>6, <1>7, <1>8, <1>9, <1>10, <1>11, <1>12
     DEF Next, UserCall, CallStep, Worker, Shutdown, Over

-----------------------------------------------------------------------------
(* Shutdown.                                                               *)

LEMMA TightSum ==
  /\ \A i, j \in Nat : ~(i > i + j)
  /\ \A i, j \in Nat : i + 1 > i + j => j = 0
  OBVIOUS

\* A count of zero means that nothing runs and nothing is queued.
LEMMA ZeroIsQuiet ==
  ASSUME IInv, pending = 0
  PROVE  \A a \in Actors :
           mailbox[a] = <<>> /\ phase[a] \notin {"starting", "turn", "settle"}
<1> SUFFICES ASSUME NEW a \in Actors, Spawned(a)
             PROVE  /\ mailbox[a] = <<>>
                    /\ phase[a] \notin {"starting", "turn", "settle"}
  BY DEF IInv, SpawnInv, Spawned
<1>1. Owed = {}
  BY FS_EmptySet DEF IInv, CountInv, PendingExact
<1>2. settled[a] \notin settled[a]..Len(accepted[a])
  BY <1>1, OwedMember
<1>3. /\ settled[a] \in Nat /\ Len(handled[a]) \in Nat
      /\ handled[a] \in Seq(Msg) /\ mailbox[a] \in Seq(Msg)
      /\ Len(accepted[a]) \in Nat /\ Len(mailbox[a]) \in Nat
  BY DEF IInv, TypeOK, RecordsOK
<1>4. settled[a] > Len(accepted[a])
  BY <1>2, <1>3
<1>5. Len(accepted[a]) = Len(handled[a]) + Len(mailbox[a])
  BY <1>3, ConcatProperties DEF IInv, NothingLost
<1>6. settled[a] = IF phase[a] \in {"starting", "turn", "settle"}
                     THEN Len(handled[a]) ELSE Len(handled[a]) + 1
  BY DEF IInv, SettledInv
<1>7. Len(mailbox[a]) = 0 /\ phase[a] \notin {"starting", "turn", "settle"}
  BY <1>3, <1>4, <1>5, <1>6, TightSum
<1>8. QED
  BY <1>3, <1>7, EmptySeq

LEMMA CloseStep == IInv /\ [Next]_vars => CloseInv'
<1> SUFFICES ASSUME IInv, [Next]_vars PROVE CloseInv'
  OBVIOUS
<1>1. ThreadsOK /\ RecordsOK /\ CallInv /\ SpawnInv /\ CloseInv
  BY DEF IInv, TypeOK
<1> USE ThreadsAssumption
    DEF Threads, UserPhases, WorkerPhases, MainPhases, CloseInv
<1>2. ASSUME NEW t \in Threads, NEW b \in Actors, SpawnOk(t, b)
      PROVE  CloseInv'
  BY <1>1, <1>2 DEF SpawnOk, ThreadsOK, RecordsOK
<1>3. ASSUME NEW t \in Threads, NEW b \in Actors,
             \/ SpawnUnavailable(t, b)
             \/ SendLockRegistry(t, b) \/ SendLockBox(t, b)
             \/ SendRefused(t, b) \/ JoinRefused(t, b) \/ JoinWait(t, b)
             \/ JoinReturn(t, b)
      PROVE  CloseInv'
  BY <1>1, <1>3 DEF SpawnUnavailable, SendLockRegistry, SendLockBox,
                    SendRefused, JoinRefused, JoinWait, JoinReturn, ThreadsOK
<1>4. ASSUME NEW t \in Threads, NEW b \in Actors, SendAccepted(t, b)
      PROVE  CloseInv'
  BY <1>1, <1>4 DEF SendAccepted, Signalled, ThreadsOK
<1>5. ASSUME NEW t \in Threads, NEW b \in Actors, Stop(t, b)
      PROVE  CloseInv'
  BY <1>1, <1>5 DEF Stop, CloseBox, Signalled, ThreadsOK, RecordsOK
<1>6. ASSUME NEW a \in Actors, Worker(a) \/ WorkerSpurious(a)
      PROVE  CloseInv'
  <2>1. UNCHANGED <<open, cursor, shuttingDown>>
    BY <1>6 DEF Worker, WorkerReturn, WorkerSettle, WorkerWait, WorkerTake,
                WorkerDrained, WorkerExit, WorkerSpurious, AtLoop
  <2>2. \/ phase'[Main] = phase[Main]
        \/ phase'[Main] = "shutdown"
    BY <1>1, <1>6
       DEF Worker, WorkerReturn, WorkerSettle, WorkerWait, WorkerTake,
           WorkerDrained, WorkerExit, WorkerSpurious, AtLoop, ThreadsOK
  <2>3. QED
    BY <1>1, <2>1, <2>2
<1>7. CASE ShutdownQuiet
  BY <1>1, <1>7 DEF ShutdownQuiet, SpawnInv, ThreadsOK
<1>8. CASE ShutdownClose
  <2>1. PICK b \in Actors : /\ b = Head(cursor)
                            /\ Listed(cursor) = {b} \cup Listed(Tail(cursor))
    BY <1>1, <1>8, ListedTail DEF ShutdownClose, RecordsOK
  <2>2. /\ phase' = Signalled(b) /\ phase[Main] = "close"
        /\ open' = [open EXCEPT ![b] = FALSE]
        /\ cursor' = Tail(cursor) /\ shuttingDown' = shuttingDown
    BY <1>8, <2>1 DEF ShutdownClose, CloseBox
  <2>3. phase'[Main] = "close"
    BY <1>1, <2>2 DEF Signalled, ThreadsOK
  <2>4. QED
    BY <1>1, <2>1, <2>2, <2>3 DEF RecordsOK
<1>9. CASE ShutdownUnlock
  BY <1>1, <1>9, ListedEmpty DEF ShutdownUnlock, ThreadsOK
<1>10. CASE ShutdownReap
  BY <1>1, <1>10 DEF ShutdownReap, ThreadsOK
<1>11. CASE ShutdownJoin \/ ShutdownFree \/ ShutdownDone
  BY <1>1, <1>11 DEF ShutdownJoin, ShutdownFree, ShutdownDone, ThreadsOK
<1>12. CASE MainReturn \/ ShutdownSpurious \/ ShutdownLock \/ ShutdownWait
  BY <1>1, <1>12 DEF MainReturn, ShutdownSpurious, ShutdownLock, ShutdownWait,
                     InUserCode, ThreadsOK
<1>13. CASE UNCHANGED vars \/ \E t \in Threads, b \in Actors : UseAfterFree(t, b)
  BY <1>1, <1>13 DEF UseAfterFree, vars
<1>14. QED
  BY <1>2, <1>3, <1>4, <1>5, <1>6, <1>7, <1>8, <1>9, <1>10, <1>11, <1>12, <1>13
     DEF Next, UserCall, CallStep, Shutdown, Over

LEMMA QuietStep == IInv /\ [Next]_vars => ShutdownIsQuiet'
<1> SUFFICES ASSUME IInv, [Next]_vars PROVE ShutdownIsQuiet'
  OBVIOUS
<1>1. /\ ThreadsOK /\ RecordsOK /\ CallInv /\ SpawnInv /\ CloseInv
      /\ ShutdownIsQuiet /\ StoppedDrained
  BY DEF IInv, TypeOK
<1> USE ThreadsAssumption
    DEF Threads, UserPhases, WorkerPhases, MainPhases, ShutdownIsQuiet
<1>2. ASSUME NEW t \in Threads, NEW b \in Actors, SpawnOk(t, b)
      PROVE  ShutdownIsQuiet'
  BY <1>1, <1>2 DEF SpawnOk, ThreadsOK, CloseInv
<1>3. ASSUME NEW t \in Threads, NEW b \in Actors, SpawnUnavailable(t, b)
      PROVE  ShutdownIsQuiet'
  BY <1>1, <1>3 DEF SpawnUnavailable, ThreadsOK
<1>4. ASSUME NEW t \in Threads, NEW b \in Actors,
             \/ SendLockRegistry(t, b) \/ SendLockBox(t, b)
             \/ SendRefused(t, b) \/ JoinRefused(t, b) \/ JoinWait(t, b)
             \/ JoinReturn(t, b)
      PROVE  ShutdownIsQuiet'
  BY <1>1, <1>4 DEF SendLockRegistry, SendLockBox, SendRefused, JoinRefused,
                    JoinWait, JoinReturn
\* A sender that gets this far holds the registry lock, so shutdown is not
\* closing; and it finds the mailbox open, so shutdown has not closed it.
<1>5. ASSUME NEW t \in Threads, NEW b \in Actors, SendAccepted(t, b)
      PROVE  ShutdownIsQuiet'
  <2>1. phase[Main] \notin {"close", "reap", "join", "free", "done"}
    BY <1>1, <1>5 DEF SendAccepted, SendUnlock, CallInv, CloseInv, ThreadsOK
  <2>2. phase'[Main] = phase[Main]
    BY <1>1, <1>5 DEF SendAccepted, Signalled, ThreadsOK
  <2>3. QED
    BY <2>1, <2>2
<1>6. ASSUME NEW t \in Threads, NEW b \in Actors, Stop(t, b)
      PROVE  ShutdownIsQuiet'
  BY <1>1, <1>6 DEF Stop, Signalled, ThreadsOK
<1>7. ASSUME NEW a \in Actors, WorkerTake(a)
      PROVE  ShutdownIsQuiet'
  BY <1>1, <1>7 DEF WorkerTake, AtLoop, ThreadsOK
<1>8. ASSUME NEW a \in Actors, WorkerSettle(a)
      PROVE  ShutdownIsQuiet'
  BY <1>1, <1>8 DEF WorkerSettle, ThreadsOK
<1>9. ASSUME NEW a \in Actors,
             \/ WorkerReturn(a) \/ WorkerExit(a) \/ WorkerSpurious(a)
             \/ WorkerWait(a) \/ WorkerDrained(a)
      PROVE  ShutdownIsQuiet'
  BY <1>1, <1>9 DEF WorkerReturn, WorkerExit, WorkerSpurious, WorkerWait,
                    WorkerDrained, AtLoop, ThreadsOK
<1>10. CASE ShutdownQuiet
  <2>1. /\ pending = 0 /\ mailbox' = mailbox
        /\ phase' = [phase EXCEPT ![Main] = "close"]
    BY <1>10 DEF ShutdownQuiet
  <2>2. QED
    BY <1>1, <2>1, ZeroIsQuiet DEF ThreadsOK
<1>11. CASE ShutdownClose
  <2>1. PICK b \in Actors : phase' = Signalled(b)
    BY <1>1, <1>11, ListedTail DEF ShutdownClose, RecordsOK
  <2>2. mailbox' = mailbox /\ phase[Main] = "close"
    BY <1>11 DEF ShutdownClose
  <2>3. QED
    BY <1>1, <2>1, <2>2 DEF Signalled, ThreadsOK
<1>12. CASE ShutdownUnlock \/ ShutdownReap \/ ShutdownJoin \/ ShutdownFree
            \/ ShutdownDone
  BY <1>1, <1>12 DEF ShutdownUnlock, ShutdownReap, ShutdownJoin, ShutdownFree,
                     ShutdownDone, ThreadsOK
<1>13. CASE MainReturn \/ ShutdownSpurious \/ ShutdownLock \/ ShutdownWait
  BY <1>1, <1>13 DEF MainReturn, ShutdownSpurious, ShutdownLock, ShutdownWait,
                     ThreadsOK
<1>14. CASE UNCHANGED vars \/ \E t \in Threads, b \in Actors : UseAfterFree(t, b)
  BY <1>1, <1>14 DEF UseAfterFree, vars
<1>15. QED
  BY <1>2, <1>3, <1>4, <1>5, <1>6, <1>7, <1>8, <1>9, <1>10, <1>11, <1>12,
     <1>13, <1>14
     DEF Next, UserCall, CallStep, Worker, Shutdown, Over

-----------------------------------------------------------------------------
(* The theorems.                                                           *)

LEMMA InitIInv == Init => IInv
<1> SUFFICES ASSUME Init PROVE IInv
  OBVIOUS
<1>1. ThreadsOK
  BY ThreadsAssumption
     DEF Init, ThreadsOK, Threads, WorkerPhases, MainPhases, Ops
<1>2. RecordsOK
  <2>1. <<>> \in Seq(Msg) /\ <<>> \in Seq(Actors)
    OBVIOUS
  <2>2. QED
    BY <2>1 DEF Init, RecordsOK
<1>3. CallInv
  BY CallsAssumption, ThreadsAssumption DEF Init, CallInv, Threads
<1>4. \A a \in Actors : ~Spawned(a) /\ phase[a] = "unborn"
  BY ThreadsAssumption DEF Init, Spawned, Threads
<1>5. SpawnInv /\ SettledInv
  BY <1>4, ListedEmpty DEF Init, SpawnInv, SettledInv
<1>6. phase[Main] = "main"
  BY DEF Init, Threads
<1>7. CloseInv /\ ShutdownIsQuiet
  BY <1>6 DEF CloseInv, ShutdownIsQuiet
<1>8. NothingLost
  BY DEF Init, NothingLost
<1>9. NoLostWakeup /\ StoppedDrained
  BY <1>4 DEF NoLostWakeup, StoppedDrained
<1>10. Owed = {}
  BY <1>4 DEF Owed, OwedBy
<1>11. CountInv
  BY <1>10, FS_EmptySet DEF Init, CountInv, PendingExact
<1>12. QED
  BY <1>1, <1>2, <1>3, <1>5, <1>7, <1>8, <1>9, <1>11 DEF IInv, TypeOK

\* Every reachable state satisfies the inductive invariant.
THEOREM Invariance == Spec => []IInv
<1>1. IInv /\ [Next]_vars => IInv'
  BY ThreadsStep, RecordsStep, CallStepInv, SpawnStep, SettledStep, CloseStep,
     NothingLostStep, CountStep, WorkerStep, QuietStep
     DEF IInv, TypeOK, WorkerInv
<1>2. QED
  BY InitIInv, <1>1, PTL DEF Spec

\* Every variable keeps its type: zg_actor_pending, a size_t in the program,
\* never goes below zero, whatever the threads do.
THEOREM TypeCorrect == Spec => []TypeOK
<1>1. IInv => TypeOK
  BY DEF IInv
<1>2. QED
  BY Invariance, <1>1, PTL

\* zg_actor_pending is the number of live startups, queued messages and turns
\* under way, at every step of every program.
THEOREM CountIsExact == Spec => []PendingExact
<1>1. IInv => PendingExact
  BY DEF IInv, CountInv
<1>2. QED
  BY Invariance, <1>1, PTL

\* No accepted message is lost, repeated or overtaken.
THEOREM MessagesKept == Spec => []NothingLost
<1>1. IInv => NothingLost
  BY DEF IInv
<1>2. QED
  BY Invariance, <1>1, PTL

\* A worker never sleeps on a message or on a close.
THEOREM WakeupsKept == Spec => []NoLostWakeup
<1>1. IInv => NoLostWakeup
  BY DEF IInv
<1>2. QED
  BY Invariance, <1>1, PTL

\* Stopped hooks run on closed and drained actors.
THEOREM DrainedFirst == Spec => []StoppedDrained
<1>1. IInv => StoppedDrained
  BY DEF IInv
<1>2. QED
  BY Invariance, <1>1, PTL

\* zg_actor_shutdown tears down a quiet program.
THEOREM QuietTeardown == Spec => []ShutdownIsQuiet
<1>1. IInv => ShutdownIsQuiet
  BY DEF IInv
<1>2. QED
  BY Invariance, <1>1, PTL

-----------------------------------------------------------------------------
(* The messages of one sender.                                              *)

\* A sender is inside the call whose message it will enter.
Sending(t) == op[t] \in {"sendBox", "sendIn"}

\* An admitted message is of a call its sender has made and, while it is
\* sending, of an earlier one.
Past(m) ==
  m.n <= calls[m.from] /\ (Sending(m.from) => m.n < calls[m.from])

\* The messages of a list are past and those of one sender in order.
InOrder(s) ==
  /\ \A i \in 1..Len(s) : Past(s[i])
  /\ \A i, j \in 1..Len(s) :
       i < j /\ s[i].from = s[j].from => s[i].n < s[j].n

OrderInv == \A a \in Actors : InOrder(accepted[a])

\* Past, of a message that was there before the step, after it.
StillPast(m) ==
  /\ m.n <= calls'[m.from]
  /\ op'[m.from] \in {"sendBox", "sendIn"} => m.n < calls'[m.from]

LEMMA InOrderNext ==
  ASSUME NEW a \in Actors,
         \A i \in 1..Len(accepted'[a]) : StillPast(accepted'[a][i]),
         \A i, j \in 1..Len(accepted'[a]) :
           i < j /\ accepted'[a][i].from = accepted'[a][j].from =>
             accepted'[a][i].n < accepted'[a][j].n
  PROVE  InOrder(accepted[a])'
  BY DEF InOrder, Past, StillPast, Sending

LEMMA MsgFields ==
  ASSUME NEW m \in Msg
  PROVE  m.from \in Threads /\ m.n \in Nat
<1>1. PICK t \in Threads : m \in [from : {t}, n : 1..MaxCalls[t]]
  BY DEF Msg
<1>2. MaxCalls[t] \in Nat
  BY CallsAssumption
<1>3. m.n \in 1..MaxCalls[t] /\ m.from = t
  BY <1>1
<1>4. QED
  BY <1>2, <1>3

LEMMA AcceptedMsg ==
  ASSUME IInv, NEW a \in Actors, NEW i \in 1..Len(accepted[a])
  PROVE  accepted[a][i] \in Msg
  BY DEF IInv, TypeOK, RecordsOK

\* A thread that makes no call, or begins one, leaves what is past in the past.
LEMMA OrderStays ==
  ASSUME IInv, OrderInv, accepted' = accepted,
         \A t \in Threads :
           \/ calls'[t] = calls[t] /\ (Sending(t)' => Sending(t))
           \/ calls'[t] = calls[t] + 1
  PROVE  OrderInv'
<1>1. ASSUME NEW a \in Actors, NEW i \in 1..Len(accepted[a])
      PROVE  StillPast(accepted[a][i])
  <2> DEFINE m == accepted[a][i]
  <2>1. m.from \in Threads /\ m.n \in Nat
    BY AcceptedMsg, MsgFields
  <2>2. Past(m)
    BY DEF OrderInv, InOrder
  <2>3. calls[m.from] \in Nat
    BY <2>1 DEF IInv, TypeOK, ThreadsOK
  <2>4. /\ Sending(m.from) <=> op[m.from] \in {"sendBox", "sendIn"}
        /\ \/ /\ calls'[m.from] = calls[m.from]
              /\ op'[m.from] \in {"sendBox", "sendIn"} => Sending(m.from)
           \/ calls'[m.from] = calls[m.from] + 1
    BY <2>1 DEF Sending
  <2> HIDE DEF m
  <2>5. QED
    BY <2>1, <2>2, <2>3, <2>4 DEF Past, StillPast, m
<1>2. ASSUME NEW a \in Actors PROVE InOrder(accepted[a])'
  BY <1>1, InOrderNext DEF OrderInv, InOrder
<1>3. QED
  BY <1>2 DEF OrderInv

\* A message that is admitted is later than all of its sender before it.
LEMMA OrderAdmits ==
  ASSUME IInv, OrderInv, NEW t \in Threads, NEW b \in Actors, SendAccepted(t, b)
  PROVE  OrderInv'
<1> DEFINE m == [from |-> t, n |-> calls[t]]
<1>1. /\ op[t] = "sendIn" /\ op' = [op EXCEPT ![t] = "none"] /\ calls' = calls
      /\ accepted' = [accepted EXCEPT ![b] = Append(@, m)]
  BY DEF SendAccepted, SendUnlock
<1>2. /\ op \in [Threads -> Ops] /\ calls \in [Threads -> Nat]
      /\ accepted \in [Actors -> Seq(Msg)]
  BY DEF IInv, TypeOK, ThreadsOK, RecordsOK
<1>3. m.from = t /\ m.n = calls[t] /\ Sending(t)
  BY <1>1 DEF Sending
<1> HIDE DEF m
<1>4. /\ op'[t] \notin {"sendBox", "sendIn"}
      /\ \A u \in Threads : op'[u] \in {"sendBox", "sendIn"} => Sending(u)
  BY <1>1, <1>2 DEF Sending, Ops
<1>5. ASSUME NEW x \in Msg, Past(x) PROVE StillPast(x)
  <2>1. x.from \in Threads /\ x.n \in Nat
    BY MsgFields
  <2>2. /\ calls'[x.from] = calls[x.from]
        /\ op'[x.from] \in {"sendBox", "sendIn"} => Sending(x.from)
    BY <1>1, <1>4, <2>1
  <2>3. QED
    BY <1>5, <2>2 DEF Past, StillPast
<1>6. StillPast(m)
  <2>1. calls[t] \in Nat
    BY <1>2
  <2>2. QED
    BY <1>1, <1>3, <1>4, <2>1 DEF StillPast
<1>7. ASSUME NEW x \in Msg, Past(x), x.from = m.from PROVE x.n < m.n
  BY <1>3, <1>7 DEF Past
<1>8. ASSUME NEW a \in Actors, a # b PROVE InOrder(accepted[a])'
  <2>1. accepted'[a] = accepted[a] /\ InOrder(accepted[a])
    BY <1>1, <1>2, <1>8 DEF OrderInv
  <2>2. ASSUME NEW i \in 1..Len(accepted[a]) PROVE StillPast(accepted[a][i])
    BY <1>5, <2>1, AcceptedMsg DEF InOrder
  <2>3. QED
    BY <2>1, <2>2, InOrderNext DEF InOrder
<1>9. InOrder(accepted[b])'
  <2> DEFINE s == accepted[b]
             u == accepted'[b]
  <2>1. /\ s \in Seq(Msg) /\ u = Append(s, m) /\ InOrder(s)
        /\ Len(s) \in Nat /\ Len(u) = Len(s) + 1
        /\ \A i \in 1..Len(s) : u[i] = s[i] /\ s[i] \in Msg
        /\ u[Len(s) + 1] = m
    BY <1>1, <1>2 DEF OrderInv
  <2> HIDE DEF s
  <2>2. ASSUME NEW i \in 1..Len(u) PROVE StillPast(u[i])
    <3>1. CASE i \in 1..Len(s)
      BY <1>5, <2>1, <3>1 DEF InOrder
    <3>2. CASE i = Len(s) + 1
      BY <1>6, <2>1, <3>2
    <3>3. QED
      BY <2>1, <3>1, <3>2
  <2>3. ASSUME NEW i \in 1..Len(u), NEW j \in 1..Len(u), i < j,
               u[i].from = u[j].from
        PROVE  u[i].n < u[j].n
    <3>1. i \in 1..Len(s) /\ u[i] = s[i] /\ s[i] \in Msg
      BY <2>1, <2>3
    <3>2. CASE j \in 1..Len(s)
      BY <2>1, <2>3, <3>1, <3>2 DEF InOrder
    <3>3. CASE j = Len(s) + 1
      <4>1. Past(s[i])
        BY <2>1, <3>1 DEF InOrder
      <4>2. QED
        BY <1>7, <2>1, <2>3, <3>1, <3>3, <4>1
    <3>4. QED
      BY <2>1, <3>2, <3>3
  <2>4. QED
    BY <2>2, <2>3, InOrderNext
<1>10. QED
  BY <1>8, <1>9 DEF OrderInv

LEMMA OrderStep == IInv /\ OrderInv /\ [Next]_vars => OrderInv'
<1> SUFFICES ASSUME IInv, OrderInv, [Next]_vars PROVE OrderInv'
  OBVIOUS
<1>1. op \in [Threads -> Ops] /\ calls \in [Threads -> Nat]
  BY DEF IInv, TypeOK, ThreadsOK
<1>2. ASSUME NEW t \in Threads, Calls(t), accepted' = accepted,
             \A u \in Threads : u # t => op'[u] = op[u]
      PROVE  OrderInv'
  <2>1. \A u \in Threads : calls'[u] = IF u = t THEN calls[u] + 1 ELSE calls[u]
    BY <1>1, <1>2 DEF Calls
  <2>2. \A u \in Threads : u # t => (Sending(u)' => Sending(u))
    BY <1>2 DEF Sending
  <2>3. QED
    BY <1>2, <2>1, <2>2, OrderStays
<1>3. ASSUME calls' = calls, accepted' = accepted,
             \A u \in Threads : Sending(u)' => Sending(u)
      PROVE  OrderInv'
  BY <1>3, OrderStays
<1>4. ASSUME calls' = calls, accepted' = accepted, op' = op
      PROVE  OrderInv'
  BY <1>3, <1>4 DEF Sending
<1>5. ASSUME NEW t \in Threads, UserCall(t) PROVE OrderInv'
  <2>1. PICK b \in Actors :
          \/ SpawnOk(t, b) \/ SpawnUnavailable(t, b)
          \/ SendLockRegistry(t, b) \/ Stop(t, b)
          \/ JoinRefused(t, b) \/ JoinWait(t, b)
    BY <1>5 DEF UserCall
  <2>2. Calls(t) /\ accepted' = accepted
    BY <2>1 DEF SpawnOk, SpawnUnavailable, SendLockRegistry, Stop, JoinRefused,
                JoinWait, MayJoin
  <2>3. \/ op' = op \/ op' = [op EXCEPT ![t] = "sendBox"]
        \/ op' = [op EXCEPT ![t] = "joining"]
    BY <2>1 DEF SpawnOk, SpawnUnavailable, SendLockRegistry, Stop, JoinRefused,
                JoinWait
  <2>4. \A u \in Threads : u # t => op'[u] = op[u]
    BY <1>1, <2>3
  <2>5. QED
    BY <1>2, <2>2, <2>4
<1>6. ASSUME NEW t \in Threads, CallStep(t) PROVE OrderInv'
  <2>1. PICK b \in Actors :
          \/ SendLockBox(t, b) \/ SendRefused(t, b) \/ SendAccepted(t, b)
          \/ JoinReturn(t, b)
    BY <1>6 DEF CallStep
  <2>2. CASE SendAccepted(t, b)
    BY <2>2, OrderAdmits
  <2>3. CASE SendLockBox(t, b) \/ SendRefused(t, b) \/ JoinReturn(t, b)
    <3>1. /\ calls' = calls /\ accepted' = accepted
          /\ \/ op[t] = "sendBox" /\ op' = [op EXCEPT ![t] = "sendIn"]
             \/ op' = [op EXCEPT ![t] = "none"]
      BY <2>3 DEF SendLockBox, SendRefused, SendUnlock, JoinReturn
    <3>2. \A u \in Threads : Sending(u)' => Sending(u)
      BY <1>1, <3>1 DEF Sending
    <3>3. QED
      BY <1>3, <3>1, <3>2
  <2>4. QED
    BY <2>1, <2>2, <2>3
<1>7. ASSUME NEW a \in Actors, Worker(a) \/ WorkerSpurious(a) PROVE OrderInv'
  BY <1>4, <1>7 DEF Worker, WorkerReturn, WorkerSettle, WorkerWait, WorkerTake,
                    WorkerDrained, WorkerExit, WorkerSpurious, AtLoop
<1>8. CASE MainReturn \/ Shutdown \/ ShutdownSpurious
  BY <1>4, <1>8 DEF MainReturn, Shutdown, ShutdownSpurious, ShutdownLock,
       ShutdownWait, ShutdownQuiet, ShutdownClose, ShutdownUnlock, ShutdownReap,
       ShutdownJoin, ShutdownFree, ShutdownDone
<1>9. ASSUME NEW t \in Threads, NEW b \in Actors, UseAfterFree(t, b)
      PROVE  OrderInv'
  BY <1>4, <1>9 DEF UseAfterFree
<1>10. CASE UNCHANGED vars
  BY <1>4, <1>10 DEF vars
<1>11. QED
  BY <1>5, <1>6, <1>7, <1>8, <1>9, <1>10 DEF Next, Over

LEMMA FrontOf ==
  ASSUME NEW s \in Seq(Msg), NEW r \in Seq(Msg), NEW i \in 1..Len(s)
  PROVE  i \in 1..Len(s \o r) /\ (s \o r)[i] = s[i]
  OBVIOUS

\* What was taken is the front of what was admitted.
LEMMA TakenInOrder == IInv /\ OrderInv => SendOrder
<1> SUFFICES ASSUME IInv, OrderInv, NEW a \in Actors,
                    NEW i \in DOMAIN handled[a], NEW j \in DOMAIN handled[a],
                    i < j, handled[a][i].from = handled[a][j].from
             PROVE  handled[a][i].n < handled[a][j].n
  BY DEF SendOrder
<1>1. /\ handled[a] \in Seq(Msg) /\ mailbox[a] \in Seq(Msg)
      /\ accepted[a] = handled[a] \o mailbox[a]
  BY DEF IInv, TypeOK, RecordsOK, NothingLost
<1>2. /\ i \in 1..Len(accepted[a]) /\ j \in 1..Len(accepted[a])
      /\ accepted[a][i] = handled[a][i] /\ accepted[a][j] = handled[a][j]
  <2>1. i \in 1..Len(handled[a]) /\ j \in 1..Len(handled[a])
    BY <1>1
  <2>2. QED
    BY <1>1, <2>1, FrontOf
<1>3. QED
  BY <1>2 DEF OrderInv, InOrder

\* A sender's messages reach an actor's turns in the order they were sent
\* (zg_actor_send, zg_actor_worker).
THEOREM SendsInOrder == Spec => []SendOrder
<1>1. Init => OrderInv
  BY DEF Init, OrderInv, InOrder
<1>2. QED
  BY <1>1, OrderStep, TakenInOrder, Invariance, PTL DEF Spec

-----------------------------------------------------------------------------
(* What a program gets from keeping two rules: only main joins, and a      *)
(* stopped hook makes no call.  Then join waits for the stopped hook and   *)
(* no freed record is used, for any number of actors and any capacity,     *)
(* whether or not what main joins has been stopped.                        *)

USE DEF threadVars, recordVars, joinVars, processVars, teardown, history

Disciplined == Joiners \subseteq {Main} /\ ~StopHookCalls

\* The inductive invariant, beside IInv.

\* A stopped hook is inside no call, and only main is inside a join.
HooksInv ==
  /\ \A t \in Threads : phase[t] = "stopping" => op[t] = "none"
  /\ \A t \in Threads : op[t] = "joining" => t = Main

\* Who may be waited for, and by whom: a worker pthread_join has been called
\* on has exited, unless main is in that very call.
Awaited(a) ==
  \/ op[Main] = "joining" /\ on[Main] = a
  \/ phase[Main] = "join" /\ a = Head(cursor)

JoinInv ==
  \A a \in Actors :
    /\ joined[a] => phase[a] = "exited"
    /\ joiner[a] # None => phase[a] = "exited" \/ Awaited(a)

\* Only the records of workers that have exited are freed, at the very end.
FreeInv ==
  /\ phase[Main] = "free" => phase[Head(cursor)] = "exited"
  /\ \A a \in freed : phase[a] = "exited"
  /\ freed # {} => phase[Main] \in {"reap", "join", "free", "done"}
  /\ ~crashed

DiscInv == HooksInv /\ JoinInv /\ FreeInv

-----------------------------------------------------------------------------
(* Steps.                                                                  *)

\* A worker that has exited stays so.
LEMMA ExitStays ==
  ASSUME IInv, [Next]_vars, NEW a \in Actors, phase[a] = "exited"
  PROVE  phase'[a] = "exited"
<1>1. phase \in [Threads -> WorkerPhases \cup MainPhases] /\ a \in Threads
  BY DEF IInv, TypeOK, ThreadsOK, Threads
<1>2. a # Main
  BY ThreadsAssumption DEF Threads
<1>3. ASSUME NEW t \in Threads, UserCall(t)
      PROVE  phase'[a] = "exited"
  <2>1. PICK b \in Actors :
          \/ SpawnOk(t, b) \/ SpawnUnavailable(t, b)
          \/ SendLockRegistry(t, b) \/ Stop(t, b)
          \/ JoinRefused(t, b) \/ JoinWait(t, b)
    BY <1>3 DEF UserCall
  <2>2. CASE SpawnOk(t, b) \/ SpawnUnavailable(t, b)
    BY <1>1, <2>2 DEF SpawnOk, SpawnUnavailable
  <2>3. CASE Stop(t, b)
    BY <1>1, <2>3 DEF Stop, Signalled
  <2>4. CASE SendLockRegistry(t, b) \/ JoinRefused(t, b) \/ JoinWait(t, b)
    BY <2>4 DEF SendLockRegistry, JoinRefused, JoinWait
  <2>5. QED
    BY <2>1, <2>2, <2>3, <2>4
<1>4. ASSUME NEW t \in Threads, CallStep(t)
      PROVE  phase'[a] = "exited"
  BY <1>1, <1>4 DEF CallStep, SendLockBox, SendRefused, SendAccepted,
                    JoinReturn, Signalled
<1>5. ASSUME NEW w \in Actors, Worker(w) \/ WorkerSpurious(w)
      PROVE  phase'[a] = "exited"
  <2>1. CASE WorkerReturn(w) \/ WorkerExit(w) \/ WorkerSpurious(w)
    BY <1>1, <2>1 DEF WorkerReturn, WorkerExit, WorkerSpurious
  <2>2. CASE WorkerSettle(w)
    BY <1>1, <1>2, <2>2 DEF WorkerSettle
  <2>3. CASE WorkerWait(w) \/ WorkerTake(w) \/ WorkerDrained(w)
    BY <1>1, <2>3 DEF WorkerWait, WorkerTake, WorkerDrained, AtLoop
  <2>4. QED
    BY <1>5, <2>1, <2>2, <2>3 DEF Worker
<1>6. CASE MainReturn \/ Shutdown \/ ShutdownSpurious
  <2>1. CASE ShutdownClose
    BY <1>1, <2>1 DEF ShutdownClose, Signalled
  <2>2. CASE ~ShutdownClose
    BY <1>1, <1>2, <1>6, <2>2
    DEF Shutdown, MainReturn, ShutdownSpurious, ShutdownLock, ShutdownWait,
        ShutdownQuiet, ShutdownUnlock, ShutdownReap, ShutdownJoin,
        ShutdownFree, ShutdownDone
  <2>3. QED
    BY <2>1, <2>2
<1>7. ASSUME NEW t \in Threads, NEW b \in Actors, UseAfterFree(t, b)
      PROVE  phase'[a] = "exited"
  BY <1>7 DEF UseAfterFree
<1>8. CASE UNCHANGED vars
  BY <1>8 DEF vars
<1>9. QED
  BY <1>3, <1>4, <1>5, <1>6, <1>7, <1>8 DEF Next, Over

\* The freed records are out of everybody's reach.
LEMMA NobodyTouches ==
  ASSUME Disciplined, IInv, DiscInv, NEW t \in Threads, NEW b \in freed
  PROVE  ~Touches(t, b)
<1> SUFFICES ASSUME Touches(t, b) PROVE FALSE
  OBVIOUS
<1>1. b \in Actors /\ phase[b] = "exited"
  BY DEF IInv, TypeOK, RecordsOK, DiscInv, FreeInv
<1>2. phase[Main] \in {"reap", "join", "free", "done"}
  BY DEF DiscInv, FreeInv
<1>3. phase[t] \notin {"main", "starting", "turn"}
  BY <1>2, ThreadsAssumption DEF IInv, ShutdownIsQuiet, Threads, TypeOK,
                                 ThreadsOK, WorkerPhases
<1>4. phase[t] \in UserPhases => phase[t] = "stopping"
  BY <1>3 DEF UserPhases
<1>5. op[t] = "none"
  BY <1>4 DEF IInv, CallInv, DiscInv, HooksInv
<1>6. QED
  BY <1>1, <1>4, <1>5 DEF Touches, InUserCode, Disciplined

LEMMA NoCrashStep ==
  ASSUME Disciplined, IInv, DiscInv,
         NEW t \in Threads, NEW b \in Actors, UseAfterFree(t, b)
  PROVE  FALSE
  BY NobodyTouches DEF UseAfterFree

LEMMA HooksStep == Disciplined /\ IInv /\ DiscInv /\ [Next]_vars => HooksInv'
<1> SUFFICES ASSUME Disciplined, IInv, DiscInv, [Next]_vars PROVE HooksInv'
  OBVIOUS
<1>1. /\ phase \in [Threads -> WorkerPhases \cup MainPhases]
      /\ op \in [Threads -> Ops]
  BY DEF IInv, TypeOK, ThreadsOK
<1>2. HooksInv /\ ~StopHookCalls /\ Joiners \subseteq {Main}
  BY DEF DiscInv, Disciplined
<1>3. Main \in Threads /\ Actors \subseteq Threads /\ Main \notin Actors
  BY ThreadsAssumption DEF Threads
<1>4. ASSUME NEW t \in Threads, UserCall(t)
      PROVE  HooksInv'
  <2>1. PICK b \in Actors :
          \/ SpawnOk(t, b) \/ SpawnUnavailable(t, b)
          \/ SendLockRegistry(t, b) \/ Stop(t, b)
          \/ JoinRefused(t, b) \/ JoinWait(t, b)
    BY <1>4 DEF UserCall
  <2>2. CASE SpawnOk(t, b) \/ SpawnUnavailable(t, b)
    BY <1>1, <1>2, <2>2 DEF HooksInv, SpawnOk, SpawnUnavailable
  <2>3. CASE SendLockRegistry(t, b)
    BY <1>1, <1>2, <2>3 DEF HooksInv, SendLockRegistry, Calls
  <2>4. CASE Stop(t, b)
    BY <1>1, <1>2, <2>4 DEF HooksInv, Stop, Signalled
  <2>5. CASE JoinRefused(t, b)
    BY <1>2, <2>5 DEF HooksInv, JoinRefused
  <2>6. CASE JoinWait(t, b)
    BY <1>1, <1>2, <2>6 DEF HooksInv, JoinWait, MayJoin, Calls
  <2>7. QED
    BY <2>1, <2>2, <2>3, <2>4, <2>5, <2>6
<1>5. ASSUME NEW t \in Threads, CallStep(t)
      PROVE  HooksInv'
  <2>1. PICK b \in Actors :
          \/ SendLockBox(t, b) \/ SendRefused(t, b) \/ SendAccepted(t, b)
          \/ JoinReturn(t, b)
    BY <1>5 DEF CallStep
  <2>2. CASE SendLockBox(t, b)
    BY <1>1, <1>2, <2>2 DEF HooksInv, SendLockBox
  <2>3. CASE SendRefused(t, b) \/ JoinReturn(t, b)
    BY <1>1, <1>2, <2>3 DEF HooksInv, SendRefused, SendUnlock, JoinReturn
  <2>4. CASE SendAccepted(t, b)
    BY <1>1, <1>2, <2>4 DEF HooksInv, SendAccepted, SendUnlock, Signalled
  <2>5. QED
    BY <2>1, <2>2, <2>3, <2>4
<1>6. ASSUME NEW a \in Actors, Worker(a) \/ WorkerSpurious(a)
      PROVE  HooksInv'
  <2>1. CASE WorkerReturn(a) \/ WorkerExit(a) \/ WorkerSpurious(a)
    BY <1>1, <1>2, <2>1 DEF HooksInv, WorkerReturn, WorkerExit, WorkerSpurious
  <2>2. CASE WorkerSettle(a)
    BY <1>1, <1>2, <2>2 DEF HooksInv, WorkerSettle
  <2>3. CASE WorkerWait(a) \/ WorkerTake(a)
    BY <1>1, <1>2, <2>3 DEF HooksInv, WorkerWait, WorkerTake, AtLoop
  <2>4. CASE WorkerDrained(a)
    <3>1. op[a] = "none"
      BY <1>3, <2>4 DEF IInv, CallInv, UserPhases, WorkerDrained, AtLoop
    <3>2. QED
      BY <1>1, <1>2, <2>4, <3>1 DEF HooksInv, WorkerDrained, AtLoop
  <2>5. QED
    BY <1>6, <2>1, <2>2, <2>3, <2>4 DEF Worker
<1>7. CASE MainReturn \/ Shutdown \/ ShutdownSpurious
  <2>1. CASE ShutdownClose
    BY <1>1, <1>2, <2>1 DEF HooksInv, ShutdownClose, Signalled
  <2>2. CASE ~ShutdownClose
    BY <1>1, <1>2, <1>7, <2>2
    DEF HooksInv, Shutdown, MainReturn, ShutdownSpurious, ShutdownLock,
        ShutdownWait, ShutdownQuiet, ShutdownUnlock, ShutdownReap,
        ShutdownJoin, ShutdownFree, ShutdownDone
  <2>3. QED
    BY <2>1, <2>2
<1>8. CASE \E t \in Threads, b \in Actors : UseAfterFree(t, b)
  BY <1>8, NoCrashStep
<1>9. CASE UNCHANGED vars
  BY <1>2, <1>9 DEF HooksInv, vars
<1>10. QED
  BY <1>4, <1>5, <1>6, <1>7, <1>8, <1>9 DEF Next, Over

\* While nobody calls join, returns from it or reaps, what is awaited stays.
LEMMA JoinsAlone ==
  ASSUME IInv, DiscInv, [Next]_vars, UNCHANGED joinVars,
         \A a \in Actors : Awaited(a) => Awaited(a)' \/ phase'[a] = "exited"
  PROVE  JoinInv'
  BY ExitStays DEF DiscInv, JoinInv

LEMMA JoinStep == Disciplined /\ IInv /\ DiscInv /\ [Next]_vars => JoinInv'
<1> SUFFICES ASSUME Disciplined, IInv, DiscInv, [Next]_vars PROVE JoinInv'
  OBVIOUS
<1>1. /\ phase \in [Threads -> WorkerPhases \cup MainPhases]
      /\ op \in [Threads -> Ops]
      /\ on \in [Threads -> Actors \cup {None}]
      /\ joined \in [Actors -> BOOLEAN]
      /\ joiner \in [Actors -> Threads \cup {None}]
      /\ cursor \in Seq(Actors)
      /\ phase[Main] \in MainPhases
  BY DEF IInv, TypeOK, ThreadsOK, RecordsOK
<1>2. JoinInv /\ HooksInv /\ Joiners \subseteq {Main}
  BY DEF DiscInv, Disciplined
<1>3. Main \in Threads /\ Actors \subseteq Threads /\ Main \notin Actors
  BY ThreadsAssumption DEF Threads
<1>4. ASSUME NEW t \in Threads, UserCall(t)
      PROVE  JoinInv'
  <2>1. PICK b \in Actors :
          \/ SpawnOk(t, b) \/ SpawnUnavailable(t, b)
          \/ SendLockRegistry(t, b) \/ Stop(t, b)
          \/ JoinRefused(t, b) \/ JoinWait(t, b)
    BY <1>4 DEF UserCall
  <2>2. CASE SpawnOk(t, b) \/ SpawnUnavailable(t, b)
    BY <1>1, <1>3, <2>2, JoinsAlone DEF Awaited, SpawnOk, SpawnUnavailable
  <2>3. CASE SendLockRegistry(t, b)
    BY <1>1, <1>3, <2>3, JoinsAlone
    DEF Awaited, SendLockRegistry, Calls, InUserCode
  <2>4. CASE Stop(t, b)
    BY <1>1, <1>3, <2>4, JoinsAlone DEF Awaited, Stop, Signalled
  <2>5. CASE JoinRefused(t, b) \/ JoinWait(t, b)
    <3>1. t = Main /\ op[Main] = "none" /\ phase[Main] = "main"
      BY <1>1, <1>2, <2>5
      DEF JoinRefused, JoinWait, MayJoin, Calls, InUserCode, UserPhases,
          MainPhases
    <3>2. \A a \in Actors : ~Awaited(a)
      BY <3>1 DEF Awaited
    <3>3. CASE JoinRefused(t, b)
      <4>1. joiner[b] # None
        <5>1. t # b /\ t \notin Actors
          BY <1>3, <3>1
        <5>2. QED
          BY <3>3, <5>1 DEF JoinRefused, JoinFails
      <4>2. phase[b] = "exited"
        BY <1>2, <3>2, <4>1 DEF JoinInv
      <4>3. /\ phase' = phase /\ joiner' = joiner
            /\ \A a \in Actors : joined'[a] = IF a = b THEN TRUE ELSE joined[a]
        BY <1>1, <3>3 DEF JoinRefused
      <4>4. QED
        BY <1>2, <3>2, <4>2, <4>3 DEF JoinInv
    <3>4. CASE JoinWait(t, b)
      <4>1. /\ phase' = phase /\ joined' = joined
            /\ \A a \in Actors : joiner'[a] = IF a = b THEN t ELSE joiner[a]
            /\ op'[Main] = "joining" /\ on'[Main] = b
        BY <1>1, <1>3, <3>1, <3>4 DEF JoinWait
      <4>2. Awaited(b)'
        BY <4>1 DEF Awaited
      <4>3. QED
        BY <1>2, <3>2, <4>1, <4>2 DEF JoinInv
    <3>5. QED
      BY <2>5, <3>3, <3>4
  <2>6. QED
    BY <2>1, <2>2, <2>3, <2>4, <2>5
<1>5. ASSUME NEW t \in Threads, CallStep(t)
      PROVE  JoinInv'
  <2>1. PICK b \in Actors :
          \/ SendLockBox(t, b) \/ SendRefused(t, b) \/ SendAccepted(t, b)
          \/ JoinReturn(t, b)
    BY <1>5 DEF CallStep
  <2>2. CASE SendLockBox(t, b)
    BY <1>1, <1>3, <2>2, JoinsAlone DEF Awaited, SendLockBox
  <2>3. CASE SendRefused(t, b)
    BY <1>1, <1>3, <2>3, JoinsAlone DEF Awaited, SendRefused, SendUnlock
  <2>4. CASE SendAccepted(t, b)
    BY <1>1, <1>3, <2>4, JoinsAlone
    DEF Awaited, SendAccepted, SendUnlock, Signalled
  <2>5. CASE JoinReturn(t, b)
    <3>1. t = Main /\ on[Main] = b /\ phase[b] = "exited"
      BY <1>2, <2>5 DEF JoinReturn, HooksInv
    <3>2. /\ phase' = phase /\ joiner' = joiner /\ cursor' = cursor
          /\ \A a \in Actors : joined'[a] = IF a = b THEN TRUE ELSE joined[a]
      BY <1>1, <2>5 DEF JoinReturn
    <3>3. \A a \in Actors : Awaited(a) => Awaited(a)' \/ phase'[a] = "exited"
      BY <3>1, <3>2 DEF Awaited
    <3>4. QED
      BY <1>2, <3>1, <3>2, <3>3 DEF JoinInv
  <2>6. QED
    BY <2>1, <2>2, <2>3, <2>4, <2>5
<1>6. ASSUME NEW w \in Actors, Worker(w) \/ WorkerSpurious(w)
      PROVE  JoinInv'
  <2>1. CASE WorkerReturn(w) \/ WorkerExit(w) \/ WorkerSpurious(w)
    BY <1>1, <1>3, <2>1, JoinsAlone
    DEF Awaited, WorkerReturn, WorkerExit, WorkerSpurious
  <2>2. CASE WorkerSettle(w)
    BY <1>1, <1>3, <2>2, JoinsAlone DEF Awaited, WorkerSettle
  <2>3. CASE WorkerWait(w) \/ WorkerTake(w) \/ WorkerDrained(w)
    BY <1>1, <1>3, <2>3, JoinsAlone
    DEF Awaited, WorkerWait, WorkerTake, WorkerDrained, AtLoop
  <2>4. QED
    BY <1>6, <2>1, <2>2, <2>3 DEF Worker
<1>7. CASE MainReturn \/ Shutdown \/ ShutdownSpurious
  <2>1. CASE ShutdownReap
    <3> DEFINE h == Head(cursor)
    <3>1. /\ phase[Main] = "reap" /\ h \in Actors
          /\ joined' = joined /\ op' = op /\ on' = on /\ cursor' = cursor
          /\ \A a \in Actors : phase'[a] = phase[a]
      BY <1>1, <1>3, <2>1 DEF ShutdownReap
    <3>2. op[Main] = "none"
      BY <1>3, <3>1 DEF IInv, CallInv, UserPhases
    <3>3. \A a \in Actors : ~Awaited(a)
      BY <3>1, <3>2 DEF Awaited
    <3>4. CASE joiner' = joiner
      BY <1>2, <3>1, <3>3, <3>4 DEF JoinInv
    <3>5. CASE joiner' = [joiner EXCEPT ![h] = Main] /\ phase'[Main] = "join"
      <4>1. \A a \in Actors : joiner'[a] = IF a = h THEN Main ELSE joiner[a]
        BY <1>1, <3>5
      <4>2. Awaited(h)'
        BY <3>1, <3>5 DEF Awaited
      <4>3. QED
        BY <1>2, <3>1, <3>3, <4>1, <4>2 DEF JoinInv
    <3>6. QED
      BY <1>1, <1>3, <2>1, <3>4, <3>5 DEF ShutdownReap
  <2>2. CASE ShutdownJoin
    BY <1>1, <1>3, <2>2, JoinsAlone DEF Awaited, ShutdownJoin
  <2>3. CASE ShutdownClose
    BY <1>1, <1>3, <2>3, JoinsAlone DEF Awaited, ShutdownClose, Signalled
  <2>4. CASE MainReturn \/ ShutdownSpurious \/ ShutdownLock \/ ShutdownWait
    <3>1. UNCHANGED <<op, on, joinVars>> /\ phase[Main] # "join"
      BY <1>1, <2>4
      DEF MainReturn, InUserCode, UserPhases, ShutdownSpurious, ShutdownLock,
          ShutdownWait
    <3>2. QED
      BY <3>1, JoinsAlone DEF Awaited
  <2>5. CASE ShutdownQuiet \/ ShutdownUnlock \/ ShutdownFree \/ ShutdownDone
    BY <1>1, <1>3, <2>5, JoinsAlone
    DEF Awaited, ShutdownQuiet, ShutdownUnlock, ShutdownFree, ShutdownDone
  <2>6. QED
    BY <1>7, <2>1, <2>2, <2>3, <2>4, <2>5 DEF Shutdown
<1>8. CASE \E t \in Threads, b \in Actors : UseAfterFree(t, b)
  BY <1>8, NoCrashStep
<1>9. CASE UNCHANGED vars
  BY <1>9, JoinsAlone DEF Awaited, vars
<1>10. QED
  BY <1>4, <1>5, <1>6, <1>7, <1>8, <1>9 DEF Next, Over

\* Steps that neither walk the registry nor move main during the teardown.
LEMMA FreeAlone ==
  ASSUME IInv, DiscInv, [Next]_vars, UNCHANGED <<freed, crashed>>,
         phase'[Main] = "free" =>
           phase[Main] = "free" /\ cursor' = cursor,
         phase[Main] \in {"reap", "join", "free", "done"} =>
           phase'[Main] \in {"reap", "join", "free", "done"}
  PROVE  FreeInv'
<1>1. FreeInv /\ freed \subseteq Actors
  BY DEF DiscInv, IInv, TypeOK, RecordsOK
<1>2. phase[Main] = "free" => Head(cursor) \in Actors
  <2>1. phase[Main] = "free" => cursor # <<>>
    BY DEF IInv, CloseInv
  <2>2. cursor \in Seq(Actors)
    BY DEF IInv, TypeOK, RecordsOK
  <2>3. QED
    BY <2>1, <2>2
<1>3. phase'[Main] = "free" => phase'[Head(cursor')] = "exited"
  BY <1>1, <1>2, ExitStays DEF FreeInv
<1>4. \A a \in freed : phase'[a] = "exited"
  BY <1>1, ExitStays DEF FreeInv
<1>5. QED
  BY <1>1, <1>3, <1>4 DEF FreeInv

LEMMA FreeStep == Disciplined /\ IInv /\ DiscInv /\ [Next]_vars => FreeInv'
<1> SUFFICES ASSUME Disciplined, IInv, DiscInv, [Next]_vars PROVE FreeInv'
  OBVIOUS
<1>1. /\ phase \in [Threads -> WorkerPhases \cup MainPhases]
      /\ cursor \in Seq(Actors)
      /\ phase[Main] \in MainPhases
      /\ freed \subseteq Actors
  BY DEF IInv, TypeOK, ThreadsOK, RecordsOK
<1>2. FreeInv /\ JoinInv
  BY DEF DiscInv
<1>3. Main \in Threads /\ Actors \subseteq Threads /\ Main \notin Actors
  BY ThreadsAssumption DEF Threads
<1>4. ASSUME NEW t \in Threads, UserCall(t)
      PROVE  FreeInv'
  <2>1. PICK b \in Actors :
          \/ SpawnOk(t, b) \/ SpawnUnavailable(t, b)
          \/ SendLockRegistry(t, b) \/ Stop(t, b)
          \/ JoinRefused(t, b) \/ JoinWait(t, b)
    BY <1>4 DEF UserCall
  <2>2. phase'[Main] = phase[Main]
    BY <1>1, <1>3, <2>1
    DEF SpawnOk, SpawnUnavailable, SendLockRegistry, Stop, Signalled,
        JoinRefused, JoinWait
  <2>3. UNCHANGED <<cursor, freed, crashed>>
    BY <2>1 DEF SpawnOk, SpawnUnavailable, SendLockRegistry, Stop,
                JoinRefused, JoinWait
  <2>4. QED
    BY <2>2, <2>3, FreeAlone
<1>5. ASSUME NEW t \in Threads, CallStep(t)
      PROVE  FreeInv'
  <2>1. phase'[Main] = phase[Main]
    BY <1>1, <1>3, <1>5
    DEF CallStep, SendLockBox, SendRefused, SendAccepted, Signalled, JoinReturn
  <2>2. UNCHANGED <<cursor, freed, crashed>>
    BY <1>5 DEF CallStep, SendLockBox, SendRefused, SendAccepted, JoinReturn
  <2>3. QED
    BY <2>1, <2>2, FreeAlone
<1>6. ASSUME NEW w \in Actors, Worker(w) \/ WorkerSpurious(w)
      PROVE  FreeInv'
  <2>1. CASE WorkerSettle(w)
    BY <1>1, <1>3, <2>1, FreeAlone DEF WorkerSettle
  <2>2. CASE ~WorkerSettle(w)
    <3>1. phase'[Main] = phase[Main]
      BY <1>1, <1>3, <1>6, <2>2
      DEF Worker, WorkerReturn, WorkerExit, WorkerSpurious, WorkerWait,
          WorkerTake, WorkerDrained
    <3>2. UNCHANGED <<cursor, freed, crashed>>
      BY <1>6, <2>2
      DEF Worker, WorkerReturn, WorkerExit, WorkerSpurious, WorkerWait,
          WorkerTake, WorkerDrained, AtLoop
    <3>3. QED
      BY <3>1, <3>2, FreeAlone
  <2>3. QED
    BY <2>1, <2>2
<1>7. CASE MainReturn \/ Shutdown \/ ShutdownSpurious
  <2>1. CASE MainReturn \/ ShutdownSpurious \/ ShutdownLock \/ ShutdownWait
    BY <1>1, <1>3, <2>1, FreeAlone
    DEF MainReturn, InUserCode, UserPhases, MainPhases, ShutdownSpurious,
        ShutdownLock, ShutdownWait
  <2>2. CASE ShutdownQuiet \/ ShutdownUnlock \/ ShutdownDone
    BY <1>1, <1>3, <2>2, FreeAlone
    DEF ShutdownQuiet, ShutdownUnlock, ShutdownDone
  <2>3. CASE ShutdownClose
    BY <1>1, <1>3, <2>3, FreeAlone DEF ShutdownClose, Signalled
  <2>4. CASE ShutdownReap
    <3> DEFINE h == Head(cursor)
    <3>1. /\ phase[Main] = "reap" /\ h \in Actors
          /\ UNCHANGED <<cursor, freed, crashed>>
          /\ \A a \in Actors : phase'[a] = phase[a]
      BY <1>1, <1>3, <2>4 DEF ShutdownReap
    <3>2. op[Main] = "none"
      BY <1>3, <3>1 DEF IInv, CallInv, UserPhases
    <3>3. ~Awaited(h)
      BY <3>1, <3>2 DEF Awaited
    <3>4. joined[h] \/ joiner[h] # None => phase[h] = "exited"
      BY <1>2, <3>1, <3>3 DEF JoinInv
    <3>5. CASE phase'[Main] = "join"
      BY <1>1, <1>2, <3>1, <3>5 DEF FreeInv
    <3>6. CASE phase'[Main] = "free" /\ (joined[h] \/ joiner[h] # None)
      BY <1>1, <1>2, <3>1, <3>4, <3>6 DEF FreeInv
    <3>7. QED
      BY <1>1, <1>3, <2>4, <3>5, <3>6 DEF ShutdownReap
  <2>5. CASE ShutdownJoin
    <3> DEFINE h == Head(cursor)
    <3>1. /\ phase[Main] = "join" /\ phase[h] = "exited"
          /\ UNCHANGED <<cursor, freed, crashed>>
          /\ phase' = [phase EXCEPT ![Main] = "free"]
      BY <2>5 DEF ShutdownJoin
    <3>2. h \in Actors
      <4>1. cursor # <<>>
        BY <3>1 DEF IInv, CloseInv
      <4>2. QED
        BY <1>1, <4>1
    <3>3. phase'[Main] = "free" /\ \A a \in Actors : phase'[a] = phase[a]
      BY <1>1, <1>3, <3>1
    <3>4. QED
      BY <1>1, <1>2, <3>1, <3>2, <3>3 DEF FreeInv
  <2>6. CASE ShutdownFree
    <3>1. /\ phase[Main] = "free" /\ crashed' = crashed
          /\ freed' = freed \cup {Head(cursor)}
          /\ phase' = [phase EXCEPT ![Main] = "reap"]
      BY <2>6 DEF ShutdownFree
    <3>2. Head(cursor) \in Actors
      <4>1. cursor # <<>>
        BY <3>1 DEF IInv, CloseInv
      <4>2. QED
        BY <1>1, <4>1
    <3>3. phase'[Main] = "reap" /\ \A a \in Actors : phase'[a] = phase[a]
      BY <1>1, <1>3, <3>1
    <3>4. QED
      BY <1>1, <1>2, <3>1, <3>2, <3>3 DEF FreeInv
  <2>7. QED
    BY <1>7, <2>1, <2>2, <2>3, <2>4, <2>5, <2>6 DEF Shutdown
<1>8. CASE \E t \in Threads, b \in Actors : UseAfterFree(t, b)
  BY <1>8, NoCrashStep
<1>9. CASE UNCHANGED vars
  BY <1>2, <1>9 DEF FreeInv, vars
<1>10. QED
  BY <1>4, <1>5, <1>6, <1>7, <1>8, <1>9 DEF Next, Over

-----------------------------------------------------------------------------
(* The theorems.                                                           *)

LEMMA DiscInit == Init => DiscInv
  BY ThreadsAssumption
  DEF Init, DiscInv, HooksInv, JoinInv, FreeInv, Awaited, Threads

\* The rules keep the discipline's invariant.
LEMMA DisciplineKept ==
  ASSUME Disciplined
  PROVE  Spec => []DiscInv
<1>1. IInv /\ DiscInv /\ [Next]_vars => DiscInv'
  BY HooksStep, JoinStep, FreeStep DEF DiscInv
<1>2. QED
  BY <1>1, DiscInit, Invariance, PTL DEF Spec

\* Ref.join returns when the actor has drained and its stopped hook is done.
THEOREM JoinsWait ==
  ASSUME Disciplined
  PROVE  Spec => []JoinWaits
<1>1. DiscInv => JoinWaits
  BY DEF DiscInv, JoinInv, JoinWaits
<1>2. QED
  BY <1>1, DisciplineKept, PTL

\* No thread uses an actor record that shutdown has freed.
THEOREM NothingFreedIsUsed ==
  ASSUME Disciplined
  PROVE  Spec => []NoUseAfterFree
<1>1. DiscInv => NoUseAfterFree
  BY DEF DiscInv, FreeInv, NoUseAfterFree
<1>2. QED
  BY <1>1, DisciplineKept, PTL

=============================================================================
