---------------------------- MODULE ActorRuntime ----------------------------
(***************************************************************************)
(* The actor floor that gen_c_actor.zen writes into every C program that   *)
(* uses actors: one worker thread and one bounded mailbox per actor, and a *)
(* process-wide registry whose `pending' count tells shutdown when the     *)
(* program is quiet.  A thread is the main program or an actor's worker    *)
(* (named by its actor).  User code -- main, the started and stopped hooks *)
(* and the turns -- may call any operation of the floor at any moment.     *)
(*                                                                         *)
(* A critical section that takes no second lock is one action, guarded by  *)
(* the lock being free; sending, which nests the two locks, is three.      *)
(***************************************************************************)
EXTENDS Naturals, Sequences, FiniteSets

CONSTANTS
  Actors,         \* the actor records the program can allocate
  Main,           \* the main thread
  None,           \* no thread, no actor
  Capacity,       \* ZG_ACTOR_CAPACITY (64 in the source)
  MaxCalls,       \* bound: calls of the floor each thread's user code makes
  \* What the program's user code does:
  Joiners,        \* the threads that call join
  JoinsStopped,   \* whether they join only actors that have been stopped
  StopHookCalls   \* whether stopped hooks call the floor

Threads == Actors \cup {Main}

ASSUME ThreadsAssumption == Main \notin Actors /\ None \notin Threads
ASSUME FiniteAssumption == IsFiniteSet(Actors)
ASSUME CapacityAssumption == Capacity \in Nat \ {0}
ASSUME CallsAssumption == MaxCalls \in [Threads -> Nat]
ASSUME ProgramAssumption ==
  /\ Joiners \subseteq Threads
  /\ JoinsStopped \in BOOLEAN
  /\ StopHookCalls \in BOOLEAN

VARIABLES
  phase,          \* where each thread is in its own loop
  op,             \* the floor operation a thread's user code is inside
  on,             \* the actor that operation is about
  calls,          \* how many calls each thread's user code has made
  \* the actor records
  mailbox,        \* head .. tail
  open,
  joined,
  joiner,         \* the thread pthread_join has admitted as the one waiter
  \* the process-wide state
  registry,       \* zg_actor_registry, newest first
  registryLock,   \* who holds zg_actor_registry_lock
  boxLock,        \* who holds each a->lock across steps
  pending,        \* zg_actor_pending
  shuttingDown,   \* zg_actor_shutting_down
  cursor,         \* what is left of the list zg_actor_shutdown walks
  freed,          \* the records zg_actor_shutdown has freed
  crashed,        \* some thread has used a freed record
  \* history
  accepted,       \* the messages each mailbox ever admitted, in order
  handled,        \* the messages each worker took off its mailbox, in order
  settled         \* how often each worker lowered `pending'

threadVars  == <<phase, op, on, calls>>
joinVars    == <<joined, joiner>>
recordVars  == <<mailbox, open>>
processVars == <<registry, registryLock, boxLock, pending, shuttingDown>>
teardown    == <<cursor, freed, crashed>>
history     == <<accepted, handled, settled>>
vars == <<threadVars, recordVars, joinVars, processVars, teardown, history>>

\* A message, by its sender and the number of the sender's call.
Msg == UNION {[from : {t}, n : 1..MaxCalls[t]] : t \in Threads}

UserPhases   == {"main", "starting", "turn", "stopping"}
WorkerPhases == {"unborn", "refused", "starting", "settle", "loop", "waiting",
                 "turn", "stopping", "exited"}
MainPhases   == {"main", "shutdown", "check", "quiesce", "close", "reap",
                 "join", "free", "done"}
Ops          == {"none", "sendBox", "sendIn", "joining"}

ThreadsOK ==
  /\ phase \in [Threads -> WorkerPhases \cup MainPhases]
  /\ phase[Main] \in MainPhases
  /\ \A a \in Actors : phase[a] \in WorkerPhases
  /\ op \in [Threads -> Ops]
  /\ on \in [Threads -> Actors \cup {None}]
  /\ calls \in [Threads -> Nat]

RecordsOK ==
  /\ mailbox \in [Actors -> Seq(Msg)]
  /\ open \in [Actors -> BOOLEAN]
  /\ joined \in [Actors -> BOOLEAN]
  /\ joiner \in [Actors -> Threads \cup {None}]
  /\ registry \in Seq(Actors)
  /\ registryLock \in Threads \cup {None}
  /\ boxLock \in [Actors -> Threads \cup {None}]
  /\ pending \in Nat
  /\ shuttingDown \in BOOLEAN
  /\ cursor \in Seq(Actors)
  /\ freed \subseteq Actors
  /\ crashed \in BOOLEAN
  /\ accepted \in [Actors -> Seq(Msg)]
  /\ handled \in [Actors -> Seq(Msg)]
  /\ settled \in [Actors -> Nat]

TypeOK == ThreadsOK /\ RecordsOK

Init ==
  /\ phase = [t \in Threads |-> IF t = Main THEN "main" ELSE "unborn"]
  /\ op = [t \in Threads |-> "none"]
  /\ on = [t \in Threads |-> None]
  /\ calls = [t \in Threads |-> 0]
  /\ mailbox = [a \in Actors |-> <<>>]
  /\ open = [a \in Actors |-> FALSE]
  /\ joined = [a \in Actors |-> FALSE]
  /\ joiner = [a \in Actors |-> None]
  /\ registry = <<>>
  /\ registryLock = None
  /\ boxLock = [a \in Actors |-> None]
  /\ pending = 0
  /\ shuttingDown = FALSE
  /\ cursor = <<>>
  /\ freed = {}
  /\ crashed = FALSE
  /\ accepted = [a \in Actors |-> <<>>]
  /\ handled = [a \in Actors |-> <<>>]
  /\ settled = [a \in Actors |-> 0]

-----------------------------------------------------------------------------
(* What user code can do.  A Ref is a copyable address: once an actor is   *)
(* registered any thread may hold one.  A call that changes nothing is a   *)
(* stuttering step and has no action: a spawn (OutOfMemory) or a send      *)
(* (Full) whose malloc is refused before any lock is taken, a join of an   *)
(* actor already joined.                                                   *)

Listed(s) == {s[i] : i \in DOMAIN s}

Running == phase[Main] # "done" /\ ~crashed

\* Thread t is in user code, between two calls of the floor.
InUserCode(t) ==
  /\ Running
  /\ phase[t] \in UserPhases
  /\ op[t] = "none"

\* Thread t's user code makes its next call.
Calls(t) ==
  /\ InUserCode(t)
  /\ phase[t] = "stopping" => StopHookCalls
  /\ calls[t] < MaxCalls[t]
  /\ calls' = [calls EXCEPT ![t] = @ + 1]

HasRef(b) == b \in Listed(registry)

\* pthread_cond_signal(&b->wake).
Signalled(b) ==
  IF phase[b] = "waiting" THEN [phase EXCEPT ![b] = "loop"] ELSE phase

-----------------------------------------------------------------------------
(* zg_actor_start, behind Env.spawn.                                       *)

\* Mutant: pthread_create before the count is raised, and it never is.
SpawnOkUncounted(t, b) ==
  /\ Calls(t)
  /\ phase[b] = "unborn"
  /\ registryLock = None
  /\ ~shuttingDown
  /\ phase' = [phase EXCEPT ![b] = "starting"]
  /\ open' = [open EXCEPT ![b] = TRUE]
  /\ registry' = <<b>> \o registry
  /\ UNCHANGED <<op, on, mailbox, joinVars, registryLock, boxLock, pending,
                 shuttingDown, teardown, history>>

\* zg_actor_start takes the actor in: it runs from here on.
SpawnOk(t, b) ==
  /\ Calls(t)
  /\ phase[b] = "unborn"
  /\ registryLock = None
  /\ ~shuttingDown
  /\ phase' = [phase EXCEPT ![b] = "starting"]
  /\ open' = [open EXCEPT ![b] = TRUE]
  /\ pending' = pending + 1
  /\ registry' = <<b>> \o registry
  /\ UNCHANGED <<op, on, mailbox, joinVars, registryLock, boxLock,
                 shuttingDown, teardown, history>>

\* Mutex or thread creation fails, or shutdown has begun: the lowering drops
\* the actor's value and frees its cell.
SpawnUnavailable(t, b) ==
  /\ Calls(t)
  /\ phase[b] = "unborn"
  /\ phase' = [phase EXCEPT ![b] = "refused"]
  /\ UNCHANGED <<op, on, recordVars, joinVars, processVars, teardown, history>>

-----------------------------------------------------------------------------
(* zg_actor_send.                                                          *)

SendLockRegistry(t, b) ==
  /\ Calls(t)
  /\ HasRef(b)
  /\ registryLock = None
  /\ registryLock' = t
  /\ op' = [op EXCEPT ![t] = "sendBox"]
  /\ on' = [on EXCEPT ![t] = b]
  /\ UNCHANGED <<phase, recordVars, joinVars, registry, boxLock, pending,
                 shuttingDown, teardown, history>>

SendLockBox(t, b) ==
  /\ Running
  /\ op[t] = "sendBox" /\ on[t] = b
  /\ b \notin freed
  /\ boxLock[b] = None
  /\ boxLock' = [boxLock EXCEPT ![b] = t]
  /\ op' = [op EXCEPT ![t] = "sendIn"]
  /\ UNCHANGED <<phase, on, calls, recordVars, joinVars, registry,
                 registryLock, pending, shuttingDown, teardown, history>>

\* Both locks are dropped and the call returns.
SendUnlock(t, b) ==
  /\ Running
  /\ op[t] = "sendIn" /\ on[t] = b
  /\ b \notin freed
  /\ boxLock' = [boxLock EXCEPT ![b] = None]
  /\ registryLock' = None
  /\ op' = [op EXCEPT ![t] = "none"]
  /\ on' = [on EXCEPT ![t] = None]

\* Mutant: the count is raised before the mailbox is looked at.
SendRefusedCounted(t, b) ==
  /\ SendUnlock(t, b)
  /\ ~open[b] \/ Len(mailbox[b]) >= Capacity
  /\ pending' = pending + 1
  /\ UNCHANGED <<phase, calls, recordVars, joinVars, registry, shuttingDown,
                 teardown, history>>

\* Status 1 (Closed) or 2 (Full): the message is freed.
SendRefused(t, b) ==
  /\ SendUnlock(t, b)
  /\ ~open[b] \/ Len(mailbox[b]) >= Capacity
  /\ UNCHANGED <<phase, calls, recordVars, joinVars, registry, pending,
                 shuttingDown, teardown, history>>

\* Mutants: the message is linked in at the head; a full mailbox is not
\* noticed; a send does not wake the worker.
SendAcceptedAtHead(t, b) ==
  LET m == [from |-> t, n |-> calls[t]] IN
  /\ SendUnlock(t, b)
  /\ open[b]
  /\ Len(mailbox[b]) < Capacity
  /\ mailbox' = [mailbox EXCEPT ![b] = <<m>> \o @]
  /\ accepted' = [accepted EXCEPT ![b] = Append(@, m)]
  /\ pending' = pending + 1
  /\ phase' = Signalled(b)
  /\ UNCHANGED <<calls, open, joinVars, registry, shuttingDown, teardown,
                 handled, settled>>

SendAcceptedOverfull(t, b) ==
  LET m == [from |-> t, n |-> calls[t]] IN
  /\ SendUnlock(t, b)
  /\ open[b]
  /\ Len(mailbox[b]) <= Capacity
  /\ mailbox' = [mailbox EXCEPT ![b] = Append(@, m)]
  /\ accepted' = [accepted EXCEPT ![b] = Append(@, m)]
  /\ pending' = pending + 1
  /\ phase' = Signalled(b)
  /\ UNCHANGED <<calls, open, joinVars, registry, shuttingDown, teardown,
                 handled, settled>>

SendAcceptedSilently(t, b) ==
  LET m == [from |-> t, n |-> calls[t]] IN
  /\ SendUnlock(t, b)
  /\ open[b]
  /\ Len(mailbox[b]) < Capacity
  /\ mailbox' = [mailbox EXCEPT ![b] = Append(@, m)]
  /\ accepted' = [accepted EXCEPT ![b] = Append(@, m)]
  /\ pending' = pending + 1
  /\ UNCHANGED <<phase, calls, open, joinVars, registry, shuttingDown,
                 teardown, handled, settled>>

SendAccepted(t, b) ==
  LET m == [from |-> t, n |-> calls[t]] IN
  /\ SendUnlock(t, b)
  /\ open[b]
  /\ Len(mailbox[b]) < Capacity
  /\ mailbox' = [mailbox EXCEPT ![b] = Append(@, m)]
  /\ accepted' = [accepted EXCEPT ![b] = Append(@, m)]
  /\ pending' = pending + 1
  /\ phase' = Signalled(b)
  /\ UNCHANGED <<calls, open, joinVars, registry, shuttingDown, teardown,
                 handled, settled>>

-----------------------------------------------------------------------------
(* zg_actor_stop and zg_actor_join.                                        *)

\* The body of zg_actor_stop, also used by zg_actor_shutdown: close
\* admission and wake the worker.
CloseBox(b) ==
  /\ b \notin freed
  /\ boxLock[b] = None
  /\ open' = [open EXCEPT ![b] = FALSE]

\* Mutant: the close does not wake the worker.
StopSilently(t, b) ==
  /\ Calls(t)
  /\ HasRef(b)
  /\ CloseBox(b)
  /\ UNCHANGED <<phase, op, on, mailbox, joinVars, processVars, teardown,
                 history>>

Stop(t, b) ==
  /\ Calls(t)
  /\ HasRef(b)
  /\ CloseBox(b)
  /\ phase' = Signalled(b)
  /\ UNCHANGED <<op, on, mailbox, joinVars, processVars, teardown, history>>

\* The join of an actor nobody stops never returns.
MayJoin(t, b) ==
  /\ t \in Joiners
  /\ Calls(t)
  /\ HasRef(b)
  /\ b \notin freed
  /\ JoinsStopped => ~open[b]

\* pthread_join returns at once with an error that is not looked at: the
\* caller would wait for itself, for a thread that waits for it (EDEADLK),
\* or for a thread somebody else already waits for or has reaped (EINVAL).
JoinFails(t, b) ==
  \/ t = b
  \/ t \in Actors /\ joiner[t] = b
  \/ joiner[b] # None

JoinRefused(t, b) ==
  /\ MayJoin(t, b)
  /\ ~joined[b]
  /\ JoinFails(t, b)
  /\ joined' = [joined EXCEPT ![b] = TRUE]
  /\ UNCHANGED <<phase, op, on, recordVars, joiner, processVars, teardown,
                 history>>

\* Mutant: joined is set before pthread_join returns.
JoinWaitMarked(t, b) ==
  /\ MayJoin(t, b)
  /\ ~joined[b]
  /\ ~JoinFails(t, b)
  /\ joiner' = [joiner EXCEPT ![b] = t]
  /\ joined' = [joined EXCEPT ![b] = TRUE]
  /\ op' = [op EXCEPT ![t] = "joining"]
  /\ on' = [on EXCEPT ![t] = b]
  /\ UNCHANGED <<phase, recordVars, processVars, teardown, history>>

JoinWait(t, b) ==
  /\ MayJoin(t, b)
  /\ ~joined[b]
  /\ ~JoinFails(t, b)
  /\ joiner' = [joiner EXCEPT ![b] = t]
  /\ op' = [op EXCEPT ![t] = "joining"]
  /\ on' = [on EXCEPT ![t] = b]
  /\ UNCHANGED <<phase, recordVars, joined, processVars, teardown, history>>

JoinReturn(t, b) ==
  /\ Running
  /\ op[t] = "joining" /\ on[t] = b
  /\ b \notin freed
  /\ phase[b] = "exited"
  /\ joined' = [joined EXCEPT ![b] = TRUE]
  /\ op' = [op EXCEPT ![t] = "none"]
  /\ on' = [on EXCEPT ![t] = None]
  /\ UNCHANGED <<phase, calls, recordVars, joiner, processVars, teardown,
                 history>>

-----------------------------------------------------------------------------
(* zg_actor_worker.                                                        *)

\* The started hook or a turn returns.
WorkerReturn(a) ==
  /\ InUserCode(a)
  /\ phase[a] \in {"starting", "turn"}
  /\ phase' = [phase EXCEPT ![a] = "settle"]
  /\ UNCHANGED <<op, on, calls, recordVars, joinVars, processVars, teardown,
                 history>>

\* Mutant: the last one does not broadcast.
WorkerSettleSilently(a) ==
  /\ Running
  /\ phase[a] = "settle"
  /\ registryLock = None
  /\ pending' = pending - 1
  /\ settled' = [settled EXCEPT ![a] = @ + 1]
  /\ phase' = [phase EXCEPT ![a] = "loop"]
  /\ UNCHANGED <<op, on, calls, recordVars, joinVars, registry, registryLock,
                 boxLock, shuttingDown, teardown, accepted, handled>>

\* pending--; the last one broadcasts zg_actor_registry_idle, which takes
\* the main thread out of its wait.
WorkerSettle(a) ==
  /\ Running
  /\ phase[a] = "settle"
  /\ registryLock = None
  /\ pending' = pending - 1
  /\ settled' = [settled EXCEPT ![a] = @ + 1]
  /\ phase' = [phase EXCEPT ![a] = "loop",
                            ![Main] = IF pending = 1 /\ @ = "quiesce"
                                        THEN "shutdown" ELSE @]
  /\ UNCHANGED <<op, on, calls, recordVars, joinVars, registry, registryLock,
                 boxLock, shuttingDown, teardown, accepted, handled>>

\* The top of the loop: the worker gets a->lock.
AtLoop(a) ==
  /\ Running
  /\ phase[a] = "loop"
  /\ a \notin freed
  /\ boxLock[a] = None
  /\ UNCHANGED <<op, on, calls, open, joinVars, processVars, teardown,
                 accepted, settled>>

WorkerWait(a) ==
  /\ AtLoop(a)
  /\ open[a]
  /\ mailbox[a] = <<>>
  /\ phase' = [phase EXCEPT ![a] = "waiting"]
  /\ UNCHANGED <<mailbox, handled>>

\* Mutant: the newest message first.
WorkerTakeNewest(a) ==
  LET box == mailbox[a] IN
  /\ AtLoop(a)
  /\ box # <<>>
  /\ mailbox' = [mailbox EXCEPT ![a] = SubSeq(box, 1, Len(box) - 1)]
  /\ handled' = [handled EXCEPT ![a] = Append(@, box[Len(box)])]
  /\ phase' = [phase EXCEPT ![a] = "turn"]

WorkerTake(a) ==
  /\ AtLoop(a)
  /\ mailbox[a] # <<>>
  /\ mailbox' = [mailbox EXCEPT ![a] = Tail(@)]
  /\ handled' = [handled EXCEPT ![a] = Append(@, Head(mailbox[a]))]
  /\ phase' = [phase EXCEPT ![a] = "turn"]

\* Mutant: a close ends the loop whatever is queued.
WorkerDrainedEarly(a) ==
  /\ AtLoop(a)
  /\ ~open[a]
  /\ phase' = [phase EXCEPT ![a] = "stopping"]
  /\ UNCHANGED <<mailbox, handled>>

WorkerDrained(a) ==
  /\ AtLoop(a)
  /\ mailbox[a] = <<>>
  /\ ~open[a]
  /\ phase' = [phase EXCEPT ![a] = "stopping"]
  /\ UNCHANGED <<mailbox, handled>>

\* pthread_cond_wait may return with nobody having signalled.
WorkerSpurious(a) ==
  /\ Running
  /\ phase[a] = "waiting"
  /\ phase' = [phase EXCEPT ![a] = "loop"]
  /\ UNCHANGED <<op, on, calls, recordVars, joinVars, processVars, teardown,
                 history>>

\* The stopped hook, the actor's drop and the arena's drop are done.
WorkerExit(a) ==
  /\ InUserCode(a)
  /\ phase[a] = "stopping"
  /\ phase' = [phase EXCEPT ![a] = "exited"]
  /\ UNCHANGED <<op, on, calls, recordVars, joinVars, processVars, teardown,
                 history>>

-----------------------------------------------------------------------------
(* zg_actor_shutdown, at the end of main.                                  *)

MainReturn ==
  /\ InUserCode(Main)
  /\ phase' = [phase EXCEPT ![Main] = "shutdown"]
  /\ UNCHANGED <<op, on, calls, recordVars, joinVars, processVars, teardown,
                 history>>

\* Take the registry lock: on entry, and again when the wait returns.
ShutdownLock ==
  /\ Running
  /\ phase[Main] = "shutdown"
  /\ registryLock = None
  /\ registryLock' = Main
  /\ shuttingDown' = TRUE
  /\ phase' = [phase EXCEPT ![Main] = "check"]
  /\ UNCHANGED <<op, on, calls, recordVars, joinVars, registry, boxLock,
                 pending, teardown, history>>

ShutdownWait ==
  /\ Running
  /\ phase[Main] = "check"
  /\ pending # 0
  /\ registryLock' = None
  /\ phase' = [phase EXCEPT ![Main] = "quiesce"]
  /\ UNCHANGED <<op, on, calls, recordVars, joinVars, registry, boxLock,
                 pending, shuttingDown, teardown, history>>

ShutdownSpurious ==
  /\ Running
  /\ phase[Main] = "quiesce"
  /\ phase' = [phase EXCEPT ![Main] = "shutdown"]
  /\ UNCHANGED <<op, on, calls, recordVars, joinVars, processVars, teardown,
                 history>>

\* Mutant: if (pending) wait -- the count is not looked at again.
ShutdownQuietOnce ==
  /\ Running
  /\ phase[Main] = "check"
  /\ pending = 0 \/ shuttingDown
  /\ cursor' = registry
  /\ phase' = [phase EXCEPT ![Main] = "close"]
  /\ UNCHANGED <<op, on, calls, recordVars, joinVars, processVars, freed,
                 crashed, history>>

ShutdownQuiet ==
  /\ Running
  /\ phase[Main] = "check"
  /\ pending = 0
  /\ cursor' = registry
  /\ phase' = [phase EXCEPT ![Main] = "close"]
  /\ UNCHANGED <<op, on, calls, recordVars, joinVars, processVars, freed,
                 crashed, history>>

ShutdownClose ==
  /\ Running
  /\ phase[Main] = "close"
  /\ cursor # <<>>
  /\ CloseBox(Head(cursor))
  /\ phase' = Signalled(Head(cursor))
  /\ cursor' = Tail(cursor)
  /\ UNCHANGED <<op, on, calls, mailbox, joinVars, processVars, freed,
                 crashed, history>>

\* Every mailbox is closed: release the registry and walk it once more.
ShutdownUnlock ==
  /\ Running
  /\ phase[Main] = "close"
  /\ cursor = <<>>
  /\ registryLock' = None
  /\ cursor' = registry
  /\ phase' = [phase EXCEPT ![Main] = "reap"]
  /\ UNCHANGED <<op, on, calls, recordVars, joinVars, registry, boxLock,
                 pending, shuttingDown, freed, crashed, history>>

\* Mutant: records are freed without waiting for their workers.
ShutdownReapAtOnce ==
  /\ Running
  /\ phase[Main] = "reap"
  /\ cursor # <<>>
  /\ phase' = [phase EXCEPT ![Main] = "free"]
  /\ UNCHANGED <<op, on, calls, recordVars, joinVars, processVars, teardown,
                 history>>

\* if (!list->joined) pthread_join(...): skipped, refused or waited for.
ShutdownReap ==
  LET a == Head(cursor) IN
  /\ Running
  /\ phase[Main] = "reap"
  /\ cursor # <<>>
  /\ \/ /\ joined[a] \/ joiner[a] # None
        /\ phase' = [phase EXCEPT ![Main] = "free"]
        /\ UNCHANGED joiner
     \/ /\ ~joined[a] /\ joiner[a] = None
        /\ phase' = [phase EXCEPT ![Main] = "join"]
        /\ joiner' = [joiner EXCEPT ![a] = Main]
  /\ UNCHANGED <<op, on, calls, recordVars, joined, processVars, teardown,
                 history>>

ShutdownJoin ==
  /\ Running
  /\ phase[Main] = "join"
  /\ phase[Head(cursor)] = "exited"
  /\ phase' = [phase EXCEPT ![Main] = "free"]
  /\ UNCHANGED <<op, on, calls, recordVars, joinVars, processVars, teardown,
                 history>>

ShutdownFree ==
  /\ Running
  /\ phase[Main] = "free"
  /\ freed' = freed \cup {Head(cursor)}
  /\ cursor' = Tail(cursor)
  /\ phase' = [phase EXCEPT ![Main] = "reap"]
  /\ UNCHANGED <<op, on, calls, recordVars, joinVars, processVars, crashed,
                 history>>

\* Nothing is left: main returns and the process ends.
ShutdownDone ==
  /\ Running
  /\ phase[Main] = "reap"
  /\ cursor = <<>>
  /\ phase' = [phase EXCEPT ![Main] = "done"]
  /\ UNCHANGED <<op, on, calls, recordVars, joinVars, processVars, teardown,
                 history>>

-----------------------------------------------------------------------------
\* Thread t is about to read or lock actor b's record.
Touches(t, b) ==
  \/ op[t] \in {"sendBox", "sendIn"} /\ on[t] = b
  \/ op[t] = "joining" /\ on[t] = b /\ phase[b] = "exited"
  \/ t = b /\ phase[b] \in {"starting", "settle", "loop", "waiting", "turn",
                            "stopping"}
  \/ /\ InUserCode(t)
     /\ phase[t] = "stopping" => StopHookCalls
     /\ calls[t] < MaxCalls[t]
     /\ HasRef(b)

\* A record is used after zg_actor_shutdown freed it: anything may follow,
\* and nothing more is said of the process.
UseAfterFree(t, b) ==
  /\ Running
  /\ b \in freed
  /\ Touches(t, b)
  /\ crashed' = TRUE
  /\ UNCHANGED <<threadVars, recordVars, joinVars, processVars, cursor, freed,
                 history>>

\* A join of an actor that nobody stops may wait for ever.
JoinsInVain == ~JoinsStopped /\ \E t \in Threads : op[t] = "joining"

\* The process is over or undefined, or the program waits in vain.
Over == (~Running \/ JoinsInVain) /\ UNCHANGED vars

UserCall(t) ==
  \E b \in Actors :
    \/ SpawnOk(t, b) \/ SpawnUnavailable(t, b)
    \/ SendLockRegistry(t, b)
    \/ Stop(t, b)
    \/ JoinRefused(t, b) \/ JoinWait(t, b)

CallStep(t) ==
  \E b \in Actors :
    \/ SendLockBox(t, b) \/ SendRefused(t, b) \/ SendAccepted(t, b)
    \/ JoinReturn(t, b)

Worker(a) ==
  \/ WorkerReturn(a) \/ WorkerSettle(a)
  \/ WorkerWait(a) \/ WorkerTake(a) \/ WorkerDrained(a)
  \/ WorkerExit(a)

Shutdown ==
  \/ ShutdownLock \/ ShutdownWait \/ ShutdownQuiet
  \/ ShutdownClose \/ ShutdownUnlock
  \/ ShutdownReap \/ ShutdownJoin \/ ShutdownFree \/ ShutdownDone

Next ==
  \/ \E t \in Threads : UserCall(t) \/ CallStep(t)
  \/ \E a \in Actors : Worker(a) \/ WorkerSpurious(a)
  \/ MainReturn \/ Shutdown \/ ShutdownSpurious
  \/ \E t \in Threads, b \in Actors : UseAfterFree(t, b)
  \/ Over

Spec == Init /\ [][Next]_vars

\* The threads the scheduler runs, and user code that returns: no hook or
\* turn runs for ever.  Nobody owes a spurious wakeup; but a main thread woken
\* for nothing over and over may not keep a worker off the registry lock.
Fairness ==
  /\ \A t \in Threads : WF_vars(CallStep(t))
  /\ \A a \in Actors : WF_vars(Worker(a)) /\ SF_vars(WorkerSettle(a))
  /\ WF_vars(MainReturn)
  /\ WF_vars(Shutdown)

FairSpec == Spec /\ Fairness

-----------------------------------------------------------------------------
(* What the floor promises.                                                *)

\* What the actors still owe the count: a startup is work item 0 of its
\* actor, accepted message k is item k, and a worker settles them in turn.
Spawned(a) == phase[a] \notin {"unborn", "refused"}
OwedBy(a) == IF Spawned(a) THEN {a} \X (settled[a]..Len(accepted[a])) ELSE {}
Owed == UNION {OwedBy(a) : a \in Actors}

\* zg_actor_pending counts every live startup, every queued message and
\* every running turn exactly once, so that zero means the program is quiet.
\* Senders raise it under two locks; a worker lowers it long after the pop
\* that took the message off the queue, and under another lock.
PendingExact == pending = Cardinality(Owed)

\* No accepted message is lost, repeated or overtaken: what the worker has
\* taken and what waits is what was accepted, in that order.
NothingLost == \A a \in Actors : accepted[a] = handled[a] \o mailbox[a]

\* One sender's messages to one actor are taken in the order they were sent.
SendOrder ==
  \A a \in Actors : \A i, j \in DOMAIN handled[a] :
    i < j /\ handled[a][i].from = handled[a][j].from =>
      handled[a][i].n < handled[a][j].n

\* No worker sleeps on work or on a close: whoever makes the wait's
\* condition false wakes it in the same critical section.
NoLostWakeup ==
  \A a \in Actors : phase[a] = "waiting" => open[a] /\ mailbox[a] = <<>>

\* Ref.stop drains: once the stopped hook runs, admission is closed and no
\* accepted message is left behind.
StoppedDrained ==
  \A a \in Actors :
    phase[a] \in {"stopping", "exited"} => ~open[a] /\ mailbox[a] = <<>>

\* Shutdown tears down a quiet program: from its last look at `pending' on,
\* no started hook or turn runs, nothing is queued, and nothing is admitted.
ShutdownIsQuiet ==
  phase[Main] \in {"close", "reap", "join", "free", "done"} =>
    \A a \in Actors :
      mailbox[a] = <<>> /\ phase[a] \notin {"starting", "turn", "settle"}

\* Ref.join returns when the actor has drained and its stopped hook is done.
JoinWaits == \A a \in Actors : joined[a] => phase[a] = "exited"

\* No thread uses an actor record that shutdown has freed.
NoUseAfterFree == ~crashed

-----------------------------------------------------------------------------
(* The promise the floor keeps.                                            *)

Life(a) ==
  CASE ~Spawned(a)                        -> "none"
    [] phase[a] \in {"stopping", "exited"} -> "stopped"
    [] OTHER                              -> IF open[a] THEN "open" ELSE "closed"

Promise == INSTANCE ActorPromise WITH
  Messages <- Msg,
  life <- [a \in Actors |-> Life(a)],
  queue <- mailbox,
  ran <- handled,
  busy <- [a \in Actors |-> phase[a] \in {"starting", "turn"}]

\* Every step of the threads, the locks and the shutdown is a step of the
\* promise or invisible to it: admission is bounded and closes for good, turns
\* run one at a time in the order of admission, stopped hooks run last.
KeepsPromise == Promise!PromiseSpec

-----------------------------------------------------------------------------
(* What must happen.                                                       *)

\* Every message the floor accepts is handed to its actor.
AcceptedIsHandled ==
  \A a \in Actors : mailbox[a] # <<>> ~> handled[a] = accepted[a]

\* A stopped actor drains, runs its stopped hook and exits.
StopIsFollowed ==
  \A a \in Actors : (Spawned(a) /\ ~open[a]) ~> phase[a] = "exited"

\* Main's return ends the process.
ShutdownEnds == (phase[Main] = "shutdown") ~> phase[Main] = "done"

=============================================================================
