----------------------------- MODULE ProcStream -----------------------------
(***************************************************************************)
(* One call of std.proc (proc.c, proc.zen) and the child it starts: two    *)
(* pipes the parent drains in turn, a wait for the exit status, and one    *)
(* clean-up for success and failure.  The child runs beside the parent and *)
(* blocks when a pipe is full; it may leave a descendant behind that keeps *)
(* the pipes open; it may never end by itself.                             *)
(*                                                                         *)
(* Calls share nothing but the descriptor table, which is SpawnFds, so one *)
(* call is the whole model.  Bytes are counted: a pipe is a FIFO and the   *)
(* parent its only reader.                                                 *)
(***************************************************************************)
EXTENDS Naturals, FiniteSets

CONSTANTS
  Kinds,     \* which calls: "run", "run_argv", "into", "inherit"
  Capacity,  \* bytes a pipe holds
  Chunk,     \* bytes one read takes at most (4096 in both callers)
  Most,      \* bound: bytes the child writes to one channel
  Faults,    \* what may go wrong, of Mishaps
  Worlds     \* [ends: whether the child and what it leaves behind end once
             \* they have nothing to write, autoreap: whether this process
             \* ignores SIGCHLD]; one is chosen at first

Out == 1
Err == 2
Channels == {Out, Err}
Other(ch) == 3 - ch
Mishaps == {"spawn", "memory", "read", "refuse", "signal", "heir"}
Captured == {"run", "run_argv"}
Errors == {"SpawnFailed", "ReadFailed", "WaitFailed", "Refused", "NoMemory"}

ASSUME ProcAssumption ==
  /\ Kinds \subseteq Captured \cup {"into", "inherit"}
  /\ Capacity \in Nat \ {0} /\ Chunk \in Nat \ {0} /\ Most \in Nat
  /\ Faults \subseteq Mishaps
  /\ Worlds \subseteq [ends : BOOLEAN, autoreap : BOOLEAN]

\* wait(2) statuses: exit(n), or killed by a signal.
Statuses == [how : {"exit"}, n : {0, 3}] \cup [how : {"signal"}, n : {9, 13}]
NoStatus == [how |-> "none", n |-> 0]

VARIABLES
  world,    \* of Worlds
  kind,     \* which call it is
  asked,    \* whether it names a directory for the child
  at,       \* where the parent is
  pid,      \* whether it still has a child to reap: s->pid >= 0
  fds,      \* the channels whose read end is open: s->out_fd, s->err_fd
  next,     \* the channel the next poll looks at first: s->next
  ready,    \* what the last poll reported and is not yet looked at
  chunk,    \* the bytes in hand: channel (0: none) and length
  got,      \* bytes captured, or written to the sinks, per channel
  bufs,     \* the capture buffers on the C heap
  code,     \* what *code_out holds (NoCode: nothing)
  result,   \* what the call returns
  \* the child
  child,    \* "none", "running", "zombie", "reaped"
  where,    \* the directory it runs in: "named" or "ambient" ("none": nowhere yet)
  status,   \* how it ended
  plan,     \* what it will write, per channel
  wrote,    \* what it has written
  taken,    \* what the parent has read
  writers,  \* who holds the write end of each pipe
  passed    \* chunks of the other channel returned while this one was readable

parent == <<kind, asked, at, pid, fds, next, ready, chunk, got, bufs, code, result>>
kid    == <<child, where, status, plan, wrote, writers>>
vars   == <<world, parent, kid, taken, passed>>

NoCode == 1000
NoChunk == [ch |-> 0, n |-> 0]
Zero == [ch \in Channels |-> 0]

\* exit_code(): what a status is to the caller.
ExitCode(s) == IF s.how = "exit" THEN s.n ELSE 128 + s.n

\* poll(2) reports bytes, and the end of a pipe nobody can write to.
Readable(ch) == ch \in fds /\ (wrote[ch] > taken[ch] \/ writers[ch] = {})

Init ==
  /\ world \in Worlds
  /\ kind \in Kinds /\ asked \in BOOLEAN
  /\ at = "start" /\ pid = FALSE /\ fds = {} /\ next = Out /\ ready = {}
  /\ chunk = NoChunk /\ got = Zero /\ bufs = {} /\ code = NoCode /\ result = "none"
  /\ child = "none" /\ where = "none" /\ status = NoStatus
  /\ plan \in [Channels -> IF kind = "inherit" THEN {0} ELSE 0..Most]
  /\ wrote = Zero /\ taken = Zero /\ passed = Zero
  /\ writers = [ch \in Channels |-> {}]

-----------------------------------------------------------------------------
(* The call. *)

\* Arguments refused, memory short, no pipe, no program: nothing was started.
NotStarted ==
  /\ at = "start"
  /\ \/ /\ "spawn" \in Faults
        /\ result' = "SpawnFailed"
     \/ /\ "memory" \in Faults
        /\ result' \in {"SpawnFailed", IF kind = "into" THEN "NoMemory" ELSE "ReadFailed"}
  /\ at' = "done"
  /\ UNCHANGED <<kind, asked, pid, fds, next, ready, chunk, got, bufs, code, kid,
                 taken, passed>>

\* `run` copies the directory's name and passes on what it got: NULL, which
\* names no directory, when the copy failed.  The others fail instead.
Directories ==
  IF ~asked THEN {"ambient"}
  ELSE {"named"} \cup IF kind = "run" /\ "memory" \in Faults THEN {"ambient"} ELSE {}

\* posix_spawnp() succeeded: the child runs.
Runs ==
  /\ at = "start"
  /\ child' = "running" /\ pid' = TRUE
  /\ where' \in Directories
  /\ UNCHANGED <<kind, asked, next, ready, chunk, got, bufs, code, result,
                 status, plan, wrote, taken, passed>>

\* The parent keeps the read ends; the write ends are the child's alone.
Started ==
  /\ kind # "inherit" /\ Runs
  /\ fds' = Channels /\ writers' = [ch \in Channels |-> {"child"}]
  /\ at' = "poll"

\* No pipes: the child has the parent's own descriptors, and is waited for.
StartedInherit ==
  /\ kind = "inherit" /\ Runs
  /\ at' = "wait" /\ UNCHANGED <<fds, writers>>

\* poll() blocks until a channel is readable.
Poll ==
  /\ at = "poll"
  /\ ready' = {ch \in Channels : Readable(ch)}
  /\ ready' # {}
  /\ at' = "turn"
  /\ UNCHANGED <<kind, asked, pid, fds, next, chunk, got, bufs, code, result, kid,
                 taken, passed>>

\* The channel whose turn it is, among those the poll reported.
Looked == IF next \in ready THEN next ELSE Other(next)

Least(m, n) == IF m < n THEN m ELSE n

\* Mutant: `next` stays.
TakeChunkNoTurn ==
  /\ at = "turn" /\ wrote[Looked] > taken[Looked]
  /\ LET ch == Looked  n == Least(Chunk, wrote[ch] - taken[ch])
     IN /\ chunk' = [ch |-> ch, n |-> n]
        /\ taken' = [taken EXCEPT ![ch] = @ + n]
        /\ next' = next
        /\ passed' = [[ch2 \in Channels |-> IF Readable(ch2) THEN passed[ch2] + 1 ELSE 0]
                        EXCEPT ![ch] = 0]
  /\ ready' = {} /\ at' = "give"
  /\ UNCHANGED <<kind, asked, pid, fds, got, bufs, code, result, kid>>
\* A read returns bytes: the call hands them out and looks at the other
\* channel first next time.
TakeChunk ==
  /\ at = "turn" /\ wrote[Looked] > taken[Looked]
  /\ LET ch == Looked  n == Least(Chunk, wrote[ch] - taken[ch])
     IN /\ chunk' = [ch |-> ch, n |-> n]
        /\ taken' = [taken EXCEPT ![ch] = @ + n]
        /\ next' = Other(ch)
        /\ passed' = [[ch2 \in Channels |-> IF Readable(ch2) THEN passed[ch2] + 1 ELSE 0]
                        EXCEPT ![ch] = 0]
  /\ ready' = {} /\ at' = "give"
  /\ UNCHANGED <<kind, asked, pid, fds, got, bufs, code, result, kid>>

\* A read returns nothing: the channel is closed and leaves the poll set; the
\* same pass looks at the other one if it was reported too.
CloseChannel ==
  /\ at = "turn" /\ wrote[Looked] = taken[Looked]
  /\ fds' = fds \ {Looked}
  /\ ready' = ready \ {Looked}
  /\ at' = IF ready' = {} THEN "poll" ELSE "turn"
  /\ passed' = [passed EXCEPT ![Looked] = 0]
  /\ UNCHANGED <<kind, asked, pid, next, chunk, got, bufs, code, result, kid, taken>>

\* poll() or read() fails.
ReadFails ==
  /\ at \in {"poll", "turn"} /\ fds # {} /\ "read" \in Faults
  /\ result' = "ReadFailed" /\ at' = "close" /\ ready' = {}
  /\ UNCHANGED <<kind, asked, pid, fds, next, chunk, got, bufs, code, kid, taken,
                 passed>>

\* capture_append(), or the sink's write.
Give ==
  /\ at = "give"
  /\ got' = [got EXCEPT ![chunk.ch] = @ + chunk.n]
  /\ bufs' = IF kind \in Captured THEN bufs \cup {chunk.ch} ELSE bufs
  /\ chunk' = NoChunk /\ at' = "poll"
  /\ UNCHANGED <<kind, asked, pid, fds, next, ready, code, result, kid, taken, passed>>

GiveFails ==
  /\ at = "give"
  /\ \/ kind \in Captured /\ "memory" \in Faults /\ result' = "ReadFailed"
     \/ kind = "into" /\ "refuse" \in Faults /\ result' = "Refused"
  /\ chunk' = NoChunk /\ at' = "close"
  /\ UNCHANGED <<kind, asked, pid, fds, next, ready, got, bufs, code, kid, taken,
                 passed>>

\* Mutant: the wait starts once stdout has ended.
DrainedHalf ==
  /\ at = "poll" /\ Out \notin fds
  /\ at' = "wait"
  /\ UNCHANGED <<kind, asked, pid, fds, next, ready, chunk, got, bufs, code,
                 result, kid, taken, passed>>
\* Both channels have ended.
Drained ==
  /\ at = "poll" /\ fds = {}
  /\ at' = "wait"
  /\ UNCHANGED <<kind, asked, pid, fds, next, ready, chunk, got, bufs, code,
                 result, kid, taken, passed>>

\* Mutant: the reaped child's pid is kept.
WaitKeepsPid ==
  /\ at = "wait" /\ child = "zombie"
  /\ child' = "reaped" /\ code' = ExitCode(status) /\ result' = "Ok"
  /\ at' = "close"
  /\ UNCHANGED <<kind, asked, pid, fds, next, ready, chunk, got, bufs, where,
                 status, plan, wrote, writers, taken, passed>>
\* waitpid() blocks until the child has ended, and reaps it.
Wait ==
  /\ at = "wait" /\ child = "zombie"
  /\ child' = "reaped" /\ pid' = FALSE /\ code' = ExitCode(status) /\ result' = "Ok"
  /\ at' = "close"
  /\ UNCHANGED <<kind, asked, fds, next, ready, chunk, got, bufs, where, status,
                 plan, wrote, writers, taken, passed>>

\* The kernel has reaped the child already: waitpid() answers ECHILD.
WaitFails ==
  /\ at = "wait" /\ child = "reaped"
  /\ result' = "WaitFailed" /\ at' = "close"
  /\ UNCHANGED <<kind, asked, pid, fds, next, ready, chunk, got, bufs, code, kid,
                 taken, passed>>

-----------------------------------------------------------------------------
(* Cleaning up: zg_proc_stream_close, and the exits of its callers. *)

\* Mutant: only stdout is closed.
CloseFdsOne ==
  /\ at = "close"
  /\ fds' = fds \ {Out} /\ at' = IF pid THEN "kill" ELSE "free"
  /\ UNCHANGED <<kind, asked, pid, next, ready, chunk, got, bufs, code, result,
                 kid, taken, passed>>
CloseFds ==
  /\ at = "close"
  /\ fds' = {} /\ at' = IF pid THEN "kill" ELSE "free"
  /\ UNCHANGED <<kind, asked, pid, next, ready, chunk, got, bufs, code, result,
                 kid, taken, passed>>

\* The child ends; a parent that ignores SIGCHLD leaves no zombie.
Gone(s) ==
  /\ child' = IF world.autoreap THEN "reaped" ELSE "zombie"
  /\ status' = s
  /\ writers' = [ch \in Channels |-> writers[ch] \ {"child"}]
  /\ UNCHANGED <<where, plan, wrote>>

\* Mutant: the child is waited for without being killed.
KillNot ==
  /\ at = "kill" /\ at' = "reap"
  /\ UNCHANGED <<kind, asked, pid, fds, next, ready, chunk, got, bufs, code,
                 result, kid, taken, passed>>
\* kill(pid, SIGKILL): no effect on a zombie.
Kill ==
  /\ at = "kill" /\ at' = "reap"
  /\ IF child = "running" THEN Gone([how |-> "signal", n |-> 9]) ELSE UNCHANGED kid
  /\ UNCHANGED <<kind, asked, pid, fds, next, ready, chunk, got, bufs, code,
                 result, taken, passed>>

\* The second wait; its failure is ignored.
Reap ==
  /\ at = "reap" /\ child \in {"zombie", "reaped"}
  /\ child' = "reaped" /\ pid' = FALSE /\ at' = "free"
  /\ UNCHANGED <<kind, asked, fds, next, ready, chunk, got, bufs, code, result,
                 where, status, plan, wrote, writers, taken, passed>>

\* capture_free(), unless the buffers were handed to the caller.
Free ==
  /\ at = "free"
  /\ IF kind \in Captured /\ result = "Ok"
     THEN at' = "copy" /\ UNCHANGED bufs
     ELSE at' = "done" /\ bufs' = {}
  /\ UNCHANGED <<kind, asked, pid, fds, next, ready, chunk, got, code, result, kid,
                 taken, passed>>

\* Capture.result: the Zen side copies both buffers and frees them.
Copy ==
  /\ at = "copy"
  /\ result' \in {"Ok"} \cup IF "memory" \in Faults THEN {"ReadFailed"} ELSE {}
  /\ bufs' = {} /\ at' = "done"
  /\ UNCHANGED <<kind, asked, pid, fds, next, ready, chunk, got, code, kid, taken,
                 passed>>

-----------------------------------------------------------------------------
(* The child and what it leaves behind: external. *)

ChildWrites(ch) ==
  /\ child = "running" /\ ch \in fds
  /\ wrote[ch] < plan[ch] /\ wrote[ch] - taken[ch] < Capacity
  /\ wrote' = [wrote EXCEPT ![ch] = @ + 1]
  /\ UNCHANGED <<parent, child, where, status, plan, writers, taken, passed>>

\* A write to a pipe nobody reads: SIGPIPE.
ChildBroken(ch) ==
  /\ child = "running" /\ kind # "inherit" /\ ch \notin fds /\ wrote[ch] < plan[ch]
  /\ Gone([how |-> "signal", n |-> 13])
  /\ UNCHANGED <<parent, taken, passed>>

ChildExits ==
  /\ child = "running" /\ world.ends /\ wrote = plan
  /\ \E s \in Statuses : s.how = "exit" /\ Gone(s)
  /\ UNCHANGED <<parent, taken, passed>>

\* A child may close a channel it has nothing more to say on.
ChildCloses(ch) ==
  /\ child = "running" /\ "child" \in writers[ch] /\ wrote[ch] = plan[ch]
  /\ writers' = [writers EXCEPT ![ch] = @ \ {"child"}]
  /\ UNCHANGED <<parent, child, where, status, plan, wrote, taken, passed>>

ChildSignalled ==
  /\ child = "running" /\ "signal" \in Faults
  /\ Gone([how |-> "signal", n |-> 9])
  /\ UNCHANGED <<parent, taken, passed>>

\* A process of the child's own that may outlive it and keeps its pipes open.
ChildLeavesHeir ==
  /\ child = "running" /\ "heir" \in Faults /\ kind # "inherit"
  /\ writers' = [ch \in Channels |-> IF "child" \in writers[ch] THEN {"child", "heir"}
                                                              ELSE writers[ch]]
  /\ UNCHANGED <<parent, child, where, status, plan, wrote, taken, passed>>

HeirEnds ==
  /\ \E ch \in Channels : "heir" \in writers[ch]
  /\ writers' = [ch \in Channels |-> writers[ch] \ {"heir"}]
  /\ UNCHANGED <<parent, child, where, status, plan, wrote, taken, passed>>

-----------------------------------------------------------------------------
Call ==
  \/ Started \/ StartedInherit \/ NotStarted \/ Poll \/ TakeChunk \/ CloseChannel \/ ReadFails
  \/ Give \/ GiveFails \/ Drained \/ Wait \/ WaitFails
  \/ CloseFds \/ Kill \/ Reap \/ Free \/ Copy
ChildRuns == (\E ch \in Channels : ChildWrites(ch) \/ ChildBroken(ch)) \/ ChildExits
\* A call may wait for ever on a child that never ends.
Over == (at = "done" \/ ~world.ends) /\ UNCHANGED <<parent, kid, taken, passed>>

Steps ==
  \/ Call \/ ChildRuns \/ ChildSignalled \/ ChildLeavesHeir \/ HeirEnds \/ Over
  \/ \E ch \in Channels : ChildCloses(ch)

InWorld(A) == A /\ UNCHANGED world
Next == InWorld(Steps)
Spec == Init /\ [][Next]_vars

\* The operating system runs the caller and the child; where the child ends,
\* its descendant does too, at some time.  No fault is owed.
FairSpec ==
  /\ Spec
  /\ WF_vars(InWorld(Call)) /\ WF_vars(InWorld(ChildRuns))
  /\ WF_vars(InWorld(world.ends /\ HeirEnds))

-----------------------------------------------------------------------------
(* What should hold. *)

\* A call that returns Ok has handed over every byte the child wrote to either
\* channel, and the code of the child's own end (run_captured, run_argv_into):
\* no chunk is lost when a channel closes, a wait comes early or a turn changes.
WholeOnSuccess ==
  at = "done" /\ result = "Ok" =>
    /\ got = wrote /\ code = ExitCode(status)
    /\ kind # "inherit" /\ status.how = "exit" => got = plan

\* However the call ends, the child has been reaped, no descriptor of the call
\* is open and no capture buffer is left (the `done` labels, the deferred close).
NothingLeft ==
  at = "done" => child \in {"none", "reaped"} /\ ~pid /\ fds = {} /\ bufs = {}

\* The clean-up never signals a child that was reaped, whose pid may by then be
\* another process's (s->pid = -1 after the wait; pid = -1 in run_argv_inherit).
\* A process that ignores SIGCHLD is excepted: the kernel reaps its child, the
\* wait fails and leaves the pid, and the clean-up signals it.
NoStrayKill == at = "kill" /\ ~world.autoreap => child # "reaped"

\* A channel with something to read waits for one chunk of the other channel
\* at most, however busy that one is (s->next).
FairDrain == \A ch \in Channels : passed[ch] <= 1

\* A child runs in the directory the caller named (zg_proc_run, the chdir
\* action of the others), or it does not run.
InNamedDirectory == child # "none" /\ asked => where = "named"

\* With a child and descendants that end, every call returns: parent and child
\* never wait for each other over a full pipe.
Returns == world.ends ~> at = "done"

\* A call that has failed returns although the child and whoever else holds its
\* pipes would run for ever (kill and wait in zg_proc_stream_close).
FailureReturns == result \in Errors ~> at = "done"
=============================================================================
