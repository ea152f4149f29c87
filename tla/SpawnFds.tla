------------------------------ MODULE SpawnFds ------------------------------
(***************************************************************************)
(* The descriptor table of a process whose threads start children at the   *)
(* same time (stream_start and the closing half of the drain, proc.c).     *)
(* Pipes take the lowest free numbers, a child gets a copy of the whole    *)
(* table, the file actions rearrange that copy by number, and exec closes  *)
(* what is marked close-on-exec.  ProcStream takes from here that a child  *)
(* holds the write ends of its own two pipes and of no others.             *)
(***************************************************************************)
EXTENDS Integers, FiniteSets

CONSTANTS
  Threads,  \* the threads that make calls
  Std,      \* which of the descriptors 0, 1, 2 are open when the program starts
  LastFd,   \* the highest number a descriptor may get
  MaxCalls  \* bound: calls by one thread

Fds == 0..LastFd
Channels == 0..1          \* i of pipes[i]: stdout, stderr
ASSUME SpawnAssumption ==
  /\ IsFiniteSet(Threads) /\ Std \subseteq 0..2
  /\ LastFd \in Nat /\ LastFd >= 2 /\ MaxCalls \in Nat

\* What a descriptor stands for: nothing, an inherited one, an end of a pipe.
Free == [what |-> "free"]
Inherited(n) == [what |-> "std", n |-> n]
PipeEnd(t, i, e) == [what |-> "pipe", of |-> t, ch |-> i, end |-> e]
None == -1

VARIABLES
  table,   \* the process's descriptors, and which are close-on-exec
  at,      \* per thread: "idle", "second", "spawn", "shut", "fail", "open", "closing"
  pipes,   \* per thread: the locals of stream_start, pipes[i] = <<r, w>>
  handle,  \* per thread: out_fd and err_fd of its stream, or None
  child,   \* per thread: the table of the child it started last, after exec
  calls    \* calls each thread has made
vars == <<table, at, pipes, handle, child, calls>>

Unused == {f \in Fds : table.file[f] = Free}
NoPipe == [r |-> None, w |-> None]
NoChild == [file |-> [f \in Fds |-> Free], cloexec |-> Fds]  \* what no exec leaves

Init ==
  /\ table = [file |-> [f \in Fds |-> IF f \in Std THEN Inherited(f) ELSE Free],
              cloexec |-> {}]
  /\ at = [t \in Threads |-> "idle"]
  /\ pipes = [t \in Threads |-> [i \in Channels |-> NoPipe]]
  /\ handle = [t \in Threads |-> [i \in Channels |-> None]]
  /\ child = [t \in Threads |-> NoChild]
  /\ calls = [t \in Threads |-> 0]

Close(tab, F) == [file |-> [f \in Fds |-> IF f \in F THEN Free ELSE tab.file[f]],
                  cloexec |-> tab.cloexec \ F]

\* Mutant: pipe() without O_CLOEXEC.
PipeFlags(F) == {}
\* The flags pipe2() gives both ends.
Flags(F) == F

\* Two numbers are left for a pipe.
Admits == \E r, w \in Unused : r # w

\* pipe2(pipes[i], O_CLOEXEC): the lowest two free numbers.
MakesPipe(t, i) ==
  \E r, w \in Unused :
    /\ r < w /\ \A f \in Unused : f = r \/ f >= w
    /\ table' = [file |-> [table.file EXCEPT ![r] = PipeEnd(t, i, "r"),
                                             ![w] = PipeEnd(t, i, "w")],
                 cloexec |-> table.cloexec \cup Flags({r, w})]
    /\ pipes' = [pipes EXCEPT ![t][i] = [r |-> r, w |-> w]]

FirstPipe(t) ==
  /\ at[t] = "idle" /\ calls[t] < MaxCalls
  /\ MakesPipe(t, 0)
  /\ at' = [at EXCEPT ![t] = "second"] /\ calls' = [calls EXCEPT ![t] = @ + 1]
  /\ UNCHANGED <<handle, child>>

SecondPipe(t) ==
  /\ at[t] = "second"
  /\ MakesPipe(t, 1)
  /\ at' = [at EXCEPT ![t] = "spawn"]
  /\ UNCHANGED <<handle, child, calls>>

\* No descriptors left for the second pipe.
PipeFails(t) ==
  /\ at[t] = "second" /\ ~Admits
  /\ at' = [at EXCEPT ![t] = "fail"]
  /\ UNCHANGED <<table, pipes, handle, child, calls>>

\* The file actions, in order, on the child's copy of the table.  dup2() of a
\* descriptor onto itself clears the flag, as posix_spawn does it.
Dup(tab, from, to) ==
  [file |-> [tab.file EXCEPT ![to] = tab.file[from]], cloexec |-> tab.cloexec \ {to}]
Exec(tab) == Close(tab, tab.cloexec)
DupTo(i) == i + 1
Arranged(tab, p, i) == Close(Dup(tab, p[i].w, DupTo(i)), {p[i].r, p[i].w})

Spawn(t) ==
  /\ at[t] = "spawn"
  /\ child' = [child EXCEPT ![t] =
                 Exec(Arranged(Arranged(table, pipes[t], 0), pipes[t], 1))]
  /\ at' = [at EXCEPT ![t] = "shut"]
  /\ UNCHANGED <<table, pipes, handle, calls>>

\* posix_spawnp() or the actions fail: memory, no such program or directory.
SpawnFails(t) ==
  /\ at[t] = "spawn"
  /\ at' = [at EXCEPT ![t] = "fail"]
  /\ UNCHANGED <<table, pipes, handle, child, calls>>

\* Mutant: the read ends only.
EndsOne(t) == {pipes[t][i].r : i \in Channels} \ {None}
Ends(t) ==
  (UNION {{pipes[t][i].r, pipes[t][i].w} : i \in Channels}) \ {None}

\* The fail label closes what was opened.
Undo(t) ==
  /\ at[t] = "fail"
  /\ table' = Close(table, Ends(t))
  /\ pipes' = [pipes EXCEPT ![t] = [i \in Channels |-> NoPipe]]
  /\ at' = [at EXCEPT ![t] = "idle"]
  /\ UNCHANGED <<handle, child, calls>>

\* The write ends are closed one after the other, the read ends kept.
ShutWrite(t, i) ==
  /\ at[t] = "shut" /\ pipes[t][i].w # None
  /\ i = 0 \/ pipes[t][0].w = None
  /\ table' = Close(table, {pipes[t][i].w})
  /\ pipes' = [pipes EXCEPT ![t][i].w = None]
  /\ UNCHANGED <<at, handle, child, calls>>

Opened(t) ==
  /\ at[t] = "shut" /\ \A i \in Channels : pipes[t][i].w = None
  /\ handle' = [handle EXCEPT ![t] = [i \in Channels |-> pipes[t][i].r]]
  /\ pipes' = [pipes EXCEPT ![t] = [i \in Channels |-> NoPipe]]
  /\ at' = [at EXCEPT ![t] = "open"]
  /\ UNCHANGED <<table, child, calls>>

\* Mutant: the field keeps the number of the descriptor that was closed.
Forgets(fd) == fd
\* What out_fd or err_fd becomes when its descriptor is closed at end of file.
Forgotten(fd) == None

\* stream_next: a channel has ended.
ChannelEnds(t, i) ==
  /\ at[t] = "open" /\ handle[t][i] # None
  /\ table' = Close(table, {handle[t][i]})
  /\ handle' = [handle EXCEPT ![t][i] = Forgotten(@)]
  /\ UNCHANGED <<at, pipes, child, calls>>

\* zg_proc_stream_close begins, after any of the callers' exits.
StreamClose(t) ==
  /\ at[t] = "open"
  /\ at' = [at EXCEPT ![t] = "closing"]
  /\ UNCHANGED <<table, pipes, handle, child, calls>>

CloseField(t, i) ==
  /\ at[t] = "closing" /\ handle[t][i] # None
  /\ i = 0 \/ handle[t][0] = None
  /\ table' = Close(table, {handle[t][i]})
  /\ handle' = [handle EXCEPT ![t][i] = None]
  /\ UNCHANGED <<at, pipes, child, calls>>

Closed(t) ==
  /\ at[t] = "closing" /\ \A i \in Channels : handle[t][i] = None
  /\ at' = [at EXCEPT ![t] = "idle"]
  /\ UNCHANGED <<table, pipes, handle, child, calls>>

Next ==
  \E t \in Threads :
    \/ FirstPipe(t) \/ SecondPipe(t) \/ PipeFails(t) \/ Spawn(t) \/ SpawnFails(t)
    \/ Undo(t) \/ Opened(t) \/ StreamClose(t) \/ Closed(t)
    \/ \E i \in Channels : ShutWrite(t, i) \/ ChannelEnds(t, i) \/ CloseField(t, i)

Spec == Init /\ [][Next]_vars

-----------------------------------------------------------------------------
(* What should hold. *)

\* A number a call remembers is its own pipe's: closing it never closes a
\* descriptor another thread got under the same number (out_fd = -1 at the end
\* of a channel, w closed once, the fail label).
OwnDescriptors ==
  \A t \in Threads, i \in Channels :
    /\ pipes[t][i].r # None => table.file[pipes[t][i].r] = PipeEnd(t, i, "r")
    /\ pipes[t][i].w # None => table.file[pipes[t][i].w] = PipeEnd(t, i, "w")
    /\ handle[t][i] # None => table.file[handle[t][i]] = PipeEnd(t, i, "r")

Started(t) == child[t] # NoChild

\* The child's stdout and stderr are its two pipes (proc.zen:1, run_argv
\* captures stdout and stderr).
ChildStdio ==
  \A t \in Threads : Started(t) =>
    \A i \in Channels : child[t].file[i + 1] = PipeEnd(t, i, "w")

\* A child inherits no other end of any pipe, of its own call or of a call
\* another thread is making: an end kept by a stranger would delay the end of
\* file until the stranger ends (O_CLOEXEC, the close actions).
NoStrangers ==
  \A t \in Threads, f \in Fds \ {1, 2} : child[t].file[f].what # "pipe"

\* Of all pipes a child has exactly its own two, where run_argv says it has
\* them, however the steps of two calls interleave.
ChildHoldsOwn == ChildStdio /\ NoStrangers

\* Between calls the table is what it was at the start.
NothingHeld ==
  (\A t \in Threads : at[t] = "idle") =>
     {f \in Fds : table.file[f] # Free} = Std
=============================================================================
