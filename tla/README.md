# Verification of Zen

TLA+ models, TLC runs and TLAPS proofs about the program in this repository:
the Zen compiler, its standard library and the C runtime floors the compiler
writes into every program it builds. Paths below are relative to the
repository.

## 1. What the system consists of

`zen` compiles Zen to C: `mod_resolver -> lexer -> parser -> sema -> codegen`
(docs/DESIGN.md). The front end is a chain of pure functions over an immutable
tree. State, concurrency and failure are in four other places:

* the **floors**: C text that `src/gen/gen_c/gen_c_*.zen` emits into programs
  that use a capability: actors, threads, the defer stack, files, clocks;
* the **standard library** parts that keep state across calls: the arena,
  collections, byte-fed decoders (JSON, SSE), the HTTP clients, child processes;
* the **language server**, a session with documents and caches of checked facts;
* the **tooling**: the incremental bootstrap and the test harness's cache.

| Component | State | Operations | Talks to | Hard behaviour | Correct when |
|---|---|---|---|---|---|
| actor floor `gen_c_actor.zen` | per actor: mailbox list, `count`, `open`, `joined`; per process: registry, `pending`, `shutting_down` | spawn, send, stop, join, worker loop, shutdown | user code (hooks and turns call back in), pthreads | two lock levels, condition variables, teardown while hooks run | bounded FIFO mailboxes, one turn at a time, stop drains, shutdown waits for quiet, nothing freed is used |
| threads floor `gen_c_threads.zen` | one record per spawned closure | spawn, join, sleep | pthreads | hand-over of the record, double join | result delivered once, record freed once |
| defer stack `gen_c_runtime.zen` | up to 32 slots per block | defer, run | user closures | a closure that defers while the stack runs | LIFO, each once, bound trapped |
| arena `std/mem/mem_arena.zen` | page chain, bump offset, run headers | raw, realloc, drop | page authority | in-place growth, alignment | live runs are disjoint, contents kept, pages released once |
| collections `std/collections` | Vec, Map | add, set, take, remove | allocator | growth, probing past deletions | agree with a sequence / a function |
| child processes `std/proc` | pid, two pipes, turn | start, next, wait, close | kernel | pipe back-pressure, failure of a sink | all bytes delivered, child reaped once |
| HTTP/2 client `std/net/http2` | windows, debt, active stream, GOAWAY | connect, send_post, read events, control | TLS/TCP stream, receiver actor or sink | flow control against a peer that changes its settings, one stream after another | never sends beyond the grant, returns the credit it took, closed when unusable |
| HTTP/1 client `std/net/http` | chunk decoder | feed | stream | split reads | same answer for every split |
| SSE decoder `std/net/sse.zen` | line, data, kind, id, CR flag | feed, finish | transport | CR/LF across chunks, reconnection | same events for every split |
| JSON decoder `std/json/json_stream.zen` | frames, token, mode | feed, finish | transport | tokens across chunks | same events for every split, nesting bounded |
| language server `src/lsp` | documents, open list, caches, phase | requests and notifications | editor, checker | stale caches, failed updates | answers and diagnostics describe the current text |
| bootstrap `scripts/build.py` | lock, objects, saved state, output | build | compiler, file system | crash between renames, edits during the build | saved state never vouches for other output |
| test harness `tests/run.py` | result cache | lookup, publish | compiler | inputs changing underneath | a reused verdict is the verdict a run would give |
| lexer, parser, sema, lowering, emitters, formatter, CLI | none kept between calls | pure functions | each other | size | left to the corpus of programs with expected output |

`PROJECT.json` lists every component with its files and status, and every
hazard at its line.

## 2. The plan, and where it stands

| Component | Module | Checked | Proved |
|---|---|---|---|
| actor floor | `ActorRuntime`, abstract `ActorPromise` | safety, liveness, refinement | every safety property and the refinement (section 3) |
| HTTP/2 client | `H2Client` | safety, liveness | safety (section 4) |
| child processes | `ProcStream`, `SpawnFds` | safety, liveness | safety (section 5) |
| arena | `Arena` | safety | safety (section 6) |
| threads floor | `ThreadFloor` | safety, liveness | safety (section 7) |
| incremental bootstrap | `BootstrapBuild` | safety, recovery | safety (section 8) |

Every safety property of a passing run is proved for all values of the
constants; the liveness properties are left to TLC, because the proof system
knows neither fairness nor ENABLED. Where a proof needs induction over data, as
the sums of section 4 do, it takes the least element of the set of
counterexamples: the library's induction theorems take an operator as parameter,
which no prover here can instantiate, but that finite sets are well founded by
inclusion is a theorem without one (`LeastNatural` in `H2Client_proofs`).

Each component of section 1 that keeps state and meets concurrency, failure or
an environment of its own was taken first, the sequential ones after. What the
plan has left, in this order:

1. `Mailbox`: the linked list of the actor floor (`head`, `tail`, `next`,
   `count`), refining the sequence `ActorRuntime` uses.
2. The byte-fed decoders, `SseDecoder` and `JsonStream`, against a whole-input
   definition, over every split.
3. `LspSession`: documents, caches and failing allocations; `ResultCache` of the
   test harness.

## 3. Actors

### Modules

| Module | What it is |
|---|---|
| `ActorRuntime` | the floor: every thread, both kinds of lock, both condition variables |
| `ActorPromise` | what a program may rely on, with no lock or thread in it |
| `MCActorRuntime` | small instances for TLC |
| `ActorRuntime_proofs`, `ActorPromise_proofs` | the theorems |

### How the model corresponds to the code

A thread is `Main` or the worker of an actor. `phase[t]` is where the thread is
in its own loop: for a worker the place in `zg_actor_worker`, for main its own
code or the place in `zg_actor_shutdown`. `op[t]` and `on[t]` say which call of
the floor the thread's user code is inside. User code is whatever the program
writes in `main`, in `started` and `stopped` hooks and in turns: it may call
spawn, send, stop and join, on any registered actor, at any time.

The mailbox list is a sequence; its `count` is the length. A message is its
sender and the number of the sender's call. A critical section that takes no
second lock is one action; `zg_actor_send` nests `zg_actor_registry_lock` and
`a->lock` and is three (`SendLockRegistry`, `SendLockBox`, and one of
`SendAccepted` and `SendRefused`). Shutdown holds the registry lock over several
steps and takes each mailbox lock in turn (`ShutdownLock` to `ShutdownUnlock`).

`pthread_cond_signal` moves a waiting thread to where it re-acquires its lock,
so that the loop tests its condition again; `WorkerSpurious` and
`ShutdownSpurious` wake it for nothing. `pthread_create` and the mutex
initialisers may fail (`SpawnUnavailable`); `malloc` may fail in spawn and send,
before any lock is taken and with nothing changed. `pthread_join` is external:
`JoinFails` lists when POSIX lets it return at once. `UseAfterFree` is enabled
when a thread is about to read a record that shutdown has freed: the run is then
`crashed` and nothing more is said of it.

`accepted`, `handled` and `settled` are history variables. They name what the
properties are about and guard nothing.

### Runs

| Run | Instance | What it shows |
|---|---|---|
| `actor_any` | two actors, capacity 2, two calls by each thread; anybody joins anybody, stopped or not; stopped hooks call too | type, no message lost or overtaken, no lost wake-up, stop drains, `pending` exact, shutdown finds the program quiet, and the whole floor implements `ActorPromise`; no deadlock |
| `actor_live` | two actors, capacity 2; main makes four calls, one actor one; main alone joins, and only what it stopped; stopped hooks call nothing | `join` waits for the stopped hook, no freed record is used, accepted messages are handled, a stopped actor exits, shutdown ends; no deadlock |
| `actor_stop_hook` | stopped hooks call | a freed record may be used |

A program in which a thread joins an actor nobody stops waits for ever by its
own doing; `JoinsInVain` says where, and elsewhere a wait without end is a
deadlock. That is how `actor_any` checks the order of the locks: its stopped
hooks send, taking the registry lock and then a mailbox lock, while shutdown
holds the registry and closes the mailboxes.

**Bounds.** Two actors and main give every pair of roles: sender and receiver,
both senders, stopper against sender, joiner against joiner, an older record and
a newer one in the registry. Capacity 2 is exceeded within the calls allowed:
three senders may find two places. `MaxCalls` bounds the calls of a thread's
user code; four by main are enough to spawn, send, stop and join one actor or to
race two. What the bounds leave out, more actors and longer programs, the proofs
below do not.

**Fairness** (`actor_live`). The operating system runs every thread that can
run: weak fairness for a thread's steps inside a call (`CallStep`), for each
worker and for shutdown. That a hook or a turn returns is the program's duty and
assumed (`WorkerReturn`, `WorkerExit` are in `Worker`; `MainReturn` is fair).
No call is ever owed. Nobody owes a spurious wake-up, but one may come over and
over; strong fairness of `WorkerSettle` says that a main thread woken for
nothing again and again does not keep a worker off the registry lock for ever,
as a mutex does not starve.

### What is proved

For any number of actors, any capacity, any number of calls and any program,
well-behaved or not. The only assumptions are those of `ActorRuntime`: finitely
many actors, main is not one of them, a positive capacity.

| Module | Theorems |
|---|---|
| `ActorRuntime_proofs` | `TypeCorrect`, `CountIsExact`, `MessagesKept`, `WakeupsKept`, `DrainedFirst`, `QuietTeardown`, `SendsInOrder`; of programs that keep two rules, `JoinsWait` and `NothingFreedIsUsed` |
| `ActorPromise_proofs` | `Implements`: `Spec => KeepsPromise` |

The first module's argument is one inductive invariant, `IInv`, checked by TLC
before it was proved. The properties are not inductive alone:

* `PendingExact` needs to know where each worker is. `Owed` is a set of work
  items, item 0 of an actor being its start and item k its k-th accepted
  message; `pending` is its cardinality. `SettledInv` ties the number of settled
  items to the worker's place and to `handled`, so that a worker in its turn
  owes exactly the item it has taken.
* `ShutdownIsQuiet` follows when shutdown sees `pending = 0`: then `Owed` is
  empty (`ZeroIsQuiet`), so no worker is starting, in a turn or about to settle,
  and no mailbox holds anything. It stays true because `CallInv` gives shutdown
  the registry lock, which admission needs, until `CloseInv` says that every
  mailbox is closed.
* `NoLostWakeup` and `StoppedDrained` use that a mailbox admits only while open,
  and that only the worker itself takes from it.

Each lemma `...Step` proves one conjunct of `IInv'` with one step per action.
The rest builds on it:

* `Implements` maps each action to one of `ActorPromise` or to a stutter. The
  guards of the promise that the floor does not test where it acts, a turn only
  when none is on, a stopped hook only after the last turn, come from `IInv`.
* `SendsInOrder` adds that the numbers of one sender's messages rise along
  `accepted` and stay below that sender's next one; what is handled is a prefix
  of what was accepted.
* The two rules are `Disciplined`: only main joins, and a stopped hook makes no
  call. `JoinInv` says that a worker somebody waits for has exited unless main is
  in that very join, so `pthread_join` cannot fail and `joined` is true;
  `FreeInv` that shutdown frees a record only when its worker has exited, and
  only at the very end, when all user code left is a stopped hook. Main may join
  actors nobody stopped: it then waits, but the properties hold. Both findings
  below break one of the rules.

### Only model-checked

The liveness properties: the proof system does not reason about fairness.

### Findings

* `zg_actor_join` ignores what `pthread_join` returns and sets `joined`. An
  actor that joins itself, and a second joiner while a first one waits, are told
  that the actor has stopped while it runs. docs/DESIGN.md:1179 says join "waits
  until draining and stopped complete". `MCActorRuntimeSelfJoin.cfg`, in which
  actors join too, violates `JoinWaits`.
* `zg_actor_shutdown` joins and frees one record after the other. The stopped
  hook of an actor later in the list may still send to an actor earlier in it:
  it then locks a freed record. The comment at gen_c_actor.zen:310-313 counts on
  "a final send against process teardown" and orders the locks for it, but the
  record it locks may be gone. Run `actor_stop_hook`.

## 4. The HTTP/2 client

`H2Client` is `http2_client.zen` with its two wires and an external peer;
`MCH2Client` instantiates it, `H2Client_proofs` holds the theorems.

### How the model corresponds to the code

The client runs on its caller's thread. `at` is where the call is: in
`connect`'s loop (`handshake`), between calls (`idle`), in `send_post`'s loop
(`send`), in `next_response_event` (`recv`), or holding a DATA frame its consumer
has not taken (`deliver`). `open`, `sid`, `initWin`, `sendWin`, `sendDebt`,
`connWin`, `active`, `gotGoaway` and `peerLast` are the fields of `H2Client`,
`gotFinal` and `done` those of `H2ReadState`, `credit` that of `H2Data`;
`got_peer_settings` is `at # "handshake"`. A stream is named by its rank.

Frames are read one at a time and only where the code reads (`Reading`). Each
kind has an action that does all its handler does: a SETTINGS frame changes the
windows, is acknowledged, and ends the handshake. `Fails` is the error path,
which closes the client in `connect` and `post_stream` and leaves it as it is in
`post_into`. A step that fails keeps what it has changed so far, as the code
does: an increment that overflows has already paid the debt.

The peer does what RFC 7540 lets a server do, its habits chosen by `PeerDoes`.
It counts SETTINGS as in force when they are acknowledged, and may answer before
the request has ended (`early`), reset streams, refuse them with GOAWAY, send
PRIORITY of any stream and frames the client does not support (`unsupported`),
or break flow control (`overgrant`). What it sends of its own accord is bounded
by `Turns`; what the client cannot go on without is not.

Abstracted: bytes of bodies and headers, HPACK, padding (a DATA frame's size is
its whole payload, which is what is credited), status codes (an answer
above 399 is a complete exchange), allocation failures, TLS. One frame type,
`unsupported`, stands for PUSH_PROMISE and what is pushed, CONTINUATION, HEADERS
that need one, and extension frames: the client answers each with
`ProtocolFailed` wherever it reads it (`control` leaves them to its callers at
http2_client.zen:533). Everything a frame may be rejected for is
`ProtocolFailed`.

### Runs

| Run | Peer and consumers | What it shows |
|---|---|---|
| `h2` | seven scenes, below | type, no overrun, exact send and receive credit, `ProtocolFailed` for named causes only, a clean client between calls, Ok means whole; no deadlock |
| `h2_live` | settings, pings, resets, lost link; both calls | every call returns |
| `h2_goaway` | GOAWAY | a refused request may wait for credit for ever |

The scenes of `h2` (`MCSafe`): `Lawful`, a peer that sends settings, grants,
interim responses and trailers to a mailbox that may be full in mid-response;
`Rude`, one that resets, leaves with GOAWAY or loses the link, to a mailbox that
refuses anything; `Hasty`, one that does so before the request has ended, and
answers early; `Overgranting`, increments of zero or too much with settings
between them, both calls and every refusal; `Sinks`, both calls one after the
other with a mailbox that may be full; `Lost`, a link that is lost while
settings, increments and pings cross the request; `Strange`, a peer that sends
PRIORITY and unsupported frames, to both calls. Each property names the habits it
excludes. A client may wait for ever where `Deserted` says so: after a GOAWAY, an
early reply or a refused last chunk, which are the findings, and where
increments let it believe in credit the peer's books do not have; elsewhere a
wait without end is a deadlock and would be reported.

**Bounds.** Two requests show what one leaves to the next. The windows are
1 (default), 2 (advertised) and 3 (most), initial windows 0 to 3, bodies 0 and 2:
credit runs out in the middle of every body, a SETTINGS takes a window below
zero, a single increment can overflow, and two responses exceed the connection's
window so that unreturned credit is missed. Two frames of its own accord let a
peer raise and lower, or grant and lower, within one request.

**Fairness** (`h2_live`, `h2_goaway`). `Call`: the caller's thread runs
on inside a call. `Serves`: the peer reads, answers requests it has read, and
grants credit when the client can send nothing without it. Without a serving
peer a client with no timeout waits, and the code has no timeout. Nothing is
assumed of new calls, of refusals or of the peer's habits.

### What holds, and why it is not obvious

`SendCreditExact` is the balance of both windows over both wires. The stream's
books compare the client's window less its debt and less the initial window it
knows with the peer's grants less the DATA it has read; the initial window drops
out, which is why a SETTINGS in flight disturbs neither side. `RecvCreditExact`
is the same balance the other way. It excludes refused last chunks, which is the
second finding.

`LeavesUnread` is what three properties except. A `post_into` that fails, because
its sink refuses a chunk, the link is lost, the peer answers early, sends what
the client does not support or breaks flow control, leaves its client open with the rest of the response unread: the next
call reads it, fails with ProtocolFailed, and its credit never returns.
`post_stream` closes the client instead. The proof of `RecvCreditExact` showed
that the case must be named; `Sinks` checks both calls outside of it.

`FailsForCause` says when a call ends with `ProtocolFailed`. It is not that the
peer broke the protocol: RFC 7540 lets a server answer before the end of the
request, reset a stream, send PRIORITY at any time, push to a client that has not
turned push off, continue a header block in CONTINUATION, and send frames of
types yet unknown, which a receiver is to ignore; the client answers each with
`ProtocolFailed` (PRIORITY it passes over only inside the response it reads). `connect` meets
none of them, for the first frame of a server is SETTINGS. The
comment at http2_client.zen:327 says so of CONTINUATION; nothing in the
repository promises more, so no run claims it. What the property excludes is a
failure that none of these explains: one caused by settings, grants, pings,
interim headers, trailers or a GOAWAY that cross the request in any order, or by
an earlier response.

### Findings

* `send_post` reads GOAWAY while it waits for credit but does not look at the
  last stream it names. `next_response_event` does (http2_client.zen:288). A
  refused request that is short of credit waits until the link is lost. Run
  `h2_goaway`.
* `receiver_refused` leaves the client open when the refused chunk was the last
  of its response, without returning the chunk's connection credit. The window
  is 16 MiB, a chunk up to 16 KiB: about a thousand refusals later the peer may
  send nothing, and `post_stream` waits instead of completing or failing
  (http2_client.zen:172). `MCH2ClientLastChunk.cfg`, with replies of two and
  a window of three, violates `PostEnds`.

### What is proved

For windows, chunks, bodies and increments of any size, any number of requests,
any scenes and every order of frames. Assumed are the ranges of the constants
(`WindowAssumption`: connect's two grants do not exceed the greatest window;
`SceneAssumption`: what a scene is made of).

`H2Client_proofs` proves `Invariance`, and from it `ShapeKept`, `NeverOverruns`,
`SendCreditKept`, `RecvCreditKept`, `FailuresHaveCause`, `NothingLeftOver` and
`WholeDelivered`: every safety property of the run `h2`.

What a frame does is decided when it is written and seen when it is read, so
almost nothing here is inductive without saying what is on the wires. `IInv` has
a layer for each question; TLC checked them on the scenes of `h2` before they
were proved:

* `TypeInv`, `CallInv`, `Fresh`: shapes; an acknowledgement on its way, or still
  to be written, for every SETTINGS the peer waits for; the stream in use is the
  latest and those to come are untouched.
* `RequestInv`, `ReplyInv`: the order of a stream's frames on each wire; nothing
  follows the frame that ends it, interim headers come before the final ones.
* `ResponseInv`: where the call stands in its response. What it got, has in hand
  and what is under way is what the peer sent; the end is ahead while the peer
  has ended and the call has not seen it.
* `CreditInv`: `NoOverrun` is about the moment the peer reads DATA, so for each
  DATA frame on the wire the sum of DATA up to it must not exceed what will then
  be granted: the initial window after the acknowledgements in front of it. The
  values of the initial window form one sequence, from the one in force at the
  peer, through those not yet acknowledged, to the one in force at the client
  (`InitAfter`). The same layer bounds each by the greatest window, so that no
  lawful SETTINGS overflows.
* `ResultInv`, `CleanInv`: a client that can be used has nothing before it but
  the response in progress, and every earlier stream has ended on both sides or
  was never begun.

`FailsForCause` needs nearly all of it: that a frame is expected (`ResponseInv`,
`CleanInv`) and that no lawful increment or SETTINGS overflows (`CreditInv`).
The module begins with sums over wires, what they become when a frame is put
behind or taken from the front (`SumsGrow`, `BytesAppend`, `PlacePut`,
`PlaceRest`), each proved through `LeastNatural` (section 2).

Only model-checked: `PostEnds`, and that the client deadlocks nowhere.

## 5. Child processes

### Modules

`ProcStream` is one call of `std.proc` with the child it starts; `SpawnFds` is
the descriptor table when threads of one process make such calls at the same
time. Calls share nothing else. `ProcStream` takes from `SpawnFds` that a child
holds the write ends of its own two pipes and of no others.

### How the models correspond to the code

**ProcStream.** `at` follows the call through `proc.c`: `poll` and `turn` are
the loop of `zg_proc_stream_next`, `give` is the caller's use of a chunk
(`capture_append`, or a sink's write), `wait` is `zg_proc_stream_wait`, `close`,
`kill` and `reap` are `zg_proc_stream_close`, `free` and `copy` the exits of the
callers. `pid`, `fds` and `next` are `s->pid`, `s->out_fd` and `s->err_fd`, and
`s->next`. `run_argv_inherit` has no pipes and goes from start to `wait`.

`poll` is a snapshot (`ready`); the pass over it looks at the channel whose turn
it is first, closes a channel that has ended and goes on to the other one in the
same pass, as the code does. The child runs beside the call: it writes while its
pipe has room, may close a channel early, be killed, exit before or after all
its output is read, and leave a descendant that keeps the pipes open
(`ChildLeavesHeir`). `world.ends` says whether child and descendant end;
`world.autoreap` that the process ignores SIGCHLD, so that the kernel reaps the
child and `waitpid` answers ECHILD.

Abstracted: bytes are counted, arguments and environment left out, EINTR, which
the code retries everywhere, is no step. A child that starts and cannot
run its program is a `SpawnFailed` of `posix_spawnp`.

**SpawnFds.** `table` maps each descriptor number to what it stands for. Pipes
take the lowest free numbers (`pipe2`), a child gets a copy of the table, the
file actions `adddup2` and `addclose` change that copy by number in their order,
and `Exec` closes what is marked close-on-exec. The locals `pipes[i]` of
`stream_start` and the fields `out_fd`, `err_fd` of the stream are numbers: a
number closed is given to another thread at once. `FirstPipe`, `SecondPipe`,
`Spawn`, `ShutWrite` and the failing paths are separate steps, so two calls
interleave between any two system calls.

### Runs

| Run | Instance | What it shows |
|---|---|---|
| `proc` | captured, streamed and inherited calls, every mishap, three worlds | `WholeOnSuccess`, `NothingLeft`, `NoStrayKill`, `FairDrain`; `Returns` where the child ends, `FailureReturns` where it does not |
| `spawn_fds` | two threads, two calls each, ten descriptors of which three are taken | `OwnDescriptors`, `ChildHoldsOwn`, `NothingHeld` |

**Bounds.** A pipe of one byte, reads of one byte and up to two bytes of output
on each channel: the child blocks on either pipe in every order, a channel ends
empty, in the middle and after the other. Seven free descriptors are enough for
one call in full and not for two, so `pipe2` fails halfway. `spawn_fds` does not
check deadlock: its calls are bounded.

**Fairness.** The operating system runs the caller and the child; a descendant
of a child that ends ends too, at some time. No mishap is owed. A call whose
child runs for ever may wait for ever (`Over`): the code has no timeout.

`NoStrayKill` excludes a process that ignores SIGCHLD. There the pid of the
child is free as soon as it ends; the code keeps it after a failed wait and
signals it. It is a use the library does not claim to support.

### What is proved

`ProcStream_proofs`, for pipes and reads of any size and any amount of output:
`OkIsWhole`, `CleanUp`, `KillsItsOwn` and `TurnsAlternate`. The invariant says
what is open and who is alive at each place of the call (`PlaceInv`,
`ChildInv`), that a channel the last poll reported is still readable, because
only the call takes from it (`ReadyInv`), that what was taken is what was handed
over and what is in hand (`BytesInv`), and that a channel is passed over only
when it is the next one's turn (`TurnInv`). `WholeOnSuccess` needs all of it: the
wait begins when both channels have ended, a channel ends when nobody can write
to it and nothing is left in it, and a child that was not killed has then
written what it had to.

`SpawnFds_proofs`, for any number of threads, calls and descriptors: `TheirOwn`,
`NothingStaysOpen` and, of a program that has descriptors 1 and 2 open,
`ChildrenHoldOwn`. `OwnDescriptors` is nearly inductive: a new pipe takes numbers
that are free, and what is remembered is not; two calls cannot close the same
number, because it stands for one end of one pipe. It needs `PlaceInv`, what a
call remembers where it is, so that the hand-over to the stream forgets the
locals. `HeldInv` says that whatever is open is inherited or remembered by
somebody, `FlagInv` that ends of pipes are close-on-exec; from these the table of
a child follows by going through its file actions (`ChildTable`). Without the
assumption the theorem is false, which is the second finding.

Only model-checked: the liveness properties.

### Findings

* `zg_proc_run` passes the result of copying the directory's name on without a
  test: when memory is short it starts the command in the ambient directory,
  where `run_argv` fails. `MCProcStreamDir.cfg` violates `InNamedDirectory`.
* Pipes made while descriptor 1 or 2 is free collide with the targets of the
  child's file actions: in a program started with stdout closed, the child of a
  capturing call has no stdout, although proc.zen:1 promises captured output.
  `MCSpawnFdsBare.cfg` violates `ChildStdio`.

## 6. The arena

`Arena` is `mem_arena.zen` over a byte-addressed memory. The arena's own records,
a `Page` struct in front of every page and a length in front of every run, lie in
the memory it hands out, so `mem` holds them byte by byte, and what the code
reads from memory (`Length`, the link in `DropPage`) the model reads from `mem`.
`pages` is the chain, `next` the bump offset of the head page, `runs` every run
handed out, abandoned ones included. `Raw` is `raw`, `GrowInPlace` and `Move` the
two outcomes of `realloc`, `Fill` the owner's writes, `DropBegins` to `DropEnds`
`drop`, one page a step. Where `malloc` puts a page is its own choice, next to
another one too (`Blocks`), because `extend_nonempty` compares addresses of
different pages. A run's `tag` stands for the content its owner writes.

Abstracted: a page that `malloc` refuses changes nothing and is no step; sums of
sizes beyond `usize` trap in the code and are not reached.

| Run | Instance | What it shows |
|---|---|---|
| `arena` | four runs of 0, 3 and 9 bytes over three places for pages of 14, two adjacent | `RunsApart`, `WordAligned`, `ContentsKept`, `ReleasedOnce` |

**Bounds.** The numbers keep the proportions of the code: a length is one word,
the greatest alignment two, a Page struct three. After
nine bytes only an empty run fits, which ends exactly where the next page's
struct may begin; an empty run and an abandoned one end where the next run
starts; four runs let one be grown in place after another was moved. The model
stops when its runs are used up: no deadlock check.

`Arena_proofs` proves, for all sizes, alignments, page sizes and placements:
`RunsKeptApart`, `ContentsSurvive`, `DropIsExact` and `LengthsAreWords`. Beside the properties the
invariant says that the chain is whole and its pages apart (`Chained`), that no
run of the head page ends behind `next` (`InPages`), and that the link of each
page not yet released is in memory (`LinksKept`). That a run which ends where
the next one would start may grow follows from `Chained`: it is the latest run of
the head page, or one of another page and then `Latest` cannot hold, since a
Page struct lies between.
`LengthsAreWords` assumes `WordAssumption`: alignments are powers of two
(mem_arena.zen:17), of which the proof needs only that of one of them and a word
one divides the other; blocks of `malloc` and Page structs are made of words.
Then both roundings of `bump` end on a word. That a rounded offset is a multiple
is linear in the quotient, which the proof names (`PICK`), not in the remainder.

**Finding.** `bump` rounds the offset from `page.base`, which lies
`sizeof(Page)` = 24 bytes behind a block of `malloc`. A run asked for at the
greatest alignment, 16, starts 8 bytes off it; gen_c_alloc.zen:3 calls 16 the
allocator's greatest alignment. `MCArenaAlign.cfg` violates `Aligned`.

## 7. Threads

`ThreadFloor` is the C that `gen_c_threads.zen` emits for `spawn` and `join`.
Thread k is that of the k-th spawn, 0 is main. `pc[t]` is where a thread is: not
yet created, at its prologue (`start`), in its body (`user`), inside `spawn` or
`join`, between answer and release (`free`), exited, joined. `record[k]` is the
heap record of the captures, `answer[k]` the heap copy of the result, each with
how often it was freed. `id[k]` is the pthread id in the handle, which is all a
handle is: bodies copy it freely, and an id is given out again once its thread
has been joined (`Unused`). A program either joins each handle once at most
(`once`), or as it likes.

pthreads is external: `pthread_create` fails or finds no id, `pthread_join`
fails with EDEADLK or EINVAL where POSIX lets it (`JoinFails`), of an id nobody
has it answers an error or crashes (`JoinRefused`, `JoinStale`). `sleep` changes
no state, `Threads.every` is a spawn whose body takes long. Types are left out.

| Run | Instance | What it shows |
|---|---|---|
| `threads` | three spawns, two ids, any call failing, both programs | `JoinYieldsOwn`, `HeapExact`, `JoinsReturn` |

**Bounds.** Three spawns on two ids: an id is used again while a handle with it
is still held, a spawn finds no id, threads wait for each other. **Fairness.**
The system runs every thread, and every body returns; no call is owed. Of a
program that joins as it likes only `HeapExact` is claimed: a handle joined twice
may name a later thread.

`ThreadFloor_proofs` proves `HeapKept` and `AnswersKept` for any number of spawns
and ids. `HeapExact` needs to know whose spawn is in progress (`MakeInv`), that
each place of a thread has its record and answer in one state (`HeapInv`), and
that existing threads have different ids (`IdInv`); `JoinYieldsOwn` that the
thread a join waits for is the one its handle was made for (`JoinInv`), which
uses `once`: an id is given out again only after its join.
Only model-checked: `JoinsReturn`.

**Finding.** `copy_spawn_capture` writes the captures through the record's
pointer before `malloc_spawn_env`'s test against NULL is reached
(gen_c_threads.zen:500), where line 433 promises SpawnFailed.
`MCThreadFloorMemory.cfg` violates `SpawnAnswers`.

## 8. The incremental bootstrap

`BootstrapBuild` is `scripts/build.py`. `at` follows `Build.build`: the scan of
the inputs, the test that everything is up to date, the seed's object, the
bootstrap compiler, the emission, its copy into `build/`, its object, the link,
the second scan, publication, the saved state. `inputs`, `prev`, `memo`, `objs`
and `emitted` are the build's own variables, `disk` the artifacts, `state`
`bootstrap.json`, `output` `./zen`. A compiler process reads and ends in two
steps (`ChildReads`, `ChildEnds`), so that files change under it.

Contents stand for themselves and for their digests: an object is the version of
the source it was made from, generated C and what is made from it the pair of
seed and source version. All builds of a directory take one lock, which child
processes inherit: a build that waits has read nothing, so one build at a time,
and beside it the compiler process a killed build left behind (`orphan`).

The surroundings, each within its budget: a source is edited to its next version
or back to its first, a build is killed anywhere, a compiler fails, an artifact
is removed or torn between builds, the rename of the state fails (in `Saves`).

| Run | Instance | What it shows |
|---|---|---|
| `bootstrap` | two edits, one revert between builds, one kill, one failure, one damage | `CurrentMeansClean`, `BuiltMeansClean`, `Recovers` |
| `bootstrap_revert` | one edit and one revert while a build runs | a stale compiler is recorded as current |

**Bounds.** One kill and one failure make a build of half-written files, the
next one that meets them, and one more that starts from what that one saved; two
edits make three versions, of one file or of both. **Fairness.** A build goes
on, an orphaned compiler ends, and when a build has ended there will be another
one: `Recovers` is the promise to whoever goes on building.

Status "partly": one generated file and one object stand for all; toolchain
identity, the header search (`IncludeSearch` in build.py), `proc.c`, the symbol
map and parallel jobs are left out.

`BootstrapBuild_proofs` proves `UpToDateIsClean` and `BuiltIsClean` for any
number of edits, kills, failures and damages, assuming `~Whenever`: a revert only
happens between builds. The code compares what it scanned first with what it
scans last, and nothing else, so the argument is about versions: they only rise
while a build runs, so if sources and inputs are the same, now or at the second
scan, they were the same at every step between (`Steady`), and each artifact
made since is that of the inputs (`StageInv`). A saved state is `Good`: what it
calls output is what its inputs make. `BuildInv` keeps orphans away from a build,
which is the lock. Only model-checked: `Recovers`.

**Finding.** Without the assumption the promise fails. build.py:330 says "A
concurrent source edit must not produce an apparently current compiler." A source
edited after the first scan and brought back before the second goes into the
compiler and out of sight. Run `bootstrap_revert`.

## 9. Further instances

These configurations are beside the runs of `PROJECT.json`. The first passes;
each of the others shows a finding of the section named.

| Configuration | Outcome | Section |
|---|---|---|
| `MCActorRuntime.cfg` | four calls by main and one by each actor, under the discipline: `JoinWaits`, `NoUseAfterFree` and no deadlock hold | 3 |
| `MCActorRuntimeSelfJoin.cfg` | `JoinWaits` is violated | 3 |
| `MCH2ClientLastChunk.cfg` | `PostEnds` is violated | 4 |
| `MCProcStreamDir.cfg` | `InNamedDirectory` is violated | 5 |
| `MCSpawnFdsBare.cfg` | `ChildStdio` is violated | 5 |
| `MCArenaAlign.cfg` | `Aligned` is violated | 6 |
| `MCThreadFloorMemory.cfg` | `SpawnAnswers` is violated | 7 |

## 10. Not modelled

The table in section 1 names the parts that are pure functions; TLC would only
enumerate inputs that the corpus tests state better. Pure I/O floors (files,
clock, printing, sockets, TLS) are single library calls with an error mapping.
Collections are sequential structures over the allocator. The decoders, the
language server's session and the test harness's cache wait for the rest of the
plan; PROJECT.json gives the reason for each.

By size most of the repository's C is generated: `seed/zen.c` is the compiler's
own output committed as stage 0, `grammar/src/parser.c` that of tree-sitter. They
are not mapped: the models translate the Zen source and the emitting functions
they were generated from. The C written by hand is `std/proc/proc.c`, and
section 5 models it. The emitted floors are C text inside `src/gen/gen_c/*.zen`,
and are mapped to the lines that emit them.
