----------------------------- MODULE ThreadFloor -----------------------------
(***************************************************************************)
(* The threads floor (gen_c_threads.zen): `spawn` copies a closure's       *)
(* captures into a heap record and hands it to pthread_create, the         *)
(* trampoline runs the body, copies its answer to the heap and releases    *)
(* the record, `join` waits and takes the answer.  A handle is nothing but *)
(* the pthread id: it is copied freely, and an id is given out again once  *)
(* its thread has been joined.                                             *)
(*                                                                         *)
(* Thread 0 is main, thread k the one of the k-th spawn.  A body may spawn *)
(* and join too, and has every handle there is: they travel by capture,    *)
(* by address and by message.  Threads.every is a spawn whose body takes   *)
(* long.                                                                   *)
(***************************************************************************)
EXTENDS Naturals, FiniteSets

CONSTANTS
  MaxSpawns,  \* bound: spawn calls
  Ids,        \* the pthread ids there are
  NoId,
  Programs,   \* whether a program joins a handle once at most, from an older
              \* thread (TRUE), or as it likes (FALSE)
  Faults      \* which calls may fail: "record", "create", "answer"

Threads == 0..MaxSpawns
Spawned == 1..MaxSpawns
ASSUME ThreadAssumption ==
  /\ MaxSpawns \in Nat
  /\ NoId \notin Ids
  /\ Programs \subseteq BOOLEAN
  /\ Faults \subseteq {"record", "create", "answer"}

VARIABLES
  once,    \* of Programs
  pc,      \* where each thread is
  spawns,  \* spawn calls so far
  makes,   \* the spawn in progress, per thread (0: none)
  asks,    \* the handle a join in progress was given, per thread (0: none)
  waits,   \* the thread pthread_join waits for, per thread (0: none)
  id,      \* the pthread id in the handle of each spawn
  record,  \* the capture record of each spawn: "none", "live", "freed",
           \* or "twice": freed again
  answer,  \* the heap copy of each thread's answer: the same
  tried,   \* the handles a join was called with
  told,    \* per thread, its last join: of which handle, whose answer
  crashed  \* whether the process has died of a null pointer
calls == <<makes, asks, waits>>
heap  == <<record, answer>>
vars  == <<once, pc, spawns, calls, id, heap, tried, told, crashed>>

Panicked == 0      \* join's Err, where an answer would be
NoJoin == [of |-> 0, got |-> Panicked]

Init ==
  /\ once \in Programs
  /\ pc = [t \in Threads |-> IF t = 0 THEN "user" ELSE "none"]
  /\ spawns = 0
  /\ makes = [t \in Threads |-> 0]
  /\ asks = [t \in Threads |-> 0] /\ waits = [t \in Threads |-> 0]
  /\ id = [k \in Spawned |-> NoId]
  /\ record = [k \in Spawned |-> "none"] /\ answer = [k \in Spawned |-> "none"]
  /\ tried = {} /\ told = [t \in Threads |-> NoJoin] /\ crashed = FALSE

\* Created and not joined: these threads, and no others, have their ids.
Exists(k) == pc[k] \notin {"none", "gone"}
Unused == {i \in Ids : \A k \in Spawned : Exists(k) => id[k] # i}

-----------------------------------------------------------------------------
(* spawn                                                                   *)

\* The record is allocated and the captures are copied into it; a closure
\* without captures has none.
SpawnBegins(t, captures) ==
  /\ pc[t] = "user" /\ spawns < MaxSpawns
  /\ spawns' = spawns + 1
  /\ makes' = [makes EXCEPT ![t] = spawns + 1]
  /\ record' = [record EXCEPT ![spawns + 1] = IF captures THEN "live" ELSE "none"]
  /\ pc' = [pc EXCEPT ![t] = "create"]
  /\ UNCHANGED <<once, asks, waits, id, answer, tried, told, crashed>>

\* malloc returns NULL: the captures are copied through it before the test.
SpawnWithoutMemory(t) ==
  /\ pc[t] = "user" /\ spawns < MaxSpawns /\ "record" \in Faults
  /\ crashed' = TRUE
  /\ UNCHANGED <<once, pc, spawns, calls, id, heap, tried, told>>

\* The handle is the id.
Creates(t) ==
  /\ pc[t] = "create"
  /\ \E i \in Unused : id' = [id EXCEPT ![makes[t]] = i]
  /\ pc' = [pc EXCEPT ![t] = "user", ![makes[t]] = "start"]
  /\ makes' = [makes EXCEPT ![t] = 0]
  /\ UNCHANGED <<once, spawns, asks, waits, heap, tried, told, crashed>>

\* Mutant: the record is not released.
ReleasedNever(r) == r
\* What free() makes of a record; free(NULL) does nothing.
Released(r) ==
  IF r = "none" THEN "none" ELSE IF r = "live" THEN "freed" ELSE "twice"

\* Mutant: it is tried again until an id is free.
CreateRetried(t) ==
  /\ pc[t] = "create" /\ ("create" \in Faults \/ Unused = {})
  /\ UNCHANGED vars
\* pthread_create refuses: SpawnFailed.
CreateRefused(t) ==
  /\ pc[t] = "create" /\ ("create" \in Faults \/ Unused = {})
  /\ record' = [record EXCEPT ![makes[t]] = Released(@)]
  /\ pc' = [pc EXCEPT ![t] = "user"]
  /\ makes' = [makes EXCEPT ![t] = 0]
  /\ UNCHANGED <<once, spawns, asks, waits, id, answer, tried, told, crashed>>

-----------------------------------------------------------------------------
(* The thread.                                                             *)

\* The body's prologue takes the captures out of the record.
Unpacks(k) ==
  /\ pc[k] = "start"
  /\ pc' = [pc EXCEPT ![k] = "user"]
  /\ UNCHANGED <<once, spawns, calls, id, heap, tried, told, crashed>>

\* The body returns; its answer is copied, if there is memory.
Answers(k) ==
  /\ k # 0 /\ pc[k] = "user"
  /\ \E a \in {"live"} \cup IF "answer" \in Faults THEN {"none"} ELSE {} :
       answer' = [answer EXCEPT ![k] = a]
  /\ pc' = [pc EXCEPT ![k] = "free"]
  /\ UNCHANGED <<once, spawns, calls, id, record, tried, told, crashed>>

\* The trampoline releases the record and returns the copy.
Exits(k) ==
  /\ pc[k] = "free"
  /\ record' = [record EXCEPT ![k] = Released(@)]
  /\ pc' = [pc EXCEPT ![k] = "exited"]
  /\ UNCHANGED <<once, spawns, calls, id, answer, tried, told, crashed>>

-----------------------------------------------------------------------------
(* join                                                                    *)

\* A handle is there once its spawn has succeeded.
MayJoin(t, k) ==
  /\ pc[t] = "user" /\ id[k] # NoId
  /\ once => t < k /\ k \notin tried

Holder(i) == {j \in Spawned : Exists(j) /\ id[j] = i}

\* pthread_join: EDEADLK and EINVAL.
JoinFails(t, j) == \/ j = t
                   \/ t # 0 /\ waits[j] = t
                   \/ \E u \in Threads : waits[u] = j

\* What only a program that joins once has to be held to is recorded for it.
Tries(k) == tried' = IF once THEN tried \cup {k} ELSE tried

JoinBegins(t, k) ==
  /\ MayJoin(t, k)
  /\ \E j \in Holder(id[k]) :
       /\ ~JoinFails(t, j)
       /\ waits' = [waits EXCEPT ![t] = j]
  /\ asks' = [asks EXCEPT ![t] = k]
  /\ Tries(k)
  /\ pc' = [pc EXCEPT ![t] = "join"]
  /\ UNCHANGED <<once, spawns, makes, id, heap, told, crashed>>

Tells(t, k, a) ==
  told' = IF once THEN [told EXCEPT ![t] = [of |-> k, got |-> a]] ELSE told

\* pthread_join fails, of an id nobody has too: Panicked.
JoinRefused(t, k) ==
  /\ MayJoin(t, k)
  /\ \A j \in Holder(id[k]) : JoinFails(t, j)
  /\ Tells(t, k, Panicked)
  /\ Tries(k)
  /\ UNCHANGED <<once, pc, spawns, calls, id, heap, crashed>>

\* The library's record of a joined thread may be unmapped.
JoinStale(t, k) ==
  /\ MayJoin(t, k) /\ Holder(id[k]) = {}
  /\ crashed' = TRUE
  /\ UNCHANGED <<once, pc, spawns, calls, id, heap, tried, told>>

\* Mutant: a null pointer is not told from an answer.
AnswerUntested(t) == waits[t]
\* Whose answer the pointer is that pthread_join returned: NULL is Panicked.
Answer(t) == IF answer[waits[t]] = "none" THEN Panicked ELSE waits[t]

JoinReturns(t) ==
  /\ pc[t] = "join" /\ pc[waits[t]] = "exited"
  /\ Tells(t, asks[t], Answer(t))
  /\ answer' = [answer EXCEPT ![waits[t]] = Released(@)]
  /\ pc' = [pc EXCEPT ![t] = "user", ![waits[t]] = "gone"]
  /\ asks' = [asks EXCEPT ![t] = 0] /\ waits' = [waits EXCEPT ![t] = 0]
  /\ UNCHANGED <<once, spawns, makes, id, record, tried, crashed>>

-----------------------------------------------------------------------------
Runs(t) ==
  \/ Creates(t) \/ CreateRefused(t) \/ JoinReturns(t)
  \/ t # 0 /\ (Unpacks(t) \/ Answers(t) \/ Exits(t))

Step(t) ==
  \/ Runs(t) \/ SpawnWithoutMemory(t)
  \/ \E captures \in BOOLEAN : SpawnBegins(t, captures)
  \/ \E k \in Spawned : JoinBegins(t, k) \/ JoinRefused(t, k) \/ JoinStale(t, k)

\* main returns when it likes, and the process ends.
Over == (crashed \/ pc[0] = "user") /\ UNCHANGED vars

Next == (~crashed /\ \E t \in Threads : Step(t)) \/ Over
Spec == Init /\ [][Next]_vars

\* The system runs every thread, and every body returns.
FairSpec == Spec /\ \A t \in Threads : WF_vars(~crashed /\ Runs(t))

-----------------------------------------------------------------------------
(* What should hold.                                                       *)

\* In a program that joins each handle once at most, what a join tells is the
\* answer of the thread its handle was made for, although ids are given out
\* again, and Panicked only if that thread's answer could not be kept
\* (join_settled, write_spawn_tramp).  Of a second join it says nothing.
YieldsOwn(j) ==
  \/ j.of = 0
  \/ j.got = j.of /\ answer[j.of] = "freed"
  \/ j.got = Panicked /\ answer[j.of] = "none" /\ pc[j.of] = "gone"
JoinYieldsOwn == once => \A t \in Threads : YieldsOwn(told[t])

\* Whatever fails and whoever joins what: a record lives from its spawn until
\* its thread has run or could not be created, an answer from its thread's end
\* until the join; each is freed once, and no body unpacks a freed record
\* (write_spawn_call, write_spawn_tramp, join_settled).
HeapExact ==
  \A k \in Spawned :
    /\ record[k] # "twice" /\ answer[k] # "twice"
    /\ record[k] = "live" => /\ pc[k] \notin {"exited", "gone"}
                             /\ pc[k] = "none" => \E t \in Threads : makes[t] = k
    /\ pc[k] = "start" => record[k] # "freed"
    /\ answer[k] = "live" => pc[k] \in {"free", "exited"}

\* A join returns when every body does, though ids run out, memory fails and
\* threads wait for threads.
JoinsReturn ==
  \A t \in Threads : (once /\ pc[t] = "join") ~> (pc[t] = "user" \/ crashed)

\* A spawn that cannot have its memory answers SpawnFailed
\* (gen_c_threads.zen:433), it does not end the process.
SpawnAnswers == once => ~crashed
=============================================================================
