------------------------- MODULE ThreadFloor_proofs -------------------------
(***************************************************************************)
(* What spawn and join keep for any number of threads and of pthread ids,  *)
(* whatever fails and whatever the program joins.                          *)
(***************************************************************************)
EXTENDS ThreadFloor, TLAPS

-----------------------------------------------------------------------------
(* The inductive invariant.                                                *)

Inside == {"user", "create", "join"}
Places == Inside \cup {"none", "start", "free", "exited", "gone"}
Blocks == {"none", "live", "freed", "twice"}

TypeOK ==
  /\ once \in BOOLEAN
  /\ pc \in [Threads -> Places]
  /\ spawns \in 0..MaxSpawns
  /\ makes \in [Threads -> Threads]
  /\ asks \in [Threads -> Threads] /\ waits \in [Threads -> Threads]
  /\ id \in [Spawned -> Ids \cup {NoId}]
  /\ record \in [Spawned -> Blocks] /\ answer \in [Spawned -> Blocks]
  /\ tried \subseteq Spawned
  /\ told \in [Threads -> [of : Threads, got : Threads]]
  /\ crashed \in BOOLEAN

\* A spawn in progress is one thread's, and its thread does not exist yet.
MakeInv ==
  /\ \A t \in Threads : pc[t] = "create" <=> makes[t] # 0
  /\ \A t \in Threads : makes[t] # 0 =>
       /\ makes[t] <= spawns
       /\ pc[makes[t]] = "none" /\ record[makes[t]] \in {"none", "live"}
  /\ \A t, u \in Threads : makes[t] = makes[u] /\ makes[t] # 0 => t = u
  /\ \A k \in Spawned : k > spawns => pc[k] = "none" /\ record[k] = "none"

\* HeapExact, and what is in the heap at each place of a thread.
HeapInv ==
  /\ HeapExact
  /\ \A k \in Spawned :
       /\ pc[k] \in Inside \cup {"start", "free"} => record[k] # "freed"
       /\ pc[k] \in Inside \cup {"none", "start"} => answer[k] = "none"
       /\ pc[k] \in {"free", "exited"} => answer[k] \in {"none", "live"}
       /\ pc[k] = "gone" => answer[k] \in {"none", "freed"}

\* A handle names the thread of its spawn as long as that thread exists.
IdInv ==
  /\ pc[0] \in Inside
  /\ \A k \in Spawned : id[k] = NoId <=> pc[k] = "none"
  /\ \A j, k \in Spawned : Exists(j) /\ Exists(k) /\ id[j] = id[k] => j = k

\* In a program that joins once, from older threads: a join waits for the
\* thread its handle was made for, and no thread is gone that was not joined.
JoinInv ==
  /\ \A t \in Threads : pc[t] = "join" <=> waits[t] # 0
  /\ once => /\ \A t \in Threads : waits[t] # 0 =>
                  t < waits[t] /\ waits[t] \in tried /\ asks[t] = waits[t]
             /\ \A k \in Spawned : pc[k] = "gone" => k \in tried

IInv == TypeOK /\ MakeInv /\ HeapInv /\ IdInv /\ JoinInv /\ JoinYieldsOwn

-----------------------------------------------------------------------------
(* Each step keeps each part.                                              *)

USE DEF calls, heap

LEMMA ThreadFacts ==
  /\ 0 \in Threads /\ 0 \notin Spawned
  /\ \A k \in Spawned : k \in Threads
  /\ \A t \in Threads : t # 0 => t \in Spawned
  BY ThreadAssumption DEF Threads, Spawned

\* The spawn that comes next.
LEMMA NextSpawn ==
  ASSUME spawns \in 0..MaxSpawns, spawns < MaxSpawns
  PROVE  /\ spawns + 1 \in 0..MaxSpawns /\ spawns + 1 \in Spawned
         /\ spawns + 1 > spawns /\ spawns \in Nat
         /\ \A t \in Threads : t <= spawns => t # spawns + 1 /\ t <= spawns + 1
         /\ \A t \in Threads : t > spawns + 1 => t > spawns
  BY ThreadAssumption DEF Threads, Spawned

\* Types.
LEMMA TypeStep == IInv /\ [Next]_vars => TypeOK'
<1> SUFFICES ASSUME IInv, [Next]_vars PROVE TypeOK'
  OBVIOUS
<1>1. ASSUME NEW t \in Threads, NEW captures \in BOOLEAN,
             SpawnBegins(t, captures)
      PROVE  TypeOK'
  BY <1>1, ThreadFacts, NextSpawn
     DEF IInv, TypeOK, Places, Inside, Blocks, SpawnBegins
<1>2. ASSUME NEW t \in Threads, SpawnWithoutMemory(t)
      PROVE  TypeOK'
  BY <1>2 DEF IInv, TypeOK, SpawnWithoutMemory
<1>3. ASSUME NEW t \in Threads, Creates(t)
      PROVE  TypeOK'
  <2>1. PICK i \in Unused : id' = [id EXCEPT ![makes[t]] = i]
    BY <1>3 DEF Creates
  <2>2. i \in Ids /\ i # NoId /\ \A k \in Spawned : Exists(k) => id[k] # i
    BY ThreadAssumption DEF Unused
  <2>3. QED
    BY <1>3, <2>1, <2>2, ThreadFacts DEF IInv, TypeOK, Places, Inside, Creates
<1>4. ASSUME NEW t \in Threads, CreateRefused(t)
      PROVE  TypeOK'
  BY <1>4, ThreadFacts
     DEF IInv, TypeOK, Places, Inside, Blocks, Released, CreateRefused
<1>5. ASSUME NEW t \in Threads, t # 0, Unpacks(t)
      PROVE  TypeOK'
  BY <1>5 DEF IInv, TypeOK, Places, Inside, Unpacks
<1>6. ASSUME NEW t \in Threads, Answers(t)
      PROVE  TypeOK'
  BY <1>6 DEF IInv, TypeOK, Places, Blocks, Answers
<1>7. ASSUME NEW t \in Threads, t # 0, Exits(t)
      PROVE  TypeOK'
  BY <1>7 DEF IInv, TypeOK, Places, Blocks, Released, Exits
<1>8. ASSUME NEW t \in Threads, NEW k \in Spawned, JoinBegins(t, k)
      PROVE  TypeOK'
  <2>1. PICK j \in Holder(id[k]) : waits' = [waits EXCEPT ![t] = j]
    BY <1>8 DEF JoinBegins
  <2>2. j \in Spawned /\ j # 0 /\ Exists(j) /\ id[j] = id[k]
    BY ThreadFacts DEF Holder
  <2>3. QED
    BY <1>8, <2>1, <2>2, ThreadFacts
       DEF IInv, TypeOK, Places, Inside, Tries, JoinBegins
<1>9. ASSUME NEW t \in Threads, NEW k \in Spawned, JoinRefused(t, k)
      PROVE  TypeOK'
  BY <1>9, ThreadFacts DEF IInv, TypeOK, Tries, Tells, Panicked, JoinRefused
<1>10. ASSUME NEW t \in Threads, NEW k \in Spawned, JoinStale(t, k)
      PROVE  TypeOK'
  BY <1>10 DEF IInv, TypeOK, JoinStale
<1>11. ASSUME NEW t \in Threads, JoinReturns(t)
      PROVE  TypeOK'
  <2>1. /\ waits[t] \in Spawned /\ waits[t] # t
        /\ pc[t] = "join" /\ pc[waits[t]] = "exited"
    BY <1>11, ThreadFacts DEF JoinReturns, IInv, TypeOK, JoinInv
  <2>2. Answer(t) \in Threads
    BY <2>1, ThreadFacts DEF Answer, Panicked
  <2>3. told' \in [Threads -> [of : Threads, got : Threads]]
    BY <1>11, <2>2 DEF JoinReturns, Tells, IInv, TypeOK
  <2>4. Released(answer[waits[t]]) \in Blocks
    BY DEF Released, Blocks
  <2>5. answer' \in [Spawned -> Blocks]
    BY <1>11, <2>4 DEF JoinReturns, IInv, TypeOK
  <2>6. QED
    BY <1>11, <2>3, <2>5, ThreadFacts
       DEF JoinReturns, IInv, TypeOK, Places, Inside
<1>12. ASSUME UNCHANGED vars
      PROVE  TypeOK'
  BY <1>12 DEF IInv, TypeOK, vars
<1>13. QED
  BY <1>1, <1>2, <1>3, <1>4, <1>5, <1>6, <1>7, <1>8, <1>9, <1>10, <1>11, <1>12
     DEF Next, Step, Runs, Over

\* Spawns in progress.
LEMMA MakeStep == IInv /\ [Next]_vars => MakeInv'
<1> SUFFICES ASSUME IInv, [Next]_vars PROVE MakeInv'
  OBVIOUS
<1>1. ASSUME NEW t \in Threads, NEW captures \in BOOLEAN,
             SpawnBegins(t, captures)
      PROVE  MakeInv'
  BY <1>1, ThreadFacts, NextSpawn DEF IInv, TypeOK, MakeInv, SpawnBegins
<1>2. ASSUME NEW t \in Threads, SpawnWithoutMemory(t)
      PROVE  MakeInv'
  BY <1>2 DEF IInv, MakeInv, SpawnWithoutMemory
<1>3. ASSUME NEW t \in Threads, Creates(t)
      PROVE  MakeInv'
  <2>1. makes[t] \in Spawned /\ makes[t] # t /\ pc[makes[t]] = "none"
        /\ pc[t] = "create" /\ makes[t] <= spawns
    BY <1>3, ThreadFacts DEF Creates, IInv, TypeOK, MakeInv
  <2>2. \A u \in Threads : /\ makes'[u] = IF u = t THEN 0 ELSE makes[u]
                           /\ pc'[u] = IF u = makes[t] THEN "start"
                                        ELSE IF u = t THEN "user" ELSE pc[u]
    BY <1>3 DEF Creates, IInv, TypeOK
  <2>3. record' = record /\ spawns' = spawns
    BY <1>3 DEF Creates
  <2>4. \A u \in Threads : u # t /\ makes[u] # 0 =>
          makes[u] \in Threads /\ makes[u] # makes[t] /\ makes[u] # t
    BY <2>1 DEF IInv, TypeOK, MakeInv
  <2>5. \A u \in Threads : pc'[u] = "create" <=> makes'[u] # 0
    BY <2>1, <2>2 DEF IInv, MakeInv
  <2>6. \A u \in Threads : makes'[u] # 0 =>
          /\ makes'[u] <= spawns'
          /\ pc'[makes'[u]] = "none" /\ record'[makes'[u]] \in {"none", "live"}
    BY <2>2, <2>3, <2>4 DEF IInv, MakeInv
  <2>7. \A u, v \in Threads : makes'[u] = makes'[v] /\ makes'[u] # 0 => u = v
    BY <2>2 DEF IInv, MakeInv
  <2>8. \A k \in Spawned : k > spawns => k # makes[t] /\ k # t
    BY <2>1 DEF IInv, MakeInv, Spawned, TypeOK
  <2>9. \A k \in Spawned : k > spawns' => pc'[k] = "none" /\ record'[k] = "none"
    BY <2>2, <2>3, <2>8, ThreadFacts DEF IInv, MakeInv
  <2>10. QED
    BY <2>5, <2>6, <2>7, <2>9 DEF MakeInv
<1>4. ASSUME NEW t \in Threads, CreateRefused(t)
      PROVE  MakeInv'
  BY <1>4 DEF IInv, TypeOK, MakeInv, Released, CreateRefused
<1>5. ASSUME NEW t \in Threads, t # 0, Unpacks(t)
      PROVE  MakeInv'
  BY <1>5 DEF IInv, MakeInv, Unpacks
<1>6. ASSUME NEW t \in Threads, Answers(t)
      PROVE  MakeInv'
  BY <1>6 DEF IInv, MakeInv, Answers
<1>7. ASSUME NEW t \in Threads, t # 0, Exits(t)
      PROVE  MakeInv'
  BY <1>7 DEF IInv, MakeInv, Exits
<1>8. ASSUME NEW t \in Threads, NEW k \in Spawned, JoinBegins(t, k)
      PROVE  MakeInv'
  <2>1. pc[t] = "user" /\ id[k] # NoId /\ (once => t < k /\ k \notin tried)
    BY <1>8 DEF JoinBegins, MayJoin
  <2>2. QED
    BY <1>8, <2>1 DEF IInv, MakeInv, JoinBegins
<1>9. ASSUME NEW t \in Threads, NEW k \in Spawned, JoinRefused(t, k)
      PROVE  MakeInv'
  BY <1>9 DEF IInv, MakeInv, JoinRefused
<1>10. ASSUME NEW t \in Threads, NEW k \in Spawned, JoinStale(t, k)
      PROVE  MakeInv'
  BY <1>10 DEF IInv, MakeInv, JoinStale
<1>11. ASSUME NEW t \in Threads, JoinReturns(t)
      PROVE  MakeInv'
  BY <1>11, ThreadFacts DEF IInv, TypeOK, MakeInv, JoinReturns
<1>12. ASSUME UNCHANGED vars
      PROVE  MakeInv'
  BY <1>12 DEF IInv, MakeInv, vars
<1>13. QED
  BY <1>1, <1>2, <1>3, <1>4, <1>5, <1>6, <1>7, <1>8, <1>9, <1>10, <1>11, <1>12
     DEF Next, Step, Runs, Over

\* Records and answers.
LEMMA HeapStep == IInv /\ [Next]_vars => HeapInv'
<1> SUFFICES ASSUME IInv, [Next]_vars PROVE HeapInv'
  OBVIOUS
<1>1. ASSUME NEW t \in Threads, NEW captures \in BOOLEAN,
             SpawnBegins(t, captures)
      PROVE  HeapInv'
  BY <1>1 DEF IInv, TypeOK, HeapInv, HeapExact, MakeInv, Inside, SpawnBegins
<1>2. ASSUME NEW t \in Threads, SpawnWithoutMemory(t)
      PROVE  HeapInv'
  BY <1>2 DEF IInv, HeapInv, HeapExact, SpawnWithoutMemory
<1>3. ASSUME NEW t \in Threads, Creates(t)
      PROVE  HeapInv'
  <2>1. makes[t] \in Spawned /\ makes[t] # t /\ pc[makes[t]] = "none"
    BY <1>3, ThreadFacts DEF Creates, IInv, TypeOK, MakeInv
  <2>2. QED
    BY <1>3, <2>1, ThreadFacts
       DEF IInv, TypeOK, HeapInv, HeapExact, MakeInv, Places, Creates
<1>4. ASSUME NEW t \in Threads, CreateRefused(t)
      PROVE  HeapInv'
  BY <1>4
     DEF IInv, TypeOK, HeapInv, HeapExact, MakeInv, Inside, Released,
        CreateRefused
<1>5. ASSUME NEW t \in Threads, t # 0, Unpacks(t)
      PROVE  HeapInv'
  BY <1>5 DEF IInv, HeapInv, HeapExact, Unpacks
<1>6. ASSUME NEW t \in Threads, Answers(t)
      PROVE  HeapInv'
  BY <1>6 DEF IInv, TypeOK, HeapInv, HeapExact, Inside, Answers
<1>7. ASSUME NEW t \in Threads, t # 0, Exits(t)
      PROVE  HeapInv'
  BY <1>7 DEF IInv, TypeOK, HeapInv, HeapExact, Inside, Blocks, Released, Exits
<1>8. ASSUME NEW t \in Threads, NEW k \in Spawned, JoinBegins(t, k)
      PROVE  HeapInv'
  <2>1. pc[t] = "user" /\ id[k] # NoId /\ (once => t < k /\ k \notin tried)
    BY <1>8 DEF JoinBegins, MayJoin
  <2>2. QED
    BY <1>8, <2>1 DEF IInv, HeapInv, HeapExact, Inside, JoinBegins
<1>9. ASSUME NEW t \in Threads, NEW k \in Spawned, JoinRefused(t, k)
      PROVE  HeapInv'
  BY <1>9 DEF IInv, HeapInv, HeapExact, JoinRefused
<1>10. ASSUME NEW t \in Threads, NEW k \in Spawned, JoinStale(t, k)
      PROVE  HeapInv'
  BY <1>10 DEF IInv, HeapInv, HeapExact, JoinStale
<1>11. ASSUME NEW t \in Threads, JoinReturns(t)
      PROVE  HeapInv'
  <2>1. /\ waits[t] \in Spawned /\ waits[t] # t
        /\ pc[t] = "join" /\ pc[waits[t]] = "exited"
    BY <1>11, ThreadFacts DEF JoinReturns, IInv, TypeOK, JoinInv
  <2>2. \A u \in Threads : pc'[u] = IF u = waits[t] THEN "gone"
                                  ELSE IF u = t THEN "user" ELSE pc[u]
    BY <1>11 DEF JoinReturns, IInv, TypeOK
  <2>3. Released(answer[waits[t]]) \in {"none", "freed"}
    BY <2>1 DEF IInv, HeapInv, Released
  <2>4. \A k \in Spawned : answer'[k] = IF k = waits[t] THEN Released(answer[k])
                                                 ELSE answer[k]
    BY <1>11 DEF JoinReturns, IInv, TypeOK
  <2>5. HeapExact'
    <3>1. record' = record /\ makes' = makes
      BY <1>11 DEF JoinReturns
    <3>2. QED
      BY <2>1, <2>2, <2>3, <2>4, <3>1, ThreadFacts DEF IInv, HeapInv, HeapExact
  <2>6. record' = record
    BY <1>11 DEF JoinReturns
  <2>7. ASSUME NEW k \in Spawned, k # waits[t]
        PROVE  /\ answer'[k] = answer[k]
               /\ pc'[k] # pc[k] => pc[k] \in Inside /\ pc'[k] = "user"
    <3>1. answer'[k] = answer[k]
      BY <2>4, <2>7
    <3>2. k \in Threads
      BY ThreadFacts
    <3>3. pc'[k] # pc[k] => k = t /\ pc'[k] = "user"
      BY <2>2, <2>7, <3>2
    <3>4. QED
      BY <2>1, <3>1, <3>3 DEF Inside
  <2>8. pc'[waits[t]] = "gone" /\ answer'[waits[t]] \in {"none", "freed"}
    BY <2>1, <2>2, <2>3, <2>4, ThreadFacts
  <2>9. QED
    BY <2>5, <2>6, <2>7, <2>8 DEF IInv, HeapInv, Inside
<1>12. ASSUME UNCHANGED vars
      PROVE  HeapInv'
  BY <1>12 DEF IInv, HeapInv, HeapExact, vars
<1>13. QED
  BY <1>1, <1>2, <1>3, <1>4, <1>5, <1>6, <1>7, <1>8, <1>9, <1>10, <1>11, <1>12
     DEF Next, Step, Runs, Over

\* Handles and the threads they name.
LEMMA IdStep == IInv /\ [Next]_vars => IdInv'
<1> SUFFICES ASSUME IInv, [Next]_vars PROVE IdInv'
  OBVIOUS
<1>1. ASSUME NEW t \in Threads, NEW captures \in BOOLEAN,
             SpawnBegins(t, captures)
      PROVE  IdInv'
  BY <1>1 DEF IInv, IdInv, Inside, Exists, SpawnBegins
<1>2. ASSUME NEW t \in Threads, SpawnWithoutMemory(t)
      PROVE  IdInv'
  BY <1>2 DEF IInv, IdInv, Exists, SpawnWithoutMemory
<1>3. ASSUME NEW t \in Threads, Creates(t)
      PROVE  IdInv'
  <2>1. PICK i \in Unused : id' = [id EXCEPT ![makes[t]] = i]
    BY <1>3 DEF Creates
  <2>2. i \in Ids /\ i # NoId /\ \A k \in Spawned : Exists(k) => id[k] # i
    BY ThreadAssumption DEF Unused
  <2>3. QED
    BY <1>3, <2>1, <2>2, ThreadFacts, TypeStep
       DEF IInv, TypeOK, IdInv, Inside, Exists, Creates
<1>4. ASSUME NEW t \in Threads, CreateRefused(t)
      PROVE  IdInv'
  BY <1>4 DEF IInv, IdInv, Inside, Exists, CreateRefused
<1>5. ASSUME NEW t \in Threads, t # 0, Unpacks(t)
      PROVE  IdInv'
  BY <1>5 DEF IInv, IdInv, Exists, Unpacks
<1>6. ASSUME NEW t \in Threads, Answers(t)
      PROVE  IdInv'
  BY <1>6 DEF IInv, IdInv, Exists, Answers
<1>7. ASSUME NEW t \in Threads, t # 0, Exits(t)
      PROVE  IdInv'
  BY <1>7 DEF IInv, IdInv, Exists, Exits
<1>8. ASSUME NEW t \in Threads, NEW k \in Spawned, JoinBegins(t, k)
      PROVE  IdInv'
  <2>1. pc[t] = "user" /\ id[k] # NoId /\ (once => t < k /\ k \notin tried)
    BY <1>8 DEF JoinBegins, MayJoin
  <2>2. QED
    BY <1>8, <2>1 DEF IInv, IdInv, Inside, Exists, JoinBegins
<1>9. ASSUME NEW t \in Threads, NEW k \in Spawned, JoinRefused(t, k)
      PROVE  IdInv'
  BY <1>9 DEF IInv, IdInv, Exists, JoinRefused
<1>10. ASSUME NEW t \in Threads, NEW k \in Spawned, JoinStale(t, k)
      PROVE  IdInv'
  BY <1>10 DEF IInv, IdInv, Exists, JoinStale
<1>11. ASSUME NEW t \in Threads, JoinReturns(t)
      PROVE  IdInv'
  <2>1. /\ waits[t] \in Spawned /\ waits[t] # t
        /\ pc[t] = "join" /\ pc[waits[t]] = "exited"
    BY <1>11, ThreadFacts DEF JoinReturns, IInv, TypeOK, JoinInv
  <2>2. \A u \in Threads : pc'[u] = IF u = waits[t] THEN "gone"
                                  ELSE IF u = t THEN "user" ELSE pc[u]
    BY <1>11 DEF JoinReturns, IInv, TypeOK
  <2>3. pc[0] \in Inside => waits[t] # 0
    BY <2>1 DEF Inside
  <2>4. id' = id
    BY <1>11 DEF JoinReturns
  <2>5. \A k \in Spawned :
          (Exists(k)' => Exists(k)) /\ (pc'[k] = "none" <=> pc[k] = "none")
    BY <2>1, <2>2, ThreadFacts DEF Exists
  <2>6. pc'[0] \in Inside
    BY <2>2, <2>3, ThreadFacts DEF IInv, IdInv, Inside
  <2>7. QED
    BY <2>4, <2>5, <2>6 DEF IInv, IdInv
<1>12. ASSUME UNCHANGED vars
      PROVE  IdInv'
  BY <1>12 DEF IInv, IdInv, Exists, vars
<1>13. QED
  BY <1>1, <1>2, <1>3, <1>4, <1>5, <1>6, <1>7, <1>8, <1>9, <1>10, <1>11, <1>12
     DEF Next, Step, Runs, Over

\* Joins in progress.
LEMMA JoinStep == IInv /\ [Next]_vars => JoinInv'
<1> SUFFICES ASSUME IInv, [Next]_vars PROVE JoinInv'
  OBVIOUS
<1>1. ASSUME NEW t \in Threads, NEW captures \in BOOLEAN,
             SpawnBegins(t, captures)
      PROVE  JoinInv'
  BY <1>1 DEF IInv, JoinInv, SpawnBegins
<1>2. ASSUME NEW t \in Threads, SpawnWithoutMemory(t)
      PROVE  JoinInv'
  BY <1>2 DEF IInv, JoinInv, SpawnWithoutMemory
<1>3. ASSUME NEW t \in Threads, Creates(t)
      PROVE  JoinInv'
  <2>1. makes[t] \in Spawned /\ makes[t] # t /\ pc[makes[t]] = "none"
    BY <1>3, ThreadFacts DEF Creates, IInv, TypeOK, MakeInv
  <2>2. QED
    BY <1>3, <2>1, ThreadFacts DEF IInv, TypeOK, JoinInv, Creates
<1>4. ASSUME NEW t \in Threads, CreateRefused(t)
      PROVE  JoinInv'
  BY <1>4 DEF IInv, JoinInv, CreateRefused
<1>5. ASSUME NEW t \in Threads, t # 0, Unpacks(t)
      PROVE  JoinInv'
  BY <1>5 DEF IInv, JoinInv, Unpacks
<1>6. ASSUME NEW t \in Threads, Answers(t)
      PROVE  JoinInv'
  BY <1>6 DEF IInv, JoinInv, Answers
<1>7. ASSUME NEW t \in Threads, t # 0, Exits(t)
      PROVE  JoinInv'
  BY <1>7 DEF IInv, JoinInv, Exits
<1>8. ASSUME NEW t \in Threads, NEW k \in Spawned, JoinBegins(t, k)
      PROVE  JoinInv'
  <2>1. PICK j \in Holder(id[k]) : waits' = [waits EXCEPT ![t] = j]
    BY <1>8 DEF JoinBegins
  <2>2. j \in Spawned /\ j # 0 /\ Exists(j) /\ id[j] = id[k]
    BY ThreadFacts DEF Holder
  <2>3. pc[t] = "user" /\ id[k] # NoId /\ (once => t < k /\ k \notin tried)
    BY <1>8 DEF JoinBegins, MayJoin
  <2>4. QED
    BY <1>8, <2>1, <2>2, <2>3
       DEF IInv, TypeOK, JoinInv, IdInv, Tries, Exists, JoinBegins
<1>9. ASSUME NEW t \in Threads, NEW k \in Spawned, JoinRefused(t, k)
      PROVE  JoinInv'
  BY <1>9 DEF IInv, JoinInv, Tries, JoinRefused
<1>10. ASSUME NEW t \in Threads, NEW k \in Spawned, JoinStale(t, k)
      PROVE  JoinInv'
  BY <1>10 DEF IInv, JoinInv, JoinStale
<1>11. ASSUME NEW t \in Threads, JoinReturns(t)
      PROVE  JoinInv'
  BY <1>11, ThreadFacts DEF IInv, TypeOK, JoinInv, JoinReturns
<1>12. ASSUME UNCHANGED vars
      PROVE  JoinInv'
  BY <1>12 DEF IInv, JoinInv, vars
<1>13. QED
  BY <1>1, <1>2, <1>3, <1>4, <1>5, <1>6, <1>7, <1>8, <1>9, <1>10, <1>11, <1>12
     DEF Next, Step, Runs, Over

\* What joins have told.
LEMMA TellStep == IInv /\ [Next]_vars => JoinYieldsOwn'
<1> SUFFICES ASSUME IInv, [Next]_vars PROVE JoinYieldsOwn'
  OBVIOUS
<1>1. ASSUME NEW t \in Threads, NEW captures \in BOOLEAN,
             SpawnBegins(t, captures)
      PROVE  JoinYieldsOwn'
  BY <1>1 DEF IInv, JoinYieldsOwn, YieldsOwn, SpawnBegins
<1>2. ASSUME NEW t \in Threads, SpawnWithoutMemory(t)
      PROVE  JoinYieldsOwn'
  BY <1>2 DEF IInv, JoinYieldsOwn, YieldsOwn, SpawnWithoutMemory
<1>3. ASSUME NEW t \in Threads, Creates(t)
      PROVE  JoinYieldsOwn'
  <2>1. makes[t] \in Spawned /\ makes[t] # t /\ pc[makes[t]] = "none"
    BY <1>3, ThreadFacts DEF Creates, IInv, TypeOK, MakeInv
  <2>2. QED
    BY <1>3, <2>1 DEF IInv, TypeOK, JoinYieldsOwn, YieldsOwn, Creates
<1>4. ASSUME NEW t \in Threads, CreateRefused(t)
      PROVE  JoinYieldsOwn'
  BY <1>4 DEF IInv, JoinYieldsOwn, YieldsOwn, CreateRefused
<1>5. ASSUME NEW t \in Threads, t # 0, Unpacks(t)
      PROVE  JoinYieldsOwn'
  BY <1>5 DEF IInv, JoinYieldsOwn, YieldsOwn, Unpacks
<1>6. ASSUME NEW t \in Threads, Answers(t)
      PROVE  JoinYieldsOwn'
  BY <1>6, ThreadFacts
     DEF IInv, JoinYieldsOwn, YieldsOwn, HeapInv, Inside, Answers
<1>7. ASSUME NEW t \in Threads, t # 0, Exits(t)
      PROVE  JoinYieldsOwn'
  BY <1>7 DEF IInv, JoinYieldsOwn, YieldsOwn, Exits
<1>8. ASSUME NEW t \in Threads, NEW k \in Spawned, JoinBegins(t, k)
      PROVE  JoinYieldsOwn'
  <2>1. pc[t] = "user" /\ id[k] # NoId /\ (once => t < k /\ k \notin tried)
    BY <1>8 DEF JoinBegins, MayJoin
  <2>2. QED
    BY <1>8, <2>1 DEF IInv, JoinYieldsOwn, YieldsOwn, JoinBegins
<1>9. ASSUME NEW t \in Threads, NEW k \in Spawned, JoinRefused(t, k)
      PROVE  JoinYieldsOwn'
  <2>1. ASSUME once PROVE FALSE
    <3>1. pc[t] = "user" /\ id[k] # NoId /\ t < k /\ k \notin tried
      BY <1>9, <2>1 DEF JoinRefused, MayJoin
    <3>2. Exists(k)
      BY <2>1, <3>1 DEF Exists, IInv, IdInv, JoinInv
    <3>3. k \in Holder(id[k])
      BY <3>2 DEF Holder
    <3>4. JoinFails(t, k)
      BY <1>9, <3>3 DEF JoinRefused
    <3>5. k # t /\ ~(k < t)
      BY <3>1 DEF Threads, Spawned
    <3>6. ~(t # 0 /\ waits[k] = t)
      BY <2>1, <3>5, ThreadFacts DEF IInv, JoinInv
    <3>7. \A u \in Threads : waits[u] # k
      BY <2>1, <3>1, ThreadFacts DEF IInv, JoinInv
    <3>8. QED
      BY <3>4, <3>5, <3>6, <3>7 DEF JoinFails
  <2>2. ~once'
    BY <1>9, <2>1 DEF JoinRefused
  <2>3. QED
    BY <2>2 DEF JoinYieldsOwn
<1>10. ASSUME NEW t \in Threads, NEW k \in Spawned, JoinStale(t, k)
      PROVE  JoinYieldsOwn'
  BY <1>10
     DEF IInv, JoinYieldsOwn, JoinInv, IdInv, Exists, MayJoin, Holder,
        JoinStale
<1>11. ASSUME NEW t \in Threads, JoinReturns(t)
      PROVE  JoinYieldsOwn'
  <2>1. /\ waits[t] \in Spawned /\ waits[t] # t
        /\ pc[t] = "join" /\ pc[waits[t]] = "exited"
    BY <1>11, ThreadFacts DEF JoinReturns, IInv, TypeOK, JoinInv
  <2>2. \A u \in Threads : pc'[u] = IF u = waits[t] THEN "gone"
                                  ELSE IF u = t THEN "user" ELSE pc[u]
    BY <1>11 DEF JoinReturns, IInv, TypeOK
  <2> DEFINE j == waits[t]
  <2>3. SUFFICES ASSUME once, NEW u \in Threads PROVE YieldsOwn(told[u])'
    BY <1>11 DEF JoinReturns, JoinYieldsOwn
  <2>4. asks[t] = j /\ j # 0
    BY <1>11, <2>1, <2>3, ThreadFacts DEF IInv, JoinInv
  <2>5. /\ told'[u] = IF u = t THEN [of |-> j, got |-> Answer(t)] ELSE told[u]
        /\ \A k \in Spawned : answer'[k] = IF k = j THEN Released(answer[k])
                                          ELSE answer[k]
        /\ \A k \in Spawned : pc'[k] = "gone" <=> (k = j \/ pc[k] = "gone")
    BY <1>11, <2>1, <2>2, <2>3, <2>4, ThreadFacts
       DEF JoinReturns, Tells, IInv, TypeOK
  <2>6. CASE u = t
    <3>1. answer[j] \in {"none", "live"}
      BY <2>1 DEF IInv, HeapInv
    <3>2. \/ answer[j] = "none" /\ Answer(t) = Panicked /\ answer'[j] = "none"
          \/ answer[j] = "live" /\ Answer(t) = j /\ answer'[j] = "freed"
      BY <2>1, <2>5, <3>1 DEF Answer, Released
    <3>3. QED
      BY <2>1, <2>5, <2>6, <3>2 DEF YieldsOwn
  <2>7. CASE u # t
    <3>1. told'[u] = told[u] /\ YieldsOwn(told[u])
      BY <2>3, <2>5, <2>7 DEF IInv, JoinYieldsOwn
    <3>2. ASSUME told[u].of # 0
          PROVE  told[u].of \in Spawned
      BY <3>2, ThreadFacts DEF IInv, TypeOK
    <3>3. answer[j] # "freed" /\ pc[j] # "gone"
      BY <2>1 DEF IInv, HeapInv
    <3>4. ASSUME NEW k \in Spawned, k # j
          PROVE  answer'[k] = answer[k] /\ (pc[k] = "gone" => pc'[k] = "gone")
      BY <2>5, <3>4
    <3>5. CASE told[u].of = 0
      BY <3>1, <3>5 DEF YieldsOwn
    <3>6. CASE told[u].of # 0
      <4>1. told[u].of # j
        BY <2>4, <3>1, <3>3, <3>6 DEF YieldsOwn
      <4>2. PICK o \in Spawned : o = told[u].of
        BY <3>2, <3>6
      <4>3. answer'[o] = answer[o] /\ (pc[o] = "gone" => pc'[o] = "gone")
        BY <3>4, <4>1, <4>2
      <4>4. QED
        BY <3>1, <3>6, <4>2, <4>3 DEF YieldsOwn
    <3>7. QED
      BY <3>5, <3>6
  <2>8. QED
    BY <2>6, <2>7
<1>12. ASSUME UNCHANGED vars
      PROVE  JoinYieldsOwn'
  BY <1>12 DEF IInv, JoinYieldsOwn, YieldsOwn, vars
<1>13. QED
  BY <1>1, <1>2, <1>3, <1>4, <1>5, <1>6, <1>7, <1>8, <1>9, <1>10, <1>11, <1>12
     DEF Next, Step, Runs, Over

-----------------------------------------------------------------------------
(* The theorems.                                                           *)

LEMMA InitIInv == Init => IInv
<1> SUFFICES ASSUME Init PROVE IInv
  OBVIOUS
<1>1. 0 \in 0..MaxSpawns
  BY ThreadAssumption
<1>2. TypeOK
  BY <1>1, ThreadFacts, ThreadAssumption
     DEF Init, TypeOK, Places, Inside, Blocks, NoJoin, Panicked
<1>3. \A k \in Spawned : pc[k] = "none" /\ ~Exists(k)
  BY ThreadFacts DEF Init, Exists
<1>4. MakeInv
  BY ThreadFacts DEF Init, MakeInv
<1>5. HeapInv
  BY DEF Init, HeapInv, HeapExact
<1>6. IdInv
  BY <1>3, ThreadFacts DEF Init, IdInv, Inside
<1>7. JoinInv
  BY ThreadFacts DEF Init, JoinInv
<1>8. JoinYieldsOwn
  BY DEF Init, JoinYieldsOwn, YieldsOwn, NoJoin
<1>9. QED
  BY <1>2, <1>4, <1>5, <1>6, <1>7, <1>8 DEF IInv

\* Every reachable state satisfies the inductive invariant.
THEOREM Invariance == Spec => []IInv
<1>1. IInv /\ [Next]_vars => IInv'
  BY TypeStep, MakeStep, HeapStep, IdStep, JoinStep, TellStep DEF IInv
<1>2. QED
  BY InitIInv, <1>1, PTL DEF Spec

\* Whatever fails and whoever joins what, handles joined twice included: every
\* record and every answer is freed once, at its time, and not used afterwards.
THEOREM HeapKept == Spec => []HeapExact
<1>1. IInv => HeapExact
  BY DEF IInv, HeapInv
<1>2. QED
  BY Invariance, <1>1, PTL

\* In a program that joins a handle once, from an older thread, join tells the
\* answer of the thread its handle was made for.
THEOREM AnswersKept == Spec => []JoinYieldsOwn
<1>1. IInv => JoinYieldsOwn
  BY DEF IInv
<1>2. QED
  BY Invariance, <1>1, PTL
=============================================================================
