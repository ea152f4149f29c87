--------------------------- MODULE SpawnFds_proofs ---------------------------
(***************************************************************************)
(* What calls that start children at the same time keep of the descriptor  *)
(* table, for any number of threads and calls and a table of any size.     *)
(***************************************************************************)
EXTENDS SpawnFds, TLAPS

USE DEF None

-----------------------------------------------------------------------------
(* The inductive invariant.                                                *)

Places == {"idle", "second", "spawn", "shut", "fail", "open", "closing"}
Numbers == Fds \cup {None}
Things == {Free} \cup {Inherited(n) : n \in 0..2}
            \cup {PipeEnd(t, i, e) : t \in Threads, i \in Channels, e \in {"r", "w"}}
Tables == [file : [Fds -> Things], cloexec : SUBSET Fds]

TypeInv ==
  /\ table \in Tables
  /\ at \in [Threads -> Places]
  /\ pipes \in [Threads -> [Channels -> [r : Numbers, w : Numbers]]]
  /\ handle \in [Threads -> [Channels -> Numbers]]

\* What a call remembers where it is.
PlaceInv ==
  \A t \in Threads :
    /\ at[t] \in {"idle", "open", "closing"} => \A i \in Channels : pipes[t][i] = NoPipe
    /\ at[t] = "second" => /\ pipes[t][0].r # None /\ pipes[t][0].w # None
                           /\ pipes[t][1] = NoPipe
    /\ at[t] = "spawn" => \A i \in Channels : pipes[t][i].r # None /\ pipes[t][i].w # None
    /\ at[t] \notin {"open", "closing"} => \A i \in Channels : handle[t][i] = None

\* A number some call remembers.
Remembered(f) ==
  \E t \in Threads, i \in Channels :
    f = pipes[t][i].r \/ f = pipes[t][i].w \/ f = handle[t][i]

\* The table holds what the program started with and what its calls remember,
\* and the ends of pipes are close-on-exec.
HeldInv ==
  /\ \A n \in Std : table.file[n] = Inherited(n)
  /\ \A f \in Fds \ Std : table.file[f] # Free => Remembered(f)
FlagInv == \A f \in Fds : table.file[f].what = "pipe" => f \in table.cloexec

IInv == TypeInv /\ PlaceInv /\ OwnDescriptors /\ HeldInv /\ FlagInv

-----------------------------------------------------------------------------
(* Tables.                                                                 *)

\* What is free, inherited or a pipe's is nothing else.
LEMMA Kinds ==
  /\ \A n, t, i, e : Free # Inherited(n) /\ Free # PipeEnd(t, i, e)
                     /\ Inherited(n) # PipeEnd(t, i, e)
  /\ \A t, i, e, t2, i2, e2 :
       PipeEnd(t, i, e) = PipeEnd(t2, i2, e2) => t = t2 /\ i = i2 /\ e = e2
  /\ Free.what # "pipe" /\ \A n : Inherited(n).what # "pipe"
  /\ \A t, i, e : PipeEnd(t, i, e).what = "pipe"
<1>1. \A n, t, i, e : /\ Free.what = "free" /\ Inherited(n).what = "std"
                      /\ PipeEnd(t, i, e).what = "pipe"
  BY DEF Free, Inherited, PipeEnd
<1>2. \A t, i, e, t2, i2, e2 :
        PipeEnd(t, i, e) = PipeEnd(t2, i2, e2) => t = t2 /\ i = i2 /\ e = e2
  <2> SUFFICES ASSUME NEW t, NEW i, NEW e, NEW t2, NEW i2, NEW e2,
                      PipeEnd(t, i, e) = PipeEnd(t2, i2, e2)
               PROVE  t = t2 /\ i = i2 /\ e = e2
    OBVIOUS
  <2>1. /\ PipeEnd(t, i, e).of = t /\ PipeEnd(t, i, e).ch = i
        /\ PipeEnd(t, i, e).end = e
    BY DEF PipeEnd
  <2>2. /\ PipeEnd(t2, i2, e2).of = t2 /\ PipeEnd(t2, i2, e2).ch = i2
        /\ PipeEnd(t2, i2, e2).end = e2
    BY DEF PipeEnd
  <2>3. QED
    BY <2>1, <2>2
<1>3. QED
  BY <1>1, <1>2

LEMMA CloseTable ==
  ASSUME NEW tab \in Tables, NEW F
  PROVE  /\ Close(tab, F) \in Tables
         /\ \A f \in Fds : Close(tab, F).file[f] = IF f \in F THEN Free ELSE tab.file[f]
         /\ \A f \in Fds : f \in Close(tab, F).cloexec <=> f \in tab.cloexec /\ f \notin F
  BY DEF Close, Tables, Things

\* A pipe is made of two numbers that were free.
LEMMA PipeMade ==
  ASSUME TypeInv, NEW t \in Threads, NEW i \in Channels, MakesPipe(t, i)
  PROVE  \E r, w \in Fds :
           /\ r # w /\ r # None /\ w # None
           /\ table.file[r] = Free /\ table.file[w] = Free
           /\ table' \in Tables
           /\ \A f \in Fds : table'.file[f] = IF f = r THEN PipeEnd(t, i, "r")
                                     ELSE IF f = w THEN PipeEnd(t, i, "w") ELSE table.file[f]
           /\ \A f \in Fds : f \in table'.cloexec <=> f \in table.cloexec \cup {r, w}
           /\ pipes' = [pipes EXCEPT ![t][i] = [r |-> r, w |-> w]]
<1>1. PICK r, w \in Unused :
         /\ r < w
         /\ table' = [file |-> [table.file EXCEPT ![r] = PipeEnd(t, i, "r"),
                                                  ![w] = PipeEnd(t, i, "w")],
                      cloexec |-> table.cloexec \cup {r, w}]
         /\ pipes' = [pipes EXCEPT ![t][i] = [r |-> r, w |-> w]]
  BY DEF MakesPipe, Flags
<1>2. /\ r \in Fds /\ w \in Fds /\ r # w /\ r # None /\ w # None
      /\ table.file[r] = Free /\ table.file[w] = Free
  BY <1>1, SpawnAssumption DEF Unused, Fds
<1>3. /\ PipeEnd(t, i, "r") \in Things /\ PipeEnd(t, i, "w") \in Things
      /\ table.file \in [Fds -> Things] /\ table.cloexec \in SUBSET Fds
  BY DEF Things, TypeInv, Tables
<1> DEFINE file == [table.file EXCEPT ![r] = PipeEnd(t, i, "r"), ![w] = PipeEnd(t, i, "w")]
<1>4. /\ file \in [Fds -> Things]
      /\ \A f \in Fds : file[f] = IF f = r THEN PipeEnd(t, i, "r")
                             ELSE IF f = w THEN PipeEnd(t, i, "w") ELSE table.file[f]
  BY <1>2, <1>3
<1>5. table'.file = file /\ table'.cloexec = table.cloexec \cup {r, w}
  BY <1>1
<1>6. table' \in Tables
  BY <1>1, <1>2, <1>3, <1>4 DEF Tables
<1> HIDE DEF file
<1>7. QED
  BY <1>1, <1>2, <1>4, <1>5, <1>6

-----------------------------------------------------------------------------
(* What calls remember.                                                    *)

\* A call remembers a number for an end of one of its pipes.
Has(t, i, e, f) == \/ e = "r" /\ (f = pipes[t][i].r \/ f = handle[t][i])
                   \/ e = "w" /\ f = pipes[t][i].w

LEMMA OwnAsHas ==
  ASSUME TypeInv
  PROVE  OwnDescriptors <=>
           \A t \in Threads, i \in Channels, e \in {"r", "w"}, f \in Fds :
             Has(t, i, e, f) => table.file[f] = PipeEnd(t, i, e)
<1>1. \A t \in Threads, i \in Channels :
        /\ pipes[t][i].r \in Numbers /\ pipes[t][i].w \in Numbers
        /\ handle[t][i] \in Numbers
  BY DEF TypeInv
<1>2. None \notin Fds
  BY SpawnAssumption DEF Fds
<1>3. QED
  BY <1>1, <1>2 DEF OwnDescriptors, Has, Numbers

LEMMA OwnAsHasNext ==
  ASSUME TypeInv',
         \A t \in Threads, i \in Channels, e \in {"r", "w"}, f \in Fds :
           Has(t, i, e, f)' => table'.file[f] = PipeEnd(t, i, e)
  PROVE  OwnDescriptors'
<1>1. \A t \in Threads, i \in Channels :
        /\ pipes'[t][i].r \in Numbers /\ pipes'[t][i].w \in Numbers
        /\ handle'[t][i] \in Numbers
  BY DEF TypeInv
<1>2. \A t \in Threads, i \in Channels, f \in Fds :
        /\ f = pipes'[t][i].r \/ f = handle'[t][i] => table'.file[f] = PipeEnd(t, i, "r")
        /\ f = pipes'[t][i].w => table'.file[f] = PipeEnd(t, i, "w")
  BY DEF Has
<1>3. QED
  BY <1>1, <1>2 DEF OwnDescriptors, Numbers

LEMMA RememberedAsHas ==
  \A f : Remembered(f) <=>
    \E t \in Threads, i \in Channels, e \in {"r", "w"} : Has(t, i, e, f)
  BY DEF Remembered, Has

\* Calls close numbers they remember, and forget them with it.
LEMMA ClosingStep ==
  ASSUME IInv, TypeInv', NEW F \in SUBSET Fds, table' = Close(table, F),
         \A f \in F : Remembered(f),
         \A t \in Threads, i \in Channels, e \in {"r", "w"}, f \in Fds :
           Has(t, i, e, f)' <=> Has(t, i, e, f) /\ f \notin F
  PROVE  OwnDescriptors' /\ HeldInv' /\ FlagInv'
<1>1. /\ \A f \in Fds : table'.file[f] = IF f \in F THEN Free ELSE table.file[f]
      /\ \A f \in Fds : f \in table'.cloexec <=> f \in table.cloexec /\ f \notin F
  BY CloseTable DEF IInv, TypeInv
<1>2. \A t \in Threads, i \in Channels, e \in {"r", "w"}, f \in Fds :
        Has(t, i, e, f) => table.file[f] = PipeEnd(t, i, e)
  BY OwnAsHas DEF IInv
<1>3. OwnDescriptors'
  <2>1. \A t \in Threads, i \in Channels, e \in {"r", "w"}, f \in Fds :
          Has(t, i, e, f)' => table'.file[f] = PipeEnd(t, i, e)
    BY <1>1, <1>2
  <2>2. QED
    BY <2>1, OwnAsHasNext
<1>4. HeldInv'
  <2>1. ASSUME NEW n \in Std PROVE table'.file[n] = Inherited(n)
    <3>1. n \in Fds /\ table.file[n] = Inherited(n)
      BY SpawnAssumption DEF IInv, HeldInv, Fds
    <3>2. n \notin F
      BY <1>2, <3>1, RememberedAsHas, Kinds
    <3>3. QED
      BY <1>1, <3>1, <3>2
  <2>2. ASSUME NEW f \in Fds \ Std, table'.file[f] # Free PROVE Remembered(f)'
    <3>1. f \notin F /\ table.file[f] # Free
      BY <1>1, <2>2
    <3>2. PICK t \in Threads, i \in Channels, e \in {"r", "w"} : Has(t, i, e, f)
      BY <3>1, RememberedAsHas DEF IInv, HeldInv
    <3>3. Has(t, i, e, f)'
      BY <3>1, <3>2
    <3>4. QED
      BY <3>3 DEF Remembered, Has
  <2>3. QED
    BY <2>1, <2>2 DEF HeldInv
<1>5. FlagInv'
  BY <1>1, Kinds DEF IInv, FlagInv
<1>6. QED
  BY <1>3, <1>4, <1>5

\* Nothing is opened, closed or forgotten.
LEMMA QuietStep ==
  ASSUME IInv, TypeInv', table' = table,
         \A t \in Threads, i \in Channels, e \in {"r", "w"}, f \in Fds :
           Has(t, i, e, f)' <=> Has(t, i, e, f)
  PROVE  OwnDescriptors' /\ HeldInv' /\ FlagInv'
<1>1. \A t \in Threads, i \in Channels, e \in {"r", "w"}, f \in Fds :
        Has(t, i, e, f)' => table'.file[f] = PipeEnd(t, i, e)
  BY OwnAsHas DEF IInv
<1>2. OwnDescriptors'
  BY <1>1, OwnAsHasNext
<1>3. \A f \in Fds : Remembered(f) => Remembered(f)'
  <2> SUFFICES ASSUME NEW f \in Fds, Remembered(f) PROVE Remembered(f)'
    OBVIOUS
  <2>1. PICK t \in Threads, i \in Channels, e \in {"r", "w"} : Has(t, i, e, f)
    BY RememberedAsHas
  <2>2. Has(t, i, e, f)'
    BY <2>1
  <2>3. QED
    BY <2>2 DEF Remembered, Has
<1>4. HeldInv' /\ FlagInv'
  BY <1>3 DEF IInv, HeldInv, FlagInv
<1>5. QED
  BY <1>1, <1>2, <1>4

-----------------------------------------------------------------------------
(* Steps.                                                                  *)

LEMMA PipeStep ==
  ASSUME IInv, NEW t \in Threads, FirstPipe(t) \/ SecondPipe(t)
  PROVE  IInv'
<1>1. PICK i \in Channels :
        /\ MakesPipe(t, i) /\ pipes[t][i] = NoPipe
        /\ \/ i = 0 /\ at[t] = "idle" /\ at' = [at EXCEPT ![t] = "second"]
           \/ i = 1 /\ at[t] = "second" /\ at' = [at EXCEPT ![t] = "spawn"]
        /\ handle' = handle
  <2>1. 0 \in Channels /\ 1 \in Channels
    BY DEF Channels
  <2>2. CASE FirstPipe(t)
    BY <2>1, <2>2 DEF FirstPipe, IInv, PlaceInv
  <2>3. CASE SecondPipe(t)
    BY <2>1, <2>3 DEF SecondPipe, IInv, PlaceInv
  <2>4. QED
    BY <2>2, <2>3
<1>2. PICK r, w \in Fds :
        /\ r # w /\ r # None /\ w # None
        /\ table.file[r] = Free /\ table.file[w] = Free
        /\ table' \in Tables
        /\ \A f \in Fds : table'.file[f] = IF f = r THEN PipeEnd(t, i, "r")
                                  ELSE IF f = w THEN PipeEnd(t, i, "w") ELSE table.file[f]
        /\ \A f \in Fds : f \in table'.cloexec <=> f \in table.cloexec \cup {r, w}
        /\ pipes' = [pipes EXCEPT ![t][i] = [r |-> r, w |-> w]]
  BY <1>1, PipeMade DEF IInv
<1>3. /\ pipes' \in [Threads -> [Channels -> [r : Numbers, w : Numbers]]]
      /\ \A u \in Threads, j \in Channels :
           pipes'[u][j] = IF u = t /\ j = i THEN [r |-> r, w |-> w] ELSE pipes[u][j]
  BY <1>2 DEF IInv, TypeInv, Numbers
<1>4. TypeInv'
  BY <1>1, <1>2, <1>3 DEF IInv, TypeInv, Places
<1>5. PlaceInv'
  <2> SUFFICES ASSUME NEW u \in Threads
               PROVE  /\ at'[u] \in {"idle", "open", "closing"} =>
                           \A j \in Channels : pipes'[u][j] = NoPipe
                      /\ at'[u] = "second" =>
                           /\ pipes'[u][0].r # None /\ pipes'[u][0].w # None
                           /\ pipes'[u][1] = NoPipe
                      /\ at'[u] = "spawn" => \A j \in Channels :
                           pipes'[u][j].r # None /\ pipes'[u][j].w # None
                      /\ at'[u] \notin {"open", "closing"} =>
                           \A j \in Channels : handle'[u][j] = None
    BY DEF PlaceInv
  <2>1. CASE u # t
    BY <1>1, <1>3, <2>1 DEF IInv, PlaceInv, TypeInv, Channels
  <2>2. CASE u = t /\ i = 0
    BY <1>1, <1>2, <1>3, <2>2 DEF IInv, PlaceInv, TypeInv, Channels
  <2>3. CASE u = t /\ i = 1
    BY <1>1, <1>2, <1>3, <2>3 DEF IInv, PlaceInv, TypeInv, Channels
  <2>4. QED
    BY <2>1, <2>2, <2>3 DEF Channels
<1>6. OwnDescriptors'
  <2>1. \A u \in Threads, j \in Channels :
          /\ pipes[u][j].r \in Numbers /\ pipes[u][j].w \in Numbers
          /\ handle[u][j] \in Numbers
    BY DEF IInv, TypeInv
  <2>2. ASSUME NEW u \in Threads, NEW j \in Channels
        PROVE  /\ pipes'[u][j].r # None =>
                    table'.file[pipes'[u][j].r] = PipeEnd(u, j, "r")
               /\ pipes'[u][j].w # None =>
                    table'.file[pipes'[u][j].w] = PipeEnd(u, j, "w")
               /\ handle'[u][j] # None => table'.file[handle'[u][j]] = PipeEnd(u, j, "r")
    <3>1. \A f \in Fds : table.file[f] # Free => table'.file[f] = table.file[f]
      BY <1>2
    <3>2. /\ pipes[u][j].r # None => table'.file[pipes[u][j].r] = PipeEnd(u, j, "r")
          /\ pipes[u][j].w # None => table'.file[pipes[u][j].w] = PipeEnd(u, j, "w")
          /\ handle[u][j] # None => table'.file[handle[u][j]] = PipeEnd(u, j, "r")
      BY <2>1, <3>1, Kinds DEF IInv, OwnDescriptors, Numbers
    <3>3. /\ table'.file[r] = PipeEnd(t, i, "r") /\ table'.file[w] = PipeEnd(t, i, "w")
      BY <1>2
    <3>4. CASE u = t /\ j = i
      BY <1>1, <1>3, <3>2, <3>3, <3>4
    <3>5. CASE ~(u = t /\ j = i)
      BY <1>1, <1>3, <3>2, <3>5
    <3>6. QED
      BY <3>4, <3>5
  <2>3. QED
    BY <2>2 DEF OwnDescriptors
<1>7. HeldInv'
  <2>1. ASSUME NEW n \in Std PROVE table'.file[n] = Inherited(n)
    <3>1. n \in Fds /\ table.file[n] = Inherited(n)
      BY SpawnAssumption DEF IInv, HeldInv, Fds
    <3>2. QED
      BY <1>2, <3>1, Kinds
  <2>2. ASSUME NEW f \in Fds \ Std, table'.file[f] # Free PROVE Remembered(f)'
    <3>1. CASE f = r \/ f = w
      BY <1>3, <3>1 DEF Remembered
    <3>2. CASE f # r /\ f # w
      <4>1. PICK u \in Threads, j \in Channels :
              f = pipes[u][j].r \/ f = pipes[u][j].w \/ f = handle[u][j]
        BY <1>2, <2>2, <3>2 DEF IInv, HeldInv, Remembered
      <4>2. f # None
        BY SpawnAssumption DEF Fds
      <4>3. f = pipes'[u][j].r \/ f = pipes'[u][j].w \/ f = handle'[u][j]
        BY <1>1, <1>3, <4>1, <4>2 DEF NoPipe
      <4>4. QED
        BY <4>3 DEF Remembered
    <3>3. QED
      BY <3>1, <3>2
  <2>3. QED
    BY <2>1, <2>2 DEF HeldInv
<1>8. FlagInv'
  BY <1>2 DEF IInv, FlagInv
<1>9. QED
  BY <1>4, <1>5, <1>6, <1>7, <1>8 DEF IInv

\* Steps that only move on.
LEMMA MoveStep ==
  ASSUME IInv, NEW t \in Threads,
         PipeFails(t) \/ Spawn(t) \/ SpawnFails(t) \/ StreamClose(t) \/ Closed(t)
  PROVE  IInv'
<1>1. table' = table /\ pipes' = pipes /\ handle' = handle
  BY DEF PipeFails, Spawn, SpawnFails, StreamClose, Closed
<1>2. PICK p \in Places :
        /\ at' = [at EXCEPT ![t] = p]
        /\ \/ p \in {"fail", "shut"} /\ at[t] \notin {"open", "closing"}
           \/ p = "closing" /\ at[t] = "open"
           \/ p = "idle" /\ at[t] = "closing" /\ \A i \in Channels : handle[t][i] = None
  BY DEF PipeFails, Spawn, SpawnFails, StreamClose, Closed, Places
<1>3. TypeInv'
  BY <1>1, <1>2 DEF IInv, TypeInv
<1>4. PlaceInv'
  BY <1>1, <1>2 DEF IInv, TypeInv, PlaceInv
<1>5. \A u \in Threads, i \in Channels, e \in {"r", "w"}, f \in Fds :
        Has(u, i, e, f)' <=> Has(u, i, e, f)
  BY <1>1 DEF Has
<1>6. QED
  BY <1>1, <1>3, <1>4, <1>5, QuietStep DEF IInv

LEMMA OpenedStep ==
  ASSUME IInv, NEW t \in Threads, Opened(t)
  PROVE  IInv'
<1>1. /\ at[t] = "shut" /\ at' = [at EXCEPT ![t] = "open"] /\ table' = table
      /\ \A i \in Channels : pipes[t][i].w = None /\ handle[t][i] = None
      /\ pipes' = [pipes EXCEPT ![t] = [i \in Channels |-> NoPipe]]
      /\ handle' = [handle EXCEPT ![t] = [i \in Channels |-> pipes[t][i].r]]
  BY DEF Opened, IInv, PlaceInv
<1>2. \A i \in Channels : pipes[t][i].r \in Numbers
  BY DEF IInv, TypeInv
<1>3. /\ pipes' \in [Threads -> [Channels -> [r : Numbers, w : Numbers]]]
      /\ handle' \in [Threads -> [Channels -> Numbers]]
      /\ \A u \in Threads, i \in Channels :
           /\ pipes'[u][i] = IF u = t THEN NoPipe ELSE pipes[u][i]
           /\ handle'[u][i] = IF u = t THEN pipes[t][i].r ELSE handle[u][i]
  BY <1>1, <1>2 DEF IInv, TypeInv, Numbers, NoPipe
<1>4. TypeInv'
  BY <1>1, <1>3 DEF IInv, TypeInv, Places
<1>5. PlaceInv'
  BY <1>1, <1>3 DEF IInv, TypeInv, PlaceInv, Channels
<1>6. \A u \in Threads, i \in Channels, e \in {"r", "w"}, f \in Fds :
        Has(u, i, e, f)' <=> Has(u, i, e, f)
  <2>1. \A f \in Fds : f # None
    BY SpawnAssumption DEF Fds
  <2>2. NoPipe.r = None /\ NoPipe.w = None
    BY DEF NoPipe
  <2>3. QED
    BY <1>1, <1>3, <2>1, <2>2 DEF Has
<1>7. QED
  BY <1>1, <1>4, <1>5, <1>6, QuietStep DEF IInv

\* One number is closed: a write end after the spawn, a field of the stream.
LEMMA CloseStep ==
  ASSUME IInv, NEW t \in Threads, NEW i \in Channels,
         ShutWrite(t, i) \/ ChannelEnds(t, i) \/ CloseField(t, i)
  PROVE  IInv'
<1>1. at' = at
  BY DEF ShutWrite, ChannelEnds, CloseField
<1>2. \A f \in Fds : f # None
  BY SpawnAssumption DEF Fds
<1>3. \A u \in Threads, j \in Channels, e \in {"r", "w"}, f \in Fds :
        Has(u, j, e, f) => table.file[f] = PipeEnd(u, j, e)
  BY OwnAsHas DEF IInv
<1>4. CASE ShutWrite(t, i)
  <2> DEFINE x == pipes[t][i].w
  <2>1. /\ at[t] = "shut" /\ x \in Fds /\ table' = Close(table, {x})
        /\ pipes' = [pipes EXCEPT ![t][i].w = None] /\ handle' = handle
    BY <1>4 DEF ShutWrite, IInv, TypeInv, Numbers
  <2>2. /\ pipes' \in [Threads -> [Channels -> [r : Numbers, w : Numbers]]]
        /\ \A u \in Threads, j \in Channels :
             /\ pipes'[u][j].r = pipes[u][j].r
             /\ pipes'[u][j].w = IF u = t /\ j = i THEN None ELSE pipes[u][j].w
             /\ u # t => pipes'[u][j] = pipes[u][j]
    <3> DEFINE p == [pipes[t][i] EXCEPT !.w = None]
    <3>1. /\ pipes[t][i] \in [r : Numbers, w : Numbers]
          /\ pipes \in [Threads -> [Channels -> [r : Numbers, w : Numbers]]]
      BY DEF IInv, TypeInv
    <3>2. /\ p \in [r : Numbers, w : Numbers]
          /\ p.r = pipes[t][i].r /\ p.w = None
      BY <3>1 DEF Numbers
    <3>3. pipes' = [pipes EXCEPT ![t][i] = p]
      BY <2>1
    <3> HIDE DEF p
    <3>4. \A u \in Threads, j \in Channels :
            pipes'[u][j] = IF u = t /\ j = i THEN p ELSE pipes[u][j]
      BY <3>1, <3>3
    <3>5. QED
      BY <3>1, <3>2, <3>3, <3>4
  <2>3. TypeInv'
    BY <1>1, <2>1, <2>2, CloseTable DEF IInv, TypeInv
  <2>4. PlaceInv'
    BY <1>1, <2>1, <2>2 DEF IInv, PlaceInv, Channels
  <2>5. \A u \in Threads, j \in Channels, e \in {"r", "w"}, f \in Fds :
          Has(u, j, e, f)' <=> Has(u, j, e, f) /\ f \notin {x}
    <3>1. \A u \in Threads, j \in Channels, e \in {"r", "w"} :
            Has(u, j, e, x) => u = t /\ j = i /\ e = "w"
      BY <1>3, <2>1, Kinds DEF Has
    <3>2. QED
      BY <1>2, <2>1, <2>2, <3>1 DEF Has
  <2>6. Remembered(x)
    BY DEF Remembered
  <2>7. QED
    BY <2>1, <2>3, <2>4, <2>5, <2>6, ClosingStep DEF IInv
<1>5. CASE ChannelEnds(t, i) \/ CloseField(t, i)
  <2> DEFINE x == handle[t][i]
  <2>1. /\ at[t] \in {"open", "closing"} /\ x \in Fds /\ table' = Close(table, {x})
        /\ handle' = [handle EXCEPT ![t][i] = None] /\ pipes' = pipes
    BY <1>5 DEF ChannelEnds, CloseField, Forgotten, IInv, TypeInv, Numbers
  <2>2. /\ handle' \in [Threads -> [Channels -> Numbers]]
        /\ \A u \in Threads, j \in Channels :
             handle'[u][j] = IF u = t /\ j = i THEN None ELSE handle[u][j]
        /\ \A j \in Channels : pipes[t][j] = NoPipe
    BY <2>1 DEF IInv, TypeInv, Numbers, PlaceInv
  <2>3. TypeInv'
    BY <1>1, <2>1, <2>2, CloseTable DEF IInv, TypeInv
  <2>4. PlaceInv'
    BY <1>1, <2>1, <2>2 DEF IInv, PlaceInv
  <2>5. \A u \in Threads, j \in Channels, e \in {"r", "w"}, f \in Fds :
          Has(u, j, e, f)' <=> Has(u, j, e, f) /\ f \notin {x}
    <3>1. \A u \in Threads, j \in Channels, e \in {"r", "w"} :
            Has(u, j, e, x) => u = t /\ j = i /\ e = "r"
      BY <1>3, <2>1, Kinds DEF Has
    <3>2. NoPipe.r = None /\ NoPipe.w = None
      BY DEF NoPipe
    <3>3. QED
      BY <1>2, <2>1, <2>2, <3>1, <3>2 DEF Has
  <2>6. Remembered(x)
    BY DEF Remembered
  <2>7. QED
    BY <2>1, <2>3, <2>4, <2>5, <2>6, ClosingStep DEF IInv
<1>6. QED
  BY <1>4, <1>5

LEMMA UndoStep ==
  ASSUME IInv, NEW t \in Threads, Undo(t)
  PROVE  IInv'
<1>1. /\ at[t] = "fail" /\ table' = Close(table, Ends(t)) /\ handle' = handle
      /\ pipes' = [pipes EXCEPT ![t] = [i \in Channels |-> NoPipe]]
      /\ at' = [at EXCEPT ![t] = "idle"]
      /\ \A i \in Channels : handle[t][i] = None
  BY DEF Undo, IInv, PlaceInv
<1>2. \A f \in Fds : f # None
  BY SpawnAssumption DEF Fds
<1>3. \A f : f \in Ends(t) <=>
        f # None /\ \E i \in Channels : f = pipes[t][i].r \/ f = pipes[t][i].w
  <2> DEFINE of == {{pipes[t][i].r, pipes[t][i].w} : i \in Channels}
  <2>1. \A f : f \in UNION of <=> \E s \in of : f \in s
    OBVIOUS
  <2>2. \A s : s \in of <=> \E i \in Channels : s = {pipes[t][i].r, pipes[t][i].w}
    OBVIOUS
  <2>3. \A f : f \in Ends(t) <=> f # None /\ f \in UNION of
    <3> HIDE DEF None
    <3>1. Ends(t) = (UNION of) \ {None}
      BY Zenon DEF Ends
    <3>2. QED
      BY <3>1
  <2> HIDE DEF of
  <2>4. SUFFICES ASSUME NEW f
                 PROVE  f \in UNION of <=>
                          \E i \in Channels : f = pipes[t][i].r \/ f = pipes[t][i].w
    BY <2>3
  <2>5. ASSUME NEW i \in Channels, f = pipes[t][i].r \/ f = pipes[t][i].w
        PROVE  f \in UNION of
    <3>1. {pipes[t][i].r, pipes[t][i].w} \in of
      BY <2>2
    <3>2. QED
      BY <2>1, <2>5, <3>1
  <2>6. ASSUME f \in UNION of
        PROVE  \E i \in Channels : f = pipes[t][i].r \/ f = pipes[t][i].w
    <3>1. PICK s \in of : f \in s
      BY <2>1, <2>6
    <3>2. PICK i \in Channels : s = {pipes[t][i].r, pipes[t][i].w}
      BY <2>2, <3>1
    <3>3. QED
      BY <3>1, <3>2
  <2>7. QED
    BY <2>5, <2>6
<1>4. Ends(t) \in SUBSET Fds
  <2>1. \A i \in Channels : pipes[t][i].r \in Numbers /\ pipes[t][i].w \in Numbers
    BY DEF IInv, TypeInv
  <2>2. QED
    BY <1>3, <2>1 DEF Numbers
<1>5. /\ pipes' \in [Threads -> [Channels -> [r : Numbers, w : Numbers]]]
      /\ \A u \in Threads, i \in Channels :
           pipes'[u][i] = IF u = t THEN NoPipe ELSE pipes[u][i]
  BY <1>1 DEF IInv, TypeInv, Numbers, NoPipe
<1>6. TypeInv'
  BY <1>1, <1>5, CloseTable DEF IInv, TypeInv, Places
<1>7. PlaceInv'
  BY <1>1, <1>5 DEF IInv, TypeInv, PlaceInv, Channels
<1>8. \A u \in Threads, i \in Channels, e \in {"r", "w"}, f \in Fds :
        Has(u, i, e, f)' <=> Has(u, i, e, f) /\ f \notin Ends(t)
  <2> SUFFICES ASSUME NEW u \in Threads, NEW i \in Channels, NEW e \in {"r", "w"},
                      NEW f \in Fds
               PROVE  Has(u, i, e, f)' <=> Has(u, i, e, f) /\ f \notin Ends(t)
    OBVIOUS
  <2>1. NoPipe.r = None /\ NoPipe.w = None /\ f # None
    BY <1>2 DEF NoPipe
  <2>2. CASE u = t
    BY <1>1, <1>3, <1>5, <2>1, <2>2 DEF Has
  <2>3. CASE u # t
    <3>1. f \in Ends(t) => \E j \in Channels, d \in {"r", "w"} : Has(t, j, d, f)
      BY <1>3 DEF Has
    <3>2. \A v \in Threads, j \in Channels, d \in {"r", "w"} :
            Has(v, j, d, f) => table.file[f] = PipeEnd(v, j, d)
      BY OwnAsHas DEF IInv
    <3>3. Has(u, i, e, f) => f \notin Ends(t)
      BY <2>3, <3>1, <3>2, Kinds
    <3>4. Has(u, i, e, f)' <=> Has(u, i, e, f)
      BY <1>1, <1>5, <2>3 DEF Has
    <3>5. QED
      BY <3>3, <3>4
  <2>4. QED
    BY <2>2, <2>3
<1>9. \A f \in Ends(t) : Remembered(f)
  BY <1>3 DEF Remembered
<1>10. QED
  BY <1>1, <1>4, <1>6, <1>7, <1>8, <1>9, ClosingStep DEF IInv

LEMMA InitIInv == Init => IInv
<1> SUFFICES ASSUME Init PROVE IInv
  OBVIOUS
<1>1. \A f \in Fds : table.file[f] = IF f \in Std THEN Inherited(f) ELSE Free
  BY DEF Init
<1>2. Std \subseteq Fds /\ Std \subseteq 0..2
  BY SpawnAssumption DEF Fds
<1>3. TypeInv
  BY <1>1, <1>2 DEF Init, TypeInv, Tables, Things, Places, Numbers, NoPipe
<1>4. \A t \in Threads, i \in Channels :
        pipes[t][i] = NoPipe /\ NoPipe.r = None /\ NoPipe.w = None /\ handle[t][i] = None
  BY DEF Init, NoPipe
<1>5. PlaceInv /\ OwnDescriptors
  BY <1>4 DEF Init, PlaceInv, OwnDescriptors, Channels
<1>6. HeldInv /\ FlagInv
  BY <1>1, <1>2, Kinds DEF HeldInv, FlagInv
<1>7. QED
  BY <1>3, <1>5, <1>6 DEF IInv

LEMMA StepIInv == IInv /\ [Next]_vars => IInv'
<1> SUFFICES ASSUME IInv, [Next]_vars PROVE IInv'
  OBVIOUS
<1>1. CASE UNCHANGED vars
  BY <1>1 DEF vars, IInv, TypeInv, PlaceInv, OwnDescriptors, HeldInv, FlagInv, Remembered
<1>2. CASE Next
  <2>1. PICK t \in Threads :
          \/ FirstPipe(t) \/ SecondPipe(t) \/ PipeFails(t) \/ Spawn(t) \/ SpawnFails(t)
          \/ Undo(t) \/ Opened(t) \/ StreamClose(t) \/ Closed(t)
          \/ \E i \in Channels : ShutWrite(t, i) \/ ChannelEnds(t, i) \/ CloseField(t, i)
    BY <1>2 DEF Next
  <2>2. QED
    BY <2>1, PipeStep, MoveStep, OpenedStep, CloseStep, UndoStep
<1>3. QED
  BY <1>1, <1>2

\* Every reachable state satisfies the inductive invariant.
THEOREM Invariance == Spec => []IInv
  BY InitIInv, StepIInv, PTL DEF Spec

\* However calls interleave and fail, a call only ever remembers, and closes,
\* numbers of its own pipes (stream_start, zg_proc_stream_next,
\* zg_proc_stream_close).
THEOREM TheirOwn == Spec => []OwnDescriptors
<1>1. IInv => OwnDescriptors
  BY DEF IInv
<1>2. QED
  BY Invariance, <1>1, PTL

\* Between calls the table is what it was when the program started, whatever
\* failed (the fail label, the end of a channel, zg_proc_stream_close).
THEOREM NothingStaysOpen == Spec => []NothingHeld
<1>1. IInv => NothingHeld
  <2> SUFFICES ASSUME IInv, \A t \in Threads : at[t] = "idle", NEW f
               PROVE  (f \in Fds /\ table.file[f] # Free) <=> f \in Std
    BY DEF NothingHeld
  <2>1. \A t \in Threads, i \in Channels :
          pipes[t][i] = NoPipe /\ NoPipe.r = None /\ NoPipe.w = None /\ handle[t][i] = None
    BY DEF IInv, PlaceInv, NoPipe
  <2>2. Std \subseteq Fds /\ (f \in Fds => f # None)
    BY SpawnAssumption DEF Fds
  <2>3. ~Remembered(f) \/ f = None
    BY <2>1 DEF Remembered
  <2>4. QED
    BY <2>2, <2>3, Kinds DEF IInv, HeldInv
<1>2. QED
  BY Invariance, <1>1, PTL

-----------------------------------------------------------------------------
(* What a child has.                                                       *)

\* The file actions leave the child its two write ends, as stdout and stderr.
LEMMA ChildTable ==
  ASSUME IInv, {1, 2} \subseteq Std, NEW t \in Threads, at[t] = "spawn",
         NEW new, new = Exec(Arranged(Arranged(table, pipes[t], 0), pipes[t], 1))
  PROVE  /\ new.file[1] = PipeEnd(t, 0, "w") /\ new.file[2] = PipeEnd(t, 1, "w")
         /\ \A f \in Fds \ {1, 2} : new.file[f].what # "pipe"
<1> DEFINE r0 == pipes[t][0].r   w0 == pipes[t][0].w
           r1 == pipes[t][1].r   w1 == pipes[t][1].w
           a == Dup(table, w0, 1)   b == Close(a, {r0, w0})
           c == Dup(b, w1, 2)       d == Close(c, {r1, w1})
<1>1. /\ r0 \in Fds /\ w0 \in Fds /\ r1 \in Fds /\ w1 \in Fds
      /\ table.file[r0] = PipeEnd(t, 0, "r") /\ table.file[w0] = PipeEnd(t, 0, "w")
      /\ table.file[r1] = PipeEnd(t, 1, "r") /\ table.file[w1] = PipeEnd(t, 1, "w")
  BY DEF IInv, PlaceInv, TypeInv, OwnDescriptors, Numbers, Channels
<1>2. /\ 1 \in Fds /\ 2 \in Fds
      /\ table.file[1] = Inherited(1) /\ table.file[2] = Inherited(2)
  BY SpawnAssumption DEF IInv, HeldInv, Fds
<1>3. {1, 2} \cap {r0, w0, r1, w1} = {} /\ w1 \notin {r0, w0}
  BY <1>1, <1>2, Kinds
<1>4. table \in Tables
  BY DEF IInv, TypeInv
<1> HIDE DEF r0, w0, r1, w1
<1>5. /\ a \in Tables
      /\ \A f \in Fds : a.file[f] = IF f = 1 THEN PipeEnd(t, 0, "w") ELSE table.file[f]
      /\ \A f \in Fds : f \in a.cloexec <=> f \in table.cloexec /\ f # 1
  BY <1>1, <1>2, <1>4 DEF Dup, Tables
<1> HIDE DEF a
<1>6. /\ b \in Tables
      /\ \A f \in Fds : b.file[f] = IF f \in {r0, w0} THEN Free ELSE a.file[f]
      /\ \A f \in Fds : f \in b.cloexec <=> f \in a.cloexec /\ f \notin {r0, w0}
  BY <1>5, CloseTable
<1> HIDE DEF b
<1>7. b.file[w1] = PipeEnd(t, 1, "w")
  BY <1>1, <1>3, <1>5, <1>6
<1>8. /\ c \in Tables
      /\ \A f \in Fds : c.file[f] = IF f = 2 THEN PipeEnd(t, 1, "w") ELSE b.file[f]
      /\ \A f \in Fds : f \in c.cloexec <=> f \in b.cloexec /\ f # 2
  BY <1>1, <1>2, <1>6, <1>7 DEF Dup, Tables
<1> HIDE DEF c
<1>9. /\ d \in Tables
      /\ \A f \in Fds : d.file[f] = IF f \in {r1, w1} THEN Free ELSE c.file[f]
      /\ \A f \in Fds : f \in d.cloexec <=> f \in c.cloexec /\ f \notin {r1, w1}
  BY <1>8, CloseTable
<1>10. new = Exec(d)
  BY DEF Arranged, DupTo, a, b, c, r0, w0, r1, w1
<1> HIDE DEF d
<1>11. \A f \in Fds : new.file[f] = IF f \in d.cloexec THEN Free ELSE d.file[f]
  BY <1>9, <1>10, CloseTable DEF Exec
<1>12. /\ new.file[1] = PipeEnd(t, 0, "w") /\ new.file[2] = PipeEnd(t, 1, "w")
  <2>1. 1 \notin {r0, w0, r1, w1} /\ 2 \notin {r0, w0, r1, w1}
    BY <1>3
  <2>2. /\ b.file[1] = PipeEnd(t, 0, "w") /\ 1 \notin b.cloexec
    BY <1>2, <1>5, <1>6, <2>1
  <2>3. /\ d.file[1] = PipeEnd(t, 0, "w") /\ 1 \notin d.cloexec
        /\ d.file[2] = PipeEnd(t, 1, "w") /\ 2 \notin d.cloexec
    BY <1>2, <1>8, <1>9, <2>1, <2>2
  <2>4. QED
    BY <1>2, <1>11, <2>3
<1>13. ASSUME NEW f \in Fds \ {1, 2} PROVE new.file[f].what # "pipe"
  <2>1. table.file[f].what = "pipe" => f \in table.cloexec
    BY DEF IInv, FlagInv
  <2>2. CASE f \in {r0, w0, r1, w1}
    BY <1>5, <1>6, <1>8, <1>9, <1>11, <2>2, Kinds
  <2>3. CASE f \notin {r0, w0, r1, w1}
    BY <1>5, <1>6, <1>8, <1>9, <1>11, <2>1, <2>3, Kinds
  <2>4. QED
    BY <2>2, <2>3
<1>14. QED
  BY <1>12, <1>13

ChildInv == child = [t \in Threads |-> child[t]] /\ ChildHoldsOwn

LEMMA ChildStep ==
  ASSUME {1, 2} \subseteq Std, IInv, ChildInv, [Next]_vars
  PROVE  ChildInv'
<1>1. CASE child' = child
  BY <1>1 DEF ChildInv, ChildHoldsOwn, ChildStdio, NoStrangers, Started
<1>2. ASSUME NEW t \in Threads, Spawn(t) PROVE ChildInv'
  <2> DEFINE new == Exec(Arranged(Arranged(table, pipes[t], 0), pipes[t], 1))
  <2>1. at[t] = "spawn" /\ child' = [child EXCEPT ![t] = new]
    BY <1>2 DEF Spawn
  <2>2. /\ new.file[1] = PipeEnd(t, 0, "w") /\ new.file[2] = PipeEnd(t, 1, "w")
        /\ \A f \in Fds \ {1, 2} : new.file[f].what # "pipe"
    BY <2>1, ChildTable
  <2> HIDE DEF new
  <2>3. /\ child' = [u \in Threads |-> child'[u]]
        /\ \A u \in Threads : child'[u] = IF u = t THEN new ELSE child[u]
    BY <2>1 DEF ChildInv
  <2>4. ChildStdio'
    <3> SUFFICES ASSUME NEW u \in Threads, child'[u] # NoChild, NEW i \in Channels
                 PROVE  child'[u].file[i + 1] = PipeEnd(u, i, "w")
      BY DEF ChildStdio, Started
    <3>1. CASE u = t
      <4>1. \/ i = 0 /\ i + 1 = 1
            \/ i = 1 /\ i + 1 = 2
        BY DEF Channels
      <4>2. QED
        BY <2>2, <2>3, <3>1, <4>1
    <3>2. CASE u # t
      BY <2>3, <3>2 DEF ChildInv, ChildHoldsOwn, ChildStdio, Started
    <3>3. QED
      BY <3>1, <3>2
  <2>5. NoStrangers'
    BY <2>2, <2>3 DEF ChildInv, ChildHoldsOwn, NoStrangers
  <2>6. QED
    BY <2>3, <2>4, <2>5 DEF ChildInv, ChildHoldsOwn
<1>3. QED
  BY <1>1, <1>2 DEF Next, vars, FirstPipe, SecondPipe, PipeFails, SpawnFails, Undo,
     Opened, StreamClose, Closed, ShutWrite, ChannelEnds, CloseField

\* In a program that has descriptors 1 and 2 open, each child has its own two
\* write ends as stdout and stderr and no other end of any pipe, whatever other
\* threads do meanwhile (stream_start, O_CLOEXEC).
THEOREM ChildrenHoldOwn ==
  ASSUME {1, 2} \subseteq Std
  PROVE  Spec => []ChildHoldsOwn
<1>1. Init => ChildInv
  <2> SUFFICES ASSUME Init PROVE ChildInv
    OBVIOUS
  <2>1. child = [t \in Threads |-> NoChild]
    BY DEF Init
  <2>2. \A f \in Fds : NoChild.file[f] = Free
    BY DEF NoChild
  <2>3. QED
    BY <2>1, <2>2, Kinds DEF ChildInv, ChildHoldsOwn, ChildStdio, NoStrangers, Started
<1>2. IInv /\ ChildInv /\ [Next]_vars => ChildInv'
  BY ChildStep
<1>3. ChildInv => ChildHoldsOwn
  BY DEF ChildInv
<1>4. QED
  BY Invariance, <1>1, <1>2, <1>3, PTL DEF Spec
=============================================================================
