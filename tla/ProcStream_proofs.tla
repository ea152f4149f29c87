------------------------- MODULE ProcStream_proofs -------------------------
(***************************************************************************)
(* What a call of std.proc keeps for pipes and chunks of any size, any     *)
(* number of bytes, any mishap and any child.                              *)
(***************************************************************************)
EXTENDS ProcStream, TLAPS

USE DEF parent, kid

-----------------------------------------------------------------------------
(* The inductive invariant.                                                *)

Places == {"start", "poll", "turn", "give", "wait", "close", "kill", "reap",
           "free", "copy", "done"}

TypeInv ==
  /\ world \in Worlds /\ kind \in Kinds /\ at \in Places /\ pid \in BOOLEAN
  /\ fds \subseteq Channels /\ ready \subseteq Channels /\ next \in Channels
  /\ chunk \in [ch : {0} \cup Channels, n : Nat]
  /\ plan \in [Channels -> Nat] /\ wrote \in [Channels -> Nat]
  /\ taken \in [Channels -> Nat] /\ got \in [Channels -> Nat]
  /\ passed \in [Channels -> Nat]
  /\ writers \in [Channels -> SUBSET {"child", "heir"}]
  /\ child \in {"none", "running", "zombie", "reaped"}

\* Before a call starts it holds nothing; where it drains it has a child and
\* has not failed; past its clean-up it has neither child nor descriptors.
PlaceInv ==
  /\ at = "start" => child = "none" /\ taken = Zero /\ got = Zero
       /\ passed = Zero
  /\ at \in {"start", "poll", "turn", "give", "wait"} => result = "none"
  /\ at = "copy" => result = "Ok"
  /\ at \in {"poll", "turn", "give", "wait", "kill", "reap"} => pid
  /\ at \in {"start", "free", "copy", "done"} => ~pid
  /\ at \notin {"poll", "turn", "give", "close"} => fds = {}
  /\ at \in {"start", "done"} => bufs = {}
  /\ at # "give" <=> chunk = NoChunk
  /\ chunk.ch = 0 => chunk = NoChunk
  /\ at = "turn" => ready # {}

\* A child is there to be reaped as long as the call has its pid.
ChildInv ==
  /\ ~pid => child \in {"none", "reaped"}
  /\ pid => child # "none"
  /\ pid /\ ~world.autoreap => child # "reaped"
  /\ child \in {"none", "running"} => status = NoStatus
  /\ status.how = "exit" => wrote = plan

\* What poll reported stays true until it is looked at.
ReadyInv == at = "turn" => \A ch \in ready : Readable(ch)

\* As long as the call has not failed, what it has read is what it has given
\* out and the chunk in hand, and a channel it has closed has been read whole.
Well == at \in {"start", "poll", "turn", "give", "wait"} \/ result = "Ok"
InHand(ch) == IF chunk.ch = ch THEN chunk.n ELSE 0
BytesInv ==
  /\ \A ch \in Channels : taken[ch] <= wrote[ch]
  /\ Well => \A ch \in Channels :
       /\ taken[ch] = got[ch] + InHand(ch)
       /\ ch \notin fds => wrote[ch] = taken[ch]
  /\ result = "Ok" =>
       /\ child = "reaped" /\ code = ExitCode(status) /\ fds = {}
       /\ at \in {"close", "free", "copy", "done"} /\ ~pid

\* A channel that was passed over is looked at next, and will be read.
TurnInv ==
  \A ch \in Channels : passed[ch] # 0 =>
    /\ passed[ch] = 1
    /\ at \in {"poll", "turn", "give"} => next = ch /\ Readable(ch)
    /\ at = "turn" => ch \in ready

IInv == TypeInv /\ PlaceInv /\ ChildInv /\ ReadyInv /\ BytesInv /\ TurnInv

-----------------------------------------------------------------------------
(* Steps.                                                                  *)

USE DEF Out, Err, Channels

LEMMA TypeStep == IInv /\ [Next]_vars => TypeInv'
<1> SUFFICES ASSUME IInv, [Next]_vars PROVE TypeInv'
  OBVIOUS
<1>1. TypeInv /\ PlaceInv
  BY DEF IInv
<1>2. CASE UNCHANGED vars
  BY <1>1, <1>2 DEF TypeInv, Places, NoChunk, vars
<1>3. ASSUME Steps, UNCHANGED world PROVE TypeInv'
  <2>1. CASE Started \/ StartedInherit \/ NotStarted
    <3>1. \/ writers' = writers
          \/ writers' = [ch \in Channels |-> {"child"}]
      BY <2>1 DEF Started, StartedInherit, NotStarted, Runs
    <3>2. writers' \in [Channels -> SUBSET {"child", "heir"}]
      BY <1>1, <3>1 DEF TypeInv
    <3>3. fds' \in {fds, Channels}
      BY <2>1 DEF Started, StartedInherit, NotStarted, Runs
    <3>4. QED
      BY <1>1, <1>3, <2>1, <3>2, <3>3
      DEF TypeInv, Started, StartedInherit, NotStarted, Runs, Places
  <2>2. CASE Poll
    BY <1>1, <1>3, <2>2
    DEF TypeInv, Places, NoChunk, Poll
  <2>3. CASE TakeChunk
    <3> DEFINE ch == Looked
               n == Least(Chunk, wrote[ch] - taken[ch])
    <3>1. ch \in Channels /\ Other(ch) \in Channels
      BY <1>1 DEF TypeInv, Looked, Other
    <3>2. n \in Nat
      BY <1>1, <2>3, <3>1, ProcAssumption DEF TypeInv, TakeChunk, Least
    <3>3. /\ chunk' = [ch |-> ch, n |-> n]
          /\ taken' = [taken EXCEPT ![ch] = @ + n]
          /\ next' = Other(ch)
      BY <2>3 DEF TakeChunk
    <3>4. chunk' \in [ch : {0} \cup Channels, n : Nat]
      BY <3>1, <3>2, <3>3
    <3>5. taken' \in [Channels -> Nat]
      BY <1>1, <3>1, <3>2, <3>3 DEF TypeInv
    <3>6. passed' \in [Channels -> Nat]
      <4> DEFINE more == [c \in Channels |->
                            IF Readable(c) THEN passed[c] + 1 ELSE 0]
      <4>1. more \in [Channels -> Nat]
        BY <1>1 DEF TypeInv
      <4>2. passed' = [more EXCEPT ![ch] = 0]
        BY <2>3 DEF TakeChunk
      <4> HIDE DEF more, ch
      <4>3. QED
        BY <4>1, <4>2
    <3>7. QED
      BY <1>1, <1>3, <2>3, <3>1, <3>3, <3>4, <3>5, <3>6
      DEF TypeInv, TakeChunk, Places
  <2>4. CASE CloseChannel
    BY <1>1, <1>3, <2>4
    DEF TypeInv, Places, NoChunk, CloseChannel, Looked, Other
  <2>5. CASE ReadFails \/ Give \/ GiveFails
    <3>1. CASE Give
      <4>1. got' \in [Channels -> Nat]
        <5> DEFINE c == chunk.ch
                   n == chunk.n
        <5>1. got \in [Channels -> Nat] /\ n \in Nat /\ c \in Channels
          BY <1>1, <3>1 DEF TypeInv, PlaceInv, Give
        <5>2. got' = [got EXCEPT ![c] = @ + n]
          BY <3>1 DEF Give
        <5> HIDE DEF c, n
        <5>3. QED
          BY <5>1, <5>2
      <4>2. QED
        BY <1>1, <1>3, <3>1, <4>1 DEF TypeInv, Give, Places, NoChunk
    <3>2. CASE ReadFails
      BY <1>1, <1>3, <3>2 DEF TypeInv, ReadFails, Places
    <3>3. CASE GiveFails
      BY <1>1, <1>3, <3>3 DEF TypeInv, GiveFails, Places, NoChunk
    <3>4. QED
      BY <2>5, <3>1, <3>2, <3>3
  <2>6. CASE Drained \/ Wait \/ WaitFails
    BY <1>1, <1>3, <2>6
    DEF TypeInv, Places, NoChunk, Drained, Wait, WaitFails
  <2>7. CASE CloseFds \/ Free \/ Copy
    BY <1>1, <1>3, <2>7
    DEF TypeInv, Places, NoChunk, CloseFds, Free, Copy
  <2>8. CASE Kill
    BY <1>1, <1>3, <2>8
    DEF TypeInv, Places, NoChunk, Kill, Gone
  <2>9. CASE Reap
    BY <1>1, <1>3, <2>9
    DEF TypeInv, Places, NoChunk, Reap
  <2>10. ASSUME NEW ch \in Channels, ChildWrites(ch) PROVE TypeInv'
    BY <1>1, <1>3, <2>10
    DEF TypeInv, Places, NoChunk, ChildWrites
  <2>11. ASSUME NEW ch \in Channels, ChildBroken(ch) PROVE TypeInv'
    BY <1>1, <1>3, <2>11
    DEF TypeInv, Places, NoChunk, ChildBroken, Gone
  <2>12. ASSUME NEW ch \in Channels, ChildCloses(ch) PROVE TypeInv'
    BY <1>1, <1>3, <2>12
    DEF TypeInv, Places, NoChunk, ChildCloses
  <2>13. CASE ChildExits \/ ChildSignalled
    <3>1. \/ writers' = writers
          \/ writers' = [ch \in Channels |-> writers[ch] \ {"child"}]
      BY <2>13 DEF ChildExits, ChildSignalled, Gone
    <3>2. writers' \in [Channels -> SUBSET {"child", "heir"}]
      <4>1. \A ch \in Channels :
              writers[ch] \ {"child"} \in SUBSET {"child", "heir"}
        BY <1>1 DEF TypeInv
      <4>2. QED
        BY <1>1, <3>1, <4>1 DEF TypeInv
    <3>3. child' \in {"zombie", "reaped"}
      BY <2>13 DEF ChildExits, ChildSignalled, Gone
    <3>4. QED
      BY <1>1, <1>3, <2>13, <3>2, <3>3
      DEF TypeInv, ChildExits, ChildSignalled, Gone
  <2>14. CASE ChildLeavesHeir \/ HeirEnds
    <3>1. writers' \in [Channels -> SUBSET {"child", "heir"}]
      <4>1. CASE ChildLeavesHeir
        BY <1>1, <4>1 DEF TypeInv, ChildLeavesHeir
      <4>2. CASE HeirEnds
        <5>1. \A ch \in Channels :
                writers[ch] \ {"heir"} \in SUBSET {"child", "heir"}
          BY <1>1 DEF TypeInv
        <5>2. QED
          BY <4>2, <5>1 DEF HeirEnds
      <4>3. QED
        BY <2>14, <4>1, <4>2
    <3>2. QED
      BY <1>1, <1>3, <2>14, <3>1 DEF TypeInv, ChildLeavesHeir, HeirEnds
  <2>15. CASE Over
    BY <1>1, <1>3, <2>15 DEF TypeInv, Places, NoChunk, Over
  <2>16. QED
    BY <1>3, <2>1, <2>2, <2>3, <2>4, <2>5, <2>6, <2>7, <2>8, <2>9, <2>10,
       <2>11, <2>12, <2>13, <2>14, <2>15
    DEF Steps, Call, ChildRuns
<1>4. QED
  BY <1>2, <1>3 DEF Next, InWorld

LEMMA PlaceStep == IInv /\ [Next]_vars => PlaceInv'
<1> SUFFICES ASSUME IInv, [Next]_vars PROVE PlaceInv'
  OBVIOUS
<1>1. TypeInv /\ PlaceInv /\ ChildInv
  BY DEF IInv
<1>2. CASE UNCHANGED vars
  BY <1>1, <1>2 DEF PlaceInv, NoChunk, vars
<1>3. ASSUME Steps, UNCHANGED world PROVE PlaceInv'
  <2>1. CASE Started \/ StartedInherit \/ NotStarted
    <3>1. CASE Started
      BY <1>1, <1>3, <3>1 DEF PlaceInv, TypeInv, NoChunk, Started, Runs
    <3>2. CASE StartedInherit
      BY <1>1, <1>3, <3>2 DEF PlaceInv, TypeInv, NoChunk, StartedInherit, Runs
    <3>3. CASE NotStarted
      BY <1>1, <1>3, <3>3 DEF PlaceInv, TypeInv, NoChunk, NotStarted
    <3>4. QED
      BY <2>1, <3>1, <3>2, <3>3
  <2>2. CASE Poll
    BY <1>1, <1>3, <2>2
    DEF PlaceInv, TypeInv, ChildInv, NoChunk, Poll
  <2>3. CASE TakeChunk
    BY <1>1, <1>3, <2>3
    DEF PlaceInv, TypeInv, ChildInv, NoChunk, TakeChunk, Looked, Least, Other
  <2>4. CASE CloseChannel
    BY <1>1, <1>3, <2>4
    DEF PlaceInv, TypeInv, ChildInv, NoChunk, CloseChannel, Looked, Other
  <2>5. CASE ReadFails \/ Give \/ GiveFails
    BY <1>1, <1>3, <2>5
    DEF PlaceInv, TypeInv, ChildInv, NoChunk, ReadFails, Give, GiveFails
  <2>6. CASE Drained \/ Wait \/ WaitFails
    BY <1>1, <1>3, <2>6
    DEF PlaceInv, TypeInv, ChildInv, NoChunk, Drained, Wait, WaitFails
  <2>7. CASE CloseFds \/ Free \/ Copy
    <3>1. CASE CloseFds
      BY <1>1, <1>3, <3>1 DEF PlaceInv, TypeInv, NoChunk, CloseFds
    <3>2. CASE Free
      BY <1>1, <1>3, <3>2 DEF PlaceInv, TypeInv, NoChunk, Free
    <3>3. CASE Copy
      BY <1>1, <1>3, <3>3 DEF PlaceInv, TypeInv, NoChunk, Copy
    <3>4. QED
      BY <2>7, <3>1, <3>2, <3>3
  <2>8. CASE Kill
    BY <1>1, <1>3, <2>8
    DEF PlaceInv, TypeInv, ChildInv, NoChunk, Kill, Gone
  <2>9. CASE Reap
    BY <1>1, <1>3, <2>9
    DEF PlaceInv, TypeInv, ChildInv, NoChunk, Reap
  <2>10. ASSUME NEW ch \in Channels, ChildWrites(ch) PROVE PlaceInv'
    BY <1>1, <1>3, <2>10
    DEF PlaceInv, TypeInv, ChildInv, NoChunk, ChildWrites
  <2>11. ASSUME NEW ch \in Channels, ChildBroken(ch) PROVE PlaceInv'
    BY <1>1, <1>3, <2>11
    DEF PlaceInv, TypeInv, ChildInv, NoChunk, ChildBroken, Gone
  <2>12. ASSUME NEW ch \in Channels, ChildCloses(ch) PROVE PlaceInv'
    BY <1>1, <1>3, <2>12
    DEF PlaceInv, TypeInv, ChildInv, NoChunk, ChildCloses
  <2>13. CASE ChildExits \/ ChildSignalled
    BY <1>1, <1>3, <2>13
    DEF PlaceInv, TypeInv, ChildInv, NoChunk, ChildExits, ChildSignalled, Gone
  <2>14. CASE ChildLeavesHeir \/ HeirEnds
    <3>1. CASE ChildLeavesHeir
      BY <1>1, <1>3, <3>1 DEF PlaceInv, TypeInv, NoChunk,
              ChildLeavesHeir
    <3>2. CASE HeirEnds
      BY <1>1, <1>3, <3>2 DEF PlaceInv, TypeInv, NoChunk, HeirEnds
    <3>3. QED
      BY <2>14, <3>1, <3>2
  <2>15. CASE Over
    BY <1>1, <1>3, <2>15 DEF PlaceInv, NoChunk, Over
  <2>16. QED
    BY <1>3, <2>1, <2>2, <2>3, <2>4, <2>5, <2>6, <2>7, <2>8, <2>9, <2>10,
       <2>11, <2>12, <2>13, <2>14, <2>15
    DEF Steps, Call, ChildRuns
<1>4. QED
  BY <1>2, <1>3 DEF Next, InWorld

LEMMA ChildStep == IInv /\ [Next]_vars => ChildInv'
<1> SUFFICES ASSUME IInv, [Next]_vars PROVE ChildInv'
  OBVIOUS
<1>1. TypeInv /\ PlaceInv /\ ChildInv
  BY DEF IInv
<1>2. CASE UNCHANGED vars
  BY <1>1, <1>2 DEF ChildInv, vars
<1>3. ASSUME Steps, UNCHANGED world PROVE ChildInv'
  <2>1. CASE Started \/ StartedInherit \/ NotStarted
    BY <1>1, <1>3, <2>1
    DEF ChildInv, TypeInv, PlaceInv, Started, StartedInherit, NotStarted, Runs
  <2>2. CASE Poll
    BY <1>1, <1>3, <2>2
    DEF ChildInv, TypeInv, PlaceInv, Poll
  <2>3. CASE TakeChunk
    BY <1>1, <1>3, <2>3
    DEF ChildInv, TypeInv, PlaceInv, TakeChunk, Looked, Least, Other
  <2>4. CASE CloseChannel
    BY <1>1, <1>3, <2>4
    DEF ChildInv, TypeInv, PlaceInv, CloseChannel, Looked, Other
  <2>5. CASE ReadFails \/ Give \/ GiveFails
    BY <1>1, <1>3, <2>5
    DEF ChildInv, TypeInv, PlaceInv, ReadFails, Give, GiveFails
  <2>6. CASE Drained \/ Wait \/ WaitFails
    BY <1>1, <1>3, <2>6
    DEF ChildInv, TypeInv, PlaceInv, Drained, Wait, WaitFails
  <2>7. CASE CloseFds \/ Free \/ Copy
    BY <1>1, <1>3, <2>7
    DEF ChildInv, TypeInv, PlaceInv, CloseFds, Free, Copy
  <2>8. CASE Kill
    BY <1>1, <1>3, <2>8
    DEF ChildInv, TypeInv, PlaceInv, Kill, Gone
  <2>9. CASE Reap
    BY <1>1, <1>3, <2>9
    DEF ChildInv, TypeInv, PlaceInv, Reap
  <2>10. ASSUME NEW ch \in Channels, ChildWrites(ch) PROVE ChildInv'
    BY <1>1, <1>3, <2>10
    DEF ChildInv, TypeInv, PlaceInv, ChildWrites
  <2>11. ASSUME NEW ch \in Channels, ChildBroken(ch) PROVE ChildInv'
    BY <1>1, <1>3, <2>11
    DEF ChildInv, TypeInv, PlaceInv, ChildBroken, Gone
  <2>12. ASSUME NEW ch \in Channels, ChildCloses(ch) PROVE ChildInv'
    BY <1>1, <1>3, <2>12
    DEF ChildInv, TypeInv, PlaceInv, ChildCloses
  <2>13. CASE ChildExits \/ ChildSignalled
    BY <1>1, <1>3, <2>13
    DEF ChildInv, TypeInv, PlaceInv, ChildExits, ChildSignalled, Gone
  <2>14. CASE ChildLeavesHeir \/ HeirEnds
    BY <1>1, <1>3, <2>14
    DEF ChildInv, TypeInv, PlaceInv, ChildLeavesHeir, HeirEnds
  <2>15. CASE Over
    BY <1>1, <1>3, <2>15 DEF ChildInv, Over
  <2>16. QED
    BY <1>3, <2>1, <2>2, <2>3, <2>4, <2>5, <2>6, <2>7, <2>8, <2>9, <2>10,
       <2>11, <2>12, <2>13, <2>14, <2>15
    DEF Steps, Call, ChildRuns
<1>4. QED
  BY <1>2, <1>3 DEF Next, InWorld

\* What the child and its heir do, beside the call.
Beside ==
  \/ \E ch \in Channels : ChildWrites(ch) \/ ChildBroken(ch) \/ ChildCloses(ch)
  \/ ChildExits \/ ChildSignalled \/ ChildLeavesHeir \/ HeirEnds

\* They take no readiness back.
LEMMA StillReadable ==
  ASSUME TypeInv, Beside, NEW ch \in Channels, Readable(ch)
  PROVE  Readable(ch)'
<1>1. fds' = fds /\ taken' = taken
  BY DEF Beside, ChildWrites, ChildBroken, ChildCloses, ChildExits,
         ChildSignalled, ChildLeavesHeir, HeirEnds
<1>2. wrote' \in [Channels -> Nat] /\ wrote'[ch] >= wrote[ch]
  BY DEF TypeInv, Beside, ChildWrites, ChildBroken, ChildCloses, ChildExits,
         ChildSignalled, ChildLeavesHeir, HeirEnds, Gone
<1>3. writers[ch] = {} => writers'[ch] = {}
  <2>1. CASE \E c \in Channels : ChildWrites(c)
    BY <2>1 DEF ChildWrites
  <2>2. CASE (\E c \in Channels : ChildBroken(c)) \/ ChildExits \/ ChildSignalled
    BY <2>2 DEF ChildBroken, ChildExits, ChildSignalled, Gone
  <2>3. CASE \E c \in Channels : ChildCloses(c)
    BY <2>3 DEF TypeInv, ChildCloses
  <2>4. CASE ChildLeavesHeir \/ HeirEnds
    BY <2>4 DEF ChildLeavesHeir, HeirEnds
  <2>5. QED
    BY <2>1, <2>2, <2>3, <2>4 DEF Beside
<1>4. wrote[ch] \in Nat /\ taken[ch] \in Nat
  BY DEF TypeInv
<1>5. QED
  BY <1>1, <1>2, <1>3, <1>4 DEF Readable

LEMMA ReadyStep == IInv /\ [Next]_vars => ReadyInv'
<1> SUFFICES ASSUME IInv, [Next]_vars PROVE ReadyInv'
  OBVIOUS
<1>1. TypeInv /\ PlaceInv /\ ChildInv /\ ReadyInv
  BY DEF IInv
<1>2. CASE UNCHANGED vars
  BY <1>1, <1>2 DEF ReadyInv, Readable, vars
<1>3. ASSUME Steps, UNCHANGED world PROVE ReadyInv'
  <2>1. CASE Started \/ StartedInherit \/ NotStarted
    BY <1>1, <1>3, <2>1
    DEF ReadyInv, TypeInv, PlaceInv, ChildInv, Readable, Started,
        StartedInherit, NotStarted, Runs
  <2>2. CASE Poll
    BY <1>1, <1>3, <2>2
    DEF ReadyInv, TypeInv, PlaceInv, ChildInv, Readable, Poll
  <2>3. CASE TakeChunk
    BY <1>1, <1>3, <2>3
    DEF ReadyInv, TypeInv, PlaceInv, ChildInv, Readable, TakeChunk, Looked,
        Least, Other
  <2>4. CASE CloseChannel
    BY <1>1, <1>3, <2>4
    DEF ReadyInv, TypeInv, PlaceInv, ChildInv, Readable, CloseChannel, Looked,
        Other
  <2>5. CASE ReadFails \/ Give \/ GiveFails
    BY <1>1, <1>3, <2>5
    DEF ReadyInv, TypeInv, PlaceInv, ChildInv, Readable, ReadFails, Give,
        GiveFails
  <2>6. CASE Drained \/ Wait \/ WaitFails
    BY <1>1, <1>3, <2>6
    DEF ReadyInv, TypeInv, PlaceInv, ChildInv, Readable, Drained, Wait,
        WaitFails
  <2>7. CASE CloseFds \/ Free \/ Copy
    BY <1>1, <1>3, <2>7
    DEF ReadyInv, TypeInv, PlaceInv, ChildInv, Readable, CloseFds, Free, Copy
  <2>8. CASE Kill
    BY <1>1, <1>3, <2>8
    DEF ReadyInv, TypeInv, PlaceInv, ChildInv, Readable, Kill, Gone
  <2>9. CASE Reap
    BY <1>1, <1>3, <2>9
    DEF ReadyInv, TypeInv, PlaceInv, ChildInv, Readable, Reap
  <2>10. CASE Beside
    <3>1. at' = at /\ ready' = ready
      BY <2>10 DEF Beside, ChildWrites, ChildBroken, ChildCloses, ChildExits,
                   ChildSignalled, ChildLeavesHeir, HeirEnds
    <3>2. QED
      BY <1>1, <2>10, <3>1, StillReadable DEF ReadyInv, TypeInv
  <2>11. CASE Over
    BY <1>1, <1>3, <2>11 DEF ReadyInv, Readable, Over
  <2>12. QED
    BY <1>3, <2>1, <2>2, <2>3, <2>4, <2>5, <2>6, <2>7, <2>8, <2>9, <2>10,
       <2>11
    DEF Steps, Call, ChildRuns, Beside
<1>4. QED
  BY <1>2, <1>3 DEF Next, InWorld

LEMMA BytesStep == IInv /\ [Next]_vars => BytesInv'
<1> SUFFICES ASSUME IInv, [Next]_vars PROVE BytesInv'
  OBVIOUS
<1>1. TypeInv /\ PlaceInv /\ ChildInv /\ ReadyInv /\ BytesInv
  BY DEF IInv
<1>2. CASE UNCHANGED vars
  BY <1>1, <1>2 DEF BytesInv, Well, InHand, NoChunk, vars
<1>3. ASSUME Steps, UNCHANGED world PROVE BytesInv'
  <2>1. CASE Started \/ StartedInherit \/ NotStarted
    BY <1>1, <1>3, <2>1
    DEF BytesInv, TypeInv, PlaceInv, ChildInv, ReadyInv, Well, InHand, NoChunk,
        Started, StartedInherit, NotStarted, Runs
  <2>2. CASE Poll
    BY <1>1, <1>3, <2>2
    DEF BytesInv, TypeInv, PlaceInv, ChildInv, ReadyInv, Well, InHand, NoChunk,
        Poll
  <2>3. CASE TakeChunk
    <3> DEFINE c == Looked
               n == Least(Chunk, wrote[c] - taken[c])
    <3>1. /\ at = "turn" /\ at' = "give" /\ result' = result /\ got' = got
          /\ wrote' = wrote /\ fds' = fds /\ c \in Channels
          /\ wrote[c] > taken[c] /\ chunk' = [ch |-> c, n |-> n]
          /\ \A ch \in Channels :
                taken'[ch] = IF ch = c THEN taken[ch] + n ELSE taken[ch]
      BY <1>1, <2>3 DEF TypeInv, TakeChunk, Looked, Other
    <3>2. n \in Nat /\ taken[c] + n <= wrote[c]
      BY <1>1, <3>1, ProcAssumption DEF TypeInv, Least
    <3>3. result = "none" /\ chunk = NoChunk
      BY <1>1, <3>1 DEF PlaceInv
    <3>4. c \in fds
      <4>1. c \notin fds => wrote[c] = taken[c]
        BY <1>1, <3>1 DEF BytesInv, Well
      <4>2. wrote[c] \in Nat /\ taken[c] \in Nat
        BY <1>1, <3>1 DEF TypeInv
      <4> HIDE DEF c
      <4>3. QED
        BY <3>1, <4>1, <4>2
    <3>5. \A ch \in Channels :
            /\ wrote[ch] \in Nat /\ taken[ch] \in Nat /\ got[ch] \in Nat
            /\ taken[ch] <= wrote[ch] /\ taken[ch] = got[ch]
      BY <1>1, <3>1, <3>3 DEF TypeInv, BytesInv, Well, InHand, NoChunk
    <3>6. \A ch \in Channels :
            /\ InHand(ch)' = IF ch = c THEN n ELSE 0
            /\ ch \notin fds => wrote[ch] = taken[ch]
      BY <1>1, <3>1 DEF InHand, BytesInv, Well
    <3> HIDE DEF c, n
    <3>7. \A ch \in Channels :
            /\ taken'[ch] <= wrote'[ch]
            /\ taken'[ch] = got'[ch] + InHand(ch)'
            /\ ch \notin fds' => wrote'[ch] = taken'[ch]
      BY <3>1, <3>2, <3>4, <3>5, <3>6
    <3>8. QED
      BY <3>1, <3>3, <3>7 DEF BytesInv
  <2>4. CASE CloseChannel
    BY <1>1, <1>3, <2>4
    DEF BytesInv, TypeInv, PlaceInv, ChildInv, ReadyInv, Well, InHand, NoChunk,
        CloseChannel, Looked, Other
  <2>5. CASE ReadFails \/ Give \/ GiveFails
    BY <1>1, <1>3, <2>5
    DEF BytesInv, TypeInv, PlaceInv, ChildInv, ReadyInv, Well, InHand, NoChunk,
        ReadFails, Give, GiveFails
  <2>6. CASE Drained \/ Wait \/ WaitFails
    BY <1>1, <1>3, <2>6
    DEF BytesInv, TypeInv, PlaceInv, ChildInv, ReadyInv, Well, InHand, NoChunk,
        Drained, Wait, WaitFails
  <2>7. CASE CloseFds \/ Free \/ Copy
    <3>1. CASE CloseFds
      BY <1>1, <1>3, <3>1 DEF BytesInv, TypeInv, PlaceInv, Well, InHand, NoChunk, CloseFds
    <3>2. CASE Free
      BY <1>1, <1>3, <3>2 DEF BytesInv, TypeInv, PlaceInv, Well, InHand, NoChunk, Free
    <3>3. CASE Copy
      BY <1>1, <1>3, <3>3 DEF BytesInv, TypeInv, PlaceInv, Well, InHand, NoChunk, Copy
    <3>4. QED
      BY <2>7, <3>1, <3>2, <3>3
  <2>8. CASE Kill
    BY <1>1, <1>3, <2>8
    DEF BytesInv, TypeInv, PlaceInv, ChildInv, ReadyInv, Well, InHand, NoChunk,
        Kill, Gone
  <2>9. CASE Reap
    BY <1>1, <1>3, <2>9
    DEF BytesInv, TypeInv, PlaceInv, ChildInv, ReadyInv, Well, InHand, NoChunk,
        Reap
  <2>10. ASSUME NEW ch \in Channels, ChildWrites(ch) PROVE BytesInv'
    BY <1>1, <1>3, <2>10
    DEF BytesInv, TypeInv, PlaceInv, ChildInv, ReadyInv, Well, InHand, NoChunk,
        ChildWrites
  <2>11. ASSUME NEW ch \in Channels, ChildBroken(ch) PROVE BytesInv'
    BY <1>1, <1>3, <2>11
    DEF BytesInv, TypeInv, PlaceInv, ChildInv, ReadyInv, Well, InHand, NoChunk,
        ChildBroken, Gone
  <2>12. ASSUME NEW ch \in Channels, ChildCloses(ch) PROVE BytesInv'
    BY <1>1, <1>3, <2>12
    DEF BytesInv, TypeInv, PlaceInv, ChildInv, ReadyInv, Well, InHand, NoChunk,
        ChildCloses
  <2>13. CASE ChildExits \/ ChildSignalled
    BY <1>1, <1>3, <2>13
    DEF BytesInv, TypeInv, PlaceInv, ChildInv, ReadyInv, Well, InHand, NoChunk,
        ChildExits, ChildSignalled, Gone
  <2>14. CASE ChildLeavesHeir \/ HeirEnds
    <3>1. CASE ChildLeavesHeir
      BY <1>1, <1>3, <3>1 DEF BytesInv, TypeInv, PlaceInv, Well, InHand, NoChunk,
              ChildLeavesHeir
    <3>2. CASE HeirEnds
      BY <1>1, <1>3, <3>2 DEF BytesInv, TypeInv, PlaceInv, Well, InHand, NoChunk, HeirEnds
    <3>3. QED
      BY <2>14, <3>1, <3>2
  <2>15. CASE Over
    BY <1>1, <1>3, <2>15 DEF BytesInv, Well, InHand, NoChunk, Over
  <2>16. QED
    BY <1>3, <2>1, <2>2, <2>3, <2>4, <2>5, <2>6, <2>7, <2>8, <2>9, <2>10,
       <2>11, <2>12, <2>13, <2>14, <2>15
    DEF Steps, Call, ChildRuns
<1>4. QED
  BY <1>2, <1>3 DEF Next, InWorld

LEMMA TurnStep == IInv /\ [Next]_vars => TurnInv'
<1> SUFFICES ASSUME IInv, [Next]_vars PROVE TurnInv'
  OBVIOUS
<1>1. TypeInv /\ PlaceInv /\ ReadyInv /\ BytesInv /\ TurnInv
  BY DEF IInv
<1>2. CASE UNCHANGED vars
  BY <1>1, <1>2 DEF TurnInv, Readable, vars
<1>3. ASSUME Steps, UNCHANGED world PROVE TurnInv'
  <2>1. CASE Started \/ StartedInherit \/ NotStarted
    <3>1. CASE Started
      BY <1>1, <1>3, <3>1 DEF TurnInv, TypeInv, PlaceInv, Readable, Started, Runs, Zero
    <3>2. CASE StartedInherit
      BY <1>1, <1>3, <3>2 DEF TurnInv, TypeInv, PlaceInv, Readable, StartedInherit,
              Runs, Zero
    <3>3. CASE NotStarted
      BY <1>1, <1>3, <3>3 DEF TurnInv, TypeInv, PlaceInv, Readable, NotStarted
    <3>4. QED
      BY <2>1, <3>1, <3>2, <3>3
  <2>2. CASE Poll
    BY <1>1, <1>3, <2>2
    DEF TurnInv, TypeInv, PlaceInv, ReadyInv, BytesInv, Readable, Poll
  <2>3. CASE TakeChunk
    BY <1>1, <1>3, <2>3
    DEF TurnInv, TypeInv, PlaceInv, ReadyInv, BytesInv, Readable, TakeChunk,
        Looked, Least, Other
  <2>4. CASE CloseChannel
    BY <1>1, <1>3, <2>4
    DEF TurnInv, TypeInv, PlaceInv, ReadyInv, BytesInv, Readable, CloseChannel,
        Looked, Other
  <2>5. CASE ReadFails \/ Give \/ GiveFails
    BY <1>1, <1>3, <2>5
    DEF TurnInv, TypeInv, PlaceInv, ReadyInv, BytesInv, Readable, ReadFails,
        Give, GiveFails
  <2>6. CASE Drained \/ Wait \/ WaitFails
    BY <1>1, <1>3, <2>6
    DEF TurnInv, TypeInv, PlaceInv, ReadyInv, BytesInv, Readable, Drained,
        Wait, WaitFails
  <2>7. CASE CloseFds \/ Free \/ Copy
    BY <1>1, <1>3, <2>7
    DEF TurnInv, TypeInv, PlaceInv, ReadyInv, BytesInv, Readable, CloseFds,
        Free, Copy
  <2>8. CASE Kill
    BY <1>1, <1>3, <2>8
    DEF TurnInv, TypeInv, PlaceInv, ReadyInv, BytesInv, Readable, Kill, Gone
  <2>9. CASE Reap
    BY <1>1, <1>3, <2>9
    DEF TurnInv, TypeInv, PlaceInv, ReadyInv, BytesInv, Readable, Reap
  <2>10. CASE Beside
    <3>1. at' = at /\ ready' = ready /\ next' = next /\ passed' = passed
      BY <2>10 DEF Beside, ChildWrites, ChildBroken, ChildCloses, ChildExits,
                   ChildSignalled, ChildLeavesHeir, HeirEnds
    <3>2. QED
      BY <1>1, <2>10, <3>1, StillReadable DEF TurnInv
  <2>11. CASE Over
    BY <1>1, <1>3, <2>11 DEF TurnInv, Readable, Over
  <2>12. QED
    BY <1>3, <2>1, <2>2, <2>3, <2>4, <2>5, <2>6, <2>7, <2>8, <2>9, <2>10,
       <2>11
    DEF Steps, Call, ChildRuns, Beside
<1>4. QED
  BY <1>2, <1>3 DEF Next, InWorld

-----------------------------------------------------------------------------
(* The theorems.                                                           *)

LEMMA IInvInit == Init => IInv
<1> SUFFICES ASSUME Init PROVE IInv
  OBVIOUS
<1>1. plan \in [Channels -> Nat]
  BY ProcAssumption DEF Init
<1>2. TypeInv
  BY <1>1 DEF Init, TypeInv, Places, NoChunk, Zero
<1>3. PlaceInv /\ ChildInv /\ ReadyInv
  BY DEF Init, PlaceInv, ChildInv, ReadyInv, NoChunk, NoStatus
<1>4. BytesInv /\ TurnInv
  BY DEF Init, BytesInv, TurnInv, Well, InHand, NoChunk, Zero
<1>5. QED
  BY <1>2, <1>3, <1>4 DEF IInv

\* Every reachable state satisfies the inductive invariant.
THEOREM Invariance == Spec => []IInv
<1>1. IInv /\ [Next]_vars => IInv'
  BY TypeStep, PlaceStep, ChildStep, ReadyStep, BytesStep, TurnStep DEF IInv
<1>2. QED
  BY <1>1, IInvInit, PTL DEF Spec

\* A call that returns Ok has handed over every byte the child wrote to either
\* channel, and the code of the child's own end, for pipes and reads of any
\* size (run_captured, run_argv_into).
THEOREM OkIsWhole == Spec => []WholeOnSuccess
<1>1. IInv => WholeOnSuccess
  <2> SUFFICES ASSUME IInv, at = "done", result = "Ok"
               PROVE  /\ got = wrote /\ code = ExitCode(status)
                      /\ status.how = "exit" => got = plan
    BY DEF WholeOnSuccess
  <2>1. /\ code = ExitCode(status) /\ fds = {} /\ chunk = NoChunk
        /\ status.how = "exit" => wrote = plan
    BY DEF IInv, BytesInv, PlaceInv, ChildInv
  <2>2. got \in [Channels -> Nat] /\ wrote \in [Channels -> Nat]
    BY DEF IInv, TypeInv
  <2>3. \A ch \in Channels : got[ch] = wrote[ch]
    BY <2>1, <2>2 DEF IInv, BytesInv, Well, InHand, NoChunk
  <2>4. got = wrote
    BY <2>2, <2>3
  <2>5. QED
    BY <2>1, <2>4
<1>2. QED
  BY <1>1, Invariance, PTL

\* However the call ends, the child has been reaped, no descriptor of the call
\* is open and no capture buffer is left (the `done' labels, the deferred close).
THEOREM CleanUp == Spec => []NothingLeft
<1>1. IInv => NothingLeft
  BY DEF IInv, PlaceInv, ChildInv, NothingLeft
<1>2. QED
  BY <1>1, Invariance, PTL

\* The clean-up never signals a child that was reaped (s->pid = -1 after the
\* wait), unless the process ignores SIGCHLD.
THEOREM KillsItsOwn == Spec => []NoStrayKill
<1>1. IInv => NoStrayKill
  BY DEF IInv, PlaceInv, ChildInv, NoStrayKill
<1>2. QED
  BY <1>1, Invariance, PTL

\* A channel with something to read waits for one chunk of the other channel
\* at most, however much the child writes (s->next).
THEOREM TurnsAlternate == Spec => []FairDrain
<1>1. IInv => FairDrain
  <2> SUFFICES ASSUME IInv, NEW ch \in Channels PROVE passed[ch] <= 1
    BY DEF FairDrain
  <2>1. passed[ch] = 0 \/ passed[ch] = 1
    BY DEF IInv, TurnInv
  <2>2. QED
    BY <2>1
<1>2. QED
  BY <1>1, Invariance, PTL
=============================================================================
