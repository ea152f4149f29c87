----------------------- MODULE BootstrapBuild_proofs -----------------------
(***************************************************************************)
(* The incremental bootstrap never takes a stale compiler for a current    *)
(* one, for any number of edits, crashes, failures and damaged artifacts,  *)
(* as long as a file that is edited during a build does not get its old    *)
(* content back before that build looks at it again.                       *)
(***************************************************************************)
EXTENDS BootstrapBuild, TLAPS

USE DEF locals, ours

-----------------------------------------------------------------------------
(* The inductive invariant.                                                *)

Places == {"idle", "scan", "check", "seed", "seed done", "boot", "emit", "copy",
           "gen", "gen done", "next", "rescan", "publish", "save"}
Seeds    == Nat \cup {None, Torn}
Contents == Seeds \cup (Seeds \X Nat)
Disks    == [seedTmp : Seeds, seedObj : Seeds, boot : Seeds, gen : Contents,
             genTmp : Contents, genObj : Contents, next : Contents]
Objects  == [src : Contents, o : Contents]
Tables   == [seed : Objects, gen : Objects]

\* A process reads a seed to make an object or a compiler of it.
JobOK(c) == /\ c \in [job : Jobs \cup {"none"}, got : Contents]
            /\ c.job \in {"seed", "boot"} => c.got \in Seeds

TypeInv ==
  /\ src \in [Files -> Nat] /\ inputs \in [Files -> Nat \cup {None}]
  /\ disk \in Disks /\ at \in Places
  /\ objs \in Tables /\ emitted \in Contents
  /\ JobOK(child) /\ JobOK(orphan)
  /\ state # None => state.objs \in Tables
  /\ prev # None => prev.objs \in Tables

\* Where a build is, beside whom, and what it has read of the sources.
BuildInv ==
  /\ at # "idle" => orphan = NoChild /\ result = "none"
  /\ child # NoChild => child.job = at
  /\ at \in {"scan", "check"} => memo = None
  /\ at = "scan" => \A f \in Files :
       inputs[f] # None => inputs[f] \in Nat /\ inputs[f] <= src[f]
  /\ at \notin {"idle", "scan"} => \A f \in Files :
       inputs[f] \in Nat /\ inputs[f] <= src[f]

\* A saved state records one build: its inputs, and what was made of them.
Made(o) == o.o = o.src
Good(p) ==
  /\ Made(p.objs.seed) /\ Made(p.objs.gen)
  /\ p.gen = Clean(p.inputs) /\ p.output = Clean(p.inputs)

SavedInv ==
  /\ state # None => Good(state)
  /\ at # "idle" /\ prev # None => Good(prev)

\* The stages a build has behind it.
SeedMade == {"boot", "emit", "copy", "gen", "gen done", "next", "rescan",
             "publish", "save"}
BootMade == SeedMade \ {"boot"}
GenMade  == BootMade \ {"emit", "copy"}
ObjMade  == GenMade \ {"gen", "gen done"}
NextMade == ObjMade \ {"next"}

\* Versions only rise during a build: as long as the sources are what the
\* build scanned, whatever it has read of them since is too.
Steady == at \notin {"idle", "scan"} /\ inputs = src
Sure   == Steady \/ at \in {"publish", "save"}

SeedStage ==
  /\ memo # None => memo = inputs.seed
  /\ child.job = "seed" /\ child.got # None => child.got = inputs.seed
  /\ at = "seed done" => disk.seedTmp = inputs.seed
  /\ at \in SeedMade => disk.seedObj = inputs.seed /\ Made(objs.seed)
  /\ child.job = "boot" /\ child.got # None => child.got = inputs.seed
  /\ at \in BootMade => disk.boot = inputs.seed
GenStage ==
  /\ child.job = "emit" /\ child.got # None => child.got = Clean(inputs)
  /\ at = "copy" => emitted = Clean(inputs)
  /\ at \in GenMade => disk.gen = Clean(inputs)
  /\ child.job = "gen" /\ child.got # None => child.got = Clean(inputs)
  /\ at = "gen done" => disk.genTmp = Clean(inputs)
  /\ at \in ObjMade => disk.genObj = Clean(inputs) /\ Made(objs.gen)
  /\ child.job = "next" /\ child.got # None => child.got = Clean(inputs)
  /\ at \in NextMade => disk.next = Clean(inputs)
StageInv == Sure => SeedStage /\ GenStage

OutputInv ==
  /\ at = "save" => output = disk.next
  /\ BuiltMeansClean

IInv == TypeInv /\ BuildInv /\ SavedInv /\ StageInv /\ OutputInv

-----------------------------------------------------------------------------
(* Records.                                                                *)

LEMMA SeedSet ==
  /\ None \in Seeds /\ Torn \in Seeds /\ Nat \subseteq Seeds
  /\ Seeds \subseteq Contents
  /\ \A s \in Seeds, n \in Nat : <<s, n>> \in Contents
  BY DEF Seeds, Contents

\* Field by field, what a disk holds.
Holds(d, seedTmp, seedObj, boot, gen, genTmp, genObj, next) ==
  /\ d \in Disks
  /\ d.seedTmp = seedTmp /\ d.seedObj = seedObj /\ d.boot = boot
  /\ d.gen = gen /\ d.genTmp = genTmp /\ d.genObj = genObj /\ d.next = next

LEMMA DiskFields ==
  ASSUME NEW d \in Disks
  PROVE  /\ d.seedTmp \in Seeds /\ d.seedObj \in Seeds /\ d.boot \in Seeds
         /\ d.gen \in Contents /\ d.genTmp \in Contents
         /\ d.genObj \in Contents /\ d.next \in Contents
  BY DEF Disks

LEMMA DiskPut ==
  ASSUME NEW d \in Disks, NEW s \in Seeds, NEW c \in Contents
  PROVE  /\ Holds([d EXCEPT !.seedTmp = s],
                  s, d.seedObj, d.boot, d.gen, d.genTmp, d.genObj, d.next)
         /\ Holds([d EXCEPT !.boot = s],
                  d.seedTmp, d.seedObj, s, d.gen, d.genTmp, d.genObj, d.next)
         /\ Holds([d EXCEPT !.gen = c],
                  d.seedTmp, d.seedObj, d.boot, c, d.genTmp, d.genObj, d.next)
         /\ Holds([d EXCEPT !.genTmp = c],
                  d.seedTmp, d.seedObj, d.boot, d.gen, c, d.genObj, d.next)
         /\ Holds([d EXCEPT !.next = c],
                  d.seedTmp, d.seedObj, d.boot, d.gen, d.genTmp, d.genObj, c)
<1>1. Holds([d EXCEPT !.seedTmp = s],
            s, d.seedObj, d.boot, d.gen, d.genTmp, d.genObj, d.next)
  BY DEF Holds, Disks
<1>2. Holds([d EXCEPT !.boot = s],
            d.seedTmp, d.seedObj, s, d.gen, d.genTmp, d.genObj, d.next)
  BY DEF Holds, Disks
<1>3. Holds([d EXCEPT !.gen = c],
            d.seedTmp, d.seedObj, d.boot, c, d.genTmp, d.genObj, d.next)
  BY DEF Holds, Disks
<1>4. Holds([d EXCEPT !.genTmp = c],
            d.seedTmp, d.seedObj, d.boot, d.gen, c, d.genObj, d.next)
  BY DEF Holds, Disks
<1>5. Holds([d EXCEPT !.next = c],
            d.seedTmp, d.seedObj, d.boot, d.gen, d.genTmp, d.genObj, c)
  BY DEF Holds, Disks
<1>6. QED
  BY <1>1, <1>2, <1>3, <1>4, <1>5

LEMMA DiskMove ==
  ASSUME NEW d \in Disks
  PROVE  /\ Holds([d EXCEPT !.seedObj = d.seedTmp, !.seedTmp = None],
                  None, d.seedTmp, d.boot, d.gen, d.genTmp, d.genObj, d.next)
         /\ Holds([d EXCEPT !.genObj = d.genTmp, !.genTmp = None],
                  d.seedTmp, d.seedObj, d.boot, d.gen, None, d.genTmp, d.next)
<1>1. Holds([d EXCEPT !.seedObj = d.seedTmp, !.seedTmp = None],
            None, d.seedTmp, d.boot, d.gen, d.genTmp, d.genObj, d.next)
  BY SeedSet DEF Holds, Disks
<1>2. Holds([d EXCEPT !.genObj = d.genTmp, !.genTmp = None],
            d.seedTmp, d.seedObj, d.boot, d.gen, None, d.genTmp, d.next)
  BY SeedSet DEF Holds, Disks
<1>3. QED
  BY <1>1, <1>2

LEMMA DiskDamage ==
  ASSUME NEW d \in Disks, NEW c \in {None, Torn},
         NEW a \in {"seedObj", "gen", "genObj"}
  PROVE  [d EXCEPT ![a] = c] \in Disks
<1>1. [d EXCEPT !["seedObj"] = c] \in Disks
  BY SeedSet DEF Disks
<1>2. [d EXCEPT !["gen"] = c] \in Disks
  BY SeedSet DEF Disks
<1>3. [d EXCEPT !["genObj"] = c] \in Disks
  BY SeedSet DEF Disks
<1>4. QED
  BY <1>1, <1>2, <1>3

LEMMA TableFields ==
  ASSUME NEW t \in Tables
  PROVE  t.seed \in Objects /\ t.gen \in Objects
  BY DEF Tables

LEMMA TablePut ==
  ASSUME NEW t \in Tables, NEW o \in Objects
  PROVE  /\ [t EXCEPT !.seed = o] \in Tables
         /\ [t EXCEPT !.seed = o].seed = o
         /\ [t EXCEPT !.seed = o].gen = t.gen
         /\ [t EXCEPT !.gen = o] \in Tables
         /\ [t EXCEPT !.gen = o].gen = o
         /\ [t EXCEPT !.gen = o].seed = t.seed
  BY DEF Tables

LEMMA ObjectOf ==
  ASSUME NEW a \in Contents, NEW b \in Contents
  PROVE  [src |-> a, o |-> b] \in Objects
  BY DEF Objects

LEMMA JobFacts ==
  ASSUME NEW c, JobOK(c)
  PROVE  /\ c.job \in Jobs \cup {"none"} /\ c.got \in Contents
         /\ c.job \in {"seed", "boot"} => c.got \in Seeds
  BY DEF JobOK

LEMMA JobStarted ==
  ASSUME NEW job \in Jobs
  PROVE  JobOK([job |-> job, got |-> None])
  BY SeedSet DEF JobOK

LEMMA JobGot ==
  ASSUME NEW c, JobOK(c), NEW g \in Contents,
         c.job \in {"seed", "boot"} => g \in Seeds
  PROVE  /\ JobOK([c EXCEPT !.got = g])
         /\ [c EXCEPT !.got = g].job = c.job
         /\ [c EXCEPT !.got = g].got = g
  BY DEF JobOK

LEMMA NoJob ==
  /\ JobOK(NoChild) /\ NoChild.job = "none" /\ NoChild.got = None
  BY SeedSet DEF JobOK, NoChild

LEMMA ReadType ==
  ASSUME TypeInv, NEW job \in Jobs
  PROVE  /\ Read(job) \in Contents
         /\ job \in {"seed", "boot"} => Read(job) \in Seeds
<1>1. src.seed \in Nat /\ src.zen \in Nat /\ disk \in Disks
  BY DEF TypeInv, Files
<1>2. QED
  BY <1>1, SeedSet, DiskFields DEF Read, Jobs

LEMMA WrittenType ==
  ASSUME TypeInv, NEW c, JobOK(c), c.job \in Jobs
  PROVE  Written(c.job, c.got) \in Disks
<1>1. disk \in Disks
  BY DEF TypeInv
<1>2. c.got \in Contents /\ (c.job \in {"seed", "boot"} => c.got \in Seeds)
  BY JobFacts
<1>3. CASE c.job \in {"seed", "boot"}
  BY <1>1, <1>2, <1>3, DiskPut DEF Written, Holds
<1>4. CASE c.job \in {"emit", "gen", "next"}
  BY <1>1, <1>2, <1>4, DiskPut, SeedSet DEF Written, Holds
<1>5. QED
  BY <1>3, <1>4 DEF Jobs

-----------------------------------------------------------------------------
(* Steps.                                                                  *)

LEMMA TypeStep == IInv /\ [Next]_vars => TypeInv'
<1> SUFFICES ASSUME IInv, [Next]_vars PROVE TypeInv'
  OBVIOUS
<1>1. TypeInv /\ BuildInv
  BY DEF IInv
<1>2. /\ src \in [Files -> Nat] /\ inputs \in [Files -> Nat \cup {None}]
      /\ disk \in Disks /\ at \in Places
      /\ objs \in Tables /\ emitted \in Contents
      /\ JobOK(child) /\ JobOK(orphan)
      /\ state # None => state.objs \in Tables
      /\ prev # None => prev.objs \in Tables
  BY <1>1 DEF TypeInv
<1>3. CASE Begins
  <2>1. NoObject \in Objects
    BY SeedSet, ObjectOf DEF NoObject
  <2>2. NoObjects \in Tables
    BY <2>1 DEF NoObjects, Tables
  <2>3. Unread \in [Files -> Nat \cup {None}] /\ None \in Contents
    BY SeedSet DEF Unread
  <2>4. QED
    BY <1>2, <1>3, <2>2, <2>3 DEF TypeInv, Begins, Places
<1>4. ASSUME NEW f \in Files, Scans(f) PROVE TypeInv'
  BY <1>2, <1>4 DEF TypeInv, Scans, Places
<1>5. CASE Checks
  BY <1>2, <1>5 DEF TypeInv, Checks, Ends, Places
<1>6. CASE SeedDone
  <2>1. [src |-> src.seed, o |-> disk.seedTmp] \in Objects
    BY <1>2, SeedSet, DiskFields, ObjectOf DEF Files
  <2>2. objs' \in Tables
    BY <1>2, <1>6, <2>1, TablePut DEF SeedDone
  <2>3. disk' \in Disks
    BY <1>2, <1>6, DiskMove DEF SeedDone, Holds
  <2>4. QED
    BY <1>2, <1>6, <2>2, <2>3 DEF TypeInv, SeedDone, Places
<1>7. CASE GenDone
  <2>1. [src |-> disk.gen, o |-> disk.genTmp] \in Objects
    BY <1>2, DiskFields, ObjectOf
  <2>2. objs' \in Tables
    BY <1>2, <1>7, <2>1, TablePut DEF GenDone
  <2>3. disk' \in Disks
    BY <1>2, <1>7, DiskMove DEF GenDone, Holds
  <2>4. QED
    BY <1>2, <1>7, <2>2, <2>3 DEF TypeInv, GenDone, Places
<1>8. CASE Copies
  <2>1. /\ [disk EXCEPT !.gen = emitted] \in Disks
        /\ [disk EXCEPT !.gen = Torn] \in Disks
    BY <1>2, SeedSet, DiskPut DEF Holds
  <2>2. QED
    BY <1>2, <1>8, <2>1 DEF TypeInv, Copies, Places
<1>9. CASE Rescans \/ Publishes
  BY <1>2, <1>9 DEF TypeInv, Rescans, Publishes, Ends, Places
<1>10. CASE Saves
  <2>1. state' = state \/ state'.objs = objs
    BY <1>10 DEF Saves, Saved
  <2>2. QED
    BY <1>2, <1>10, <2>1 DEF TypeInv, Saves, Ends, Places
<1>11. ASSUME NEW job \in Jobs, Keeps(job) PROVE TypeInv'
  <2>1. job \in {"seed", "gen"} => prev # None
    BY <1>11 DEF Keeps, Kept, SeedKept, GenKept
  <2>2. CASE job = "seed"
    <3>1. objs' = [objs EXCEPT !.seed = prev.objs.seed]
      BY <1>11, <2>2 DEF Keeps
    <3>2. prev.objs.seed \in Objects
      BY <1>2, <2>1, <2>2, TableFields
    <3>3. objs' \in Tables
      BY <1>2, <3>1, <3>2, TablePut
    <3>4. QED
      BY <1>2, <1>11, <2>2, <3>3 DEF TypeInv, Keeps, After, Places
  <2>3. CASE job = "gen"
    <3>1. objs' = [objs EXCEPT !.gen = prev.objs.gen]
      BY <1>11, <2>3 DEF Keeps
    <3>2. prev.objs.gen \in Objects
      BY <1>2, <2>1, <2>3, TableFields
    <3>3. objs' \in Tables
      BY <1>2, <3>1, <3>2, TablePut
    <3>4. QED
      BY <1>2, <1>11, <2>3, <3>3 DEF TypeInv, Keeps, After, Places
  <2>4. CASE job = "emit"
    BY <1>2, <1>11, <2>4 DEF TypeInv, Keeps, Places
  <2>5. QED
    BY <1>11, <2>2, <2>3, <2>4 DEF Keeps, Kept
<1>12. ASSUME NEW job \in Jobs, Starts(job) PROVE TypeInv'
  BY <1>2, <1>12, JobStarted DEF TypeInv, Starts
<1>13. CASE ChildReads
  <2>1. JobOK(child')
    BY <1>1, <1>2, <1>13, ReadType, JobGot DEF ChildReads
  <2>2. QED
    BY <1>2, <1>13, <2>1 DEF TypeInv, ChildReads
<1>14. CASE ChildEnds
  <2>1. disk' \in Disks /\ child.got \in Contents /\ child.job \in Jobs
    BY <1>1, <1>2, <1>14, WrittenType, JobFacts DEF ChildEnds
  <2>2. at' \in Places
    BY <1>14, <2>1 DEF ChildEnds, Jobs, Done, After, Places
  <2>3. QED
    BY <1>2, <1>14, <2>1, <2>2, NoJob DEF TypeInv, ChildEnds
<1>15. CASE ChildFails
  BY <1>2, <1>15, NoJob DEF TypeInv, ChildFails, Ends, Places
<1>16. CASE Crashes
  BY <1>2, <1>16, NoJob DEF TypeInv, Crashes, Places
<1>17. CASE OrphanReads
  <2>1. JobOK(orphan')
    BY <1>1, <1>2, <1>17, ReadType, JobGot DEF OrphanReads
  <2>2. QED
    BY <1>2, <1>17, <2>1 DEF TypeInv, OrphanReads
<1>18. CASE OrphanEnds
  <2>1. disk' \in Disks
    BY <1>1, <1>2, <1>18, WrittenType DEF OrphanEnds
  <2>2. QED
    BY <1>2, <1>18, <2>1, NoJob DEF TypeInv, OrphanEnds
<1>19. CASE Damages
  <2>1. disk' \in Disks
    BY <1>2, <1>19, DiskDamage DEF Damages
  <2>2. QED
    BY <1>2, <1>19, <2>1 DEF TypeInv, Damages
<1>20. ASSUME NEW f \in Files, Edits(f) \/ Reverts(f) PROVE TypeInv'
  BY <1>2, <1>20 DEF TypeInv, Edits, Reverts
<1>21. CASE UNCHANGED vars
  BY <1>2, <1>21 DEF TypeInv, vars
<1>22. QED
  BY <1>3, <1>4, <1>5, <1>6, <1>7, <1>8, <1>9, <1>10, <1>11, <1>12, <1>13,
     <1>14, <1>15, <1>16, <1>17, <1>18, <1>19, <1>20, <1>21
  DEF Next, Works

\* Only a file that is being scanned for the first time is read again.
LEMMA EditRaises ==
  ASSUME TypeInv, BuildInv, ~Whenever,
         NEW f \in Files, Edits(f) \/ (Reverts(f) /\ at # "idle")
  PROVE  /\ \A g \in Files : src'[g] \in Nat /\ src[g] <= src'[g]
         /\ at \notin {"idle", "scan"} => inputs # src'
<1>1. Edits(f)
  BY DEF Reverts
<1>2. src \in [Files -> Nat] /\ src' = [src EXCEPT ![f] = @ + 1]
  BY <1>1 DEF TypeInv, Edits
<1>3. \A g \in Files : src'[g] = IF g = f THEN src[g] + 1 ELSE src[g]
  BY <1>2
<1>4. at \notin {"idle", "scan"} => inputs[f] \in Nat /\ inputs[f] <= src[f]
  BY DEF BuildInv
<1>5. QED
  BY <1>2, <1>3, <1>4

LEMMA BuildStep == ~Whenever /\ IInv /\ [Next]_vars => BuildInv'
<1> SUFFICES ASSUME ~Whenever, IInv, [Next]_vars PROVE BuildInv'
  OBVIOUS
<1>1. TypeInv /\ BuildInv
  BY DEF IInv
<1>2. /\ src \in [Files -> Nat] /\ inputs \in [Files -> Nat \cup {None}]
      /\ JobOK(child) /\ JobOK(orphan)
  BY <1>1 DEF TypeInv
<1>3. CASE Begins
  <2>1. child = NoChild
    BY <1>1, <1>2, <1>3, JobFacts DEF BuildInv, Begins, LockFree, Jobs
  <2>2. /\ at' = "scan" /\ memo' = None /\ child' = child /\ orphan' = NoChild
        /\ result' = "none" /\ \A f \in Files : inputs'[f] = None
    BY <1>3 DEF Begins, LockFree, Unread
  <2>3. QED
    BY <1>3, <2>1, <2>2 DEF BuildInv, Begins, LockFree
<1>4. ASSUME NEW f \in Files, Scans(f) PROVE BuildInv'
  <2>1. child = NoChild /\ memo = None /\ orphan = NoChild /\ result = "none"
    BY <1>1, <1>2, <1>4, JobFacts DEF BuildInv, Scans, Jobs
  <2>2. /\ UNCHANGED <<src, child, orphan, result, memo>>
        /\ at' = IF \A g \in Files \ {f} : inputs[g] # None
                   THEN "check" ELSE "scan"
        /\ \A g \in Files : inputs'[g] = IF g = f THEN src[g] ELSE inputs[g]
    BY <1>2, <1>4 DEF Scans
  <2>3. \A g \in Files : inputs[g] # None =>
          inputs[g] \in Nat /\ inputs[g] <= src[g]
    BY <1>1, <1>4 DEF BuildInv, Scans
  <2>4. \A g \in Files : src[g] \in Nat
    BY <1>2
  <2>5. QED
    BY <2>1, <2>2, <2>3, <2>4 DEF BuildInv
<1>5. CASE Checks
  <2>1. child = NoChild
    BY <1>1, <1>2, <1>5, JobFacts DEF BuildInv, Checks, Jobs
  <2>2. QED
    BY <1>1, <1>5, <2>1 DEF BuildInv, Checks, Ends
<1>6. CASE SeedDone \/ GenDone \/ Copies \/ Rescans \/ Publishes \/ Saves
  <2>1. child = NoChild
    BY <1>1, <1>2, <1>6, JobFacts
    DEF BuildInv, SeedDone, GenDone, Copies, Rescans, Publishes, Saves, Jobs
  <2>2. UNCHANGED <<src, inputs, memo, child, orphan>>
    BY <1>6, <2>1
    DEF SeedDone, GenDone, Copies, Rescans, Publishes, Saves, Ends
  <2>3. at \notin {"idle", "scan"} /\ at' \notin {"scan", "check"}
    BY <1>6, <2>1
    DEF SeedDone, GenDone, Copies, Rescans, Publishes, Saves, Ends
  <2>4. at' # "idle" => result' = result
    BY <1>6, <2>1
    DEF SeedDone, GenDone, Copies, Rescans, Publishes, Saves, Ends
  <2>5. QED
    BY <1>1, <2>1, <2>2, <2>3, <2>4 DEF BuildInv
<1>7. ASSUME NEW job \in Jobs, Keeps(job) \/ Starts(job) PROVE BuildInv'
  <2>1. UNCHANGED <<src, inputs, orphan, result>> /\ at = job /\ child = NoChild
    BY <1>7 DEF Keeps, Starts
  <2>2. at \notin {"idle", "scan", "check"}
    BY <2>1 DEF Jobs
  <2>3. at' \notin {"idle", "scan", "check"}
    BY <1>7, <2>1, <2>2 DEF Keeps, Starts, After, Jobs
  <2>4. child' = NoChild \/ (child'.job = at' /\ at' = at)
    BY <1>7, <2>1 DEF Keeps, Starts
  <2>5. QED
    BY <1>1, <2>1, <2>2, <2>3, <2>4 DEF BuildInv
<1>8. CASE ChildReads
  <2>1. child # NoChild /\ UNCHANGED <<src, inputs, at, memo, orphan, result>>
    BY <1>8, NoJob DEF ChildReads, Jobs
  <2>2. child'.job = child.job
    <3>1. child' = [child EXCEPT !.got = Read(child.job)] /\ child.job \in Jobs
      BY <1>8 DEF ChildReads
    <3>2. QED
      BY <1>1, <1>2, <3>1, ReadType, JobGot
  <2>3. QED
    BY <1>1, <2>1, <2>2 DEF BuildInv
<1>9. CASE ChildEnds
  <2>1. child # NoChild /\ child.job \in Jobs /\ child' = NoChild
    BY <1>9, NoJob DEF ChildEnds, Jobs
  <2>2. at = child.job
    BY <1>1, <2>1 DEF BuildInv
  <2>3. /\ at \notin {"idle", "scan", "check"}
        /\ at' \notin {"idle", "scan", "check"}
    BY <1>9, <2>1, <2>2 DEF ChildEnds, Done, After, Jobs
  <2>4. QED
    BY <1>1, <1>9, <2>1, <2>3 DEF BuildInv, ChildEnds
<1>10. CASE ChildFails \/ Crashes \/ Damages
  <2>1. at' = "idle" /\ (child' = NoChild \/ (at = "idle" /\ child' = child))
    BY <1>10 DEF ChildFails, Crashes, Damages, Ends
  <2>2. child' = NoChild
    BY <1>1, <1>2, <2>1, JobFacts DEF BuildInv, Jobs
  <2>3. QED
    BY <2>1, <2>2 DEF BuildInv
<1>11. CASE OrphanReads \/ OrphanEnds
  <2>1. at = "idle"
    BY <1>1, <1>11, NoJob DEF BuildInv, OrphanReads, OrphanEnds, Jobs
  <2>2. QED
    BY <1>1, <1>11, <2>1 DEF BuildInv, OrphanReads, OrphanEnds
<1>12. ASSUME NEW f \in Files, Edits(f) \/ Reverts(f) PROVE BuildInv'
  <2>1. UNCHANGED <<inputs, at, memo, child, orphan, result>>
    BY <1>12 DEF Edits, Reverts
  <2>2. CASE at = "idle"
    BY <1>1, <2>1, <2>2 DEF BuildInv
  <2>3. CASE at # "idle"
    <3>1. \A g \in Files : src'[g] \in Nat /\ src[g] <= src'[g]
      BY <1>1, <1>12, <2>3, EditRaises
    <3>2. \A g \in Files : src[g] \in Nat
      BY <1>2
    <3>3. QED
      BY <1>1, <2>1, <3>1, <3>2 DEF BuildInv
  <2>4. QED
    BY <2>2, <2>3
<1>13. CASE UNCHANGED vars
  BY <1>1, <1>13 DEF BuildInv, vars
<1>14. QED
  BY <1>3, <1>4, <1>5, <1>6, <1>7, <1>8, <1>9, <1>10, <1>11, <1>12, <1>13
  DEF Next, Works

LEMMA SavedStep == IInv /\ [Next]_vars => SavedInv'
<1> SUFFICES ASSUME IInv, [Next]_vars PROVE SavedInv'
  OBVIOUS
<1>1. SavedInv
  BY DEF IInv
<1>2. CASE Saves
  <2>1. Good(Saved)
    <3>1. at = "save"
      BY <1>2 DEF Saves
    <3>2. SeedStage /\ GenStage
      BY <3>1 DEF IInv, StageInv, Sure
    <3>3. /\ Made(objs.seed) /\ Made(objs.gen)
          /\ disk.gen = Clean(inputs) /\ disk.next = Clean(inputs)
      BY <3>1, <3>2
      DEF SeedStage, GenStage, SeedMade, BootMade, GenMade, ObjMade, NextMade
    <3>4. /\ Saved.objs = objs /\ Saved.inputs = inputs
          /\ Saved.gen = disk.gen /\ Saved.output = disk.next
      BY DEF Saved
    <3>5. QED
      BY <3>3, <3>4 DEF Good
  <2>2. at' = "idle" /\ (state' = Saved \/ state' = state)
    BY <1>2 DEF Saves, Ends
  <2>3. QED
    BY <1>1, <2>1, <2>2 DEF SavedInv
<1>3. CASE Begins
  BY <1>1, <1>3 DEF SavedInv, Begins
<1>4. CASE state' = state /\ prev' = prev /\ (at = "idle" => at' = "idle")
  BY <1>1, <1>4 DEF SavedInv
<1>5. CASE ~Begins /\ ~Saves
  <2>1. state' = state
    BY <1>5
    DEF Next, Works, vars, Scans, Checks, Ends, SeedDone, GenDone, Copies,
        Rescans, Publishes, Keeps, Starts, ChildReads, ChildEnds, ChildFails,
        Crashes, OrphanReads, OrphanEnds, Damages, Edits, Reverts
  <2>2. prev' = prev
    BY <1>5
    DEF Next, Works, vars, Scans, Checks, Ends, SeedDone, GenDone, Copies,
        Rescans, Publishes, Keeps, Starts, ChildReads, ChildEnds, ChildFails,
        Crashes, OrphanReads, OrphanEnds, Damages, Edits, Reverts
  <2>3. at = "idle" => at' = "idle"
    <3>1. at = "idle" => child = NoChild
      <4>1. JobOK(child) /\ BuildInv
        BY DEF IInv, TypeInv
      <4>2. QED
        BY <4>1, JobFacts DEF BuildInv, Jobs
    <3>2. QED
      BY <1>5, <3>1, NoJob
      DEF Next, Works, vars, Scans, Checks, Ends, SeedDone, GenDone, Copies,
          Rescans, Publishes, Keeps, Starts, ChildReads, ChildEnds, ChildFails,
          Crashes, OrphanReads, OrphanEnds, Damages, Edits, Reverts, Jobs
  <2>4. QED
    BY <1>4, <2>1, <2>2, <2>3
<1>6. QED
  BY <1>2, <1>3, <1>5

\* A build that is not over keeps what it scanned and, as long as the sources
\* are still that, the sources.
LEMMA SureBefore ==
  ASSUME ~Whenever, IInv, [Next]_vars, Sure',
         at \notin {"idle", "scan", "rescan"}
  PROVE  Sure /\ SeedStage /\ GenStage /\ inputs' = inputs
<1>1. TypeInv /\ BuildInv
  BY DEF IInv
<1>2. inputs' = inputs
  BY DEF Next, Works, vars, Begins, LockFree, Scans, Checks, Ends, SeedDone,
         GenDone, Copies, Rescans, Publishes, Saves, Keeps, Starts, ChildReads,
         ChildEnds, ChildFails, Crashes, OrphanReads, OrphanEnds, Damages,
         Edits, Reverts
<1>3. CASE \E f \in Files : Edits(f) \/ Reverts(f)
  <2>1. inputs # src' /\ at' = at
    BY <1>1, <1>3, EditRaises DEF Edits, Reverts
  <2>2. QED
    BY <1>2, <2>1 DEF Sure, Steady, IInv, StageInv
<1>4. CASE src' = src
  <2>1. at \notin {"publish", "save"} => at' \notin {"publish", "save"}
    <3>1. child # NoChild => child.job = at
      BY <1>1 DEF BuildInv
    <3>2. QED
      BY <3>1, NoJob
      DEF Next, Works, vars, Begins, LockFree, Scans, Checks, Ends, SeedDone,
          GenDone, Copies, Rescans, Publishes, Saves, Keeps, Starts,
          ChildReads, ChildEnds, ChildFails, Crashes, OrphanReads, OrphanEnds,
          Damages, Edits, Reverts, Done, After, Jobs
  <2>2. QED
    BY <1>2, <1>4, <2>1 DEF Sure, Steady, IInv, StageInv
<1>5. QED
  BY <1>3, <1>4
  DEF Next, Works, vars, Begins, LockFree, Scans, Checks, Ends, SeedDone,
      GenDone, Copies, Rescans, Publishes, Saves, Keeps, Starts, ChildReads,
      ChildEnds, ChildFails, Crashes, OrphanReads, OrphanEnds, Damages

LEMMA StageStep == ~Whenever /\ IInv /\ [Next]_vars => StageInv'
<1> SUFFICES ASSUME ~Whenever, IInv, [Next]_vars, Sure'
             PROVE  SeedStage' /\ GenStage'
  BY DEF StageInv
<1>1. TypeInv /\ BuildInv /\ SavedInv
  BY DEF IInv
<1>2. /\ src \in [Files -> Nat] /\ disk \in Disks /\ at \in Places
      /\ objs \in Tables /\ JobOK(child) /\ emitted \in Contents
      /\ prev # None => prev.objs \in Tables
  BY <1>1 DEF TypeInv
<1>3. at' \notin {"idle", "scan"}
  BY DEF Sure, Steady
<1>4. child # NoChild => child.job = at
  BY <1>1 DEF BuildInv
<1>5. at \notin {"idle", "scan", "rescan"} =>
        /\ Sure /\ SeedStage /\ GenStage /\ inputs' = inputs
        /\ memo # None => memo = inputs.seed
  BY SureBefore DEF SeedStage
<1> USE DEF SeedMade, BootMade, GenMade, ObjMade, NextMade
<1>6. ASSUME NEW f \in Files, Scans(f) PROVE SeedStage' /\ GenStage'
  <2>1. child = NoChild /\ memo = None /\ at = "scan"
    BY <1>1, <1>2, <1>6, JobFacts DEF BuildInv, Scans, Jobs
  <2>2. child' = NoChild /\ memo' = None /\ at' \in {"scan", "check"}
    BY <1>6, <2>1 DEF Scans
  <2>3. QED
    BY <2>2, NoJob DEF SeedStage, GenStage
<1>7. CASE Checks
  <2>1. child' = child /\ at' = "seed" /\ at = "check" /\ inputs' = inputs
    BY <1>3, <1>7 DEF Checks, Ends
  <2>2. child = NoChild
    BY <1>2, <1>4, <2>1, JobFacts DEF Jobs
  <2>3. src = inputs
    <3>1. src' = src
      BY <1>7 DEF Checks, Ends
    <3>2. QED
      BY <2>1, <3>1 DEF Sure, Steady
  <2>4. memo' # None => memo' = inputs.seed
    BY <1>3, <1>7, <2>3 DEF Checks, Ends
  <2>5. QED
    BY <2>1, <2>2, <2>4, NoJob DEF SeedStage, GenStage
<1>8. CASE SeedDone
  <2>1. /\ at = "seed done" /\ at' = "boot" /\ child' = child /\ memo' = memo
        /\ inputs' = inputs /\ src' = src
    BY <1>8 DEF SeedDone
  <2>2. child = NoChild
    BY <1>2, <1>4, <2>1, JobFacts DEF Jobs
  <2>3. disk.seedTmp = inputs.seed /\ (memo # None => memo = inputs.seed)
    BY <1>5, <2>1 DEF SeedStage
  <2>4. src = inputs
    BY <2>1 DEF Sure, Steady
  <2>5. disk'.seedObj = disk.seedTmp
    BY <1>2, <1>8, DiskMove DEF SeedDone, Holds
  <2>6. objs'.seed = [src |-> src.seed, o |-> disk.seedTmp]
    <3>1. [src |-> src.seed, o |-> disk.seedTmp] \in Objects
      BY <1>2, SeedSet, DiskFields, ObjectOf DEF Files
    <3>2. QED
      BY <1>2, <1>8, <3>1, TablePut DEF SeedDone
  <2>7. Made(objs'.seed)
    <3>1. objs'.seed.src = src.seed /\ objs'.seed.o = disk.seedTmp
      BY <2>6
    <3>2. QED
      BY <2>3, <2>4, <3>1 DEF Made
  <2>8. SeedStage'
    BY <2>1, <2>2, <2>3, <2>5, <2>7, NoJob DEF SeedStage
  <2>9. GenStage'
    BY <2>1, <2>2, NoJob DEF GenStage
  <2>10. QED
    BY <2>8, <2>9
<1>9. CASE GenDone
  <2>1. /\ at = "gen done" /\ at' = "next" /\ child' = child /\ memo' = memo
        /\ inputs' = inputs /\ src' = src
    BY <1>9 DEF GenDone
  <2>2. child = NoChild
    BY <1>2, <1>4, <2>1, JobFacts DEF Jobs
  <2>3. SeedStage /\ GenStage
    BY <1>5, <2>1
  <2>4. /\ disk'.seedObj = disk.seedObj /\ disk'.boot = disk.boot
        /\ disk'.gen = disk.gen /\ disk'.genObj = disk.genTmp
    BY <1>2, <1>9, DiskMove DEF GenDone, Holds
  <2>5. /\ objs'.gen = [src |-> disk.gen, o |-> disk.genTmp]
        /\ objs'.seed = objs.seed
    <3>1. [src |-> disk.gen, o |-> disk.genTmp] \in Objects
      BY <1>2, DiskFields, ObjectOf
    <3>2. QED
      BY <1>2, <1>9, <3>1, TablePut DEF GenDone
  <2>6. SeedStage'
    BY <2>1, <2>2, <2>3, <2>4, <2>5, NoJob DEF SeedStage
  <2>7. Made(objs'.gen)
    <3>1. objs'.gen.src = disk.gen /\ objs'.gen.o = disk.genTmp
      BY <2>5
    <3>2. disk.gen = Clean(inputs) /\ disk.genTmp = Clean(inputs)
      BY <2>1, <2>3 DEF GenStage
    <3>3. QED
      BY <3>1, <3>2 DEF Made
  <2>8. GenStage'
    BY <2>1, <2>2, <2>3, <2>4, <2>7, NoJob DEF GenStage, Clean
  <2>9. QED
    BY <2>6, <2>8
<1>10. CASE Copies
  <2>1. /\ at = "copy" /\ at' \in {"copy", "gen"} /\ child' = child
        /\ UNCHANGED <<inputs, memo, objs, emitted>>
    BY <1>10 DEF Copies
  <2>2. child = NoChild
    BY <1>2, <1>4, <2>1, JobFacts DEF Jobs
  <2>3. SeedStage /\ GenStage
    BY <1>5, <2>1
  <2>4. /\ disk'.seedObj = disk.seedObj /\ disk'.boot = disk.boot
        /\ at' = "gen" => disk'.gen = emitted
    <3>1. /\ Holds([disk EXCEPT !.gen = emitted], disk.seedTmp, disk.seedObj,
                   disk.boot, emitted, disk.genTmp, disk.genObj, disk.next)
          /\ Holds([disk EXCEPT !.gen = Torn], disk.seedTmp, disk.seedObj,
                   disk.boot, Torn, disk.genTmp, disk.genObj, disk.next)
      BY <1>2, SeedSet, DiskPut
    <3>2. QED
      BY <1>10, <3>1 DEF Copies, Holds
  <2>5. SeedStage'
    BY <2>1, <2>2, <2>3, <2>4, NoJob DEF SeedStage
  <2>6. GenStage'
    BY <2>1, <2>2, <2>3, <2>4, NoJob DEF GenStage, Clean
  <2>7. QED
    BY <2>5, <2>6
<1>11. CASE Rescans
  <2>1. /\ at = "rescan" /\ at' = "publish" /\ inputs = src
        /\ UNCHANGED <<inputs, memo, objs, emitted, disk, child>>
    BY <1>3, <1>11 DEF Rescans, SameInputs, Ends
  <2>2. SeedStage /\ GenStage
    BY <2>1 DEF IInv, StageInv, Sure, Steady
  <2>3. SeedStage'
    BY <2>1, <2>2 DEF SeedStage
  <2>4. GenStage'
    BY <2>1, <2>2 DEF GenStage, Clean
  <2>5. QED
    BY <2>3, <2>4
<1>12. CASE Publishes
  <2>1. /\ at = "publish" /\ at' = "save"
        /\ UNCHANGED <<inputs, memo, objs, emitted, disk, child>>
    BY <1>12 DEF Publishes
  <2>2. SeedStage /\ GenStage
    BY <1>5, <2>1
  <2>3. SeedStage'
    BY <2>1, <2>2 DEF SeedStage
  <2>4. GenStage'
    BY <2>1, <2>2 DEF GenStage, Clean
  <2>5. QED
    BY <2>3, <2>4
<1>13. CASE Keeps("seed")
  <2>1. /\ at = "seed" /\ at' = "boot" /\ child = NoChild /\ child' = NoChild
        /\ prev # None /\ UNCHANGED <<disk, inputs>>
        /\ memo' = SeedDigest /\ SeedKept
        /\ objs' = [objs EXCEPT !.seed = prev.objs.seed]
    BY <1>13 DEF Keeps, Kept, After, SeedKept
  <2>2. src = inputs
    BY <1>13, <2>1 DEF Keeps, Sure, Steady
  <2>3. memo # None => memo = inputs.seed
    BY <1>5, <2>1
  <2>4. SeedDigest = inputs.seed
    BY <2>2, <2>3 DEF SeedDigest
  <2>5. Made(prev.objs.seed)
    BY <1>1, <2>1 DEF SavedInv, Good
  <2>6. disk.seedObj = inputs.seed
    BY <2>1, <2>4, <2>5 DEF SeedKept, Unchanged, Made
  <2>7. objs'.seed = prev.objs.seed
    <3>1. prev.objs.seed \in Objects
      BY <1>2, <2>1, TableFields
    <3>2. QED
      BY <1>2, <2>1, <3>1, TablePut
  <2>8. QED
    BY <2>1, <2>4, <2>5, <2>6, <2>7, NoJob DEF SeedStage, GenStage
<1>14. CASE Keeps("emit")
  <2>1. /\ at = "emit" /\ at' = "gen" /\ child = NoChild /\ child' = NoChild
        /\ UNCHANGED <<disk, inputs, objs, memo, emitted>> /\ EmissionKept
    BY <1>14 DEF Keeps, Kept
  <2>2. SeedStage
    BY <1>5, <2>1
  <2>3. disk.gen = Clean(inputs)
    BY <1>1, <2>1 DEF SavedInv, Good, EmissionKept, Reusable
  <2>4. SeedStage'
    BY <2>1, <2>2, NoJob DEF SeedStage
  <2>5. GenStage'
    BY <2>1, <2>3, NoJob DEF GenStage, Clean
  <2>6. QED
    BY <2>4, <2>5
<1>15. CASE Keeps("gen")
  <2>1. /\ at = "gen" /\ at' = "next" /\ child = NoChild /\ child' = NoChild
        /\ prev # None /\ UNCHANGED <<disk, inputs, memo, emitted>> /\ GenKept
        /\ objs' = [objs EXCEPT !.gen = prev.objs.gen]
    BY <1>15 DEF Keeps, Kept, After, GenKept
  <2>2. SeedStage /\ GenStage
    BY <1>5, <2>1
  <2>3. Made(prev.objs.gen)
    BY <1>1, <2>1 DEF SavedInv, Good
  <2>4. disk.gen = Clean(inputs) /\ disk.genObj = Clean(inputs)
    BY <2>1, <2>2, <2>3 DEF GenStage, GenKept, Unchanged, Made
  <2>5. objs'.gen = prev.objs.gen /\ objs'.seed = objs.seed
    <3>1. prev.objs.gen \in Objects
      BY <1>2, <2>1, TableFields
    <3>2. QED
      BY <1>2, <2>1, <3>1, TablePut
  <2>6. SeedStage'
    BY <2>1, <2>2, <2>5, NoJob DEF SeedStage
  <2>7. GenStage'
    BY <2>1, <2>3, <2>4, <2>5, NoJob DEF GenStage, Clean
  <2>8. QED
    BY <2>6, <2>7
<1>16. ASSUME NEW job \in Jobs, Starts(job) PROVE SeedStage' /\ GenStage'
  <2>1. /\ at = job /\ at' = at /\ child'.job = job /\ child'.got = None
        /\ UNCHANGED <<disk, inputs, objs, memo, emitted>>
    BY <1>16 DEF Starts
  <2>2. SeedStage /\ GenStage
    BY <1>5, <2>1 DEF Jobs
  <2>3. SeedStage'
    BY <2>1, <2>2 DEF SeedStage
  <2>4. GenStage'
    BY <2>1, <2>2 DEF GenStage, Clean
  <2>5. QED
    BY <2>3, <2>4
<1>17. CASE ChildReads
  <2>1. /\ child # NoChild /\ child.job = at /\ at' = at /\ at \in Jobs
        /\ UNCHANGED <<src, disk, inputs, objs, memo, emitted>>
        /\ child' = [child EXCEPT !.got = Read(child.job)]
    BY <1>4, <1>17, NoJob DEF ChildReads, Jobs
  <2>2. child'.job = at /\ child'.got = Read(at)
    BY <1>1, <1>2, <2>1, ReadType, JobGot
  <2>3. SeedStage /\ GenStage
    BY <1>5, <2>1 DEF Jobs
  <2>4. src = inputs
    BY <2>1 DEF Sure, Steady, Jobs
  <2>5. SeedStage'
    BY <2>1, <2>2, <2>3, <2>4 DEF SeedStage, Read
  <2>6. GenStage'
    BY <2>1, <2>2, <2>3, <2>4 DEF GenStage, SeedStage, Read, Clean
  <2>7. QED
    BY <2>5, <2>6
<1>18. CASE ChildEnds
  <2>1. /\ child # NoChild /\ child.job = at /\ child.got # None /\ at \in Jobs
        /\ UNCHANGED <<inputs, objs, memo>> /\ child' = NoChild
        /\ disk' = Written(at, child.got)
        /\ emitted' = IF at = "emit" THEN child.got ELSE emitted
        /\ at' = IF at \in {"seed", "gen"} THEN Done(at) ELSE After(at)
    BY <1>4, <1>18, NoJob DEF ChildEnds, Jobs
  <2>2. SeedStage /\ GenStage
    BY <1>5, <2>1 DEF Jobs
  <2>3. child.got \in Contents /\ (at \in {"seed", "boot"} => child.got \in Seeds)
    BY <1>2, <2>1, JobFacts
  <2>4. CASE at \in {"seed", "boot"}
    <3>1. /\ at = "seed" => disk'.seedTmp = child.got
          /\ at = "boot" => /\ disk'.boot = child.got
                            /\ disk'.seedObj = disk.seedObj
      BY <1>2, <2>1, <2>3, <2>4, DiskPut DEF Written, Holds
    <3>2. at' = IF at = "seed" THEN "seed done" ELSE "emit"
      BY <2>1, <2>4 DEF Done, After
    <3>3. SeedStage'
      BY <2>1, <2>2, <2>4, <3>1, <3>2, NoJob DEF SeedStage
    <3>4. GenStage'
      BY <2>1, <2>4, <3>2, NoJob DEF GenStage
    <3>5. QED
      BY <3>3, <3>4
  <2>5. CASE at = "emit"
    <3>1. disk' = disk /\ at' = "copy" /\ emitted' = child.got
      BY <2>1, <2>5 DEF Written, After
    <3>2. SeedStage'
      BY <2>1, <2>2, <2>5, <3>1, NoJob DEF SeedStage
    <3>3. GenStage'
      BY <2>1, <2>2, <2>5, <3>1, NoJob DEF GenStage, Clean
    <3>4. QED
      BY <3>2, <3>3
  <2>6. CASE at \in {"gen", "next"}
    <3>1. /\ disk'.seedObj = disk.seedObj /\ disk'.boot = disk.boot
          /\ disk'.gen = disk.gen /\ disk'.genObj = disk.genObj
          /\ at = "gen" => disk'.genTmp = child.got
          /\ at = "next" => disk'.next = child.got
      BY <1>2, <2>1, <2>3, <2>6, DiskPut, SeedSet DEF Written, Holds
    <3>2. at' = IF at = "gen" THEN "gen done" ELSE "rescan"
      BY <2>1, <2>6 DEF Done, After
    <3>3. SeedStage'
      BY <2>1, <2>2, <2>6, <3>1, <3>2, NoJob DEF SeedStage
    <3>4. GenStage'
      BY <2>1, <2>2, <2>6, <3>1, <3>2, NoJob DEF GenStage, Clean
    <3>5. QED
      BY <3>3, <3>4
  <2>7. QED
    BY <2>1, <2>4, <2>5, <2>6 DEF Jobs
<1>19. CASE OrphanReads \/ OrphanEnds
  <2>1. at = "idle" /\ at' = at
    BY <1>1, <1>19, NoJob DEF BuildInv, OrphanReads, OrphanEnds, Jobs
  <2>2. QED
    BY <1>3, <2>1
<1>20. CASE UNCHANGED ours
  <2>1. Sure
    <3>1. CASE at \in {"publish", "save"}
      BY <3>1 DEF Sure
    <3>2. CASE at = "rescan"
      <4>1. CASE \E f \in Files : Edits(f) \/ Reverts(f)
        <5>1. inputs # src'
          BY <1>1, <3>2, <4>1, EditRaises
        <5>2. QED
          BY <1>20, <3>2, <5>1 DEF Sure, Steady
      <4>2. CASE src' = src
        BY <1>20, <4>2 DEF Sure, Steady
      <4>3. QED
        BY <3>2, <4>1, <4>2
        DEF Next, Works, vars, Begins, LockFree, Scans, Checks, Ends, SeedDone,
            GenDone, Copies, Rescans, Publishes, Saves, Keeps, Starts,
            ChildReads, ChildEnds, ChildFails, Crashes, OrphanReads,
            OrphanEnds, Damages
    <3>3. CASE at \notin {"publish", "save", "rescan"}
      BY <1>3, <1>5, <1>20, <3>3
    <3>4. QED
      BY <3>1, <3>2, <3>3
  <2>2. SeedStage /\ GenStage
    BY <2>1 DEF IInv, StageInv
  <2>3. SeedStage'
    BY <1>20, <2>2 DEF SeedStage
  <2>4. GenStage'
    BY <1>20, <2>2 DEF GenStage, Clean
  <2>5. QED
    BY <2>3, <2>4
<1>21. ASSUME NEW job \in Jobs, Keeps(job) PROVE SeedStage' /\ GenStage'
  BY <1>13, <1>14, <1>15, <1>21 DEF Keeps, Kept
<1>22. ~(Begins \/ Saves \/ ChildFails \/ Crashes \/ Damages)
  BY <1>3 DEF Begins, Saves, ChildFails, Crashes, Damages, Ends
<1>23. QED
  BY <1>6, <1>7, <1>8, <1>9, <1>10, <1>11, <1>12, <1>16, <1>17, <1>18, <1>19,
     <1>20, <1>21, <1>22
  DEF Next, Works, Edits, Reverts, vars

LEMMA OutputStep == IInv /\ [Next]_vars => OutputInv'
<1> SUFFICES ASSUME IInv, [Next]_vars PROVE OutputInv'
  OBVIOUS
<1>1. TypeInv /\ BuildInv /\ OutputInv
  BY DEF IInv
<1>2. child # NoChild => child.job = at /\ at # "save"
  BY <1>1, NoJob, JobFacts DEF BuildInv, TypeInv, Jobs
<1>3. CASE Publishes
  <2>1. result = "none"
    BY <1>1, <1>3 DEF BuildInv, Publishes
  <2>2. QED
    BY <1>3, <2>1 DEF OutputInv, BuiltMeansClean, Publishes
<1>4. CASE Saves
  <2>1. at = "save"
    BY <1>4 DEF Saves
  <2>2. disk.next = Clean(inputs)
    BY <2>1
    DEF IInv, StageInv, Sure, GenStage, SeedMade, BootMade, GenMade, ObjMade,
        NextMade
  <2>3. output = Clean(inputs)
    BY <1>1, <2>1, <2>2 DEF OutputInv
  <2>4. /\ output' = output /\ inputs' = inputs /\ at' = "idle"
        /\ result' = "built"
    BY <1>4 DEF Saves, Ends
  <2>5. QED
    BY <2>3, <2>4 DEF OutputInv, BuiltMeansClean, Clean
<1>5. CASE Checks
  <2>1. at = "check" /\ inputs' = inputs /\ result = "none"
    BY <1>1, <1>5 DEF BuildInv, Checks, Ends
  <2>2. CASE UpToDate(inputs, prev)
    <3>1. output' = output /\ at' = "idle"
      BY <1>5, <2>2 DEF Checks, Ends
    <3>2. prev # None /\ prev.inputs = inputs /\ output = prev.output
      BY <2>2 DEF UpToDate, BuiltFilesUnchanged, Reusable
    <3>3. output = Clean(inputs)
      BY <2>1, <3>2 DEF IInv, SavedInv, Good
    <3>4. QED
      BY <2>1, <3>1, <3>3 DEF OutputInv, BuiltMeansClean, Clean
  <2>3. CASE ~UpToDate(inputs, prev)
    BY <1>5, <2>1, <2>3 DEF OutputInv, BuiltMeansClean, Checks
  <2>4. QED
    BY <2>2, <2>3
<1>6. CASE Begins \/ ChildFails \/ Crashes \/ Damages
  <2>1. result' \notin {"built", "up to date"}
    BY <1>6 DEF Begins, ChildFails, Crashes, Damages, Ends
  <2>2. at' # "save"
    BY <1>6 DEF Begins, ChildFails, Crashes, Damages, Ends
  <2>3. QED
    BY <2>1, <2>2 DEF OutputInv, BuiltMeansClean
<1>7. CASE Rescans
  BY <1>1, <1>7 DEF BuildInv, OutputInv, BuiltMeansClean, Rescans, Ends
<1>8. CASE (\E f \in Files : Scans(f)) \/ SeedDone \/ GenDone \/ Copies
           \/ (\E job \in Jobs : Keeps(job)) \/ ChildEnds
  <2>1. at # "idle" /\ result = "none" /\ result' = result
    <3>1. at # "idle"
      BY <1>2, <1>8, NoJob
      DEF Scans, SeedDone, GenDone, Copies, Keeps, ChildEnds, Jobs
    <3>2. result' = result
      BY <1>8 DEF Scans, SeedDone, GenDone, Copies, Keeps, ChildEnds
    <3>3. QED
      BY <1>1, <3>1, <3>2 DEF BuildInv
  <2>2. at' # "save"
    BY <1>8 DEF Scans, SeedDone, GenDone, Copies, Keeps, ChildEnds, Done, After,
                Jobs
  <2>3. QED
    BY <2>1, <2>2 DEF OutputInv, BuiltMeansClean
<1>9. CASE (\E job \in Jobs : Starts(job)) \/ ChildReads
  BY <1>1, <1>9 DEF OutputInv, BuiltMeansClean, Clean, Starts, ChildReads
<1>10. CASE OrphanReads \/ OrphanEnds
  <2>1. at = "idle"
    BY <1>1, <1>10, NoJob DEF BuildInv, OrphanReads, OrphanEnds, Jobs
  <2>2. QED
    BY <1>1, <1>10, <2>1
    DEF OutputInv, BuiltMeansClean, Clean, OrphanReads, OrphanEnds
<1>11. CASE UNCHANGED ours
  BY <1>1, <1>11 DEF OutputInv, BuiltMeansClean, Clean
<1>12. QED
  BY <1>3, <1>4, <1>5, <1>6, <1>7, <1>8, <1>9, <1>10, <1>11
  DEF Next, Works, Edits, Reverts, vars

-----------------------------------------------------------------------------
(* The theorems.                                                           *)

LEMMA IInvInit == Init => IInv
<1> SUFFICES ASSUME Init PROVE IInv
  OBVIOUS
<1>1. None \in Contents /\ None \in Seeds
  BY SeedSet
<1>2. NoObject \in Objects
  BY <1>1, ObjectOf DEF NoObject
<1>3. objs \in Tables
  BY <1>2 DEF Init, NoObjects, Tables
<1>4. disk \in Disks
  BY <1>1 DEF Init, Disks
<1>5. TypeInv
  BY <1>1, <1>3, <1>4, NoJob DEF Init, TypeInv, Places, Unread
<1>6. BuildInv /\ SavedInv /\ StageInv /\ OutputInv
  BY DEF Init, BuildInv, SavedInv, StageInv, Sure, Steady, OutputInv,
         BuiltMeansClean
<1>7. QED
  BY <1>5, <1>6 DEF IInv

\* As long as no edit brings an old version back while a build runs, every
\* reachable state satisfies the inductive invariant.
THEOREM Invariance ==
  ASSUME ~Whenever
  PROVE  Spec => []IInv
<1>1. IInv /\ [Next]_vars => IInv'
  BY TypeStep, BuildStep, SavedStep, StageStep, OutputStep DEF IInv
<1>2. QED
  BY <1>1, IInvInit, PTL DEF Spec

\* Whenever the next build would call ./zen up to date, ./zen is what a build
\* from nothing would make of the sources, after any number of crashes, failed
\* compilers, edits and damaged artifacts (bootstrap.json, the inherited lock).
THEOREM UpToDateIsClean ==
  ASSUME ~Whenever
  PROVE  Spec => []CurrentMeansClean
<1>1. IInv => CurrentMeansClean
  BY DEF IInv, SavedInv, Good, CurrentMeansClean, UpToDate,
         BuiltFilesUnchanged, Reusable
<1>2. QED
  BY <1>1, Invariance, PTL

\* A build that ends well leaves the compiler of the sources it began with,
\* whole (build.py:2, :330).
THEOREM BuiltIsClean ==
  ASSUME ~Whenever
  PROVE  Spec => []BuiltMeansClean
<1>1. IInv => BuiltMeansClean
  BY DEF IInv, OutputInv
<1>2. QED
  BY <1>1, Invariance, PTL
=============================================================================
