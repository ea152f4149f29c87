--------------------------- MODULE BootstrapBuild ---------------------------
(***************************************************************************)
(* The incremental bootstrap (scripts/build.py): compile the seed, link a  *)
(* bootstrap compiler, have it emit C for the sources, compile and link    *)
(* that, publish the result as ./zen and save what was built from what, so *)
(* that the next build can skip what is up to date.                        *)
(*                                                                         *)
(* Files are edited while a build runs; a build may be killed between any  *)
(* two steps, and then its compiler process may go on.  All builds of a    *)
(* directory take one lock, which their child processes inherit; whoever   *)
(* waits for it has read nothing yet, so one build at a time is the model, *)
(* beside a child that a killed build left behind.                         *)
(*                                                                         *)
(* Contents stand for themselves and for their digests: an object or a     *)
(* bootstrap compiler is the seed version it was made from, generated C    *)
(* and everything behind it the pair of seed and source version.  The      *)
(* toolchain, its headers, the options and proc.c are taken as fixed.      *)
(***************************************************************************)
EXTENDS Naturals

CONSTANTS
  MaxEdits,    \* bound: edits, each of a file to its next version
  MaxReverts,  \* bound: edits that bring a file's first version back
  Whenever,    \* whether one may happen while a build runs
  MaxCrashes,  \* bound: builds killed
  MaxFailures, \* bound: compiler processes that fail
  MaxDamages,  \* bound: artifacts damaged between builds
  None, Torn   \* no content, and that of a file half written

ASSUME BuildAssumption ==
  /\ MaxEdits \in Nat /\ MaxReverts \in Nat /\ Whenever \in BOOLEAN
  /\ MaxCrashes \in Nat /\ MaxFailures \in Nat /\ MaxDamages \in Nat
  /\ None # Torn

Files == {"seed", "zen"}   \* seed/zen.c, and what is under --root
VARIABLES
  src,     \* version of each source file
  disk,    \* the artifacts
  output,  \* the published compiler, ./zen
  state,   \* bootstrap.json, or None
  \* the build that has the lock
  at,      \* where it is; "idle" when there is none
  inputs,  \* what source_inputs returned, file by file
  prev,    \* self.previous
  memo,    \* self.hashes: the seed's digest, once looked up
  objs,    \* self.objects
  emitted, \* the emission's directory
  result,  \* how the last build ended
  child,   \* the compiler process it waits for
  orphan,  \* the one a killed build left behind
  budget   \* edits, reverts, crashes and damages left
locals == <<inputs, prev, memo, objs, emitted>>
ours   == <<disk, output, state, at, locals, result, child, orphan>>
vars   == <<src, ours, budget>>

\* What a build from nothing makes of the sources `s`.
Clean(s) == <<s.seed, s.zen>>

NoObject == [src |-> None, o |-> None]
NoObjects == [seed |-> NoObject, gen |-> NoObject]
NoChild == [job |-> "none", got |-> None]
Unread == [f \in Files |-> None]

Init ==
  /\ src = [f \in Files |-> 0]
  /\ disk = [seedTmp |-> None, seedObj |-> None, boot |-> None, gen |-> None,
             genTmp |-> None, genObj |-> None, next |-> None]
  /\ output = None /\ state = None
  /\ at = "idle" /\ inputs = Unread /\ prev = None /\ memo = None
  /\ objs = NoObjects /\ emitted = None /\ result = "none"
  /\ child = NoChild /\ orphan = NoChild
  /\ budget = [edit |-> MaxEdits, revert |-> MaxReverts, crash |-> MaxCrashes,
               fail |-> MaxFailures, damage |-> MaxDamages]

-----------------------------------------------------------------------------
(* What is up to date.                                                     *)

\* previous["inputs"] is what was scanned; settings and request are the same.
Reusable(i, p) == p # None /\ p.inputs = i

Unchanged(o, s, file) == o.src # None /\ o.src = s /\ o.o = file

\* The digests are compared in the order of the saved paths: the generated
\* files, their objects, the seed's object, and only then the seed.
BuiltFilesUnchanged(i, p) ==
  /\ Reusable(i, p)
  /\ disk.gen = p.gen
  /\ Unchanged(p.objs.gen, disk.gen, disk.genObj)
  /\ disk.seedObj = p.objs.seed.o
\* The test that lets a build end at once.
UpToDate(i, p) ==
  /\ BuiltFilesUnchanged(i, p)
  /\ Unchanged(p.objs.seed, src.seed, disk.seedObj)
  /\ output # None /\ output = p.output

\* file_digest looks a file up once.
SeedDigest == IF memo = None THEN src.seed ELSE memo
SeedKept == prev # None /\ Unchanged(prev.objs.seed, SeedDigest, disk.seedObj)
EmissionKept == /\ Reusable(inputs, prev)
                /\ disk.boot = prev.emitter /\ disk.gen = prev.gen
\* Mutant: the object is taken for what its source is now.
GenKeptByName == prev # None /\ prev.objs.gen.o = disk.genObj /\ disk.genObj # None
GenKept == prev # None /\ Unchanged(prev.objs.gen, disk.gen, disk.genObj)

-----------------------------------------------------------------------------
(* The build.                                                              *)

\* Mutant: children do not inherit the lock.
LockFreeOfParents == at = "idle"
\* The lock is released when its last holder exits, a child too.
LockFree == at = "idle" /\ orphan = NoChild

\* flock is granted: bootstrap.json is read.
Begins ==
  /\ LockFree
  /\ at' = "scan" /\ prev' = state
  /\ inputs' = Unread /\ memo' = None /\ objs' = NoObjects /\ emitted' = None
  /\ result' = "none"
  /\ UNCHANGED <<src, disk, output, state, child, orphan, budget>>

\* source_inputs, before and after: `inputs` is what the first pass found.
Scans(f) ==
  /\ at = "scan" /\ inputs[f] = None
  /\ inputs' = [inputs EXCEPT ![f] = src[f]]
  /\ at' = IF \A g \in Files \ {f} : inputs[g] # None THEN "check" ELSE "scan"
  /\ UNCHANGED <<src, disk, output, state, prev, memo, objs, emitted, result,
                 child, orphan, budget>>

Spend(what) == budget[what] > 0 /\ budget' = [budget EXCEPT ![what] = @ - 1]

Ends(how) ==
  /\ at' = "idle" /\ result' = how
  /\ UNCHANGED <<src, locals, orphan>>

Checks ==
  /\ at = "check"
  /\ IF UpToDate(inputs, prev)
     THEN Ends("up to date") /\ UNCHANGED <<disk, output, state, child, budget>>
     ELSE /\ at' = "seed"
          /\ memo' = IF BuiltFilesUnchanged(inputs, prev) THEN src.seed ELSE None
          /\ UNCHANGED <<src, disk, output, state, inputs, prev, objs, emitted,
                         result, child, orphan, budget>>

Jobs == {"seed", "boot", "emit", "gen", "next"}
Kept(job) == \/ job = "seed" /\ SeedKept
             \/ job = "emit" /\ EmissionKept
             \/ job = "gen" /\ GenKept
After(job) == CASE job = "seed" -> "boot" [] job = "boot" -> "emit"
                [] job = "emit" -> "copy" [] job = "gen" -> "next"
                [] job = "next" -> "rescan"

Done(job) == IF job = "seed" THEN "seed done" ELSE "gen done"

\* An object or the emission is up to date: no process is started.
Keeps(job) ==
  /\ at = job /\ child = NoChild /\ Kept(job)
  /\ at' = IF job = "emit" THEN "gen" ELSE After(job)
  /\ objs' = IF job \in {"seed", "gen"}
             THEN [objs EXCEPT ![job] = prev.objs[job]] ELSE objs
  /\ memo' = IF job = "seed" THEN SeedDigest ELSE memo
  /\ UNCHANGED <<src, disk, output, state, inputs, prev, emitted, result, child,
                 orphan, budget>>

Starts(job) ==
  /\ at = job /\ child = NoChild /\ ~Kept(job)
  /\ child' = [job |-> job, got |-> None]
  /\ UNCHANGED <<src, disk, output, state, at, locals, result, orphan, budget>>

\* What a process reads: a source, an artifact, or both.
Read(job) == CASE job = "seed" -> src.seed
               [] job = "boot" -> disk.seedObj
               [] job = "emit" -> <<disk.boot, src.zen>>
               [] job = "gen"  -> disk.gen
               [] job = "next" -> disk.genObj

\* Where it writes; an emission has a directory of its own.
Written(job, got) ==
  CASE job = "seed" -> [disk EXCEPT !.seedTmp = got]
    [] job = "boot" -> [disk EXCEPT !.boot = got]
    [] job = "emit" -> disk
    [] job = "gen"  -> [disk EXCEPT !.genTmp = got]
    [] job = "next" -> [disk EXCEPT !.next = got]

ChildReads ==
  /\ child.job \in Jobs /\ child.got = None
  /\ child' = [child EXCEPT !.got = Read(child.job)]
  /\ UNCHANGED <<src, disk, output, state, at, locals, result, orphan, budget>>

\* It writes and exits, and the build goes on.
ChildEnds ==
  /\ child.job \in Jobs /\ child.got # None
  /\ disk' = Written(child.job, child.got)
  /\ emitted' = IF child.job = "emit" THEN child.got ELSE emitted
  /\ child' = NoChild
  /\ at' = IF child.job \in {"seed", "gen"} THEN Done(child.job)
                                            ELSE After(child.job)
  /\ UNCHANGED <<src, output, state, inputs, prev, memo, objs, result, orphan,
                 budget>>

ChildFails ==
  /\ child # NoChild /\ Spend("fail")
  /\ child' = NoChild /\ Ends("failed") /\ UNCHANGED <<disk, output, state>>

\* compile_object: the temporary becomes the object, and the digests of what
\* the compiler read are taken, now.
SeedDone ==
  /\ at = "seed done"
  /\ disk' = [disk EXCEPT !.seedObj = disk.seedTmp, !.seedTmp = None]
  /\ objs' = [objs EXCEPT !.seed = [src |-> src.seed, o |-> disk.seedTmp]]
  /\ at' = "boot"
  /\ UNCHANGED <<src, output, state, inputs, prev, memo, emitted, result, child,
                 orphan, budget>>
GenDone ==
  /\ at = "gen done"
  /\ disk' = [disk EXCEPT !.genObj = disk.genTmp, !.genTmp = None]
  /\ objs' = [objs EXCEPT !.gen = [src |-> disk.gen, o |-> disk.genTmp]]
  /\ at' = "next"
  /\ UNCHANGED <<src, output, state, inputs, prev, memo, emitted, result, child,
                 orphan, budget>>

\* The emission is copied over the generated files that differ.
Copies ==
  /\ at = "copy"
  /\ IF disk.gen = emitted \/ disk.gen = Torn
     THEN at' = "gen" /\ disk' = [disk EXCEPT !.gen = emitted]
     ELSE at' = at /\ disk' = [disk EXCEPT !.gen = Torn]
  /\ UNCHANGED <<src, output, state, locals, result, child, orphan, budget>>

\* Mutant: the sources are not looked at again.
SameInputsAssumed == TRUE
\* The second source_inputs finds what the first one did.
SameInputs == inputs = src

Rescans ==
  /\ at = "rescan"
  /\ IF SameInputs
     THEN at' = "publish" /\ UNCHANGED <<src, locals, result, orphan>>
     ELSE Ends("failed")
  /\ UNCHANGED <<disk, output, state, child, budget>>

\* The copy on the output's file system replaces ./zen.
Publishes ==
  /\ at = "publish"
  /\ output' = disk.next
  /\ at' = "save"
  /\ UNCHANGED <<src, disk, state, locals, result, child, orphan, budget>>

\* The pending state replaces bootstrap.json, or cannot.
Saved == [inputs |-> inputs, objs |-> objs, gen |-> disk.gen,
          emitter |-> disk.boot, output |-> disk.next]
Saves ==
  /\ at = "save"
  /\ state' \in {Saved, state}
  /\ Ends("built") /\ UNCHANGED <<disk, output, child, budget>>

-----------------------------------------------------------------------------
(* What happens around it.                                                 *)

Edits(f) ==
  /\ Spend("edit")
  /\ src' = [src EXCEPT ![f] = @ + 1]
  /\ UNCHANGED ours

Reverts(f) ==
  /\ Spend("revert") /\ src[f] # 0 /\ (Whenever \/ at = "idle")
  /\ src' = [src EXCEPT ![f] = 0]
  /\ UNCHANGED ours

\* The build is killed, its child with it or not.
Crashes ==
  /\ at # "idle" /\ Spend("crash")
  /\ orphan' \in {NoChild, child}
  /\ at' = "idle" /\ child' = NoChild /\ result' = "killed"
  /\ UNCHANGED <<src, disk, output, state, locals>>

OrphanReads ==
  /\ orphan.job \in Jobs /\ orphan.got = None
  /\ orphan' = [orphan EXCEPT !.got = Read(orphan.job)]
  /\ UNCHANGED <<src, disk, output, state, at, locals, result, child, budget>>

OrphanEnds ==
  /\ orphan.job \in Jobs /\ orphan.got # None
  /\ disk' = Written(orphan.job, orphan.got)
  /\ orphan' = NoChild
  /\ UNCHANGED <<src, output, state, at, locals, result, child, budget>>

\* Somebody removes or overwrites an artifact between builds.
Damages ==
  /\ at = "idle" /\ orphan = NoChild /\ Spend("damage")
  /\ \/ output' \in {None, Torn} /\ UNCHANGED disk
     \/ /\ \E a \in {"seedObj", "gen", "genObj"}, c \in {None, Torn} :
             disk' = [disk EXCEPT ![a] = c]
        /\ UNCHANGED output
  /\ result' = "none"
  /\ UNCHANGED <<src, state, at, locals, child, orphan>>

-----------------------------------------------------------------------------
Works ==
  \/ \E f \in Files : Scans(f)
  \/ Checks \/ SeedDone \/ GenDone \/ Copies \/ Rescans \/ Publishes \/ Saves
  \/ \E job \in Jobs : Keeps(job) \/ Starts(job)
  \/ ChildReads \/ ChildEnds

Next ==
  \/ Begins \/ Works \/ ChildFails
  \/ Crashes \/ OrphanReads \/ OrphanEnds \/ Damages
  \/ \E f \in Files : Edits(f) \/ Reverts(f)

Spec == Init /\ [][Next]_vars
\* A build goes on, and when one has ended there will be another.
FairSpec == /\ Spec
            /\ WF_vars(Works) /\ WF_vars(Begins)
            /\ WF_vars(OrphanReads \/ OrphanEnds)

-----------------------------------------------------------------------------
(* What should hold.                                                       *)

\* Whenever the next build would call ./zen up to date, ./zen is what a build
\* from nothing would make of the sources: after a crash between publishing and
\* saving or anywhere else, after damage, beside a compiler a killed build left
\* behind (the digests of bootstrap.json, the inherited lock).
CurrentMeansClean == UpToDate(src, state) => output = Clean(src)

\* A build that ends well leaves the compiler of the sources it began with,
\* whole: none of it from an edit made meanwhile, and nothing published
\* before every stage succeeded (build.py:2, :330).
BuiltMeansClean ==
  result \in {"built", "up to date"} => output = Clean(inputs)

\* When the edits, the failures and the damage are over, building again makes
\* ./zen current: no artifact of an earlier build, killed or failed, is kept
\* for good (SeedKept, EmissionKept, GenKept).
Recovers == <>[](output = Clean(src))
=============================================================================
