-------------------------------- MODULE Arena --------------------------------
(***************************************************************************)
(* The arena of std.mem (mem_arena.zen): runs handed out of a chain of     *)
(* pages by a bump offset, each with its length in front of it, grown in   *)
(* place when they are the latest and copied otherwise, and released with  *)
(* the whole chain.                                                        *)
(*                                                                         *)
(* Addresses are numbers and memory is a function of them, because the     *)
(* arena's own records -- the page structs and the lengths -- lie in the   *)
(* memory it hands out, and because it compares addresses of different     *)
(* pages.  Where malloc puts a page is its own choice.                     *)
(***************************************************************************)
EXTENDS Integers, Sequences, FiniteSets

CONSTANTS
  Header,      \* HEADER_BYTES
  AlignMax,    \* ALIGN_MAX
  PageBytes,   \* PAGE_BYTES
  PageStruct,  \* sizeof(Page), in front of every page
  Sizes, Aligns,  \* what callers ask for
  Places,      \* where malloc may put a page
  LastByte,    \* the highest address
  MaxRuns      \* bound: runs handed out, abandoned ones included

ASSUME ArenaAssumption ==
  /\ Header \in Nat \ {0} /\ AlignMax \in Nat \ {0}
  /\ PageBytes \in Nat /\ PageStruct \in Nat \ {0}
  /\ Sizes \subseteq Nat /\ Aligns \subseteq Nat \ {0}
  /\ Places \subseteq Nat /\ LastByte \in Nat /\ MaxRuns \in Nat
\* Alignments are powers of two (mem_arena.zen:17), so of one of them and a word
\* one divides the other; malloc aligns to a word and more, and a Page struct is
\* a whole number of words.
ASSUME WordAssumption ==
  /\ PageStruct % Header = 0 /\ \A lo \in Places : lo % Header = 0
  /\ \A a \in Aligns \cup {AlignMax} : a % Header = 0 \/ Header % a = 0

Bytes == 0..LastByte
\* A byte belongs to a Page (n: the page before it), to a length, to a run's
\* content, or is whatever malloc left there.
PageByte(n) == [what |-> "page", n |-> n]
LenByte(n)  == [what |-> "len", n |-> n]
TagByte(t)  == [what |-> "tag", n |-> t]
Junk        == [what |-> "junk", n |-> 0]

VARIABLES
  mem,       \* the bytes
  pages,     \* the pages in the order they were chained; the last is s.head
  next,      \* bytes used in that page
  runs,      \* the runs handed out, abandoned ones too
  phase,     \* "live", "dropping", "dropped"
  cursor,    \* drop: the page it is at, 0 for null
  released   \* drop: how often each page was released
vars == <<mem, pages, next, runs, phase, cursor, released>>

\* A run: where it starts, how long it is, the alignment asked for, the page it
\* is in, whose content it has and how much of that has been written.
Newest == Len(pages)
Base(p) == p.lo + PageStruct
End(p) == Base(p) + p.size

Init ==
  /\ mem = [x \in Bytes |-> Junk]
  /\ pages = <<>> /\ next = 0 /\ runs = {}
  /\ phase = "live" /\ cursor = 0 /\ released = [k \in {} |-> 0]

AlignUp(offset, align) == LET raised == offset + align - 1 IN raised - (raised % align)

\* Mutant: one rounding, to the alignment of the run.
StartOnce(used, align) == AlignUp(used + Header, align)
\* Where a run starts in a page of which `used` bytes are used.
Start(used, align) == AlignUp(AlignUp(used, Header) + Header, align)

Larger(m, n) == IF m > n THEN m ELSE n
Smaller(m, n) == IF m < n THEN m ELSE n

\* chain: how large a page must be for a run.
Want(size, align) == Larger(Header + align + size, PageBytes)

\* Mem.page: malloc'ed blocks, apart from all others.
Blocks(size) ==
  {p \in [lo : Places, size : {size}, prev : {Newest}] :
     /\ End(p) <= LastByte + 1
     /\ \A k \in 1..Newest : End(p) <= pages[k].lo \/ End(pages[k]) <= p.lo}

FitsHead(size, align) ==
  Newest > 0 /\ Start(next, align) + size <= pages[Newest].size

Within(x, lo, n) == lo <= x /\ x < lo + n

\* bump: a run in the last page of `ps`, after `used` bytes; `keep` bytes are
\* copied from `src`.
Bump(ps, used, size, align, tag, src, keep, filled) ==
  LET p == ps[Len(ps)]
      start == Start(used, align)
      at == Base(p) + start
  IN /\ pages' = ps /\ next' = start + size
     /\ runs' = runs \cup {[at |-> at, size |-> size, align |-> align, page |-> Len(ps),
                            tag |-> tag, filled |-> filled]}
     /\ mem' = [x \in Bytes |->
                  IF Within(x, at - Header, Header) THEN LenByte(size)
                  ELSE IF Within(x, at, keep) THEN mem[src + (x - at)]
                  ELSE IF Len(ps) > Newest /\ Within(x, p.lo, PageStruct) THEN PageByte(p.prev)
                  ELSE mem[x]]

\* raw: from the head page, or from a new one.  A refused page changes nothing
\* and is no step.
Take(size, align, tag, src, keep, filled) ==
  IF FitsHead(size, align)
  THEN Bump(pages, next, size, align, tag, src, keep, filled)
  ELSE \E p \in Blocks(Want(size, align)) :
         Bump(Append(pages, p), 0, size, align, tag, src, keep, filled)

\* What is written into a run tells it from the others; its copies share it.
Raw(size, align) ==
  /\ phase = "live" /\ Cardinality(runs) < MaxRuns
  /\ Take(size, align, Cardinality(runs) + 1, 0, 0, 0)
  /\ UNCHANGED <<phase, cursor, released>>

\* What realloc reads in front of a run.
Length(r) == mem[r.at - Header].n

\* Mutant: the end of the run is not compared.
LatestInPage(r, old) == r.page = Newest
\* extend_nonempty: the run ends where the next would start.
Latest(r, old) == r.at + old = Base(pages[Newest]) + next

Extends(r, want) ==
  /\ Length(r) > 0 /\ want > Length(r)
  /\ Latest(r, Length(r))
  /\ next + (want - Length(r)) <= pages[Newest].size

\* Mutant: the length in front of the run stays.
Regrown(old, want) == old
\* The length of a run that grows from `old` to `want`.
Grown(old, want) == want

\* How far `next` moves then.
GrowBy(old, want) == want - old

GrowInPlace(r, want) ==
  /\ phase = "live" /\ Extends(r, want)
  /\ next' = next + GrowBy(Length(r), want)
  /\ mem' = [x \in Bytes |-> IF Within(x, r.at - Header, Header)
                             THEN LenByte(Grown(Length(r), want)) ELSE mem[x]]
  /\ runs' = (runs \ {r}) \cup {[r EXCEPT !.size = want]}
  /\ UNCHANGED <<pages, phase, cursor, released>>

\* Where a move copies from.
From(r) == r.at

\* The old run is abandoned as it is.
Move(r, want) ==
  /\ phase = "live" /\ Cardinality(runs) < MaxRuns
  /\ ~Extends(r, want)
  /\ Take(want, AlignMax, r.tag, From(r), Smaller(Length(r), want), Smaller(r.filled, want))
  /\ UNCHANGED <<phase, cursor, released>>

\* The owner writes its run.
Fill(r) ==
  /\ phase = "live" /\ r.filled < r.size
  /\ mem' = [x \in Bytes |-> IF Within(x, r.at, r.size) THEN TagByte(r.tag) ELSE mem[x]]
  /\ runs' = (runs \ {r}) \cup {[r EXCEPT !.filled = r.size]}
  /\ UNCHANGED <<pages, next, phase, cursor, released>>

\* drop: from the head back, each page's link read before it is released.
DropBegins ==
  /\ phase = "live"
  /\ phase' = "dropping" /\ cursor' = Newest /\ runs' = {}
  /\ released' = [k \in 1..Newest |-> 0]
  /\ UNCHANGED <<mem, pages, next>>

\* Mutant: the link is read after the page is released.
DropPageLate ==
  /\ phase = "dropping" /\ cursor > 0
  /\ released' = [released EXCEPT ![cursor] = @ + 1]
  /\ mem' = [x \in Bytes |-> IF Within(x, pages[cursor].lo, PageStruct + pages[cursor].size)
                             THEN Junk ELSE mem[x]]
  /\ cursor' = mem'[pages[cursor].lo].n
  /\ UNCHANGED <<pages, next, runs, phase>>
DropPage ==
  /\ phase = "dropping" /\ cursor > 0
  /\ cursor' = mem[pages[cursor].lo].n
  /\ released' = [released EXCEPT ![cursor] = @ + 1]
  /\ mem' = [x \in Bytes |-> IF Within(x, pages[cursor].lo, PageStruct + pages[cursor].size)
                             THEN Junk ELSE mem[x]]
  /\ UNCHANGED <<pages, next, runs, phase>>

DropEnds ==
  /\ phase = "dropping" /\ cursor = 0
  /\ phase' = "dropped"
  /\ UNCHANGED <<mem, pages, next, runs, cursor, released>>

Next ==
  \/ \E size \in Sizes, align \in Aligns : Raw(size, align)
  \/ \E r \in runs : Fill(r) \/ \E want \in Sizes : GrowInPlace(r, want) \/ Move(r, want)
  \/ DropBegins \/ DropPage \/ DropEnds

Spec == Init /\ [][Next]_vars

-----------------------------------------------------------------------------
(* What should hold. *)

\* No two runs, their lengths included, share a byte: also one grown in place
\* and one placed after it, one abandoned and its copy, one at the end of a page
\* and one in a page that malloc put right behind (bump, extend_nonempty).
Disjoint ==
  \A r, s \in runs : r # s => r.at + r.size <= s.at - Header \/ s.at + s.size <= r.at - Header

\* A run and its length lie in its page, behind its Page struct (bump: the test
\* of FitsHead, chain: the size of a new page).
Inside ==
  \A r \in runs :
    /\ Base(pages[r.page]) <= r.at - Header
    /\ r.at + r.size <= End(pages[r.page])

\* The length of a run is one aligned word, whatever alignment was asked for and
\* after whatever runs (bump: the two roundings).
WordAligned == \A r \in runs : (r.at - Header) % Header = 0

\* What realloc and Fill may write without looking: a run is in its page, apart
\* from the others and their lengths (mem_arena.zen:4, bump, extend_nonempty).
RunsApart == Inside /\ Disjoint

\* A run keeps its length and what its owner wrote, through every growth, its
\* own or another's, and the abandoned copies keep theirs until the arena is
\* dropped (mem_arena.zen:4, :11).
ContentsKept ==
  \A r \in runs :
    /\ \A x \in r.at - Header .. r.at - 1 : mem[x] = LenByte(r.size)
    /\ \A x \in r.at .. r.at + r.filled - 1 : mem[x] = TagByte(r.tag)

\* Drop releases every page once and reads no link of a released one
\* (mem_arena.zen:125, :131).
ReleasedOnce ==
  /\ phase = "dropping" => \A k \in 1..Newest : released[k] = IF k > cursor THEN 1 ELSE 0
  /\ phase = "dropped"  => \A k \in 1..Newest : released[k] = 1

\* A run starts at a multiple of the alignment its caller asked for (raw's
\* `align`; gen_c_alloc.zen:3, the allocator's greatest one).
Aligned == \A r \in runs : r.at % r.align = 0
=============================================================================
