---------------------------- MODULE Arena_proofs ----------------------------
(***************************************************************************)
(* What the arena keeps for any sizes, alignments and page size, any       *)
(* number of runs, and wherever malloc puts its pages.                     *)
(***************************************************************************)
EXTENDS Arena, FiniteSetTheorems, TLAPS

-----------------------------------------------------------------------------
(* The inductive invariant.                                                *)

PageRec == [lo : Nat, size : Nat, prev : Nat]
RunRec == [at : Nat, size : Nat, align : Nat, page : Nat, tag : Nat, filled : Nat]

TypeOK ==
  /\ mem = [x \in Bytes |-> mem[x]]
  /\ pages \in Seq(PageRec) /\ next \in Nat
  /\ runs \subseteq RunRec /\ IsFiniteSet(runs)
  /\ phase \in {"live", "dropping", "dropped"} /\ cursor \in 0..Newest
  /\ phase # "live" => runs = {} /\ released \in [1..Newest -> Nat]

\* Whole pages, in memory, one behind the other in the chain, apart from each
\* other.
Chained(ps) ==
  \A k \in 1..Len(ps) :
    /\ ps[k].prev = k - 1
    /\ End(ps[k]) <= LastByte + 1
    /\ \A j \in 1..Len(ps) : j # k =>
         End(ps[j]) <= ps[k].lo \/ End(ps[k]) <= ps[j].lo

\* Every run is in a page of the chain; in the last one no run goes beyond what
\* is used.
InPages ==
  /\ Newest > 0 => next <= pages[Newest].size
  /\ \A r \in runs :
       /\ r.page \in 1..Newest /\ r.filled <= r.size
       /\ r.page = Newest => r.at + r.size <= Base(pages[Newest]) + next

\* The links of the pages that are not released.
LinksKept ==
  \A k \in 1..Newest : phase = "live" \/ k <= cursor =>
    mem[pages[k].lo] = PageByte(k - 1)

IInv == /\ TypeOK /\ Chained(pages) /\ InPages /\ LinksKept
        /\ RunsApart /\ ContentsKept /\ ReleasedOnce

-----------------------------------------------------------------------------
(* Rounding.                                                               *)

LEMMA AlignUpBounds ==
  ASSUME NEW n \in Nat, NEW a \in Nat \ {0}
  PROVE  /\ AlignUp(n, a) \in Nat
         /\ n <= AlignUp(n, a) /\ AlignUp(n, a) < n + a
<1>1. (n + a - 1) % a \in 0..(a - 1)
  OBVIOUS
<1>2. QED
  BY <1>1 DEF AlignUp

LEMMA AlignUpZero ==
  ASSUME NEW a \in Nat \ {0}
  PROVE  AlignUp(0, a) = 0
<1>1. (a - 1) % a = a - 1
  OBVIOUS
<1>2. QED
  BY <1>1 DEF AlignUp

LEMMA StartBounds ==
  ASSUME NEW used \in Nat, NEW align \in Nat \ {0}
  PROVE  /\ Start(used, align) \in Nat
         /\ used + Header <= Start(used, align)
         /\ Start(0, align) < Header + align
<1>1. AlignUp(used, Header) \in Nat /\ used <= AlignUp(used, Header)
  BY ArenaAssumption, AlignUpBounds
<1>2. AlignUp(used, Header) + Header \in Nat
  BY <1>1, ArenaAssumption
<1>3. /\ Start(used, align) \in Nat
      /\ AlignUp(used, Header) + Header <= Start(used, align)
  BY <1>2, AlignUpBounds DEF Start
<1>4. AlignUp(0, Header) + Header = Header
  BY ArenaAssumption, AlignUpZero
<1>5. Start(0, align) < Header + align
  BY <1>4, ArenaAssumption, AlignUpBounds DEF Start
<1>6. QED
  BY <1>1, <1>3, <1>5, ArenaAssumption

-----------------------------------------------------------------------------
(* Runs handed out.                                                        *)

\* What the chain is after a run was placed in it: as it was, or with a new
\* page behind it.
Chains(ps, used) ==
  \/ ps = pages /\ used = next /\ Newest > 0
  \/ \E size \in Nat : \E p \in Blocks(size) : ps = Append(pages, p) /\ used = 0

LEMMA PageFacts ==
  ASSUME NEW p \in PageRec
  PROVE  /\ p.lo \in Nat /\ p.size \in Nat
         /\ Base(p) \in Nat /\ End(p) \in Nat
         /\ p.lo < Base(p) /\ Base(p) <= End(p)
         /\ Base(p) = p.lo + PageStruct /\ End(p) = Base(p) + p.size
<1>1. p.lo \in Nat /\ p.size \in Nat
  BY DEF PageRec
<1>2. QED
  BY <1>1, ArenaAssumption DEF Base, End

LEMMA RunFacts ==
  ASSUME NEW r \in RunRec
  PROVE  /\ r.at \in Nat /\ r.size \in Nat /\ r.align \in Nat
         /\ r.page \in Nat /\ r.tag \in Nat /\ r.filled \in Nat
BY DEF RunRec

LEMMA BlockFacts ==
  ASSUME IInv, NEW size \in Nat, NEW p \in Blocks(size)
  PROVE  /\ p \in PageRec /\ p.prev = Newest /\ p.size = size
         /\ End(p) <= LastByte + 1
         /\ \A k \in 1..Newest : End(p) <= pages[k].lo \/ End(pages[k]) <= p.lo
<1>1. Newest \in Nat
  BY DEF IInv, TypeOK, Newest
<1>2. QED
  BY <1>1, ArenaAssumption DEF Blocks, PageRec

\* The chain with the new page is as good as the old one.
LEMMA ChainGrows ==
  ASSUME IInv, NEW ps, NEW used, Chains(ps, used)
  PROVE  /\ ps \in Seq(PageRec) /\ Len(ps) \in Nat \ {0} /\ used \in Nat
         /\ Newest \in Nat /\ Newest <= Len(ps)
         /\ \A k \in 1..Newest : ps[k] = pages[k]
         /\ Len(ps) > Newest => Len(ps) = Newest + 1
         /\ Len(ps) = Newest => ps = pages /\ used = next
         /\ \A k \in 1..Len(ps) : ps[k] \in PageRec
         /\ Chained(ps)
<1>1. /\ pages \in Seq(PageRec) /\ next \in Nat /\ Newest \in Nat
      /\ Newest = Len(pages) /\ Chained(pages)
      /\ \A k \in 1..Newest : pages[k] \in PageRec
  BY DEF IInv, TypeOK, Newest
<1>2. CASE ps = pages /\ used = next /\ Newest > 0
  BY <1>1, <1>2
<1>3. ASSUME NEW size \in Nat, NEW p \in Blocks(size),
             ps = Append(pages, p), used = 0
      PROVE  /\ ps \in Seq(PageRec) /\ Len(ps) = Newest + 1
             /\ \A k \in 1..Newest : ps[k] = pages[k]
             /\ ps[Newest + 1] = p
             /\ Chained(ps)
  <2>1. /\ p \in PageRec /\ p.prev = Newest /\ End(p) <= LastByte + 1
        /\ \A k \in 1..Newest : End(p) <= pages[k].lo \/ End(pages[k]) <= p.lo
    BY BlockFacts
  <2>2. /\ ps \in Seq(PageRec) /\ Len(ps) = Newest + 1
        /\ \A k \in 1..Newest : ps[k] = pages[k]
        /\ ps[Newest + 1] = p
    BY <1>1, <1>3, <2>1
  <2>3. ASSUME NEW k \in 1..Len(ps)
        PROVE  ps[k].prev = k - 1 /\ End(ps[k]) <= LastByte + 1
    <3>1. CASE k \in 1..Newest
      BY <1>1, <2>2, <3>1 DEF Chained
    <3>2. CASE k = Newest + 1
      BY <1>1, <2>1, <2>2, <3>2
    <3>3. QED
      BY <1>1, <2>2, <3>1, <3>2
  <2>4. ASSUME NEW k \in 1..Len(ps), NEW j \in 1..Len(ps), j # k
        PROVE  End(ps[j]) <= ps[k].lo \/ End(ps[k]) <= ps[j].lo
    <3>1. CASE k \in 1..Newest /\ j \in 1..Newest
      BY <1>1, <2>2, <2>4, <3>1 DEF Chained
    <3>2. CASE k = Newest + 1
      BY <1>1, <2>1, <2>2, <2>4, <3>2
    <3>3. CASE j = Newest + 1
      BY <1>1, <2>1, <2>2, <2>4, <3>3
    <3>4. QED
      BY <1>1, <2>2, <3>1, <3>2, <3>3
  <2>5. QED
    BY <2>2, <2>3, <2>4 DEF Chained
<1>4. ASSUME NEW size \in Nat, NEW p \in Blocks(size),
             ps = Append(pages, p), used = 0
      PROVE  \A k \in 1..Len(ps) : ps[k] \in PageRec
  BY <1>1, <1>3, <1>4, BlockFacts
<1>5. QED
  BY <1>1, <1>2, <1>3, <1>4 DEF Chains

\* What is copied into a run is as long as the run at most, and what of it was
\* written carries its tag.
Copied(size, tag, src, keep, filled) ==
  /\ keep <= size /\ filled <= keep
  /\ \A i \in 0..(filled - 1) : mem[src + i] = TagByte(tag)

Fits(ps, used, size, align) ==
  Start(used, align) + size <= ps[Len(ps)].size

\* A run taken by bump: from `ps` with `used` bytes used, where it fits, holding
\* a copy of `filled` bytes that carry its tag.
LEMMA BumpStep ==
  ASSUME IInv, phase = "live", NEW ps, NEW used, Chains(ps, used),
         NEW size \in Nat, NEW align \in Nat \ {0}, NEW tag \in Nat,
         NEW src \in Int, NEW keep \in Nat, NEW filled \in Nat,
         Copied(size, tag, src, keep, filled), Fits(ps, used, size, align),
         Bump(ps, used, size, align, tag, src, keep, filled),
         UNCHANGED <<phase, cursor, released>>
  PROVE  IInv'
<1> DEFINE n == Len(ps)
           p == ps[n]
           start == Start(used, align)
           at == Base(p) + start
           q == [at |-> at, size |-> size, align |-> align, page |-> n,
                 tag |-> tag, filled |-> filled]
<1> HIDE DEF n, p, start, at, q
<1>1. /\ ps \in Seq(PageRec) /\ n \in Nat \ {0} /\ used \in Nat
      /\ Newest \in Nat /\ Newest <= n
      /\ \A k \in 1..Newest : ps[k] = pages[k]
      /\ n > Newest => n = Newest + 1
      /\ n = Newest => ps = pages /\ used = next
      /\ \A k \in 1..n : ps[k] \in PageRec
      /\ Chained(ps)
  BY ChainGrows DEF n
<1>2. /\ start \in Nat /\ used + Header <= start /\ start + size <= p.size
      /\ Header \in Nat \ {0} /\ PageStruct \in Nat \ {0} /\ LastByte \in Nat
      /\ keep <= size /\ filled <= keep
  BY <1>1, StartBounds, ArenaAssumption DEF start, p, n, Fits, Copied
<1>3. /\ p \in PageRec /\ p.lo \in Nat /\ p.size \in Nat /\ at \in Nat
      /\ Base(p) \in Nat /\ End(p) \in Nat /\ p.prev = n - 1
      /\ End(p) <= LastByte + 1 /\ Base(p) = p.lo + PageStruct
      /\ Base(p) + used <= at - Header /\ at + size <= End(p)
  <2>1. p \in PageRec /\ p.lo \in Nat /\ p.size \in Nat
    <3>1. p \in PageRec
      BY <1>1 DEF p
    <3>2. QED
      BY <3>1, PageFacts
  <2>2. p.prev = n - 1 /\ End(p) <= LastByte + 1
    BY <1>1 DEF Chained, p, n
  <2>3. /\ Base(p) \in Nat /\ End(p) \in Nat /\ Base(p) = p.lo + PageStruct
        /\ End(p) = Base(p) + p.size
    BY <2>1, PageFacts
  <2>4. at = Base(p) + start
    BY DEF at
  <2>5. at \in Nat /\ Base(p) + used <= at - Header /\ at + size <= End(p)
    <3>1. used \in Nat
      BY <1>1
    <3>2. QED
      BY <1>2, <2>1, <2>3, <2>4, <3>1
  <2>6. QED
    BY <2>1, <2>2, <2>3, <2>5
<1>4. /\ pages' = ps /\ next' = start + size /\ runs' = runs \cup {q}
      /\ Newest' = n /\ phase' = "live" /\ cursor' = cursor
      /\ released' = released
  BY DEF Bump, Newest, n, p, start, at, q
<1>5. ASSUME NEW r \in runs
      PROVE  /\ r \in RunRec /\ r.page \in 1..Newest /\ r.page \in 1..n
             /\ r.filled <= r.size /\ r.at \in Nat /\ r.size \in Nat
             /\ r.filled \in Nat /\ r.tag \in Nat
             /\ ps[r.page] = pages[r.page]
             /\ pages[r.page] \in PageRec
             /\ Base(pages[r.page]) <= r.at - Header
             /\ r.at + r.size <= End(pages[r.page])
             /\ Base(pages[r.page]) \in Nat /\ End(pages[r.page]) \in Nat
  <2>1. r \in RunRec /\ r.page \in 1..Newest /\ r.filled <= r.size
    BY DEF IInv, TypeOK, InPages
  <2>2. r.page \in 1..n /\ ps[r.page] = pages[r.page]
    BY <1>1, <2>1
  <2>3. pages[r.page] \in PageRec
    BY <1>1, <2>2
  <2>4. /\ Base(pages[r.page]) <= r.at - Header
        /\ r.at + r.size <= End(pages[r.page])
    BY DEF IInv, RunsApart, Inside
  <2>5. Base(pages[r.page]) \in Nat /\ End(pages[r.page]) \in Nat
    BY <2>3, PageFacts
  <2>6. r.at \in Nat /\ r.size \in Nat /\ r.filled \in Nat /\ r.tag \in Nat
    BY <2>1, RunFacts
  <2>7. QED
    BY <2>1, <2>2, <2>3, <2>4, <2>5, <2>6
<1>6. ASSUME NEW k \in 1..n, k # n
      PROVE  /\ ps[k].lo \in Nat /\ End(ps[k]) \in Nat
             /\ ps[k].lo < End(ps[k])
             /\ End(ps[k]) <= p.lo \/ End(p) <= ps[k].lo
  <2>1. ps[k] \in PageRec
    BY <1>1
  <2>2. n \in 1..n
    BY <1>1
  <2>3. End(ps[k]) <= ps[n].lo \/ End(ps[n]) <= ps[k].lo
    BY <1>1, <1>6, <2>2 DEF Chained, n
  <2>4. ps[k].lo \in Nat /\ End(ps[k]) \in Nat /\ ps[k].lo < End(ps[k])
    BY <2>1, PageFacts
  <2>5. QED
    BY <2>3, <2>4 DEF p
\* The new run is apart from every old one.
<1>7. ASSUME NEW r \in runs
      PROVE  r.at + r.size <= at - Header \/ at + size <= r.at - Header
  <2>1. CASE r.page = n
    <3>1. n = Newest /\ ps = pages /\ used = next
      BY <1>1, <1>5, <2>1
    <3>2. r.at + r.size <= Base(p) + next
      BY <2>1, <3>1 DEF IInv, InPages, p
    <3>3. Base(p) + next <= at - Header
      BY <1>3, <3>1
    <3>4. next \in Nat
      BY DEF IInv, TypeOK
    <3>5. QED
      BY <1>2, <1>3, <1>5, <3>2, <3>3, <3>4
  <2>2. CASE r.page # n
    <3>1. End(pages[r.page]) <= p.lo \/ End(p) <= pages[r.page].lo
      BY <1>5, <1>6, <2>2
    <3>2. /\ pages[r.page].lo \in Nat
          /\ pages[r.page].lo < Base(pages[r.page])
      BY <1>5, PageFacts
    <3>3. /\ Base(pages[r.page]) <= r.at - Header
          /\ r.at + r.size <= End(pages[r.page])
          /\ Base(pages[r.page]) \in Nat /\ End(pages[r.page]) \in Nat
          /\ r.at \in Nat /\ r.size \in Nat
      BY <1>5
    <3>4. /\ p.lo \in Nat /\ Base(p) \in Nat /\ End(p) \in Nat /\ at \in Nat
          /\ p.lo <= at - Header /\ at + size <= End(p) /\ Header \in Nat
      <4>1. used \in Nat
        BY <1>1
      <4>2. QED
        BY <1>2, <1>3, <4>1
    <3>5. QED
      BY <3>1, <3>2, <3>3, <3>4
  <2>3. QED
    BY <2>1, <2>2
\* What is written.
<1>8. /\ mem' = [x \in Bytes |-> mem'[x]]
      /\ \A x \in Bytes :
           mem'[x] = IF Within(x, at - Header, Header) THEN LenByte(size)
                     ELSE IF Within(x, at, keep) THEN mem[src + (x - at)]
                     ELSE IF n > Newest /\ Within(x, p.lo, PageStruct)
                            THEN PageByte(p.prev)
                     ELSE mem[x]
  BY DEF Bump, n, p, start, at
<1>9. ASSUME NEW r \in runs, NEW x \in r.at - Header .. r.at + r.size - 1
      PROVE  x \in Bytes /\ mem'[x] = mem[x]
  <2> DEFINE home == pages[r.page]
  <2>a. /\ r.at \in Nat /\ r.size \in Nat /\ home \in PageRec
        /\ Base(home) <= r.at - Header /\ r.at + r.size <= End(home)
    BY <1>5
  <2>b. /\ home.lo \in Nat /\ Base(home) \in Nat /\ End(home) \in Nat
        /\ home.lo < Base(home)
    BY <2>a, PageFacts
  <2> HIDE DEF home
  <2>1. /\ x \in Int /\ x >= r.at - Header /\ x < r.at + r.size
        /\ home.lo < x /\ x < End(home)
    BY <1>2, <2>a, <2>b
  <2>2. x \in Bytes
    <3>1. End(home) <= LastByte + 1
      BY <1>5 DEF IInv, Chained, Newest, home
    <3>2. QED
      BY <1>2, <2>b, <2>1, <3>1 DEF Bytes
  <2>3. ~Within(x, at - Header, Header) /\ ~Within(x, at, keep)
    <3>1. r.at + r.size <= at - Header \/ at + size <= r.at - Header
      BY <1>7
    <3>2. at \in Nat /\ Header \in Nat
      BY <1>2, <1>3
    <3>3. QED
      BY <1>2, <2>a, <2>1, <3>1, <3>2 DEF Within
  <2>4. ~(n > Newest /\ Within(x, p.lo, PageStruct))
    <3>1. SUFFICES ASSUME n > Newest PROVE ~Within(x, p.lo, PageStruct)
      OBVIOUS
    <3>2. r.page # n
      BY <1>1, <1>5, <3>1
    <3>3. End(home) <= p.lo \/ End(p) <= home.lo
      BY <1>5, <1>6, <3>2 DEF home
    <3>4. /\ p.lo \in Nat /\ PageStruct \in Nat /\ End(p) \in Nat
          /\ p.lo + PageStruct <= End(p)
      BY <1>2, <1>3, PageFacts
    <3>5. QED
      BY <2>b, <2>1, <3>3, <3>4 DEF Within
  <2>5. QED
    BY <1>8, <2>2, <2>3, <2>4
<1>10. TypeOK'
  <2>1. q \in RunRec
    BY <1>1, <1>3 DEF RunRec, q
  <2>2. runs' \subseteq RunRec /\ IsFiniteSet(runs')
    BY <1>4, <2>1, FS_AddElement DEF IInv, TypeOK
  <2>3. cursor' \in 0..Newest'
    BY <1>1, <1>4 DEF IInv, TypeOK
  <2>4. pages' \in Seq(PageRec) /\ next' \in Nat
    BY <1>1, <1>2, <1>4
  <2>5. QED
    BY <1>4, <1>8, <2>2, <2>3, <2>4 DEF TypeOK
<1>11. Chained(pages)'
  BY <1>1, <1>4 DEF Chained, End, Base, n
<1>12. InPages'
  <2>1. next' <= pages'[Newest'].size
    BY <1>2, <1>4 DEF p
  <2>2. ASSUME NEW r \in runs'
        PROVE  /\ r.page \in 1..Newest' /\ r.filled <= r.size
               /\ r.page = Newest' => r.at + r.size <= Base(p) + next'
    <3>1. CASE r = q
      <4>1. r.page = n /\ r.filled = filled /\ r.size = size /\ r.at = at
        BY <3>1 DEF q
      <4>2. n \in 1..n /\ filled <= size
        BY <1>1, <1>2
      <4>3. at + size = Base(p) + (start + size)
        BY <1>2, <1>3 DEF at
      <4>4. QED
        BY <1>3, <1>4, <4>1, <4>2, <4>3
    <3>2. CASE r \in runs
      <4>1. ASSUME r.page = n PROVE r.at + r.size <= Base(p) + next
        BY <1>1, <1>5, <3>2, <4>1 DEF IInv, InPages, p
      <4>2. ASSUME r.page = n PROVE next <= next'
        BY <1>1, <1>2, <1>4, <1>5, <3>2, <4>2
      <4>3. next \in Nat
        BY DEF IInv, TypeOK
      <4>4. QED
        <5>1. /\ r.page \in 1..n /\ r.filled <= r.size /\ r.at \in Nat
              /\ r.size \in Nat
          BY <1>5, <3>2
        <5>2. Base(p) \in Nat /\ next' \in Nat
          BY <1>2, <1>3, <1>4
        <5>3. ASSUME r.page = n PROVE r.at + r.size <= Base(p) + next'
          BY <4>1, <4>2, <4>3, <5>1, <5>2, <5>3
        <5>4. QED
          BY <1>4, <5>1, <5>3
    <3>3. QED
      BY <1>4, <2>2, <3>1, <3>2
  <2>3. QED
    BY <1>4, <2>1, <2>2 DEF InPages, Base, p
<1>13. LinksKept'
  <2>1. SUFFICES ASSUME NEW k \in 1..n PROVE mem'[ps[k].lo] = PageByte(k - 1)
    BY <1>4 DEF LinksKept
  <2> DEFINE x == ps[k].lo
  <2>2. /\ x \in Nat /\ End(ps[k]) \in Nat /\ Base(ps[k]) \in Nat
        /\ x < Base(ps[k]) /\ Base(ps[k]) <= End(ps[k])
        /\ End(ps[k]) <= LastByte + 1
    <3>1. ps[k] \in PageRec
      BY <1>1
    <3>2. End(ps[k]) <= LastByte + 1
      BY <1>1 DEF Chained, n
    <3>3. QED
      BY <3>1, <3>2, PageFacts
  <2> HIDE DEF x
  <2>3. x \in Bytes
    BY <1>2, <2>2 DEF Bytes
  <2>4. ~Within(x, at - Header, Header) /\ ~Within(x, at, keep)
    <3>1. /\ at \in Nat /\ Header \in Nat /\ Base(p) <= at - Header
          /\ at + size <= End(p) /\ Base(p) \in Nat /\ End(p) \in Nat
          /\ p.lo \in Nat /\ p.lo < Base(p)
      <4>1. used \in Nat
        BY <1>1
      <4>2. QED
        BY <1>2, <1>3, <4>1
    <3>2. CASE k = n
      <4>1. x = p.lo
        BY <3>2 DEF x, p
      <4>2. QED
        BY <3>1, <4>1 DEF Within
    <3>3. CASE k # n
      <4>1. x < p.lo \/ End(p) <= x
        <5>1. End(ps[k]) <= p.lo \/ End(p) <= ps[k].lo
          BY <1>6, <3>3
        <5>2. QED
          BY <2>2, <3>1, <5>1 DEF x
      <4>2. QED
        BY <1>2, <2>2, <3>1, <4>1 DEF Within
    <3>4. QED
      BY <3>2, <3>3
  <2>5. CASE k = n /\ n > Newest
    <3>1. x = p.lo /\ p.prev = k - 1
      BY <1>3, <2>5 DEF x, p
    <3>2. Within(x, p.lo, PageStruct)
      BY <1>2, <1>3, <3>1 DEF Within
    <3>3. mem'[x] = PageByte(p.prev)
      BY <1>8, <2>3, <2>4, <2>5, <3>2
    <3>4. QED
      BY <3>1, <3>3 DEF x
  <2>6. CASE ~(k = n /\ n > Newest)
    <3>1. k \in 1..Newest /\ ps[k] = pages[k]
      BY <1>1, <2>6
    <3>2. mem[pages[k].lo] = PageByte(k - 1)
      BY <3>1 DEF IInv, LinksKept
    <3>3. ~(n > Newest /\ Within(x, p.lo, PageStruct))
      <4>1. SUFFICES ASSUME k # n PROVE ~Within(x, p.lo, PageStruct)
        BY <2>6
      <4>2. End(ps[k]) <= p.lo \/ End(p) <= x
        BY <1>6, <4>1 DEF x
      <4>3. /\ p.lo \in Nat /\ PageStruct \in Nat /\ End(p) \in Nat
            /\ p.lo + PageStruct <= End(p)
        BY <1>2, <1>3, PageFacts
      <4>4. QED
        BY <2>2, <4>2, <4>3 DEF Within
    <3>4. mem'[x] = mem[x]
      BY <1>8, <2>3, <2>4, <3>3
    <3>5. QED
      BY <3>1, <3>2, <3>4 DEF x
  <2>7. QED
    BY <2>5, <2>6
<1>14. RunsApart'
  <2>1. ASSUME NEW r \in runs'
        PROVE  /\ Base(ps[r.page]) <= r.at - Header
               /\ r.at + r.size <= End(ps[r.page])
    <3>1. CASE r = q
      <4>1. r.page = n /\ r.at = at /\ r.size = size
        BY <3>1 DEF q
      <4>2. Base(p) <= at - Header
        <5>1. used \in Nat
          BY <1>1
        <5>2. QED
          BY <1>2, <1>3, <5>1
      <4>3. QED
        BY <1>3, <4>1, <4>2 DEF p
    <3>2. CASE r \in runs
      BY <1>5, <3>2
    <3>3. QED
      BY <1>4, <2>1, <3>1, <3>2
  <2>2. ASSUME NEW r \in runs', NEW s \in runs', r # s
        PROVE  \/ r.at + r.size <= s.at - Header
               \/ s.at + s.size <= r.at - Header
    <3>1. CASE r \in runs /\ s \in runs
      BY <2>2, <3>1 DEF IInv, RunsApart, Disjoint
    <3>2. CASE r = q /\ s \in runs
      BY <1>7, <3>2 DEF q
    <3>3. CASE s = q /\ r \in runs
      BY <1>7, <3>3 DEF q
    <3>4. QED
      BY <1>4, <2>2, <3>1, <3>2, <3>3
  <2>3. Inside'
    BY <1>4, <2>1 DEF Inside, Base, End
  <2>4. Disjoint'
    BY <2>2 DEF Disjoint
  <2>5. QED
    BY <2>3, <2>4 DEF RunsApart
<1>15. ContentsKept'
  <2>1. ASSUME NEW r \in runs'
        PROVE  /\ \A x \in r.at - Header .. r.at - 1 : mem'[x] = LenByte(r.size)
               /\ \A x \in r.at .. r.at + r.filled - 1 : mem'[x] = TagByte(r.tag)
    <3>1. CASE r \in runs
      <4>1. ASSUME NEW x \in r.at - Header .. r.at - 1
            PROVE  mem'[x] = LenByte(r.size)
        <5>1. x \in r.at - Header .. r.at + r.size - 1
          <6>1. r.at \in Nat /\ r.size \in Nat
            BY <1>5, <3>1
          <6>2. QED
            BY <1>2, <4>1, <6>1
        <5>2. mem[x] = LenByte(r.size)
          BY <3>1, <4>1 DEF IInv, ContentsKept
        <5>3. QED
          BY <1>9, <3>1, <5>1, <5>2
      <4>2. ASSUME NEW x \in r.at .. r.at + r.filled - 1
            PROVE  mem'[x] = TagByte(r.tag)
        <5>1. x \in r.at - Header .. r.at + r.size - 1
          <6>1. /\ r.at \in Nat /\ r.size \in Nat /\ r.filled \in Nat
                /\ r.filled <= r.size
            BY <1>5, <3>1
          <6>2. QED
            BY <1>2, <4>2, <6>1
        <5>2. mem[x] = TagByte(r.tag)
          BY <3>1, <4>2 DEF IInv, ContentsKept
        <5>3. QED
          BY <1>9, <3>1, <5>1, <5>2
      <4>3. QED
        BY <4>1, <4>2
    <3>2. CASE r = q
      <4>1. ASSUME NEW x \in at - Header .. at - 1
            PROVE  mem'[x] = LenByte(size)
        <5>1. x \in Bytes /\ Within(x, at - Header, Header)
          <6>1. /\ at \in Nat /\ at - Header >= 0 /\ at + size <= LastByte + 1
                /\ LastByte \in Nat /\ Header \in Nat
            <7>1. used \in Nat
              BY <1>1
            <7>2. QED
              BY <1>2, <1>3, <7>1
          <6>2. QED
            BY <4>1, <6>1 DEF Bytes, Within
        <5>2. QED
          BY <1>8, <5>1
      <4>2. ASSUME NEW x \in at .. at + filled - 1
            PROVE  mem'[x] = TagByte(tag)
        <5>1. /\ x \in Bytes /\ ~Within(x, at - Header, Header)
              /\ Within(x, at, keep)
          <6>1. /\ at \in Nat /\ at + size <= LastByte + 1
                /\ LastByte \in Nat /\ Header \in Nat
            BY <1>2, <1>3
          <6>2. QED
            BY <1>2, <4>2, <6>1 DEF Bytes, Within
        <5>2. mem'[x] = mem[src + (x - at)]
          BY <1>8, <5>1
        <5>3. x - at \in 0..(filled - 1)
          BY <1>3, <4>2
        <5>4. QED
          BY <5>2, <5>3 DEF Copied
      <4>3. QED
        BY <3>2, <4>1, <4>2 DEF q
    <3>3. QED
      BY <1>4, <2>1, <3>1, <3>2
  <2>2. QED
    BY <2>1 DEF ContentsKept
<1>16. ReleasedOnce'
  BY <1>4 DEF ReleasedOnce
<1>17. QED
  BY <1>10, <1>11, <1>12, <1>13, <1>14, <1>15, <1>16 DEF IInv

LEMMA WantFits ==
  ASSUME NEW size \in Nat, NEW align \in Nat \ {0}
  PROVE  Want(size, align) \in Nat /\ Start(0, align) + size <= Want(size, align)
<1>1. Header \in Nat /\ PageBytes \in Nat
  BY ArenaAssumption
<1>2. Want(size, align) \in Nat /\ Header + align + size <= Want(size, align)
  BY <1>1 DEF Want, Larger
<1>3. Start(0, align) \in Nat /\ Start(0, align) < Header + align
  BY StartBounds
<1>4. QED
  BY <1>1, <1>2, <1>3

\* raw, from the head page or a new one.
LEMMA TakeStep ==
  ASSUME IInv, phase = "live", NEW size \in Nat, NEW align \in Nat \ {0},
         NEW tag \in Nat, NEW src \in Int, NEW keep \in Nat, NEW filled \in Nat,
         Copied(size, tag, src, keep, filled),
         Take(size, align, tag, src, keep, filled),
         UNCHANGED <<phase, cursor, released>>
  PROVE  IInv'
<1>1. CASE FitsHead(size, align)
  <2>1. Bump(pages, next, size, align, tag, src, keep, filled)
    BY <1>1 DEF Take
  <2>2. Chains(pages, next) /\ Fits(pages, next, size, align)
    BY <1>1 DEF FitsHead, Chains, Fits, Newest
  <2>3. QED
    BY <2>1, <2>2, BumpStep
<1>2. CASE ~FitsHead(size, align)
  <2>1. PICK p \in Blocks(Want(size, align)) :
          Bump(Append(pages, p), 0, size, align, tag, src, keep, filled)
    BY <1>2 DEF Take
  <2> DEFINE ps == Append(pages, p)
  <2>2. Want(size, align) \in Nat /\ Start(0, align) + size <= Want(size, align)
    BY WantFits
  <2>3. Chains(ps, 0)
    BY <2>2 DEF Chains
  <2>4. ps[Len(ps)] = p
    <3>1. pages \in Seq(PageRec)
      BY DEF IInv, TypeOK
    <3>2. p \in PageRec
      BY <2>2, BlockFacts
    <3>3. QED
      BY <3>1, <3>2
  <2>5. Fits(ps, 0, size, align)
    <3>1. p.size = Want(size, align)
      BY <2>2, BlockFacts
    <3>2. QED
      BY <2>2, <2>4, <3>1 DEF Fits
  <2>6. QED
    BY <2>1, <2>3, <2>5, BumpStep
<1>3. QED
  BY <1>1, <1>2

LEMMA RawStep ==
  ASSUME IInv, NEW size \in Sizes, NEW align \in Aligns, Raw(size, align)
  PROVE  IInv'
<1>1. size \in Nat /\ align \in Nat \ {0}
  BY ArenaAssumption
<1>2. Cardinality(runs) + 1 \in Nat
  <2>1. IsFiniteSet(runs)
    BY DEF IInv, TypeOK
  <2>2. Cardinality(runs) \in Nat
    BY <2>1, FS_CardinalityType
  <2>3. QED
    BY <2>2
<1>3. Copied(size, Cardinality(runs) + 1, 0, 0, 0)
  BY <1>1 DEF Copied
<1>4. QED
  BY <1>1, <1>2, <1>3, TakeStep DEF Raw

-----------------------------------------------------------------------------
(* Growth.                                                                 *)

\* What realloc reads in front of a run is its length.
LEMMA LengthIsSize ==
  ASSUME IInv, NEW r \in runs
  PROVE  r \in RunRec /\ Length(r) = r.size
<1>1. r \in RunRec
  BY DEF IInv, TypeOK
<1>2. Header \in Nat \ {0} /\ r.at \in Nat
  BY <1>1, RunFacts, ArenaAssumption
<1>3. r.at - Header \in r.at - Header .. r.at - 1
  BY <1>2
<1>4. mem[r.at - Header] = LenByte(r.size)
  BY <1>3 DEF IInv, ContentsKept
<1>5. QED
  BY <1>1, <1>4 DEF Length, LenByte

LEMMA MoveStep ==
  ASSUME IInv, NEW r \in runs, NEW want \in Sizes, Move(r, want)
  PROVE  IInv'
<1> DEFINE keep == Smaller(r.size, want)
           filled == Smaller(r.filled, want)
<1>1. /\ r.at \in Nat /\ r.size \in Nat /\ r.filled \in Nat /\ r.tag \in Nat
      /\ Length(r) = r.size
  BY LengthIsSize, RunFacts
<1>2. want \in Nat /\ AlignMax \in Nat \ {0}
  BY ArenaAssumption
<1>3. r.filled <= r.size
  BY DEF IInv, InPages
<1>4. keep \in Nat /\ filled \in Nat /\ keep <= want /\ filled <= keep
      /\ filled <= r.filled
  BY <1>1, <1>2, <1>3 DEF Smaller
<1> HIDE DEF keep, filled
<1>5. Copied(want, r.tag, r.at, keep, filled)
  <2>1. ASSUME NEW i \in 0..(filled - 1) PROVE mem[r.at + i] = TagByte(r.tag)
    <3>1. r.at + i \in r.at .. r.at + r.filled - 1
      BY <1>1, <1>4, <2>1
    <3>2. QED
      BY <3>1 DEF IInv, ContentsKept
  <2>2. QED
    BY <1>4, <2>1 DEF Copied
<1>6. /\ phase = "live" /\ UNCHANGED <<phase, cursor, released>>
      /\ Take(want, AlignMax, r.tag, r.at, keep, filled)
  BY <1>1 DEF Move, From, keep, filled
<1>7. r.at \in Int
  BY <1>1
<1>8. QED
  BY <1>1, <1>2, <1>4, <1>5, <1>6, <1>7, TakeStep

-----------------------------------------------------------------------------
(* A run that is changed where it lies.                                    *)

Apart(r, s) == r.at + r.size <= s.at - Header \/ s.at + s.size <= r.at - Header

\* The run r becomes q: at the same place, still in its page and apart from the
\* others, with its own length and content, nothing else written.
Becomes(r, q) ==
  /\ q.at = r.at /\ q.page = r.page /\ q.filled <= q.size
  /\ q.at + q.size <= End(pages[r.page])
  /\ \A s \in runs : s # r => Apart(s, q)
  /\ runs' = (runs \ {r}) \cup {q}
  /\ next' \in Nat /\ next <= next' /\ next' <= pages[Newest].size
  /\ r.page = Newest => q.at + q.size <= Base(pages[Newest]) + next'
  /\ mem' = [x \in Bytes |-> mem'[x]]
  /\ \A x \in Bytes : ~Within(x, q.at - Header, Header + q.size) => mem'[x] = mem[x]
  /\ \A x \in q.at - Header .. q.at - 1 : mem'[x] = LenByte(q.size)
  /\ \A x \in q.at .. q.at + q.filled - 1 : mem'[x] = TagByte(q.tag)
  /\ UNCHANGED <<pages, phase, cursor, released>>

LEMMA RunPlace ==
  ASSUME IInv, NEW r \in runs
  PROVE  /\ r \in RunRec /\ r.at \in Nat /\ r.size \in Nat /\ r.filled \in Nat
         /\ r.filled <= r.size
         /\ Newest \in Nat /\ r.page \in 1..Newest /\ pages[r.page] \in PageRec
         /\ Base(pages[r.page]) <= r.at - Header
         /\ r.at + r.size <= End(pages[r.page])
         /\ End(pages[r.page]) <= LastByte + 1
<1>1. /\ r \in RunRec /\ pages \in Seq(PageRec) /\ Newest = Len(pages)
      /\ r.page \in 1..Newest /\ r.filled <= r.size
  BY DEF IInv, TypeOK, InPages, Newest
<1>2. Newest \in Nat /\ pages[r.page] \in PageRec
  BY <1>1
<1>3. End(pages[r.page]) <= LastByte + 1
  BY <1>1 DEF IInv, Chained
<1>4. /\ Base(pages[r.page]) <= r.at - Header
      /\ r.at + r.size <= End(pages[r.page])
  BY DEF IInv, RunsApart, Inside
<1>5. r.at \in Nat /\ r.size \in Nat /\ r.filled \in Nat
  BY <1>1, RunFacts
<1>6. QED
  BY <1>1, <1>2, <1>3, <1>4, <1>5

LEMMA PagesApart ==
  ASSUME IInv, NEW k \in 1..Newest, NEW j \in 1..Newest, j # k
  PROVE  /\ pages[k] \in PageRec /\ pages[j] \in PageRec
         /\ End(pages[j]) <= pages[k].lo \/ End(pages[k]) <= pages[j].lo
<1>1. pages \in Seq(PageRec) /\ Newest = Len(pages)
  BY DEF IInv, TypeOK, Newest
<1>2. QED
  BY <1>1 DEF IInv, Chained

LEMMA BecomesStep ==
  ASSUME IInv, phase = "live", NEW r \in runs, NEW q \in RunRec, Becomes(r, q)
  PROVE  IInv'
<1> DEFINE p == pages[r.page]
<1>1. /\ Newest \in Nat /\ r.page \in 1..Newest /\ p \in PageRec
      /\ Base(p) <= r.at - Header /\ End(p) <= LastByte + 1
  BY RunPlace
<1>2. /\ Base(p) \in Nat /\ End(p) \in Nat /\ p.lo \in Nat /\ p.lo < Base(p)
  BY <1>1, PageFacts
<1> HIDE DEF p
<1>3. /\ Header \in Nat \ {0} /\ LastByte \in Nat
      /\ q.at \in Nat /\ q.size \in Nat /\ q.filled \in Nat
  BY ArenaAssumption, RunFacts
<1>4. /\ q.at = r.at /\ q.page = r.page /\ q.filled <= q.size
      /\ q.at + q.size <= End(p) /\ Base(p) <= q.at - Header
      /\ \A s \in runs : s # r => Apart(s, q)
      /\ runs' = (runs \ {r}) \cup {q}
      /\ pages' = pages /\ phase' = phase /\ cursor' = cursor
      /\ released' = released /\ Newest' = Newest
  BY <1>1 DEF Becomes, p, Newest
<1>5. /\ next' \in Nat /\ next \in Nat
      /\ next <= next' /\ next' <= pages[Newest].size
      /\ r.page = Newest => q.at + q.size <= Base(pages[Newest]) + next'
  <2>1. next \in Nat /\ next <= next' /\ next' <= pages[Newest].size
    BY DEF Becomes, IInv, TypeOK
  <2>2. next' \in Nat
    BY DEF Becomes
  <2>3. QED
    BY <2>1, <2>2 DEF Becomes
<1>6. /\ mem' = [x \in Bytes |-> mem'[x]]
      /\ \A x \in Bytes : ~Within(x, q.at - Header, Header + q.size) => mem'[x] = mem[x]
      /\ \A x \in q.at - Header .. q.at - 1 : mem'[x] = LenByte(q.size)
      /\ \A x \in q.at .. q.at + q.filled - 1 : mem'[x] = TagByte(q.tag)
  BY DEF Becomes
<1>7. TypeOK'
  <2>1. runs' \subseteq RunRec
    BY <1>4 DEF IInv, TypeOK
  <2>2. IsFiniteSet(runs')
    BY <1>4, FS_AddElement, FS_RemoveElement DEF IInv, TypeOK
  <2>3. QED
    BY <1>4, <1>5, <1>6, <2>1, <2>2 DEF IInv, TypeOK
<1>8. Chained(pages)'
  BY <1>4 DEF IInv, Chained, End, Base
<1>9. InPages'
  <2>1. ASSUME NEW s \in runs'
        PROVE  /\ s.page \in 1..Newest /\ s.filled <= s.size
               /\ s.page = Newest => s.at + s.size <= Base(pages[Newest]) + next'
    <3>1. CASE s = q
      BY <1>1, <1>4, <1>5, <3>1
    <3>2. CASE s \in runs
      <4>1. /\ s.page \in 1..Newest /\ s.filled <= s.size
            /\ s.page = Newest => s.at + s.size <= Base(pages[Newest]) + next
        BY <3>2 DEF IInv, InPages
      <4>2. /\ s.at \in Nat /\ s.size \in Nat
            /\ s.page = Newest => Base(pages[Newest]) \in Nat
        BY <3>2, RunPlace, PageFacts
      <4>3. QED
        BY <1>5, <4>1, <4>2
    <3>3. QED
      BY <1>4, <2>1, <3>1, <3>2
  <2>2. QED
    BY <1>4, <1>5, <2>1 DEF InPages, Base
<1>10. LinksKept'
  <2>1. SUFFICES ASSUME NEW k \in 1..Newest
                 PROVE  mem'[pages[k].lo] = PageByte(k - 1)
    BY <1>4 DEF LinksKept
  <2> DEFINE x == pages[k].lo
  <2>2. mem[x] = PageByte(k - 1)
    BY DEF IInv, LinksKept
  <2>3. /\ x \in Nat /\ End(pages[k]) \in Nat /\ x < End(pages[k])
        /\ End(pages[k]) <= LastByte + 1
    <3>1. pages[k] \in PageRec /\ End(pages[k]) <= LastByte + 1
      <4>1. pages \in Seq(PageRec) /\ Newest = Len(pages)
        BY DEF IInv, TypeOK, Newest
      <4>2. QED
        BY <4>1 DEF IInv, Chained
    <3>2. QED
      BY <3>1, PageFacts
  <2>4. x < q.at - Header \/ End(p) <= x
    <3>1. CASE k = r.page
      BY <1>2, <1>3, <1>4, <3>1 DEF p
    <3>2. CASE k # r.page
      <4>1. End(pages[k]) <= p.lo \/ End(p) <= x
        BY <1>1, <3>2, PagesApart DEF p
      <4>2. QED
        BY <1>2, <1>3, <1>4, <2>3, <4>1
    <3>3. QED
      BY <3>1, <3>2
  <2> HIDE DEF x
  <2>5. x \in Bytes
    BY <1>3, <2>3 DEF Bytes
  <2>6. ~Within(x, q.at - Header, Header + q.size)
    BY <1>2, <1>3, <1>4, <2>3, <2>4 DEF Within
  <2>7. QED
    BY <1>6, <2>2, <2>5, <2>6 DEF x
<1>11. RunsApart'
  <2>1. ASSUME NEW s \in runs'
        PROVE  /\ Base(pages[s.page]) <= s.at - Header
               /\ s.at + s.size <= End(pages[s.page])
    <3>1. CASE s = q
      BY <1>4, <3>1 DEF p
    <3>2. CASE s \in runs
      BY <3>2, RunPlace
    <3>3. QED
      BY <1>4, <2>1, <3>1, <3>2
  <2>2. ASSUME NEW s \in runs', NEW t \in runs', s # t
        PROVE  Apart(s, t)
    <3>1. CASE s \in runs /\ t \in runs
      BY <2>2, <3>1 DEF IInv, RunsApart, Disjoint, Apart
    <3>2. CASE t = q /\ s \in runs \ {r}
      BY <1>4, <3>2
    <3>3. CASE s = q /\ t \in runs \ {r}
      BY <1>4, <3>3 DEF Apart
    <3>4. QED
      BY <1>4, <2>2, <3>1, <3>2, <3>3
  <2>3. Inside'
    BY <1>4, <2>1 DEF Inside, Base, End
  <2>4. Disjoint'
    BY <2>2 DEF Disjoint, Apart
  <2>5. QED
    BY <2>3, <2>4 DEF RunsApart
<1>12. ContentsKept'
  <2>1. ASSUME NEW s \in runs, s # r, NEW x \in s.at - Header .. s.at + s.size - 1
        PROVE  mem'[x] = mem[x]
    <3>1. /\ s.at \in Nat /\ s.size \in Nat /\ pages[s.page] \in PageRec
          /\ Base(pages[s.page]) <= s.at - Header
          /\ s.at + s.size <= End(pages[s.page])
          /\ End(pages[s.page]) <= LastByte + 1
      BY <2>1, RunPlace
    <3>2. Base(pages[s.page]) \in Nat /\ End(pages[s.page]) \in Nat
      BY <3>1, PageFacts
    <3>3. x \in Int /\ s.at - Header <= x /\ x < s.at + s.size
      BY <1>3, <3>1
    <3>4. x \in Bytes
      BY <1>3, <3>1, <3>2, <3>3 DEF Bytes
    <3>5. s.at + s.size <= q.at - Header \/ q.at + q.size <= s.at - Header
      BY <1>4, <2>1 DEF Apart
    <3>6. ~Within(x, q.at - Header, Header + q.size)
      BY <1>3, <3>1, <3>3, <3>5 DEF Within
    <3>7. QED
      BY <1>6, <3>4, <3>6
  <2>2. ASSUME NEW s \in runs'
        PROVE  /\ \A x \in s.at - Header .. s.at - 1 : mem'[x] = LenByte(s.size)
               /\ \A x \in s.at .. s.at + s.filled - 1 : mem'[x] = TagByte(s.tag)
    <3>1. CASE s = q
      BY <1>6, <3>1
    <3>2. CASE s \in runs /\ s # r
      <4>1. /\ s.at \in Nat /\ s.size \in Nat /\ s.filled \in Nat
            /\ s.filled <= s.size
        BY <3>2, RunPlace
      <4>2. ASSUME NEW x \in s.at - Header .. s.at - 1
            PROVE  mem'[x] = LenByte(s.size)
        <5>1. x \in s.at - Header .. s.at + s.size - 1
          BY <1>3, <4>1, <4>2
        <5>2. mem[x] = LenByte(s.size)
          BY <3>2, <4>2 DEF IInv, ContentsKept
        <5>3. QED
          BY <2>1, <3>2, <5>1, <5>2
      <4>3. ASSUME NEW x \in s.at .. s.at + s.filled - 1
            PROVE  mem'[x] = TagByte(s.tag)
        <5>1. x \in s.at - Header .. s.at + s.size - 1
          BY <1>3, <4>1, <4>3
        <5>2. mem[x] = TagByte(s.tag)
          BY <3>2, <4>3 DEF IInv, ContentsKept
        <5>3. QED
          BY <2>1, <3>2, <5>1, <5>2
      <4>4. QED
        BY <4>2, <4>3
    <3>3. QED
      BY <1>4, <2>2, <3>1, <3>2
  <2>3. QED
    BY <2>2 DEF ContentsKept
<1>13. ReleasedOnce'
  BY <1>4 DEF ReleasedOnce
<1>14. QED
  BY <1>7, <1>8, <1>9, <1>10, <1>11, <1>12, <1>13 DEF IInv

LEMMA GrowStep ==
  ASSUME IInv, NEW r \in runs, NEW want \in Sizes, GrowInPlace(r, want)
  PROVE  IInv'
<1> DEFINE q == [r EXCEPT !.size = want]
           p == pages[Newest]
<1>1. /\ r \in RunRec /\ r.at \in Nat /\ r.size \in Nat /\ r.filled \in Nat
      /\ r.filled <= r.size
      /\ Newest \in Nat /\ r.page \in 1..Newest /\ pages[r.page] \in PageRec
      /\ Base(pages[r.page]) <= r.at - Header
      /\ r.at + r.size <= End(pages[r.page])
  BY RunPlace
<1>2. /\ Length(r) = r.size /\ want \in Nat /\ Header \in Nat \ {0}
      /\ next \in Nat
  BY LengthIsSize, ArenaAssumption DEF IInv, TypeOK
<1>3. /\ r.size > 0 /\ want > r.size /\ r.at + r.size = Base(p) + next
      /\ next + (want - r.size) <= p.size
      /\ next' = next + (want - r.size)
      /\ phase = "live" /\ UNCHANGED <<pages, phase, cursor, released>>
      /\ runs' = (runs \ {r}) \cup {q}
  BY <1>2 DEF GrowInPlace, Extends, Latest, GrowBy
<1>4. /\ q \in RunRec /\ q.at = r.at /\ q.page = r.page /\ q.size = want
      /\ q.filled = r.filled /\ q.tag = r.tag
  BY <1>1, <1>2 DEF RunRec
<1>5. /\ p \in PageRec /\ next <= p.size
  <2>1. pages \in Seq(PageRec) /\ Newest = Len(pages) /\ Newest > 0
    BY <1>1 DEF IInv, TypeOK, Newest
  <2>2. next <= p.size
    BY <2>1 DEF IInv, InPages
  <2>3. QED
    BY <1>1, <2>1, <2>2
<1>6. /\ Base(p) \in Nat /\ End(p) \in Nat /\ p.lo \in Nat /\ p.lo < Base(p)
      /\ End(p) = Base(p) + p.size /\ p.size \in Nat
  BY <1>5, PageFacts
<1> HIDE DEF p, q
\* What ends where the next run would start is the latest run of the last page.
<1>7. r.page = Newest
  <2>1. SUFFICES ASSUME r.page # Newest PROVE FALSE
    OBVIOUS
  <2>2. Newest \in 1..Newest
    BY <1>1
  <2>3. End(pages[r.page]) <= p.lo \/ End(p) <= pages[r.page].lo
    BY <1>1, <2>1, <2>2, PagesApart DEF p
  <2>4. /\ pages[r.page].lo \in Nat /\ Base(pages[r.page]) \in Nat
        /\ End(pages[r.page]) \in Nat
        /\ pages[r.page].lo < Base(pages[r.page])
    BY <1>1, PageFacts
  <2>5. QED
    BY <1>1, <1>2, <1>3, <1>5, <1>6, <2>3, <2>4
<1>8. q.at + q.size = Base(p) + next' /\ q.at + q.size <= End(p)
  BY <1>1, <1>2, <1>3, <1>4, <1>6
<1>9. ASSUME NEW s \in runs, s # r PROVE Apart(s, q)
  <2>1. s.at + s.size <= r.at - Header \/ r.at + r.size <= s.at - Header
    BY <1>9 DEF IInv, RunsApart, Disjoint
  <2>2. /\ s.at \in Nat /\ s.size \in Nat /\ s.page \in 1..Newest
        /\ pages[s.page] \in PageRec
        /\ Base(pages[s.page]) <= s.at - Header
        /\ s.at + s.size <= End(pages[s.page])
    BY <1>9, RunPlace
  <2>3. CASE s.page = Newest
    <3>1. s.at + s.size <= Base(p) + next
      BY <2>3 DEF IInv, InPages, p
    <3>2. s.at + s.size <= r.at - Header
      BY <1>1, <1>2, <1>3, <1>6, <2>1, <2>2, <3>1
    <3>3. QED
      BY <1>4, <3>2 DEF Apart
  <2>4. CASE s.page # Newest
    <3>1. Newest \in 1..Newest
      BY <1>1
    <3>2. End(pages[s.page]) <= p.lo \/ End(p) <= pages[s.page].lo
      BY <2>2, <2>4, <3>1, PagesApart DEF p
    <3>3. /\ pages[s.page].lo \in Nat /\ Base(pages[s.page]) \in Nat
          /\ End(pages[s.page]) \in Nat
          /\ pages[s.page].lo < Base(pages[s.page])
      BY <2>2, PageFacts
    <3>4. Base(p) <= q.at - Header
      BY <1>1, <1>4, <1>7 DEF p
    <3>5. q.at \in Nat /\ q.size \in Nat
      BY <1>1, <1>2, <1>4
    <3>6. QED
      BY <1>2, <1>6, <1>8, <2>2, <3>2, <3>3, <3>4, <3>5 DEF Apart
  <2>5. QED
    BY <2>3, <2>4
<1>10. /\ mem' = [x \in Bytes |-> mem'[x]]
       /\ \A x \in Bytes :
            mem'[x] = IF Within(x, r.at - Header, Header)
                      THEN LenByte(want) ELSE mem[x]
  BY <1>2 DEF GrowInPlace, Grown
<1>11. ASSUME NEW x \in q.at - Header .. q.at + r.size - 1
       PROVE  x \in Bytes
  <2>1. /\ End(p) <= LastByte + 1 /\ LastByte \in Nat
    BY <1>7, RunPlace, ArenaAssumption DEF p
  <2>2. Base(p) <= r.at - Header /\ r.at + r.size <= End(p)
    BY <1>1, <1>7 DEF p
  <2>3. QED
    BY <1>1, <1>2, <1>4, <1>6, <2>1, <2>2 DEF Bytes
<1>12. ASSUME NEW x \in Bytes, ~Within(x, q.at - Header, Header + q.size)
       PROVE  mem'[x] = mem[x]
  <2>1. x \in Int
    BY ArenaAssumption DEF Bytes
  <2>2. ~Within(x, r.at - Header, Header)
    BY <1>1, <1>2, <1>4, <1>12, <2>1 DEF Within
  <2>3. QED
    BY <1>10, <2>2
<1>13. ASSUME NEW x \in q.at - Header .. q.at - 1
       PROVE  mem'[x] = LenByte(q.size)
  <2>1. x \in q.at - Header .. q.at + r.size - 1 /\ Within(x, r.at - Header, Header)
    BY <1>1, <1>2, <1>4 DEF Within
  <2>2. QED
    BY <1>4, <1>10, <1>11, <2>1
<1>14. ASSUME NEW x \in q.at .. q.at + q.filled - 1
       PROVE  mem'[x] = TagByte(q.tag)
  <2>1. /\ x \in q.at - Header .. q.at + r.size - 1
        /\ ~Within(x, r.at - Header, Header)
        /\ x \in r.at .. r.at + r.filled - 1
    BY <1>1, <1>2, <1>4 DEF Within
  <2>2. mem[x] = TagByte(r.tag)
    BY <2>1 DEF IInv, ContentsKept
  <2>3. QED
    BY <1>4, <1>10, <1>11, <2>1, <2>2
<1>15. q.filled <= q.size
  BY <1>1, <1>2, <1>3, <1>4
<1>16. next' \in Nat /\ next <= next' /\ next' <= p.size
  BY <1>1, <1>2, <1>3
<1>17. Becomes(r, q)
  <2>1. /\ q.at = r.at /\ q.page = r.page
        /\ q.at + q.size <= End(pages[r.page])
        /\ runs' = (runs \ {r}) \cup {q}
        /\ next' \in Nat /\ next <= next' /\ next' <= pages[Newest].size
        /\ q.at + q.size <= Base(pages[Newest]) + next'
        /\ UNCHANGED <<pages, phase, cursor, released>>
    <3>1. q.at + q.size <= Base(p) + next'
      <4>1. q.at \in Nat /\ q.size \in Nat
        BY <1>1, <1>2, <1>4
      <4>2. QED
        BY <1>8, <4>1
    <3>2. QED
      BY <1>3, <1>4, <1>7, <1>8, <1>16, <3>1 DEF p
  <2>2. mem' = [x \in Bytes |-> mem'[x]]
    BY <1>10
  <2>3. QED
    BY <1>9, <1>12, <1>13, <1>14, <1>15, <2>1, <2>2 DEF Becomes
<1>18. QED
  BY <1>3, <1>4, <1>17, BecomesStep

LEMMA FillStep ==
  ASSUME IInv, NEW r \in runs, Fill(r)
  PROVE  IInv'
<1> DEFINE q == [r EXCEPT !.filled = r.size]
<1>1. /\ r \in RunRec /\ r.at \in Nat /\ r.size \in Nat
      /\ Newest \in Nat /\ r.page \in 1..Newest /\ pages[r.page] \in PageRec
      /\ Base(pages[r.page]) <= r.at - Header
      /\ r.at + r.size <= End(pages[r.page])
      /\ End(pages[r.page]) <= LastByte + 1
  BY RunPlace
<1>2. /\ q \in RunRec /\ q.at = r.at /\ q.page = r.page /\ q.size = r.size
      /\ q.filled = r.size /\ q.tag = r.tag
  BY <1>1 DEF RunRec
<1>3. /\ phase = "live" /\ UNCHANGED <<pages, next, phase, cursor, released>>
      /\ runs' = (runs \ {r}) \cup {q}
      /\ mem' = [x \in Bytes |-> mem'[x]]
      /\ \A x \in Bytes : mem'[x] = IF Within(x, r.at, r.size)
                                    THEN TagByte(r.tag) ELSE mem[x]
  BY DEF Fill
<1>4. Header \in Nat \ {0} /\ LastByte \in Nat /\ next \in Nat
  BY ArenaAssumption DEF IInv, TypeOK
<1>5. Base(pages[r.page]) \in Nat /\ End(pages[r.page]) \in Nat
  BY <1>1, PageFacts
<1> HIDE DEF q
<1>6. ASSUME NEW s \in runs, s # r PROVE Apart(s, q)
  BY <1>2, <1>6 DEF IInv, RunsApart, Disjoint, Apart
<1>7. ASSUME NEW x \in q.at - Header .. q.at + q.size - 1 PROVE x \in Bytes
  BY <1>1, <1>2, <1>4, <1>5 DEF Bytes
<1>8. ASSUME NEW x \in Bytes, ~Within(x, q.at - Header, Header + q.size)
      PROVE  mem'[x] = mem[x]
  <2>1. x \in Int
    BY <1>4 DEF Bytes
  <2>2. ~Within(x, r.at, r.size)
    BY <1>1, <1>2, <1>4, <1>8, <2>1 DEF Within
  <2>3. QED
    BY <1>3, <2>2
<1>9. ASSUME NEW x \in q.at - Header .. q.at - 1
      PROVE  mem'[x] = LenByte(q.size)
  <2>1. /\ x \in q.at - Header .. q.at + q.size - 1 /\ ~Within(x, r.at, r.size)
        /\ x \in r.at - Header .. r.at - 1
    BY <1>1, <1>2, <1>4 DEF Within
  <2>2. mem[x] = LenByte(r.size)
    BY <2>1 DEF IInv, ContentsKept
  <2>3. QED
    BY <1>2, <1>3, <1>7, <2>1, <2>2
<1>10. ASSUME NEW x \in q.at .. q.at + q.filled - 1
       PROVE  mem'[x] = TagByte(q.tag)
  <2>1. x \in q.at - Header .. q.at + q.size - 1 /\ Within(x, r.at, r.size)
    BY <1>1, <1>2, <1>4 DEF Within
  <2>2. QED
    BY <1>2, <1>3, <1>7, <2>1
<1>11. /\ next' \in Nat /\ next <= next' /\ next' <= pages[Newest].size
       /\ r.page = Newest => q.at + q.size <= Base(pages[Newest]) + next'
  <2>1. Newest > 0
    BY <1>1
  <2>2. /\ next <= pages[Newest].size
        /\ r.page = Newest => r.at + r.size <= Base(pages[Newest]) + next
    BY <2>1 DEF IInv, InPages
  <2>3. QED
    BY <1>2, <1>3, <1>4, <2>2
<1>12. Becomes(r, q)
  BY <1>1, <1>2, <1>3, <1>6, <1>8, <1>9, <1>10, <1>11 DEF Becomes
<1>13. QED
  BY <1>2, <1>3, <1>12, BecomesStep

-----------------------------------------------------------------------------
(* Release.                                                                *)

LEMMA DropBeginsStep ==
  ASSUME IInv, DropBegins
  PROVE  IInv'
<1>1. /\ phase' = "dropping" /\ cursor' = Newest /\ runs' = {} /\ pages' = pages
      /\ released' = [k \in 1..Newest |-> 0] /\ mem' = mem /\ next' = next
      /\ Newest' = Newest /\ Newest \in Nat /\ phase = "live"
  BY DEF DropBegins, IInv, TypeOK, Newest
<1>2. TypeOK'
  BY <1>1, FS_EmptySet DEF IInv, TypeOK
<1>3. InPages' /\ RunsApart' /\ ContentsKept'
  BY <1>1 DEF IInv, InPages, RunsApart, Inside, Disjoint, ContentsKept, Base
<1>4. Chained(pages)' /\ LinksKept'
  BY <1>1 DEF IInv, Chained, LinksKept, End, Base
<1>5. ReleasedOnce'
  BY <1>1 DEF ReleasedOnce
<1>6. QED
  BY <1>2, <1>3, <1>4, <1>5 DEF IInv

LEMMA DropPageStep ==
  ASSUME IInv, DropPage
  PROVE  IInv'
<1>1. /\ phase = "dropping" /\ cursor \in 1..Newest /\ Newest \in Nat
      /\ runs = {} /\ released \in [1..Newest -> Nat]
      /\ pages \in Seq(PageRec) /\ Newest = Len(pages)
  BY DEF DropPage, IInv, TypeOK, Newest
<1>2. mem[pages[cursor].lo] = PageByte(cursor - 1)
  BY <1>1 DEF IInv, LinksKept
<1>3. /\ cursor' = cursor - 1 /\ released' = [released EXCEPT ![cursor] = @ + 1]
      /\ pages' = pages /\ next' = next /\ runs' = runs /\ phase' = phase
      /\ Newest' = Newest
      /\ mem' = [x \in Bytes |-> mem'[x]]
      /\ \A x \in Bytes :
           mem'[x] = IF Within(x, pages[cursor].lo, PageStruct + pages[cursor].size)
                     THEN Junk ELSE mem[x]
  BY <1>2 DEF DropPage, PageByte, Newest
<1>4. TypeOK'
  BY <1>1, <1>3 DEF IInv, TypeOK
<1>5. InPages' /\ RunsApart' /\ ContentsKept'
  BY <1>1, <1>3 DEF IInv, InPages, RunsApart, Inside, Disjoint, ContentsKept, Base
<1>6. Chained(pages)'
  BY <1>3 DEF IInv, Chained, End, Base
<1>7. LinksKept'
  <2>1. SUFFICES ASSUME NEW k \in 1..Newest, k <= cursor - 1
                 PROVE  mem'[pages[k].lo] = PageByte(k - 1)
    BY <1>1, <1>3 DEF LinksKept
  <2>2. mem[pages[k].lo] = PageByte(k - 1)
    BY <1>1, <2>1 DEF IInv, LinksKept
  <2>3. /\ pages[k] \in PageRec /\ pages[cursor] \in PageRec
        /\ \/ End(pages[k]) <= pages[cursor].lo
           \/ End(pages[cursor]) <= pages[k].lo
    BY <1>1, <2>1, PagesApart
  <2>4. End(pages[k]) <= LastByte + 1
    BY <1>1 DEF IInv, Chained
  <2>5. /\ pages[k].lo \in Nat /\ pages[k].lo < End(pages[k])
        /\ End(pages[k]) \in Nat /\ LastByte \in Nat
    BY <2>3, PageFacts, ArenaAssumption
  <2>6. pages[k].lo \in Bytes
    BY <2>4, <2>5 DEF Bytes
  <2>7. ~Within(pages[k].lo, pages[cursor].lo, PageStruct + pages[cursor].size)
    <3>1. /\ End(pages[cursor]) = pages[cursor].lo + (PageStruct + pages[cursor].size)
          /\ pages[cursor].lo \in Nat /\ End(pages[cursor]) \in Nat
      BY <2>3, PageFacts, ArenaAssumption
    <3>2. QED
      BY <2>3, <2>5, <3>1 DEF Within
  <2>8. QED
    BY <1>3, <2>2, <2>6, <2>7
<1>8. ReleasedOnce'
  <2>1. \A k \in 1..Newest : released[k] = IF k > cursor THEN 1 ELSE 0
    BY <1>1 DEF IInv, ReleasedOnce
  <2>2. ASSUME NEW k \in 1..Newest
        PROVE  released'[k] = IF k > cursor - 1 THEN 1 ELSE 0
    BY <1>1, <1>3, <2>1
  <2>3. QED
    BY <1>1, <1>3, <2>2 DEF ReleasedOnce
<1>9. QED
  BY <1>4, <1>5, <1>6, <1>7, <1>8 DEF IInv

LEMMA DropEndsStep ==
  ASSUME IInv, DropEnds
  PROVE  IInv'
<1>1. /\ phase = "dropping" /\ cursor = 0 /\ phase' = "dropped" /\ runs = {}
      /\ mem' = mem /\ pages' = pages /\ next' = next /\ runs' = runs
      /\ cursor' = cursor /\ released' = released /\ Newest' = Newest
      /\ released \in [1..Newest -> Nat] /\ Newest \in Nat
  BY DEF DropEnds, IInv, TypeOK, Newest
<1>2. TypeOK'
  BY <1>1 DEF IInv, TypeOK
<1>3. InPages' /\ RunsApart' /\ ContentsKept'
  BY <1>1 DEF IInv, InPages, RunsApart, Inside, Disjoint, ContentsKept, Base
<1>4. Chained(pages)' /\ LinksKept'
  BY <1>1 DEF IInv, Chained, LinksKept, End, Base
<1>5. ReleasedOnce'
  BY <1>1 DEF IInv, ReleasedOnce
<1>6. QED
  BY <1>2, <1>3, <1>4, <1>5 DEF IInv

-----------------------------------------------------------------------------
(* The theorems.                                                           *)

LEMMA InitIInv == Init => IInv
<1> SUFFICES ASSUME Init PROVE IInv
  OBVIOUS
<1>1. /\ pages = <<>> /\ Newest = 0 /\ runs = {} /\ next = 0 /\ cursor = 0
      /\ phase = "live" /\ mem = [x \in Bytes |-> Junk]
  BY DEF Init, Newest
<1>2. TypeOK
  BY <1>1, FS_EmptySet DEF TypeOK
<1>3. Chained(pages) /\ LinksKept /\ InPages
  BY <1>1 DEF Chained, LinksKept, InPages, Newest
<1>4. RunsApart /\ ContentsKept /\ ReleasedOnce
  BY <1>1 DEF RunsApart, Inside, Disjoint, ContentsKept, ReleasedOnce
<1>5. QED
  BY <1>2, <1>3, <1>4 DEF IInv

LEMMA StepIInv == IInv /\ [Next]_vars => IInv'
<1> SUFFICES ASSUME IInv, [Next]_vars PROVE IInv'
  OBVIOUS
<1>1. ASSUME NEW size \in Sizes, NEW align \in Aligns, Raw(size, align)
      PROVE  IInv'
  BY <1>1, RawStep
<1>2. ASSUME NEW r \in runs, Fill(r) PROVE IInv'
  BY <1>2, FillStep
<1>3. ASSUME NEW r \in runs, NEW want \in Sizes, GrowInPlace(r, want)
      PROVE  IInv'
  BY <1>3, GrowStep
<1>4. ASSUME NEW r \in runs, NEW want \in Sizes, Move(r, want)
      PROVE  IInv'
  BY <1>4, MoveStep
<1>5. CASE DropBegins \/ DropPage \/ DropEnds
  BY <1>5, DropBeginsStep, DropPageStep, DropEndsStep
<1>6. CASE UNCHANGED vars
  BY <1>6 DEF vars, IInv, TypeOK, Chained, InPages, LinksKept, RunsApart, Inside,
              Disjoint, ContentsKept, ReleasedOnce, Newest, Base, End
<1>7. QED
  BY <1>1, <1>2, <1>3, <1>4, <1>5, <1>6 DEF Next

\* The invariant holds of every arena.
THEOREM Invariance == Spec => []IInv
<1>1. Init => IInv
  BY InitIInv
<1>2. IInv /\ [Next]_vars => IInv'
  BY StepIInv
<1>3. QED
  BY <1>1, <1>2, PTL DEF Spec

\* Runs lie in their pages and share no byte, lengths included (bump,
\* extend_nonempty, chain).
THEOREM RunsKeptApart == Spec => []RunsApart
<1>1. IInv => RunsApart
  BY DEF IInv
<1>2. QED
  BY <1>1, Invariance, PTL

\* A run keeps its length and what was written into it, whichever run is taken,
\* grown or moved (realloc, bump).
THEOREM ContentsSurvive == Spec => []ContentsKept
<1>1. IInv => ContentsKept
  BY DEF IInv
<1>2. QED
  BY <1>1, Invariance, PTL

\* Drop releases every page exactly once (drop).
THEOREM DropIsExact == Spec => []ReleasedOnce
<1>1. IInv => ReleasedOnce
  BY DEF IInv
<1>2. QED
  BY <1>1, Invariance, PTL

-----------------------------------------------------------------------------
(* Words.  A run starts behind a length that was rounded to a word, at an  *)
(* alignment that divides the word or is a multiple of it.                 *)

Times(n, a) == \E q \in Nat : n = a * q

LEMMA RemUnique ==
  ASSUME NEW a \in Nat \ {0}, NEW q \in Nat, NEW r \in 0..a-1
  PROVE  (a * q + r) % a = r
OBVIOUS

LEMMA Division ==
  ASSUME NEW n \in Nat, NEW a \in Nat \ {0}
  PROVE  \E q \in Nat : n = a * q + (n % a)
<1>1. n % a \in 0..a-1 /\ n \div a \in Int
  OBVIOUS
<1>2. n = a * (n \div a) + (n % a)
  OBVIOUS
<1>3. n \div a >= 0
  BY <1>1, <1>2
<1>4. n \div a \in Nat
  BY <1>1, <1>3
<1> WITNESS n \div a \in Nat
<1>5. QED
  BY <1>2

LEMMA AlignUpTimes ==
  ASSUME NEW n \in Nat, NEW a \in Nat \ {0}
  PROVE  Times(AlignUp(n, a), a)
<1>1. PICK q \in Nat : n + a - 1 = a * q + ((n + a - 1) % a)
  <2>1. n + a - 1 \in Nat
    OBVIOUS
  <2>2. QED
    BY <2>1, Division
<1>2. (n + a - 1) % a \in 0..a-1
  OBVIOUS
<1> DEFINE rest == (n + a - 1) % a
           whole == a * q
<1>3. whole \in Nat /\ rest \in Nat /\ n + a - 1 = whole + rest
  BY <1>1, <1>2
<1>4. AlignUp(n, a) = n + a - 1 - rest
  BY DEF AlignUp
<1> HIDE DEF rest, whole
<1>5. AlignUp(n, a) = whole
  BY <1>3, <1>4
<1>6. QED
  BY <1>5 DEF Times, whole

LEMMA AlignUpSame ==
  ASSUME NEW n \in Nat, NEW a \in Nat \ {0}, Times(n, a)
  PROVE  AlignUp(n, a) = n
<1>1. PICK q \in Nat : n = a * q
  BY DEF Times
<1>2. (a * q + (a - 1)) % a = a - 1
  <2>1. a - 1 \in 0..a-1
    OBVIOUS
  <2>2. QED
    BY <2>1, RemUnique
<1>3. n + a - 1 = a * q + (a - 1)
  BY <1>1
<1>4. QED
  BY <1>1, <1>2, <1>3 DEF AlignUp

LEMMA TimesPlus ==
  ASSUME NEW a \in Nat \ {0}, NEW m \in Nat, NEW n \in Nat,
         Times(m, a), Times(n, a)
  PROVE  Times(m + n, a)
<1>1. PICK p \in Nat, q \in Nat : m = a * p /\ n = a * q
  BY DEF Times
<1>2. m + n = a * (p + q) /\ p + q \in Nat
  BY <1>1
<1>3. QED
  BY <1>2 DEF Times

LEMMA TimesFacts ==
  ASSUME NEW a \in Nat \ {0}
  PROVE  /\ \A n \in Nat : Times(n, a) <=> n % a = 0
         /\ Times(a, a)
         /\ \A n \in Nat, b \in Nat \ {0} : Times(a, b) /\ Times(n, a) => Times(n, b)
<1>1. ASSUME NEW n \in Nat PROVE Times(n, a) <=> n % a = 0
  <2>1. ASSUME Times(n, a) PROVE n % a = 0
    <3>1. PICK q \in Nat : n = a * q + 0
      BY <2>1 DEF Times
    <3>2. QED
      BY <3>1, RemUnique
  <2>2. ASSUME n % a = 0 PROVE Times(n, a)
    <3>1. PICK q \in Nat : n = a * q + (n % a)
      BY Division
    <3>2. n = a * q
      BY <3>1, <2>2
    <3>3. QED
      BY <3>2 DEF Times
  <2>3. QED
    BY <2>1, <2>2
<1>2. Times(a, a)
  <2>1. a = a * 1
    OBVIOUS
  <2>2. QED
    BY <2>1 DEF Times
<1>3. ASSUME NEW n \in Nat, NEW b \in Nat \ {0}, Times(a, b), Times(n, a)
      PROVE  Times(n, b)
  <2>1. PICK p \in Nat, q \in Nat : a = b * p /\ n = a * q
    BY <1>3 DEF Times
  <2>2. n = b * (p * q) /\ p * q \in Nat
    BY <2>1
  <2>3. QED
    BY <2>2 DEF Times
<1>4. QED
  BY <1>1, <1>2, <1>3

LEMMA StartTimes ==
  ASSUME NEW used \in Nat, NEW align \in Nat \ {0},
         align % Header = 0 \/ Header % align = 0
  PROVE  Times(Start(used, align), Header)
<1> DEFINE slot == AlignUp(used, Header) + Header
<1>1. Header \in Nat \ {0}
  BY ArenaAssumption
<1>2. AlignUp(used, Header) \in Nat /\ Times(AlignUp(used, Header), Header)
  BY <1>1, AlignUpBounds, AlignUpTimes
<1>3. slot \in Nat /\ Times(slot, Header)
  <2>1. Times(Header, Header)
    BY <1>1, TimesFacts
  <2>2. Times(AlignUp(used, Header) + Header, Header)
    BY <1>1, <1>2, <2>1, TimesPlus
  <2>3. QED
    BY <1>1, <1>2, <2>2
<1>4. Start(used, align) = AlignUp(slot, align)
  BY DEF Start
<1> HIDE DEF slot
<1>5. AlignUp(slot, align) \in Nat /\ Times(AlignUp(slot, align), align)
  BY <1>3, AlignUpBounds, AlignUpTimes
<1>6. CASE align % Header = 0
  <2>1. Times(align, Header)
    BY <1>1, <1>6, TimesFacts
  <2>2. QED
    BY <1>1, <1>4, <1>5, <2>1, TimesFacts
<1>7. CASE Header % align = 0
  <2>1. Times(Header, align)
    BY <1>1, <1>7, TimesFacts
  <2>2. Times(slot, align)
    BY <1>1, <1>3, <2>1, TimesFacts
  <2>3. QED
    BY <1>3, <1>4, <2>2, AlignUpSame
<1>8. QED
  BY <1>6, <1>7

WordInv ==
  /\ \A k \in 1..Len(pages) : Times(pages[k].lo, Header)
  /\ \A r \in runs : Times(r.at, Header)

LEMMA TakeWord ==
  ASSUME IInv, WordInv, NEW size \in Nat, NEW align \in Aligns \cup {AlignMax},
         NEW tag, NEW src, NEW keep, NEW filled,
         Take(size, align, tag, src, keep, filled)
  PROVE  WordInv'
<1>1. /\ pages \in Seq(PageRec) /\ next \in Nat /\ Header \in Nat \ {0}
      /\ align \in Nat \ {0} /\ PageStruct \in Nat
      /\ Times(PageStruct, Header)
  <2>1. /\ Header \in Nat \ {0} /\ align \in Nat \ {0} /\ PageStruct \in Nat
        /\ PageStruct % Header = 0
    BY ArenaAssumption, WordAssumption
  <2>2. QED
    BY <2>1, TimesFacts DEF IInv, TypeOK
<1>2. ASSUME NEW ps \in Seq(PageRec), Len(ps) > 0, NEW used \in Nat,
             \A k \in 1..Len(ps) : Times(ps[k].lo, Header),
             Bump(ps, used, size, align, tag, src, keep, filled)
      PROVE  WordInv'
  <2> DEFINE p == ps[Len(ps)]
             run == [at |-> Base(p) + Start(used, align), size |-> size,
                     align |-> align, page |-> Len(ps), tag |-> tag,
                     filled |-> filled]
  <2>1. pages' = ps /\ runs' = runs \cup {run}
    BY <1>2 DEF Bump
  <2>2. p \in PageRec /\ p.lo \in Nat /\ Times(p.lo, Header)
    <3>1. Len(ps) \in 1..Len(ps)
      BY <1>2
    <3>2. p \in PageRec /\ Times(p.lo, Header)
      BY <1>2, <3>1
    <3>3. QED
      BY <3>2, PageFacts
  <2>3. Base(p) \in Nat /\ Times(Base(p), Header)
    <3>1. Times(p.lo + PageStruct, Header)
      BY <1>1, <2>2, TimesPlus
    <3>2. QED
      BY <1>1, <2>2, <3>1 DEF Base
  <2>4. Start(used, align) \in Nat /\ Times(Start(used, align), Header)
    BY <1>1, <1>2, WordAssumption, StartBounds, StartTimes
  <2>5. Times(run.at, Header)
    BY <1>1, <2>3, <2>4, TimesPlus
  <2> HIDE DEF run
  <2>6. QED
    BY <1>2, <2>1, <2>5 DEF WordInv
<1>3. CASE FitsHead(size, align)
  <2>1. Bump(pages, next, size, align, tag, src, keep, filled) /\ Len(pages) > 0
    BY <1>3 DEF Take, FitsHead, Newest
  <2>2. QED
    BY <1>1, <1>2, <2>1 DEF WordInv
<1>4. CASE ~FitsHead(size, align)
  <2>1. PICK p \in Blocks(Want(size, align)) :
          Bump(Append(pages, p), 0, size, align, tag, src, keep, filled)
    BY <1>4 DEF Take
  <2>2. Want(size, align) \in Nat
    BY <1>1, WantFits
  <2>3. p \in PageRec
    BY <2>2, BlockFacts
  <2>4. p.lo \in Places /\ p.lo \in Nat
    BY <2>1, ArenaAssumption DEF Blocks
  <2>5. Times(p.lo, Header)
    BY <1>1, <2>4, WordAssumption, TimesFacts
  <2>6. /\ Append(pages, p) \in Seq(PageRec)
        /\ Len(Append(pages, p)) > 0
        /\ \A k \in 1..Len(Append(pages, p)) : Times(Append(pages, p)[k].lo, Header)
    BY <1>1, <2>3, <2>5 DEF WordInv
  <2>7. QED
    BY <1>2, <2>1, <2>6
<1>5. QED
  BY <1>3, <1>4

LEMMA StepWord == IInv /\ WordInv /\ [Next]_vars => WordInv'
<1> SUFFICES ASSUME IInv, WordInv, [Next]_vars PROVE WordInv'
  OBVIOUS
<1>1. ASSUME NEW size \in Sizes, NEW align \in Aligns, Raw(size, align)
      PROVE  WordInv'
  BY <1>1, ArenaAssumption, TakeWord DEF Raw
<1>2. ASSUME NEW r \in runs, Fill(r) PROVE WordInv'
  <2>1. [r EXCEPT !.filled = r.size].at = r.at
    BY RunPlace DEF RunRec
  <2>2. QED
    BY <1>2, <2>1 DEF Fill, WordInv
<1>3. ASSUME NEW r \in runs, NEW want \in Sizes, GrowInPlace(r, want)
      PROVE  WordInv'
  <2>1. [r EXCEPT !.size = want].at = r.at
    BY RunPlace DEF RunRec
  <2>2. QED
    BY <1>3, <2>1 DEF GrowInPlace, WordInv
<1>4. ASSUME NEW r \in runs, NEW want \in Sizes, Move(r, want)
      PROVE  WordInv'
  BY <1>4, ArenaAssumption, TakeWord DEF Move
<1>5. CASE DropBegins \/ DropPage \/ DropEnds
  BY <1>5 DEF DropBegins, DropPage, DropEnds, WordInv
<1>6. CASE UNCHANGED vars
  BY <1>6 DEF vars, WordInv
<1>7. QED
  BY <1>1, <1>2, <1>3, <1>4, <1>5, <1>6 DEF Next

\* Whatever alignments were asked for, a length is one word at a word's address
\* (bump: the two roundings).
THEOREM LengthsAreWords == Spec => []WordAligned
<1>1. Init => WordInv
  BY DEF Init, WordInv
<1>2. WordInv /\ IInv => WordAligned
  <2> SUFFICES ASSUME WordInv, IInv, NEW r \in runs
               PROVE  (r.at - Header) % Header = 0
    BY DEF WordAligned
  <2>1. /\ Header \in Nat \ {0} /\ PageStruct \in Nat /\ r.at \in Nat
        /\ Base(pages[r.page]) \in Nat /\ Base(pages[r.page]) <= r.at - Header
    BY RunPlace, PageFacts, ArenaAssumption
  <2>2. PICK q \in Nat : r.at = Header * q
    BY DEF WordInv, Times
  <2>3. q # 0
    BY <2>1, <2>2
  <2>4. r.at - Header = Header * (q - 1) + 0 /\ q - 1 \in Nat /\ 0 \in 0..Header-1
    BY <2>1, <2>2, <2>3
  <2>5. QED
    BY <2>1, <2>4, RemUnique
<1>3. IInv /\ WordInv /\ [Next]_vars => WordInv'
  BY StepWord
<1>4. QED
  BY <1>1, <1>2, <1>3, Invariance, PTL DEF Spec

=============================================================================
