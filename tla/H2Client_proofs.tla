--------------------------- MODULE H2Client_proofs ---------------------------
(***************************************************************************)
(* What a client of HTTP/2 keeps whatever its peer sends and whenever: for *)
(* windows, chunks and increments of any size, any number of requests and  *)
(* any scenes.  Every count of the client is set against one of the peer   *)
(* and the frames between them, so the invariant speaks of wires: of what  *)
(* they carry, in sums, and of the order of what is on them.               *)
(***************************************************************************)
EXTENDS H2Client, FiniteSetTheorems, SequenceTheorems, TLAPS

-----------------------------------------------------------------------------
(* Sums.                                                                   *)

\* Induction, as the least element of a set of counterexamples: of the
\* intervals 0..n it gives, one is least for inclusion.
LEMMA LeastNatural ==
  ASSUME NEW S, S \subseteq Nat, S # {}
  PROVE  \E m \in S : \A k \in S : m <= k
<1> DEFINE T == {0..n : n \in S}
           R == StrictSubsetOrdering(Nat)
           F == FiniteSubsetsOf(Nat)
<1>1. IsWellFoundedOn(R, F)
  BY FS_StrictSubsetOrderingWellFounded
<1>2. T \subseteq F
  <2>1. \A n \in S : IsFiniteSet(0..n)
    BY FS_Interval
  <2>2. QED
    BY <2>1 DEF FiniteSubsetsOf
<1>3. T # {}
  OBVIOUS
<1> HIDE DEF R, F
<1>4. PICK x \in T : \A y \in T : ~ (<<y, x>> \in R)
  BY <1>1, <1>2, <1>3, WFMin
<1>5. PICK m \in S : x = 0..m
  BY <1>4
<1>6. ASSUME NEW k \in S, k < m
      PROVE  FALSE
  <2>1. 0..k \in T
    OBVIOUS
  <2>2. m \in 0..m /\ m \notin 0..k
    BY <1>6
  <2>3. 0..k \subseteq 0..m /\ 0..k # 0..m
    BY <1>6, <2>2
  <2>4. <<0..k, 0..m>> \in R
    BY <2>3 DEF R, StrictSubsetOrdering
  <2>5. QED
    BY <1>4, <1>5, <2>1, <2>4
<1>7. QED
  BY <1>6

\* A function that adds up the first i of the numbers w.
AddsUp(f, w, i) == f[0] = 0 /\ \A k \in 1..i : f[k] = f[k - 1] + w[k]

\* Numbers can be added up.
LEMMA AddsUpExists ==
  ASSUME NEW w \in Seq(Nat), NEW i \in 0..Len(w)
  PROVE  \E f \in [0..i -> Nat] : AddsUp(f, w, i)
<1> DEFINE S == {n \in 0..Len(w) : ~ \E f \in [0..n -> Nat] : AddsUp(f, w, n)}
<1>1. ASSUME S # {} PROVE FALSE
  <2>1. S \subseteq Nat
    OBVIOUS
  <2>2. PICK n \in S : \A k \in S : n <= k
    <3> HIDE DEF S
    <3>1. QED
      BY <1>1, <2>1, LeastNatural
  <2>3. n \in 0..Len(w) /\ ~ \E f \in [0..n -> Nat] : AddsUp(f, w, n)
    OBVIOUS
  <2>4. CASE n = 0
    <3>1. AddsUp([k \in 0..0 |-> 0], w, 0)
      BY DEF AddsUp
    <3>2. [k \in 0..0 |-> 0] \in [0..0 -> Nat]
      OBVIOUS
    <3>3. QED
      BY <2>3, <2>4, <3>1, <3>2
  <2>5. CASE n # 0
    <3>1. n - 1 \in 0..Len(w) /\ n - 1 \notin S
      <4>1. n - 1 \in 0..Len(w) /\ n - 1 < n
        BY <2>3, <2>5
      <4> HIDE DEF S
      <4>2. QED
        BY <2>2, <2>3, <4>1
    <3>2. PICK f \in [0..n - 1 -> Nat] : AddsUp(f, w, n - 1)
      BY <3>1
    <3> DEFINE g == [k \in 0..n |-> IF k = n THEN f[n - 1] + w[n] ELSE f[k]]
    <3>3. w[n] \in Nat /\ f[n - 1] \in Nat
      BY <2>3, <2>5, <3>2
    <3>4. g \in [0..n -> Nat] /\ g[0] = 0
      BY <2>3, <2>5, <3>2, <3>3 DEF AddsUp
    <3>5. ASSUME NEW k \in 1..n PROVE g[k] = g[k - 1] + w[k]
      BY <2>3, <3>2, <3>5 DEF AddsUp
    <3>6. AddsUp(g, w, n)
      BY <3>4, <3>5 DEF AddsUp
    <3>7. QED
      BY <2>3, <3>4, <3>6
  <2>6. QED
    BY <2>4, <2>5
<1>2. QED
  BY <1>1

\* The sums of a sequence, as its definition says.
LEMMA SumsAddUp ==
  ASSUME NEW w \in Seq(Nat)
  PROVE  /\ AddsUp(Sums(w), w, Len(w))
         /\ Sums(w) \in [0..Len(w) -> Nat]
<1> DEFINE Recursion(f) ==
             f = [i \in 0..Len(w) |-> IF i = 0 THEN 0 ELSE f[i - 1] + w[i]]
<1>1. PICK f \in [0..Len(w) -> Nat] : AddsUp(f, w, Len(w))
  BY AddsUpExists
<1>2. Recursion(f)
  BY <1>1 DEF AddsUp
<1>3. Sums(w) = CHOOSE g : Recursion(g)
  BY DEF Sums
<1>4. Recursion(Sums(w))
  <2> HIDE DEF Recursion
  <2>1. QED
    BY <1>2, <1>3
<1> DEFINE g == Sums(w)
<1>5. g = [i \in 0..Len(w) |-> IF i = 0 THEN 0 ELSE g[i - 1] + w[i]]
  BY <1>4
<1> HIDE DEF g, Recursion
<1>6. AddsUp(g, w, Len(w))
  <2>1. 0 \in 0..Len(w)
    OBVIOUS
  <2>2. g[0] = 0
    BY <1>5, <2>1
  <2>3. ASSUME NEW k \in 1..Len(w) PROVE g[k] = g[k - 1] + w[k]
    <3>1. k \in 0..Len(w) /\ k # 0
      OBVIOUS
    <3>2. QED
      BY <1>5, <3>1
  <2>4. QED
    BY <2>2, <2>3 DEF AddsUp
<1> DEFINE S == {k \in 0..Len(w) : g[k] \notin Nat}
<1>7. ASSUME S # {} PROVE FALSE
  <2>1. PICK n \in S : \A k \in S : n <= k
    <3>1. S \subseteq Nat
      OBVIOUS
    <3> HIDE DEF S
    <3>2. QED
      BY <1>7, <3>1, LeastNatural
  <2>2. n \in 1..Len(w) /\ n - 1 \in 0..Len(w) /\ n - 1 \notin S
    BY <1>6, <2>1 DEF AddsUp
  <2>3. g[n - 1] \in Nat /\ w[n] \in Nat
    BY <2>2
  <2>4. QED
    BY <1>6, <2>2, <2>3 DEF AddsUp
<1>8. \A k \in 0..Len(w) : g[k] \in Nat
  BY <1>7
<1>9. g \in [0..Len(w) -> Nat]
  <2> HIDE DEF S
  <2>1. QED
    BY <1>5, <1>8
<1>10. QED
  BY <1>6, <1>9 DEF g

\* What adds up the same numbers is the same.
LEMMA AddsUpOnce ==
  ASSUME NEW i \in Nat, NEW w, NEW v, NEW f, NEW g,
         AddsUp(f, w, i), AddsUp(g, v, i), \A k \in 1..i : w[k] = v[k]
  PROVE  \A k \in 0..i : f[k] = g[k]
<1> DEFINE S == {k \in 0..i : f[k] # g[k]}
<1>1. ASSUME S # {} PROVE FALSE
  <2>1. PICK n \in S : \A k \in S : n <= k
    <3>1. S \subseteq Nat
      OBVIOUS
    <3> HIDE DEF S
    <3>2. QED
      BY <1>1, <3>1, LeastNatural
  <2>2. n \in 1..i /\ n - 1 \in 0..i /\ n - 1 \notin S
    BY <2>1 DEF AddsUp
  <2>3. QED
    BY <2>2 DEF AddsUp
<1>2. QED
  BY <1>1

\* Sequences that begin alike.
LEMMA SumsAlike ==
  ASSUME NEW w \in Seq(Nat), NEW v \in Seq(Nat), NEW i \in Nat,
         i <= Len(w), i <= Len(v), \A k \in 1..i : w[k] = v[k]
  PROVE  \A k \in 0..i : Sums(w)[k] = Sums(v)[k]
<1>1. AddsUp(Sums(w), w, i) /\ AddsUp(Sums(v), v, i)
  BY SumsAddUp DEF AddsUp
<1>2. QED
  BY <1>1, AddsUpOnce

\* A sequence without its first number.
LEMMA SumsTail ==
  ASSUME NEW w \in Seq(Nat), NEW v \in Seq(Nat), Len(w) = Len(v) + 1,
         \A k \in 1..Len(v) : v[k] = w[k + 1]
  PROVE  \A k \in 0..Len(v) : Sums(v)[k] = Sums(w)[k + 1] - w[1]
<1> DEFINE g == [k \in 0..Len(v) |-> Sums(w)[k + 1] - w[1]]
<1>1. /\ AddsUp(Sums(w), w, Len(w)) /\ AddsUp(Sums(v), v, Len(v))
      /\ Sums(w) \in [0..Len(w) -> Nat] /\ Sums(v) \in [0..Len(v) -> Nat]
  BY SumsAddUp
<1>2. Len(v) \in Nat /\ 1 \in 1..Len(w) /\ w[1] \in Nat
  OBVIOUS
<1>3. g[0] = 0
  <2>1. Sums(w)[1] = Sums(w)[0] + w[1] /\ Sums(w)[0] = 0
    BY <1>1, <1>2 DEF AddsUp
  <2>2. QED
    BY <1>2, <2>1
<1>4. ASSUME NEW k \in 1..Len(v) PROVE g[k] = g[k - 1] + v[k]
  <2>1. k + 1 \in 1..Len(w) /\ k - 1 \in 0..Len(v) /\ k \in 0..Len(w)
    BY <1>2
  <2>2. Sums(w)[k + 1] = Sums(w)[k] + w[k + 1]
    <3>1. (k + 1) - 1 = k
      OBVIOUS
    <3>2. QED
      BY <1>1, <2>1, <3>1 DEF AddsUp
  <2>3. Sums(w)[k + 1] \in Nat /\ Sums(w)[k] \in Nat
    <3>1. k + 1 \in 0..Len(w)
      BY <2>1
    <3>2. QED
      BY <1>1, <2>1, <3>1
  <2>4. w[k + 1] \in Nat /\ w[k + 1] = v[k]
    BY <2>1
  <2>5. g[k] = Sums(w)[k + 1] - w[1]
    OBVIOUS
  <2>6. g[k - 1] = Sums(w)[k] - w[1]
    BY <2>1
  <2>7. Sums(w)[k + 1] - w[1] = Sums(w)[k] - w[1] + v[k]
    <3>1. Sums(w)[k + 1] = Sums(w)[k] + v[k]
      BY <2>2, <2>4
    <3>2. v[k] \in Nat /\ w[1] \in Nat
      BY <1>2, <2>4
    <3> DEFINE a == Sums(w)[k + 1]
               b == Sums(w)[k]
               c == v[k]
               d == w[1]
    <3>3. a \in Nat /\ b \in Nat /\ c \in Nat /\ d \in Nat /\ a = b + c
      BY <2>3, <3>1, <3>2
    <3> HIDE DEF a, b, c, d
    <3>4. a - d = b - d + c
      BY <3>3
    <3>5. QED
      BY <3>4 DEF a, b, c, d
  <2>8. QED
    BY <2>5, <2>6, <2>7
<1>5. AddsUp(g, v, Len(v))
  BY <1>3, <1>4 DEF AddsUp
<1>6. \A k \in 0..Len(v) : Sums(v)[k] = g[k]
  <2> HIDE DEF g
  <2>1. QED
    BY <1>1, <1>2, <1>5, AddsUpOnce
<1>7. QED
  BY <1>6

\* Sums grow, and only by what is not zero.
LEMMA SumsGrow ==
  ASSUME NEW w \in Seq(Nat), NEW i \in 0..Len(w), NEW j \in i..Len(w)
  PROVE  /\ Sums(w)[i] <= Sums(w)[j]
         /\ (\A k \in i + 1..j : w[k] = 0) => Sums(w)[j] = Sums(w)[i]
<1> DEFINE Good(n) == /\ Sums(w)[i] <= Sums(w)[n]
                      /\ (\A k \in i + 1..n : w[k] = 0) => Sums(w)[n] = Sums(w)[i]
           S == {n \in i..Len(w) : ~Good(n)}
<1>1. AddsUp(Sums(w), w, Len(w)) /\ Sums(w) \in [0..Len(w) -> Nat]
  BY SumsAddUp
<1>2. ASSUME S # {} PROVE FALSE
  <2>1. PICK n \in S : \A k \in S : n <= k
    <3>1. S \subseteq Nat
      OBVIOUS
    <3> HIDE DEF S
    <3>2. QED
      BY <1>2, <3>1, LeastNatural
  <2>2. n \in i..Len(w) /\ ~Good(n)
    OBVIOUS
  <2>3. n # i
    BY <1>1, <2>2
  <2>4. n - 1 \in i..Len(w) /\ n - 1 \notin S
    BY <2>1, <2>2, <2>3
  <2>5. Good(n - 1)
    BY <2>4
  <2>6. /\ Sums(w)[n] = Sums(w)[n - 1] + w[n] /\ w[n] \in Nat
        /\ Sums(w)[n] \in Nat /\ Sums(w)[n - 1] \in Nat /\ Sums(w)[i] \in Nat
    <3>1. n \in 1..Len(w) /\ n \in 0..Len(w) /\ n - 1 \in 0..Len(w)
      BY <2>2, <2>3
    <3>2. Sums(w)[n] = Sums(w)[n - 1] + w[n]
      BY <1>1, <3>1 DEF AddsUp
    <3>3. Sums(w)[n] \in Nat /\ Sums(w)[n - 1] \in Nat /\ Sums(w)[i] \in Nat
      BY <1>1, <3>1
    <3>4. w[n] \in Nat
      BY <3>1
    <3>5. QED
      BY <3>2, <3>3, <3>4
  <2>7. Sums(w)[i] <= Sums(w)[n]
    <3>1. Sums(w)[i] <= Sums(w)[n - 1]
      BY <2>5
    <3>2. QED
      BY <2>6, <3>1
  <2>8. (\A k \in i + 1..n : w[k] = 0) => Sums(w)[n] = Sums(w)[i]
    <3>1. SUFFICES ASSUME \A k \in i + 1..n : w[k] = 0
                   PROVE  Sums(w)[n] = Sums(w)[i]
      OBVIOUS
    <3>2. i \in Int /\ n \in Int /\ n \in i + 1..n
      BY <2>2, <2>3
    <3>3. \A k \in i + 1..n - 1 : k \in i + 1..n
      BY <3>2
    <3>4. Sums(w)[n - 1] = Sums(w)[i]
      BY <2>5, <3>1, <3>3
    <3>5. w[n] = 0
      BY <3>1, <3>2
    <3>6. QED
      BY <2>6, <3>4, <3>5
  <2>9. QED
    BY <2>2, <2>7, <2>8
<1>3. QED
  BY <1>2

-----------------------------------------------------------------------------
(* What the frames on a wire carry, and how many there are.                *)

Carries(f, type, ids) == IF f.type = type /\ f.sid \in ids THEN f.n ELSE 0
Weights(w, type, ids) == [i \in 1..Len(w) |-> Carries(w[i], type, ids)]
BytesTo(w, type, ids, i) == Sums(Weights(w, type, ids))[i]

Is(f, type) == IF f.type = type THEN 1 ELSE 0
Marks(w, type) == [i \in 1..Len(w) |-> Is(w[i], type)]
CountTo(w, type, i) == Sums(Marks(w, type))[i]
Count(w, type) == CountTo(w, type, Len(w))

\* All bytes are the bytes up to the last frame.
LEMMA BytesIsBytesTo ==
  ASSUME NEW w, NEW type, NEW ids
  PROVE  Bytes(w, type, ids) = BytesTo(w, type, ids, Len(w))
BY DEF Bytes, BytesTo, Weights, Carries

\* What one frame adds to a sum.
LEMMA FrameFacts ==
  ASSUME NEW f \in Frames, NEW type, NEW ids
  PROVE  /\ f.n \in Nat /\ f.sid \in 0..MaxPosts /\ f.end \in BOOLEAN
         /\ Carries(f, type, ids) \in Nat /\ Carries(f, type, ids) <= f.n
         /\ Is(f, type) \in {0, 1}
BY DEF Frames, Carries, Is

\* The numbers that are added up.
LEMMA WeightsType ==
  ASSUME NEW w \in Seq(Frames), NEW type, NEW ids
  PROVE  /\ Weights(w, type, ids) \in Seq(Nat)
         /\ Len(Weights(w, type, ids)) = Len(w)
         /\ Marks(w, type) \in Seq(Nat) /\ Len(Marks(w, type)) = Len(w)
         /\ Len(w) \in Nat
<1>1. \A i \in 1..Len(w) : w[i] \in Frames
  OBVIOUS
<1>2. \A i \in 1..Len(w) : Carries(w[i], type, ids) \in Nat /\ Is(w[i], type) \in Nat
  BY <1>1, FrameFacts
<1>3. Len(w) \in Nat
  OBVIOUS
<1>4. QED
  BY <1>2, <1>3 DEF Weights, Marks

\* Sums of bytes and of frames are natural, and none at first.
LEMMA BytesType ==
  ASSUME NEW w \in Seq(Frames), NEW type, NEW ids, NEW i \in 0..Len(w)
  PROVE  /\ BytesTo(w, type, ids, i) \in Nat /\ CountTo(w, type, i) \in Nat
         /\ BytesTo(w, type, ids, 0) = 0 /\ CountTo(w, type, 0) = 0
         /\ Bytes(w, type, ids) \in Nat /\ Count(w, type) \in Nat
<1> DEFINE a == Weights(w, type, ids)
           b == Marks(w, type)
<1>1. /\ a \in Seq(Nat) /\ Len(a) = Len(w)
      /\ b \in Seq(Nat) /\ Len(b) = Len(w) /\ Len(w) \in Nat
  BY WeightsType
<1> HIDE DEF a, b
<1>2. /\ \A k \in 0..Len(w) : Sums(a)[k] \in Nat /\ Sums(b)[k] \in Nat
      /\ Sums(a)[0] = 0 /\ Sums(b)[0] = 0
  BY <1>1, SumsAddUp DEF AddsUp
<1>3. Len(w) \in 0..Len(w)
  BY <1>1
<1>4. Bytes(w, type, ids) = Sums(a)[Len(w)]
  BY BytesIsBytesTo DEF BytesTo, a
<1>5. Bytes(w, type, ids) \in Nat /\ Sums(b)[Len(w)] \in Nat
  BY <1>2, <1>3, <1>4
<1>6. QED
  BY <1>2, <1>5 DEF BytesTo, CountTo, Count, a, b

\* An empty wire.
LEMMA BytesEmpty ==
  ASSUME NEW type, NEW ids
  PROVE  Bytes(<<>>, type, ids) = 0 /\ Count(<<>>, type) = 0
<1>1. <<>> \in Seq(Frames) /\ Len(<<>>) = 0 /\ 0 \in 0..Len(<<>>)
  OBVIOUS
<1>2. QED
  BY <1>1, BytesType, BytesIsBytesTo DEF Count

\* Up to some frame: one sum more with each.
LEMMA BytesNext ==
  ASSUME NEW w \in Seq(Frames), NEW type, NEW ids, NEW i \in 1..Len(w)
  PROVE  /\ BytesTo(w, type, ids, i)
              = BytesTo(w, type, ids, i - 1) + Carries(w[i], type, ids)
         /\ CountTo(w, type, i) = CountTo(w, type, i - 1) + Is(w[i], type)
<1>1. /\ AddsUp(Sums(Weights(w, type, ids)), Weights(w, type, ids), Len(w))
      /\ AddsUp(Sums(Marks(w, type)), Marks(w, type), Len(w))
  BY WeightsType, SumsAddUp
<1>2. /\ Weights(w, type, ids)[i] = Carries(w[i], type, ids)
      /\ Marks(w, type)[i] = Is(w[i], type)
  BY DEF Weights, Marks
<1>3. QED
  BY <1>1, <1>2 DEF AddsUp, BytesTo, CountTo

\* A frame is put behind the others.
LEMMA BytesAppend ==
  ASSUME NEW w \in Seq(Frames), NEW f \in Frames, NEW type, NEW ids
  PROVE  LET v == Append(w, f) IN
         /\ v \in Seq(Frames) /\ Len(v) = Len(w) + 1 /\ v[Len(v)] = f
         /\ \A i \in 1..Len(w) : v[i] = w[i]
         /\ \A i \in 0..Len(w) : /\ BytesTo(v, type, ids, i) = BytesTo(w, type, ids, i)
                                 /\ CountTo(v, type, i) = CountTo(w, type, i)
         /\ Bytes(v, type, ids) = Bytes(w, type, ids) + Carries(f, type, ids)
         /\ Count(v, type) = Count(w, type) + Is(f, type)
<1> DEFINE v == Append(w, f)
<1>1. /\ v \in Seq(Frames) /\ Len(v) = Len(w) + 1 /\ v[Len(v)] = f
      /\ \A i \in 1..Len(w) : v[i] = w[i]
      /\ Len(w) \in Nat
  OBVIOUS
<1> HIDE DEF v
<1>2. \A i \in 0..Len(w) : /\ BytesTo(v, type, ids, i) = BytesTo(w, type, ids, i)
                           /\ CountTo(v, type, i) = CountTo(w, type, i)
  <2>1. \A i \in 1..Len(w) :
          /\ Weights(v, type, ids)[i] = Weights(w, type, ids)[i]
          /\ Marks(v, type)[i] = Marks(w, type)[i]
    BY <1>1 DEF Weights, Marks
  <2>2. /\ Weights(v, type, ids) \in Seq(Nat) /\ Len(Weights(v, type, ids)) = Len(v)
        /\ Weights(w, type, ids) \in Seq(Nat) /\ Len(Weights(w, type, ids)) = Len(w)
        /\ Marks(v, type) \in Seq(Nat) /\ Len(Marks(v, type)) = Len(v)
        /\ Marks(w, type) \in Seq(Nat) /\ Len(Marks(w, type)) = Len(w)
    BY <1>1, WeightsType
  <2>3. Len(w) <= Len(v)
    BY <1>1
  <2>4. ASSUME NEW a \in Seq(Nat), NEW b \in Seq(Nat), Len(a) = Len(v), Len(b) = Len(w),
               \A i \in 1..Len(w) : a[i] = b[i]
        PROVE  \A i \in 0..Len(w) : Sums(a)[i] = Sums(b)[i]
    <3>1. Len(w) \in Nat /\ Len(w) <= Len(a) /\ Len(w) <= Len(b)
      BY <1>1, <2>3, <2>4
    <3>2. QED
      BY <2>4, <3>1, SumsAlike
  <2>5. /\ \A i \in 0..Len(w) :
             Sums(Weights(v, type, ids))[i] = Sums(Weights(w, type, ids))[i]
        /\ \A i \in 0..Len(w) : Sums(Marks(v, type))[i] = Sums(Marks(w, type))[i]
    BY <2>1, <2>2, <2>4
  <2>6. QED
    BY <2>4, <2>5 DEF BytesTo, CountTo
<1>3. Len(v) \in 1..Len(v) /\ Len(v) - 1 = Len(w) /\ Len(w) \in 0..Len(w)
  BY <1>1
<1>4. /\ BytesTo(v, type, ids, Len(v))
           = BytesTo(v, type, ids, Len(w)) + Carries(f, type, ids)
      /\ CountTo(v, type, Len(v)) = CountTo(v, type, Len(w)) + Is(f, type)
  BY <1>1, <1>3, BytesNext
<1>5. /\ Bytes(v, type, ids) = Bytes(w, type, ids) + Carries(f, type, ids)
      /\ Count(v, type) = Count(w, type) + Is(f, type)
  BY <1>2, <1>3, <1>4, BytesIsBytesTo DEF Count
<1>6. QED
  BY <1>1, <1>2, <1>5 DEF v

\* The first frame is taken.
LEMMA BytesRest ==
  ASSUME NEW w \in Seq(Frames), w # <<>>, NEW type, NEW ids
  PROVE  \A i \in 0..Len(Tail(w)) :
           /\ BytesTo(Tail(w), type, ids, i)
                = BytesTo(w, type, ids, i + 1) - Carries(w[1], type, ids)
           /\ CountTo(Tail(w), type, i) = CountTo(w, type, i + 1) - Is(w[1], type)
<1> DEFINE v == Tail(w)
<1>1. /\ v \in Seq(Frames) /\ Len(v) = Len(w) - 1
      /\ Len(w) \in Nat /\ Len(v) \in Nat
      /\ \A i \in 1..Len(v) : v[i] = w[i + 1]
  OBVIOUS
<1> HIDE DEF v
<1>2. \A i \in 0..Len(v) :
         /\ BytesTo(v, type, ids, i)
              = BytesTo(w, type, ids, i + 1) - Carries(w[1], type, ids)
         /\ CountTo(v, type, i) = CountTo(w, type, i + 1) - Is(w[1], type)
  <2>1. \A i \in 1..Len(v) :
          /\ Weights(v, type, ids)[i] = Weights(w, type, ids)[i + 1]
          /\ Marks(v, type)[i] = Marks(w, type)[i + 1]
    BY <1>1 DEF Weights, Marks
  <2>2. /\ Weights(v, type, ids) \in Seq(Nat) /\ Len(Weights(v, type, ids)) = Len(v)
        /\ Weights(w, type, ids) \in Seq(Nat) /\ Len(Weights(w, type, ids)) = Len(w)
        /\ Marks(v, type) \in Seq(Nat) /\ Len(Marks(v, type)) = Len(v)
        /\ Marks(w, type) \in Seq(Nat) /\ Len(Marks(w, type)) = Len(w)
    BY <1>1, WeightsType
  <2>3. Len(w) = Len(v) + 1 /\ 1 \in 1..Len(w)
    BY <1>1
  <2>4. /\ Weights(w, type, ids)[1] = Carries(w[1], type, ids)
        /\ Marks(w, type)[1] = Is(w[1], type)
    BY <1>1, <2>3 DEF Weights, Marks
  <2>5. \A i \in 0..Len(v) : Sums(Weights(v, type, ids))[i]
          = Sums(Weights(w, type, ids))[i + 1] - Weights(w, type, ids)[1]
    BY <2>1, <2>2, <2>3, SumsTail
  <2>6. \A i \in 0..Len(v) :
          Sums(Marks(v, type))[i] = Sums(Marks(w, type))[i + 1] - Marks(w, type)[1]
    BY <2>1, <2>2, <2>3, SumsTail
  <2>7. QED
    BY <2>4, <2>5, <2>6 DEF BytesTo, CountTo
<1>3. QED
  BY <1>2 DEF v

\* The same for the whole wire.
LEMMA BytesTail ==
  ASSUME NEW w \in Seq(Frames), w # <<>>, NEW type, NEW ids
  PROVE  LET v == Tail(w) IN
         /\ v \in Seq(Frames) /\ Len(v) = Len(w) - 1 /\ w[1] = Head(w)
         /\ Head(w) \in Frames
         /\ \A i \in 1..Len(v) : v[i] = w[i + 1] /\ i + 1 \in 1..Len(w)
         /\ \A i \in 0..Len(v) :
              /\ BytesTo(v, type, ids, i)
                   = BytesTo(w, type, ids, i + 1) - Carries(Head(w), type, ids)
              /\ CountTo(v, type, i) = CountTo(w, type, i + 1) - Is(Head(w), type)
         /\ Bytes(v, type, ids) = Bytes(w, type, ids) - Carries(Head(w), type, ids)
         /\ Count(v, type) = Count(w, type) - Is(Head(w), type)
<1> DEFINE v == Tail(w)
<1>1. /\ v \in Seq(Frames) /\ Len(v) = Len(w) - 1 /\ w[1] = Head(w)
      /\ Head(w) \in Frames /\ Len(w) \in Nat /\ Len(v) \in Nat
      /\ \A i \in 1..Len(v) : v[i] = w[i + 1] /\ i + 1 \in 1..Len(w)
  OBVIOUS
<1> HIDE DEF v
<1>2. \A i \in 0..Len(v) :
         /\ BytesTo(v, type, ids, i)
              = BytesTo(w, type, ids, i + 1) - Carries(Head(w), type, ids)
         /\ CountTo(v, type, i) = CountTo(w, type, i + 1) - Is(Head(w), type)
  BY <1>1, BytesRest, ZenonT(30) DEF v
<1>3. Len(v) \in 0..Len(v) /\ Len(v) + 1 = Len(w)
  BY <1>1
<1>4. /\ Bytes(v, type, ids) = Bytes(w, type, ids) - Carries(Head(w), type, ids)
      /\ Count(v, type) = Count(w, type) - Is(Head(w), type)
  BY <1>2, <1>3, BytesIsBytesTo DEF Count
<1>5. QED
  BY <1>1, <1>2, <1>4 DEF v

\* What is left of a wire that is cut.
LEMMA BytesCut ==
  ASSUME NEW w \in Seq(Frames), NEW m \in 0..Len(w), NEW type, NEW ids
  PROVE  LET v == SubSeq(w, 1, m) IN
         /\ v \in Seq(Frames) /\ Len(v) = m
         /\ \A i \in 1..m : v[i] = w[i]
         /\ Bytes(v, type, ids) <= Bytes(w, type, ids)
         /\ (\A i \in m + 1..Len(w) : Carries(w[i], type, ids) = 0)
              => Bytes(v, type, ids) = Bytes(w, type, ids)
<1> DEFINE v == SubSeq(w, 1, m)
<1>1. /\ v \in Seq(Frames) /\ Len(v) = m /\ m \in Nat /\ m <= Len(w)
      /\ \A i \in 1..m : v[i] = w[i]
  OBVIOUS
<1> HIDE DEF v
<1>2. /\ Weights(v, type, ids) \in Seq(Nat) /\ Len(Weights(v, type, ids)) = m
      /\ Weights(w, type, ids) \in Seq(Nat) /\ Len(Weights(w, type, ids)) = Len(w)
  BY <1>1, WeightsType
<1>3. \A i \in 1..m : Weights(v, type, ids)[i] = Weights(w, type, ids)[i]
  BY <1>1 DEF Weights
<1>4. m \in 0..m /\ Len(w) \in m..Len(w)
  BY <1>1
<1>5. Bytes(v, type, ids) = Sums(Weights(w, type, ids))[m]
  <2>1. m <= Len(Weights(w, type, ids)) /\ m <= Len(Weights(v, type, ids))
    BY <1>1, <1>2
  <2>2. \A k \in 0..m : Sums(Weights(v, type, ids))[k] = Sums(Weights(w, type, ids))[k]
    BY <1>1, <1>2, <1>3, <2>1, SumsAlike
  <2>3. Bytes(v, type, ids) = Sums(Weights(v, type, ids))[m]
    BY <1>1, BytesIsBytesTo DEF BytesTo
  <2>4. QED
    BY <1>4, <2>2, <2>3
<1>6. Bytes(w, type, ids) = Sums(Weights(w, type, ids))[Len(w)]
  BY BytesIsBytesTo DEF BytesTo
<1>7. \A i \in m + 1..Len(w) : Weights(w, type, ids)[i] = Carries(w[i], type, ids)
  BY DEF Weights
<1>8. /\ Bytes(v, type, ids) <= Bytes(w, type, ids)
      /\ (\A i \in m + 1..Len(w) : Carries(w[i], type, ids) = 0)
           => Bytes(v, type, ids) = Bytes(w, type, ids)
  <2>1. m \in 0..Len(Weights(w, type, ids))
        /\ Len(w) \in m..Len(Weights(w, type, ids))
    BY <1>2, <1>4
  <2>2. /\ Sums(Weights(w, type, ids))[m] <= Sums(Weights(w, type, ids))[Len(w)]
        /\ (\A i \in m + 1..Len(w) : Weights(w, type, ids)[i] = 0)
             => Sums(Weights(w, type, ids))[Len(w)] = Sums(Weights(w, type, ids))[m]
    BY <1>2, <2>1, SumsGrow
  <2>3. QED
    BY <1>5, <1>6, <1>7, <2>2
<1>9. QED
  BY <1>1, <1>8 DEF v

\* A wire with no such frame carries nothing.
LEMMA BytesNone ==
  ASSUME NEW w \in Seq(Frames), NEW type, NEW ids,
         \A i \in 1..Len(w) : Carries(w[i], type, ids) = 0
  PROVE  Bytes(w, type, ids) = 0
<1>1. SubSeq(w, 1, 0) = <<>> /\ 0 \in 0..Len(w)
  OBVIOUS
<1>2. \A i \in 0 + 1..Len(w) : Carries(w[i], type, ids) = 0
  OBVIOUS
<1>3. Bytes(SubSeq(w, 1, 0), type, ids) = Bytes(w, type, ids)
  BY <1>1, <1>2, BytesCut
<1>4. QED
  BY <1>1, <1>3, BytesEmpty

\* No frame carries more than its wire, nor comes before what it follows.
LEMMA BytesGrow ==
  ASSUME NEW w \in Seq(Frames), NEW type, NEW ids,
         NEW i \in 0..Len(w), NEW j \in i..Len(w)
  PROVE  /\ BytesTo(w, type, ids, i) <= BytesTo(w, type, ids, j)
         /\ CountTo(w, type, i) <= CountTo(w, type, j)
         /\ BytesTo(w, type, ids, i) <= Bytes(w, type, ids)
         /\ CountTo(w, type, i) <= Count(w, type)
<1>1. /\ Weights(w, type, ids) \in Seq(Nat) /\ Len(Weights(w, type, ids)) = Len(w)
      /\ Marks(w, type) \in Seq(Nat) /\ Len(Marks(w, type)) = Len(w)
      /\ Len(w) \in i..Len(w)
  BY WeightsType
<1>2. QED
  BY <1>1, SumsGrow, BytesIsBytesTo DEF BytesTo, CountTo, Count

-----------------------------------------------------------------------------
(* The inductive invariant, in layers.                                     *)

InCall == at \in {"send", "recv", "deliver"}
Requests == {"headers", "data"}

\* Frames as their sender writes them.
ToPeerFrame(f) ==
  /\ f.type \in Requests \cup {"settings", "ack", "update", "pong"}
  /\ f.type \in Requests => f.sid \in Streams
ToClientFrame(f) ==
  /\ f.type \in Response \cup Others
  /\ f.type \in Response => f.sid \in Streams
  /\ f.type \in {"info", "reset"} => ~f.end
  /\ f.type = "trailers" => f.end
  /\ f.type = "settings" => f.n <= MaxWindow
  /\ f.type = "update" /\ ~Does("overgrant") => f.n > 0
  /\ f.type = "reset" => Does("reset")
  /\ f.type = "data" => f.n <= MaxSend
  /\ f.type \in Stray => Does("unsupported")

\* Shapes, and an acknowledgement on its way, or still to be written, for every
\* value the peer waits to have acknowledged.
TypeInv ==
  /\ TypeOK /\ scene \in Scenes
  /\ \A i \in 1..Len(toPeer) : ToPeerFrame(toPeer[i])
  /\ \A i \in 1..Len(toClient) : ToClientFrame(toClient[i])
  /\ up => Count(toPeer, "ack") + Count(toClient, "settings") <= Len(unacked)
  /\ up /\ ~Does("overgrant") =>
       Count(toPeer, "ack") + Count(toClient, "settings") = Len(unacked)

\* The call and the streams: the one in use is the latest, those to come are
\* untouched.
CallInv ==
  /\ at = "handshake" => /\ sid = 1 /\ active = 0
                         /\ sendWin = initWin /\ sendDebt = 0
  /\ active \in {0, sid - 1} /\ (InCall => active # 0)
  /\ at = "send" => left > 0 /\ ~gotFinal /\ ~done /\ got = 0
  /\ at \in {"recv", "deliver"} => left = 0
  /\ at = "deliver" => gotFinal
  /\ sendDebt > 0 => sendWin = 0
  /\ kind = "into" => "into" \in Kinds
  /\ ~up => at = "closed" \/ Does("cut")
  /\ up => at # "closed"

Fresh ==
  /\ \A s \in Streams : s >= sid =>
       /\ request[s] = "none" /\ reply[s] = "none"
       /\ granted[s] = 0 /\ spent[s] = 0 /\ sent[s] = 0 /\ owed[s] = 0
  /\ \A i \in 1..Len(toPeer) : toPeer[i].sid < sid
  /\ \A i \in 1..Len(toClient) :
       toClient[i].type \in Response
         \/ (toClient[i].type = "update" /\ ~Does("overgrant")) =>
       toClient[i].sid < sid

\* The request: nothing follows its end, and the client is still at it before.
RequestInv ==
  /\ at = "send" => request[active] # "ended"
  /\ \A i \in 1..Len(toPeer) : toPeer[i].type \in Requests =>
       /\ request[toPeer[i].sid] # "ended"
       /\ toPeer[i].end =>
            /\ at = "send" => toPeer[i].sid # active
            /\ \A j \in i + 1..Len(toPeer) : toPeer[j].type \in Requests =>
                 toPeer[j].sid # toPeer[i].sid

\* The response on the wire: what the peer did last, and in which order.
Asked(s) == Does("early") \/ request[s] = "ended"
Ends(f) == f.type \in Response /\ (f.end \/ f.type = "reset")
Alike(f, g) == f.type \in Response /\ g.type \in Response /\ f.sid = g.sid
ReplyInv ==
  /\ \A s \in Streams : reply[s] = "open" => Asked(s)
  /\ \A i \in 1..Len(toClient) :
       LET f == toClient[i] IN
       f.type \in Response =>
         /\ f.type # "reset" => Asked(f.sid)
         /\ f.type # "info" => reply[f.sid] # "none"
         /\ Ends(f) \/ f.type \in {"trailers", "reset"} => reply[f.sid] = "ended"
         /\ f.end => owed[f.sid] = 0
         /\ \A j \in i + 1..Len(toClient) : Alike(f, toClient[j]) =>
              /\ ~Ends(f)
              /\ f.type # "info" => toClient[j].type \notin {"info", "final"}

\* The response and the call that reads it.
Of(f, types) == f.type \in types /\ f.sid = active
Pending == InCall /\ ~done
Ahead(w) == \E i \in 1..Len(w) : Of(w[i], Response) /\ Ends(w[i])
AheadWhole == \E i \in 1..Len(toClient) : Of(toClient[i], Response) /\ toClient[i].end
ResponseInv ==
  /\ InCall /\ gotFinal =>
       /\ reply[active] # "none"
       /\ \A i \in 1..Len(toClient) : ~Of(toClient[i], {"info", "final"})
  /\ InCall /\ done =>
       /\ reply[active] = "ended" /\ owed[active] = 0 /\ Asked(active)
       /\ got + InHand = sent[active]
       /\ \A i \in 1..Len(toClient) : ~Of(toClient[i], Response)
  /\ Pending /\ (up \/ AheadWhole) =>
       got + InHand + StreamDataOn(toClient, active) = sent[active]
  /\ Pending /\ up /\ reply[active] = "ended" => Ahead(toClient)
  /\ InCall /\ ~gotFinal =>
       /\ up /\ reply[active] = "open" =>
            \E i \in 1..Len(toClient) : Of(toClient[i], {"final"})
       /\ \A i \in 1..Len(toClient) : Of(toClient[i], {"data", "trailers"}) =>
            \E j \in 1..i - 1 : Of(toClient[j], {"final"})

\* Send credit, as long as the peer keeps to flow control: the values of the
\* initial window one behind the other, from the one in force at the peer to the
\* one in force at the client; no DATA beyond what will be granted when the peer
\* reads it; no SETTINGS beyond what the window can hold.
InitAfter(k) == IF k = 0 THEN pInit ELSE unacked[k]
Bound(v) == v + granted[active] <= MaxWindow
CreditInv ==
  ~Does("overgrant") =>
    /\ ~overrun /\ pConn <= MaxWindow
    /\ connWin + DataOn(toPeer) + UpdatesOn(toClient, 0) <= pConn
    /\ active # 0 => sendWin - sendDebt - initWin
                       + StreamDataOn(toPeer, active)
                       + UpdatesOn(toClient, active) <= granted[active]
    /\ SendCreditExact
    /\ up => /\ initWin = InitAfter(Count(toPeer, "ack"))
             /\ \A i \in 1..Len(toClient) : toClient[i].type = "settings" =>
                  toClient[i].n = unacked[Count(toPeer, "ack")
                                            + CountTo(toClient, "settings", i)]
    /\ \A i \in 1..Len(toPeer) : toPeer[i].type = "data" =>
         BytesTo(toPeer, "data", {toPeer[i].sid}, i)
           <= InitAfter(CountTo(toPeer, "ack", i)) + granted[toPeer[i].sid]
    /\ Pending =>
         /\ Bound(initWin)
         /\ \A i \in 1..Len(toClient) : toClient[i].type = "settings" =>
              \/ Bound(toClient[i].n)
              \/ \E j \in 1..i - 1 : Of(toClient[j], Response) /\ Ends(toClient[j])

\* No call has ended well before the first of them.
ResultInv == /\ at = "handshake" => result = "none"
             /\ result = "ok" => sid # 1

\* A client that can be used has nothing before it but the response of the call
\* in progress.
Usable == InCall \/ (at = "idle" /\ open)
Current(s) == InCall /\ s = active
CleanInv ==
  ~LeavesUnread /\ Usable =>
    /\ \A i \in 1..Len(toClient) : toClient[i].type \in Response =>
         Pending /\ toClient[i].sid = active
    /\ \A s \in Streams : s < sid /\ ~Current(s) =>
         \/ reply[s] = "ended"
         \/ /\ request[s] = "none" /\ reply[s] = "none"
            /\ \A i \in 1..Len(toPeer) : toPeer[i].type \in Requests =>
                 toPeer[i].sid # s

IInv == /\ TypeInv /\ CallInv /\ Fresh /\ RequestInv /\ ReplyInv /\ ResponseInv
        /\ CreditInv /\ ResultInv /\ CleanInv /\ RecvCreditExact /\ FailsForCause
        /\ WholeOnSuccess

-----------------------------------------------------------------------------
(* Wires.                                                                  *)

\* Frames that are built.
LEMMA FrameType ==
  ASSUME NEW t \in Response \cup Others \cup {"headers", "pong"},
         NEW s \in 0..MaxPosts, NEW n \in Nat, NEW e \in BOOLEAN
  PROVE  /\ Frame(t, s, n, e) \in Frames
         /\ Frame(t, s, n, e).type = t /\ Frame(t, s, n, e).sid = s
         /\ Frame(t, s, n, e).n = n /\ Frame(t, s, n, e).end = e
BY DEF Frame, Frames

\* One frame is written.
LEMMA WriteOne ==
  ASSUME TypeInv, NEW f \in Frames, Write(<<f>>)
  PROVE  toPeer' = IF up THEN Append(toPeer, f) ELSE toPeer
<1>1. toPeer \in Seq(Frames)
  BY DEF TypeInv, TypeOK
<1>2. toPeer \o <<f>> = Append(toPeer, f)
  BY <1>1
<1>3. QED
  BY <1>2 DEF Write

\* What control answers and what a chunk that was taken gives back.
LEMMA WriteUpdates ==
  ASSUME TypeInv, Accept
  PROVE  LET f == Frame("update", active, credit, FALSE)
             g == Frame("update", 0, credit, FALSE)
         IN  /\ f \in Frames /\ g \in Frames
             /\ toPeer' = IF ~up \/ credit = 0 THEN toPeer
                          ELSE IF done THEN Append(toPeer, g)
                          ELSE Append(Append(toPeer, f), g)
<1> DEFINE f == Frame("update", active, credit, FALSE)
           g == Frame("update", 0, credit, FALSE)
<1>1. f \in Frames /\ g \in Frames
  <2>1. /\ active \in 0..MaxPosts /\ 0 \in 0..MaxPosts /\ credit \in Nat
        /\ FALSE \in BOOLEAN
        /\ "update" \in Response \cup Others \cup {"headers", "pong"}
    BY CallAssumption DEF TypeInv, TypeOK, ClientOK, Others, Control, Stray
  <2>2. QED
    BY <2>1, FrameType
<1>2. toPeer \in Seq(Frames)
  BY DEF TypeInv, TypeOK
<1>3. toPeer' = IF up THEN toPeer \o (IF credit = 0 THEN <<>>
                                      ELSE (IF done THEN <<>> ELSE <<f>>) \o <<g>>)
                ELSE toPeer
  BY DEF Accept, Write
<1> HIDE DEF f, g
<1>4. toPeer \o <<>> = toPeer /\ <<>> \o <<g>> = <<g>>
  BY <1>1, <1>2, ConcatEmptySeq
<1>5. toPeer \o <<g>> = Append(toPeer, g)
  BY <1>1, <1>2, AppendIsConcat
<1>6. toPeer \o (<<f>> \o <<g>>) = Append(Append(toPeer, f), g)
  <2>1. /\ <<f>> \in Seq(Frames) /\ <<g>> \in Seq(Frames)
        /\ Append(toPeer, f) \in Seq(Frames)
    BY <1>1, <1>2
  <2>2. toPeer \o (<<f>> \o <<g>>) = (toPeer \o <<f>>) \o <<g>>
    BY <1>2, <2>1, ConcatAssociative
  <2>3. QED
    BY <1>1, <1>2, <2>1, <2>2, AppendIsConcat
<1>7. QED
  BY <1>1, <1>3, <1>4, <1>5, <1>6 DEF f, g

\* The frame that is read.
LEMMA Arrival ==
  ASSUME TypeInv, NEW f \in Arrived
  PROVE  /\ Reading /\ toClient # <<>> /\ f = Head(toClient) /\ f = toClient[1]
         /\ 1 \in 1..Len(toClient) /\ f \in Frames /\ ToClientFrame(f)
<1>1. toClient \in Seq(Frames)
  BY DEF TypeInv, TypeOK
<1>2. Reading /\ toClient # <<>> /\ f = Head(toClient)
  BY DEF Arrived
<1>3. f = toClient[1] /\ 1 \in 1..Len(toClient) /\ f \in Frames
  BY <1>1, <1>2
<1>4. QED
  BY <1>2, <1>3 DEF TypeInv

-----------------------------------------------------------------------------
(* Shapes.                                                                 *)

\* What every scene offers.
LEMMA SceneFacts ==
  ASSUME TypeInv
  PROVE  /\ Bodies \subseteq Nat /\ Replies \subseteq Nat
         /\ Kinds \subseteq {"stream", "into"}
         /\ Refuses \subseteq Kinds \X {"middle", "last"}
         /\ Inits \subseteq 0..MaxWindow /\ Turns \in Nat
BY SceneAssumption DEF TypeInv, Bodies, Replies, Kinds, Refuses, Inits, Turns

\* A frame behind the others, and the others behind the first.
LEMMA Behind ==
  ASSUME NEW w \in Seq(Frames), NEW f \in Frames
  PROVE  LET v == Append(w, f) IN
         /\ v \in Seq(Frames) /\ Len(v) = Len(w) + 1 /\ Len(w) \in Nat
         /\ \A i \in 1..Len(v) : \/ i \in 1..Len(w) /\ v[i] = w[i]
                                 \/ i = Len(w) + 1 /\ v[i] = f
OBVIOUS

\* Where the other frames of a wire are once its first is taken.
LEMMA Rest ==
  ASSUME NEW w \in Seq(Frames), w # <<>>
  PROVE  LET v == Tail(w) IN
         /\ v \in Seq(Frames) /\ Len(v) = Len(w) - 1 /\ Len(v) \in Nat
         /\ Head(w) = w[1] /\ w[1] \in Frames /\ 1 \in 1..Len(w)
         /\ \A i \in 1..Len(v) : i + 1 \in 1..Len(w) /\ v[i] = w[i + 1]
OBVIOUS

ReadAny == \/ ReadSettings \/ ReadConnUpdate \/ ReadStreamUpdate \/ ReadGoaway
           \/ ReadPing \/ ReadHeaders \/ ReadData \/ ReadPriority \/ ReadUnexpected
Quiet == \/ Refuse \/ Complete \/ LinkFails
         \/ \E k \in Kinds : PostUnsent(k) \/ PostRefused(k)
Tells == \/ PeerPing
         \/ \E v \in Inits : PeerSettings(v)
         \/ \E n \in Grants : PeerGrantsConn(n)
         \/ \E last \in 0..MaxPosts : PeerGoaway(last)
         \/ \E s \in 0..MaxPosts, n \in {0, MaxWindow} : PeerOvergrants(s, n)
         \/ \E s \in 0..MaxPosts, t \in Stray : PeerUnsupported(t, s)
         \/ \E s \in Streams :
              \/ \E n \in Grants : PeerGrants(s, n)
              \/ \E size \in Replies, e \in BOOLEAN : PeerReplies(s, size, e)
              \/ \E n \in 0..owed[s], e \in BOOLEAN : PeerData(s, n, e)
              \/ PeerInfo(s) \/ PeerTrailers(s) \/ PeerResets(s)

\* The steps, grouped by what they do to the wires.
LEMMA Steps ==
  ASSUME Next
  PROVE  /\ UNCHANGED scene
         /\ \/ \E k \in Kinds, b \in Bodies : Post(k, b)
            \/ SendChunk \/ ReadAny \/ Accept \/ Quiet \/ Close
            \/ PeerReads \/ Tells \/ Cut
            \/ UNCHANGED vars
BY DEF Next, InScene, Client, Call, Peer, Over, ReadAny, Quiet, Tells

\* The client keeps its shape: a request.
LEMMA PostShape ==
  ASSUME TypeInv, NEW k \in Kinds, NEW b \in Bodies, Post(k, b)
  PROVE  ClientOK'
<1>1. b \in Nat /\ k \in {"stream", "into"}
  BY SceneFacts
<1>2. /\ sid \in 1..MaxPosts /\ sid' = sid + 1 /\ active' = sid
      /\ kind' = k /\ left' = b /\ at' \in {"recv", "send"}
      /\ sendWin' = initWin /\ sendDebt' = 0
      /\ gotFinal' = FALSE /\ done' = FALSE /\ credit' = 0 /\ got' = 0
      /\ result' = "none"
      /\ UNCHANGED <<open, gotGoaway, peerLast, initWin, connWin>>
  BY DEF Post, Streams
<1>3. sid + 1 \in 1..MaxPosts + 1 /\ sid \in 0..MaxPosts
  BY <1>2, CallAssumption
<1>4. QED
  BY <1>1, <1>2, <1>3 DEF TypeInv, TypeOK, ClientOK

\* The client keeps its shape: a chunk.
LEMMA SendShape ==
  ASSUME TypeInv, SendChunk
  PROVE  ClientOK'
<1>1. MaxSend \in Nat \ {0} /\ MaxWindow \in Nat
  BY WindowAssumption
<1>2. QED
  BY <1>1 DEF TypeInv, TypeOK, ClientOK, SendChunk, Avail, Smaller, connVars

\* The client keeps its shape: an error path.
LEMMA FailsShape ==
  ASSUME TypeInv, NEW e \in Errors, Fails(e)
  PROVE  /\ open' \in BOOLEAN /\ active' \in 0..MaxPosts
         /\ result' \in Errors \cup {"none", "ok"} /\ kind' = kind
         /\ at' \in {"idle", "dead"} /\ left' = left /\ credit' = credit
         /\ got' = got /\ gotFinal' = gotFinal /\ done' = done
BY CallAssumption DEF TypeInv, TypeOK, ClientOK, Fails

\* The client keeps its shape: a frame is read.
LEMMA ReadShape ==
  ASSUME TypeInv, ReadAny
  PROVE  ClientOK'
<1>1. MaxWindow \in Nat
  BY WindowAssumption
<1>2. \A f \in Arrived : f \in Frames /\ f.n \in Nat /\ ToClientFrame(f)
  BY Arrival DEF Frames
<1>3. ASSUME NEW inc \in Nat, AddStreamCredit(inc)
      PROVE  sendWin' \in 0..MaxWindow /\ sendDebt' \in Nat
  BY <1>1, <1>3 DEF TypeInv, TypeOK, ClientOK, AddStreamCredit, Overflows, Repaid,
     Smaller
<1>4. ASSUME NEW d \in Nat, TakeStreamCredit(d)
      PROVE  sendWin' \in 0..MaxWindow /\ sendDebt' \in Nat
  BY <1>1, <1>4 DEF TypeInv, TypeOK, ClientOK, TakeStreamCredit, Smaller
<1>5. "ProtocolFailed" \in Errors
  BY DEF Errors
<1> USE DEF TypeInv, TypeOK, ClientOK
<1>6. CASE ReadSettings
  <2>1. PICK f \in Arrived :
          /\ f.type = "settings"
          /\ IF f.n >= initWin THEN AddStreamCredit(f.n - initWin)
                               ELSE TakeStreamCredit(initWin - f.n)
          /\ \/ Fails("ProtocolFailed") /\ initWin' = initWin
             \/ /\ initWin' = f.n /\ at' = IF at = "handshake" THEN "idle" ELSE at
                /\ UNCHANGED <<open, active, kind, left, gotFinal, done, credit, got,
                               result>>
          /\ UNCHANGED <<sid, gotGoaway, peerLast, connWin>>
    BY <1>6 DEF ReadSettings
  <2>2. f.n \in 0..MaxWindow
    BY <1>1, <1>2, <2>1 DEF ToClientFrame
  <2>3. sendWin' \in 0..MaxWindow /\ sendDebt' \in Nat
    <3>1. CASE f.n >= initWin
      <4>1. f.n - initWin \in Nat
        BY <2>2, <3>1
      <4>2. QED
        BY <1>3, <2>1, <3>1, <4>1
    <3>2. CASE ~ (f.n >= initWin)
      <4>1. initWin - f.n \in Nat
        BY <2>2, <3>2
      <4>2. QED
        BY <1>4, <2>1, <3>2, <4>1
    <3>3. QED
      BY <3>1, <3>2
  <2>4. CASE Fails("ProtocolFailed") /\ initWin' = initWin
    BY <1>5, <2>1, <2>3, <2>4, FailsShape
  <2>5. CASE /\ initWin' = f.n /\ at' = IF at = "handshake" THEN "idle" ELSE at
             /\ UNCHANGED <<open, active, kind, left, gotFinal, done, credit, got,
                            result>>
    BY <2>1, <2>2, <2>3, <2>5
  <2>6. QED
    BY <2>1, <2>4, <2>5
<1>7. CASE ReadConnUpdate
  <2>1. PICK f \in Arrived :
          /\ \/ /\ connWin + f.n <= MaxWindow /\ connWin' = connWin + f.n
                /\ UNCHANGED <<open, active, callVars>>
             \/ Fails("ProtocolFailed") /\ connWin' = connWin
          /\ UNCHANGED <<initWin, sendWin, sendDebt, sid, gotGoaway, peerLast>>
    BY <1>7 DEF ReadConnUpdate
  <2>2. f.n \in Nat
    BY <1>2
  <2>3. CASE Fails("ProtocolFailed") /\ connWin' = connWin
    BY <1>5, <2>1, <2>3, FailsShape
  <2>4. CASE /\ connWin + f.n <= MaxWindow /\ connWin' = connWin + f.n
             /\ UNCHANGED <<open, active, callVars>>
    BY <1>1, <2>1, <2>2, <2>4 DEF callVars
  <2>5. QED
    BY <2>1, <2>3, <2>4
<1>8. CASE ReadStreamUpdate
  <2>1. PICK f \in Arrived :
          /\ AddStreamCredit(f.n) \/ UNCHANGED <<sendWin, sendDebt>>
          /\ Fails("ProtocolFailed") \/ UNCHANGED <<open, active, callVars>>
          /\ UNCHANGED <<initWin, connWin, sid, gotGoaway, peerLast>>
    BY <1>8 DEF ReadStreamUpdate
  <2>2. sendWin' \in 0..MaxWindow /\ sendDebt' \in Nat
    BY <1>2, <1>3, <2>1
  <2>3. CASE Fails("ProtocolFailed")
    BY <1>5, <2>1, <2>2, <2>3, FailsShape
  <2>4. CASE UNCHANGED <<open, active, callVars>>
    BY <2>1, <2>2, <2>4 DEF callVars
  <2>5. QED
    BY <2>1, <2>3, <2>4
<1>9. CASE ReadGoaway
  <2>1. PICK f \in Arrived :
          /\ gotGoaway' = TRUE /\ peerLast' = f.n /\ open' = FALSE
          /\ \/ /\ result' = "Closed" /\ at' \in {"idle", "dead"}
                /\ active' = IF kind = "into" THEN active ELSE 0
                /\ UNCHANGED <<kind, left, gotFinal, done, credit, got>>
             \/ UNCHANGED <<active, callVars>>
          /\ UNCHANGED <<sid, sendVars>>
    BY <1>9 DEF ReadGoaway
  <2>2. active' \in 0..MaxPosts /\ f.n \in Nat
    BY <1>2, <2>1, CallAssumption
  <2>3. QED
    BY <2>1, <2>2 DEF callVars, sendVars, Errors
<1>10. CASE ReadPing
  BY <1>10 DEF ReadPing, callVars, sendVars, connVars
<1>11. CASE ReadHeaders
  <2>1. \A f \in Arrived : f.end \in BOOLEAN
    BY <1>2 DEF Frames
  <2>2. QED
    BY <1>11, <2>1 DEF ReadHeaders, sendVars, connVars
<1>12. CASE ReadData
  <2>1. \A f \in Arrived : f.end \in BOOLEAN
    BY <1>2 DEF Frames
  <2>2. QED
    BY <1>2, <1>12, <2>1 DEF ReadData, sendVars, connVars
<1>13. CASE ReadUnexpected
  <2>1. Fails("ProtocolFailed") /\ UNCHANGED <<sendVars, sid, gotGoaway, peerLast>>
    BY <1>13 DEF ReadUnexpected
  <2>2. QED
    BY <1>5, <2>1, FailsShape DEF sendVars
<1>14. CASE ReadPriority
  BY <1>14 DEF ReadPriority, callVars, sendVars, connVars
<1>15. QED
  BY <1>6, <1>7, <1>8, <1>9, <1>10, <1>11, <1>12, <1>13, <1>14 DEF ReadAny

\* The client keeps its shape: steps without a frame.
LEMMA QuietShape ==
  ASSUME TypeInv, Quiet
  PROVE  ClientOK'
<1> USE DEF TypeInv, TypeOK, ClientOK
<1>1. CASE Refuse
  BY <1>1, CallAssumption DEF Refuse, sendVars, Errors
<1>2. CASE Complete
  BY <1>2, CallAssumption DEF Complete, sendVars
<1>3. CASE LinkFails
  <2>1. /\ \E e \in Errors : Fails(e)
        /\ UNCHANGED <<sendVars, sid, gotGoaway, peerLast>>
    BY <1>3 DEF LinkFails, Errors
  <2>2. QED
    BY <2>1, FailsShape DEF sendVars
<1>4. ASSUME NEW k \in Kinds, PostUnsent(k) PROVE ClientOK'
  <2>1. k \in {"stream", "into"}
    BY SceneFacts
  <2>2. QED
    BY <1>4, <2>1, CallAssumption DEF PostUnsent, Errors, Streams
<1>5. ASSUME NEW k \in Kinds, PostRefused(k) PROVE ClientOK'
  <2>1. k \in {"stream", "into"}
    BY SceneFacts
  <2>2. QED
    BY <1>5, <2>1, CallAssumption DEF PostRefused, Errors, sendVars
<1>6. QED
  BY <1>1, <1>2, <1>3, <1>4, <1>5 DEF Quiet

\* A peer that tells something changes nothing of the client.
LEMMA TellsQuietly ==
  ASSUME Tells
  PROVE  UNCHANGED <<sendVars, connVars, callVars, up, toPeer>>
BY ZenonT(30) DEF Tells, PeerPing, PeerSettings, PeerGrantsConn, PeerGoaway,
   PeerOvergrants, PeerUnsupported, PeerGrants, PeerReplies, PeerData, PeerInfo,
   PeerTrailers, PeerResets, Says

\* The client keeps its shape.
LEMMA ClientShape ==
  ASSUME TypeInv, Next
  PROVE  ClientOK'
<1> USE DEF TypeInv, TypeOK, ClientOK
<1>1. CASE Accept
  BY <1>1 DEF Accept, sendVars, connVars
<1>2. CASE Close
  BY <1>2 DEF Close, sendVars, connVars
<1>3. CASE Tells
  BY <1>3, TellsQuietly DEF sendVars, connVars, callVars
<1>4. CASE PeerReads \/ Cut
  BY <1>4, ZenonT(30) DEF PeerReads, Cut, sendVars, connVars, callVars
<1>5. CASE UNCHANGED vars
  BY <1>5 DEF vars, sendVars, connVars, callVars
<1>6. QED
  BY <1>1, <1>2, <1>3, <1>4, <1>5, Steps, PostShape, SendShape, ReadShape, QuietShape

\* A step of the client leaves the peer alone.
LEMMA ClientLeavesPeer ==
  ASSUME \/ \E k \in Kinds, b \in Bodies : Post(k, b)
         \/ SendChunk \/ ReadAny \/ Accept \/ Quiet \/ Close
  PROVE  /\ UNCHANGED peerVars
         /\ (up' = up /\ ~Close) \/ (Close /\ up' = FALSE)
<1>1. CASE \E k \in Kinds, b \in Bodies : Post(k, b)
  BY <1>1 DEF Post, Close
<1>2. CASE SendChunk
  BY <1>2 DEF SendChunk, Close
<1>3. CASE ReadAny
  <2>1. UNCHANGED <<up, peerVars>> /\ Reading
    BY <1>3 DEF ReadAny, ReadSettings, ReadConnUpdate, ReadStreamUpdate, ReadGoaway,
       ReadPing, ReadHeaders, ReadData, ReadPriority, ReadUnexpected, Reads, Arrived
  <2>2. QED
    BY <2>1 DEF Reading, Close
<1>4. CASE Accept
  BY <1>4 DEF Accept, Close
<1>5. CASE Quiet
  BY <1>5 DEF Quiet, Refuse, Complete, LinkFails, PostUnsent, PostRefused, linkVars,
     Close
<1>6. CASE Close
  BY <1>6 DEF Close
<1>7. QED
  BY <1>1, <1>2, <1>3, <1>4, <1>5, <1>6

\* A balance of one stream moves.
LEMMA Shift ==
  ASSUME NEW g \in [Streams -> Int], NEW s \in Streams, NEW d \in Int
  PROVE  /\ [g EXCEPT ![s] = @ + d] \in [Streams -> Int]
         /\ [g EXCEPT ![s] = @ - d] \in [Streams -> Int]
         /\ [g EXCEPT ![s] = @ + d][s] = g[s] + d
         /\ [g EXCEPT ![s] = @ - d][s] = g[s] - d
         /\ g[s] \in Int
OBVIOUS

\* The frame the peer reads.
LEMMA PeerArrival ==
  ASSUME TypeInv, PeerReads
  PROVE  LET f == Head(toPeer) IN
         /\ f = toPeer[1] /\ 1 \in 1..Len(toPeer) /\ f \in Frames /\ ToPeerFrame(f)
         /\ f.n \in Nat /\ f.sid \in 0..MaxPosts /\ f.end \in BOOLEAN
         /\ f.type \in Requests => f.sid \in Streams
         /\ f.type = "ack" => unacked # <<>>
<1> DEFINE f == Head(toPeer)
<1>1. up /\ toPeer # <<>> /\ toPeer \in Seq(Frames)
  BY DEF PeerReads, TypeInv, TypeOK
<1>2. f = toPeer[1] /\ 1 \in 1..Len(toPeer) /\ f \in Frames
  BY <1>1
<1>3. ToPeerFrame(f)
  BY <1>2 DEF TypeInv
<1>4. ASSUME f.type = "ack" PROVE unacked # <<>>
  <2>1. /\ BytesTo(toPeer, "ack", {}, 1) \in Nat
        /\ CountTo(toPeer, "ack", 0) = 0 /\ Count(toPeer, "ack") \in Nat
        /\ CountTo(toPeer, "ack", 1) <= Count(toPeer, "ack")
    <3>1. 0 \in 0..Len(toPeer) /\ 1 \in 0..Len(toPeer) /\ 1 \in 1..Len(toPeer)
      BY <1>2
    <3>2. QED
      BY <1>1, <3>1, BytesType, BytesGrow
  <2>2. CountTo(toPeer, "ack", 1) = 1
    <3>1. CountTo(toPeer, "ack", 1) = CountTo(toPeer, "ack", 0) + Is(toPeer[1], "ack")
      <4>1. 1 - 1 = 0
        OBVIOUS
      <4>2. QED
        BY <1>1, <1>2, <4>1, BytesNext
    <3>2. QED
      BY <1>2, <1>4, <2>1, <3>1 DEF Is
  <2>3. toClient \in Seq(Frames) /\ 0 \in 0..Len(toClient)
    BY DEF TypeInv, TypeOK
  <2>4. Count(toClient, "settings") \in Nat
    BY <2>3, BytesType
  <2>5. Count(toPeer, "ack") + Count(toClient, "settings") <= Len(unacked)
    BY <1>1 DEF TypeInv
  <2>6. unacked \in Seq(0..MaxWindow)
    BY DEF TypeInv, TypeOK, PeerOK
  <2>7. QED
    BY <2>1, <2>2, <2>4, <2>5, <2>6
<1>5. f.n \in Nat /\ f.sid \in 0..MaxPosts /\ f.end \in BOOLEAN
  BY <1>2 DEF Frames
<1>6. f.type \in Requests => f.sid \in Streams
  BY <1>3 DEF ToPeerFrame
<1>7. QED
  BY <1>2, <1>3, <1>4, <1>5, <1>6

\* The peer keeps its shape: it reads.
LEMMA PeerReadsShape ==
  ASSUME TypeInv, UNCHANGED scene, PeerReads
  PROVE  PeerOK'
<1> DEFINE f == Head(toPeer)
<1>1. /\ f.n \in Nat /\ f.sid \in 0..MaxPosts /\ f.end \in BOOLEAN
      /\ f.type \in Requests => f.sid \in Streams
      /\ f.type = "ack" => unacked # <<>>
  BY PeerArrival
<1> HIDE DEF f
<1>2. Turns' = Turns /\ UNCHANGED <<up, reply, owed, sent, pLast, turns>>
  BY DEF Turns, PeerReads
<1>0. /\ up \in BOOLEAN /\ overrun \in BOOLEAN
      /\ pConn \in Int /\ pInit \in 0..MaxWindow /\ unacked \in Seq(0..MaxWindow)
      /\ granted \in [Streams -> Int] /\ spent \in [Streams -> Int]
      /\ request \in [Streams -> {"none", "open", "ended"}]
      /\ reply \in [Streams -> {"none", "open", "ended"}]
      /\ owed \in [Streams -> Nat] /\ sent \in [Streams -> Nat]
      /\ outConn \in Nat /\ outInit \in Nat
      /\ pLast \in 0..MaxPosts /\ turns \in 0..Turns
  BY DEF TypeInv, TypeOK, PeerOK
<1> USE <1>0 DEF PeerOK
<1>3. CASE /\ f.type = "headers"
           /\ request' = [request EXCEPT ![f.sid] = IF f.end THEN "ended" ELSE "open"]
           /\ UNCHANGED <<pConn, pInit, unacked, granted, overrun, outConn, outInit,
                          spent>>
  <2>1. f.sid \in Streams
    BY <1>1, <1>3 DEF Requests
  <2>2. request' \in [Streams -> {"none", "open", "ended"}]
    BY <1>3, <2>1
  <2>3. QED
    BY <1>2, <1>3, <2>2
<1>4. CASE /\ f.type = "data"
           /\ overrun' = (overrun \/ f.n > pConn \/ f.n > PeerWindow(f.sid))
           /\ pConn' = pConn - f.n
           /\ granted' = [granted EXCEPT ![f.sid] = @ - f.n]
           /\ request' = [request EXCEPT ![f.sid] = IF f.end THEN "ended" ELSE @]
           /\ UNCHANGED <<pInit, unacked, outConn, outInit, spent>>
  <2>1. f.sid \in Streams
    BY <1>1, <1>4 DEF Requests
  <2>2. request' \in [Streams -> {"none", "open", "ended"}]
    BY <1>4, <2>1
  <2>3. granted' \in [Streams -> Int]
    BY <1>1, <1>4, <2>1, Shift, SMTT(30)
  <2>4. overrun' \in BOOLEAN
    BY <1>4
  <2>5. pConn' \in Int
    BY <1>1, <1>4
  <2>6. QED
    BY <1>2, <1>4, <2>2, <2>3, <2>4, <2>5
<1>5. CASE /\ f.type = "settings" /\ outInit' = f.n
           /\ UNCHANGED <<pSend, outConn, spent>>
  BY <1>1, <1>2, <1>5 DEF pSend
<1>6. CASE /\ f.type = "ack"
           /\ pInit' = Head(unacked) /\ unacked' = Tail(unacked)
           /\ UNCHANGED <<pConn, granted, request, overrun, outConn, outInit, spent>>
  <2>1. Head(unacked) \in 0..MaxWindow /\ Tail(unacked) \in Seq(0..MaxWindow)
    BY <1>1, <1>6, HeadTailProperties
  <2>2. QED
    BY <1>2, <1>6, <2>1
<1>7. CASE /\ f.type = "update"
           /\ IF f.sid = 0 THEN outConn' = outConn + f.n /\ UNCHANGED spent
              ELSE spent' = [spent EXCEPT ![f.sid] = @ - f.n] /\ UNCHANGED outConn
           /\ UNCHANGED <<pSend, outInit>>
  <2>1. outConn' \in Nat
    BY <1>1, <1>7
  <2>2. spent' \in [Streams -> Int]
    <3>1. CASE f.sid = 0
      BY <1>7, <3>1
    <3>2. CASE f.sid # 0
      <4>1. f.sid \in Streams
        BY <1>1, <3>2 DEF Streams
      <4>2. QED
        BY <1>1, <1>7, <3>2, <4>1, Shift, SMTT(30)
    <3>3. QED
      BY <3>1, <3>2
  <2>3. QED
    BY <1>2, <1>7, <2>1, <2>2 DEF pSend
<1>8. CASE f.type = "pong" /\ UNCHANGED <<pSend, outConn, outInit, spent>>
  BY <1>2, <1>8 DEF pSend
<1>9. QED
  BY <1>3, <1>4, <1>5, <1>6, <1>7, <1>8 DEF PeerReads, f

\* The peer keeps its shape: it tells something.
LEMMA TellsShape ==
  ASSUME TypeInv, UNCHANGED scene, Tells
  PROVE  PeerOK'
<1> USE DEF TypeInv, TypeOK, PeerOK
<1>1. /\ UNCHANGED up /\ Turns' = Turns
      /\ turns \in 0..Turns /\ (Spontaneous => turns' \in 0..Turns)
  <2>1. UNCHANGED up /\ Turns' = Turns
    BY TellsQuietly DEF Turns
  <2>2. Turns \in Nat
    BY SceneFacts
  <2>3. QED
    BY <2>1, <2>2 DEF Spontaneous
<1>2. CASE PeerPing \/ \E s \in Streams : PeerInfo(s)
  BY <1>1, <1>2 DEF PeerPing, PeerInfo, pSend, pReply
<1>3. ASSUME NEW v \in Inits, PeerSettings(v) PROVE PeerOK'
  <2>1. v \in 0..MaxWindow
    BY SceneFacts
  <2>2. Append(unacked, v) \in Seq(0..MaxWindow)
    BY <2>1
  <2>3. QED
    BY <1>1, <1>3, <2>2 DEF PeerSettings, pReply
<1>4. ASSUME NEW n \in Grants, PeerGrantsConn(n) PROVE PeerOK'
  <2>1. n \in Nat
    BY PeerAssumption, WindowAssumption
  <2>2. turns' \in 0..Turns
    BY <1>1, <1>4 DEF PeerGrantsConn
  <2>3. QED
    BY <1>1, <1>4, <2>1, <2>2 DEF PeerGrantsConn, pReply
<1>5. ASSUME NEW last \in 0..MaxPosts, PeerGoaway(last) PROVE PeerOK'
  BY <1>1, <1>5 DEF PeerGoaway, pSend, pReply
<1>6. ASSUME NEW s \in 0..MaxPosts, NEW n \in {0, MaxWindow}, PeerOvergrants(s, n)
      PROVE  PeerOK'
  BY <1>1, <1>6 DEF PeerOvergrants, pSend, pReply
<1>61. ASSUME NEW s \in 0..MaxPosts, NEW t \in Stray, PeerUnsupported(t, s)
       PROVE  PeerOK'
  BY <1>1, <1>61 DEF PeerUnsupported, pSend, pReply
<1>7. ASSUME NEW s \in Streams, NEW n \in Grants, PeerGrants(s, n) PROVE PeerOK'
  <2>1. n \in Nat
    BY PeerAssumption, WindowAssumption
  <2>2. turns' \in 0..Turns
    BY <1>1, <1>7 DEF PeerGrants
  <2>3. granted' \in [Streams -> Int]
    BY <1>7, <2>1 DEF PeerGrants
  <2>4. QED
    BY <1>1, <1>7, <2>2, <2>3 DEF PeerGrants, pReply
<1>8. ASSUME NEW s \in Streams, NEW size \in Replies, NEW e \in BOOLEAN,
             PeerReplies(s, size, e)
      PROVE  PeerOK'
  <2>1. size \in Nat
    BY SceneFacts
  <2>2. reply' \in [Streams -> {"none", "open", "ended"}] /\ owed' \in [Streams -> Nat]
    BY <1>8, <2>1 DEF PeerReplies
  <2>3. QED
    BY <1>1, <1>8, <2>2 DEF PeerReplies, pSend
<1>9. ASSUME NEW s \in Streams, NEW n \in 0..owed[s], NEW e \in BOOLEAN, PeerData(s, n, e)
      PROVE  PeerOK'
  <2>1. n \in Nat /\ owed[s] - n \in Nat
    OBVIOUS
  <2>2. reply' \in [Streams -> {"none", "open", "ended"}]
    BY <1>9 DEF PeerData
  <2>3. owed' \in [Streams -> Nat] /\ sent' \in [Streams -> Nat]
    <3>1. /\ owed' = [owed EXCEPT ![s] = @ - n]
          /\ sent' = [sent EXCEPT ![s] = @ + n]
      BY <1>9 DEF PeerData
    <3>2. owed \in [Streams -> Nat] /\ sent \in [Streams -> Nat]
      OBVIOUS
    <3>3. QED
      BY <2>1, <3>1, <3>2, SMTT(30)
  <2>4. spent' \in [Streams -> Int] /\ outConn' \in Nat
    <3>1. /\ spent' = [spent EXCEPT ![s] = @ + n]
          /\ outConn' = outConn - n /\ n <= outConn
      BY <1>9 DEF PeerData
    <3>2. spent \in [Streams -> Int] /\ outConn \in Nat
      OBVIOUS
    <3>3. spent' \in [Streams -> Int]
      BY <2>1, <3>1, <3>2, Shift
    <3>4. QED
      BY <2>1, <3>1, <3>2, <3>3
  <2>5. QED
    BY <1>1, <1>9, <2>2, <2>3, <2>4 DEF PeerData, pSend
<1>10. ASSUME NEW s \in Streams, PeerTrailers(s) \/ PeerResets(s) PROVE PeerOK'
  <2>1. reply' \in [Streams -> {"none", "open", "ended"}]
    BY <1>10 DEF PeerTrailers, PeerResets
  <2>2. turns' \in 0..Turns
    BY <1>1, <1>10 DEF PeerTrailers, PeerResets
  <2>3. QED
    BY <1>1, <1>10, <2>1, <2>2 DEF PeerTrailers, PeerResets, pSend
<1>11. QED
  BY <1>2, <1>3, <1>4, <1>5, <1>6, <1>61, <1>7, <1>8, <1>9, <1>10 DEF Tells

\* The peer keeps its shape.
LEMMA PeerShape ==
  ASSUME TypeInv, Next
  PROVE  PeerOK' /\ scene' \in Scenes
<1>1. UNCHANGED scene /\ Turns' = Turns /\ scene \in Scenes
  BY Steps DEF Turns, TypeInv
<1>2. ASSUME UNCHANGED peerVars, up' = up \/ up' = FALSE
      PROVE  PeerOK'
  BY <1>1, <1>2 DEF TypeInv, TypeOK, PeerOK, peerVars, pSend, pReply
<1>3. CASE Cut
  <2>1. UNCHANGED peerVars /\ up' = FALSE
    BY <1>3 DEF Cut
  <2>2. QED
    BY <1>1, <1>2, <2>1
<1>4. CASE UNCHANGED vars
  <2>1. UNCHANGED peerVars /\ up' = up
    BY <1>4 DEF vars, linkVars
  <2>2. QED
    BY <1>1, <1>2, <2>1
<1>5. QED
  BY <1>1, <1>2, <1>3, <1>4, Steps, ClientLeavesPeer, PeerReadsShape, TellsShape

Sent(f) == toPeer' = IF up THEN Append(toPeer, f) ELSE toPeer
Ack  == Frame("ack", 0, 0, FALSE)
Pong == Frame("pong", 0, 0, FALSE)

\* The answers to a control frame.
LEMMA AckPong ==
  /\ Ack \in Frames /\ Ack.type = "ack" /\ Ack.sid = 0 /\ ~Ack.end /\ Ack.n = 0
  /\ Pong \in Frames /\ Pong.type = "pong" /\ Pong.sid = 0 /\ ~Pong.end /\ Pong.n = 0
  /\ ToPeerFrame(Ack) /\ ToPeerFrame(Pong) /\ ToClientFrame(Ack)
<1>1. /\ 0 \in 0..MaxPosts /\ 0 \in Nat /\ FALSE \in BOOLEAN
      /\ {"ack", "pong"} \subseteq Response \cup Others \cup {"headers", "pong"}
  BY CallAssumption DEF Others, Control, Stray
<1>2. Ack \in Frames /\ Pong \in Frames
  BY <1>1 DEF Ack, Pong, Frame, Frames, Response, Others, Control, Stray
<1>3. /\ Ack.type = "ack" /\ Ack.sid = 0 /\ ~Ack.end /\ Ack.n = 0
      /\ Pong.type = "pong" /\ Pong.sid = 0 /\ ~Pong.end /\ Pong.n = 0
  BY DEF Ack, Pong, Frame
<1>4. QED
  BY <1>2, <1>3 DEF ToPeerFrame, ToClientFrame, Requests, Response, Others, Control, Stray

\* What a read does to the wires.
LEMMA ReadWires ==
  ASSUME TypeInv, ReadAny
  PROVE  LET f == toClient[1] IN
         /\ Reading /\ toClient # <<>> /\ toClient' = Tail(toClient)
         /\ f \in Arrived
         /\ \/ f.type = "settings" /\ Sent(Ack)
            \/ f.type = "settings" /\ toPeer' = toPeer
                 /\ f.n >= initWin /\ Overflows(f.n - initWin)
            \/ f.type = "ping" /\ Sent(Pong)
            \/ f.type \notin {"settings", "ping"} /\ toPeer' = toPeer
<1>1. \A f \in Arrived : f = toClient[1] /\ Reading /\ toClient # <<>>
  BY Arrival
<1>2. Ack \in Frames /\ Pong \in Frames
  BY AckPong
<1>3. CASE ReadSettings
  <2>1. PICK f \in Arrived :
          /\ Reads(f) /\ f.type = "settings"
          /\ \/ toPeer' = toPeer /\ f.n >= initWin /\ Overflows(f.n - initWin)
             \/ Write(<<Ack>>)
    BY <1>3 DEF ReadSettings, Ack
  <2>2. Write(<<Ack>>) => Sent(Ack)
    BY <1>2, WriteOne DEF Sent
  <2>3. QED
    BY <1>1, <2>1, <2>2 DEF Reads
<1>4. CASE ReadPing
  <2>1. PICK f \in Arrived :
          /\ Reads(f)
          /\ \/ f.type = "ping" /\ Write(<<Pong>>)
             \/ f.type = "ack" /\ toPeer' = toPeer
    BY <1>4 DEF ReadPing, Pong
  <2>2. Write(<<Pong>>) => Sent(Pong)
    BY <1>2, WriteOne DEF Sent
  <2>3. QED
    BY <1>1, <2>1, <2>2 DEF Reads
<1>5. CASE ~ReadSettings /\ ~ReadPing
  <2>1. PICK f \in Arrived :
          Reads(f) /\ f.type \notin {"settings", "ping"} /\ toPeer' = toPeer
    BY <1>5 DEF ReadAny, ReadConnUpdate, ReadStreamUpdate, ReadGoaway, ReadHeaders,
       ReadData, ReadPriority, ReadUnexpected, Response, Stray
  <2>2. QED
    BY <1>1, <2>1 DEF Reads
<1>6. QED
  BY <1>3, <1>4, <1>5

\* What the peer says, and what it counts then.
Told(f) ==
  \/ /\ f.type = "settings"
     /\ \A s \in Streams : reply[s] # "ended" => f.n + granted[s] <= MaxWindow
     /\ unacked' = Append(unacked, f.n)
     /\ UNCHANGED <<pConn, pInit, granted, request, overrun, pReply>>
  \/ /\ f.type = "update" /\ f.sid \in Streams /\ request[f.sid] # "none"
     /\ \A v \in InForce : v + granted[f.sid] + f.n <= MaxWindow
     /\ granted' = [granted EXCEPT ![f.sid] = @ + f.n]
     /\ UNCHANGED <<pConn, pInit, unacked, request, overrun, pReply>>
  \/ /\ f.type = "update" /\ f.sid = 0 /\ pConn + f.n <= MaxWindow
     /\ pConn' = pConn + f.n
     /\ UNCHANGED <<pInit, unacked, granted, request, overrun, pReply>>
  \/ /\ f.type = "update" /\ Does("overgrant") /\ UNCHANGED <<pSend, pReply>>
  \/ f.type \in {"goaway", "ping"} /\ f.sid = 0 /\ UNCHANGED <<pSend, pReply>>
  \/ f.type \in {"priority", "unsupported"} /\ UNCHANGED <<pSend, pReply>>
  \/ /\ f.type = "info" /\ f.sid \in Streams /\ ~f.end /\ Answers(f.sid)
     /\ reply[f.sid] = "none"
     /\ UNCHANGED <<pSend, pReply>>
  \/ /\ f.type = "final" /\ f.sid \in Streams /\ Answers(f.sid)
     /\ reply[f.sid] = "none"
     /\ reply' = [reply EXCEPT ![f.sid] = IF f.end THEN "ended" ELSE "open"]
     /\ \E size \in Nat : /\ f.end => size = 0
                          /\ owed' = [owed EXCEPT ![f.sid] = size]
     /\ UNCHANGED <<pSend, sent, outConn, outInit, spent>>
  \/ /\ f.type = "data" /\ f.sid \in Streams /\ reply[f.sid] = "open"
     /\ f.n <= owed[f.sid] /\ (f.end => f.n = owed[f.sid]) /\ f.n <= outConn
     /\ reply' = [reply EXCEPT ![f.sid] = IF f.end THEN "ended" ELSE @]
     /\ owed' = [owed EXCEPT ![f.sid] = @ - f.n]
     /\ sent' = [sent EXCEPT ![f.sid] = @ + f.n]
     /\ outConn' = outConn - f.n /\ spent' = [spent EXCEPT ![f.sid] = @ + f.n]
     /\ UNCHANGED <<pSend, outInit>>
  \/ /\ f.type = "trailers" /\ f.sid \in Streams /\ f.end
     /\ reply[f.sid] = "open" /\ owed[f.sid] = 0
     /\ reply' = [reply EXCEPT ![f.sid] = "ended"]
     /\ UNCHANGED <<pSend, owed, sent, outConn, outInit, spent>>
  \/ /\ f.type = "reset" /\ f.sid \in Streams /\ ~f.end /\ Does("reset")
     /\ request[f.sid] # "none" /\ reply[f.sid] # "ended"
     /\ reply' = [reply EXCEPT ![f.sid] = "ended"]
     /\ UNCHANGED <<pSend, owed, sent, outConn, outInit, spent>>

\* A frame of the peer, and what it does to its own counts.
LEMMA TellsCases ==
  ASSUME TypeInv, Tells
  PROVE  /\ up /\ UNCHANGED <<up, toPeer, sendVars, connVars, callVars>>
         /\ \E f \in Frames :
              toClient' = Append(toClient, f) /\ ToClientFrame(f) /\ Told(f)
<1>0. up /\ UNCHANGED <<up, toPeer, sendVars, connVars, callVars>>
  <2>1. up
    BY ZenonT(30) DEF Tells, PeerPing, PeerSettings, PeerGrantsConn, PeerGoaway,
       PeerOvergrants, PeerUnsupported, PeerGrants, PeerReplies, PeerData,
       PeerInfo, PeerTrailers, PeerResets, Says
  <2>2. QED
    BY <2>1, TellsQuietly
<1>1. /\ 0 \in 0..MaxPosts /\ 0 \in Nat /\ FALSE \in BOOLEAN /\ TRUE \in BOOLEAN
      /\ Streams \subseteq 0..MaxPosts
  BY CallAssumption DEF Streams
<1> DEFINE Tell(f) == toClient' = Append(toClient, f) /\ ToClientFrame(f) /\ Told(f)
           T == Response \cup Others \cup {"headers", "pong"}
<1>2. ASSUME NEW t \in T, NEW s \in 0..MaxPosts, NEW n \in Nat, NEW e \in BOOLEAN,
             toClient' = Append(toClient, Frame(t, s, n, e)),
             ToClientFrame(Frame(t, s, n, e)), Told(Frame(t, s, n, e))
      PROVE  \E f \in Frames : Tell(f)
  <2>1. Frame(t, s, n, e) \in Frames
    BY FrameType
  <2>2. Tell(Frame(t, s, n, e))
    BY <1>2
  <2>3. QED
    BY <2>1, <2>2
<1> HIDE DEF Tell
<1>21. {"ping", "settings", "update", "goaway", "info", "final", "trailers", "data",
        "reset"} \cup Stray \subseteq T
  BY DEF Response, Others, Control, Stray
<1>3. ASSUME PeerPing PROVE \E f \in Frames : Tell(f)
  <2>1. toClient' = Append(toClient, Frame("ping", 0, 0, FALSE))
    BY <1>3 DEF PeerPing, Says
  <2>2. 0 \in Nat /\ 0 \in 0..MaxPosts /\ FALSE \in BOOLEAN
    BY <1>1
  <2> DEFINE f == Frame("ping", 0, 0, FALSE)
  <2>3. f.type = "ping" /\ f.sid = 0 /\ f.n = 0 /\ f.end = FALSE
    BY DEF Frame
  <2> HIDE DEF f
  <2>4. ToClientFrame(f)
    BY <1>3, <2>2, <2>3 DEF PeerPing, ToClientFrame, Response, Others, Control, Stray
  <2>5. Told(f)
    BY <1>3, <2>2, <2>3 DEF PeerPing, Told, pSend, pReply
  <2>6. QED
    BY <1>2, <1>21, <2>1, <2>2, <2>4, <2>5 DEF f
<1>4. ASSUME NEW v \in Inits, PeerSettings(v) PROVE \E f \in Frames : Tell(f)
  <2>1. toClient' = Append(toClient, Frame("settings", 0, v, FALSE))
    BY <1>4 DEF PeerSettings, Says
  <2>2. v \in Nat /\ 0 \in 0..MaxPosts /\ FALSE \in BOOLEAN
    BY <1>1, SceneFacts, WindowAssumption
  <2> DEFINE f == Frame("settings", 0, v, FALSE)
  <2>3. f.type = "settings" /\ f.sid = 0 /\ f.n = v /\ f.end = FALSE
    BY DEF Frame
  <2> HIDE DEF f
  <2>4. ToClientFrame(f)
    BY <1>4, <2>2, <2>3, SceneFacts, PeerAssumption
       DEF PeerSettings, ToClientFrame, Response, Others, Control, Stray
  <2>5. Told(f)
    BY <1>4, <2>2, <2>3, SceneFacts DEF PeerSettings, Told, pSend, pReply
  <2>6. QED
    BY <1>2, <1>21, <2>1, <2>2, <2>4, <2>5 DEF f
<1>5. ASSUME NEW n \in Grants, PeerGrantsConn(n) PROVE \E f \in Frames : Tell(f)
  <2>1. toClient' = Append(toClient, Frame("update", 0, n, FALSE))
    BY <1>5 DEF PeerGrantsConn, Says
  <2>2. n \in Nat /\ 0 \in 0..MaxPosts /\ FALSE \in BOOLEAN
    BY <1>1, PeerAssumption, WindowAssumption
  <2> DEFINE f == Frame("update", 0, n, FALSE)
  <2>3. f.type = "update" /\ f.sid = 0 /\ f.n = n /\ f.end = FALSE
    BY DEF Frame
  <2> HIDE DEF f
  <2>4. ToClientFrame(f)
    BY <1>5, <2>2, <2>3, SceneFacts, PeerAssumption
       DEF PeerGrantsConn, ToClientFrame, Response, Others, Control, Stray
  <2>5. Told(f)
    BY <1>5, <2>2, <2>3 DEF PeerGrantsConn, Told, pSend, pReply
  <2>6. QED
    BY <1>2, <1>21, <2>1, <2>2, <2>4, <2>5 DEF f
<1>6. ASSUME NEW last \in 0..MaxPosts, PeerGoaway(last)
      PROVE  \E f \in Frames : Tell(f)
  <2>1. toClient' = Append(toClient, Frame("goaway", 0, last, FALSE))
    BY <1>6 DEF PeerGoaway, Says
  <2>2. last \in Nat /\ 0 \in 0..MaxPosts /\ FALSE \in BOOLEAN
    BY <1>1, CallAssumption
  <2> DEFINE f == Frame("goaway", 0, last, FALSE)
  <2>3. f.type = "goaway" /\ f.sid = 0 /\ f.n = last /\ f.end = FALSE
    BY DEF Frame
  <2> HIDE DEF f
  <2>4. ToClientFrame(f)
    BY <1>6, <2>2, <2>3 DEF PeerGoaway, ToClientFrame, Response, Others, Control, Stray
  <2>5. Told(f)
    BY <1>6, <2>2, <2>3 DEF PeerGoaway, Told, pSend, pReply
  <2>6. QED
    BY <1>2, <1>21, <2>1, <2>2, <2>4, <2>5 DEF f
<1>7. ASSUME NEW s \in 0..MaxPosts, NEW n \in {0, MaxWindow}, PeerOvergrants(s, n)
      PROVE  \E f \in Frames : Tell(f)
  <2>1. toClient' = Append(toClient, Frame("update", s, n, FALSE))
    BY <1>7 DEF PeerOvergrants, Says
  <2>2. n \in Nat /\ s \in 0..MaxPosts /\ FALSE \in BOOLEAN
    BY <1>1, WindowAssumption
  <2> DEFINE f == Frame("update", s, n, FALSE)
  <2>3. f.type = "update" /\ f.sid = s /\ f.n = n /\ f.end = FALSE
    BY DEF Frame
  <2> HIDE DEF f
  <2>4. ToClientFrame(f)
    BY <1>7, <2>2, <2>3, SceneFacts, PeerAssumption
       DEF PeerOvergrants, ToClientFrame, Response, Others, Control, Stray
  <2>5. Told(f)
    BY <1>7, <2>2, <2>3 DEF PeerOvergrants, Told, pSend, pReply
  <2>6. QED
    BY <1>2, <1>21, <2>1, <2>2, <2>4, <2>5 DEF f
<1>71. ASSUME NEW s \in 0..MaxPosts, NEW t \in Stray, PeerUnsupported(t, s)
       PROVE  \E f \in Frames : Tell(f)
  <2>1. toClient' = Append(toClient, Frame(t, s, 0, FALSE))
    BY <1>71 DEF PeerUnsupported, Says
  <2>2. 0 \in Nat /\ s \in 0..MaxPosts /\ FALSE \in BOOLEAN
    BY <1>1
  <2> DEFINE f == Frame(t, s, 0, FALSE)
  <2>3. f.type = t /\ f.sid = s /\ f.n = 0 /\ f.end = FALSE
    BY DEF Frame
  <2> HIDE DEF f
  <2>4. ToClientFrame(f)
    BY <1>71, <2>2, <2>3
       DEF PeerUnsupported, ToClientFrame, Response, Others, Control, Stray
  <2>5. Told(f)
    BY <1>71, <2>2, <2>3 DEF PeerUnsupported, Told, pSend, pReply, Stray
  <2>6. QED
    BY <1>2, <1>21, <2>1, <2>2, <2>4, <2>5 DEF f
<1>8. ASSUME NEW s \in Streams, NEW n \in Grants, PeerGrants(s, n)
      PROVE  \E f \in Frames : Tell(f)
  <2>1. toClient' = Append(toClient, Frame("update", s, n, FALSE))
    BY <1>8 DEF PeerGrants, Says
  <2>2. n \in Nat /\ s \in 0..MaxPosts /\ FALSE \in BOOLEAN
    BY <1>1, PeerAssumption, WindowAssumption
  <2> DEFINE f == Frame("update", s, n, FALSE)
  <2>3. f.type = "update" /\ f.sid = s /\ f.n = n /\ f.end = FALSE
    BY DEF Frame
  <2> HIDE DEF f
  <2>4. ToClientFrame(f)
    BY <1>8, <2>2, <2>3, SceneFacts, PeerAssumption
       DEF PeerGrants, ToClientFrame, Response, Others, Control, Stray
  <2>5. Told(f)
    BY <1>8, <2>2, <2>3 DEF PeerGrants, Told, pSend, pReply
  <2>6. QED
    BY <1>2, <1>21, <2>1, <2>2, <2>4, <2>5 DEF f
<1>9. ASSUME NEW s \in Streams, NEW size \in Replies, NEW e \in BOOLEAN,
             PeerReplies(s, size, e)
      PROVE  \E f \in Frames : Tell(f)
  <2>1. toClient' = Append(toClient, Frame("final", s, 0, e))
    BY <1>9 DEF PeerReplies, Says
  <2>2. 0 \in Nat /\ s \in 0..MaxPosts /\ e \in BOOLEAN
    BY <1>1
  <2> DEFINE f == Frame("final", s, 0, e)
  <2>3. f.type = "final" /\ f.sid = s /\ f.n = 0 /\ f.end = e
    BY DEF Frame
  <2> HIDE DEF f
  <2>4. ToClientFrame(f)
    BY <1>9, <2>2, <2>3 DEF PeerReplies, ToClientFrame, Response, Others, Control, Stray
  <2>5. Told(f)
    BY <1>9, <2>2, <2>3, SceneFacts DEF PeerReplies, Told, pSend, pReply
  <2>6. QED
    BY <1>2, <1>21, <2>1, <2>2, <2>4, <2>5 DEF f
<1>10. ASSUME NEW s \in Streams, NEW n \in 0..owed[s], NEW e \in BOOLEAN,
              PeerData(s, n, e)
       PROVE  \E f \in Frames : Tell(f)
  <2>1. toClient' = Append(toClient, Frame("data", s, n, e))
    BY <1>10 DEF PeerData, Says
  <2>2. n \in Nat /\ s \in 0..MaxPosts /\ e \in BOOLEAN
    BY <1>1
  <2> DEFINE f == Frame("data", s, n, e)
  <2>3. f.type = "data" /\ f.sid = s /\ f.n = n /\ f.end = e
    BY DEF Frame
  <2> HIDE DEF f
  <2>4. ToClientFrame(f)
    BY <1>10, <2>2, <2>3, SceneFacts, PeerAssumption
       DEF PeerData, ToClientFrame, Response, Others, Control, Stray
  <2>5. Told(f)
    BY <1>10, <2>2, <2>3 DEF PeerData, Told, pSend, pReply
  <2>6. QED
    BY <1>2, <1>21, <2>1, <2>2, <2>4, <2>5 DEF f
<1>11. ASSUME NEW s \in Streams, PeerInfo(s) PROVE \E f \in Frames : Tell(f)
  <2>1. toClient' = Append(toClient, Frame("info", s, 0, FALSE))
    BY <1>11 DEF PeerInfo, Says
  <2>2. 0 \in Nat /\ s \in 0..MaxPosts /\ FALSE \in BOOLEAN
    BY <1>1
  <2> DEFINE f == Frame("info", s, 0, FALSE)
  <2>3. f.type = "info" /\ f.sid = s /\ f.n = 0 /\ f.end = FALSE
    BY DEF Frame
  <2> HIDE DEF f
  <2>4. ToClientFrame(f)
    BY <1>11, <2>2, <2>3 DEF PeerInfo, ToClientFrame, Response, Others, Control, Stray
  <2>5. Told(f)
    BY <1>11, <2>2, <2>3 DEF PeerInfo, Told, pSend, pReply
  <2>6. QED
    BY <1>2, <1>21, <2>1, <2>2, <2>4, <2>5 DEF f
<1>12. ASSUME NEW s \in Streams, PeerTrailers(s) PROVE \E f \in Frames : Tell(f)
  <2>1. toClient' = Append(toClient, Frame("trailers", s, 0, TRUE))
    BY <1>12 DEF PeerTrailers, Says
  <2>2. 0 \in Nat /\ s \in 0..MaxPosts /\ TRUE \in BOOLEAN
    BY <1>1
  <2> DEFINE f == Frame("trailers", s, 0, TRUE)
  <2>3. f.type = "trailers" /\ f.sid = s /\ f.n = 0 /\ f.end = TRUE
    BY DEF Frame
  <2> HIDE DEF f
  <2>4. ToClientFrame(f)
    BY <1>12, <2>2, <2>3 DEF PeerTrailers, ToClientFrame, Response, Others, Control, Stray
  <2>5. Told(f)
    BY <1>12, <2>2, <2>3 DEF PeerTrailers, Told, pSend, pReply
  <2>6. QED
    BY <1>2, <1>21, <2>1, <2>2, <2>4, <2>5 DEF f
<1>13. ASSUME NEW s \in Streams, PeerResets(s) PROVE \E f \in Frames : Tell(f)
  <2>1. toClient' = Append(toClient, Frame("reset", s, 0, FALSE))
    BY <1>13 DEF PeerResets, Says
  <2>2. 0 \in Nat /\ s \in 0..MaxPosts /\ FALSE \in BOOLEAN
    BY <1>1
  <2> DEFINE f == Frame("reset", s, 0, FALSE)
  <2>3. f.type = "reset" /\ f.sid = s /\ f.n = 0 /\ f.end = FALSE
    BY DEF Frame
  <2> HIDE DEF f
  <2>4. ToClientFrame(f)
    BY <1>13, <2>2, <2>3 DEF PeerResets, ToClientFrame, Response, Others, Control, Stray
  <2>5. Told(f)
    BY <1>13, <2>2, <2>3 DEF PeerResets, Told, pSend, pReply, Serving
  <2>6. QED
    BY <1>2, <1>21, <2>1, <2>2, <2>4, <2>5 DEF f
<1>14. \E f \in Frames : Tell(f)
  BY <1>3, <1>4, <1>5, <1>6, <1>7, <1>71, <1>8, <1>9, <1>10, <1>11, <1>12, <1>13
     DEF Tells
<1>15. QED
  BY <1>0, <1>14 DEF Tell

\* As much of that as concerns acknowledgements.
LEMMA TellsWires ==
  ASSUME TypeInv, Tells
  PROVE  /\ up /\ UNCHANGED <<up, toPeer, sendVars, connVars, callVars>>
         /\ \E f \in Frames :
              /\ toClient' = Append(toClient, f) /\ ToClientFrame(f)
              /\ \/ f.type = "settings" /\ unacked' = Append(unacked, f.n)
                 \/ f.type # "settings" /\ unacked' = unacked
<1>1. \A f \in Frames : Told(f) =>
        \/ f.type = "settings" /\ unacked' = Append(unacked, f.n)
        \/ f.type # "settings" /\ unacked' = unacked
  BY DEF Told, pSend
<1>2. QED
  BY <1>1, TellsCases

\* What the sums of the invariant range over.
LEMMA Numbers ==
  ASSUME TypeInv
  PROVE  /\ toPeer \in Seq(Frames) /\ toClient \in Seq(Frames)
         /\ Len(toPeer) \in Nat /\ Len(toClient) \in Nat
         /\ MaxWindow \in Nat /\ MaxPosts \in Nat
         /\ sendWin \in 0..MaxWindow /\ sendDebt \in Nat /\ initWin \in 0..MaxWindow
         /\ connWin \in 0..MaxWindow /\ pConn \in Int /\ pInit \in 0..MaxWindow
         /\ outConn \in Nat /\ outInit \in Nat /\ credit \in Nat /\ got \in Nat
         /\ left \in Nat /\ unacked \in Seq(0..MaxWindow) /\ Len(unacked) \in Nat
         /\ \A type, ids : /\ Bytes(toPeer, type, ids) \in Nat
                           /\ Bytes(toClient, type, ids) \in Nat
         /\ \A type : Count(toPeer, type) \in Nat /\ Count(toClient, type) \in Nat
         /\ DataOn(toPeer) \in Nat /\ DataOn(toClient) \in Nat
         /\ \A s : /\ StreamDataOn(toPeer, s) \in Nat /\ StreamDataOn(toClient, s) \in Nat
                   /\ UpdatesOn(toPeer, s) \in Nat /\ UpdatesOn(toClient, s) \in Nat
         /\ \A s \in Streams : /\ granted[s] \in Int /\ spent[s] \in Int
                               /\ owed[s] \in Nat /\ sent[s] \in Nat
         /\ active # 0 => active \in Streams
         /\ sid \in 1..MaxPosts + 1
<1>1. /\ toPeer \in Seq(Frames) /\ toClient \in Seq(Frames)
      /\ 0 \in 0..Len(toPeer) /\ 0 \in 0..Len(toClient)
      /\ Len(toPeer) \in Nat /\ Len(toClient) \in Nat
  BY DEF TypeInv, TypeOK
<1>2. /\ \A type, ids : /\ Bytes(toPeer, type, ids) \in Nat
                        /\ Bytes(toClient, type, ids) \in Nat
      /\ \A type : Count(toPeer, type) \in Nat /\ Count(toClient, type) \in Nat
  BY <1>1, BytesType
<1>3. /\ DataOn(toPeer) \in Nat /\ DataOn(toClient) \in Nat
      /\ \A s : /\ StreamDataOn(toPeer, s) \in Nat /\ StreamDataOn(toClient, s) \in Nat
                /\ UpdatesOn(toPeer, s) \in Nat /\ UpdatesOn(toClient, s) \in Nat
  BY <1>2 DEF DataOn, StreamDataOn, UpdatesOn
<1>4. /\ sendWin \in 0..MaxWindow /\ sendDebt \in Nat /\ initWin \in 0..MaxWindow
      /\ connWin \in 0..MaxWindow /\ credit \in Nat /\ got \in Nat /\ left \in Nat
      /\ active \in 0..MaxPosts /\ sid \in 1..MaxPosts + 1
  BY DEF TypeInv, TypeOK, ClientOK
<1>5. /\ pConn \in Int /\ pInit \in 0..MaxWindow /\ outConn \in Nat /\ outInit \in Nat
      /\ unacked \in Seq(0..MaxWindow)
      /\ granted \in [Streams -> Int] /\ spent \in [Streams -> Int]
      /\ owed \in [Streams -> Nat] /\ sent \in [Streams -> Nat]
  BY DEF TypeInv, TypeOK, PeerOK
<1>6. MaxWindow \in Nat /\ MaxPosts \in Nat
  BY WindowAssumption, CallAssumption
<1>7. Len(unacked) \in Nat
  BY <1>5
<1>8. \A s \in Streams : /\ granted[s] \in Int /\ spent[s] \in Int
                         /\ owed[s] \in Nat /\ sent[s] \in Nat
  BY <1>5
<1>9. active # 0 => active \in Streams
  BY <1>4, <1>6 DEF Streams
<1>10. QED
  BY <1>1, <1>2, <1>3, <1>4, <1>5, <1>6, <1>7, <1>8, <1>9

\* The first frame is part of what the wire carries.
LEMMA HeadCarried ==
  ASSUME NEW w \in Seq(Frames), w # <<>>, NEW type, NEW ids
  PROVE  /\ Carries(w[1], type, ids) <= Bytes(w, type, ids)
         /\ Is(w[1], type) <= Count(w, type)
<1>1. /\ Tail(w) \in Seq(Frames) /\ 0 \in 0..Len(Tail(w)) /\ 0 \in 0..Len(w)
      /\ w[1] = Head(w) /\ w[1] \in Frames
  OBVIOUS
<1>2. /\ Bytes(Tail(w), type, ids) \in Nat /\ Count(Tail(w), type) \in Nat
      /\ Bytes(w, type, ids) \in Nat /\ Count(w, type) \in Nat
  BY <1>1, BytesType
<1>3. /\ Bytes(Tail(w), type, ids) = Bytes(w, type, ids) - Carries(w[1], type, ids)
      /\ Count(Tail(w), type) = Count(w, type) - Is(w[1], type)
  BY <1>1, BytesTail
<1>4. Carries(w[1], type, ids) \in Nat /\ Is(w[1], type) \in Nat
  BY <1>1, FrameFacts
<1>5. QED
  BY <1>2, <1>3, <1>4

\* A peer that keeps to flow control overflows no window.
LEMMA NoOverflow ==
  ASSUME TypeInv, CallInv, CreditInv, ~Does("overgrant"), NEW f \in Arrived
  PROVE  /\ f.type = "settings" => f.n < initWin \/ ~Overflows(f.n - initWin)
         /\ f.type = "update" /\ f.sid = 0 => connWin + f.n <= MaxWindow
         /\ f.type = "update" /\ f.sid # 0 /\ f.sid = active => ~Overflows(f.n)
<1>1. /\ Reading /\ toClient # <<>> /\ f = toClient[1] /\ 1 \in 1..Len(toClient)
      /\ f \in Frames /\ ToClientFrame(f)
  BY Arrival
<1>2. at # "handshake" => Pending /\ active # 0 /\ active \in Streams
  BY <1>1, Numbers DEF Reading, Pending, InCall, CallInv
<1>3. f.n \in Nat
  BY <1>1 DEF Frames
<1>4. /\ sendWin \in 0..MaxWindow /\ sendDebt \in Nat /\ initWin \in 0..MaxWindow
      /\ connWin \in 0..MaxWindow /\ pConn \in Int /\ MaxWindow \in Nat
  BY Numbers
<1>5. /\ sendDebt > 0 => sendWin = 0
      /\ at = "handshake" => active = 0 /\ sendWin = initWin /\ sendDebt = 0
  BY DEF CallInv
<1>6. ASSUME f.type = "update" PROVE f.n <= UpdatesOn(toClient, f.sid)
  <2>1. Carries(f, "update", {f.sid}) = f.n
    BY <1>6 DEF Carries
  <2>2. Carries(f, "update", {f.sid}) <= Bytes(toClient, "update", {f.sid})
    BY <1>1, Numbers, HeadCarried
  <2>3. QED
    BY <2>1, <2>2 DEF UpdatesOn
<1>7. ASSUME f.type = "update", f.sid = 0 PROVE connWin + f.n <= MaxWindow
  <2>1. connWin + DataOn(toPeer) + UpdatesOn(toClient, 0) <= pConn /\ pConn <= MaxWindow
    BY DEF CreditInv
  <2>2. DataOn(toPeer) \in Nat /\ UpdatesOn(toClient, 0) \in Nat
    BY Numbers
  <2>3. f.n <= UpdatesOn(toClient, 0)
    BY <1>6, <1>7
  <2>4. QED
    BY <1>3, <1>4, <2>1, <2>2, <2>3
<1>8. ASSUME active # 0, Pending
      PROVE  /\ granted[active] \in Int /\ initWin + granted[active] <= MaxWindow
             /\ sendWin - sendDebt - initWin + UpdatesOn(toClient, active)
                  <= granted[active]
             /\ UpdatesOn(toClient, active) \in Nat
             /\ f.type = "settings" => f.n + granted[active] <= MaxWindow
  <2>1. /\ granted[active] \in Int /\ UpdatesOn(toClient, active) \in Nat
        /\ StreamDataOn(toPeer, active) \in Nat
    BY <1>8, Numbers
  <2>2. /\ sendWin - sendDebt - initWin + StreamDataOn(toPeer, active)
             + UpdatesOn(toClient, active) <= granted[active]
        /\ Bound(initWin)
        /\ \A i \in 1..Len(toClient) : toClient[i].type = "settings" =>
             \/ Bound(toClient[i].n)
             \/ \E j \in 1..i - 1 : Of(toClient[j], Response) /\ Ends(toClient[j])
    BY <1>8 DEF CreditInv
  <2>3. f.type = "settings" => Bound(f.n)
    <3>1. \A j \in 1..1 - 1 : FALSE
      OBVIOUS
    <3>2. QED
      BY <1>1, <2>2, <3>1
  <2>4. sendWin - sendDebt - initWin + UpdatesOn(toClient, active) <= granted[active]
    BY <1>4, <2>1, <2>2
  <2>5. QED
    BY <2>1, <2>2, <2>3, <2>4 DEF Bound
<1>9. ASSUME f.type = "settings" PROVE f.n < initWin \/ ~Overflows(f.n - initWin)
  <2>1. f.n <= MaxWindow
    BY <1>1, <1>9 DEF ToClientFrame
  <2>2. CASE at = "handshake"
    BY <1>3, <1>4, <1>5, <2>1, <2>2 DEF Overflows, Repaid, Smaller
  <2>3. CASE at # "handshake"
    <3>1. /\ granted[active] \in Int /\ UpdatesOn(toClient, active) \in Nat
          /\ sendWin - sendDebt - initWin + UpdatesOn(toClient, active)
               <= granted[active]
          /\ f.n + granted[active] <= MaxWindow
      BY <1>2, <1>8, <1>9, <2>3
    <3>2. QED
      BY <1>3, <1>4, <1>5, <3>1 DEF Overflows, Repaid, Smaller
  <2>4. QED
    BY <2>2, <2>3
<1>10. ASSUME f.type = "update", f.sid # 0, f.sid = active PROVE ~Overflows(f.n)
  <2>1. at # "handshake"
    BY <1>5, <1>10
  <2>2. /\ granted[active] \in Int /\ UpdatesOn(toClient, active) \in Nat
        /\ sendWin - sendDebt - initWin + UpdatesOn(toClient, active)
             <= granted[active]
        /\ initWin + granted[active] <= MaxWindow
    BY <1>2, <1>8, <2>1
  <2>3. f.n <= UpdatesOn(toClient, active)
    BY <1>6, <1>10
  <2>4. QED
    BY <1>3, <1>4, <1>5, <2>2, <2>3 DEF Overflows, Repaid, Smaller
<1>11. QED
  BY <1>7, <1>9, <1>10

-----------------------------------------------------------------------------
(* TypeInv.                                                                *)

\* Frames on their way to the peer stay of their kinds.
LEMMA ToPeerKept ==
  ASSUME NEW w \in Seq(Frames), \A i \in 1..Len(w) : ToPeerFrame(w[i]),
         NEW f \in Frames, ToPeerFrame(f)
  PROVE  /\ \A i \in 1..Len(Append(w, f)) : ToPeerFrame(Append(w, f)[i])
         /\ w # <<>> => \A i \in 1..Len(Tail(w)) : ToPeerFrame(Tail(w)[i])
<1>1. \A i \in 1..Len(Append(w, f)) :
        (i \in 1..Len(w) /\ Append(w, f)[i] = w[i]) \/ Append(w, f)[i] = f
  BY Behind
<1>2. w # <<>> => \A i \in 1..Len(Tail(w)) :
        i + 1 \in 1..Len(w) /\ Tail(w)[i] = w[i + 1]
  BY Rest
<1>3. QED
  BY <1>1, <1>2

\* Frames on their way to the client stay of their kinds.
LEMMA ToClientKept ==
  ASSUME NEW w \in Seq(Frames), \A i \in 1..Len(w) : ToClientFrame(w[i]),
         NEW f \in Frames, ToClientFrame(f)
  PROVE  /\ \A i \in 1..Len(Append(w, f)) : ToClientFrame(Append(w, f)[i])
         /\ w # <<>> => \A i \in 1..Len(Tail(w)) : ToClientFrame(Tail(w)[i])
         /\ \A m \in 0..Len(w) : \A i \in 1..Len(SubSeq(w, 1, m)) :
              ToClientFrame(SubSeq(w, 1, m)[i])
<1>1. \A i \in 1..Len(Append(w, f)) :
        (i \in 1..Len(w) /\ Append(w, f)[i] = w[i]) \/ Append(w, f)[i] = f
  BY Behind
<1>2. w # <<>> => \A i \in 1..Len(Tail(w)) :
        i + 1 \in 1..Len(w) /\ Tail(w)[i] = w[i + 1]
  BY Rest
<1>3. \A m \in 0..Len(w) : \A i \in 1..Len(SubSeq(w, 1, m)) :
        i \in 1..Len(w) /\ SubSeq(w, 1, m)[i] = w[i]
  OBVIOUS
<1>4. QED
  BY <1>1, <1>2, <1>3

\* Who writes to which wire.
LEMMA SentFrame ==
  ASSUME TypeInv
  PROVE  /\ \A k \in Kinds, b \in Bodies : Post(k, b) =>
              LET f == Frame("headers", sid, 0, b = 0) IN
              f \in Frames /\ ToPeerFrame(f) /\ Sent(f) /\ sid \in Streams
         /\ SendChunk /\ active # 0 =>
              LET n == Smaller(Smaller(Avail, left), MaxSend)
                  f == Frame("data", active, n, n = left)
              IN  f \in Frames /\ ToPeerFrame(f) /\ Sent(f) /\ n \in Nat
<1>1. Streams \subseteq 0..MaxPosts /\ 0 \in Nat
  BY CallAssumption DEF Streams
<1>2. ASSUME NEW k \in Kinds, NEW b \in Bodies, Post(k, b)
      PROVE  LET f == Frame("headers", sid, 0, b = 0) IN
             f \in Frames /\ ToPeerFrame(f) /\ Sent(f) /\ sid \in Streams
  <2> DEFINE f == Frame("headers", sid, 0, b = 0)
  <2>1. sid \in Streams
    BY <1>2 DEF Post
  <2>2. f \in Frames
    BY <1>1, <2>1, FrameType
  <2>3. ToPeerFrame(f)
    BY <2>1 DEF Frame, ToPeerFrame, Requests
  <2>4. Write(<<f>>)
    BY <1>2 DEF Post
  <2> HIDE DEF f
  <2>5. Sent(f)
    BY <2>2, <2>4, WriteOne DEF Sent
  <2>6. QED
    BY <2>1, <2>2, <2>3, <2>5 DEF f
<1>3. ASSUME SendChunk, active # 0
      PROVE  LET n == Smaller(Smaller(Avail, left), MaxSend)
                 f == Frame("data", active, n, n = left)
             IN  f \in Frames /\ ToPeerFrame(f) /\ Sent(f) /\ n \in Nat
  <2> DEFINE n == Smaller(Smaller(Avail, left), MaxSend)
             f == Frame("data", active, n, n = left)
  <2>1. n \in Nat
    BY Numbers, WindowAssumption DEF Smaller, Avail
  <2>2. active \in Streams
    BY <1>3, Numbers
  <2>3. Write(<<f>>)
    BY <1>3 DEF SendChunk
  <2> HIDE DEF n
  <2>4. f \in Frames
    BY <1>1, <2>1, <2>2, FrameType DEF Response
  <2>5. ToPeerFrame(f)
    BY <2>2 DEF Frame, ToPeerFrame, Requests
  <2> HIDE DEF f
  <2>6. Sent(f)
    BY <2>3, <2>4, WriteOne DEF Sent
  <2>7. QED
    BY <2>1, <2>4, <2>5, <2>6 DEF f, n
<1>4. QED
  BY <1>2, <1>3

ShapedToPeer(w) == w \in Seq(Frames) /\ \A i \in 1..Len(w) : ToPeerFrame(w[i])
ShapedToClient(w) == w \in Seq(Frames) /\ \A i \in 1..Len(w) : ToClientFrame(w[i])

\* What the steps of the client and of the peer leave on the wires.
LEMMA QuietWires ==
  ASSUME Quiet
  PROVE  UNCHANGED <<toPeer, toClient, up, peerVars>>
BY DEF Quiet, Refuse, Complete, LinkFails, PostUnsent, PostRefused, linkVars

\* The wires keep their shape.
LEMMA WireShape ==
  ASSUME TypeInv, CallInv, Next
  PROVE  ShapedToPeer(toPeer') /\ ShapedToClient(toClient')
<1>1. ShapedToPeer(toPeer) /\ ShapedToClient(toClient)
  BY DEF TypeInv, TypeOK, ShapedToPeer, ShapedToClient
<1>2. ASSUME NEW f \in Frames, ToPeerFrame(f), NEW w, ShapedToPeer(w)
      PROVE  /\ ShapedToPeer(Append(w, f))
             /\ w # <<>> => ShapedToPeer(Tail(w))
  <2>1. Append(w, f) \in Seq(Frames) /\ (w # <<>> => Tail(w) \in Seq(Frames))
    BY <1>2 DEF ShapedToPeer
  <2>2. QED
    BY <1>2, <2>1, ToPeerKept DEF ShapedToPeer
<1>3. ASSUME NEW f \in Frames, ToClientFrame(f)
      PROVE  /\ ShapedToClient(Append(toClient, f))
             /\ toClient # <<>> => ShapedToClient(Tail(toClient))
             /\ \A m \in 0..Len(toClient) : ShapedToClient(SubSeq(toClient, 1, m))
  <2>1. /\ Append(toClient, f) \in Seq(Frames)
        /\ toClient # <<>> => Tail(toClient) \in Seq(Frames)
        /\ \A m \in 0..Len(toClient) : SubSeq(toClient, 1, m) \in Seq(Frames)
    BY <1>1 DEF ShapedToClient
  <2>2. QED
    BY <1>1, <1>3, <2>1, ToClientKept DEF ShapedToClient
<1>4. ShapedToPeer(<<>>) /\ ShapedToClient(<<>>)
  BY DEF ShapedToPeer, ShapedToClient
<1>5. /\ Ack \in Frames /\ Pong \in Frames
      /\ ToPeerFrame(Ack) /\ ToPeerFrame(Pong) /\ ToClientFrame(Ack)
  BY AckPong
<1>6. ASSUME NEW f \in Frames, ToPeerFrame(f), Sent(f) PROVE ShapedToPeer(toPeer')
  BY <1>1, <1>2, <1>6 DEF Sent
<1>7. CASE \E k \in Kinds, b \in Bodies : Post(k, b)
  <2>1. PICK k \in Kinds, b \in Bodies : Post(k, b)
    BY <1>7
  <2>2. toClient' = toClient
    BY <2>1 DEF Post
  <2>3. QED
    BY <1>1, <1>6, <2>1, <2>2, SentFrame
<1>8. CASE SendChunk
  <2>1. toClient' = toClient /\ active # 0
    BY <1>8 DEF SendChunk, CallInv, InCall
  <2>2. QED
    BY <1>1, <1>6, <1>8, <2>1, SentFrame
<1>9. CASE ReadAny
  BY <1>1, <1>3, <1>5, <1>6, <1>9, ReadWires
<1>10. CASE Accept
  <2>1. toClient' = toClient
    BY <1>10 DEF Accept
  <2> DEFINE f == Frame("update", active, credit, FALSE)
             g == Frame("update", 0, credit, FALSE)
  <2>2. /\ f \in Frames /\ g \in Frames
        /\ \/ toPeer' = toPeer
           \/ toPeer' = Append(toPeer, g)
           \/ toPeer' = Append(Append(toPeer, f), g)
    BY <1>10, WriteUpdates
  <2>3. ToPeerFrame(f) /\ ToPeerFrame(g)
    BY DEF ToPeerFrame, Frame, Requests
  <2> HIDE DEF f, g
  <2>4. QED
    BY <1>1, <1>2, <2>1, <2>2, <2>3
<1>11. CASE Quiet \/ UNCHANGED vars
  <2>1. UNCHANGED <<toPeer, toClient>>
    BY <1>11, QuietWires DEF vars, linkVars
  <2>2. QED
    BY <1>1, <2>1
<1>12. CASE Close
  BY <1>4, <1>12 DEF Close
<1>13. CASE PeerReads
  <2>1. /\ toPeer # <<>> /\ toPeer' = Tail(toPeer)
        /\ toClient' = toClient \/ toClient' = Append(toClient, Ack)
    BY <1>13 DEF PeerReads, Ack
  <2>2. QED
    BY <1>1, <1>2, <1>3, <1>5, <2>1
<1>14. CASE Tells
  BY <1>1, <1>3, <1>14, Steps, TellsWires
<1>15. CASE Cut
  <2>1. /\ toPeer' = <<>>
        /\ \E i \in 0..Len(toClient) : toClient' = SubSeq(toClient, 1, i)
    BY <1>15 DEF Cut
  <2>2. QED
    BY <1>3, <1>4, <1>5, <2>1
<1>16. QED
  BY <1>7, <1>8, <1>9, <1>10, <1>11, <1>12, <1>13, <1>14, <1>15, Steps

\* What a frame put behind, and one taken, do to the sums.
LEMMA Put ==
  ASSUME NEW w \in Seq(Frames), NEW f \in Frames
  PROVE  /\ \A type, ids : Bytes(Append(w, f), type, ids)
                             = Bytes(w, type, ids) + Carries(f, type, ids)
         /\ \A type : Count(Append(w, f), type) = Count(w, type) + Is(f, type)
<1>1. ASSUME NEW type, NEW ids
      PROVE  /\ Bytes(Append(w, f), type, ids)
                  = Bytes(w, type, ids) + Carries(f, type, ids)
             /\ Count(Append(w, f), type) = Count(w, type) + Is(f, type)
  BY BytesAppend
<1>2. ASSUME NEW type
      PROVE  Count(Append(w, f), type) = Count(w, type) + Is(f, type)
  <2>1. /\ Bytes(Append(w, f), type, {}) = Bytes(w, type, {}) + Carries(f, type, {})
        /\ Count(Append(w, f), type) = Count(w, type) + Is(f, type)
    BY <1>1
  <2>2. QED
    BY <2>1
<1>3. QED
  BY <1>1, <1>2

\* All bytes and frames of a type, without the first frame.
LEMMA Taken ==
  ASSUME NEW w \in Seq(Frames), w # <<>>
  PROVE  /\ \A type, ids : Bytes(Tail(w), type, ids)
                             = Bytes(w, type, ids) - Carries(w[1], type, ids)
         /\ \A type : Count(Tail(w), type) = Count(w, type) - Is(w[1], type)
<1>1. ASSUME NEW type, NEW ids
      PROVE  /\ Bytes(Tail(w), type, ids)
                  = Bytes(w, type, ids) - Carries(w[1], type, ids)
             /\ Count(Tail(w), type) = Count(w, type) - Is(w[1], type)
  <2>1. w[1] = Head(w)
    BY Rest
  <2>2. QED
    BY <2>1, BytesTail
<1>2. ASSUME NEW type
      PROVE  Count(Tail(w), type) = Count(w, type) - Is(w[1], type)
  <2>1. /\ Bytes(Tail(w), type, {}) = Bytes(w, type, {}) - Carries(w[1], type, {})
        /\ Count(Tail(w), type) = Count(w, type) - Is(w[1], type)
    BY <1>1
  <2>2. QED
    BY <2>1
<1>3. QED
  BY <1>1, <1>2

Counts == /\ Count(toPeer, "ack") + Count(toClient, "settings") <= Len(unacked)
          /\ ~Does("overgrant") =>
               Count(toPeer, "ack") + Count(toClient, "settings") = Len(unacked)

\* Acknowledgements on their way once a frame is written.
LEMMA SentCount ==
  ASSUME TypeInv, NEW f \in Frames, Sent(f)
  PROVE  Count(toPeer', "ack") = IF up THEN Count(toPeer, "ack") + Is(f, "ack")
                                 ELSE Count(toPeer, "ack")
BY Numbers, Put DEF Sent

\* One acknowledgement stays to come for each value that needs it.
LEMMA CountsStep ==
  ASSUME TypeInv, CallInv, CreditInv, Next, up'
  PROVE  Counts'
<1>1. /\ UNCHANGED scene /\ up /\ Counts
      /\ toPeer \in Seq(Frames) /\ toClient \in Seq(Frames)
      /\ Count(toPeer, "ack") \in Nat /\ Count(toClient, "settings") \in Nat
      /\ unacked \in Seq(0..MaxWindow) /\ Len(unacked) \in Nat
  <2>1. up
    <3>1. CASE PeerReads
      BY <3>1 DEF PeerReads
    <3>2. CASE Tells
      BY <3>2, Steps, TellsWires
    <3>3. CASE Cut
      BY <3>3 DEF Cut
    <3>4. CASE UNCHANGED vars
      BY <3>4 DEF vars, linkVars
    <3>5. QED
      BY <3>1, <3>2, <3>3, <3>4, Steps, ClientLeavesPeer
  <2>2. QED
    BY <2>1, Steps, Numbers DEF TypeInv, Counts
<1> DEFINE a == Count(toPeer, "ack")
           b == Count(toClient, "settings")
<1>2. ASSUME Count(toPeer', "ack") - Len(unacked') + Count(toClient', "settings")
                = a - Len(unacked) + b,
             Len(unacked') \in Nat, Count(toPeer', "ack") \in Int,
             Count(toClient', "settings") \in Int
      PROVE  Counts'
  BY <1>1, <1>2, SMTT(30) DEF Counts, Does, PeerDoes
<1>3. ASSUME UNCHANGED <<toClient, unacked>>, Count(toPeer', "ack") = a
      PROVE  Counts'
  <2>1. Count(toClient', "settings") = b /\ Len(unacked') = Len(unacked)
    BY <1>3
  <2>2. QED
    BY <1>1, <1>2, <1>3, <2>1
<1>4. CASE \E k \in Kinds, bb \in Bodies : Post(k, bb)
  <2>1. PICK k \in Kinds, bb \in Bodies : Post(k, bb)
    BY <1>4
  <2> DEFINE f == Frame("headers", sid, 0, bb = 0)
  <2>2. UNCHANGED <<toClient, unacked>>
    BY <2>1 DEF Post, peerVars, pSend
  <2>3. f \in Frames /\ Sent(f) /\ Is(f, "ack") = 0
    BY <2>1, SentFrame DEF Is, Frame
  <2> HIDE DEF f
  <2>4. QED
    BY <1>1, <1>3, <2>2, <2>3, SentCount
<1>5. CASE SendChunk
  <2> DEFINE n == Smaller(Smaller(Avail, left), MaxSend)
             f == Frame("data", active, n, n = left)
  <2>1. UNCHANGED <<toClient, unacked>> /\ active # 0
    BY <1>5 DEF SendChunk, CallInv, InCall, peerVars, pSend
  <2>2. f \in Frames /\ Sent(f)
    BY <1>5, <2>1, SentFrame
  <2>3. Is(f, "ack") = 0
    BY DEF Is, Frame
  <2> HIDE DEF f
  <2>4. QED
    BY <1>1, <1>3, <2>1, <2>2, <2>3, SentCount
<1>6. CASE ReadAny
  <2> DEFINE f == toClient[1]
  <2>1. /\ toClient # <<>> /\ toClient' = Tail(toClient) /\ f \in Arrived
        /\ \/ f.type = "settings" /\ Sent(Ack)
           \/ f.type = "settings" /\ toPeer' = toPeer
                /\ f.n >= initWin /\ Overflows(f.n - initWin)
           \/ f.type = "ping" /\ Sent(Pong)
           \/ f.type \notin {"settings", "ping"} /\ toPeer' = toPeer
    BY <1>6, ReadWires
  <2>2. Count(toClient', "settings") = b - Is(f, "settings")
    BY <1>1, <2>1, Taken
  <2>3. unacked' = unacked
    BY <1>6, ClientLeavesPeer DEF peerVars, pSend
  <2>4. CASE f.type = "settings" /\ Sent(Ack)
    <3>1. Count(toPeer', "ack") = a + 1 /\ Is(f, "settings") = 1
      BY <1>1, <2>4, SentCount, AckPong DEF Is
    <3>2. /\ Count(toPeer', "ack") = a + 1 /\ Count(toClient', "settings") = b - 1
          /\ Len(unacked') = Len(unacked)
      BY <2>2, <2>3, <3>1
    <3>3. /\ Count(toPeer', "ack") - Len(unacked') + Count(toClient', "settings")
               = a - Len(unacked) + b
          /\ Count(toPeer', "ack") \in Int /\ Count(toClient', "settings") \in Int
      BY <1>1, <3>2
    <3>4. QED
      BY <1>1, <1>2, <3>2, <3>3
  <2>5. CASE f.type = "settings" /\ toPeer' = toPeer
                /\ f.n >= initWin /\ Overflows(f.n - initWin)
    <3>1. Does("overgrant")
      <4>1. f.n \in Nat /\ initWin \in Nat
        <5>1. f \in Frames /\ initWin \in 0..MaxWindow /\ MaxWindow \in Nat
          BY <2>1, Arrival, Numbers
        <5>2. QED
          BY <5>1 DEF Frames
      <4>2. QED
        BY <2>1, <2>5, <4>1, NoOverflow
    <3>2. Is(f, "settings") = 1
      BY <2>5 DEF Is
    <3>3. Count(toPeer', "ack") = a /\ Count(toClient', "settings") = b - 1
      BY <2>2, <2>5, <3>2
    <3>4. QED
      BY <1>1, <2>3, <3>1, <3>3 DEF Counts, Does, PeerDoes
  <2>6. CASE f.type = "ping" /\ Sent(Pong)
    <3>1. Count(toPeer', "ack") = a /\ Is(f, "settings") = 0
      BY <1>1, <2>6, SentCount, AckPong DEF Is
    <3>2. QED
      BY <1>1, <1>2, <2>2, <2>3, <3>1
  <2>7. CASE f.type \notin {"settings", "ping"} /\ toPeer' = toPeer
    <3>1. Is(f, "settings") = 0
      BY <2>7 DEF Is
    <3>2. QED
      BY <1>1, <1>2, <2>2, <2>3, <2>7, <3>1
  <2>8. QED
    BY <2>1, <2>4, <2>5, <2>6, <2>7
<1>7. CASE Accept
  <2> DEFINE f == Frame("update", active, credit, FALSE)
             g == Frame("update", 0, credit, FALSE)
  <2>1. UNCHANGED <<toClient, unacked>>
    BY <1>7 DEF Accept, peerVars, pSend
  <2>2. /\ f \in Frames /\ g \in Frames
        /\ \/ toPeer' = toPeer
           \/ toPeer' = Append(toPeer, g)
           \/ toPeer' = Append(Append(toPeer, f), g)
    BY <1>7, WriteUpdates
  <2>3. Is(f, "ack") = 0 /\ Is(g, "ack") = 0
    BY DEF Is, Frame
  <2> HIDE DEF f, g
  <2>4. Append(toPeer, f) \in Seq(Frames)
    BY <1>1, <2>2
  <2>5. /\ Count(Append(toPeer, f), "ack") = a
        /\ Count(Append(toPeer, g), "ack") = a
        /\ Count(Append(Append(toPeer, f), g), "ack") = a
    <3>1. /\ Count(Append(toPeer, f), "ack") = a + Is(f, "ack")
          /\ Count(Append(toPeer, g), "ack") = a + Is(g, "ack")
          /\ Count(Append(Append(toPeer, f), g), "ack")
               = Count(Append(toPeer, f), "ack") + Is(g, "ack")
      BY <1>1, <2>2, <2>4, Put, ZenonT(30)
    <3>2. QED
      BY <1>1, <2>3, <3>1
  <2>6. QED
    BY <1>3, <2>1, <2>2, <2>5
<1>8. CASE Quiet \/ UNCHANGED vars
  <2>1. UNCHANGED <<toPeer, toClient, unacked>>
    BY <1>8, QuietWires DEF vars, linkVars, peerVars, pSend
  <2>2. QED
    BY <1>3, <2>1
<1>9. CASE PeerReads
  <2> DEFINE f == Head(toPeer)
  <2>1. /\ toPeer # <<>> /\ toPeer' = Tail(toPeer) /\ f = toPeer[1]
        /\ f.type = "ack" => unacked # <<>>
    BY <1>9, PeerArrival DEF PeerReads
  <2>2. Count(toPeer', "ack") = a - Is(f, "ack")
    BY <1>1, <2>1, Taken
  <2>3. Count(toClient', "settings") = b
    <3>1. toClient' = toClient \/ toClient' = Append(toClient, Ack)
      BY <1>9 DEF PeerReads, Ack
    <3>2. Is(Ack, "settings") = 0 /\ Ack \in Frames
      BY AckPong DEF Is
    <3>3. QED
      <4>1. Count(Append(toClient, Ack), "settings") = b + Is(Ack, "settings")
        BY <1>1, <3>2, Put
      <4>2. QED
        <5>1. Count(Append(toClient, Ack), "settings") = b
          <6>1. b \in Nat
            BY <1>1
          <6> HIDE DEF b
          <6>2. QED
            BY <3>2, <4>1, <6>1
        <5>2. QED
          BY <3>1, <5>1
  <2>4. CASE f.type = "ack"
    <3>1. unacked' = Tail(unacked) /\ Is(f, "ack") = 1
      BY <1>9, <2>4 DEF PeerReads, Is
    <3>2. Len(unacked') = Len(unacked) - 1 /\ Len(unacked') \in Nat
      BY <1>1, <2>1, <2>4, <3>1, HeadTailProperties
    <3>3. QED
      <4>1. /\ Count(toPeer', "ack") - Len(unacked') + Count(toClient', "settings")
                 = a - Len(unacked) + b
            /\ Count(toPeer', "ack") \in Int /\ Count(toClient', "settings") \in Int
        <5>1. a \in Nat /\ b \in Nat /\ Len(unacked) \in Nat
          BY <1>1
        <5> DEFINE m == Len(unacked')
                   n == Len(unacked)
        <5>2. Count(toPeer', "ack") = a - 1 /\ Count(toClient', "settings") = b
          BY <2>2, <2>3, <3>1
        <5>3. m = n - 1 /\ n \in Nat
          BY <3>2, <5>1
        <5> HIDE DEF a, b, m, n
        <5>4. /\ Count(toPeer', "ack") - m + Count(toClient', "settings") = a - n + b
              /\ Count(toPeer', "ack") \in Int /\ Count(toClient', "settings") \in Int
          BY <5>1, <5>2, <5>3
        <5>5. QED
          BY <5>4 DEF m, n
      <4>2. QED
        BY <1>2, <3>2, <4>1
  <2>5. CASE f.type # "ack"
    <3>1. unacked' = unacked /\ Is(f, "ack") = 0
      BY <1>9, <2>5 DEF PeerReads, Is, pSend
    <3>2. QED
      BY <1>1, <1>2, <2>2, <2>3, <3>1
  <2>6. QED
    BY <2>4, <2>5
<1>10. CASE Tells
  <2>1. PICK f \in Frames :
          /\ toClient' = Append(toClient, f) /\ toPeer' = toPeer
          /\ \/ f.type = "settings" /\ unacked' = Append(unacked, f.n)
             \/ f.type # "settings" /\ unacked' = unacked
    BY <1>1, <1>10, TellsWires
  <2>2. Count(toClient', "settings") = b + Is(f, "settings")
    BY <1>1, <2>1, Put
  <2>3. CASE f.type = "settings"
    <3>1. /\ Len(unacked') = Len(unacked) + 1 /\ Is(f, "settings") = 1
          /\ Count(toPeer', "ack") = a
      BY <1>1, <2>1, <2>3 DEF Is
    <3>2. /\ Count(toPeer', "ack") - Len(unacked') + Count(toClient', "settings")
               = a - Len(unacked) + b
          /\ Count(toPeer', "ack") \in Int /\ Count(toClient', "settings") \in Int
          /\ Len(unacked') \in Nat
      <4>1. a \in Nat /\ b \in Nat /\ Len(unacked) \in Nat
        BY <1>1
      <4> HIDE DEF a, b
      <4>2. QED
        BY <2>2, <3>1, <4>1
    <3>3. QED
      BY <1>2, <3>2
  <2>4. CASE f.type # "settings"
    <3>1. unacked' = unacked /\ Is(f, "settings") = 0
      BY <2>1, <2>4 DEF Is
    <3>2. QED
      BY <1>1, <1>2, <2>1, <2>2, <3>1
  <2>5. QED
    BY <2>3, <2>4
<1>11. CASE Close \/ Cut
  BY <1>11 DEF Close, Cut
<1>12. QED
  BY <1>4, <1>5, <1>6, <1>7, <1>8, <1>9, <1>10, <1>11, Steps

\* Shapes and acknowledgements are kept.
LEMMA TypeStep ==
  ASSUME TypeInv, CallInv, CreditInv, Next
  PROVE  TypeInv'
<1>1. ClientOK' /\ PeerOK' /\ scene' \in Scenes /\ UNCHANGED scene
  BY ClientShape, PeerShape, Steps
<1>2. /\ toPeer' \in Seq(Frames) /\ toClient' \in Seq(Frames)
      /\ \A i \in 1..Len(toPeer') : ToPeerFrame(toPeer'[i])
      /\ \A i \in 1..Len(toClient') : ToClientFrame(toClient'[i])
  BY WireShape DEF ShapedToPeer, ShapedToClient
<1>3. (\A i \in 1..Len(toClient) : ToClientFrame(toClient[i]))'
  BY <1>1, <1>2 DEF ToClientFrame, Does, PeerDoes
<1>4. up' => Counts'
  BY CountsStep
<1>5. QED
  BY <1>1, <1>2, <1>3, <1>4 DEF TypeInv, TypeOK, Counts

-----------------------------------------------------------------------------
(* What a read does to the call.                                           *)

GoesOn == UNCHANGED <<callVars, active>> /\ (open' => open)
Stops  == /\ at' = IF at = "handshake" THEN "dead" ELSE "idle"
          /\ active' = IF kind = "into" THEN active ELSE 0
          /\ open' => open /\ kind = "into"
          /\ UNCHANGED <<kind, left, gotFinal, done, credit, got>>

\* An error path stops the call.
LEMMA FailsStops ==
  ASSUME NEW e, Fails(e)
  PROVE  Stops /\ result' = e
BY DEF Fails, Stops

\* What reading a frame does to the call, frame by frame.
LEMMA ReadCall ==
  ASSUME TypeInv, CallInv, CreditInv, ReadAny
  PROVE  LET f == toClient[1] IN
         /\ sid' = sid
         /\ \/ f.type \in Others /\ GoesOn
            \/ /\ f.type = "settings" /\ at = "handshake" /\ at' = "idle"
               /\ UNCHANGED <<open, active, kind, left, gotFinal, done, credit, got,
                              result>>
            \/ /\ f.type \in Others /\ Stops /\ result' = "ProtocolFailed"
               /\ Does("overgrant") \/ Does("unsupported")
            \/ f.type = "goaway" /\ Stops /\ result' = "Closed" /\ ~open'
            \/ /\ f.type \in Response /\ ~Admits(f) /\ Stops
               /\ result' = "ProtocolFailed"
            \/ /\ f.type \in {"info", "final", "trailers"} /\ Admits(f)
               /\ gotFinal' = (gotFinal \/ f.type = "final") /\ done' = f.end
               /\ UNCHANGED <<at, kind, left, credit, got, result, open, active>>
            \/ /\ f.type = "data" /\ Admits(f)
               /\ at' = "deliver" /\ credit' = f.n /\ done' = f.end
               /\ UNCHANGED <<kind, left, gotFinal, got, result, open, active>>
<1>1. \A f \in Arrived :
        f = toClient[1] /\ f \in Frames /\ f.n \in Nat /\ ToClientFrame(f)
  BY Arrival DEF Frames
<1> USE DEF Others, Control, Stray
<1>2. CASE ReadSettings
  <2>1. PICK f \in Arrived :
          /\ f.type = "settings" /\ sid' = sid
          /\ \/ /\ f.n >= initWin /\ Overflows(f.n - initWin)
                /\ Fails("ProtocolFailed")
             \/ /\ at' = IF at = "handshake" THEN "idle" ELSE at
                /\ UNCHANGED <<open, active, kind, left, gotFinal, done, credit, got,
                               result>>
    BY <1>2 DEF ReadSettings
  <2>2. CASE /\ f.n >= initWin /\ Overflows(f.n - initWin)
             /\ Fails("ProtocolFailed")
    <3>1. Does("overgrant")
      <4>1. initWin \in 0..MaxWindow /\ MaxWindow \in Nat /\ f.n \in Nat
        BY <1>1, Numbers
      <4>2. f.n < initWin \/ ~Overflows(f.n - initWin) => Does("overgrant")
        BY <2>2, <4>1
      <4>3. QED
        BY <2>1, <4>2, NoOverflow
    <3>2. QED
      BY <1>1, <2>1, <2>2, <3>1, FailsStops
  <2>3. CASE /\ at' = IF at = "handshake" THEN "idle" ELSE at
             /\ UNCHANGED <<open, active, kind, left, gotFinal, done, credit, got,
                            result>>
    BY <1>1, <2>1, <2>3 DEF GoesOn, callVars
  <2>4. QED
    BY <2>1, <2>2, <2>3
<1>3. CASE ReadConnUpdate
  <2>1. PICK f \in Arrived :
          /\ f.type = "update" /\ f.sid = 0 /\ sid' = sid
          /\ \/ UNCHANGED <<open, active, callVars>>
             \/ /\ ~(f.n > 0 /\ connWin + f.n <= MaxWindow)
                /\ Fails("ProtocolFailed")
    BY <1>3 DEF ReadConnUpdate
  <2>2. CASE UNCHANGED <<open, active, callVars>>
    BY <1>1, <2>1, <2>2 DEF GoesOn
  <2>3. CASE /\ ~(f.n > 0 /\ connWin + f.n <= MaxWindow)
             /\ Fails("ProtocolFailed")
    <3>1. Does("overgrant")
      BY <1>1, <2>1, <2>3, NoOverflow DEF ToClientFrame
    <3>2. QED
      BY <1>1, <2>1, <2>3, <3>1, FailsStops
  <2>4. QED
    BY <2>1, <2>2, <2>3
<1>4. CASE ReadStreamUpdate
  <2>1. PICK f \in Arrived :
          /\ f.type = "update" /\ f.sid # 0 /\ sid' = sid
          /\ \/ UNCHANGED <<open, active, callVars>>
             \/ /\ f.n = 0 \/ (f.sid = active /\ Overflows(f.n))
                /\ Fails("ProtocolFailed")
    BY <1>4 DEF ReadStreamUpdate
  <2>2. CASE UNCHANGED <<open, active, callVars>>
    BY <1>1, <2>1, <2>2 DEF GoesOn
  <2>3. CASE /\ f.n = 0 \/ (f.sid = active /\ Overflows(f.n))
             /\ Fails("ProtocolFailed")
    <3>1. Does("overgrant")
      BY <1>1, <2>1, <2>3, NoOverflow DEF ToClientFrame
    <3>2. QED
      BY <1>1, <2>1, <2>3, <3>1, FailsStops
  <2>4. QED
    BY <2>1, <2>2, <2>3
<1>5. CASE ReadGoaway
  <2>1. PICK f \in Arrived :
          /\ f.type = "goaway" /\ sid' = sid /\ open' = FALSE
          /\ \/ /\ result' = "Closed"
                /\ at' = IF at = "handshake" THEN "dead" ELSE "idle"
                /\ active' = IF kind = "into" THEN active ELSE 0
                /\ UNCHANGED <<kind, left, gotFinal, done, credit, got>>
             \/ UNCHANGED <<active, callVars>>
    BY <1>5 DEF ReadGoaway
  <2>2. QED
    BY <1>1, <2>1 DEF GoesOn, Stops
<1>6. CASE ReadPing
  BY <1>1, <1>6 DEF ReadPing, GoesOn, connVars
<1>7. CASE ReadHeaders
  BY <1>1, <1>7 DEF ReadHeaders, connVars
<1>8. CASE ReadData
  BY <1>1, <1>8 DEF ReadData, connVars
<1>9. CASE ReadUnexpected
  <2>1. PICK f \in Arrived :
          /\ f.type \in Response \cup Stray /\ ~Admits(f) /\ sid' = sid
          /\ Fails("ProtocolFailed")
    BY <1>9 DEF ReadUnexpected
  <2>2. f.type \in Stray => Does("unsupported")
    BY <1>1, <2>1 DEF ToClientFrame
  <2>3. QED
    BY <1>1, <2>1, <2>2, FailsStops
<1>10. CASE ReadPriority
  BY <1>1, <1>10 DEF ReadPriority, GoesOn, connVars
<1>11. QED
  BY <1>2, <1>3, <1>4, <1>5, <1>6, <1>7, <1>8, <1>9, <1>10 DEF ReadAny

\* What a read does to the send credit of the stream.
LEMMA ReadCredit ==
  ASSUME TypeInv, CallInv, ReadAny
  PROVE  LET f == toClient[1] IN
         \/ /\ f.type = "settings"
            /\ IF f.n >= initWin THEN AddStreamCredit(f.n - initWin)
                                 ELSE TakeStreamCredit(initWin - f.n)
            /\ UNCHANGED connWin
            /\ \/ initWin' = f.n
               \/ /\ initWin' = initWin /\ Stops
                  /\ f.n >= initWin /\ Overflows(f.n - initWin)
         \/ /\ f.type = "update" /\ f.sid = 0 /\ UNCHANGED <<sendWin, sendDebt, initWin>>
            /\ \/ connWin' = connWin + f.n
               \/ UNCHANGED connWin /\ ~(f.n > 0 /\ connWin + f.n <= MaxWindow)
         \/ /\ f.type = "update" /\ f.sid # 0 /\ UNCHANGED <<initWin, connWin>>
            /\ \/ f.sid = active /\ f.n > 0 /\ AddStreamCredit(f.n)
               \/ ~(f.sid = active /\ f.n > 0) /\ UNCHANGED <<sendWin, sendDebt>>
         \/ f.type \notin {"settings", "update"} /\ UNCHANGED sendVars
<1>1. \A f \in Arrived : f = toClient[1]
  BY Arrival
<1>2. CASE ReadSettings
  BY <1>1, <1>2, FailsStops DEF ReadSettings
<1>3. CASE ReadConnUpdate
  BY <1>1, <1>3 DEF ReadConnUpdate
<1>4. CASE ReadStreamUpdate
  BY <1>1, <1>4 DEF ReadStreamUpdate
<1>5. CASE ~(ReadSettings \/ ReadConnUpdate \/ ReadStreamUpdate)
  BY <1>1, <1>5 DEF ReadAny, ReadGoaway, ReadPing, ReadHeaders, ReadData,
     ReadPriority, ReadUnexpected, Response, Stray
<1>6. QED
  BY <1>2, <1>3, <1>4, <1>5

\* Debt stands for a window below zero.
LEMMA Credits ==
  ASSUME TypeInv, CallInv, NEW n \in Nat
  PROVE  /\ AddStreamCredit(n) =>
              /\ sendDebt' > 0 => sendWin' = 0
              /\ ~Overflows(n) => sendWin' - sendDebt' = sendWin - sendDebt + n
              /\ sendWin' - sendDebt' <= sendWin - sendDebt + n
         /\ TakeStreamCredit(n) =>
              /\ sendDebt' > 0 => sendWin' = 0
              /\ sendWin' - sendDebt' = sendWin - sendDebt - n
<1>1. /\ sendWin \in Nat /\ sendDebt \in Nat /\ MaxWindow \in Nat
      /\ sendDebt > 0 => sendWin = 0
  BY Numbers DEF CallInv
<1>2. ASSUME AddStreamCredit(n)
      PROVE  /\ sendDebt' > 0 => sendWin' = 0
             /\ ~Overflows(n) => sendWin' - sendDebt' = sendWin - sendDebt + n
             /\ sendWin' - sendDebt' <= sendWin - sendDebt + n
  BY <1>1, <1>2 DEF AddStreamCredit, Repaid, Smaller
<1>3. ASSUME TakeStreamCredit(n)
      PROVE  /\ sendDebt' > 0 => sendWin' = 0
             /\ sendWin' - sendDebt' = sendWin - sendDebt - n
  BY <1>1, <1>3 DEF TakeStreamCredit, Smaller
<1>4. QED
  BY <1>2, <1>3

-----------------------------------------------------------------------------
(* CallInv.                                                                *)

\* The call and its stream are kept.
LEMMA CallStep ==
  ASSUME TypeInv, CallInv, CreditInv, Next
  PROVE  CallInv'
<1>0. UNCHANGED scene /\ (Does("cut")' = Does("cut")) /\ Kinds' = Kinds
  BY Steps DEF Does, PeerDoes, Kinds
<1>1. CASE \E k \in Kinds, b \in Bodies : Post(k, b)
  <2>1. PICK k \in Kinds, b \in Bodies : Post(k, b)
    BY <1>1
  <2>2. b \in Nat /\ sid \in Streams /\ sid # 0 /\ (sid + 1) - 1 = sid
    BY <2>1, SceneFacts DEF Post, Streams
  <2>3. UNCHANGED up /\ at = "idle"
    BY <2>1 DEF Post
  <2>4. /\ at' = IF b = 0 THEN "recv" ELSE "send"
        /\ left' = b /\ ~gotFinal' /\ ~done' /\ got' = 0 /\ sendDebt' = 0
        /\ active' = sid /\ sid' = sid + 1 /\ kind' = k
    BY <2>1 DEF Post
  <2>5. QED
    BY <1>0, <2>2, <2>3, <2>4 DEF CallInv, InCall
<1>2. CASE SendChunk
  <2> DEFINE n == Smaller(Smaller(Avail, left), MaxSend)
  <2>1. /\ at = "send" /\ Avail > 0 /\ left' = left - n /\ sendWin' = sendWin - n
        /\ at' = IF n = left THEN "recv" ELSE "send"
        /\ UNCHANGED <<kind, gotFinal, done, got, sendDebt, connVars, up>>
    BY <1>2 DEF SendChunk
  <2>2. /\ left \in Nat /\ n \in Nat /\ n <= left /\ sendWin \in Nat /\ sendDebt \in Nat
        /\ sendWin > 0
    <3>1. /\ left \in Nat /\ sendWin \in 0..MaxWindow /\ connWin \in 0..MaxWindow
          /\ MaxWindow \in Nat /\ sendDebt \in Nat /\ MaxSend \in Nat
      BY Numbers, WindowAssumption
    <3>2. QED
      BY <2>1, <3>1 DEF Smaller, Avail
  <2> HIDE DEF n
  <2>3. sendDebt' = 0
    BY <2>1, <2>2 DEF CallInv
  <2>4. left - n > 0 \/ n = left
    BY <2>2
  <2>5. QED
    BY <1>0, <2>1, <2>2, <2>3, <2>4 DEF CallInv, InCall, connVars
<1>3. CASE ReadAny
  <2> DEFINE f == toClient[1]
  <2>1. up' = up /\ sid' = sid /\ kind' = kind /\ left' = left /\ got' = got
    BY <1>3, ReadCall, ClientLeavesPeer DEF Reading, Close, GoesOn, callVars, Stops
  <2>2. at \in {"handshake", "send", "recv"}
    BY <1>3, ReadWires DEF Reading
  <2>3. sendDebt' > 0 => sendWin' = 0
    <3>1. f.n \in Nat /\ initWin \in Nat
      <4>1. f \in Frames /\ initWin \in 0..MaxWindow /\ MaxWindow \in Nat
        BY <1>3, ReadWires, Arrival, Numbers
      <4>2. QED
        BY <4>1 DEF Frames
    <3>2. CASE f.type = "settings"
      <4>1. \/ f.n >= initWin /\ AddStreamCredit(f.n - initWin)
            \/ f.n < initWin /\ TakeStreamCredit(initWin - f.n)
        BY <1>3, <3>1, <3>2, ReadCredit
      <4>2. /\ f.n >= initWin => f.n - initWin \in Nat
            /\ f.n < initWin => initWin - f.n \in Nat
        BY <3>1
      <4>3. QED
        BY <4>1, <4>2, Credits
    <3>3. CASE f.type # "settings"
      <4>1. AddStreamCredit(f.n) \/ UNCHANGED <<sendWin, sendDebt>>
        BY <1>3, <3>3, ReadCredit DEF sendVars
      <4>2. QED
        BY <3>1, <4>1, Credits DEF CallInv
    <3>4. QED
      BY <3>2, <3>3
  <2>4. active' \in {0, sid' - 1} /\ (InCall' => active' # 0)
    BY <1>3, <2>1, <2>2, ReadCall DEF CallInv, InCall, GoesOn, callVars, Stops, Admits
  <2>5. /\ at' = "send" => left' > 0 /\ ~gotFinal' /\ ~done' /\ got' = 0
        /\ at' \in {"recv", "deliver"} => left' = 0
        /\ at' = "deliver" => gotFinal'
    BY <1>3, <2>1, <2>2, ReadCall DEF CallInv, InCall, GoesOn, callVars, Stops, Admits
  <2>6. at' # "closed" /\ (kind' = "into" => "into" \in Kinds') /\ (~up' => Does("cut")')
    BY <1>0, <1>3, <2>1, <2>2, ReadCall DEF CallInv, GoesOn, callVars, Stops, Admits
  <2>7. ASSUME at' = "handshake"
        PROVE  /\ sid' = 1 /\ active' = 0 /\ sendWin' = initWin' /\ sendDebt' = 0
    <3>1. at = "handshake" /\ f.type \in Others /\ GoesOn
      BY <1>3, <2>2, <2>7, ReadCall DEF Stops, GoesOn, callVars, Admits
    <3>2. f.type # "settings"
      <4>1. CASE ReadSettings
        BY <2>7, <4>1 DEF ReadSettings, Fails
      <4>2. CASE ~ReadSettings
        BY <1>3, <4>2, Arrival DEF ReadAny, ReadConnUpdate, ReadStreamUpdate,
           ReadGoaway, ReadPing, ReadHeaders, ReadData, ReadPriority,
           ReadUnexpected, Response, Stray
      <4>3. QED
        BY <4>1, <4>2
    <3>3. UNCHANGED <<sendWin, sendDebt, initWin>>
      BY <1>3, <3>1, <3>2, ReadCredit DEF CallInv, sendVars
    <3>4. QED
      BY <2>1, <3>1, <3>3 DEF CallInv, GoesOn
  <2>8. QED
    BY <2>3, <2>4, <2>5, <2>6, <2>7 DEF CallInv
<1>4. CASE Accept
  BY <1>0, <1>4 DEF Accept, CallInv, InCall, sendVars, connVars
<1>5. CASE Quiet
  <2>1. up' = up
    BY <1>5, QuietWires
  <2>2. CASE Refuse
    BY <1>0, <2>1, <2>2 DEF Refuse, CallInv, InCall, sendVars
  <2>3. CASE Complete
    BY <1>0, <2>1, <2>3 DEF Complete, CallInv, InCall, sendVars
  <2>4. CASE LinkFails
    <3>1. /\ at' \in {"idle", "dead"} /\ active' \in {0, active} /\ kind' = kind
          /\ UNCHANGED <<sendVars, sid>> /\ at # "closed"
      BY <2>4 DEF LinkFails, Fails, Reading, Arrived
    <3>2. QED
      BY <1>0, <2>1, <3>1 DEF CallInv, InCall, sendVars
  <2>5. ASSUME NEW k \in Kinds, PostUnsent(k) PROVE CallInv'
    <3>1. /\ sid' = sid + 1 /\ active' \in {0, sid} /\ at = "idle" /\ at' = at
          /\ sendDebt' = 0 /\ kind' = k /\ sid \in Nat
      BY <2>5 DEF PostUnsent, Streams
    <3>2. (sid + 1) - 1 = sid
      BY <3>1
    <3>3. QED
      BY <1>0, <2>1, <3>1, <3>2 DEF CallInv, InCall
  <2>6. ASSUME NEW k \in Kinds, PostRefused(k) PROVE CallInv'
    BY <1>0, <2>1, <2>6 DEF PostRefused, CallInv, InCall, sendVars
  <2>7. QED
    BY <1>5, <2>2, <2>3, <2>4, <2>5, <2>6 DEF Quiet
<1>6. CASE Close
  BY <1>0, <1>6 DEF Close, CallInv, InCall, sendVars, connVars
<1>7. CASE PeerReads \/ Tells \/ UNCHANGED vars
  <2>1. UNCHANGED <<sendVars, connVars, callVars, up>>
    BY <1>7, TellsQuietly DEF PeerReads, vars, linkVars
  <2>2. QED
    BY <1>0, <2>1 DEF CallInv, InCall, sendVars, connVars, callVars
<1>8. CASE Cut
  BY <1>0, <1>8 DEF Cut, CallInv, InCall, sendVars, connVars, callVars
<1>9. QED
  BY <1>1, <1>2, <1>3, <1>4, <1>5, <1>6, <1>7, <1>8, Steps

\* What the peer hears, and what it counts then.
Heard(f) ==
  \/ /\ f.type = "headers" /\ f.sid \in Streams
     /\ request' = [request EXCEPT ![f.sid] = IF f.end THEN "ended" ELSE "open"]
     /\ UNCHANGED <<pConn, pInit, unacked, granted, overrun, outConn, outInit, spent,
                    toClient>>
  \/ /\ f.type = "data" /\ f.sid \in Streams
     /\ overrun' = (overrun \/ f.n > pConn \/ f.n > PeerWindow(f.sid))
     /\ pConn' = pConn - f.n
     /\ granted' = [granted EXCEPT ![f.sid] = @ - f.n]
     /\ request' = [request EXCEPT ![f.sid] = IF f.end THEN "ended" ELSE @]
     /\ UNCHANGED <<pInit, unacked, outConn, outInit, spent, toClient>>
  \/ /\ f.type = "settings" /\ outInit' = f.n /\ toClient' = Append(toClient, Ack)
     /\ UNCHANGED <<pSend, outConn, spent>>
  \/ /\ f.type = "ack" /\ unacked # <<>>
     /\ pInit' = Head(unacked) /\ unacked' = Tail(unacked)
     /\ UNCHANGED <<pConn, granted, request, overrun, outConn, outInit, spent,
                    toClient>>
  \/ /\ f.type = "update" /\ f.sid = 0 /\ outConn' = outConn + f.n
     /\ UNCHANGED <<pSend, outInit, spent, toClient>>
  \/ /\ f.type = "update" /\ f.sid \in Streams
     /\ spent' = [spent EXCEPT ![f.sid] = @ - f.n]
     /\ UNCHANGED <<pSend, outInit, outConn, toClient>>
  \/ f.type = "pong" /\ UNCHANGED <<pSend, outConn, outInit, spent, toClient>>

\* The peer reads a frame.
LEMMA PeerReadsCases ==
  ASSUME TypeInv, PeerReads
  PROVE  LET f == toPeer[1] IN
         /\ up /\ toPeer # <<>> /\ toPeer' = Tail(toPeer)
         /\ 1 \in 1..Len(toPeer) /\ f \in Frames /\ ToPeerFrame(f) /\ f.n \in Nat
         /\ UNCHANGED <<sendVars, connVars, callVars, up, reply, owed, sent, pLast,
                        turns>>
         /\ Heard(f)
<1>1. /\ Head(toPeer) = toPeer[1] /\ 1 \in 1..Len(toPeer) /\ toPeer[1] \in Frames
      /\ ToPeerFrame(toPeer[1]) /\ toPeer[1].n \in Nat /\ toPeer[1].sid \in 0..MaxPosts
      /\ toPeer[1].type \in Requests => toPeer[1].sid \in Streams
      /\ toPeer[1].type = "ack" => unacked # <<>>
  BY PeerArrival
<1> DEFINE f == toPeer[1]
<1>2. f.sid = 0 \/ f.sid \in Streams
  BY <1>1, CallAssumption DEF Streams
<1>3. /\ up /\ toPeer # <<>> /\ toPeer' = Tail(toPeer)
      /\ UNCHANGED <<sendVars, connVars, callVars, up, reply, owed, sent, pLast,
                     turns>>
  BY DEF PeerReads
<1>4. 0 \notin Streams
  BY DEF Streams
<1>5. Heard(Head(toPeer))
  BY <1>1, <1>2, <1>4, ZenonT(30) DEF PeerReads, Heard, Ack, Requests
<1>6. QED
  BY <1>1, <1>3, <1>5

-----------------------------------------------------------------------------
(* Fresh.                                                                  *)

\* The frames a step may add.
NewToPeer(f) ==
  \/ f.type = "headers" /\ f.sid = sid /\ sid' = sid + 1
  \/ f.type = "data" /\ f.sid = active /\ at = "send"
  \/ f.type \in {"ack", "pong"} /\ f.sid = 0
  \/ f.type = "update" /\ f.sid \in {0, active}

\* A frame on its way to the peer was there or is new.
LEMMA AddedToPeer ==
  ASSUME TypeInv, CallInv, Next, NEW i \in 1..Len(toPeer')
  PROVE  \/ \E j \in 1..Len(toPeer) : toPeer'[i] = toPeer[j]
         \/ NewToPeer(toPeer'[i])
<1>1. toPeer \in Seq(Frames) /\ i \in 1..Len(toPeer')
  BY Numbers
<1>2. ASSUME NEW f \in Frames, Sent(f), NewToPeer(f)
      PROVE  (\E j \in 1..Len(toPeer) : toPeer'[i] = toPeer[j]) \/ NewToPeer(toPeer'[i])
  BY <1>1, <1>2, Behind DEF Sent
<1>3. CASE \E k \in Kinds, b \in Bodies : Post(k, b)
  <2>1. PICK k \in Kinds, b \in Bodies : Post(k, b)
    BY <1>3
  <2> DEFINE f == Frame("headers", sid, 0, b = 0)
  <2>2. f \in Frames /\ Sent(f) /\ f.type = "headers" /\ f.sid = sid
    BY <2>1, SentFrame DEF Frame
  <2>3. sid' = sid + 1
    BY <2>1 DEF Post
  <2> HIDE DEF f
  <2>4. QED
    BY <1>2, <2>2, <2>3 DEF NewToPeer
<1>4. CASE SendChunk
  <2> DEFINE n == Smaller(Smaller(Avail, left), MaxSend)
             f == Frame("data", active, n, n = left)
  <2>1. active # 0
    BY <1>4 DEF SendChunk, CallInv, InCall
  <2>2. f \in Frames /\ Sent(f)
    BY <1>4, <2>1, SentFrame
  <2>3. f.type = "data" /\ f.sid = active
    BY DEF Frame
  <2>4. at = "send"
    BY <1>4 DEF SendChunk
  <2> HIDE DEF f
  <2>5. QED
    BY <1>2, <2>2, <2>3, <2>4 DEF NewToPeer
<1>5. CASE ReadAny
  <2>1. toPeer' = toPeer \/ Sent(Ack) \/ Sent(Pong)
    BY <1>5, ReadWires
  <2>2. QED
    BY <1>1, <1>2, <2>1, AckPong DEF NewToPeer
<1>6. CASE Accept
  <2> DEFINE f == Frame("update", active, credit, FALSE)
             g == Frame("update", 0, credit, FALSE)
  <2>1. /\ f \in Frames /\ g \in Frames
        /\ \/ toPeer' = toPeer
           \/ toPeer' = Append(toPeer, g)
           \/ toPeer' = Append(Append(toPeer, f), g)
    BY <1>6, WriteUpdates
  <2>2. NewToPeer(f) /\ NewToPeer(g)
    BY DEF NewToPeer, Frame
  <2> HIDE DEF f, g
  <2>3. Append(toPeer, f) \in Seq(Frames)
    BY <1>1, <2>1
  <2>4. QED
    BY <1>1, <2>1, <2>2, <2>3, Behind
<1>7. CASE PeerReads
  BY <1>1, <1>7, PeerReadsCases, Rest
<1>8. CASE Close \/ Cut
  BY <1>1, <1>8 DEF Close, Cut
<1>9. CASE Quiet \/ Tells \/ UNCHANGED vars
  <2>1. toPeer' = toPeer
    BY <1>9, QuietWires, TellsQuietly DEF vars, linkVars
  <2>2. QED
    BY <1>1, <2>1
<1>10. QED
  BY <1>3, <1>4, <1>5, <1>6, <1>7, <1>8, <1>9, Steps

NewToClient(f) == f = Ack \/ (Tells /\ Told(f))

\* A frame on its way to the client was there or is new.
LEMMA AddedToClient ==
  ASSUME TypeInv, CallInv, Next, NEW i \in 1..Len(toClient')
  PROVE  \/ \E j \in 1..Len(toClient) : toClient'[i] = toClient[j]
         \/ NewToClient(toClient'[i])
<1>1. toClient \in Seq(Frames) /\ i \in 1..Len(toClient')
  BY Numbers
<1>2. CASE (\E k \in Kinds, b \in Bodies : Post(k, b)) \/ SendChunk \/ Accept
  <2>1. toClient' = toClient
    BY <1>2 DEF Post, SendChunk, Accept
  <2>2. QED
    BY <1>1, <2>1
<1>3. CASE ReadAny
  BY <1>1, <1>3, ReadWires, Rest
<1>4. CASE Close
  BY <1>1, <1>4 DEF Close
<1>5. CASE PeerReads
  <2>1. toClient' = toClient \/ toClient' = Append(toClient, Ack)
    BY <1>5, PeerReadsCases DEF Heard
  <2>2. QED
    BY <1>1, <2>1, AckPong, Behind DEF NewToClient
<1>6. CASE Tells
  BY <1>1, <1>6, TellsCases, Behind DEF NewToClient
<1>7. CASE Cut
  <2>1. PICK m \in 0..Len(toClient) : toClient' = SubSeq(toClient, 1, m)
    BY <1>7 DEF Cut
  <2>2. i \in 1..Len(toClient) /\ toClient'[i] = toClient[i]
    BY <1>1, <2>1
  <2>3. QED
    BY <2>2
<1>8. CASE Quiet \/ UNCHANGED vars
  <2>1. toClient' = toClient
    BY <1>8, QuietWires DEF vars, linkVars
  <2>2. QED
    BY <1>1, <2>1
<1>9. QED
  BY <1>2, <1>3, <1>4, <1>5, <1>6, <1>7, <1>8, Steps

\* Streams are numbered one after the other.
LEMMA SidGrows ==
  ASSUME TypeInv, CallInv, CreditInv, Next
  PROVE  sid' = sid \/ sid' = sid + 1
<1>1. CASE ReadAny
  BY <1>1, ReadCall
<1>2. CASE ~ReadAny
  BY <1>2, Steps, TellsQuietly DEF Post, SendChunk, Accept, Quiet, Refuse, Complete,
     LinkFails, PostUnsent, PostRefused, Close, PeerReads, Cut, vars, connVars
<1>3. QED
  BY <1>1, <1>2

\* Streams to come stay untouched.
LEMMA FreshStep ==
  ASSUME TypeInv, CallInv, CreditInv, Fresh, Next
  PROVE  Fresh'
<1>1. /\ UNCHANGED scene /\ sid' \in Nat /\ sid \in Nat /\ sid <= sid' /\ sid >= 1
      /\ 0 < sid
  <2>1. sid \in 1..MaxPosts + 1 /\ MaxPosts \in Nat
    BY Numbers
  <2>2. UNCHANGED scene /\ (sid' = sid \/ sid' = sid + 1)
    BY Steps, SidGrows
  <2>3. QED
    BY <2>1, <2>2
<1>2. ASSUME NEW i \in 1..Len(toPeer') PROVE toPeer'[i].sid < sid'
  <2>1. active < sid /\ active \in Nat
    BY <1>1 DEF CallInv
  <2>2. CASE \E j \in 1..Len(toPeer) : toPeer'[i] = toPeer[j]
    <3>1. PICK j \in 1..Len(toPeer) : toPeer'[i] = toPeer[j]
      BY <2>2
    <3>2. toPeer[j].sid < sid /\ toPeer[j].sid \in Nat
      <4>1. toPeer[j] \in Frames
        <5>1. toPeer \in Seq(Frames)
          BY Numbers
        <5>2. QED
          BY <5>1
      <4>2. QED
        BY <4>1 DEF Fresh, Frames
    <3>3. QED
      BY <1>1, <3>1, <3>2
  <2>3. CASE NewToPeer(toPeer'[i])
    BY <1>1, <2>1, <2>3 DEF NewToPeer
  <2>4. QED
    BY <2>2, <2>3, AddedToPeer
<1>3. ASSUME NEW s \in Streams, request[s] # "none" \/ reply[s] # "none"
      PROVE  s < sid
  BY <1>1, <1>3 DEF Fresh, Streams
<1>4. ASSUME NEW i \in 1..Len(toClient'),
             \/ toClient'[i].type \in Response
             \/ toClient'[i].type = "update" /\ ~Does("overgrant")
      PROVE  toClient'[i].sid < sid'
  <2>1. CASE \E j \in 1..Len(toClient) : toClient'[i] = toClient[j]
    <3>1. PICK j \in 1..Len(toClient) : toClient'[i] = toClient[j]
      BY <2>1
    <3>2. toClient[j].sid < sid /\ toClient[j].sid \in Nat
      <4>1. toClient[j] \in Frames
        <5>1. toClient \in Seq(Frames)
          BY Numbers
        <5>2. QED
          BY <5>1
      <4>2. QED
        BY <1>4, <3>1, <4>1 DEF Fresh, Frames
    <3>3. QED
      BY <1>1, <3>1, <3>2
  <2>2. CASE Told(toClient'[i])
    <3> DEFINE f == toClient'[i]
    <3>1. \/ f.sid = 0
          \/ f.sid \in Streams /\ (request[f.sid] # "none" \/ reply[f.sid] # "none")
      BY <1>4, <2>2 DEF Told, Answers, Serving, Response
    <3>2. CASE f.sid = 0
      BY <1>1, <3>2
    <3>3. CASE f.sid \in Streams /\ (request[f.sid] # "none" \/ reply[f.sid] # "none")
      <4>1. f.sid < sid /\ f.sid \in Nat
        BY <1>3, <3>3 DEF Streams
      <4>2. QED
        BY <1>1, <4>1
    <3>4. QED
      BY <3>1, <3>2, <3>3
  <2>3. CASE toClient'[i] = Ack
    BY <1>4, <2>3, AckPong DEF Response
  <2>4. QED
    BY <2>1, <2>2, <2>3, AddedToClient DEF NewToClient
<1>5. ASSUME NEW s \in Streams, s >= sid'
      PROVE  /\ request'[s] = "none" /\ reply'[s] = "none"
             /\ granted'[s] = 0 /\ spent'[s] = 0 /\ sent'[s] = 0 /\ owed'[s] = 0
  <2>1. /\ s >= sid /\ request[s] = "none" /\ reply[s] = "none"
        /\ granted[s] = 0 /\ spent[s] = 0 /\ sent[s] = 0 /\ owed[s] = 0
    BY <1>1, <1>5 DEF Fresh, Streams
  <2>2. /\ granted \in [Streams -> Int] /\ spent \in [Streams -> Int]
        /\ request \in [Streams -> {"none", "open", "ended"}]
        /\ reply \in [Streams -> {"none", "open", "ended"}]
        /\ owed \in [Streams -> Nat] /\ sent \in [Streams -> Nat]
    BY DEF TypeInv, TypeOK, PeerOK
  <2>3. CASE UNCHANGED peerVars
    BY <2>1, <2>3 DEF peerVars, pSend, pReply
  <2>4. CASE PeerReads
    <3> DEFINE f == toPeer[1]
    <3>1. /\ UNCHANGED <<reply, owed, sent>> /\ Heard(f)
          /\ 1 \in 1..Len(toPeer)
      BY <2>4, PeerReadsCases
    <3>2. f.sid # s
      BY <2>1, <3>1, <1>1 DEF Fresh, Streams
    <3> HIDE DEF f
    <3>3. request'[s] = request[s] /\ granted'[s] = granted[s] /\ spent'[s] = spent[s]
      BY <2>2, <3>1, <3>2 DEF Heard, pSend
    <3>4. QED
      BY <2>1, <3>1, <3>3
  <2>5. CASE Tells
    <3>1. PICK f \in Frames : Told(f)
      BY <2>5, TellsCases
    <3>2. \/ UNCHANGED <<pSend, pReply>>
          \/ f.type \in {"settings"} /\ UNCHANGED <<request, granted, pReply>>
          \/ f.type \in {"update"} /\ f.sid = 0 /\ UNCHANGED <<request, granted, pReply>>
          \/ f.sid \in Streams /\ (request[f.sid] # "none" \/ reply[f.sid] # "none")
      BY <3>1 DEF Told, Answers, Serving
    <3>3. CASE UNCHANGED <<request, granted, pReply>>
      BY <2>1, <3>3 DEF pReply
    <3>4. CASE UNCHANGED <<pSend, pReply>>
      BY <2>1, <3>4 DEF pReply, pSend
    <3>5. CASE f.sid \in Streams /\ (request[f.sid] # "none" \/ reply[f.sid] # "none")
      <4>1. f.sid # s
        BY <2>1, <3>5
      <4>2. /\ request'[s] = request[s] /\ granted'[s] = granted[s]
            /\ spent'[s] = spent[s] /\ reply'[s] = reply[s]
            /\ sent'[s] = sent[s] /\ owed'[s] = owed[s]
        BY <2>2, <3>1, <4>1 DEF Told, pSend, pReply
      <4>3. QED
        BY <2>1, <4>2
    <3>6. QED
      BY <3>2, <3>3, <3>4, <3>5
  <2>6. UNCHANGED peerVars \/ PeerReads \/ Tells
    BY Steps, ClientLeavesPeer DEF Cut, vars
  <2>7. QED
    BY <2>3, <2>4, <2>5, <2>6
<1>6. Does("overgrant")' = Does("overgrant")
  BY <1>1 DEF Does, PeerDoes
<1>7. QED
  BY <1>2, <1>4, <1>5, <1>6 DEF Fresh

-----------------------------------------------------------------------------
(* RequestInv.                                                             *)

\* What RequestInv says of a wire, of the streams' requests and of the stream
\* whose request is being sent.
RequestsOn(w, r, s) ==
  \A i \in 1..Len(w) : w[i].type \in Requests =>
    /\ r[w[i].sid] # "ended"
    /\ w[i].end =>
         /\ w[i].sid # s
         /\ \A j \in i + 1..Len(w) : w[j].type \in Requests => w[j].sid # w[i].sid
Sending == IF at = "send" THEN active ELSE 0

\* The layer of the request, over a wire.
LEMMA RequestInvIs ==
  ASSUME TypeInv, CallInv
  PROVE  RequestInv <=> /\ Sending # 0 => request[Sending] # "ended"
                        /\ RequestsOn(toPeer, request, Sending)
<1>1. at = "send" => active # 0
  BY DEF CallInv, InCall
<1>2. \A i \in 1..Len(toPeer) : toPeer[i].type \in Requests => toPeer[i].sid # 0
  BY DEF TypeInv, ToPeerFrame, Streams
<1>3. QED
  BY <1>1, <1>2 DEF RequestInv, RequestsOn, Sending

\* A frame of a request is put behind the others.
LEMMA RequestsKept ==
  ASSUME NEW w \in Seq(Frames), NEW r, NEW s, RequestsOn(w, r, s), NEW f \in Frames
  PROVE  /\ f.type \notin Requests => RequestsOn(Append(w, f), r, s)
         /\ (f.type \in Requests /\ r[f.sid] # "ended"
               /\ \A i \in 1..Len(w) : w[i].type \in Requests /\ w[i].end =>
                    w[i].sid # f.sid) =>
              \A t : /\ \A i \in 1..Len(w) : w[i].type \in Requests /\ w[i].end =>
                         w[i].sid # t
                     /\ f.end => f.sid # t
                     => RequestsOn(Append(w, f), r, t)
<1> DEFINE v == Append(w, f)
<1>1. /\ Len(v) = Len(w) + 1 /\ Len(w) \in Nat
      /\ \A i \in 1..Len(v) : \/ i \in 1..Len(w) /\ v[i] = w[i]
                              \/ i = Len(w) + 1 /\ v[i] = f
  BY Behind
<1> HIDE DEF v
<1>2. ASSUME f.type \notin Requests PROVE RequestsOn(v, r, s)
  BY <1>1, <1>2 DEF RequestsOn
<1>3. ASSUME f.type \in Requests, r[f.sid] # "ended",
             \A i \in 1..Len(w) : w[i].type \in Requests /\ w[i].end =>
               w[i].sid # f.sid,
             NEW t,
             \A i \in 1..Len(w) : w[i].type \in Requests /\ w[i].end => w[i].sid # t,
             f.end => f.sid # t
      PROVE  RequestsOn(v, r, t)
  <2> SUFFICES ASSUME NEW i \in 1..Len(v), v[i].type \in Requests
               PROVE  /\ r[v[i].sid] # "ended"
                      /\ v[i].end =>
                           /\ v[i].sid # t
                           /\ \A j \in i + 1..Len(v) :
                                v[j].type \in Requests => v[j].sid # v[i].sid
    BY DEF RequestsOn
  <2>1. CASE i \in 1..Len(w) /\ v[i] = w[i]
    <3>1. r[v[i].sid] # "ended" /\ (v[i].end => v[i].sid # t /\ v[i].sid # f.sid)
      BY <1>3, <2>1 DEF RequestsOn
    <3>2. ASSUME v[i].end, NEW j \in i + 1..Len(v), v[j].type \in Requests
          PROVE  v[j].sid # v[i].sid
      <4>1. \/ j \in i + 1..Len(w) /\ v[j] = w[j]
            \/ v[j] = f
        BY <1>1, <2>1
      <4>2. QED
        BY <2>1, <3>1, <3>2, <4>1 DEF RequestsOn
    <3>3. QED
      BY <3>1, <3>2
  <2>2. CASE i = Len(w) + 1 /\ v[i] = f
    <3>1. i + 1..Len(v) = {}
      BY <1>1, <2>2
    <3>2. QED
      BY <1>3, <2>2, <3>1
  <2>3. QED
    BY <1>1, <2>1, <2>2
<1>4. QED
  BY <1>2, <1>3 DEF v

\* A wire without its first frame, whose stream may have come to its end.
LEMMA RequestsRest ==
  ASSUME NEW w \in Seq(Frames), w # <<>>, NEW r, NEW q, NEW s, RequestsOn(w, r, s),
         \A t \in Streams : q[t] = "ended" =>
           r[t] = "ended" \/ (w[1].type \in Requests /\ w[1].end /\ t = w[1].sid),
         \A i \in 1..Len(w) : ToPeerFrame(w[i])
  PROVE  RequestsOn(Tail(w), q, s)
<1> DEFINE v == Tail(w)
<1>1. /\ Len(v) = Len(w) - 1 /\ Len(v) \in Nat /\ 1 \in 1..Len(w)
      /\ \A i \in 1..Len(v) : i + 1 \in 1..Len(w) /\ v[i] = w[i + 1]
  BY Rest
<1> HIDE DEF v
<1> SUFFICES ASSUME NEW i \in 1..Len(v), v[i].type \in Requests
             PROVE  /\ q[v[i].sid] # "ended"
                    /\ v[i].end =>
                         /\ v[i].sid # s
                         /\ \A j \in i + 1..Len(v) :
                              v[j].type \in Requests => v[j].sid # v[i].sid
  BY DEF RequestsOn, v
<1>2. i + 1 \in 1..Len(w) /\ v[i] = w[i + 1] /\ i + 1 \in 1 + 1..Len(w)
  BY <1>1
<1>3. v[i].sid \in Streams
  BY <1>2 DEF ToPeerFrame
<1>4. /\ r[v[i].sid] # "ended" /\ (v[i].end => v[i].sid # s)
      /\ w[1].type \in Requests /\ w[1].end => v[i].sid # w[1].sid
  BY <1>1, <1>2 DEF RequestsOn
<1>5. q[v[i].sid] # "ended"
  BY <1>3, <1>4
<1>6. ASSUME v[i].end, NEW j \in i + 1..Len(v), v[j].type \in Requests
      PROVE  v[j].sid # v[i].sid
  <2>1. j + 1 \in (i + 1) + 1..Len(w) /\ v[j] = w[j + 1]
    BY <1>1
  <2>2. QED
    BY <1>2, <1>6, <2>1 DEF RequestsOn
<1>7. QED
  BY <1>4, <1>5, <1>6

\* Nothing follows the end of a request.
LEMMA RequestStep ==
  ASSUME TypeInv, CallInv, CreditInv, Fresh, RequestInv, Next
  PROVE  RequestInv'
<1>0. TypeInv' /\ CallInv' /\ toPeer \in Seq(Frames) /\ Len(toPeer) \in Nat
  BY TypeStep, CallStep, Numbers
<1>1. /\ Sending # 0 => request[Sending] # "ended"
      /\ RequestsOn(toPeer, request, Sending)
  BY RequestInvIs
<1>2. ASSUME Sending' # 0 => request'[Sending'] # "ended",
             RequestsOn(toPeer', request', Sending')
      PROVE  RequestInv'
  <2>1. (RequestInv <=> /\ Sending # 0 => request[Sending] # "ended"
                        /\ RequestsOn(toPeer, request, Sending))'
    <3>1. at' = "send" => active' # 0
      BY <1>0 DEF CallInv, InCall
    <3>2. \A i \in 1..Len(toPeer') : toPeer'[i].type \in Requests => toPeer'[i].sid # 0
      BY <1>0 DEF TypeInv, ToPeerFrame, Streams
    <3>3. QED
      BY <3>1, <3>2 DEF RequestInv, RequestsOn, Sending
  <2>2. QED
    BY <1>2, <2>1
<1>3. \A r, s : RequestsOn(<<>>, r, s)
  BY DEF RequestsOn
<1>4. ASSUME request' = request, RequestsOn(toPeer', request, Sending),
             at' = "send" => at = "send" /\ active' = active
      PROVE  RequestInv'
  <2>1. RequestsOn(toPeer', request, 0)
    <3>1. TypeInv' => \A i \in 1..Len(toPeer') :
            toPeer'[i].type \in Requests => toPeer'[i].sid # 0
      BY DEF TypeInv, ToPeerFrame, Streams
    <3>2. QED
      BY <1>0, <1>4, <3>1 DEF RequestsOn
  <2>2. Sending' \in {0, Sending}
    BY <1>4 DEF Sending
  <2>3. QED
    BY <1>1, <1>2, <1>4, <2>1, <2>2
<1>5. CASE \E k \in Kinds, b \in Bodies : Post(k, b)
  <2>1. PICK k \in Kinds, b \in Bodies : Post(k, b)
    BY <1>5
  <2> DEFINE f == Frame("headers", sid, 0, b = 0)
  <2>2. f \in Frames /\ Sent(f) /\ sid \in Streams
    BY <2>1, SentFrame
  <2>3. f.type = "headers" /\ f.sid = sid /\ f.end = (b = 0)
    BY DEF Frame
  <2> HIDE DEF f
  <2>4. /\ request' = request /\ active' = sid
        /\ at' = IF b = 0 THEN "recv" ELSE "send"
    BY <2>1 DEF Post, peerVars, pSend
  <2>5. request[sid] = "none"
    BY <2>2 DEF Fresh, Streams
  <2>6. \A i \in 1..Len(toPeer) : toPeer[i].sid # sid
    <3>1. \A i \in 1..Len(toPeer) : toPeer[i].sid < sid /\ toPeer[i] \in Frames
      BY <1>0 DEF Fresh
    <3>2. QED
      BY <2>2, <3>1 DEF Frames, Streams
  <2>7. Sending' = (IF b = 0 THEN 0 ELSE sid) /\ sid # 0
    BY <2>2, <2>4 DEF Sending, Streams
  <2>8. RequestsOn(toPeer', request, Sending')
    <3>1. \A i \in 1..Len(toPeer) : toPeer[i].type \in Requests => toPeer[i].sid # 0
      BY DEF TypeInv, ToPeerFrame, Streams
    <3>2. CASE up
      BY <1>0, <1>1, <2>2, <2>3, <2>5, <2>6, <2>7, <3>1, <3>2, RequestsKept
         DEF Sent, Requests
    <3>3. CASE ~up
      BY <1>1, <2>2, <2>6, <2>7, <3>1, <3>3 DEF Sent, RequestsOn
    <3>4. QED
      BY <3>2, <3>3
  <2>9. QED
    BY <1>2, <2>4, <2>5, <2>7, <2>8
<1>6. CASE SendChunk
  <2> DEFINE n == Smaller(Smaller(Avail, left), MaxSend)
             f == Frame("data", active, n, n = left)
  <2>1. /\ request' = request /\ at = "send" /\ active' = active /\ active # 0
        /\ at' = IF n = left THEN "recv" ELSE "send"
    BY <1>6 DEF SendChunk, peerVars, pSend, connVars, CallInv, InCall
  <2>2. f \in Frames /\ Sent(f)
    BY <1>6, <2>1, SentFrame
  <2>3. f.type = "data" /\ f.sid = active /\ f.end = (n = left)
    BY DEF Frame
  <2> HIDE DEF n, f
  <2>4. Sending = active /\ Sending' = IF n = left THEN 0 ELSE active
    BY <2>1 DEF Sending
  <2>5. \A i \in 1..Len(toPeer) : toPeer[i].type \in Requests =>
          /\ toPeer[i].sid # 0
          /\ toPeer[i].end => toPeer[i].sid # active
    <3>1. \A i \in 1..Len(toPeer) : toPeer[i].type \in Requests => toPeer[i].sid # 0
      BY DEF TypeInv, ToPeerFrame, Streams
    <3>2. QED
      BY <1>1, <2>4, <3>1 DEF RequestsOn
  <2>6. RequestsOn(toPeer', request, Sending')
    <3>1. CASE up
      BY <1>0, <1>1, <2>1, <2>2, <2>3, <2>4, <2>5, <3>1, RequestsKept DEF Sent, Requests
    <3>2. CASE ~up
      BY <1>1, <2>2, <2>4, <2>5, <3>2 DEF Sent, RequestsOn
    <3>3. QED
      BY <3>1, <3>2
  <2>7. QED
    BY <1>1, <1>2, <2>1, <2>4, <2>6
<1>7. CASE ReadAny
  <2>1. request' = request
    BY <1>7, ClientLeavesPeer DEF peerVars, pSend
  <2>2. toPeer' = toPeer \/ Sent(Ack) \/ Sent(Pong)
    BY <1>7, ReadWires
  <2>3. RequestsOn(toPeer', request, Sending)
    BY <1>0, <1>1, <2>2, AckPong, RequestsKept DEF Sent, Requests
  <2>4. at' = "send" => at = "send" /\ active' = active
    BY <1>7, ReadCall DEF GoesOn, Stops, callVars, Admits
  <2>5. QED
    BY <1>4, <2>1, <2>3, <2>4
<1>8. CASE Accept
  <2> DEFINE f == Frame("update", active, credit, FALSE)
             g == Frame("update", 0, credit, FALSE)
  <2>1. request' = request /\ at' = "recv"
    BY <1>8 DEF Accept, peerVars, pSend
  <2>2. /\ f \in Frames /\ g \in Frames
        /\ \/ toPeer' = toPeer
           \/ toPeer' = Append(toPeer, g)
           \/ toPeer' = Append(Append(toPeer, f), g)
    BY <1>8, WriteUpdates
  <2>3. f.type \notin Requests /\ g.type \notin Requests
    BY DEF Frame, Requests
  <2> HIDE DEF f, g
  <2>4. Append(toPeer, f) \in Seq(Frames)
    BY <1>0, <2>2
  <2>5. RequestsOn(Append(toPeer, f), request, Sending)
    BY <1>0, <1>1, <2>2, <2>3, RequestsKept
  <2>6. RequestsOn(toPeer', request, Sending)
    BY <1>0, <1>1, <2>2, <2>3, <2>4, <2>5, RequestsKept
  <2>7. QED
    BY <1>4, <2>1, <2>6
<1>9. CASE Quiet \/ Close
  <2>1. UNCHANGED <<toPeer, request>> \/ (toPeer' = <<>> /\ request' = request)
    BY <1>9, QuietWires DEF Close, peerVars, pSend
  <2>2. at' # "send"
    BY <1>9 DEF Quiet, Close, Refuse, Complete, LinkFails, Fails, PostUnsent, PostRefused
  <2>3. RequestsOn(toPeer', request, Sending)
    BY <1>1, <1>3, <2>1
  <2>4. QED
    BY <1>4, <2>1, <2>2, <2>3
<1>10. CASE Tells \/ Cut \/ UNCHANGED vars
  <2>1. /\ toPeer' = toPeer \/ toPeer' = <<>>
        /\ request' = request
        /\ UNCHANGED <<at, active>>
    <3>1. CASE Tells
      <4>1. request' = request
        BY <3>1, TellsCases DEF Told, pSend
      <4>2. QED
        BY <3>1, <4>1, TellsQuietly DEF callVars, connVars
    <3>2. CASE Cut \/ UNCHANGED vars
      BY <3>2 DEF Cut, vars, linkVars, callVars, connVars, peerVars, pSend
    <3>3. QED
      BY <1>10, <3>1, <3>2
  <2>2. RequestsOn(toPeer', request, Sending)
    BY <1>1, <1>3, <2>1
  <2>3. QED
    BY <1>4, <2>1, <2>2
<1>11. CASE PeerReads
  <2> DEFINE f == toPeer[1]
  <2>1. /\ toPeer # <<>> /\ toPeer' = Tail(toPeer) /\ 1 \in 1..Len(toPeer)
        /\ ToPeerFrame(f) /\ Heard(f) /\ UNCHANGED <<at, active>>
    BY <1>11, PeerReadsCases DEF callVars, connVars
  <2>2. request \in [Streams -> {"none", "open", "ended"}]
    BY DEF TypeInv, TypeOK, PeerOK
  <2>3. \A t \in Streams : request'[t] = "ended" =>
          request[t] = "ended" \/ (f.type \in Requests /\ f.end /\ t = f.sid)
    BY <2>1, <2>2 DEF Heard, pSend, Requests
  <2>4. \A i \in 1..Len(toPeer) : ToPeerFrame(toPeer[i])
    BY DEF TypeInv
  <2>5. RequestsOn(toPeer', request', Sending)
    BY <1>0, <1>1, <2>1, <2>3, <2>4, RequestsRest
  <2>6. Sending' = Sending /\ (Sending # 0 => Sending = active /\ active \in Streams)
    BY <2>1, Numbers DEF Sending
  <2>7. Sending # 0 => request'[Sending] # "ended"
    <3>1. f.type \in Requests /\ f.end => f.sid # Sending
      BY <1>1, <2>1 DEF RequestsOn
    <3>2. QED
      BY <1>1, <2>3, <2>6, <3>1
  <2>8. QED
    BY <1>2, <2>5, <2>6, <2>7
<1>12. QED
  BY <1>5, <1>6, <1>7, <1>8, <1>9, <1>10, <1>11, Steps

-----------------------------------------------------------------------------
(* ReplyInv.                                                               *)

\* What ReplyInv says of a wire, of the streams' replies, of the bytes owed and
\* of the streams that have been asked for.
Asking == {s \in Streams : Asked(s)}
ReplyTo(f, p, o, A) ==
  /\ f.type # "reset" => f.sid \in A
  /\ f.type # "info" => p[f.sid] # "none"
  /\ Ends(f) \/ f.type \in {"trailers", "reset"} => p[f.sid] = "ended"
  /\ f.end => o[f.sid] = 0
Follows(f, g) == Alike(f, g) =>
  ~Ends(f) /\ (f.type # "info" => g.type \notin {"info", "final"})
RepliesOn(w, p, o, A) ==
  \A i \in 1..Len(w) : w[i].type \in Response =>
    ReplyTo(w[i], p, o, A) /\ \A j \in i + 1..Len(w) : Follows(w[i], w[j])

\* The layer of the reply, over a wire.
LEMMA ReplyInvIs ==
  ASSUME TypeInv
  PROVE  ReplyInv <=> /\ \A s \in Streams : reply[s] = "open" => s \in Asking
                      /\ RepliesOn(toClient, reply, owed, Asking)
<1>1. \A i \in 1..Len(toClient) :
        toClient[i].type \in Response => toClient[i].sid \in Streams
  BY DEF TypeInv, ToClientFrame
<1>2. QED
  BY <1>1 DEF ReplyInv, RepliesOn, ReplyTo, Follows, Asking

\* Replies, without the first frame.
LEMMA RepliesRest ==
  ASSUME NEW w \in Seq(Frames), w # <<>>, NEW p, NEW o, NEW A, RepliesOn(w, p, o, A)
  PROVE  RepliesOn(Tail(w), p, o, A)
<1> DEFINE v == Tail(w)
<1>1. /\ Len(v) = Len(w) - 1 /\ Len(v) \in Nat
      /\ \A i \in 1..Len(v) : i + 1 \in 1..Len(w) /\ v[i] = w[i + 1]
  BY Rest
<1> HIDE DEF v
<1> SUFFICES ASSUME NEW i \in 1..Len(v), v[i].type \in Response
             PROVE  /\ ReplyTo(v[i], p, o, A)
                    /\ \A j \in i + 1..Len(v) : Follows(v[i], v[j])
  BY DEF RepliesOn, v
<1>2. i + 1 \in 1..Len(w) /\ v[i] = w[i + 1]
  BY <1>1
<1>3. ASSUME NEW j \in i + 1..Len(v) PROVE Follows(v[i], v[j])
  <2>1. j + 1 \in (i + 1) + 1..Len(w) /\ v[j] = w[j + 1]
    BY <1>1
  <2>2. QED
    BY <1>2, <2>1 DEF RepliesOn
<1>4. QED
  BY <1>2, <1>3 DEF RepliesOn

\* Replies, cut short.
LEMMA RepliesPrefix ==
  ASSUME NEW w \in Seq(Frames), NEW m \in 0..Len(w), NEW p, NEW o, NEW A,
         RepliesOn(w, p, o, A)
  PROVE  RepliesOn(SubSeq(w, 1, m), p, o, A)
<1>1. /\ Len(SubSeq(w, 1, m)) = m /\ m <= Len(w) /\ Len(w) \in Nat
      /\ \A i \in 1..m : SubSeq(w, 1, m)[i] = w[i]
  OBVIOUS
<1>2. QED
  BY <1>1 DEF RepliesOn

\* The streams move on.
LEMMA RepliesMove ==
  ASSUME NEW w, NEW p, NEW o, NEW A, NEW q, NEW u, NEW B,
         RepliesOn(w, p, o, A), A \subseteq B,
         \A i \in 1..Len(w) : w[i].type \in Response => w[i].sid \in Streams,
         \A s \in Streams : /\ p[s] # "none" => q[s] # "none"
                            /\ p[s] = "ended" => q[s] = "ended" /\ u[s] = o[s]
  PROVE  RepliesOn(w, q, u, B)
BY DEF RepliesOn, ReplyTo, Ends

\* Replies, with a frame that fits behind them.
LEMMA RepliesPut ==
  ASSUME NEW w \in Seq(Frames), NEW f \in Frames, NEW p, NEW o, NEW A,
         RepliesOn(w, p, o, A),
         f.type \in Response =>
           /\ ReplyTo(f, p, o, A)
           /\ \A i \in 1..Len(w) : Follows(w[i], f)
  PROVE  RepliesOn(Append(w, f), p, o, A)
<1> DEFINE v == Append(w, f)
<1>1. /\ Len(v) = Len(w) + 1 /\ Len(w) \in Nat
      /\ \A i \in 1..Len(v) : \/ i \in 1..Len(w) /\ v[i] = w[i]
                              \/ i = Len(w) + 1 /\ v[i] = f
  BY Behind
<1> HIDE DEF v
<1> SUFFICES ASSUME NEW i \in 1..Len(v), v[i].type \in Response
             PROVE  /\ ReplyTo(v[i], p, o, A)
                    /\ \A j \in i + 1..Len(v) : Follows(v[i], v[j])
  BY DEF RepliesOn, v
<1>2. CASE i \in 1..Len(w) /\ v[i] = w[i]
  <2>1. ReplyTo(v[i], p, o, A)
    BY <1>2 DEF RepliesOn
  <2>2. ASSUME NEW j \in i + 1..Len(v) PROVE Follows(v[i], v[j])
    <3>1. (j \in i + 1..Len(w) /\ v[j] = w[j]) \/ v[j] = f
      BY <1>1, <1>2
    <3>2. CASE j \in i + 1..Len(w) /\ v[j] = w[j]
      BY <1>2, <3>2 DEF RepliesOn
    <3>3. CASE v[j] = f
      BY <1>2, <3>3 DEF Follows, Alike
    <3>4. QED
      BY <3>1, <3>2, <3>3
  <2>3. QED
    BY <2>1, <2>2
<1>3. CASE i = Len(w) + 1 /\ v[i] = f
  <2>1. i + 1..Len(v) = {}
    BY <1>1, <1>3
  <2>2. QED
    BY <1>3, <2>1
<1>4. QED
  BY <1>1, <1>2, <1>3

\* A request once read to its end stays so.
LEMMA AskedStays ==
  ASSUME TypeInv, CallInv, RequestInv, Next
  PROVE  /\ Asking \subseteq Asking'
         /\ \A s \in Streams : Asked(s) => Asked(s)'
<1>1. UNCHANGED scene
  BY Steps
<1>2. ASSUME NEW s \in Streams, request[s] = "ended" PROVE request'[s] = "ended"
  <2>1. CASE request' = request
    BY <1>2, <2>1
  <2>2. CASE PeerReads
    <3> DEFINE f == toPeer[1]
    <3>1. 1 \in 1..Len(toPeer) /\ Heard(f)
      BY <2>2, PeerReadsCases
    <3>2. f.type \in Requests => f.sid # s
      BY <1>2, <3>1 DEF RequestInv
    <3>3. request \in [Streams -> {"none", "open", "ended"}]
      BY DEF TypeInv, TypeOK, PeerOK
    <3> HIDE DEF f
    <3>4. QED
      BY <1>2, <3>1, <3>2, <3>3 DEF Heard, pSend, Requests
  <2>3. request' = request \/ PeerReads
    <3>1. CASE Tells
      BY <3>1, TellsCases DEF Told, pSend
    <3>2. CASE ~Tells
      BY <3>2, Steps, ClientLeavesPeer DEF Cut, vars, peerVars, pSend
    <3>3. QED
      BY <3>1, <3>2
  <2>4. QED
    BY <2>1, <2>2, <2>3
<1>3. \A s \in Streams : Asked(s) => Asked(s)'
  BY <1>1, <1>2 DEF Asked, Does, PeerDoes
<1>4. QED
  BY <1>3 DEF Asking

\* What the peer has on its way agrees with what it did.
LEMMA ReplyStep ==
  ASSUME TypeInv, CallInv, CreditInv, RequestInv, ReplyInv, Next
  PROVE  ReplyInv'
<1>0. TypeInv' /\ toClient \in Seq(Frames) /\ Len(toClient) \in Nat
  BY TypeStep, Numbers
<1>1. /\ \A s \in Streams : reply[s] = "open" => s \in Asking
      /\ RepliesOn(toClient, reply, owed, Asking)
  BY ReplyInvIs
<1>2. ASSUME \A s \in Streams : reply'[s] = "open" => s \in Asking',
             RepliesOn(toClient', reply', owed', Asking')
      PROVE  ReplyInv'
  <2>1. (ReplyInv <=> /\ \A s \in Streams : reply[s] = "open" => s \in Asking
                      /\ RepliesOn(toClient, reply, owed, Asking))'
    <3>1. \A i \in 1..Len(toClient') :
            toClient'[i].type \in Response => toClient'[i].sid \in Streams
      BY <1>0 DEF TypeInv, ToClientFrame
    <3>2. QED
      BY <3>1 DEF ReplyInv, RepliesOn, ReplyTo, Follows, Asking
  <2>2. QED
    BY <1>2, <2>1
<1>3. Asking \subseteq Asking'
  BY AskedStays
<1>4. \A i \in 1..Len(toClient) :
        toClient[i].type \in Response => toClient[i].sid \in Streams
  BY DEF TypeInv, ToClientFrame
<1>5. ASSUME UNCHANGED <<reply, owed>>, RepliesOn(toClient', reply, owed, Asking)
      PROVE  ReplyInv'
  <2>1. \A i \in 1..Len(toClient') :
          toClient'[i].type \in Response => toClient'[i].sid \in Streams
    BY <1>0 DEF TypeInv, ToClientFrame
  <2>2. RepliesOn(toClient', reply, owed, Asking')
    BY <1>3, <1>5, <2>1, RepliesMove
  <2>3. QED
    BY <1>1, <1>2, <1>3, <1>5, <2>2
<1>6. ASSUME UNCHANGED <<reply, owed>>,
             \/ toClient' = toClient \/ toClient' = <<>>
             \/ toClient # <<>> /\ toClient' = Tail(toClient)
             \/ toClient' = Append(toClient, Ack)
             \/ \E m \in 0..Len(toClient) : toClient' = SubSeq(toClient, 1, m)
      PROVE  ReplyInv'
  <2>1. RepliesOn(<<>>, reply, owed, Asking)
    BY DEF RepliesOn
  <2>2. Ack.type \notin Response /\ Ack \in Frames
    BY AckPong DEF Response
  <2>3. RepliesOn(toClient', reply, owed, Asking)
    BY <1>0, <1>1, <1>6, <2>1, <2>2, RepliesRest, RepliesPrefix, RepliesPut
  <2>4. QED
    BY <1>5, <1>6, <2>3
<1>7. CASE Tells
  <2>1. PICK f \in Frames : /\ toClient' = Append(toClient, f) /\ ToClientFrame(f)
                            /\ Told(f)
    BY <1>7, TellsCases
  <2>2. CASE f.type \notin Response
    <3>1. UNCHANGED <<reply, owed>>
      BY <2>1, <2>2 DEF Told, pReply, Response
    <3>2. RepliesOn(toClient', reply, owed, Asking)
      BY <1>0, <1>1, <2>1, <2>2, RepliesPut
    <3>3. QED
      BY <1>5, <3>1, <3>2
  <2>3. CASE f.type \in Response
    <3>1. f.sid \in Streams /\ reply[f.sid] \in {"none", "open"}
      <4>1. reply \in [Streams -> {"none", "open", "ended"}]
        BY DEF TypeInv, TypeOK, PeerOK
      <4>2. QED
        BY <2>1, <2>3, <4>1 DEF Told, Response
    <3>2. /\ reply \in [Streams -> {"none", "open", "ended"}]
          /\ owed \in [Streams -> Nat] /\ f.n \in Nat
      BY DEF TypeInv, TypeOK, PeerOK, Frames
    <3>3. \A s \in Streams : s # f.sid => reply'[s] = reply[s] /\ owed'[s] = owed[s]
      BY <2>1, <2>3, <3>1, <3>2 DEF Told, pReply, Response
    <3>4. reply[f.sid] # "none" => reply'[f.sid] # "none"
      BY <2>1, <2>3, <3>1, <3>2 DEF Told, pReply, Response
    <3>5. RepliesOn(toClient, reply', owed', Asking)
      <4>1. \A s \in Streams : /\ reply[s] # "none" => reply'[s] # "none"
                               /\ reply[s] = "ended" =>
                                    reply'[s] = "ended" /\ owed'[s] = owed[s]
        BY <3>1, <3>3, <3>4
      <4>2. QED
        BY <1>1, <1>4, <4>1, RepliesMove
    <3>6. /\ reply'[f.sid] = "open" => f.sid \in Asking
          /\ ReplyTo(f, reply', owed', Asking)
      <4>1. f.type # "reset" => f.sid \in Asking
        BY <1>1, <2>1, <2>3, <3>1 DEF Told, Response, Answers, Asking, Asked
      <4>2. f.type # "info" => reply'[f.sid] # "none"
        BY <2>1, <2>3, <3>1, <3>2 DEF Told, Response
      <4>3. Ends(f) \/ f.type \in {"trailers", "reset"} => reply'[f.sid] = "ended"
        BY <2>1, <2>3, <3>1, <3>2 DEF Told, Response, Ends
      <4>4. f.end => owed'[f.sid] = 0
        BY <2>1, <2>3, <3>1, <3>2 DEF Told, Response
      <4>5. f.type = "reset" => reply'[f.sid] = "ended"
        BY <4>3
      <4>6. QED
        BY <4>1, <4>2, <4>3, <4>4, <4>5 DEF ReplyTo
    <3>7. ASSUME NEW i \in 1..Len(toClient) PROVE Follows(toClient[i], f)
      <4> SUFFICES ASSUME Alike(toClient[i], f)
                   PROVE  /\ ~Ends(toClient[i])
                          /\ toClient[i].type # "info" => f.type \notin {"info", "final"}
        BY DEF Follows
      <4>1. ReplyTo(toClient[i], reply, owed, Asking) /\ toClient[i].sid = f.sid
        BY <1>1 DEF RepliesOn, Alike
      <4>2. f.type \in {"info", "final"} => reply[f.sid] = "none"
        BY <2>1 DEF Told
      <4>3. QED
        BY <3>1, <4>1, <4>2 DEF ReplyTo
    <3>8. RepliesOn(toClient', reply', owed', Asking)
      BY <1>0, <2>1, <3>5, <3>6, <3>7, RepliesPut
    <3>9. RepliesOn(toClient', reply', owed', Asking')
      <4>1. \A i \in 1..Len(toClient') :
              toClient'[i].type \in Response => toClient'[i].sid \in Streams
        BY <1>0 DEF TypeInv, ToClientFrame
      <4>2. QED
        BY <1>3, <3>8, <4>1, RepliesMove
    <3>10. \A s \in Streams : reply'[s] = "open" => s \in Asking'
      BY <1>1, <1>3, <3>1, <3>3, <3>6
    <3>11. QED
      BY <1>2, <3>9, <3>10
  <2>4. QED
    BY <2>2, <2>3
<1>8. CASE PeerReads
  BY <1>6, <1>8, PeerReadsCases DEF Heard
<1>9. CASE ReadAny
  BY <1>6, <1>9, ReadWires, ClientLeavesPeer DEF peerVars, pReply
<1>10. CASE (\E k \in Kinds, b \in Bodies : Post(k, b)) \/ SendChunk \/ Accept
  BY <1>6, <1>10 DEF Post, SendChunk, Accept, peerVars, pReply
<1>11. CASE Quiet \/ UNCHANGED vars
  BY <1>6, <1>11, QuietWires DEF vars, linkVars, peerVars, pReply
<1>12. CASE Close \/ Cut
  BY <1>6, <1>12 DEF Close, Cut, peerVars, pReply
<1>13. QED
  BY <1>7, <1>8, <1>9, <1>10, <1>11, <1>12, Steps

-----------------------------------------------------------------------------
(* ResponseInv.                                                            *)

\* What ResponseInv says of a wire and of a stream s: whether its final headers
\* and its end were read, the bytes its consumer has, its reply, the bytes owed
\* and sent, whether it has been asked for and whether the link is up.
For(f, s, types) == f.type \in types /\ f.sid = s
ResponseOn(w, s, fin, end, had, rep, ow, total, ask, link) ==
  /\ fin => rep # "none" /\ \A i \in 1..Len(w) : ~For(w[i], s, {"info", "final"})
  /\ end => /\ rep = "ended" /\ ow = 0 /\ ask /\ had = total
            /\ \A i \in 1..Len(w) : ~For(w[i], s, Response)
  /\ ~end /\ (link \/ \E i \in 1..Len(w) : For(w[i], s, Response) /\ w[i].end) =>
       had + StreamDataOn(w, s) = total
  /\ ~end /\ link /\ rep = "ended" =>
       \E i \in 1..Len(w) : For(w[i], s, Response) /\ Ends(w[i])
  /\ ~fin /\ link /\ rep = "open" => \E i \in 1..Len(w) : For(w[i], s, {"final"})
  /\ ~fin => \A i \in 1..Len(w) : For(w[i], s, {"data", "trailers"}) =>
               \E j \in 1..i - 1 : For(w[j], s, {"final"})

\* The layer of the response, over a wire.
LEMMA ResponseInvIs ==
  ResponseInv <=> (InCall => ResponseOn(toClient, active, gotFinal, done,
                                        got + InHand, reply[active], owed[active],
                                        sent[active], Asked(active), up))
BY DEF ResponseInv, ResponseOn, For, Of, Pending, Ahead, AheadWhole

\* Every frame but the first is still on the rest of a wire.
LEMMA RestBack ==
  ASSUME NEW w \in Seq(Frames), w # <<>>
  PROVE  \A k \in 1..Len(w) :
           k = 1 \/ (k - 1 \in 1..Len(Tail(w)) /\ Tail(w)[k - 1] = w[k])
OBVIOUS

\* The data of a stream in one frame.
LEMMA DataOfOne ==
  ASSUME NEW f \in Frames, NEW s
  PROVE  /\ Carries(f, "data", {s}) = IF For(f, s, {"data"}) THEN f.n ELSE 0
         /\ Carries(f, "data", {s}) \in Nat /\ f.n \in Nat
         /\ Ends(f) => f.type \in Response
         /\ For(f, s, {"data"}) => For(f, s, Response)
BY DEF Carries, For, Frames, Ends, Response

\* A frame that is not of the response is taken from the wire.
LEMMA ResponsePassed ==
  ASSUME NEW w \in Seq(Frames), w # <<>>, NEW s, NEW fin, NEW end, NEW had, NEW rep,
         NEW ow, NEW total, NEW ask, NEW link,
         ResponseOn(w, s, fin, end, had, rep, ow, total, ask, link),
         ~For(w[1], s, Response)
  PROVE  ResponseOn(Tail(w), s, fin, end, had, rep, ow, total, ask, link)
<1> DEFINE v == Tail(w)
<1>1. /\ Len(v) = Len(w) - 1 /\ Len(v) \in Nat /\ w[1] \in Frames
      /\ \A i \in 1..Len(v) : i + 1 \in 1..Len(w) /\ v[i] = w[i + 1]
  BY Rest
<1>2. \A k \in 1..Len(w) : k = 1 \/ (k - 1 \in 1..Len(v) /\ v[k - 1] = w[k])
  BY RestBack
<1>3. StreamDataOn(v, s) = StreamDataOn(w, s)
  <2>1. Bytes(v, "data", {s}) = Bytes(w, "data", {s}) - Carries(w[1], "data", {s})
    BY Taken
  <2>2. Carries(w[1], "data", {s}) = 0
    BY <1>1, DataOfOne
  <2>3. Bytes(w, "data", {s}) \in Nat
    <3>1. 0 \in 0..Len(w)
      OBVIOUS
    <3>2. QED
      BY <3>1, BytesType
  <2>4. QED
    BY <2>1, <2>2, <2>3 DEF StreamDataOn
<1> HIDE DEF v
<1>4. \A t : t \subseteq Response => ~For(w[1], s, t)
  BY DEF For
<1>5. {"final"} \subseteq Response
  BY DEF Response
<1>6. fin => rep # "none" /\ \A i \in 1..Len(v) : ~For(v[i], s, {"info", "final"})
  BY <1>1 DEF ResponseOn
<1>7. end => /\ rep = "ended" /\ ow = 0 /\ ask /\ had = total
             /\ \A i \in 1..Len(v) : ~For(v[i], s, Response)
  BY <1>1 DEF ResponseOn
<1>8. ~end /\ (link \/ \E i \in 1..Len(v) : For(v[i], s, Response) /\ v[i].end) =>
        had + StreamDataOn(v, s) = total
  BY <1>1, <1>3 DEF ResponseOn
<1>9. ~end /\ link /\ rep = "ended" =>
        \E i \in 1..Len(v) : For(v[i], s, Response) /\ Ends(v[i])
  BY <1>2 DEF ResponseOn
<1>10. ~fin /\ link /\ rep = "open" => \E i \in 1..Len(v) : For(v[i], s, {"final"})
  BY <1>2, <1>4, <1>5 DEF ResponseOn
<1>11. ASSUME ~fin, NEW i \in 1..Len(v), For(v[i], s, {"data", "trailers"})
       PROVE  \E j \in 1..i - 1 : For(v[j], s, {"final"})
  <2>1. PICK j \in 1..(i + 1) - 1 : For(w[j], s, {"final"})
    BY <1>1, <1>11 DEF ResponseOn
  <2>2. j # 1 /\ j \in 1..Len(w)
    BY <1>1, <1>4, <1>5, <2>1
  <2>3. j - 1 \in 1..i - 1 /\ v[j - 1] = w[j]
    BY <1>2, <2>1, <2>2
  <2>4. QED
    BY <2>1, <2>3
<1>12. QED
  BY <1>6, <1>7, <1>8, <1>9, <1>10, <1>11 DEF ResponseOn, v

\* A frame that is not of the response is put behind.
LEMMA ResponseBeside ==
  ASSUME NEW w \in Seq(Frames), NEW f \in Frames, NEW s, NEW fin, NEW end, NEW had,
         NEW rep, NEW ow, NEW total, NEW ask, NEW link,
         ResponseOn(w, s, fin, end, had, rep, ow, total, ask, link),
         ~For(f, s, Response)
  PROVE  ResponseOn(Append(w, f), s, fin, end, had, rep, ow, total, ask, link)
<1> DEFINE v == Append(w, f)
<1>1. /\ Len(v) = Len(w) + 1 /\ Len(w) \in Nat
      /\ \A i \in 1..Len(v) : \/ i \in 1..Len(w) /\ v[i] = w[i]
                              \/ i = Len(w) + 1 /\ v[i] = f
  BY Behind
<1>2. \A i \in 1..Len(w) : i \in 1..Len(v) /\ v[i] = w[i]
  OBVIOUS
<1>3. StreamDataOn(v, s) = StreamDataOn(w, s)
  <2>1. Bytes(v, "data", {s}) = Bytes(w, "data", {s}) + Carries(f, "data", {s})
    BY Put
  <2>2. Carries(f, "data", {s}) = 0
    BY DataOfOne
  <2>3. Bytes(w, "data", {s}) \in Nat
    <3>1. 0 \in 0..Len(w)
      OBVIOUS
    <3>2. QED
      BY <3>1, BytesType
  <2>4. QED
    BY <2>1, <2>2, <2>3 DEF StreamDataOn
<1> HIDE DEF v
<1>4. /\ ~For(f, s, {"info", "final"}) /\ ~For(f, s, {"final"})
      /\ ~For(f, s, {"data", "trailers"})
  BY DEF For, Response
<1>5. fin => rep # "none" /\ \A i \in 1..Len(v) : ~For(v[i], s, {"info", "final"})
  BY <1>1, <1>4 DEF ResponseOn
<1>6. end => /\ rep = "ended" /\ ow = 0 /\ ask /\ had = total
             /\ \A i \in 1..Len(v) : ~For(v[i], s, Response)
  BY <1>1 DEF ResponseOn
<1>7. ~end /\ (link \/ \E i \in 1..Len(v) : For(v[i], s, Response) /\ v[i].end) =>
        had + StreamDataOn(v, s) = total
  BY <1>1, <1>3 DEF ResponseOn
<1>8. ~end /\ link /\ rep = "ended" =>
        \E i \in 1..Len(v) : For(v[i], s, Response) /\ Ends(v[i])
  BY <1>2 DEF ResponseOn
<1>9. ~fin /\ link /\ rep = "open" => \E i \in 1..Len(v) : For(v[i], s, {"final"})
  BY <1>2 DEF ResponseOn
<1>10. ASSUME ~fin, NEW i \in 1..Len(v), For(v[i], s, {"data", "trailers"})
       PROVE  \E j \in 1..i - 1 : For(v[j], s, {"final"})
  <2>1. i \in 1..Len(w) /\ v[i] = w[i]
    BY <1>1, <1>4, <1>10
  <2>2. PICK j \in 1..i - 1 : For(w[j], s, {"final"})
    BY <1>10, <2>1 DEF ResponseOn
  <2>3. j \in 1..Len(w)
    BY <1>1, <2>1
  <2>4. QED
    BY <1>2, <2>2, <2>3
<1>11. QED
  BY <1>5, <1>6, <1>7, <1>8, <1>9, <1>10 DEF ResponseOn, v

\* A frame of the response is put behind, from rep to rp and from total to tt.
LEMMA ResponseTold ==
  ASSUME NEW w \in Seq(Frames), NEW f \in Frames, NEW s, NEW fin, NEW end,
         NEW had \in Nat, NEW rep, NEW ow, NEW total \in Nat, NEW ask,
         NEW rp, NEW op, NEW tt,
         ResponseOn(w, s, fin, end, had, rep, ow, total, ask, TRUE),
         For(f, s, Response),
         tt = total + (IF f.type = "data" THEN f.n ELSE 0),
         \/ f.type = "info" /\ rep = "none" /\ rp = "none"
         \/ f.type = "final" /\ rep = "none"
              /\ rp = IF f.end THEN "ended" ELSE "open"
         \/ f.type = "data" /\ rep = "open"
              /\ rp = IF f.end THEN "ended" ELSE "open"
         \/ f.type \in {"trailers", "reset"} /\ rep \in {"none", "open"}
              /\ rp = "ended" /\ (f.type = "trailers" => f.end /\ rep = "open")
  PROVE  ResponseOn(Append(w, f), s, fin, end, had, rp, op, tt, ask, TRUE)
<1> DEFINE v == Append(w, f)
<1>1. /\ Len(v) = Len(w) + 1 /\ Len(w) \in Nat
      /\ \A i \in 1..Len(v) : \/ i \in 1..Len(w) /\ v[i] = w[i]
                              \/ i = Len(w) + 1 /\ v[i] = f
  BY Behind
<1>2. /\ \A i \in 1..Len(w) : i \in 1..Len(v) /\ v[i] = w[i]
      /\ Len(w) + 1 \in 1..Len(v) /\ v[Len(w) + 1] = f
  OBVIOUS
<1>3. /\ StreamDataOn(v, s) = StreamDataOn(w, s) + (IF f.type = "data" THEN f.n ELSE 0)
      /\ StreamDataOn(w, s) \in Nat /\ f.n \in Nat
  <2>1. Bytes(v, "data", {s}) = Bytes(w, "data", {s}) + Carries(f, "data", {s})
    BY Put
  <2>2. Carries(f, "data", {s}) = (IF f.type = "data" THEN f.n ELSE 0) /\ f.n \in Nat
    BY DataOfOne DEF For
  <2>3. Bytes(w, "data", {s}) \in Nat
    <3>1. 0 \in 0..Len(w)
      OBVIOUS
    <3>2. QED
      BY <3>1, BytesType
  <2>4. QED
    BY <2>1, <2>2, <2>3 DEF StreamDataOn
<1> HIDE DEF v
<1>4. ~end /\ rep # "ended"
  BY DEF ResponseOn
<1>5. fin => rp # "none" /\ \A i \in 1..Len(v) : ~For(v[i], s, {"info", "final"})
  BY <1>1 DEF ResponseOn, For
<1>6. had + StreamDataOn(v, s) = tt
  <2>1. had + StreamDataOn(w, s) = total
    BY <1>4 DEF ResponseOn
  <2> DEFINE a == StreamDataOn(w, s)
             b == StreamDataOn(v, s)
             d == IF f.type = "data" THEN f.n ELSE 0
  <2>2. b = a + d /\ a \in Nat /\ d \in Nat /\ had + a = total /\ tt = total + d
    BY <1>3, <2>1
  <2> HIDE DEF a, b, d
  <2>3. had + b = tt
    BY <2>2
  <2>4. QED
    BY <2>3 DEF b
<1>7. rp = "ended" => \E i \in 1..Len(v) : For(v[i], s, Response) /\ Ends(v[i])
  <2>1. rp = "ended" => Ends(f)
    BY DEF Ends, For
  <2>2. QED
    BY <1>2, <2>1
<1>8. ~fin /\ rp = "open" => \E i \in 1..Len(v) : For(v[i], s, {"final"})
  <2>1. CASE f.type = "final"
    <3>1. For(f, s, {"final"})
      BY <2>1 DEF For
    <3>2. QED
      BY <1>2, <3>1
  <2>2. CASE f.type # "final"
    <3>1. rp = "open" => rep = "open"
      BY <2>2
    <3>2. ~fin /\ rp = "open" => \E i \in 1..Len(w) : For(w[i], s, {"final"})
      BY <3>1 DEF ResponseOn
    <3>3. QED
      BY <1>2, <3>2
  <2>3. QED
    BY <2>1, <2>2
<1>9. ASSUME ~fin, NEW i \in 1..Len(v), For(v[i], s, {"data", "trailers"})
      PROVE  \E j \in 1..i - 1 : For(v[j], s, {"final"})
  <2>1. CASE i \in 1..Len(w) /\ v[i] = w[i]
    <3>1. PICK j \in 1..i - 1 : For(w[j], s, {"final"})
      BY <1>9, <2>1 DEF ResponseOn
    <3>2. j \in 1..Len(w)
      BY <1>1, <2>1
    <3>3. QED
      BY <1>2, <3>1, <3>2
  <2>2. CASE i = Len(w) + 1 /\ v[i] = f
    <3>1. rep = "open"
      BY <1>9, <2>2 DEF For
    <3>2. PICK j \in 1..Len(w) : For(w[j], s, {"final"})
      BY <1>9, <3>1 DEF ResponseOn
    <3>3. j \in 1..i - 1
      BY <1>1, <2>2
    <3>4. QED
      BY <1>2, <3>2, <3>3
  <2>3. QED
    BY <1>1, <2>1, <2>2
<1>10. QED
  BY <1>4, <1>5, <1>6, <1>7, <1>8, <1>9 DEF ResponseOn, v

\* The bytes of the response behind its first frame.
LEMMA DataRest ==
  ASSUME NEW w \in Seq(Frames), w # <<>>, NEW s
  PROVE  /\ StreamDataOn(w, s) = StreamDataOn(Tail(w), s)
                                   + (IF For(w[1], s, {"data"}) THEN w[1].n ELSE 0)
         /\ StreamDataOn(Tail(w), s) \in Nat /\ StreamDataOn(w, s) \in Nat
         /\ w[1].n \in Nat
<1>1. Bytes(Tail(w), "data", {s}) = Bytes(w, "data", {s}) - Carries(w[1], "data", {s})
  BY Taken
<1>2. /\ Carries(w[1], "data", {s}) = IF For(w[1], s, {"data"}) THEN w[1].n ELSE 0
      /\ Carries(w[1], "data", {s}) \in Nat /\ w[1].n \in Nat
  <2>1. w[1] \in Frames
    OBVIOUS
  <2>2. QED
    BY <2>1, DataOfOne
<1>3. Bytes(w, "data", {s}) \in Nat /\ Bytes(Tail(w), "data", {s}) \in Nat
  <2>1. 0 \in 0..Len(w) /\ Tail(w) \in Seq(Frames) /\ 0 \in 0..Len(Tail(w))
    OBVIOUS
  <2>2. QED
    BY <2>1, BytesType
<1>4. QED
  BY <1>1, <1>2, <1>3 DEF StreamDataOn

\* No frame of a response, no data of it.
LEMMA DataNone ==
  ASSUME NEW w \in Seq(Frames), NEW s, \A i \in 1..Len(w) : ~For(w[i], s, Response)
  PROVE  StreamDataOn(w, s) = 0
<1>1. \A i \in 1..Len(w) : Carries(w[i], "data", {s}) = 0
  <2>1. \A i \in 1..Len(w) : w[i] \in Frames
    OBVIOUS
  <2>2. QED
    BY <2>1, DataOfOne
<1>2. QED
  BY <1>1, BytesNone DEF StreamDataOn

\* A frame of the response is read and admitted.
LEMMA ResponseRead ==
  ASSUME NEW w \in Seq(Frames), w # <<>>, NEW s, NEW fin \in BOOLEAN, NEW had \in Nat,
         NEW rep, NEW ow, NEW total \in Nat, NEW ask, NEW link, NEW hd,
         ResponseOn(w, s, fin, FALSE, had, rep, ow, total, ask, link),
         For(w[1], s, Response), ask,
         w[1].type # "info" => rep # "none",
         w[1].end => rep = "ended" /\ ow = 0,
         \A j \in 2..Len(w) : Follows(w[1], w[j]),
         \/ w[1].type = "info" /\ ~fin /\ ~w[1].end
         \/ w[1].type = "final" /\ ~fin
         \/ w[1].type = "trailers" /\ fin /\ w[1].end
         \/ w[1].type = "data" /\ fin,
         hd = had + (IF w[1].type = "data" THEN w[1].n ELSE 0)
  PROVE  ResponseOn(Tail(w), s, fin \/ w[1].type = "final", w[1].end, hd, rep, ow,
                    total, ask, link)
<1> DEFINE v == Tail(w)
           f == w[1]
           fn == fin \/ f.type = "final"
<1>1. /\ Len(v) = Len(w) - 1 /\ Len(v) \in Nat /\ f \in Frames /\ v \in Seq(Frames)
      /\ \A i \in 1..Len(v) : i + 1 \in 2..Len(w) /\ i + 1 \in 1..Len(w)
                                /\ v[i] = w[i + 1]
  BY Rest
<1>2. \A k \in 1..Len(w) : k = 1 \/ (k - 1 \in 1..Len(v) /\ v[k - 1] = w[k])
  BY RestBack
<1>3. /\ StreamDataOn(w, s) = StreamDataOn(v, s) + (IF f.type = "data" THEN f.n ELSE 0)
      /\ StreamDataOn(v, s) \in Nat /\ StreamDataOn(w, s) \in Nat /\ f.n \in Nat
  BY DataRest DEF For
<1>4. f \in Frames /\ f.end \in BOOLEAN /\ Len(w) \in Nat /\ 1 \in 1..Len(w)
  BY <1>1, Rest DEF Frames
<1>5. \A i \in 1..Len(v) : Follows(f, v[i])
  BY <1>1
<1> HIDE DEF v, f
<1>6. had + StreamDataOn(w, s) = total => hd + StreamDataOn(v, s) = total
  <2> DEFINE a == StreamDataOn(w, s)
             b == StreamDataOn(v, s)
             d == IF f.type = "data" THEN f.n ELSE 0
  <2>1. a = b + d /\ a \in Nat /\ b \in Nat /\ d \in Nat /\ hd = had + d
    BY <1>3 DEF f
  <2> HIDE DEF a, b, d
  <2>2. had + a = total => hd + b = total
    BY <2>1
  <2>3. QED
    BY <2>2 DEF a, b
<1>7. fn => rep # "none" /\ \A i \in 1..Len(v) : ~For(v[i], s, {"info", "final"})
  <2>1. CASE fin
    BY <1>1, <2>1 DEF ResponseOn
  <2>2. CASE f.type = "final"
    <3>1. rep # "none"
      BY <2>2 DEF f
    <3>2. ASSUME NEW i \in 1..Len(v), For(v[i], s, {"info", "final"}) PROVE FALSE
      BY <1>5, <2>2, <3>2 DEF Follows, Alike, For, Response, f
    <3>3. QED
      BY <3>1, <3>2
  <2>3. QED
    BY <2>1, <2>2
<1>8. ASSUME f.end
      PROVE  /\ rep = "ended" /\ ow = 0 /\ ask /\ hd = total
             /\ \A i \in 1..Len(v) : ~For(v[i], s, Response)
  <2>1. \A i \in 1..Len(v) : ~For(v[i], s, Response)
    BY <1>5, <1>8 DEF Follows, Alike, For, Ends, f
  <2>2. StreamDataOn(v, s) = 0
    BY <1>1, <2>1, DataNone
  <2>3. had + StreamDataOn(w, s) = total
    BY <1>4, <1>8 DEF ResponseOn, f
  <2>4. hd = total
    <3>1. hd \in Nat
      BY <1>3 DEF f
    <3>2. QED
      BY <1>6, <2>2, <2>3, <3>1
  <2>5. QED
    BY <1>8, <2>1, <2>4 DEF f
<1>9. ~f.end /\ (link \/ \E i \in 1..Len(v) : For(v[i], s, Response) /\ v[i].end) =>
        hd + StreamDataOn(v, s) = total
  BY <1>1, <1>6 DEF ResponseOn
<1>10. ~f.end /\ link /\ rep = "ended" =>
        \E i \in 1..Len(v) : For(v[i], s, Response) /\ Ends(v[i])
  <2>1. ~f.end => ~Ends(f)
    BY DEF Ends, f
  <2>2. QED
    BY <1>2, <2>1 DEF ResponseOn, f
<1>11. ~fn /\ link /\ rep = "open" => \E i \in 1..Len(v) : For(v[i], s, {"final"})
  BY <1>2 DEF ResponseOn, f, For
<1>12. ASSUME ~fn, NEW i \in 1..Len(v), For(v[i], s, {"data", "trailers"})
       PROVE  \E j \in 1..i - 1 : For(v[j], s, {"final"})
  <2>1. PICK j \in 1..(i + 1) - 1 : For(w[j], s, {"final"})
    BY <1>1, <1>12 DEF ResponseOn
  <2>2. j # 1 /\ j \in 1..Len(w)
    BY <1>1, <1>12, <2>1 DEF For, f
  <2>3. j - 1 \in 1..i - 1 /\ v[j - 1] = w[j]
    BY <1>2, <2>1, <2>2
  <2>4. QED
    BY <2>1, <2>3
<1>13. QED
  BY <1>7, <1>8, <1>9, <1>10, <1>11, <1>12 DEF ResponseOn, v, f

\* The wire is cut: no more is promised than what an end in sight promises.
LEMMA ResponseCut ==
  ASSUME NEW w \in Seq(Frames), NEW m \in 0..Len(w), NEW s, NEW fin, NEW end, NEW had,
         NEW rep, NEW ow, NEW total, NEW ask, NEW link,
         ResponseOn(w, s, fin, end, had, rep, ow, total, ask, link),
         \A i \in 1..Len(w) : w[i].type \in Response =>
           \A j \in i + 1..Len(w) : Follows(w[i], w[j])
  PROVE  ResponseOn(SubSeq(w, 1, m), s, fin, end, had, rep, ow, total, ask, FALSE)
<1> DEFINE v == SubSeq(w, 1, m)
<1>1. /\ v \in Seq(Frames) /\ Len(v) = m /\ m \in Nat /\ m <= Len(w) /\ Len(w) \in Nat
      /\ \A i \in 1..m : v[i] = w[i] /\ i \in 1..Len(w)
  OBVIOUS
<1>2. (\A i \in m + 1..Len(w) : Carries(w[i], "data", {s}) = 0) =>
        StreamDataOn(v, s) = StreamDataOn(w, s)
  BY BytesCut DEF StreamDataOn
<1> HIDE DEF v
<1>3. ASSUME NEW i \in 1..m, For(v[i], s, Response), v[i].end
      PROVE  StreamDataOn(v, s) = StreamDataOn(w, s)
  <2>1. ASSUME NEW j \in m + 1..Len(w) PROVE Carries(w[j], "data", {s}) = 0
    <3>1. j \in i + 1..Len(w) /\ w[i] = v[i] /\ i \in 1..Len(w)
      BY <1>1
    <3>2. Follows(w[i], w[j]) /\ Ends(w[i])
      BY <1>3, <3>1 DEF For, Ends
    <3>3. ~For(w[j], s, Response)
      BY <1>3, <3>1, <3>2 DEF Follows, Alike, For
    <3>4. w[j] \in Frames
      BY <3>1, <1>1
    <3>5. QED
      BY <3>3, <3>4, DataOfOne
  <2>2. QED
    BY <1>2, <2>1
<1>4. fin => rep # "none" /\ \A i \in 1..Len(v) : ~For(v[i], s, {"info", "final"})
  BY <1>1 DEF ResponseOn
<1>5. end => /\ rep = "ended" /\ ow = 0 /\ ask /\ had = total
             /\ \A i \in 1..Len(v) : ~For(v[i], s, Response)
  BY <1>1 DEF ResponseOn
<1>6. ~end /\ (\E i \in 1..Len(v) : For(v[i], s, Response) /\ v[i].end) =>
        had + StreamDataOn(v, s) = total
  BY <1>1, <1>3 DEF ResponseOn
<1>7. ASSUME ~fin, NEW i \in 1..Len(v), For(v[i], s, {"data", "trailers"})
      PROVE  \E j \in 1..i - 1 : For(v[j], s, {"final"})
  <2>1. PICK j \in 1..i - 1 : For(w[j], s, {"final"})
    BY <1>1, <1>7 DEF ResponseOn
  <2>2. j \in 1..m
    BY <1>1, <2>1
  <2>3. QED
    BY <1>1, <2>1, <2>2
<1>8. QED
  BY <1>4, <1>5, <1>6, <1>7 DEF ResponseOn, v

\* A stream just opened.
LEMMA ResponseNew ==
  ASSUME NEW w \in Seq(Frames), NEW s, NEW ow, NEW ask, NEW link,
         \A i \in 1..Len(w) : ~For(w[i], s, Response)
  PROVE  ResponseOn(w, s, FALSE, FALSE, 0, "none", ow, 0, ask, link)
<1>1. StreamDataOn(w, s) = 0
  BY DataNone
<1>2. \A f : For(f, s, {"data", "trailers"}) => For(f, s, Response)
  BY DEF For, Response
<1>3. QED
  BY <1>1, <1>2 DEF ResponseOn

\* The call agrees with the response that is on its way.
LEMMA ResponseStep ==
  ASSUME TypeInv, CallInv, CreditInv, Fresh, RequestInv, ReplyInv, ResponseInv, Next
  PROVE  ResponseInv'
<1> DEFINE On(w, link) == ResponseOn(w, active, gotFinal, done, got + InHand,
                                     reply[active], owed[active], sent[active],
                                     Asked(active), link)
<1>0. /\ toClient \in Seq(Frames) /\ Len(toClient) \in Nat
      /\ got \in Nat /\ credit \in Nat /\ got + InHand \in Nat
      /\ InCall => active # 0 /\ active \in Streams /\ sent[active] \in Nat
      /\ up \in BOOLEAN /\ gotFinal \in BOOLEAN /\ done \in BOOLEAN
  <2>1. up \in BOOLEAN /\ gotFinal \in BOOLEAN /\ done \in BOOLEAN
    BY DEF TypeInv, TypeOK, ClientOK, PeerOK
  <2>2. got + InHand \in Nat
    <3>1. got \in Nat /\ credit \in Nat
      BY Numbers
    <3>2. QED
      BY <3>1 DEF InHand
  <2>3. QED
    BY <2>1, <2>2, Numbers DEF CallInv
<1>1. InCall => On(toClient, up)
  BY ResponseInvIs
<1>2. ASSUME InCall' => ResponseOn(toClient', active', gotFinal', done', got' + InHand',
                                   reply'[active'], owed'[active'], sent'[active'],
                                   Asked(active)', up')
      PROVE  ResponseInv'
  <2>1. (ResponseInv <=> (InCall => ResponseOn(toClient, active, gotFinal, done,
                                        got + InHand, reply[active], owed[active],
                                        sent[active], Asked(active), up)))'
    BY DEF ResponseInv, ResponseOn, For, Of, Pending, Ahead, AheadWhole
  <2>2. QED
    BY <1>2, <2>1
<1>3. \A s \in Streams : Asked(s) => Asked(s)'
  BY AskedStays
<1>4. ASSUME InCall, active' = active, NEW w, NEW fin, NEW end, NEW had, NEW rep,
             NEW ow, NEW total, NEW link,
             ResponseOn(w, active, fin, end, had, rep, ow, total, Asked(active), link)
      PROVE  ResponseOn(w, active', fin, end, had, rep, ow, total, Asked(active)', link)
  <2>1. Asked(active) => Asked(active)'
    BY <1>0, <1>3, <1>4 DEF Asked
  <2>2. QED
    BY <1>4, <2>1 DEF ResponseOn
<1>5. ASSUME InCall, UNCHANGED <<active, gotFinal, done, reply, owed, sent>>,
             got' + InHand' = got + InHand, On(toClient', up')
      PROVE  ResponseInv'
  BY <1>2, <1>4, <1>5
<1>6. CASE \E k \in Kinds, b \in Bodies : Post(k, b)
  <2>1. PICK k \in Kinds, b \in Bodies : Post(k, b)
    BY <1>6
  <2>2. /\ active' = sid /\ ~gotFinal' /\ ~done' /\ got' = 0 /\ credit' = 0
        /\ toClient' = toClient /\ UNCHANGED peerVars /\ sid \in Streams
    BY <2>1 DEF Post
  <2>3. reply'[sid] = "none" /\ sent'[sid] = 0
    BY <2>2 DEF Fresh, peerVars, pReply, Streams
  <2>4. \A i \in 1..Len(toClient) : ~For(toClient[i], sid, Response)
    <3>1. \A i \in 1..Len(toClient) : toClient[i].type \in Response =>
            toClient[i].sid < sid
      BY DEF Fresh
    <3>2. sid \in Nat
      BY <2>2 DEF Streams
    <3>3. QED
      BY <3>1, <3>2 DEF For
  <2>5. got' + InHand' = 0
    BY <2>2 DEF InHand
  <2>6. ResponseOn(toClient, sid, FALSE, FALSE, 0, "none", owed'[sid], 0,
                   Asked(active)', up')
    BY <1>0, <2>4, ResponseNew
  <2>7. ResponseOn(toClient', active', gotFinal', done', got' + InHand', reply'[active'],
                   owed'[active'], sent'[active'], Asked(active)', up')
    <3>1. gotFinal' = FALSE /\ done' = FALSE
      BY <2>1 DEF Post
    <3>2. QED
      BY <2>2, <2>3, <2>5, <2>6, <3>1
  <2>8. QED
    BY <1>2, <2>7
<1>7. CASE SendChunk
  <2>1. /\ at = "send" /\ at' \in {"send", "recv"}
        /\ UNCHANGED <<active, gotFinal, done, got, toClient, up, reply, owed, sent>>
    BY <1>7 DEF SendChunk, connVars, peerVars, pReply
  <2>2. InCall /\ got' + InHand' = got + InHand
    BY <2>1 DEF InCall, InHand
  <2>3. QED
    BY <1>1, <1>5, <2>1, <2>2
<1>8. CASE Accept
  <2>1. /\ at = "deliver" /\ at' = "recv" /\ got' = got + credit
        /\ UNCHANGED <<active, gotFinal, done, toClient, up, reply, owed, sent>>
    BY <1>8 DEF Accept, connVars, peerVars, pReply
  <2>2. InCall /\ got' + InHand' = got + InHand
    BY <1>0, <2>1 DEF InCall, InHand
  <2>3. QED
    BY <1>1, <1>5, <2>1, <2>2
<1>9. CASE ReadAny
  <2> DEFINE f == toClient[1]
  <2>0. /\ UNCHANGED <<reply, owed, sent, up>> /\ Reading
        /\ toClient # <<>> /\ toClient' = Tail(toClient)
        /\ f \in Frames /\ ToClientFrame(f) /\ 1 \in 1..Len(toClient)
    <3>1. UNCHANGED peerVars /\ Reading /\ toClient # <<>> /\ toClient' = Tail(toClient)
          /\ f \in Arrived
      BY <1>9, ClientLeavesPeer, ReadWires
    <3>2. up' = up
      BY <1>9, <3>1, ClientLeavesPeer DEF Close, Reading
    <3>3. f \in Frames /\ ToClientFrame(f) /\ 1 \in 1..Len(toClient)
      BY <3>1, Arrival
    <3>4. QED
      BY <3>1, <3>2, <3>3 DEF peerVars, pReply
  <2>1. CASE f.type \in Others /\ GoesOn
    <3>1. UNCHANGED <<at, active, gotFinal, done, got, credit>>
      BY <2>1 DEF GoesOn, callVars
    <3>2. got' + InHand' = got + InHand /\ InCall' = InCall
      BY <3>1 DEF InHand, InCall
    <3>3. ~For(f, active, Response)
      BY <2>1 DEF For, Response, Others, Control, Stray
    <3>4. InCall => On(Tail(toClient), up)
      BY <1>0, <1>1, <2>0, <3>3, ResponsePassed
    <3>5. QED
      BY <1>2, <1>5, <2>0, <3>1, <3>2, <3>4
  <2>2. CASE Stops \/ at' = "idle"
    <3>1. ~InCall'
      BY <2>2 DEF InCall, Stops
    <3>2. QED
      BY <1>2, <3>1
  <2>3. CASE /\ f.type \in {"info", "final", "trailers", "data"} /\ Admits(f)
             /\ gotFinal' = (gotFinal \/ f.type = "final") /\ done' = f.end
             /\ active' = active
             /\ got' + InHand' = got + InHand + (IF f.type = "data" THEN f.n ELSE 0)
    <3>1. /\ at = "recv" /\ InCall /\ ~done /\ For(f, active, Response)
      BY <2>0, <2>3 DEF Admits, Reading, InCall, For, Response
    <3>2. RepliesOn(toClient, reply, owed, Asking)
      BY ReplyInvIs
    <3>3. /\ ReplyTo(f, reply, owed, Asking)
          /\ \A j \in 2..Len(toClient) : Follows(f, toClient[j])
      <4>1. f.type \in Response /\ 1 + 1 = 2
        BY <3>1 DEF For
      <4>2. QED
        BY <2>0, <3>2, <4>1 DEF RepliesOn
    <3>4. /\ Asked(active) /\ (f.type # "info" => reply[active] # "none")
          /\ f.end => reply[active] = "ended" /\ owed[active] = 0
      BY <2>3, <3>1, <3>3 DEF ReplyTo, Ends, Asking, For
    <3>5. /\ On(toClient, up) /\ done = FALSE /\ active \in Streams
          /\ sent[active] \in Nat
      BY <1>0, <1>1, <3>1
    <3>6. \/ f.type = "info" /\ ~gotFinal /\ ~f.end
          \/ f.type = "final" /\ ~gotFinal
          \/ f.type = "trailers" /\ gotFinal /\ f.end
          \/ f.type = "data" /\ gotFinal
      BY <2>3 DEF Admits
    <3>7. ResponseOn(Tail(toClient), active, gotFinal \/ f.type = "final", f.end,
                     got' + InHand', reply[active], owed[active], sent[active],
                     Asked(active), up)
      <4> DEFINE hd == got' + InHand'
                 had == got + InHand
                 rep == reply[active]
                 ow == owed[active]
                 total == sent[active]
                 ask == Asked(active)
      <4>1. /\ had \in Nat /\ total \in Nat /\ gotFinal \in BOOLEAN
            /\ hd = had + (IF f.type = "data" THEN f.n ELSE 0)
            /\ ResponseOn(toClient, active, gotFinal, FALSE, had, rep, ow, total, ask, up)
            /\ ask /\ (f.type # "info" => rep # "none")
            /\ f.end => rep = "ended" /\ ow = 0
        BY <1>0, <2>3, <3>4, <3>5
      <4> HIDE DEF hd, had, rep, ow, total, ask
      <4>2. ResponseOn(Tail(toClient), active, gotFinal \/ f.type = "final", f.end,
                       hd, rep, ow, total, ask, up)
        BY <1>0, <2>0, <3>1, <3>3, <3>6, <4>1, ResponseRead
      <4>3. QED
        BY <4>2 DEF hd, rep, ow, total, ask
    <3>8. QED
      BY <1>2, <1>4, <2>0, <2>3, <3>1, <3>7
  <2>4. CASE /\ f.type \in {"info", "final", "trailers"} /\ Admits(f)
             /\ gotFinal' = (gotFinal \/ f.type = "final") /\ done' = f.end
             /\ UNCHANGED <<at, credit, got, active>>
    <3>1. InHand' = InHand /\ InHand = 0
      BY <2>4 DEF InHand, Admits
    <3>2. QED
      BY <1>0, <2>3, <2>4, <3>1
  <2>5. CASE /\ f.type = "data" /\ Admits(f)
             /\ at' = "deliver" /\ credit' = f.n /\ done' = f.end
             /\ UNCHANGED <<gotFinal, got, active>>
    <3>1. InHand' = f.n /\ InHand = 0 /\ f.n \in Nat
      BY <2>0, <2>5 DEF InHand, Admits, Frames
    <3>2. gotFinal' = (gotFinal \/ f.type = "final")
      BY <1>0, <2>5
    <3>3. got' + InHand' = got + InHand + f.n
      BY <1>0, <2>5, <3>1
    <3>4. QED
      BY <2>3, <2>5, <3>2, <3>3
  <2>6. \/ f.type \in Others /\ GoesOn
        \/ Stops \/ at' = "idle"
        \/ /\ f.type \in {"info", "final", "trailers"} /\ Admits(f)
           /\ gotFinal' = (gotFinal \/ f.type = "final") /\ done' = f.end
           /\ UNCHANGED <<at, credit, got, active>>
        \/ /\ f.type = "data" /\ Admits(f)
           /\ at' = "deliver" /\ credit' = f.n /\ done' = f.end
           /\ UNCHANGED <<gotFinal, got, active>>
    BY <1>9, ReadCall
  <2>7. QED
    BY <2>1, <2>2, <2>4, <2>5, <2>6
<1>10. CASE Quiet \/ Close
  <2>1. ~InCall'
    BY <1>10 DEF Quiet, Close, Refuse, Complete, LinkFails, Fails, PostUnsent,
       PostRefused, InCall
  <2>2. QED
    BY <1>2, <2>1
<1>11. ASSUME UNCHANGED callVars, UNCHANGED active
       PROVE  /\ UNCHANGED <<active, gotFinal, done>> /\ got' + InHand' = got + InHand
              /\ InCall' = InCall
  BY <1>11 DEF callVars, InHand, InCall
<1>12. CASE PeerReads
  <2>1. /\ UNCHANGED <<callVars, active, up, reply, owed, sent>>
        /\ toClient' = toClient \/ toClient' = Append(toClient, Ack)
    BY <1>12, PeerReadsCases DEF Heard, connVars
  <2>2. Ack \in Frames /\ ~For(Ack, active, Response)
    BY AckPong DEF For, Response
  <2>3. InCall => On(toClient', up')
    BY <1>0, <1>1, <2>1, <2>2, ResponseBeside
  <2>4. QED
    BY <1>2, <1>5, <1>11, <2>1, <2>3
<1>13. CASE Tells
  <2>1. PICK f \in Frames : toClient' = Append(toClient, f) /\ ToClientFrame(f) /\ Told(f)
    BY <1>13, TellsCases
  <2>2. up /\ UNCHANGED <<up, callVars, active>>
    BY <1>13, TellsCases DEF connVars
  <2>3. CASE ~InCall
    BY <1>2, <1>11, <2>2, <2>3
  <2>4. CASE InCall /\ ~For(f, active, Response)
    <3>1. /\ reply'[active] = reply[active] /\ owed'[active] = owed[active]
          /\ sent'[active] = sent[active]
      <4>1. /\ reply \in [Streams -> {"none", "open", "ended"}]
            /\ owed \in [Streams -> Nat] /\ sent \in [Streams -> Nat]
            /\ active \in Streams
        BY <1>0, <2>4 DEF TypeInv, TypeOK, PeerOK
      <4>2. f.type \notin Response \/ f.sid # active
        BY <2>4 DEF For
      <4>3. QED
        BY <2>1, <4>1, <4>2 DEF Told, pReply, Response
    <3>2. On(toClient', up)
      BY <1>0, <1>1, <2>1, <2>4, ResponseBeside
    <3>3. ResponseOn(toClient', active', gotFinal', done', got' + InHand',
                     reply'[active'], owed'[active'], sent'[active'], Asked(active)',
                     up')
      BY <1>4, <1>11, <2>2, <2>4, <3>1, <3>2
    <3>4. QED
      BY <1>2, <3>3
  <2>5. CASE InCall /\ For(f, active, Response)
    <3>1. /\ reply \in [Streams -> {"none", "open", "ended"}]
          /\ owed \in [Streams -> Nat] /\ sent \in [Streams -> Nat]
          /\ active \in Streams /\ f.sid = active /\ f.type \in Response /\ f.n \in Nat
      BY <1>0, <2>5 DEF TypeInv, TypeOK, PeerOK, For, Frames
    <3>2. /\ sent'[active] = sent[active] + (IF f.type = "data" THEN f.n ELSE 0)
          /\ \/ f.type = "info" /\ reply[active] = "none" /\ reply'[active] = "none"
             \/ f.type = "final" /\ reply[active] = "none"
                  /\ reply'[active] = IF f.end THEN "ended" ELSE "open"
             \/ f.type = "data" /\ reply[active] = "open"
                  /\ reply'[active] = IF f.end THEN "ended" ELSE "open"
             \/ f.type \in {"trailers", "reset"} /\ reply[active] \in {"none", "open"}
                  /\ reply'[active] = "ended"
                  /\ (f.type = "trailers" => f.end /\ reply[active] = "open")
      <4>1. CASE f.type = "data"
        BY <2>1, <3>1, <4>1 DEF Told, pReply
      <4>2. CASE f.type # "data"
        <5>1. sent'[active] = sent[active] + 0
          BY <2>1, <3>1, <4>2 DEF Told, pReply, Response
        <5>2. QED
          BY <2>1, <3>1, <4>2, <5>1 DEF Told, pReply, Response
      <4>3. QED
        BY <4>1, <4>2
    <3>3. ResponseOn(toClient', active, gotFinal, done, got + InHand,
                     reply'[active], owed'[active], sent'[active], Asked(active), TRUE)
      <4> DEFINE had == got + InHand
                 rep == reply[active]
                 ow == owed[active]
                 total == sent[active]
                 rp == reply'[active]
                 op == owed'[active]
                 tt == sent'[active]
                 ask == Asked(active)
      <4>1. /\ had \in Nat /\ total \in Nat
            /\ ResponseOn(toClient, active, gotFinal, done, had, rep, ow, total, ask,
                          TRUE)
        <5>1. up = TRUE
          BY <1>0, <2>2
        <5>2. QED
          BY <1>0, <1>1, <2>5, <5>1
      <4>2. /\ tt = total + (IF f.type = "data" THEN f.n ELSE 0)
            /\ \/ f.type = "info" /\ rep = "none" /\ rp = "none"
               \/ f.type = "final" /\ rep = "none"
                    /\ rp = IF f.end THEN "ended" ELSE "open"
               \/ f.type = "data" /\ rep = "open"
                    /\ rp = IF f.end THEN "ended" ELSE "open"
               \/ f.type \in {"trailers", "reset"} /\ rep \in {"none", "open"}
                    /\ rp = "ended" /\ (f.type = "trailers" => f.end /\ rep = "open")
        BY <3>2
      <4> HIDE DEF had, rep, ow, total, rp, op, tt, ask
      <4>3. ResponseOn(Append(toClient, f), active, gotFinal, done, had, rp, op, tt, ask,
                       TRUE)
        BY <1>0, <2>5, <4>1, <4>2, ResponseTold
      <4>4. QED
        BY <2>1, <4>3 DEF had, rp, op, tt, ask
    <3>4. ResponseOn(toClient', active', gotFinal', done', got' + InHand',
                     reply'[active'], owed'[active'], sent'[active'], Asked(active)',
                     up')
      <4>1. up' = TRUE
        BY <1>0, <2>2
      <4>2. QED
        BY <1>4, <1>11, <2>2, <2>5, <3>3, <4>1
    <3>5. QED
      BY <1>2, <3>4
  <2>6. QED
    BY <2>3, <2>4, <2>5
<1>14. CASE Cut
  <2>1. /\ UNCHANGED <<callVars, active, reply, owed, sent>> /\ up' = FALSE
        /\ \E m \in 0..Len(toClient) : toClient' = SubSeq(toClient, 1, m)
    BY <1>14 DEF Cut, connVars, peerVars, pReply
  <2>2. RepliesOn(toClient, reply, owed, Asking)
    BY ReplyInvIs
  <2>3. InCall => On(toClient', FALSE)
    BY <1>0, <1>1, <2>1, <2>2, ResponseCut DEF RepliesOn
  <2>4. QED
    BY <1>2, <1>5, <1>11, <2>1, <2>3
<1>15. CASE UNCHANGED vars
  <2>1. UNCHANGED <<callVars, active, reply, owed, sent, toClient, up>>
    BY <1>15 DEF vars, connVars, linkVars, peerVars, pReply
  <2>2. QED
    BY <1>1, <1>2, <1>5, <1>11, <2>1
<1>16. QED
  BY <1>6, <1>7, <1>8, <1>9, <1>10, <1>12, <1>13, <1>14, <1>15, Steps

-----------------------------------------------------------------------------
(* CreditInv: the connection and the stream.                               *)

\* Frames that spend no credit and acknowledge nothing.
Plain(f) == f \in Frames /\ f.type \notin {"data", "ack"}
Beside == \/ toPeer' = toPeer
          \/ \E f : Plain(f) /\ toPeer' = Append(toPeer, f)
          \/ \E f, g : Plain(f) /\ Plain(g) /\ toPeer' = Append(Append(toPeer, f), g)

\* What is written besides a chunk of the request.
LEMMA PlainWritten ==
  ASSUME TypeInv, \/ \E k \in Kinds, b \in Bodies : Post(k, b)
                  \/ ReadAny \/ Accept \/ Quiet \/ Tells
  PROVE  Beside \/ (ReadAny /\ up /\ toClient[1].type = "settings"
                      /\ toPeer' = Append(toPeer, Ack))
<1>1. CASE \E k \in Kinds, b \in Bodies : Post(k, b)
  <2>1. PICK k \in Kinds, b \in Bodies : Post(k, b)
    BY <1>1
  <2> DEFINE f == Frame("headers", sid, 0, b = 0)
  <2>2. f \in Frames /\ Sent(f) /\ f.type = "headers"
    BY <2>1, SentFrame DEF Frame
  <2> HIDE DEF f
  <2>3. Plain(f) /\ (toPeer' = toPeer \/ toPeer' = Append(toPeer, f))
    BY <2>2 DEF Plain, Sent
  <2>4. QED
    BY <2>3 DEF Beside
<1>2. CASE ReadAny
  <2>1. Plain(Pong)
    BY AckPong DEF Plain
  <2>2. QED
    BY <1>2, <2>1, ReadWires DEF Sent, Beside
<1>3. CASE Accept
  <2> DEFINE f == Frame("update", active, credit, FALSE)
             g == Frame("update", 0, credit, FALSE)
  <2>1. /\ f \in Frames /\ g \in Frames
        /\ \/ toPeer' = toPeer
           \/ toPeer' = Append(toPeer, g)
           \/ toPeer' = Append(Append(toPeer, f), g)
    BY <1>3, WriteUpdates
  <2>2. f.type = "update" /\ g.type = "update"
    BY DEF Frame
  <2> HIDE DEF f, g
  <2>3. Plain(f) /\ Plain(g)
    BY <2>1, <2>2 DEF Plain
  <2>4. QED
    BY <2>1, <2>3 DEF Beside
<1>4. CASE Quiet \/ Tells
  BY <1>4, QuietWires, TellsQuietly DEF Beside
<1>5. QED
  BY <1>1, <1>2, <1>3, <1>4

\* Other frames carry no data.
LEMMA PlainCarries ==
  ASSUME NEW f, f.type # "data", NEW ids
  PROVE  Carries(f, "data", ids) = 0
BY DEF Carries

\* Nor do they change the data on its way.
LEMMA DataKept ==
  ASSUME TypeInv, \/ Beside \/ toPeer' = Append(toPeer, Ack)
  PROVE  \A ids : Bytes(toPeer', "data", ids) = Bytes(toPeer, "data", ids)
<1> SUFFICES ASSUME NEW ids
             PROVE  Bytes(toPeer', "data", ids) = Bytes(toPeer, "data", ids)
  OBVIOUS
<1>1. ASSUME NEW w \in Seq(Frames), NEW f \in Frames, f.type # "data"
      PROVE  /\ Bytes(Append(w, f), "data", ids) = Bytes(w, "data", ids)
             /\ Append(w, f) \in Seq(Frames)
  <2>1. Bytes(Append(w, f), "data", ids) = Bytes(w, "data", ids) + Carries(f, "data", ids)
    BY Put
  <2>2. Carries(f, "data", ids) = 0
    BY <1>1, PlainCarries
  <2>3. Bytes(w, "data", ids) \in Nat
    <3>1. 0 \in 0..Len(w)
      OBVIOUS
    <3>2. QED
      BY <3>1, BytesType
  <2>4. QED
    BY <2>1, <2>2, <2>3
<1>2. toPeer \in Seq(Frames)
  BY Numbers
<1>3. Ack \in Frames /\ Ack.type # "data"
  BY AckPong
<1>4. \A f : Plain(f) => f \in Frames /\ f.type # "data"
  BY DEF Plain
<1>5. CASE toPeer' = toPeer
  BY <1>5
<1>6. CASE \E f : Plain(f) /\ toPeer' = Append(toPeer, f)
  BY <1>1, <1>2, <1>4, <1>6
<1>7. CASE \E f, g : Plain(f) /\ Plain(g) /\ toPeer' = Append(Append(toPeer, f), g)
  <2>1. PICK f, g : Plain(f) /\ Plain(g) /\ toPeer' = Append(Append(toPeer, f), g)
    BY <1>7
  <2>2. /\ Bytes(Append(toPeer, f), "data", ids) = Bytes(toPeer, "data", ids)
        /\ Append(toPeer, f) \in Seq(Frames)
    BY <1>1, <1>2, <1>4, <2>1
  <2>3. Bytes(toPeer', "data", ids) = Bytes(Append(toPeer, f), "data", ids)
    BY <1>1, <1>4, <2>1, <2>2
  <2>4. QED
    BY <2>2, <2>3
<1>8. CASE toPeer' = Append(toPeer, Ack)
  BY <1>1, <1>2, <1>3, <1>8
<1>9. QED
  BY <1>5, <1>6, <1>7, <1>8 DEF Beside

\* What a cut leaves of a sum.
LEMMA CutLess ==
  ASSUME TypeInv, Cut \/ Close, NEW type, NEW ids
  PROVE  /\ Bytes(toPeer', type, ids) = 0
         /\ Bytes(toClient', type, ids) <= Bytes(toClient, type, ids)
         /\ Bytes(toClient', type, ids) \in Nat
<1>1. toPeer' = <<>> /\ toClient \in Seq(Frames) /\ Bytes(toClient, type, ids) \in Nat
  BY Numbers DEF Cut, Close
<1>2. CASE Close
  <2>1. toClient' = <<>>
    BY <1>2 DEF Close
  <2>2. QED
    BY <1>1, <2>1, BytesEmpty
<1>3. CASE Cut
  <2>1. PICK m \in 0..Len(toClient) : toClient' = SubSeq(toClient, 1, m)
    BY <1>3 DEF Cut
  <2>2. /\ toClient' \in Seq(Frames)
        /\ Bytes(toClient', type, ids) <= Bytes(toClient, type, ids)
    BY <1>1, <2>1, BytesCut
  <2>3. 0 \in 0..Len(toClient')
    BY <2>2
  <2>4. QED
    BY <1>1, <2>2, <2>3, BytesType, BytesEmpty
<1>4. QED
  BY <1>2, <1>3

\* The DATA frame that is sent.
LEMMA ChunkSent ==
  ASSUME TypeInv, CallInv, SendChunk
  PROVE  \E n \in Nat, f \in Frames :
           /\ f.type = "data" /\ f.sid = active /\ f.n = n /\ Sent(f)
           /\ active \in Streams
           /\ n <= sendWin /\ n <= connWin /\ sendDebt = 0 /\ sendWin > 0
           /\ sendWin' = sendWin - n /\ connWin' = connWin - n
           /\ UNCHANGED <<initWin, sendDebt, active, toClient, up, peerVars>>
<1> DEFINE n == Smaller(Smaller(Avail, left), MaxSend)
           f == Frame("data", active, n, n = left)
<1>1. active # 0 /\ active \in Streams
  BY Numbers DEF SendChunk, CallInv, InCall
<1>2. f \in Frames /\ Sent(f) /\ n \in Nat
  BY <1>1, SentFrame
<1>3. f.type = "data" /\ f.sid = active /\ f.n = n
  BY DEF Frame
<1>4. n <= sendWin /\ n <= connWin /\ sendDebt = 0 /\ sendWin > 0
  <2>1. /\ sendWin \in 0..MaxWindow /\ connWin \in 0..MaxWindow /\ MaxWindow \in Nat
        /\ sendDebt \in Nat /\ left \in Nat /\ MaxSend \in Nat
    BY Numbers, WindowAssumption
  <2>2. Avail > 0 /\ (sendDebt > 0 => sendWin = 0)
    BY DEF SendChunk, CallInv
  <2>3. sendWin > 0
    BY <2>1, <2>2 DEF Avail, Smaller
  <2>4. n <= sendWin /\ n <= connWin
    BY <2>1 DEF Avail, Smaller
  <2>5. QED
    BY <2>1, <2>2, <2>3, <2>4
<1>5. /\ sendWin' = sendWin - n /\ connWin' = connWin - n
      /\ UNCHANGED <<initWin, sendDebt, active, toClient, up, peerVars>>
  BY DEF SendChunk, connVars
<1> HIDE DEF n, f
<1>6. QED
  BY <1>1, <1>2, <1>3, <1>4, <1>5

\* The bytes on their way once a frame is written.
LEMMA SentBytes ==
  ASSUME TypeInv, NEW f \in Frames, Sent(f)
  PROVE  \A type, ids :
           Bytes(toPeer', type, ids) = IF up THEN Bytes(toPeer, type, ids)
                                                    + Carries(f, type, ids)
                                       ELSE Bytes(toPeer, type, ids)
BY Numbers, Put, SMTT(30) DEF Sent

\* A sum that is as large as what the other side granted, or less once frames
\* are lost.
Balanced(mine, sentOn, backOn, theirs, link) ==
  mine + sentOn + backOn <= theirs /\ (link => mine + sentOn + backOn = theirs)

\* The connection keeps its balance.
LEMMA ConnStep ==
  ASSUME TypeInv, CallInv, CreditInv, ~Does("overgrant"), Next
  PROVE  /\ pConn' <= MaxWindow
         /\ Balanced(connWin', DataOn(toPeer'), UpdatesOn(toClient', 0), pConn', up')
<1> DEFINE x == connWin
           p == DataOn(toPeer)
           u == UpdatesOn(toClient, 0)
           q == pConn
           x1 == connWin'
           p1 == DataOn(toPeer')
           u1 == UpdatesOn(toClient', 0)
           q1 == pConn'
<1>1. /\ x \in Nat /\ p \in Nat /\ u \in Nat /\ q \in Int /\ MaxWindow \in Nat
      /\ q <= MaxWindow /\ up \in BOOLEAN
      /\ toPeer \in Seq(Frames) /\ toClient \in Seq(Frames)
  <2>1. connWin \in 0..MaxWindow /\ MaxWindow \in Nat
    BY Numbers
  <2>2. /\ p \in Nat /\ u \in Nat /\ q \in Int
        /\ toPeer \in Seq(Frames) /\ toClient \in Seq(Frames)
    BY Numbers
  <2>3. q <= MaxWindow /\ up \in BOOLEAN
    BY DEF CreditInv, TypeInv, TypeOK, PeerOK
  <2>4. QED
    BY <2>1, <2>2, <2>3
<1>2. Balanced(x, p, u, q, up)
  BY DEF CreditInv, SendCreditExact, Balanced
<1>3. ASSUME x1 = x, p1 = p, u1 = u, q1 = q, up' = up
      PROVE  q1 <= MaxWindow /\ Balanced(x1, p1, u1, q1, up')
  BY <1>1, <1>2, <1>3
<1>4. ASSUME toClient' = toClient PROVE u1 = u
  BY <1>4
<1>5. ASSUME toPeer' = toPeer PROVE p1 = p
  BY <1>5
<1>6. ASSUME Beside \/ toPeer' = Append(toPeer, Ack) PROVE p1 = p
  BY <1>6, DataKept DEF DataOn
<1>7. CASE \E k \in Kinds, b \in Bodies : Post(k, b)
  <2>1. UNCHANGED <<connWin, toClient, up, pConn>>
    BY <1>7 DEF Post, peerVars, pSend
  <2>2. p1 = p
    BY <1>6, <1>7, PlainWritten
  <2>3. QED
    BY <1>3, <1>4, <2>1, <2>2
<1>8. CASE SendChunk
  <2>1. PICK n \in Nat, f \in Frames :
          /\ f.type = "data" /\ f.sid = active /\ f.n = n /\ Sent(f)
          /\ active \in Streams /\ connWin' = connWin - n
          /\ UNCHANGED <<toClient, up, peerVars>>
    BY <1>8, ChunkSent
  <2>2. p1 = IF up THEN p + n ELSE p
    <3>1. Carries(f, "data", Streams) = n
      BY <2>1 DEF Carries
    <3>2. QED
      BY <2>1, <3>1, SentBytes DEF DataOn
  <2>3. x1 = x - n /\ u1 = u /\ q1 = q /\ up' = up
    BY <2>1 DEF peerVars, pSend
  <2> HIDE DEF x, p, u, q, x1, p1, u1, q1
  <2>4. q1 <= MaxWindow /\ Balanced(x1, p1, u1, q1, up')
    BY <1>1, <1>2, <2>2, <2>3 DEF Balanced
  <2>5. QED
    BY <2>4 DEF x, p, u, q, x1, p1, u1, q1
<1>9. CASE ReadAny
  <2> DEFINE f == toClient[1]
  <2>1. /\ toClient # <<>> /\ toClient' = Tail(toClient) /\ f \in Arrived
        /\ f \in Frames /\ ToClientFrame(f) /\ f.n \in Nat
        /\ up' = up /\ pConn' = pConn
    <3>1. /\ toClient # <<>> /\ toClient' = Tail(toClient) /\ f \in Arrived /\ Reading
          /\ UNCHANGED peerVars
      BY <1>9, ReadWires, ClientLeavesPeer
    <3>2. up' = up
      BY <1>9, <3>1, ClientLeavesPeer DEF Close, Reading
    <3>3. f \in Frames /\ ToClientFrame(f)
      BY <3>1, Arrival
    <3>4. QED
      BY <3>1, <3>2, <3>3 DEF peerVars, pSend, Frames
  <2>2. p1 = p
    BY <1>6, <1>9, PlainWritten
  <2>3. u1 = u - Carries(f, "update", {0})
    BY <1>1, <2>1, Taken DEF UpdatesOn
  <2>4. CASE f.type = "update" /\ f.sid = 0
    <3>1. Carries(f, "update", {0}) = f.n
      BY <2>4 DEF Carries
    <3>2. x1 = x + f.n
      <4>1. f.n > 0
        BY <2>1, <2>4 DEF ToClientFrame
      <4>2. connWin + f.n <= MaxWindow
        BY <2>1, <2>4, NoOverflow
      <4>3. QED
        BY <1>9, <2>4, <4>1, <4>2, ReadCredit
    <3>3. q1 = q
      BY <2>1
    <3> DEFINE n == f.n
    <3>4. x1 = x + n /\ u1 = u - n /\ n \in Nat /\ p1 = p /\ q1 = q /\ up' = up
      BY <2>1, <2>2, <2>3, <3>1, <3>2, <3>3
    <3> HIDE DEF x, p, u, q, x1, p1, u1, q1, n
    <3>5. q1 <= MaxWindow /\ Balanced(x1, p1, u1, q1, up')
      BY <1>1, <1>2, <3>4 DEF Balanced
    <3>6. QED
      BY <3>5 DEF x, p, u, q, x1, p1, u1, q1
  <2>5. CASE ~(f.type = "update" /\ f.sid = 0)
    <3>1. Carries(f, "update", {0}) = 0
      BY <2>5 DEF Carries
    <3>2. x1 = x
      BY <1>9, <2>5, ReadCredit DEF sendVars
    <3>3. u1 = u
      <4> HIDE DEF u, u1
      <4>1. QED
        BY <1>1, <2>3, <3>1
    <3>4. QED
      BY <1>3, <2>1, <2>2, <3>2, <3>3
  <2>6. QED
    BY <2>4, <2>5
<1>10. CASE Accept
  <2>1. UNCHANGED <<connWin, toClient, up, pConn>>
    BY <1>10 DEF Accept, peerVars, pSend, sendVars
  <2>2. p1 = p
    BY <1>6, <1>10, PlainWritten
  <2>3. QED
    BY <1>3, <1>4, <2>1, <2>2
<1>11. CASE Quiet \/ UNCHANGED vars
  <2>1. UNCHANGED <<toPeer, toClient, up, pConn>>
    BY <1>11, QuietWires DEF vars, linkVars, peerVars, pSend
  <2>2. connWin' = connWin
    BY <1>11 DEF vars, sendVars, Quiet, Refuse, Complete, LinkFails, PostUnsent,
       PostRefused
  <2>3. QED
    BY <1>3, <1>4, <1>5, <2>1, <2>2
<1>12. CASE Close \/ Cut
  <2>1. UNCHANGED <<connWin, pConn>> /\ up' = FALSE
    BY <1>12 DEF Close, Cut, sendVars, peerVars, pSend
  <2>2. p1 = 0 /\ u1 <= u /\ u1 \in Nat
    BY <1>12, CutLess DEF DataOn, UpdatesOn
  <2>3. x1 = x /\ q1 = q
    BY <2>1
  <2> HIDE DEF x, p, u, q, x1, p1, u1, q1
  <2>4. q1 <= MaxWindow /\ Balanced(x1, p1, u1, q1, up')
    BY <1>1, <1>2, <2>1, <2>2, <2>3 DEF Balanced
  <2>5. QED
    BY <2>4 DEF x, p, u, q, x1, p1, u1, q1
<1>13. CASE PeerReads
  <2> DEFINE f == toPeer[1]
  <2>1. /\ toPeer # <<>> /\ toPeer' = Tail(toPeer) /\ f.n \in Nat /\ Heard(f)
        /\ up' = up /\ connWin' = connWin
    BY <1>13, PeerReadsCases DEF sendVars
  <2>2. p1 = p - Carries(f, "data", Streams)
    BY <1>1, <2>1, Taken DEF DataOn
  <2>3. u1 = u
    <3>1. toClient' = toClient \/ toClient' = Append(toClient, Ack)
      BY <2>1 DEF Heard
    <3>2. Carries(Ack, "update", {0}) = 0 /\ Ack \in Frames
      BY AckPong DEF Carries
    <3>3. Bytes(Append(toClient, Ack), "update", {0}) = u + 0
      BY <1>1, <3>2, Put DEF UpdatesOn
    <3>4. UpdatesOn(Append(toClient, Ack), 0) = u
      <4>1. UpdatesOn(Append(toClient, Ack), 0) = u + 0
        BY <3>3 DEF UpdatesOn
      <4> HIDE DEF u
      <4>2. QED
        BY <1>1, <4>1
    <3>5. QED
      BY <3>1, <3>4
  <2>4. CASE f.type = "data"
    <3> DEFINE n == f.n
    <3>1. f.sid \in Streams /\ pConn' = pConn - f.n
      BY <2>1, <2>4 DEF Heard
    <3>2. Carries(f, "data", Streams) = f.n
      BY <2>4, <3>1 DEF Carries
    <3>3. x1 = x /\ p1 = p - n /\ u1 = u /\ q1 = q - n /\ n \in Nat /\ up' = up
      BY <2>1, <2>2, <2>3, <3>1, <3>2
    <3> HIDE DEF x, p, u, q, x1, p1, u1, q1, n
    <3>4. q1 <= MaxWindow /\ Balanced(x1, p1, u1, q1, up')
      BY <1>1, <1>2, <3>3 DEF Balanced
    <3>5. QED
      BY <3>4 DEF x, p, u, q, x1, p1, u1, q1
  <2>5. CASE f.type # "data"
    <3>1. pConn' = pConn
      BY <2>1, <2>5 DEF Heard, pSend
    <3>2. Carries(f, "data", Streams) = 0
      BY <2>5, PlainCarries
    <3>3. p1 = p
      <4> HIDE DEF p, p1
      <4>1. QED
        BY <1>1, <2>2, <3>2
    <3>4. QED
      BY <1>3, <2>1, <2>3, <3>1, <3>3
  <2>6. QED
    BY <2>4, <2>5
<1>14. CASE Tells
  <2>1. PICK f \in Frames : toClient' = Append(toClient, f) /\ Told(f)
    BY <1>14, TellsCases
  <2>2. UNCHANGED <<up, toPeer, connWin>>
    BY <1>14, TellsCases DEF sendVars
  <2>3. u1 = u + Carries(f, "update", {0})
    BY <1>1, <2>1, Put DEF UpdatesOn
  <2>4. CASE f.type = "update" /\ f.sid = 0
    <3>1. pConn + f.n <= MaxWindow /\ pConn' = pConn + f.n
      BY <2>1, <2>4 DEF Told, Streams
    <3>2. Carries(f, "update", {0}) = f.n /\ f.n \in Nat
      BY <2>4 DEF Carries, Frames
    <3> DEFINE n == f.n
    <3>3. /\ x1 = x /\ p1 = p /\ u1 = u + n /\ q1 = q + n /\ n \in Nat
          /\ q + n <= MaxWindow /\ up' = up
      BY <2>2, <2>3, <3>1, <3>2
    <3> HIDE DEF x, p, u, q, x1, p1, u1, q1, n
    <3>4. q1 <= MaxWindow /\ Balanced(x1, p1, u1, q1, up')
      BY <1>1, <1>2, <3>3 DEF Balanced
    <3>5. QED
      BY <3>4 DEF x, p, u, q, x1, p1, u1, q1
  <2>5. CASE ~(f.type = "update" /\ f.sid = 0)
    <3>1. pConn' = pConn
      BY <2>1, <2>5 DEF Told, pSend
    <3>2. Carries(f, "update", {0}) = 0
      BY <2>5 DEF Carries
    <3>3. u1 = u
      <4> HIDE DEF u, u1
      <4>1. QED
        BY <1>1, <2>3, <3>2
    <3>4. QED
      BY <1>3, <2>2, <3>1, <3>3
  <2>6. QED
    BY <2>4, <2>5
<1>15. QED
  BY <1>7, <1>8, <1>9, <1>10, <1>11, <1>12, <1>13, <1>14, Steps

\* Nothing is on its way of a stream that was never opened.
LEMMA NothingFresh ==
  ASSUME TypeInv, Fresh, ~Does("overgrant"), sid \in Streams
  PROVE  /\ StreamDataOn(toPeer, sid) = 0 /\ UpdatesOn(toClient, sid) = 0
         /\ granted[sid] = 0
<1>1. sid \in Nat /\ toPeer \in Seq(Frames) /\ toClient \in Seq(Frames)
  BY Numbers DEF Streams
<1>2. \A i \in 1..Len(toPeer) : Carries(toPeer[i], "data", {sid}) = 0
  BY <1>1 DEF Fresh, Carries
<1>3. \A i \in 1..Len(toClient) : Carries(toClient[i], "update", {sid}) = 0
  BY <1>1 DEF Fresh, Carries
<1>4. granted[sid] = 0
  BY <1>1 DEF Fresh
<1>5. QED
  BY <1>1, <1>2, <1>3, <1>4, BytesNone DEF StreamDataOn, UpdatesOn

\* Except by a request, the stream of the call is kept or given up.
LEMMA ActiveKept ==
  ASSUME TypeInv, CallInv, CreditInv, Next,
         ~ \E k \in Kinds : PostUnsent(k) \/ \E b \in Bodies : Post(k, b)
  PROVE  active' \in {0, active}
<1>1. CASE ReadAny
  BY <1>1, ReadCall DEF GoesOn, Stops
<1>2. CASE SendChunk \/ Accept \/ Close \/ Cut \/ UNCHANGED vars
  BY <1>2 DEF SendChunk, Accept, Close, Cut, vars, connVars
<1>3. CASE Quiet
  BY <1>3 DEF Quiet, Refuse, Complete, LinkFails, Fails, PostRefused
<1>4. CASE PeerReads \/ Tells
  BY <1>4, PeerReadsCases, TellsCases DEF connVars
<1>5. QED
  BY <1>1, <1>2, <1>3, <1>4, Steps

\* The stream keeps its balance.
LEMMA StreamStep ==
  ASSUME TypeInv, CallInv, CreditInv, Fresh, ~Does("overgrant"), Next, active' # 0
  PROVE  Balanced(sendWin' - sendDebt' - initWin', StreamDataOn(toPeer', active'),
                  UpdatesOn(toClient', active'), granted'[active'], up')
<1> DEFINE x == sendWin - sendDebt - initWin
           p == StreamDataOn(toPeer, active)
           u == UpdatesOn(toClient, active)
           q == granted[active]
           x1 == sendWin' - sendDebt' - initWin'
           p1 == StreamDataOn(toPeer', active')
           u1 == UpdatesOn(toClient', active')
           q1 == granted'[active']
<1>1. CASE \E k \in Kinds : PostUnsent(k) \/ \E b \in Bodies : Post(k, b)
  <2>1. PICK k \in Kinds : PostUnsent(k) \/ \E b \in Bodies : Post(k, b)
    BY <1>1
  <2>2. /\ active' = sid /\ sid \in Streams /\ sendWin' = initWin /\ sendDebt' = 0
        /\ initWin' = initWin /\ toClient' = toClient /\ UNCHANGED peerVars
    BY <2>1 DEF PostUnsent, Post, linkVars
  <2>3. Beside
    <3>1. CASE PostUnsent(k)
      BY <3>1 DEF PostUnsent, linkVars, Beside
    <3>2. CASE \E b \in Bodies : Post(k, b)
      <4>1. ~ReadAny
        <5>1. at = "idle"
          BY <3>2 DEF Post
        <5>2. QED
          BY <5>1, ReadWires DEF Reading
      <4>2. QED
        BY <3>2, <4>1, PlainWritten
    <3>3. QED
      BY <2>1, <3>1, <3>2
  <2>4. p1 = 0
    <3>1. StreamDataOn(toPeer', sid) = StreamDataOn(toPeer, sid)
      BY <2>3, DataKept DEF StreamDataOn
    <3>2. QED
      BY <2>2, <3>1, NothingFresh
  <2>5. u1 = 0 /\ q1 = 0
    BY <2>2, NothingFresh DEF peerVars, pSend
  <2>6. x1 = 0
    <3>1. initWin \in 0..MaxWindow /\ MaxWindow \in Nat
      BY Numbers
    <3>2. initWin \in Nat
      BY <3>1
    <3>3. QED
      BY <2>2, <3>2
  <2> HIDE DEF x1, p1, u1, q1
  <2>7. Balanced(x1, p1, u1, q1, up')
    BY <2>4, <2>5, <2>6 DEF Balanced
  <2>8. QED
    BY <2>7 DEF x1, p1, u1, q1
<1>2. CASE ~ \E k \in Kinds : PostUnsent(k) \/ \E b \in Bodies : Post(k, b)
  <2>0. active' = active /\ active # 0 /\ active \in Streams
    BY <1>2, ActiveKept, Numbers
  <2>1. /\ x \in Int /\ p \in Nat /\ u \in Nat /\ q \in Int /\ up \in BOOLEAN
        /\ toPeer \in Seq(Frames) /\ toClient \in Seq(Frames)
        /\ sendWin \in Nat /\ sendDebt \in Nat /\ initWin \in Nat
    <3>1. /\ sendWin \in 0..MaxWindow /\ initWin \in 0..MaxWindow /\ MaxWindow \in Nat
          /\ sendDebt \in Nat /\ p \in Nat /\ u \in Nat /\ q \in Int
          /\ toPeer \in Seq(Frames) /\ toClient \in Seq(Frames)
      BY <2>0, Numbers
    <3>2. up \in BOOLEAN
      BY DEF TypeInv, TypeOK, PeerOK
    <3>3. sendWin \in Nat /\ initWin \in Nat
      BY <3>1
    <3>4. QED
      BY <3>1, <3>2, <3>3
  <2>2. Balanced(x, p, u, q, up)
    BY <2>0 DEF CreditInv, SendCreditExact, Balanced
  <2>3. ASSUME x1 = x, p1 = p, u1 = u, q1 = q, up' = up
        PROVE  Balanced(x1, p1, u1, q1, up')
    BY <2>2, <2>3
  <2>4. ASSUME toClient' = toClient PROVE u1 = u
    BY <2>0, <2>4
  <2>5. ASSUME toPeer' = toPeer PROVE p1 = p
    BY <2>0, <2>5
  <2>6. ASSUME Beside \/ toPeer' = Append(toPeer, Ack) PROVE p1 = p
    BY <2>0, <2>6, DataKept DEF StreamDataOn
  <2>7. CASE SendChunk
    <3>1. PICK n \in Nat, f \in Frames :
            /\ f.type = "data" /\ f.sid = active /\ f.n = n /\ Sent(f)
            /\ sendWin' = sendWin - n
            /\ UNCHANGED <<initWin, sendDebt, active, toClient, up, peerVars>>
      BY <2>7, ChunkSent
    <3>2. p1 = IF up THEN p + n ELSE p
      <4>1. Carries(f, "data", {active}) = n
        BY <3>1 DEF Carries
      <4>2. QED
        BY <2>0, <3>1, <4>1, SentBytes DEF StreamDataOn
    <3>3. x1 = x - n /\ u1 = u /\ q1 = q /\ up' = up
      <4>1. x1 = (sendWin - n) - sendDebt - initWin
        BY <3>1
      <4>2. x1 = x - n
        BY <2>1, <3>1, <4>1
      <4>3. QED
        BY <2>0, <3>1, <4>2 DEF peerVars, pSend
    <3> HIDE DEF x, p, u, q, x1, p1, u1, q1
    <3>4. Balanced(x1, p1, u1, q1, up')
      BY <2>1, <2>2, <3>2, <3>3 DEF Balanced
    <3>5. QED
      BY <3>4 DEF x, p, u, q, x1, p1, u1, q1
  <2>8. CASE ReadAny
    <3> DEFINE f == toClient[1]
    <3>1. /\ toClient # <<>> /\ toClient' = Tail(toClient) /\ f \in Arrived
          /\ f \in Frames /\ ToClientFrame(f) /\ f.n \in Nat
          /\ up' = up /\ q1 = q
      <4>1. /\ toClient # <<>> /\ toClient' = Tail(toClient) /\ f \in Arrived /\ Reading
            /\ UNCHANGED peerVars
        BY <2>8, ReadWires, ClientLeavesPeer
      <4>2. up' = up
        BY <2>8, <4>1, ClientLeavesPeer DEF Close, Reading
      <4>3. f \in Frames /\ ToClientFrame(f)
        BY <4>1, Arrival
      <4>4. QED
        BY <2>0, <4>1, <4>2, <4>3 DEF peerVars, pSend, Frames
    <3>2. p1 = p
      BY <2>6, <2>8, PlainWritten
    <3>3. u1 = u - Carries(f, "update", {active})
      BY <2>0, <2>1, <3>1, Taken DEF UpdatesOn
    <3>4. CASE f.type = "update" /\ f.sid = active
      <4>1. Carries(f, "update", {active}) = f.n
        BY <3>4 DEF Carries
      <4>2. f.n > 0 /\ f.sid # 0
        BY <2>0, <3>1, <3>4 DEF ToClientFrame
      <4>3. ~Overflows(f.n)
        BY <3>1, <3>4, <4>2, NoOverflow
      <4>4. AddStreamCredit(f.n) /\ initWin' = initWin
        BY <2>8, <3>4, <4>2, ReadCredit
      <4>5. sendWin' - sendDebt' = sendWin - sendDebt + f.n
        BY <3>1, <4>3, <4>4, Credits
      <4> DEFINE n == f.n
                 y == sendWin - sendDebt
                 y1 == sendWin' - sendDebt'
      <4>6. x1 = x + n
        <5>1. x = y - initWin /\ x1 = y1 - initWin
          BY <4>4
        <5>2. y1 = y + n /\ y \in Int /\ n \in Nat
          BY <2>1, <3>1, <4>5
        <5> HIDE DEF x, x1, y, y1, n
        <5>3. QED
          BY <2>1, <5>1, <5>2
      <4>7. x1 = x + n /\ u1 = u - n /\ n \in Nat /\ p1 = p /\ q1 = q /\ up' = up
        BY <3>1, <3>2, <3>3, <4>1, <4>6
      <4> HIDE DEF x, p, u, q, x1, p1, u1, q1, n
      <4>8. Balanced(x1, p1, u1, q1, up')
        BY <2>1, <2>2, <4>7 DEF Balanced
      <4>9. QED
        BY <4>8 DEF x, p, u, q, x1, p1, u1, q1
    <3>5. CASE ~(f.type = "update" /\ f.sid = active)
      <4>1. Carries(f, "update", {active}) = 0
        BY <3>5 DEF Carries
      <4>2. u1 = u
        <5> HIDE DEF u, u1
        <5>1. QED
          BY <2>1, <3>3, <4>1
      <4>3. CASE f.type = "settings"
        <5>1. f.n < initWin \/ ~Overflows(f.n - initWin)
          BY <3>1, <4>3, NoOverflow
        <5>2. /\ IF f.n >= initWin THEN AddStreamCredit(f.n - initWin)
                                   ELSE TakeStreamCredit(initWin - f.n)
              /\ initWin' = f.n
          <6> DEFINE n == f.n
          <6>1. ~(n >= initWin /\ Overflows(n - initWin))
            BY <2>1, <3>1, <5>1
          <6>2. QED
            BY <2>8, <4>3, <6>1, ReadCredit
        <5>3. sendWin' - sendDebt' = sendWin - sendDebt + (f.n - initWin)
          <6>1. CASE f.n >= initWin
            <7>1. f.n - initWin \in Nat
              BY <2>1, <3>1, <6>1
            <7>2. ~Overflows(f.n - initWin)
              BY <2>1, <3>1, <5>1, <6>1
            <7>3. QED
              BY <5>2, <6>1, <7>1, <7>2, Credits
          <6>2. CASE ~(f.n >= initWin)
            <7>1. initWin - f.n \in Nat
              BY <2>1, <3>1, <6>2
            <7>2. sendWin' - sendDebt' = sendWin - sendDebt - (initWin - f.n)
              BY <5>2, <6>2, <7>1, Credits
            <7> DEFINE n == f.n
                       y1 == sendWin' - sendDebt'
            <7>3. n \in Nat /\ y1 = sendWin - sendDebt - (initWin - n)
              BY <3>1, <7>2
            <7> HIDE DEF n, y1
            <7>4. y1 = sendWin - sendDebt + (n - initWin)
              BY <2>1, <7>3
            <7>5. QED
              BY <7>4 DEF n, y1
          <6>3. QED
            BY <6>1, <6>2
        <5>4. x1 = x
          <6> DEFINE n == f.n
                     y == sendWin - sendDebt
                     y1 == sendWin' - sendDebt'
          <6>1. /\ x = y - initWin /\ x1 = y1 - n /\ y1 = y + (n - initWin)
                /\ y \in Int /\ n \in Nat
            BY <2>1, <3>1, <5>2, <5>3
          <6> HIDE DEF x, x1, y, y1, n
          <6>2. QED
            BY <2>1, <6>1
        <5>5. QED
          BY <2>3, <3>1, <3>2, <4>2, <5>4
      <4>4. CASE f.type # "settings"
        <5>1. UNCHANGED <<sendWin, sendDebt, initWin>>
          BY <2>8, <3>5, <4>4, ReadCredit DEF sendVars
        <5>2. x1 = x
          BY <5>1
        <5>3. QED
          BY <2>3, <3>1, <3>2, <4>2, <5>2
      <4>5. QED
        BY <4>3, <4>4
    <3>6. QED
      BY <3>4, <3>5
  <2>9. CASE Accept
    <3>1. UNCHANGED <<sendWin, sendDebt, initWin, toClient, up, granted>>
      BY <2>9 DEF Accept, peerVars, pSend, sendVars
    <3>2. p1 = p
      BY <2>6, <2>9, PlainWritten
    <3>3. x1 = x /\ q1 = q
      BY <2>0, <3>1
    <3>4. QED
      BY <2>3, <2>4, <3>1, <3>2, <3>3
  <2>10. CASE Quiet \/ UNCHANGED vars
    <3>1. UNCHANGED <<toPeer, toClient, up, granted>>
      BY <2>10, QuietWires DEF vars, linkVars, peerVars, pSend
    <3>2. UNCHANGED <<sendWin, sendDebt, initWin>>
      BY <1>2, <2>10 DEF vars, sendVars, Quiet, Refuse, Complete, LinkFails, PostRefused
    <3>3. x1 = x /\ q1 = q
      BY <2>0, <3>1, <3>2
    <3>4. QED
      BY <2>3, <2>4, <2>5, <3>1, <3>3
  <2>11. CASE Close \/ Cut
    <3>1. UNCHANGED <<sendWin, sendDebt, initWin, granted>> /\ up' = FALSE
      BY <2>11 DEF Close, Cut, sendVars, peerVars, pSend
    <3>2. p1 = 0 /\ u1 <= u /\ u1 \in Nat
      BY <2>0, <2>11, CutLess DEF StreamDataOn, UpdatesOn
    <3>3. x1 = x /\ q1 = q
      BY <2>0, <3>1
    <3> HIDE DEF x, p, u, q, x1, p1, u1, q1
    <3>4. Balanced(x1, p1, u1, q1, up')
      BY <2>1, <2>2, <3>1, <3>2, <3>3 DEF Balanced
    <3>5. QED
      BY <3>4 DEF x, p, u, q, x1, p1, u1, q1
  <2>12. CASE PeerReads
    <3> DEFINE f == toPeer[1]
    <3>1. /\ toPeer # <<>> /\ toPeer' = Tail(toPeer) /\ f.n \in Nat /\ Heard(f)
          /\ up' = up /\ UNCHANGED <<sendWin, sendDebt, initWin>>
      BY <2>12, PeerReadsCases DEF sendVars
    <3>2. p1 = p - Carries(f, "data", {active})
      BY <2>0, <2>1, <3>1, Taken DEF StreamDataOn
    <3>3. u1 = u /\ x1 = x
      <4>1. toClient' = toClient \/ toClient' = Append(toClient, Ack)
        BY <3>1 DEF Heard
      <4>2. Carries(Ack, "update", {active}) = 0 /\ Ack \in Frames
        BY AckPong DEF Carries
      <4>3. UpdatesOn(Append(toClient, Ack), active) = u + 0
        BY <2>1, <4>2, Put DEF UpdatesOn
      <4>4. UpdatesOn(Append(toClient, Ack), active) = u
        <5> HIDE DEF u
        <5>1. QED
          BY <2>1, <4>3
      <4>5. QED
        BY <2>0, <3>1, <4>1, <4>4
    <3>4. granted \in [Streams -> Int]
      BY DEF TypeInv, TypeOK, PeerOK
    <3>5. CASE f.type = "data" /\ f.sid = active
      <4> DEFINE n == f.n
      <4>1. granted' = [granted EXCEPT ![active] = @ - f.n]
        BY <3>1, <3>5 DEF Heard
      <4>2. q1 = q - n
        BY <2>0, <3>1, <3>4, <4>1, Shift
      <4>3. Carries(f, "data", {active}) = f.n
        BY <3>5 DEF Carries
      <4>4. x1 = x /\ p1 = p - n /\ u1 = u /\ q1 = q - n /\ n \in Nat /\ up' = up
        BY <3>1, <3>2, <3>3, <4>2, <4>3
      <4> HIDE DEF x, p, u, q, x1, p1, u1, q1, n
      <4>5. Balanced(x1, p1, u1, q1, up')
        BY <2>1, <2>2, <4>4 DEF Balanced
      <4>6. QED
        BY <4>5 DEF x, p, u, q, x1, p1, u1, q1
    <3>6. CASE ~(f.type = "data" /\ f.sid = active)
      <4>1. granted'[active] = granted[active]
        BY <2>0, <3>1, <3>4, <3>6 DEF Heard, pSend
      <4>2. Carries(f, "data", {active}) = 0
        BY <3>6 DEF Carries
      <4>3. p1 = p
        <5> HIDE DEF p, p1
        <5>1. QED
          BY <2>1, <3>2, <4>2
      <4>4. QED
        BY <2>0, <2>3, <3>1, <3>3, <4>1, <4>3
    <3>7. QED
      BY <3>5, <3>6
  <2>13. CASE Tells
    <3>1. PICK f \in Frames : toClient' = Append(toClient, f) /\ Told(f)
      BY <2>13, TellsCases
    <3>2. UNCHANGED <<up, toPeer, sendWin, sendDebt, initWin>>
      BY <2>13, TellsCases DEF sendVars
    <3>3. u1 = u + Carries(f, "update", {active})
      BY <2>0, <2>1, <3>1, Put DEF UpdatesOn
    <3>4. granted \in [Streams -> Int] /\ f.n \in Nat /\ 0 \notin Streams
      BY DEF TypeInv, TypeOK, PeerOK, Frames, Streams
    <3>5. x1 = x /\ p1 = p /\ up' = up
      BY <2>0, <3>2
    <3>6. CASE f.type = "update" /\ f.sid = active
      <4>1. granted' = [granted EXCEPT ![active] = @ + f.n]
        BY <2>0, <3>1, <3>6 DEF Told
      <4>2. Carries(f, "update", {active}) = f.n
        BY <3>6 DEF Carries
      <4> DEFINE n == f.n
      <4>3. q1 = q + n
        BY <2>0, <3>4, <4>1, Shift
      <4>4. x1 = x /\ p1 = p /\ u1 = u + n /\ q1 = q + n /\ n \in Nat /\ up' = up
        BY <3>3, <3>4, <3>5, <4>2, <4>3
      <4> HIDE DEF x, p, u, q, x1, p1, u1, q1, n
      <4>5. Balanced(x1, p1, u1, q1, up')
        BY <2>1, <2>2, <4>4 DEF Balanced
      <4>6. QED
        BY <4>5 DEF x, p, u, q, x1, p1, u1, q1
    <3>7. CASE ~(f.type = "update" /\ f.sid = active)
      <4>1. granted'[active] = granted[active]
        BY <2>0, <3>1, <3>4, <3>7 DEF Told, pSend
      <4>2. Carries(f, "update", {active}) = 0
        BY <3>7 DEF Carries
      <4>3. u1 = u
        <5> HIDE DEF u, u1
        <5>1. QED
          BY <2>1, <3>3, <4>2
      <4>4. QED
        BY <2>0, <2>3, <3>5, <4>1, <4>3
    <3>8. QED
      BY <3>6, <3>7
  <2>14. QED
    BY <1>2, <2>7, <2>8, <2>9, <2>10, <2>11, <2>12, <2>13, Steps
<1>3. QED
  BY <1>1, <1>2

-----------------------------------------------------------------------------
(* CreditInv: the initial windows on their way.                            *)

\* The value in force once k more are acknowledged; those that a wire carries
\* are the ones the peer waits for, behind the first a.
After(p, u, k) == IF k = 0 THEN p ELSE u[k]
Values(w, a, u) == \A i \in 1..Len(w) : w[i].type = "settings" =>
                     w[i].n = u[a + CountTo(w, "settings", i)]

\* Each frame of a type has its place among them.
LEMMA Place ==
  ASSUME NEW w \in Seq(Frames), NEW type, NEW i \in 1..Len(w)
  PROVE  /\ CountTo(w, type, i) \in Nat /\ CountTo(w, type, i) <= Count(w, type)
         /\ Count(w, type) \in Nat
         /\ w[i].type = type => CountTo(w, type, i) >= 1
<1>1. /\ CountTo(w, type, i) = CountTo(w, type, i - 1) + Is(w[i], type)
      /\ CountTo(w, type, i) \in Nat /\ CountTo(w, type, i - 1) \in Nat
      /\ CountTo(w, type, i) <= Count(w, type) /\ Count(w, type) \in Nat
  <2>1. i \in 0..Len(w) /\ i - 1 \in 0..Len(w) /\ Len(w) \in i..Len(w)
    OBVIOUS
  <2>2. BytesTo(w, type, {}, i) = BytesTo(w, type, {}, i - 1) + Carries(w[i], type, {})
        /\ CountTo(w, type, i) = CountTo(w, type, i - 1) + Is(w[i], type)
    BY BytesNext
  <2>3. /\ CountTo(w, type, i) \in Nat /\ CountTo(w, type, i - 1) \in Nat
        /\ Count(w, type) \in Nat
    BY <2>1, BytesType
  <2>4. BytesTo(w, type, {}, i) <= BytesTo(w, type, {}, Len(w))
        /\ CountTo(w, type, i) <= Count(w, type)
    BY <2>1, BytesGrow
  <2>5. QED
    BY <2>2, <2>3, <2>4
<1>2. w[i].type = type => Is(w[i], type) = 1
  BY DEF Is
<1>3. QED
  BY <1>1, <1>2

\* Places, with a frame behind the others.
LEMMA PlacePut ==
  ASSUME NEW w \in Seq(Frames), NEW f \in Frames, NEW type
  PROVE  /\ \A i \in 1..Len(w) : CountTo(Append(w, f), type, i) = CountTo(w, type, i)
         /\ CountTo(Append(w, f), type, Len(w) + 1) = Count(w, type) + Is(f, type)
<1>1. /\ \A i \in 0..Len(w) : CountTo(Append(w, f), type, i) = CountTo(w, type, i)
      /\ Count(Append(w, f), type) = Count(w, type) + Is(f, type)
      /\ Len(Append(w, f)) = Len(w) + 1
  <2> DEFINE v == Append(w, f)
  <2>1. /\ Len(v) = Len(w) + 1
        /\ \A i \in 0..Len(w) : CountTo(v, type, i) = CountTo(w, type, i)
        /\ Count(v, type) = Count(w, type) + Is(f, type)
    BY BytesAppend
  <2> HIDE DEF v
  <2>2. QED
    BY <2>1 DEF v
<1>2. QED
  BY <1>1 DEF Count

\* Places, without the first frame.
LEMMA PlaceRest ==
  ASSUME NEW w \in Seq(Frames), w # <<>>, NEW type
  PROVE  \A i \in 1..Len(Tail(w)) :
           /\ CountTo(Tail(w), type, i) = CountTo(w, type, i + 1) - Is(w[1], type)
           /\ CountTo(w, type, i + 1) \in Nat /\ Is(w[1], type) \in {0, 1}
           /\ i + 1 \in 1..Len(w)
<1> DEFINE v == Tail(w)
<1>1. /\ w[1] = Head(w) /\ \A i \in 1..Len(v) : i + 1 \in 1..Len(w) /\ i \in 0..Len(v)
      /\ \A i \in 0..Len(v) :
           CountTo(v, type, i) = CountTo(w, type, i + 1) - Is(Head(w), type)
  <2>1. /\ w[1] = Head(w) /\ Len(v) \in Nat
        /\ \A i \in 1..Len(v) : i + 1 \in 1..Len(w)
    OBVIOUS
  <2>2. \A i \in 0..Len(v) :
          CountTo(v, type, i) = CountTo(w, type, i + 1) - Is(Head(w), type)
    BY BytesTail
  <2> HIDE DEF v
  <2>3. QED
    BY <2>1, <2>2
<1>2. \A i \in 1..Len(w) : CountTo(w, type, i) \in Nat
  BY Place
<1>3. Is(w[1], type) \in {0, 1}
  BY DEF Is
<1> HIDE DEF v
<1>4. \A i \in 1..Len(v) :
         /\ CountTo(v, type, i) = CountTo(w, type, i + 1) - Is(w[1], type)
         /\ CountTo(w, type, i + 1) \in Nat /\ i + 1 \in 1..Len(w)
  BY <1>1, <1>2
<1>5. QED
  BY <1>3, <1>4 DEF v

\* Values, without the first frame.
LEMMA ValuesRest ==
  ASSUME NEW w \in Seq(Frames), w # <<>>, NEW a \in Nat, NEW u, Values(w, a, u)
  PROVE  Values(Tail(w), a + Is(w[1], "settings"), u)
<1> DEFINE v == Tail(w)
           d == Is(w[1], "settings")
<1>1. \A i \in 1..Len(v) :
         /\ CountTo(v, "settings", i) = CountTo(w, "settings", i + 1) - d
         /\ CountTo(w, "settings", i + 1) \in Nat /\ d \in {0, 1}
         /\ i + 1 \in 1..Len(w) /\ v[i] = w[i + 1]
  BY PlaceRest, Rest
<1> HIDE DEF v, d
<1> SUFFICES ASSUME NEW i \in 1..Len(v), v[i].type = "settings"
             PROVE  v[i].n = u[(a + d) + CountTo(v, "settings", i)]
  BY DEF Values, v, d
<1>2. v[i].n = u[a + CountTo(w, "settings", i + 1)]
  BY <1>1 DEF Values
<1>3. (a + d) + CountTo(v, "settings", i) = a + CountTo(w, "settings", i + 1)
  BY <1>1
<1>4. QED
  BY <1>2, <1>3

\* Values, with a frame behind the others.
LEMMA ValuesPut ==
  ASSUME NEW w \in Seq(Frames), NEW f \in Frames, NEW a \in Nat,
         NEW u \in Seq(0..MaxWindow), NEW u1, Values(w, a, u),
         \/ f.type # "settings" /\ u1 = u
         \/ /\ f.type = "settings" /\ u1 = Append(u, f.n) /\ f.n \in 0..MaxWindow
            /\ a + Count(w, "settings") = Len(u)
  PROVE  Values(Append(w, f), a, u1)
<1> DEFINE v == Append(w, f)
<1>1. /\ \A i \in 1..Len(w) : CountTo(v, "settings", i) = CountTo(w, "settings", i)
      /\ CountTo(v, "settings", Len(w) + 1) = Count(w, "settings") + Is(f, "settings")
  BY PlacePut
<1>2. /\ Len(v) = Len(w) + 1 /\ Len(w) \in Nat
      /\ \A i \in 1..Len(v) : \/ i \in 1..Len(w) /\ v[i] = w[i]
                              \/ i = Len(w) + 1 /\ v[i] = f
  BY Behind
<1> HIDE DEF v
<1> SUFFICES ASSUME NEW i \in 1..Len(v), v[i].type = "settings"
             PROVE  v[i].n = u1[a + CountTo(v, "settings", i)]
  BY DEF Values, v
<1>3. CASE i \in 1..Len(w) /\ v[i] = w[i]
  <2>1. v[i].n = u[a + CountTo(w, "settings", i)]
    BY <1>3 DEF Values
  <2>2. CASE u1 = u
    BY <1>1, <1>3, <2>1, <2>2
  <2>3. CASE /\ f.type = "settings" /\ u1 = Append(u, f.n) /\ f.n \in 0..MaxWindow
             /\ a + Count(w, "settings") = Len(u)
    <3> DEFINE k == CountTo(w, "settings", i)
    <3>1. /\ k \in Nat /\ k <= Count(w, "settings") /\ k >= 1
          /\ Count(w, "settings") \in Nat
      BY <1>3, Place
    <3>2. a + k \in 1..Len(u)
      <4> HIDE DEF k
      <4>1. QED
        BY <2>3, <3>1
    <3>3. u1[a + k] = u[a + k]
      <4> HIDE DEF k
      <4>1. QED
        BY <2>3, <3>2
    <3>4. QED
      BY <1>1, <1>3, <2>1, <3>3
  <2>4. QED
    BY <2>2, <2>3
<1>4. CASE i = Len(w) + 1 /\ v[i] = f
  <2>1. /\ u1 = Append(u, f.n) /\ f.n \in 0..MaxWindow
        /\ a + Count(w, "settings") = Len(u) /\ Is(f, "settings") = 1
    BY <1>4 DEF Is
  <2>2. Count(w, "settings") \in Nat
    <3>1. 0 \in 0..Len(w)
      BY <1>2
    <3>2. QED
      BY <3>1, BytesType
  <2>3. a + CountTo(v, "settings", i) = Len(u) + 1
    <3> DEFINE c == Count(w, "settings")
               l == Len(u)
               d == CountTo(v, "settings", i)
    <3>1. d = c + 1 /\ a + c = l /\ c \in Nat
      BY <1>1, <1>4, <2>1, <2>2
    <3> HIDE DEF c, d, l
    <3>2. a + d = l + 1
      BY <3>1
    <3>3. QED
      BY <3>2 DEF d, l
  <2>4. u1[Len(u) + 1] = f.n
    BY <2>1
  <2>5. QED
    BY <1>4, <2>3, <2>4
<1>5. QED
  BY <1>2, <1>3, <1>4

\* Values, once the first of them is acknowledged.
LEMMA ValuesShift ==
  ASSUME NEW w \in Seq(Frames), NEW a \in Nat, NEW u \in Seq(0..MaxWindow), u # <<>>,
         Values(w, a, u), a >= 1, a + Count(w, "settings") <= Len(u)
  PROVE  Values(w, a - 1, Tail(u))
<1>1. \A i \in 1..Len(w) : w[i].type = "settings" =>
        /\ CountTo(w, "settings", i) \in Nat /\ CountTo(w, "settings", i) >= 1
        /\ CountTo(w, "settings", i) <= Count(w, "settings")
        /\ Count(w, "settings") \in Nat
  BY Place
<1>2. Len(Tail(u)) = Len(u) - 1 /\ \A k \in 1..Len(Tail(u)) : Tail(u)[k] = u[k + 1]
  OBVIOUS
<1> SUFFICES ASSUME NEW i \in 1..Len(w), w[i].type = "settings"
             PROVE  w[i].n = Tail(u)[(a - 1) + CountTo(w, "settings", i)]
  BY DEF Values
<1> DEFINE k == CountTo(w, "settings", i)
           l == Len(u)
           c == Count(w, "settings")
<1>3. k \in Nat /\ k >= 1 /\ k <= c /\ c \in Nat /\ l \in Nat /\ a + c <= l
  BY <1>1
<1>4. w[i].n = u[a + k]
  BY DEF Values
<1> DEFINE t == Tail(u)
<1>5. \A j \in 1..l - 1 : t[j] = u[j + 1]
  BY <1>2
<1> HIDE DEF k, l, c, t
<1>6. (a - 1) + k \in 1..l - 1 /\ ((a - 1) + k) + 1 = a + k
  BY <1>3
<1>7. t[(a - 1) + k] = u[a + k]
  BY <1>5, <1>6
<1>8. QED
  BY <1>4, <1>7 DEF k, t

\* The value after k acknowledgements, as the peer counts on.
LEMMA AfterAppend ==
  ASSUME NEW u \in Seq(0..MaxWindow), NEW n \in 0..MaxWindow, NEW p, NEW k \in Nat,
         k <= Len(u)
  PROVE  After(p, Append(u, n), k) = After(p, u, k)
BY DEF After

\* The value in force, once the first is acknowledged.
LEMMA AfterShift ==
  ASSUME NEW u \in Seq(0..MaxWindow), u # <<>>, NEW p, NEW k \in Nat, k + 1 <= Len(u)
  PROVE  After(Head(u), Tail(u), k) = After(p, u, k + 1)
<1>1. /\ Len(Tail(u)) = Len(u) - 1 /\ Head(u) = u[1] /\ Len(u) \in Nat
      /\ \A j \in 1..Len(Tail(u)) : Tail(u)[j] = u[j + 1]
  OBVIOUS
<1>2. CASE k = 0
  BY <1>1, <1>2 DEF After
<1>3. CASE k # 0
  <2>1. k \in 1..Len(Tail(u)) /\ k + 1 # 0
    BY <1>1, <1>3
  <2>2. Tail(u)[k] = u[k + 1]
    BY <1>1, <2>1
  <2> DEFINE t == Tail(u)
  <2>3. t[k] = u[k + 1]
    BY <2>2
  <2> HIDE DEF t
  <2>4. After(Head(u), t, k) = u[k + 1] /\ After(p, u, k + 1) = u[k + 1]
    BY <1>3, <2>1, <2>3 DEF After
  <2>5. QED
    BY <2>4 DEF t
<1>4. QED
  BY <1>2, <1>3

\* Plain frames acknowledge nothing.
LEMMA AcksKept ==
  ASSUME TypeInv, Beside
  PROVE  Count(toPeer', "ack") = Count(toPeer, "ack")
<1>1. ASSUME NEW w \in Seq(Frames), NEW f, Plain(f)
      PROVE  Count(Append(w, f), "ack") = Count(w, "ack") /\ Append(w, f) \in Seq(Frames)
  <2>1. f \in Frames /\ Is(f, "ack") = 0
    BY <1>1 DEF Plain, Is
  <2>2. Count(Append(w, f), "ack") = Count(w, "ack") + Is(f, "ack")
    BY <2>1, Put
  <2>3. Count(w, "ack") \in Nat
    <3>1. 0 \in 0..Len(w)
      OBVIOUS
    <3>2. QED
      BY <3>1, BytesType
  <2>4. QED
    BY <2>1, <2>2, <2>3
<1>2. toPeer \in Seq(Frames)
  BY Numbers
<1>3. CASE \E f, g : Plain(f) /\ Plain(g) /\ toPeer' = Append(Append(toPeer, f), g)
  <2>1. PICK f, g : Plain(f) /\ Plain(g) /\ toPeer' = Append(Append(toPeer, f), g)
    BY <1>3
  <2>2. /\ Count(Append(toPeer, f), "ack") = Count(toPeer, "ack")
        /\ Append(toPeer, f) \in Seq(Frames)
    BY <1>1, <1>2, <2>1
  <2>3. Count(toPeer', "ack") = Count(Append(toPeer, f), "ack")
    BY <1>1, <2>1, <2>2
  <2>4. QED
    BY <2>2, <2>3
<1>4. QED
  BY <1>1, <1>2, <1>3 DEF Beside

\* Both sides keep their place among the values of the initial window.
LEMMA InitsStep ==
  ASSUME TypeInv, CallInv, CreditInv, ~Does("overgrant"), Next, up'
  PROVE  /\ initWin' = After(pInit', unacked', Count(toPeer', "ack"))
         /\ Values(toClient', Count(toPeer', "ack"), unacked')
<1> DEFINE a == Count(toPeer, "ack")
           b == Count(toClient, "settings")
           Agree(v, p, u, w, k) == v = After(p, u, k) /\ Values(w, k, u)
<1>1. /\ a \in Nat /\ b \in Nat /\ toPeer \in Seq(Frames) /\ toClient \in Seq(Frames)
      /\ unacked \in Seq(0..MaxWindow) /\ Len(unacked) \in Nat
  BY Numbers
<1>2. up
  <2>1. CASE ReadAny
    BY <2>1, ClientLeavesPeer
  <2>2. CASE PeerReads \/ Tells
    BY <2>2, PeerReadsCases, TellsCases
  <2>3. CASE Quiet \/ Cut \/ Close
    BY <2>3, QuietWires DEF Cut, Close
  <2>4. CASE (\E k \in Kinds, c \in Bodies : Post(k, c)) \/ SendChunk \/ Accept
             \/ UNCHANGED vars
    BY <2>4 DEF Post, SendChunk, Accept, vars, linkVars
  <2>5. QED
    BY <2>1, <2>2, <2>3, <2>4, Steps
<1>3. Agree(initWin, pInit, unacked, toClient, a) /\ a + b = Len(unacked)
  BY <1>2 DEF CreditInv, TypeInv, InitAfter, After, Values
<1>4. ASSUME Count(toPeer', "ack") = a, toClient' = toClient, initWin' = initWin,
             pInit' = pInit, unacked' = unacked
      PROVE  Agree(initWin', pInit', unacked', toClient', Count(toPeer', "ack"))
  BY <1>3, <1>4
<1>5. CASE \/ \E k \in Kinds, c \in Bodies : Post(k, c)
           \/ Accept \/ Quiet \/ UNCHANGED vars
  <2>1. UNCHANGED <<toClient, initWin, pInit, unacked>>
    <3>1. CASE Quiet
      BY <3>1, QuietWires DEF peerVars, pSend, Quiet, Refuse, Complete, LinkFails,
         PostUnsent, PostRefused, sendVars
    <3>2. CASE (\E k \in Kinds, c \in Bodies : Post(k, c)) \/ Accept \/ UNCHANGED vars
      BY <3>2 DEF Post, Accept, vars, linkVars, sendVars, peerVars, pSend
    <3>3. QED
      BY <1>5, <3>1, <3>2
  <2>2. Beside
    <3>1. CASE UNCHANGED vars
      BY <3>1 DEF vars, linkVars, Beside
    <3>2. CASE Quiet
      BY <3>2, QuietWires DEF Beside
    <3>3. CASE (\E k \in Kinds, c \in Bodies : Post(k, c)) \/ Accept
      <4>1. ~ReadAny
        <5>1. at \notin {"handshake", "send", "recv"}
          BY <3>3 DEF Post, Accept
        <5>2. QED
          BY <5>1, ReadWires DEF Reading
      <4>2. QED
        BY <3>3, <4>1, PlainWritten
    <3>4. QED
      BY <1>5, <3>1, <3>2, <3>3
  <2>3. QED
    BY <1>4, <2>1, <2>2, AcksKept
<1>6. CASE SendChunk
  <2>1. PICK n \in Nat, f \in Frames :
          /\ f.type = "data" /\ Sent(f)
          /\ UNCHANGED <<initWin, toClient, peerVars>>
    BY <1>6, ChunkSent
  <2>2. Count(toPeer', "ack") = a + Is(f, "ack") /\ Is(f, "ack") = 0
    BY <1>2, <2>1, SentCount DEF Is
  <2>3. Count(toPeer', "ack") = a
    <3> HIDE DEF a
    <3>1. QED
      BY <1>1, <2>2
  <2>4. QED
    BY <1>4, <2>1, <2>3 DEF peerVars, pSend
<1>7. CASE ReadAny
  <2> DEFINE f == toClient[1]
  <2>1. /\ toClient # <<>> /\ toClient' = Tail(toClient) /\ f \in Arrived
        /\ f \in Frames /\ f.n \in Nat /\ 1 \in 1..Len(toClient)
        /\ pInit' = pInit /\ unacked' = unacked
    <3>1. /\ toClient # <<>> /\ toClient' = Tail(toClient) /\ f \in Arrived
          /\ UNCHANGED peerVars
      BY <1>7, ReadWires, ClientLeavesPeer
    <3>2. f \in Frames /\ 1 \in 1..Len(toClient)
      BY <3>1, Arrival
    <3>3. QED
      BY <3>1, <3>2 DEF peerVars, pSend, Frames
  <2>2. Values(toClient', a + Is(f, "settings"), unacked)
    BY <1>1, <1>3, <2>1, ValuesRest
  <2>3. CASE f.type = "settings"
    <3>1. f.n < initWin \/ ~Overflows(f.n - initWin)
      BY <2>1, <2>3, NoOverflow
    <3>2. ~(f.n >= initWin /\ Overflows(f.n - initWin))
      <4>1. initWin \in 0..MaxWindow /\ MaxWindow \in Nat
        BY Numbers
      <4> DEFINE n == f.n
      <4>2. n < initWin \/ ~Overflows(n - initWin)
        BY <3>1
      <4>3. n \in Nat /\ initWin \in Int
        BY <2>1, <4>1
      <4> HIDE DEF n
      <4>4. ~(n >= initWin /\ Overflows(n - initWin))
        BY <4>2, <4>3
      <4>5. QED
        BY <4>4 DEF n
    <3>3. initWin' = f.n /\ Sent(Ack)
      <4>1. initWin' = f.n
        BY <1>7, <2>3, <3>2, ReadCredit
      <4>2. Sent(Ack)
        BY <1>7, <2>3, <3>2, ReadWires
      <4>3. QED
        BY <4>1, <4>2
    <3>4. Count(toPeer', "ack") = a + 1
      <4>1. Is(Ack, "ack") = 1 /\ Ack \in Frames
        BY AckPong DEF Is
      <4>2. QED
        BY <1>2, <3>3, <4>1, SentCount
    <3>5. Is(f, "settings") = 1 /\ CountTo(toClient, "settings", 1) = 1
      <4>1. Is(f, "settings") = 1
        BY <2>3 DEF Is
      <4>2. /\ BytesTo(toClient, "settings", {}, 1)
                 = BytesTo(toClient, "settings", {}, 1 - 1) + Carries(f, "settings", {})
            /\ CountTo(toClient, "settings", 1)
                 = CountTo(toClient, "settings", 1 - 1) + Is(f, "settings")
        BY <1>1, <2>1, BytesNext
      <4>3. CountTo(toClient, "settings", 0) = 0
        <5>1. 0 \in 0..Len(toClient)
          BY <2>1
        <5>2. QED
          BY <1>1, <5>1, BytesType
      <4>4. QED
        BY <4>1, <4>2, <4>3
    <3>6. f.n = unacked[a + 1]
      BY <1>3, <2>1, <2>3, <3>5 DEF Values
    <3>7. initWin' = After(pInit', unacked', Count(toPeer', "ack"))
      <4>1. a + 1 # 0
        <5> HIDE DEF a
        <5>1. QED
          BY <1>1
      <4>2. QED
        BY <2>1, <3>3, <3>4, <3>6, <4>1 DEF After
    <3>8. QED
      BY <2>1, <2>2, <3>4, <3>5, <3>7
  <2>4. CASE f.type # "settings"
    <3>1. initWin' = initWin
      BY <1>7, <2>4, ReadCredit DEF sendVars
    <3>2. Count(toPeer', "ack") = a
      <4>1. toPeer' = toPeer \/ Sent(Pong)
        BY <1>7, <2>4, ReadWires
      <4>2. Plain(Pong)
        BY AckPong DEF Plain
      <4>3. Beside
        BY <4>1, <4>2 DEF Beside, Sent
      <4>4. QED
        BY <4>3, AcksKept
    <3>3. a + Is(f, "settings") = a
      <4>1. Is(f, "settings") = 0
        BY <2>4 DEF Is
      <4> HIDE DEF a
      <4>2. QED
        BY <1>1, <4>1
    <3>4. QED
      BY <1>3, <2>1, <2>2, <3>1, <3>2, <3>3
  <2>5. QED
    BY <2>3, <2>4
<1>8. CASE PeerReads
  <2> DEFINE f == toPeer[1]
  <2>1. /\ toPeer # <<>> /\ toPeer' = Tail(toPeer) /\ f.n \in Nat /\ Heard(f)
        /\ initWin' = initWin
    BY <1>8, PeerReadsCases DEF sendVars
  <2>2. Count(toPeer', "ack") = a - Is(f, "ack") /\ Is(f, "ack") <= a
    BY <1>1, <2>1, Taken, HeadCarried
  <2>3. CASE f.type = "ack"
    <3>1. /\ unacked # <<>> /\ pInit' = Head(unacked) /\ unacked' = Tail(unacked)
          /\ toClient' = toClient
      BY <2>1, <2>3 DEF Heard
    <3>2. Is(f, "ack") = 1
      BY <2>3 DEF Is
    <3>3. a - 1 \in Nat /\ a >= 1 /\ a + b <= Len(unacked) /\ (a - 1) + 1 <= Len(unacked)
          /\ (a - 1) + 1 = a
      <4>1. a >= 1 /\ a + b = Len(unacked)
        BY <1>3, <2>2, <3>2
      <4> HIDE DEF a, b
      <4>2. QED
        BY <1>1, <4>1
    <3>4. Count(toPeer', "ack") = a - 1
      BY <2>2, <3>2
    <3> DEFINE c == a - 1
    <3>5. Values(toClient, c, Tail(unacked))
      BY <1>1, <1>3, <3>1, <3>3, ValuesShift
    <3>6. After(Head(unacked), Tail(unacked), c) = After(pInit, unacked, c + 1)
      <4>1. c \in Nat /\ c + 1 <= Len(unacked)
        BY <3>3
      <4> HIDE DEF c
      <4>2. QED
        BY <1>1, <3>1, <4>1, AfterShift
    <3>7. QED
      BY <1>3, <2>1, <3>1, <3>3, <3>4, <3>5, <3>6
  <2>4. CASE f.type # "ack"
    <3>1. pInit' = pInit /\ unacked' = unacked
          /\ (toClient' = toClient \/ toClient' = Append(toClient, Ack))
      BY <2>1, <2>4 DEF Heard, pSend
    <3>2. Count(toPeer', "ack") = a
      <4>1. Is(f, "ack") = 0
        BY <2>4 DEF Is
      <4> HIDE DEF a
      <4>2. QED
        BY <1>1, <2>2, <4>1
    <3>3. Values(Append(toClient, Ack), a, unacked)
      BY <1>1, <1>3, AckPong, ValuesPut
    <3>4. Values(toClient', a, unacked)
      BY <1>3, <3>1, <3>3
    <3>5. QED
      BY <1>3, <2>1, <3>1, <3>2, <3>4
  <2>5. QED
    BY <2>3, <2>4
<1>9. CASE Tells
  <2>1. PICK f \in Frames :
          /\ toClient' = Append(toClient, f) /\ ToClientFrame(f)
          /\ \/ f.type = "settings" /\ unacked' = Append(unacked, f.n)
             \/ f.type # "settings" /\ unacked' = unacked
    BY <1>9, TellsWires
  <2>2. toPeer' = toPeer /\ initWin' = initWin /\ pInit' = pInit
    BY <1>9, TellsCases DEF sendVars, Told, pSend
  <2>3. f.type = "settings" => f.n \in 0..MaxWindow
    BY <2>1, Numbers DEF ToClientFrame, Frames
  <2>4. Values(toClient', a, unacked')
    BY <1>1, <1>3, <2>1, <2>3, ValuesPut
  <2>5. After(pInit, unacked', a) = After(pInit, unacked, a)
    <3>1. a <= Len(unacked)
      <4> HIDE DEF a, b
      <4>1. QED
        BY <1>1, <1>3
    <3>2. QED
      BY <1>1, <2>1, <2>3, <3>1, AfterAppend, ZenonT(30)
  <2>6. QED
    BY <1>3, <2>2, <2>4, <2>5
<1>10. CASE Cut \/ Close
  BY <1>10 DEF Cut, Close
<1>11. QED
  BY <1>5, <1>6, <1>7, <1>8, <1>9, <1>10, Steps

-----------------------------------------------------------------------------
(* CreditInv: the DATA on its way.                                         *)

\* DATA within what its stream is granted once the peer has read what comes
\* before it.
Within(w, p, u, g) == \A i \in 1..Len(w) : w[i].type = "data" =>
  BytesTo(w, "data", {w[i].sid}, i) <= After(p, u, CountTo(w, "ack", i)) + g[w[i].sid]

\* The value in force is a number.
LEMMA AfterType ==
  ASSUME NEW p \in 0..MaxWindow, NEW u \in Seq(0..MaxWindow), NEW k \in Nat,
         k <= Len(u)
  PROVE  After(p, u, k) \in Nat
<1>1. MaxWindow \in Nat
  BY WindowAssumption
<1>2. \A j \in 0..MaxWindow : j \in Nat
  BY <1>1
<1>3. CASE k = 0
  BY <1>2, <1>3 DEF After
<1>4. CASE k # 0
  <2>1. k \in 1..Len(u)
    BY <1>4
  <2>2. u[k] \in 0..MaxWindow
    BY <2>1, ElementOfSeq
  <2>3. QED
    BY <1>2, <1>4, <2>2 DEF After
<1>5. QED
  BY <1>3, <1>4

\* Data stays granted, with a frame behind it.
LEMMA WithinPut ==
  ASSUME NEW w \in Seq(Frames), NEW f \in Frames, NEW p, NEW u, NEW g,
         Within(w, p, u, g),
         f.type = "data" => Bytes(w, "data", {f.sid}) + f.n
                              <= After(p, u, Count(w, "ack")) + g[f.sid]
  PROVE  Within(Append(w, f), p, u, g)
<1> DEFINE v == Append(w, f)
<1>1. /\ Len(v) = Len(w) + 1 /\ Len(w) \in Nat
      /\ \A i \in 1..Len(v) : \/ i \in 1..Len(w) /\ v[i] = w[i]
                              \/ i = Len(w) + 1 /\ v[i] = f
  BY Behind
<1>2. \A ids, type :
        /\ \A i \in 1..Len(w) : /\ BytesTo(v, "data", ids, i) = BytesTo(w, "data", ids, i)
                                /\ CountTo(v, type, i) = CountTo(w, type, i)
        /\ Bytes(v, "data", ids) = Bytes(w, "data", ids) + Carries(f, "data", ids)
        /\ CountTo(v, type, Len(w) + 1) = Count(w, type) + Is(f, type)
  <2> TAKE ids, type
  <2>1. \A i \in 0..Len(w) : /\ BytesTo(v, "data", ids, i) = BytesTo(w, "data", ids, i)
                             /\ CountTo(v, "data", i) = CountTo(w, "data", i)
    BY BytesAppend
  <2>2. Bytes(v, "data", ids) = Bytes(w, "data", ids) + Carries(f, "data", ids)
    BY Put
  <2>3. /\ \A i \in 1..Len(w) : CountTo(v, type, i) = CountTo(w, type, i)
        /\ CountTo(v, type, Len(w) + 1) = Count(w, type) + Is(f, type)
    BY PlacePut
  <2>4. \A i \in 1..Len(w) : i \in 0..Len(w)
    BY <1>1
  <2>5. QED
    BY <2>1, <2>2, <2>3, <2>4
<1>3. \A ids : Bytes(v, "data", ids) = BytesTo(v, "data", ids, Len(w) + 1)
  BY <1>1, BytesIsBytesTo
<1> HIDE DEF v
<1> SUFFICES ASSUME NEW i \in 1..Len(v), v[i].type = "data"
             PROVE  BytesTo(v, "data", {v[i].sid}, i)
                      <= After(p, u, CountTo(v, "ack", i)) + g[v[i].sid]
  BY DEF Within, v
<1>4. CASE i \in 1..Len(w) /\ v[i] = w[i]
  <2>1. BytesTo(w, "data", {w[i].sid}, i)
          <= After(p, u, CountTo(w, "ack", i)) + g[w[i].sid]
    BY <1>4 DEF Within
  <2>2. /\ BytesTo(v, "data", {w[i].sid}, i) = BytesTo(w, "data", {w[i].sid}, i)
        /\ CountTo(v, "ack", i) = CountTo(w, "ack", i)
    BY <1>2, <1>4
  <2>3. QED
    BY <1>4, <2>1, <2>2
<1>5. CASE i = Len(w) + 1 /\ v[i] = f
  <2>1. /\ Carries(f, "data", {f.sid}) = f.n /\ Is(f, "ack") = 0
    BY <1>5 DEF Carries, Is
  <2>2. BytesTo(v, "data", {f.sid}, i) = Bytes(w, "data", {f.sid}) + f.n
    BY <1>2, <1>3, <1>5, <2>1
  <2>3. CountTo(v, "ack", i) = Count(w, "ack")
    <3>1. Count(w, "ack") \in Nat
      <4>1. 0 \in 0..Len(w)
        BY <1>1
      <4>2. QED
        BY <4>1, BytesType
    <3>2. CountTo(v, "ack", i) = Count(w, "ack") + 0
      BY <1>2, <1>5, <2>1
    <3> DEFINE c == Count(w, "ack")
    <3>3. c + 0 = c
      <4> HIDE DEF c
      <4>1. QED
        BY <3>1 DEF c
    <3>4. QED
      BY <3>2, <3>3
  <2>4. QED
    BY <1>5, <2>2, <2>3
<1>6. QED
  BY <1>1, <1>4, <1>5

\* Data stays granted, without the first frame.
LEMMA WithinRest ==
  ASSUME NEW w \in Seq(Frames), w # <<>>, \A i \in 1..Len(w) : ToPeerFrame(w[i]),
         NEW p \in 0..MaxWindow, NEW u \in Seq(0..MaxWindow), NEW g \in [Streams -> Int],
         Within(w, p, u, g), Count(w, "ack") <= Len(u), NEW q, NEW t, NEW h,
         \/ w[1].type = "data" /\ q = p /\ t = u
              /\ h = [g EXCEPT ![w[1].sid] = @ - w[1].n]
         \/ w[1].type = "ack" /\ u # <<>> /\ q = Head(u) /\ t = Tail(u) /\ h = g
         \/ w[1].type \notin {"data", "ack"} /\ q = p /\ t = u /\ h = g
  PROVE  Within(Tail(w), q, t, h)
<1> DEFINE v == Tail(w)
<1>1. /\ Head(w) = w[1] /\ w[1] \in Frames /\ w[1].n \in Nat
      /\ \A i \in 1..Len(v) : i + 1 \in 1..Len(w) /\ v[i] = w[i + 1] /\ i \in 0..Len(v)
  <2>1. /\ Head(w) = w[1] /\ w[1] \in Frames /\ Len(v) \in Nat
        /\ \A i \in 1..Len(v) : i + 1 \in 1..Len(w) /\ v[i] = w[i + 1]
    BY Rest
  <2> HIDE DEF v
  <2>2. QED
    BY <2>1 DEF Frames
<1>2. \A ids : \A i \in 1..Len(v) :
        /\ BytesTo(v, "data", ids, i)
             = BytesTo(w, "data", ids, i + 1) - Carries(w[1], "data", ids)
        /\ BytesTo(w, "data", ids, i + 1) \in Nat
  <2> TAKE ids
  <2>1. \A i \in 0..Len(v) :
          BytesTo(v, "data", ids, i)
            = BytesTo(w, "data", ids, i + 1) - Carries(Head(w), "data", ids)
    BY BytesRest
  <2>2. \A i \in 1..Len(w) : i \in 0..Len(w)
    OBVIOUS
  <2>3. \A i \in 0..Len(w) : BytesTo(w, "data", ids, i) \in Nat
    BY BytesType
  <2> HIDE DEF v
  <2>4. QED
    BY <1>1, <2>1, <2>2, <2>3
<1>3. \A i \in 1..Len(v) :
         /\ CountTo(v, "ack", i) = CountTo(w, "ack", i + 1) - Is(w[1], "ack")
         /\ CountTo(v, "ack", i) \in Nat
         /\ CountTo(w, "ack", i + 1) \in Nat /\ CountTo(w, "ack", i + 1) <= Len(u)
  <2>1. \A i \in 1..Len(v) :
           /\ CountTo(v, "ack", i) = CountTo(w, "ack", i + 1) - Is(w[1], "ack")
           /\ CountTo(w, "ack", i + 1) \in Nat
    BY PlaceRest
  <2>2. \A i \in 1..Len(v) : CountTo(v, "ack", i) \in Nat
    <3>1. v \in Seq(Frames)
      BY Rest
    <3> HIDE DEF v
    <3>2. QED
      BY <3>1, Place
  <2>3. \A j \in 1..Len(w) : CountTo(w, "ack", j) <= Len(u)
    <3>1. \A j \in 1..Len(w) : /\ CountTo(w, "ack", j) <= Count(w, "ack")
                               /\ CountTo(w, "ack", j) \in Nat /\ Count(w, "ack") \in Nat
      BY Place
    <3> DEFINE c == Count(w, "ack")
               l == Len(u)
    <3>2. c <= l /\ l \in Nat
      OBVIOUS
    <3> HIDE DEF l
    <3>3. \A j \in 1..Len(w) : CountTo(w, "ack", j) <= c /\ c \in Nat
                               /\ CountTo(w, "ack", j) \in Nat
      BY <3>1
    <3> HIDE DEF c
    <3>4. \A j \in 1..Len(w) : CountTo(w, "ack", j) <= l
      BY <3>2, <3>3
    <3>5. QED
      BY <3>4 DEF l
  <2> HIDE DEF v
  <2>4. QED
    BY <1>1, <2>1, <2>2, <2>3
<1> SUFFICES ASSUME NEW i \in 1..Len(v), v[i].type = "data"
             PROVE  BytesTo(v, "data", {v[i].sid}, i)
                      <= After(q, t, CountTo(v, "ack", i)) + h[v[i].sid]
  BY DEF Within
<1> DEFINE s == v[i].sid
           B == BytesTo(w, "data", {s}, i + 1)
           k == CountTo(w, "ack", i + 1)
<1>4. s \in Streams
  <2>1. i + 1 \in 1..Len(w) /\ v[i] = w[i + 1]
    BY <1>1
  <2>2. ToPeerFrame(w[i + 1]) /\ w[i + 1].type = "data"
    BY <2>1
  <2>3. QED
    BY <2>1, <2>2 DEF ToPeerFrame, Requests
<1>5. B <= After(p, u, k) + g[s] /\ B \in Nat /\ k \in Nat /\ g[s] \in Int
      /\ After(p, u, k) \in Nat
  <2>1. i + 1 \in 1..Len(w) /\ v[i] = w[i + 1] /\ k \in Nat /\ k <= Len(u)
    BY <1>1, <1>3
  <2>2. B <= After(p, u, k) + g[s]
    BY <2>1 DEF Within
  <2>3. B \in Nat
    BY <1>2
  <2>4. After(p, u, k) \in Nat
    <3> HIDE DEF k
    <3>1. QED
      BY <2>1, AfterType
  <2>5. QED
    BY <1>4, <2>1, <2>2, <2>3, <2>4
<1>6. /\ BytesTo(v, "data", {s}, i) = B - Carries(w[1], "data", {s})
      /\ CountTo(v, "ack", i) = k - Is(w[1], "ack") /\ CountTo(v, "ack", i) \in Nat
      /\ k <= Len(u)
  BY <1>2, <1>3
<1> HIDE DEF v, s, B, k
<1>7. CASE w[1].type = "data" /\ q = p /\ t = u
           /\ h = [g EXCEPT ![w[1].sid] = @ - w[1].n]
  <2>1. Is(w[1], "ack") = 0 /\ k - 0 = k
    BY <1>5, <1>7 DEF Is
  <2>2. Carries(w[1], "data", {s}) = IF w[1].sid = s THEN w[1].n ELSE 0
    BY <1>7 DEF Carries
  <2>3. h[s] = IF w[1].sid = s THEN g[s] - w[1].n ELSE g[s]
    BY <1>4, <1>7
  <2> DEFINE n == w[1].n
             A == After(p, u, k)
             G == g[s]
  <2>4. B <= A + G /\ B \in Nat /\ A \in Nat /\ G \in Int /\ n \in Nat
    BY <1>1, <1>5
  <2>5. CASE w[1].sid = s
    <3>1. h[s] = G - n /\ BytesTo(v, "data", {s}, i) = B - n
      BY <1>6, <2>2, <2>3, <2>5
    <3>2. After(q, t, CountTo(v, "ack", i)) = A
      BY <1>6, <1>7, <2>1
    <3> HIDE DEF n, A, G
    <3>3. B - n <= A + (G - n)
      BY <2>4
    <3>4. QED
      BY <3>1, <3>2, <3>3 DEF s
  <2>6. CASE w[1].sid # s
    <3>1. h[s] = G /\ BytesTo(v, "data", {s}, i) = B - 0
      BY <1>6, <2>2, <2>3, <2>6
    <3>2. After(q, t, CountTo(v, "ack", i)) = A
      BY <1>6, <1>7, <2>1
    <3> HIDE DEF n, A, G
    <3>3. B - 0 <= A + G
      BY <2>4
    <3>4. QED
      BY <3>1, <3>2, <3>3 DEF s
  <2>7. QED
    BY <2>5, <2>6
<1>8. ASSUME w[1].type # "data", h = g,
             After(q, t, CountTo(v, "ack", i)) = After(p, u, k)
      PROVE  BytesTo(v, "data", {s}, i) <= After(q, t, CountTo(v, "ack", i)) + h[s]
  <2>1. Carries(w[1], "data", {s}) = 0
    BY <1>8, PlainCarries
  <2>2. BytesTo(v, "data", {s}, i) = B
    BY <1>5, <1>6, <2>1
  <2>3. QED
    BY <1>5, <1>8, <2>2
<1>9. CASE w[1].type = "ack" /\ u # <<>> /\ q = Head(u) /\ t = Tail(u) /\ h = g
  <2>1. Is(w[1], "ack") = 1
    BY <1>9 DEF Is
  <2> DEFINE c == CountTo(v, "ack", i)
  <2>2. c \in Nat /\ c = k - 1 /\ k \in Nat /\ k <= Len(u)
    BY <1>5, <1>6, <2>1
  <2>3. c + 1 = k
    <3> HIDE DEF c
    <3>1. QED
      BY <2>2
  <2>4. After(Head(u), Tail(u), c) = After(p, u, c + 1)
    <3>1. c \in Nat /\ c + 1 <= Len(u)
      BY <2>2, <2>3
    <3> HIDE DEF c
    <3>2. QED
      BY <1>9, <3>1, AfterShift
  <2>5. QED
    BY <1>8, <1>9, <2>3, <2>4 DEF s
<1>10. CASE w[1].type \notin {"data", "ack"} /\ q = p /\ t = u /\ h = g
  <2>1. Is(w[1], "ack") = 0 /\ k - 0 = k
    BY <1>5, <1>10 DEF Is
  <2>2. After(q, t, CountTo(v, "ack", i)) = After(p, u, k)
    BY <1>6, <1>10, <2>1
  <2>3. QED
    BY <1>8, <1>10, <2>2 DEF s
<1>11. QED
  BY <1>7, <1>9, <1>10

\* More is granted, or a further initial window is announced.
LEMMA WithinGrows ==
  ASSUME NEW w \in Seq(Frames), \A i \in 1..Len(w) : ToPeerFrame(w[i]),
         NEW p \in 0..MaxWindow, NEW u \in Seq(0..MaxWindow), NEW g \in [Streams -> Int],
         Within(w, p, u, g), Count(w, "ack") <= Len(u), NEW t, NEW h,
         t = u \/ \E n \in 0..MaxWindow : t = Append(u, n),
         \A s \in Streams : h[s] \in Int /\ g[s] <= h[s]
  PROVE  Within(w, p, t, h)
<1> SUFFICES ASSUME NEW i \in 1..Len(w), w[i].type = "data"
             PROVE  BytesTo(w, "data", {w[i].sid}, i)
                      <= After(p, t, CountTo(w, "ack", i)) + h[w[i].sid]
  BY DEF Within
<1> DEFINE s == w[i].sid
           B == BytesTo(w, "data", {s}, i)
           k == CountTo(w, "ack", i)
           A == After(p, u, k)
           G == g[s]
           H == h[s]
<1>1. s \in Streams
  <2>1. ToPeerFrame(w[i])
    OBVIOUS
  <2>2. QED
    BY <2>1 DEF ToPeerFrame, Requests
<1>2. k \in Nat /\ k <= Len(u)
  <2>1. k \in Nat /\ k <= Count(w, "ack") /\ Count(w, "ack") \in Nat
    BY Place
  <2> DEFINE c == Count(w, "ack")
             l == Len(u)
  <2>2. k \in Nat /\ k <= c /\ c \in Nat /\ c <= l /\ l \in Nat
    BY <2>1
  <2> HIDE DEF k, c, l
  <2>3. k <= l
    BY <2>2
  <2>4. QED
    BY <2>2, <2>3 DEF l
<1>3. B <= A + G /\ G \in Int /\ H \in Int /\ G <= H
  BY <1>1 DEF Within
<1>4. A \in Nat /\ After(p, t, k) = A
  <2> HIDE DEF k
  <2>1. After(p, u, k) \in Nat
    BY <1>2, AfterType
  <2>2. \A n \in 0..MaxWindow : After(p, Append(u, n), k) = After(p, u, k)
    BY <1>2, AfterAppend
  <2>3. CASE t = u
    BY <2>1, <2>3
  <2>4. CASE \E n \in 0..MaxWindow : t = Append(u, n)
    BY <2>1, <2>2, <2>4
  <2>5. QED
    BY <2>3, <2>4
<1>5. B \in Nat
  <2>1. i \in 0..Len(w)
    OBVIOUS
  <2>2. QED
    BY <2>1, BytesType
<1> HIDE DEF B, A, G, H
<1>6. B <= A + H
  BY <1>3, <1>4, <1>5
<1>7. QED
  BY <1>4, <1>6 DEF B, H

\* The data on its way is granted.
LEMMA WithinIs ==
  ASSUME TypeInv, CreditInv, ~Does("overgrant")
  PROVE  Within(toPeer, pInit, unacked, granted)
BY DEF CreditInv, Within, InitAfter, After

\* Writes that spend no credit.
LEMMA WithinBeside ==
  ASSUME TypeInv, Beside \/ toPeer' = Append(toPeer, Ack), NEW p, NEW u, NEW g,
         Within(toPeer, p, u, g)
  PROVE  Within(toPeer', p, u, g)
<1>1. ASSUME NEW w \in Seq(Frames), NEW f \in Frames, f.type # "data", Within(w, p, u, g)
      PROVE  Within(Append(w, f), p, u, g) /\ Append(w, f) \in Seq(Frames)
  <2>1. Within(Append(w, f), p, u, g)
    BY <1>1, WithinPut
  <2>2. Append(w, f) \in Seq(Frames)
    OBVIOUS
  <2>3. QED
    BY <2>1, <2>2
<1>2. toPeer \in Seq(Frames) /\ Ack \in Frames /\ Ack.type # "data"
  BY Numbers, AckPong
<1>3. \A f : Plain(f) => f \in Frames /\ f.type # "data"
  BY DEF Plain
<1>4. CASE \E f, g1 : Plain(f) /\ Plain(g1) /\ toPeer' = Append(Append(toPeer, f), g1)
  <2>1. PICK f, g1 : Plain(f) /\ Plain(g1) /\ toPeer' = Append(Append(toPeer, f), g1)
    BY <1>4
  <2>2. Within(Append(toPeer, f), p, u, g) /\ Append(toPeer, f) \in Seq(Frames)
    BY <1>1, <1>2, <1>3, <2>1
  <2>3. QED
    BY <1>1, <1>3, <2>1, <2>2
<1>5. CASE \E f : Plain(f) /\ toPeer' = Append(toPeer, f)
  BY <1>1, <1>2, <1>3, <1>5
<1>6. CASE toPeer' = Append(toPeer, Ack)
  BY <1>1, <1>2, <1>6
<1>7. CASE toPeer' = toPeer
  BY <1>7
<1>8. QED
  BY <1>4, <1>5, <1>6, <1>7 DEF Beside

\* The data on its way stays granted.
LEMMA WithinStep ==
  ASSUME TypeInv, CallInv, CreditInv, ~Does("overgrant"), Next
  PROVE  Within(toPeer', pInit', unacked', granted')
<1>1. /\ Within(toPeer, pInit, unacked, granted)
      /\ toPeer \in Seq(Frames) /\ toClient \in Seq(Frames)
      /\ pInit \in 0..MaxWindow /\ unacked \in Seq(0..MaxWindow)
      /\ granted \in [Streams -> Int]
      /\ \A i \in 1..Len(toPeer) : ToPeerFrame(toPeer[i])
  BY WithinIs, Numbers DEF TypeInv, TypeOK, PeerOK
<1>2. up => Count(toPeer, "ack") <= Len(unacked)
  <2> DEFINE a == Count(toPeer, "ack")
             b == Count(toClient, "settings")
             l == Len(unacked)
  <2>1. a \in Nat /\ b \in Nat /\ l \in Nat
    BY Numbers
  <2>2. up => a + b <= l
    BY DEF TypeInv
  <2> HIDE DEF a, b, l
  <2>3. up => a <= l
    BY <2>1, <2>2
  <2>4. QED
    BY <2>3 DEF a, l
<1>3. CASE \/ \E k \in Kinds, c \in Bodies : Post(k, c)
           \/ ReadAny \/ Accept \/ Quiet
  <2>1. UNCHANGED peerVars
    BY <1>3, ClientLeavesPeer
  <2>2. Beside \/ toPeer' = Append(toPeer, Ack)
    BY <1>3, PlainWritten
  <2>3. Within(toPeer', pInit, unacked, granted)
    BY <1>1, <2>2, WithinBeside
  <2>4. pInit' = pInit /\ unacked' = unacked /\ granted' = granted
    BY <2>1 DEF peerVars, pSend
  <2>5. QED
    BY <2>3, <2>4
<1>4. CASE UNCHANGED vars
  <2>1. toPeer' = toPeer /\ pInit' = pInit /\ unacked' = unacked /\ granted' = granted
    BY <1>4 DEF vars, linkVars, peerVars, pSend
  <2>2. QED
    BY <1>1, <2>1
<1>5. CASE SendChunk
  <2>1. PICK n \in Nat, f \in Frames :
          /\ f.type = "data" /\ f.sid = active /\ f.n = n /\ Sent(f)
          /\ active \in Streams /\ n <= sendWin /\ sendDebt = 0
          /\ UNCHANGED peerVars
    BY <1>5, ChunkSent
  <2>2. pInit' = pInit /\ unacked' = unacked /\ granted' = granted
    BY <2>1 DEF peerVars, pSend
  <2>3. CASE ~up
    BY <1>1, <2>1, <2>2, <2>3 DEF Sent
  <2>4. CASE up
    <3> DEFINE d == StreamDataOn(toPeer, active)
               u == UpdatesOn(toClient, active)
               G == granted[active]
               A == After(pInit, unacked, Count(toPeer, "ack"))
    <3>1. /\ d \in Nat /\ u \in Nat /\ G \in Int /\ n \in Nat
          /\ sendWin \in Nat /\ initWin \in Nat
      <4>1. /\ sendWin \in 0..MaxWindow /\ initWin \in 0..MaxWindow /\ MaxWindow \in Nat
            /\ d \in Nat /\ u \in Nat /\ G \in Int
        BY <2>1, Numbers
      <4>2. sendWin \in Nat /\ initWin \in Nat
        BY <4>1
      <4>3. QED
        BY <4>1, <4>2
    <3>2. sendWin - sendDebt - initWin + d + u = G /\ active # 0
      BY <2>1, <2>4 DEF CreditInv, SendCreditExact, Streams
    <3>3. initWin = A
      BY <2>4 DEF CreditInv, InitAfter, After
    <3>4. d + n <= A + G
      <4>1. sendWin - 0 - initWin + d + u = G /\ n <= sendWin
        BY <2>1, <3>2
      <4> HIDE DEF d, u, G, A
      <4>2. QED
        BY <3>1, <3>3, <4>1
    <3>5. f.type = "data" => Bytes(toPeer, "data", {f.sid}) + f.n
            <= After(pInit, unacked, Count(toPeer, "ack")) + granted[f.sid]
      BY <2>1, <3>4 DEF StreamDataOn
    <3>6. Within(Append(toPeer, f), pInit, unacked, granted)
      BY <1>1, <3>5, WithinPut
    <3>7. QED
      BY <2>1, <2>2, <2>4, <3>6 DEF Sent
  <2>5. QED
    BY <2>3, <2>4
<1>6. CASE PeerReads
  <2> DEFINE f == toPeer[1]
  <2>1. up /\ toPeer # <<>> /\ toPeer' = Tail(toPeer) /\ Heard(f)
    BY <1>6, PeerReadsCases
  <2>2. \/ f.type = "data" /\ pInit' = pInit /\ unacked' = unacked
             /\ granted' = [granted EXCEPT ![f.sid] = @ - f.n]
        \/ f.type = "ack" /\ unacked # <<>> /\ pInit' = Head(unacked)
             /\ unacked' = Tail(unacked) /\ granted' = granted
        \/ f.type \notin {"data", "ack"} /\ pInit' = pInit /\ unacked' = unacked
             /\ granted' = granted
    BY <2>1 DEF Heard, pSend
  <2>3. Within(Tail(toPeer), pInit', unacked', granted')
    BY <1>1, <1>2, <2>1, <2>2, WithinRest
  <2>4. QED
    BY <2>1, <2>3
<1>7. CASE Tells
  <2>1. PICK f \in Frames :
          toClient' = Append(toClient, f) /\ ToClientFrame(f) /\ Told(f)
    BY <1>7, TellsCases
  <2>2. toPeer' = toPeer /\ up
    BY <1>7, TellsCases
  <2>3. pInit' = pInit
    BY <2>1 DEF Told, pSend
  <2>4. unacked' = unacked \/ \E n \in 0..MaxWindow : unacked' = Append(unacked, n)
    <3>1. unacked' = unacked \/ (f.type = "settings" /\ unacked' = Append(unacked, f.n))
      BY <2>1 DEF Told, pSend
    <3>2. f.type = "settings" => f.n \in 0..MaxWindow
      <4>1. f.n \in Nat /\ MaxWindow \in Nat
        BY WindowAssumption DEF Frames
      <4>2. QED
        BY <2>1, <4>1 DEF ToClientFrame
    <3>3. QED
      BY <3>1, <3>2
  <2>5. \A s \in Streams : granted'[s] \in Int /\ granted[s] <= granted'[s]
    <3>1. CASE granted' = granted
      BY <1>1, <3>1
    <3>2. CASE granted' # granted
      <4>1. f.sid \in Streams /\ granted' = [granted EXCEPT ![f.sid] = @ + f.n]
        BY <2>1, <3>2 DEF Told, pSend
      <4>2. f.n \in Nat
        BY DEF Frames
      <4>3. QED
        BY <1>1, <4>1, <4>2
    <3>3. QED
      BY <3>1, <3>2
  <2>6. Within(toPeer, pInit, unacked', granted')
    BY <1>1, <1>2, <2>2, <2>4, <2>5, WithinGrows
  <2>7. QED
    BY <2>2, <2>3, <2>6
<1>8. CASE Cut \/ Close
  <2>1. toPeer' = <<>>
    BY <1>8 DEF Cut, Close
  <2>2. QED
    BY <2>1 DEF Within
<1>9. QED
  BY <1>3, <1>4, <1>5, <1>6, <1>7, <1>8, Steps

\* The peer never reads what it has not granted.
LEMMA OverrunStep ==
  ASSUME TypeInv, CallInv, CreditInv, ~Does("overgrant"), Next
  PROVE  ~overrun'
<1>1. ~overrun
  BY DEF CreditInv
<1>2. CASE PeerReads
  <2> DEFINE f == toPeer[1]
  <2>1. toPeer # <<>> /\ f.n \in Nat /\ Heard(f) /\ f \in Frames /\ 1 \in 1..Len(toPeer)
    BY <1>2, PeerReadsCases
  <2>2. CASE f.type = "data"
    <3>1. overrun' = (overrun \/ f.n > pConn \/ f.n > PeerWindow(f.sid))
          /\ f.sid \in Streams
      BY <2>1, <2>2 DEF Heard
    <3>2. ~(f.n > pConn)
      <4> DEFINE n == f.n
                 d == DataOn(toPeer)
                 u == UpdatesOn(toClient, 0)
      <4>1. Carries(f, "data", Streams) = n
        BY <2>2, <3>1 DEF Carries
      <4>2. n <= d
        BY <2>1, <4>1, HeadCarried, Numbers DEF DataOn
      <4>3. d \in Nat /\ u \in Nat /\ pConn \in Int /\ n \in Nat
        BY <2>1, Numbers
      <4>4. connWin \in Nat
        <5>1. connWin \in 0..MaxWindow /\ MaxWindow \in Nat
          BY Numbers
        <5>2. QED
          BY <5>1
      <4>5. connWin + d + u <= pConn
        BY DEF CreditInv
      <4> HIDE DEF n, d, u
      <4>6. ~(n > pConn)
        BY <4>2, <4>3, <4>4, <4>5
      <4>7. QED
        BY <4>6 DEF n
    <3>3. ~(f.n > PeerWindow(f.sid))
      <4>1. Within(toPeer, pInit, unacked, granted)
        BY WithinIs
      <4>2. BytesTo(toPeer, "data", {f.sid}, 1)
              <= After(pInit, unacked, CountTo(toPeer, "ack", 1)) + granted[f.sid]
        BY <2>1, <2>2, <4>1 DEF Within
      <4>3. /\ BytesTo(toPeer, "data", {f.sid}, 1)
                 = BytesTo(toPeer, "data", {f.sid}, 1 - 1) + Carries(f, "data", {f.sid})
            /\ CountTo(toPeer, "data", 1)
                 = CountTo(toPeer, "data", 1 - 1) + Is(f, "data")
        <5>1. toPeer \in Seq(Frames)
          BY Numbers
        <5>2. QED
          BY <2>1, <5>1, BytesNext, ZenonT(30)
      <4>4. /\ BytesTo(toPeer, "ack", {}, 1)
                 = BytesTo(toPeer, "ack", {}, 1 - 1) + Carries(f, "ack", {})
            /\ CountTo(toPeer, "ack", 1)
                 = CountTo(toPeer, "ack", 1 - 1) + Is(f, "ack")
        <5>1. toPeer \in Seq(Frames)
          BY Numbers
        <5>2. QED
          BY <2>1, <5>1, BytesNext, ZenonT(30)
      <4>5. BytesTo(toPeer, "data", {f.sid}, 0) = 0 /\ CountTo(toPeer, "ack", 0) = 0
        <5>1. 0 \in 0..Len(toPeer) /\ toPeer \in Seq(Frames)
          BY <2>1, Numbers
        <5>2. QED
          BY <5>1, BytesType
      <4>6. Carries(f, "data", {f.sid}) = f.n /\ Is(f, "ack") = 0
        BY <2>2 DEF Carries, Is
      <4>7. CountTo(toPeer, "ack", 1) = 0 /\ BytesTo(toPeer, "data", {f.sid}, 1) = f.n
        BY <2>1, <4>3, <4>4, <4>5, <4>6
      <4>8. f.n <= pInit + granted[f.sid]
        BY <4>2, <4>7 DEF After
      <4>9. pInit \in Nat /\ granted[f.sid] \in Int
        <5>1. pInit \in 0..MaxWindow /\ MaxWindow \in Nat /\ granted[f.sid] \in Int
          BY <3>1, Numbers
        <5>2. QED
          BY <5>1
      <4> DEFINE n == f.n
                 G == granted[f.sid]
      <4>10. n <= pInit + G /\ n \in Nat /\ G \in Int
        BY <2>1, <4>8, <4>9
      <4> HIDE DEF n, G
      <4>11. ~(n > pInit + G)
        BY <4>9, <4>10
      <4>12. QED
        BY <4>11 DEF PeerWindow, n, G
    <3>4. QED
      BY <1>1, <3>1, <3>2, <3>3
  <2>3. CASE f.type # "data"
    BY <1>1, <2>1, <2>3 DEF Heard, pSend
  <2>4. QED
    BY <2>2, <2>3
<1>3. CASE Tells
  BY <1>1, <1>3, TellsCases DEF Told, pSend
<1>4. CASE Cut \/ UNCHANGED vars
  BY <1>1, <1>4 DEF Cut, vars, peerVars, pSend
<1>5. CASE \/ \E k \in Kinds, c \in Bodies : Post(k, c)
           \/ SendChunk \/ ReadAny \/ Accept \/ Quiet \/ Close
  BY <1>1, <1>5, ClientLeavesPeer DEF peerVars, pSend
<1>6. QED
  BY <1>2, <1>3, <1>4, <1>5, Steps

-----------------------------------------------------------------------------
(* CreditInv: the window can hold every initial window to come.            *)

Last(f, s) == For(f, s, Response) /\ Ends(f)
BoundsOn(w, s, g) == \A i \in 1..Len(w) : w[i].type = "settings" =>
  w[i].n + g <= MaxWindow \/ \E j \in 1..i - 1 : Last(w[j], s)

\* Bounds, without the first frame.
LEMMA BoundsRest ==
  ASSUME NEW w \in Seq(Frames), w # <<>>, NEW s, NEW g, BoundsOn(w, s, g),
         ~Last(w[1], s)
  PROVE  BoundsOn(Tail(w), s, g)
<1> DEFINE v == Tail(w)
<1>1. \A i \in 1..Len(v) : i + 1 \in 1..Len(w) /\ v[i] = w[i + 1]
  BY Rest
<1>2. \A k \in 1..Len(w) : k = 1 \/ (k - 1 \in 1..Len(v) /\ v[k - 1] = w[k])
  BY RestBack
<1> HIDE DEF v
<1> SUFFICES ASSUME NEW i \in 1..Len(v), v[i].type = "settings",
                    ~(v[i].n + g <= MaxWindow)
             PROVE  \E j \in 1..i - 1 : Last(v[j], s)
  BY DEF BoundsOn, v
<1>3. PICK j \in 1..(i + 1) - 1 : Last(w[j], s)
  BY <1>1 DEF BoundsOn
<1>4. j # 1 /\ j \in 1..Len(w)
  <2>1. i + 1 \in 1..Len(w)
    BY <1>1
  <2>2. QED
    BY <1>3, <2>1
<1>5. j - 1 \in 1..i - 1 /\ Last(v[j - 1], s)
  BY <1>2, <1>3, <1>4
<1>6. QED
  BY <1>5

\* Bounds, with a frame behind the others.
LEMMA BoundsPut ==
  ASSUME NEW w \in Seq(Frames), NEW f \in Frames, NEW s, NEW g, BoundsOn(w, s, g),
         f.type = "settings" =>
           f.n + g <= MaxWindow \/ \E j \in 1..Len(w) : Last(w[j], s)
  PROVE  BoundsOn(Append(w, f), s, g)
<1> DEFINE v == Append(w, f)
<1>1. /\ Len(v) = Len(w) + 1 /\ Len(w) \in Nat
      /\ \A i \in 1..Len(v) : \/ i \in 1..Len(w) /\ v[i] = w[i]
                              \/ i = Len(w) + 1 /\ v[i] = f
      /\ \A j \in 1..Len(w) : v[j] = w[j]
  <2>1. /\ Len(v) = Len(w) + 1 /\ Len(w) \in Nat
        /\ \A i \in 1..Len(v) : \/ i \in 1..Len(w) /\ v[i] = w[i]
                                \/ i = Len(w) + 1 /\ v[i] = f
    BY Behind
  <2> HIDE DEF v
  <2>2. \A j \in 1..Len(w) : j \in 1..Len(v) /\ j # Len(w) + 1
    BY <2>1
  <2>3. QED
    BY <2>1, <2>2
<1> HIDE DEF v
<1> SUFFICES ASSUME NEW i \in 1..Len(v), v[i].type = "settings",
                    ~(v[i].n + g <= MaxWindow)
             PROVE  \E j \in 1..i - 1 : Last(v[j], s)
  BY DEF BoundsOn, v
<1>2. CASE i \in 1..Len(w) /\ v[i] = w[i]
  <2>1. PICK j \in 1..i - 1 : Last(w[j], s)
    BY <1>2 DEF BoundsOn
  <2>2. j \in 1..Len(w)
    BY <1>1, <1>2, <2>1
  <2>3. QED
    BY <1>1, <2>1, <2>2
<1>3. CASE i = Len(w) + 1 /\ v[i] = f
  <2>1. PICK j \in 1..Len(w) : Last(w[j], s)
    BY <1>3
  <2>2. j \in 1..i - 1
    BY <1>1, <1>3, <2>1
  <2>3. QED
    BY <1>1, <2>1, <2>2
<1>4. QED
  BY <1>1, <1>2, <1>3

\* Bounds, cut short.
LEMMA BoundsCut ==
  ASSUME NEW w \in Seq(Frames), NEW m \in 0..Len(w), NEW s, NEW g, BoundsOn(w, s, g)
  PROVE  BoundsOn(SubSeq(w, 1, m), s, g)
<1> DEFINE v == SubSeq(w, 1, m)
<1>1. \A i \in 1..Len(v) : i \in 1..Len(w) /\ v[i] = w[i]
  OBVIOUS
<1>2. Len(v) = m /\ m \in Nat
  OBVIOUS
<1> HIDE DEF v
<1>3. \A i \in 1..Len(v) : \A j \in 1..i - 1 : j \in 1..Len(v)
  BY <1>2
<1>4. QED
  BY <1>1, <1>3 DEF BoundsOn, v

\* Bounds, for a smaller grant.
LEMMA BoundsLess ==
  ASSUME NEW w \in Seq(Frames), NEW s, NEW g \in Int, NEW h \in Int, h <= g,
         BoundsOn(w, s, g)
  PROVE  BoundsOn(w, s, h)
<1>1. \A i \in 1..Len(w) : w[i].n \in Nat
  <2>1. \A i \in 1..Len(w) : w[i] \in Frames
    OBVIOUS
  <2>2. QED
    BY <2>1 DEF Frames
<1>2. MaxWindow \in Nat
  BY WindowAssumption
<1>3. ASSUME NEW n \in Nat, n + g <= MaxWindow PROVE n + h <= MaxWindow
  BY <1>2, <1>3
<1>4. QED
  BY <1>1, <1>3 DEF BoundsOn

\* The values on their way are among those the peer counts with.
LEMMA OnTheWay ==
  ASSUME TypeInv, CreditInv, ~Does("overgrant"), up
  PROVE  /\ initWin \in InForce
         /\ \A i \in 1..Len(toClient) : toClient[i].type = "settings" =>
              toClient[i].n \in InForce
<1> DEFINE a == Count(toPeer, "ack")
           b == Count(toClient, "settings")
           l == Len(unacked)
<1>1. a \in Nat /\ b \in Nat /\ l \in Nat /\ a + b = l /\ toClient \in Seq(Frames)
      /\ unacked \in Seq(0..MaxWindow)
  <2>1. a \in Nat /\ b \in Nat /\ l \in Nat /\ toClient \in Seq(Frames)
        /\ unacked \in Seq(0..MaxWindow)
    BY Numbers
  <2>2. a + b = l
    BY DEF TypeInv
  <2>3. QED
    BY <2>1, <2>2
<1>2. \A k \in 1..l : unacked[k] \in InForce
  <2>1. DOMAIN unacked = 1..l
    BY <1>1
  <2>2. QED
    BY <2>1 DEF InForce
<1>3. initWin \in InForce
  <2>1. initWin = IF a = 0 THEN pInit ELSE unacked[a]
    BY DEF CreditInv, InitAfter
  <2>2. a # 0 => a \in 1..l
    <3> HIDE DEF a, b, l
    <3>1. QED
      BY <1>1
  <2>3. pInit \in InForce
    BY DEF InForce
  <2>4. QED
    BY <1>2, <2>1, <2>2, <2>3
<1>4. ASSUME NEW i \in 1..Len(toClient), toClient[i].type = "settings"
      PROVE  toClient[i].n \in InForce
  <2> DEFINE c == CountTo(toClient, "settings", i)
  <2>1. toClient[i].n = unacked[a + c]
    BY <1>4 DEF CreditInv
  <2>2. c \in Nat /\ c >= 1 /\ c <= b
    BY <1>1, <1>4, Place
  <2>3. a + c \in 1..l
    <3> HIDE DEF a, b, c, l
    <3>1. QED
      BY <1>1, <2>2
  <2>4. QED
    BY <1>2, <2>1, <2>3
<1>5. QED
  BY <1>3, <1>4

\* No value on its way is beyond what the window can hold.
LEMMA BoundsIs ==
  ASSUME TypeInv, CreditInv, ~Does("overgrant"), Pending
  PROVE  /\ initWin + granted[active] <= MaxWindow
         /\ BoundsOn(toClient, active, granted[active])
BY DEF CreditInv, Bound, BoundsOn, Last, Of, For

\* No value ever is.
LEMMA BoundsStep ==
  ASSUME TypeInv, CallInv, CreditInv, Fresh, ResponseInv, ~Does("overgrant"), Next,
         Pending'
  PROVE  /\ initWin' + granted'[active'] <= MaxWindow
         /\ BoundsOn(toClient', active', granted'[active'])
<1> DEFINE G == granted[active]
           Fine(v, w, g) == v + g <= MaxWindow /\ BoundsOn(w, active, g)
<1>0. /\ toPeer \in Seq(Frames) /\ toClient \in Seq(Frames)
      /\ initWin \in Nat /\ MaxWindow \in Nat /\ up \in BOOLEAN
      /\ granted \in [Streams -> Int]
      /\ InCall => active \in Streams /\ active # 0 /\ G \in Int
  <2>1. /\ initWin \in 0..MaxWindow /\ MaxWindow \in Nat
        /\ toPeer \in Seq(Frames) /\ toClient \in Seq(Frames)
    BY Numbers
  <2>2. initWin \in Nat
    BY <2>1
  <2>3. InCall => active \in Streams /\ active # 0 /\ G \in Int
    BY Numbers DEF CallInv
  <2>4. up \in BOOLEAN /\ granted \in [Streams -> Int]
    BY DEF TypeInv, TypeOK, PeerOK
  <2>5. QED
    BY <2>1, <2>2, <2>3, <2>4
<1>1. Pending => Fine(initWin, toClient, G)
  BY BoundsIs
<1>2. ASSUME Pending, active' = active, Fine(initWin', toClient', granted'[active])
      PROVE  /\ initWin' + granted'[active'] <= MaxWindow
             /\ BoundsOn(toClient', active', granted'[active'])
  BY <1>2
<1>3. CASE \E k \in Kinds, b \in Bodies : Post(k, b)
  <2>1. /\ active' = sid /\ sid \in Streams /\ initWin' = initWin
        /\ toClient' = toClient /\ granted' = granted
    BY <1>3 DEF Post, peerVars, pSend
  <2>2. granted'[active'] = 0
    <3>1. sid \in Nat
      BY <2>1 DEF Streams
    <3>2. QED
      BY <2>1, <3>1 DEF Fresh
  <2>3. initWin' + 0 <= MaxWindow
    <3>1. initWin \in 0..MaxWindow
      BY Numbers
    <3>2. QED
      BY <1>0, <2>1, <3>1
  <2>4. BoundsOn(toClient, active', 0)
    <3>1. \A i \in 1..Len(toClient) : toClient[i].type = "settings" =>
            toClient[i].n <= MaxWindow
      BY DEF TypeInv, ToClientFrame
    <3>2. \A i \in 1..Len(toClient) : toClient[i].n \in Nat
      <4>1. \A i \in 1..Len(toClient) : toClient[i] \in Frames
        BY <1>0
      <4>2. QED
        BY <4>1 DEF Frames
    <3>3. \A n \in Nat : n <= MaxWindow => n + 0 <= MaxWindow
      BY <1>0
    <3>4. QED
      BY <3>1, <3>2, <3>3 DEF BoundsOn
  <2>5. QED
    BY <2>1, <2>2, <2>3, <2>4
<1>4. CASE SendChunk \/ Accept \/ UNCHANGED vars
  <2>1. /\ InCall /\ done' = done /\ active' = active /\ initWin' = initWin
        /\ toClient' = toClient /\ granted' = granted
    <3>1. CASE SendChunk
      BY <3>1 DEF SendChunk, connVars, peerVars, pSend, InCall
    <3>2. CASE Accept
      BY <3>2 DEF Accept, sendVars, connVars, peerVars, pSend, InCall
    <3>3. CASE UNCHANGED vars
      BY <3>3 DEF vars, sendVars, connVars, callVars, linkVars, peerVars, pSend,
         Pending, InCall
    <3>4. QED
      BY <1>4, <3>1, <3>2, <3>3
  <2>2. Pending
    BY <2>1 DEF Pending
  <2>3. QED
    BY <1>1, <1>2, <2>1, <2>2
<1>5. CASE Quiet
  <2>1. ~InCall'
    BY <1>5 DEF Quiet, Refuse, Complete, LinkFails, Fails, PostUnsent, PostRefused,
       InCall
  <2>2. QED
    BY <2>1 DEF Pending
<1>6. CASE ReadAny
  <2> DEFINE f == toClient[1]
  <2>1. /\ Reading /\ toClient # <<>> /\ toClient' = Tail(toClient)
        /\ f \in Arrived /\ f \in Frames /\ ToClientFrame(f) /\ 1 \in 1..Len(toClient)
        /\ granted' = granted
    <3>1. /\ Reading /\ toClient # <<>> /\ toClient' = Tail(toClient)
          /\ f \in Arrived /\ UNCHANGED peerVars
      BY <1>6, ReadWires, ClientLeavesPeer
    <3>2. f \in Frames /\ ToClientFrame(f) /\ 1 \in 1..Len(toClient)
      BY <3>1, Arrival
    <3>3. QED
      BY <3>1, <3>2 DEF peerVars, pSend
  <2>2. Pending /\ active' = active /\ ~Ends(f)
    <3>1. InCall'
      BY DEF Pending
    <3>2. CASE f.type \in Others /\ GoesOn
      BY <3>2 DEF GoesOn, callVars, Pending, InCall, Ends, Others, Control, Stray,
         Response
    <3>3. CASE at' = "idle" \/ Stops
      <4>1. ~InCall'
        BY <3>3 DEF Stops, InCall
      <4>2. QED
        BY <3>1, <4>1
    <3>4. CASE /\ f.type \in {"info", "final", "trailers", "data"} /\ Admits(f)
               /\ done' = f.end /\ active' = active
      <4>1. at = "recv" /\ ~done
        BY <2>1, <3>4 DEF Admits, Reading
      <4>2. ~f.end /\ f.type # "reset"
        BY <3>4 DEF Pending
      <4>3. QED
        BY <3>4, <4>1, <4>2 DEF Pending, InCall, Ends
    <3>5. QED
      BY <1>6, <3>2, <3>3, <3>4, ReadCall
  <2>3. Fine(initWin, toClient, G)
    BY <1>1, <2>2
  <2>4. BoundsOn(toClient', active, G)
    <3>1. ~Last(f, active)
      BY <2>2 DEF Last
    <3>2. QED
      BY <1>0, <2>1, <2>3, <3>1, BoundsRest
  <2>5. initWin' = initWin \/ (f.type = "settings" /\ initWin' = f.n)
    BY <1>6, ReadCredit DEF sendVars
  <2>6. initWin' + G <= MaxWindow
    <3>1. CASE initWin' = initWin
      BY <2>3, <3>1
    <3>2. CASE f.type = "settings" /\ initWin' = f.n
      <4>1. f.n + G <= MaxWindow \/ \E j \in 1..1 - 1 : Last(toClient[j], active)
        BY <2>1, <2>3, <3>2 DEF BoundsOn
      <4>2. QED
        BY <3>2, <4>1
    <3>3. QED
      BY <2>5, <3>1, <3>2
  <2>7. QED
    BY <1>2, <2>1, <2>2, <2>4, <2>6
<1>7. CASE PeerReads
  <2> DEFINE f == toPeer[1]
  <2>1. /\ Heard(f) /\ f.n \in Nat /\ UNCHANGED <<initWin, active>>
        /\ Pending' = Pending
    BY <1>7, PeerReadsCases DEF sendVars, connVars, callVars, Pending, InCall
  <2>2. Pending /\ Fine(initWin, toClient, G) /\ G \in Int /\ active \in Streams
    BY <1>0, <1>1, <2>1 DEF Pending
  <2>3. granted'[active] \in Int /\ granted'[active] <= G
    <3>1. CASE f.type = "data"
      <4>1. granted' = [granted EXCEPT ![f.sid] = @ - f.n]
        BY <2>1, <3>1 DEF Heard
      <4>2. QED
        BY <1>0, <2>1, <2>2, <4>1
    <3>2. CASE f.type # "data"
      <4>1. granted' = granted
        BY <2>1, <3>2 DEF Heard, pSend
      <4>2. QED
        BY <2>2, <4>1
    <3>3. QED
      BY <3>1, <3>2
  <2> DEFINE g == granted'[active]
  <2>4. initWin' + g <= MaxWindow
    <3>1. /\ initWin + G <= MaxWindow /\ G \in Int /\ g \in Int /\ g <= G
          /\ initWin' = initWin
      BY <2>1, <2>2, <2>3
    <3> HIDE DEF g, G
    <3>2. QED
      BY <1>0, <3>1
  <2>5. BoundsOn(toClient, active, g)
    <3>1. BoundsOn(toClient, active, G) /\ G \in Int /\ g \in Int /\ g <= G
      BY <2>2, <2>3
    <3> HIDE DEF g, G
    <3>2. QED
      BY <1>0, <3>1, BoundsLess
  <2>6. BoundsOn(toClient', active, g)
    <3>1. toClient' = toClient \/ toClient' = Append(toClient, Ack)
      BY <2>1 DEF Heard
    <3>2. BoundsOn(Append(toClient, Ack), active, g)
      <4> HIDE DEF g
      <4>1. QED
        BY <1>0, <2>5, AckPong, BoundsPut
    <3>3. QED
      BY <2>5, <3>1, <3>2
  <2>7. QED
    BY <1>2, <2>1, <2>2, <2>4, <2>6
<1>8. CASE Tells
  <2>1. PICK f \in Frames :
          toClient' = Append(toClient, f) /\ ToClientFrame(f) /\ Told(f)
    BY <1>8, TellsCases
  <2>2. up /\ UNCHANGED <<initWin, active>> /\ Pending' = Pending
    BY <1>8, TellsCases DEF sendVars, connVars, callVars, Pending, InCall
  <2>3. Pending /\ Fine(initWin, toClient, G) /\ G \in Int /\ active \in Streams /\ InCall
    BY <1>0, <1>1, <2>2 DEF Pending
  <2>4. CASE f.type = "settings"
    <3>1. /\ granted' = granted
          /\ reply[active] # "ended" => f.n + G <= MaxWindow
      BY <2>1, <2>3, <2>4 DEF Told
    <3>2. reply[active] = "ended" => \E j \in 1..Len(toClient) : Last(toClient[j], active)
      BY <2>2, <2>3 DEF ResponseInv, Ahead, Of, Last, For
    <3>3. BoundsOn(toClient', active, G)
      BY <1>0, <2>1, <2>3, <3>1, <3>2, BoundsPut
    <3>4. QED
      BY <1>2, <2>2, <2>3, <3>1, <3>3
  <2>5. CASE f.type = "update" /\ f.sid = active /\ granted' # granted
    <3>1. /\ \A v \in InForce : v + granted[f.sid] + f.n <= MaxWindow
          /\ granted' = [granted EXCEPT ![f.sid] = @ + f.n]
      BY <2>1, <2>3, <2>5 DEF Told, pSend, Streams
    <3>2. granted'[active] = G + f.n /\ f.n \in Nat
      BY <1>0, <2>3, <2>5, <3>1 DEF Frames
    <3>3. InForce \subseteq Nat
      <4>1. /\ pInit \in 0..MaxWindow /\ unacked \in Seq(0..MaxWindow)
            /\ \A v \in 0..MaxWindow : v \in Nat
        BY <1>0, Numbers
      <4>2. \A i \in DOMAIN unacked : unacked[i] \in 0..MaxWindow
        <5>1. DOMAIN unacked = 1..Len(unacked)
          BY <4>1
        <5>2. QED
          BY <4>1, <5>1, ElementOfSeq
      <4>3. QED
        BY <4>1, <4>2 DEF InForce
    <3>4. \A v \in InForce : v + granted'[active] <= MaxWindow
      <4> DEFINE n == f.n
      <4>1. \A v \in InForce : v + G + n <= MaxWindow /\ v \in Nat
        BY <2>5, <3>1, <3>3
      <4>2. G \in Int /\ n \in Nat /\ granted'[active] = G + n
        BY <2>3, <3>2
      <4> HIDE DEF G, n
      <4>3. QED
        BY <4>1, <4>2
    <3>5. /\ initWin \in InForce
          /\ \A i \in 1..Len(toClient) : toClient[i].type = "settings" =>
               toClient[i].n \in InForce
      BY <2>2, OnTheWay
    <3>6. BoundsOn(toClient, active, granted'[active])
      BY <3>4, <3>5 DEF BoundsOn
    <3>7. BoundsOn(toClient', active, granted'[active])
      BY <1>0, <2>1, <2>5, <3>6, BoundsPut
    <3>8. QED
      BY <1>2, <2>2, <2>3, <3>4, <3>5, <3>7
  <2>6. CASE /\ f.type # "settings"
             /\ ~(f.type = "update" /\ f.sid = active /\ granted' # granted)
    <3>1. granted'[active] = G
      <4>1. CASE granted' = granted
        BY <4>1
      <4>2. CASE granted' # granted
        <5>1. /\ f.type = "update" /\ f.sid \in Streams
              /\ granted' = [granted EXCEPT ![f.sid] = @ + f.n]
          BY <2>1, <4>2 DEF Told, pSend
        <5>2. f.sid # active
          BY <2>6, <4>2, <5>1
        <5>3. QED
          BY <1>0, <2>3, <5>1, <5>2
      <4>3. QED
        BY <4>1, <4>2
    <3>2. BoundsOn(toClient', active, G)
      BY <1>0, <2>1, <2>3, <2>6, BoundsPut
    <3>3. QED
      BY <1>2, <2>2, <2>3, <3>1, <3>2
  <2>7. QED
    BY <2>4, <2>5, <2>6
<1>9. CASE Cut
  <2>1. /\ UNCHANGED <<initWin, active, granted>> /\ Pending' = Pending
        /\ \E i \in 0..Len(toClient) : toClient' = SubSeq(toClient, 1, i)
    BY <1>9 DEF Cut, sendVars, connVars, callVars, peerVars, pSend, Pending, InCall
  <2>2. Pending /\ Fine(initWin, toClient, G)
    BY <1>1, <2>1
  <2>3. BoundsOn(toClient', active, G)
    BY <1>0, <2>1, <2>2, BoundsCut
  <2>4. QED
    BY <1>2, <2>1, <2>2, <2>3
<1>10. CASE Close
  BY <1>10 DEF Close, Pending, InCall
<1>11. QED
  BY <1>3, <1>4, <1>5, <1>6, <1>7, <1>8, <1>9, <1>10, Steps

\* Send credit stays exact.
LEMMA CreditStep ==
  ASSUME TypeInv, CallInv, CreditInv, Fresh, ResponseInv, Next
  PROVE  CreditInv'
<1>1. (~Does("overgrant"))' <=> ~Does("overgrant")
  BY Steps DEF Does, PeerDoes
<1> SUFFICES ASSUME ~Does("overgrant") PROVE CreditInv'
  BY <1>1 DEF CreditInv
<1>2. ~overrun' /\ pConn' <= MaxWindow
      /\ Balanced(connWin', DataOn(toPeer'), UpdatesOn(toClient', 0), pConn', up')
  BY OverrunStep, ConnStep
<1>3. active' # 0 =>
        Balanced(sendWin' - sendDebt' - initWin', StreamDataOn(toPeer', active'),
                 UpdatesOn(toClient', active'), granted'[active'], up')
  BY StreamStep
<1>4. SendCreditExact'
  BY <1>2, <1>3 DEF SendCreditExact, Balanced
<1>5. up' => /\ initWin' = After(pInit', unacked', Count(toPeer', "ack"))
             /\ Values(toClient', Count(toPeer', "ack"), unacked')
  BY InitsStep
<1>6. Within(toPeer', pInit', unacked', granted')
  BY WithinStep
<1>7. Pending' => /\ initWin' + granted'[active'] <= MaxWindow
                  /\ BoundsOn(toClient', active', granted'[active'])
  BY BoundsStep
<1>8. up' => /\ initWin' = InitAfter(Count(toPeer, "ack"))'
             /\ \A i \in 1..Len(toClient') : toClient'[i].type = "settings" =>
                  toClient'[i].n = unacked'[Count(toPeer', "ack")
                                              + CountTo(toClient', "settings", i)]
  BY <1>5 DEF InitAfter, After, Values
<1>9. \A i \in 1..Len(toPeer') : toPeer'[i].type = "data" =>
        BytesTo(toPeer', "data", {toPeer'[i].sid}, i)
          <= InitAfter(CountTo(toPeer, "ack", i))' + granted'[toPeer'[i].sid]
  BY <1>6 DEF InitAfter, After, Within
<1>10. Pending' =>
         /\ Bound(initWin)'
         /\ \A i \in 1..Len(toClient') : toClient'[i].type = "settings" =>
              \/ Bound(toClient[i].n)'
              \/ \E j \in 1..i - 1 : (Of(toClient[j], Response) /\ Ends(toClient[j]))'
  BY <1>7 DEF Bound, BoundsOn, Last, Of, For
<1>11. /\ connWin' + DataOn(toPeer') + UpdatesOn(toClient', 0) <= pConn'
       /\ active' # 0 => sendWin' - sendDebt' - initWin'
                           + StreamDataOn(toPeer', active')
                           + UpdatesOn(toClient', active') <= granted'[active']
  BY <1>2, <1>3 DEF Balanced
<1>12. QED
  BY <1>2, <1>4, <1>8, <1>9, <1>10, <1>11 DEF CreditInv

-----------------------------------------------------------------------------
(* What a client finds that can be used.                                   *)

Settled(s) ==
  \/ reply[s] = "ended"
  \/ /\ request[s] = "none" /\ reply[s] = "none"
     /\ \A i \in 1..Len(toPeer) : toPeer[i].type \in Requests => toPeer[i].sid # s
OnlyCurrent(w) == \A i \in 1..Len(w) : w[i].type \in Response =>
                    Pending /\ w[i].sid = active

\* The layer of the clean client, over a wire.
LEMMA CleanIs ==
  CleanInv <=> (~LeavesUnread /\ Usable =>
                  /\ OnlyCurrent(toClient)
                  /\ \A s \in Streams : s < sid /\ ~Current(s) => Settled(s))
BY DEF CleanInv, OnlyCurrent, Settled

\* What is over with a stream stays over.
LEMMA SettledStays ==
  ASSUME TypeInv, CallInv, CreditInv, RequestInv, Next,
         NEW s \in Streams, s < sid, ~Current(s), Settled(s)
  PROVE  Settled(s)'
<1>1. reply \in [Streams -> {"none", "open", "ended"}] /\ sid \in Nat /\ s \in Nat
      /\ request \in [Streams -> {"none", "open", "ended"}]
  <2>1. sid \in 1..MaxPosts + 1 /\ MaxPosts \in Nat
    BY Numbers
  <2>2. sid \in Nat
    BY <2>1
  <2>3. QED
    BY <2>2 DEF TypeInv, TypeOK, PeerOK, Streams
<1>2. reply[s] = "ended" => reply'[s] = "ended"
  <2>1. CASE Tells
    <3>1. PICK f \in Frames : toClient' = Append(toClient, f) /\ Told(f)
      BY <2>1, TellsCases
    <3>2. QED
      BY <1>1, <3>1 DEF Told, pReply
  <2>2. CASE PeerReads
    BY <2>2, PeerReadsCases
  <2>3. CASE Cut \/ UNCHANGED vars
    BY <2>3 DEF Cut, vars, peerVars, pReply
  <2>4. CASE \/ \E k \in Kinds, b \in Bodies : Post(k, b)
             \/ SendChunk \/ ReadAny \/ Accept \/ Quiet \/ Close
    BY <2>4, ClientLeavesPeer DEF peerVars, pReply
  <2>5. QED
    BY <2>1, <2>2, <2>3, <2>4, Steps
<1> SUFFICES ASSUME request[s] = "none", reply[s] = "none",
                    \A i \in 1..Len(toPeer) : toPeer[i].type \in Requests =>
                      toPeer[i].sid # s
             PROVE  /\ request'[s] = "none" /\ reply'[s] = "none"
                    /\ \A i \in 1..Len(toPeer') : toPeer'[i].type \in Requests =>
                         toPeer'[i].sid # s
  BY <1>2 DEF Settled
<1>3. request'[s] = "none" /\ reply'[s] = "none"
  <2>1. CASE Tells
    <3>1. PICK f \in Frames : toClient' = Append(toClient, f) /\ Told(f)
      BY <2>1, TellsCases
    <3>2. request' = request
      BY <3>1 DEF Told, pSend
    <3>3. reply' = reply \/ (f.sid # s /\ \E r : reply' = [reply EXCEPT ![f.sid] = r])
      BY <1>1, <3>1 DEF Told, pReply, Answers, Serving
    <3>4. QED
      BY <1>1, <3>2, <3>3
  <2>2. CASE PeerReads
    <3> DEFINE f == toPeer[1]
    <3>1. 1 \in 1..Len(toPeer) /\ reply' = reply /\ Heard(f)
      BY <2>2, PeerReadsCases
    <3>2. f.type \in Requests => f.sid # s
      BY <3>1
    <3>3. request'[s] = request[s]
      BY <1>1, <3>1, <3>2 DEF Heard, pSend, Requests
    <3>4. QED
      BY <3>1, <3>3
  <2>3. CASE Cut \/ UNCHANGED vars
    BY <2>3 DEF Cut, vars, peerVars, pSend, pReply
  <2>4. CASE \/ \E k \in Kinds, b \in Bodies : Post(k, b)
             \/ SendChunk \/ ReadAny \/ Accept \/ Quiet \/ Close
    BY <2>4, ClientLeavesPeer DEF peerVars, pSend, pReply
  <2>5. QED
    BY <2>1, <2>2, <2>3, <2>4, Steps
<1>4. ASSUME NEW i \in 1..Len(toPeer'), toPeer'[i].type \in Requests
      PROVE  toPeer'[i].sid # s
  <2>1. CASE \E j \in 1..Len(toPeer) : toPeer'[i] = toPeer[j]
    BY <1>4, <2>1
  <2>2. CASE NewToPeer(toPeer'[i])
    <3>1. toPeer'[i].sid = sid \/ (toPeer'[i].sid = active /\ at = "send")
      BY <1>4, <2>2 DEF NewToPeer, Requests
    <3>2. at = "send" => s # active
      BY DEF Current, InCall
    <3>3. QED
      BY <1>1, <3>1, <3>2
  <2>3. QED
    BY <2>1, <2>2, AddedToPeer
<1>5. QED
  BY <1>3, <1>4

\* A response frame that arrives is one that the call expects, unless it is a
\* reset or the peer answers early.
LEMMA Expected ==
  ASSUME TypeInv, CallInv, Fresh, RequestInv, ReplyInv, ResponseInv, CleanInv,
         ~LeavesUnread, NEW f \in Arrived, f.type \in Response
  PROVE  /\ InCall /\ Pending /\ f.sid = active /\ active \in Streams
         /\ OnlyCurrent(toClient)
         /\ ~Does("early") => f.type = "reset" \/ Admits(f)
<1>1. /\ Reading /\ toClient # <<>> /\ f = toClient[1]
      /\ 1 \in 1..Len(toClient) /\ f \in Frames /\ ToClientFrame(f)
  BY Arrival
<1>2. f.sid \in Streams
  BY <1>1 DEF ToClientFrame
<1>3. at # "handshake"
  <2>1. f.sid < sid
    BY <1>1 DEF Fresh
  <2>2. f.sid # 0 /\ f.sid \in Nat
    BY <1>2 DEF Streams
  <2>3. QED
    BY <2>1, <2>2 DEF CallInv
<1>4. InCall
  BY <1>1, <1>3 DEF Reading, InCall
<1>5. OnlyCurrent(toClient)
  BY <1>4, CleanIs DEF Usable
<1>6. Pending /\ f.sid = active /\ active \in Streams
  BY <1>1, <1>2, <1>5 DEF OnlyCurrent
<1>7. ASSUME ~Does("early"), f.type # "reset"
      PROVE  Admits(f)
  <2>1. request[active] = "ended"
    BY <1>1, <1>6, <1>7 DEF ReplyInv, Asked
  <2>2. at = "recv"
    BY <1>1, <1>3, <2>1 DEF RequestInv, Reading
  <2>3. gotFinal => f.type \notin {"info", "final"}
    BY <1>1, <1>4, <1>6 DEF ResponseInv, Of
  <2>4. ~gotFinal => f.type \notin {"data", "trailers"}
    <3>1. ASSUME ~gotFinal, f.type \in {"data", "trailers"}
          PROVE  FALSE
      <4>1. Of(toClient[1], {"data", "trailers"})
        BY <1>1, <1>6, <3>1 DEF Of
      <4>2. \E j \in 1..1 - 1 : Of(toClient[j], {"final"})
        BY <1>1, <1>4, <3>1, <4>1 DEF ResponseInv
      <4>3. QED
        BY <4>2
    <3>2. QED
      BY <3>1
  <2>5. /\ f.type = "info" => ~f.end
        /\ f.type = "trailers" => f.end
        /\ f.type = "data" => f.n <= MaxSend
    BY <1>1 DEF ToClientFrame
  <2>6. QED
    BY <1>6, <1>7, <2>2, <2>3, <2>4, <2>5 DEF Admits, Response
<1>8. QED
  BY <1>4, <1>5, <1>6, <1>7

\* A single response, without its first frame.
LEMMA OnlyRest ==
  ASSUME NEW w \in Seq(Frames), w # <<>>, OnlyCurrent(w)
  PROVE  OnlyCurrent(Tail(w))
<1>1. \A i \in 1..Len(Tail(w)) : i + 1 \in 1..Len(w) /\ Tail(w)[i] = w[i + 1]
  BY Rest
<1>2. QED
  BY <1>1 DEF OnlyCurrent

\* Nothing follows the end of a response, if there is no other.
LEMMA NoneBehind ==
  ASSUME TypeInv, ReplyInv, OnlyCurrent(toClient), toClient # <<>>,
         toClient[1].type \in Response, Ends(toClient[1])
  PROVE  \A i \in 1..Len(Tail(toClient)) : Tail(toClient)[i].type \notin Response
<1> DEFINE w == toClient
           v == Tail(toClient)
<1>1. w \in Seq(Frames)
  BY Numbers
<1>2. /\ 1 \in 1..Len(w) /\ Len(w) \in Nat
      /\ \A i \in 1..Len(v) : i + 1 \in 1..Len(w) /\ v[i] = w[i + 1]
  BY <1>1, Rest
<1> HIDE DEF w, v
<1> SUFFICES ASSUME NEW i \in 1..Len(v), v[i].type \in Response
             PROVE  FALSE
  BY DEF v
<1>3. i + 1 \in 1 + 1..Len(w) /\ i + 1 \in 1..Len(w) /\ v[i] = w[i + 1]
  BY <1>2
<1>4. w[1].sid = active /\ w[i + 1].sid = active
  BY <1>2, <1>3 DEF OnlyCurrent, w
<1>5. Alike(w[1], w[i + 1])
  BY <1>3, <1>4 DEF Alike, w
<1>6. ~Ends(w[1])
  BY <1>2, <1>3, <1>5 DEF ReplyInv, w
<1>7. QED
  BY <1>6 DEF w

\* At the handshake no stream is open.
LEMMA BeforeStreams ==
  ASSUME TypeInv, CallInv, Fresh, at = "handshake"
  PROVE  /\ \A i \in 1..Len(toClient) : toClient[i].type \notin Response
         /\ \A s \in Streams : ~(s < sid)
<1>1. sid = 1
  BY DEF CallInv
<1>2. \A s \in Streams : ~(s < 1)
  BY DEF Streams
<1>3. ASSUME NEW i \in 1..Len(toClient), toClient[i].type \in Response
      PROVE  FALSE
  <2>1. toClient[i].sid \in Streams
    BY <1>3 DEF TypeInv, ToClientFrame
  <2>2. toClient[i].sid < sid
    BY <1>3 DEF Fresh
  <2>3. QED
    BY <1>1, <1>2, <2>1, <2>2
<1>4. QED
  BY <1>1, <1>2, <1>3

\* A client that can be used has nothing of an earlier response before it.
LEMMA CleanStep ==
  ASSUME TypeInv, CallInv, CreditInv, Fresh, RequestInv, ReplyInv, ResponseInv, CleanInv,
         Next
  PROVE  CleanInv'
<1>0. LeavesUnread' = LeavesUnread /\ toClient \in Seq(Frames) /\ sid \in Nat
  <2>1. sid \in 1..MaxPosts + 1 /\ MaxPosts \in Nat /\ toClient \in Seq(Frames)
    BY Numbers
  <2>2. sid \in Nat
    BY <2>1
  <2>3. QED
    BY <2>1, <2>2, Steps DEF LeavesUnread, Refuses, Kinds, PeerDoes
<1>1. ASSUME ~LeavesUnread => OnlyCurrent(toClient)'
                /\ \A s \in Streams : s < sid' /\ ~Current(s)' => Settled(s)'
      PROVE  CleanInv'
  <2>1. (CleanInv <=> (~LeavesUnread /\ Usable =>
                  /\ OnlyCurrent(toClient)
                  /\ \A s \in Streams : s < sid /\ ~Current(s) => Settled(s)))'
    BY DEF CleanInv, OnlyCurrent, Settled
  <2>2. QED
    BY <1>0, <1>1, <2>1
<1>2. CASE ~Usable' \/ LeavesUnread
  BY <1>0, <1>2 DEF CleanInv
<1> SUFFICES ASSUME Usable', ~LeavesUnread PROVE CleanInv'
  BY <1>2
\* What is settled stays so; the current stream is settled when it is given up.
<1>3. Usable => /\ OnlyCurrent(toClient)
                /\ \A s \in Streams : s < sid /\ ~Current(s) => Settled(s)
  BY CleanIs
<1>4. \A s \in Streams : s < sid /\ ~Current(s) /\ Settled(s) => Settled(s)'
  BY SettledStays
<1>5. ASSUME Usable, sid' = sid, OnlyCurrent(toClient)',
             InCall => InCall' /\ active' = active
      PROVE  CleanInv'
  <2>1. \A s \in Streams : Current(s) => Current(s)'
    BY <1>5 DEF Current
  <2>2. QED
    BY <1>1, <1>3, <1>4, <1>5, <2>1
<1>6. ASSUME Usable, sid' = sid, OnlyCurrent(toClient)', UNCHANGED peerVars,
             InCall => reply[active] = "ended"
      PROVE  CleanInv'
  <2>1. \A s \in Streams : Current(s) => Settled(s)'
    BY <1>6 DEF Current, Settled, peerVars, pReply
  <2>2. QED
    BY <1>1, <1>3, <1>4, <1>6, <2>1
<1>7. ASSUME NEW w, toClient' = w, \A i \in 1..Len(w) : w[i].type \notin Response
      PROVE  OnlyCurrent(toClient)'
  BY <1>7 DEF OnlyCurrent
<1>8. ASSUME OnlyCurrent(toClient), ~Pending
      PROVE  \A i \in 1..Len(toClient) : toClient[i].type \notin Response
  BY <1>8 DEF OnlyCurrent
<1>9. CASE \E k \in Kinds : PostUnsent(k) \/ \E b \in Bodies : Post(k, b)
  <2>1. PICK k \in Kinds : PostUnsent(k) \/ \E b \in Bodies : Post(k, b)
    BY <1>9
  <2>2. /\ at = "idle" /\ open /\ sid' = sid + 1 /\ toClient' = toClient
        /\ UNCHANGED peerVars
        /\ (at' = "idle" /\ UNCHANGED toPeer) \/ (InCall' /\ active' = sid)
    BY <2>1 DEF PostUnsent, Post, linkVars, InCall
  <2>3. Usable /\ ~InCall /\ ~Pending
    BY <2>2 DEF Usable, InCall, Pending
  <2>4. OnlyCurrent(toClient)'
    BY <1>3, <1>7, <1>8, <2>2, <2>3
  <2>5. ASSUME NEW s \in Streams, s < sid', ~Current(s)'
        PROVE  Settled(s)'
    <3>1. CASE s < sid
      BY <1>3, <1>4, <2>3, <3>1 DEF Current
    <3>2. CASE s = sid
      <4>1. UNCHANGED toPeer
        BY <2>2, <2>5, <3>2 DEF Current
      <4>2. \A i \in 1..Len(toPeer) : toPeer[i].sid # s
        BY <1>0, <3>2 DEF Fresh
      <4>3. request[s] = "none" /\ reply[s] = "none"
        BY <1>0, <3>2 DEF Fresh
      <4>4. QED
        BY <2>2, <4>1, <4>2, <4>3 DEF Settled, peerVars, pSend, pReply
    <3>3. s < sid \/ s = sid
      <4>1. s \in Nat
        BY DEF Streams
      <4>2. QED
        BY <1>0, <2>2, <2>5, <4>1
    <3>4. QED
      BY <3>1, <3>2, <3>3
  <2>6. QED
    BY <1>1, <2>4, <2>5
<1>10. CASE SendChunk \/ Accept
  <2>1. /\ InCall /\ InCall' /\ Pending' = Pending
        /\ UNCHANGED <<active, sid, toClient>>
    BY <1>10 DEF SendChunk, Accept, InCall, Pending, connVars
  <2>2. OnlyCurrent(toClient)'
    BY <1>3, <2>1 DEF OnlyCurrent, Usable
  <2>3. QED
    BY <1>5, <2>1, <2>2 DEF Usable
<1>11. CASE Refuse \/ Complete
  <2>1. /\ InCall /\ done
    <3>1. CASE Complete
      BY <3>1 DEF Complete, InCall
    <3>2. CASE Refuse
      <4>1. ~(<<"into", "middle">> \in Refuses)
        BY DEF LeavesUnread
      <4>2. at' = "idle" /\ kind \in {"stream", "into"} /\ done \in BOOLEAN
        BY <3>2 DEF Refuse, TypeInv, TypeOK, ClientOK
      <4>3. open'
        BY <4>2 DEF Usable, InCall
      <4>4. QED
        BY <3>2, <4>1, <4>2, <4>3 DEF Refuse, InCall
    <3>3. QED
      BY <1>11, <3>1, <3>2
  <2>2. sid' = sid /\ toClient' = toClient /\ UNCHANGED peerVars
    BY <1>11 DEF Refuse, Complete, linkVars
  <2>3. reply[active] = "ended"
    BY <2>1 DEF ResponseInv
  <2>4. OnlyCurrent(toClient)'
    BY <1>3, <1>7, <1>8, <2>1, <2>2 DEF Usable, Pending
  <2>5. QED
    BY <1>6, <2>1, <2>2, <2>3, <2>4 DEF Usable
<1>12. ASSUME kind = "into"
       PROVE  /\ ~Does("cut") /\ ~Does("early")
              /\ ~Does("overgrant") /\ ~Does("unsupported")
  BY <1>12 DEF CallInv, LeavesUnread, Does
<1>13. CASE LinkFails \/ \E k \in Kinds : PostRefused(k)
  <2>1. CASE \E k \in Kinds : PostRefused(k)
    BY <2>1 DEF PostRefused, Usable, InCall
  <2>2. CASE LinkFails
    <3>1. ~up /\ at # "closed"
      BY <2>2 DEF LinkFails, Reading, Arrived
    <3>2. Does("cut")
      BY <3>1 DEF CallInv
    <3>3. open' => kind = "into"
      BY <2>2 DEF LinkFails, Fails
    <3>4. ~InCall'
      BY <2>2 DEF LinkFails, Fails, InCall
    <3>5. QED
      BY <1>12, <3>2, <3>3, <3>4 DEF Usable
  <2>3. QED
    BY <1>13, <2>1, <2>2
<1>14. CASE ReadAny
  <2> DEFINE f == toClient[1]
  <2>1. /\ Reading /\ toClient # <<>> /\ toClient' = Tail(toClient) /\ f \in Arrived
        /\ f \in Frames /\ ToClientFrame(f) /\ UNCHANGED peerVars
        /\ sid' = sid /\ 1 \in 1..Len(toClient)
    <3>1. /\ Reading /\ toClient # <<>> /\ toClient' = Tail(toClient) /\ f \in Arrived
          /\ UNCHANGED peerVars
      BY <1>14, ReadWires, ClientLeavesPeer
    <3>2. sid' = sid
      BY <1>14, ReadCall
    <3>3. QED
      BY <3>1, <3>2, Arrival
  <2>2. CASE f.type \in Others /\ GoesOn
    <3>1. /\ Usable /\ Pending' = Pending /\ active' = active
          /\ InCall' = InCall
      BY <2>2 DEF GoesOn, callVars, Usable, Pending, InCall
    <3>2. OnlyCurrent(Tail(toClient))
      BY <1>0, <1>3, <2>1, <3>1, OnlyRest
    <3>3. OnlyCurrent(toClient)'
      BY <2>1, <3>1, <3>2 DEF OnlyCurrent
    <3>4. QED
      BY <1>5, <2>1, <3>1, <3>3
  <2>3. CASE at = "handshake" /\ at' = "idle"
    <3>1. /\ \A i \in 1..Len(toClient) : toClient[i].type \notin Response
          /\ \A s \in Streams : ~(s < sid)
      BY <2>3, BeforeStreams
    <3>2. \A i \in 1..Len(Tail(toClient)) : Tail(toClient)[i].type \notin Response
      <4>1. \A i \in 1..Len(Tail(toClient)) :
              i + 1 \in 1..Len(toClient) /\ Tail(toClient)[i] = toClient[i + 1]
        BY <1>0, <2>1, Rest
      <4>2. QED
        BY <3>1, <4>1
    <3>3. QED
      BY <1>1, <1>7, <2>1, <3>1, <3>2
  <2>4. CASE Stops /\ (Does("overgrant") \/ Does("unsupported") \/ ~open')
    <3>1. ~InCall' /\ (open' => kind = "into")
      BY <2>4 DEF Stops, InCall
    <3>2. QED
      BY <1>12, <2>4, <3>1 DEF Usable
  <2>5. CASE f.type \in Response /\ ~Admits(f) /\ Stops
    <3>1. ~InCall' /\ (open' => kind = "into") /\ Usable'
      BY <2>5 DEF Stops, InCall
    <3>2. kind = "into"
      BY <3>1 DEF Usable
    <3>3. /\ InCall /\ f.sid = active /\ active \in Streams /\ OnlyCurrent(toClient)
          /\ f.type = "reset"
      BY <1>12, <2>1, <2>5, <3>2, Expected
    <3>4. Ends(f) /\ reply[active] = "ended"
      BY <2>1, <3>3 DEF Ends, Response, ReplyInv
    <3>5. OnlyCurrent(toClient)'
      BY <1>7, <2>1, <2>5, <3>3, <3>4, NoneBehind
    <3>6. QED
      BY <1>6, <2>1, <3>3, <3>4, <3>5 DEF Usable
  <2>6. CASE /\ f.type \in Response \ {"reset"} /\ Admits(f) /\ done' = f.end
             /\ active' = active /\ at' \in {"recv", "deliver"}
    <3>1. InCall /\ InCall' /\ at = "recv"
      BY <2>6 DEF Admits, InCall
    <3>2. OnlyCurrent(toClient)
      BY <1>3, <3>1 DEF Usable
    <3>3. CASE f.end
      <4>1. Ends(f)
        BY <2>6, <3>3 DEF Ends
      <4>2. OnlyCurrent(toClient)'
        BY <1>7, <2>1, <2>6, <3>2, <4>1, NoneBehind
      <4>3. QED
        BY <1>5, <2>1, <2>6, <3>1, <4>2 DEF Usable
    <3>4. CASE ~f.end
      <4>1. OnlyCurrent(Tail(toClient)) /\ Pending'
        BY <1>0, <2>1, <2>6, <3>1, <3>2, <3>4, OnlyRest DEF Pending
      <4>2. OnlyCurrent(toClient)'
        BY <2>1, <2>6, <4>1 DEF OnlyCurrent
      <4>3. QED
        BY <1>5, <2>1, <2>6, <3>1, <4>2 DEF Usable
    <3>5. QED
      BY <3>3, <3>4
  <2>7. f.type \in Response \ {"reset"} /\ Admits(f) /\ at' = at =>
          at' \in {"recv", "deliver"}
    BY DEF Admits
  <2>8. QED
    BY <1>14, <2>2, <2>3, <2>4, <2>5, <2>6, <2>7, ReadCall DEF Response
<1>15. CASE Close
  BY <1>15 DEF Close, Usable, InCall
<1>16. CASE PeerReads \/ Tells \/ Cut \/ UNCHANGED vars
  <2>1. UNCHANGED <<callVars, connVars>>
    BY <1>16, PeerReadsCases, TellsCases DEF Cut, vars
  <2>2. /\ UNCHANGED <<sid, active>> /\ Pending' = Pending /\ InCall' = InCall /\ Usable
    BY <2>1 DEF callVars, connVars, Pending, InCall, Usable
  <2>3. OnlyCurrent(toClient)
    BY <1>3, <2>2
  <2>4. CASE PeerReads \/ UNCHANGED vars
    <3>1. toClient' = toClient \/ toClient' = Append(toClient, Ack)
      BY <2>4, PeerReadsCases DEF Heard, vars, linkVars
    <3>2. OnlyCurrent(Append(toClient, Ack))
      <4>1. Ack.type \notin Response /\ Ack \in Frames
        BY AckPong DEF Response
      <4>2. \A i \in 1..Len(Append(toClient, Ack)) :
              \/ i \in 1..Len(toClient) /\ Append(toClient, Ack)[i] = toClient[i]
              \/ Append(toClient, Ack)[i] = Ack
        BY <1>0, <4>1, Behind
      <4>3. QED
        BY <2>3, <4>1, <4>2 DEF OnlyCurrent
    <3>3. OnlyCurrent(toClient)'
      BY <2>2, <2>3, <3>1, <3>2 DEF OnlyCurrent
    <3>4. QED
      BY <1>5, <2>2, <3>3
  <2>5. CASE Cut
    <3>1. PICK m \in 0..Len(toClient) : toClient' = SubSeq(toClient, 1, m)
      BY <2>5 DEF Cut
    <3>2. \A i \in 1..Len(toClient') :
            i \in 1..Len(toClient) /\ toClient'[i] = toClient[i]
      BY <1>0, <3>1
    <3>3. OnlyCurrent(toClient)'
      BY <2>2, <2>3, <3>2 DEF OnlyCurrent
    <3>4. QED
      BY <1>5, <2>2, <3>3
  <2>6. CASE Tells
    <3>1. PICK f \in Frames :
            toClient' = Append(toClient, f) /\ ToClientFrame(f) /\ Told(f)
      BY <2>6, TellsCases
    <3>2. ASSUME f.type \in Response
          PROVE  Pending /\ f.sid = active
      <4>1. f.sid \in Streams
        BY <3>1, <3>2 DEF ToClientFrame
      <4>2. /\ reply[f.sid] # "ended"
            /\ reply[f.sid] = "open" \/ request[f.sid] # "none"
        BY <3>1, <3>2 DEF Told, Answers, Serving, Response
      <4>3. f.sid < sid
        <5>1. f.sid \in Nat
          BY <4>1 DEF Streams
        <5>2. ~(f.sid >= sid)
          BY <4>1, <4>2 DEF Fresh
        <5>3. QED
          BY <1>0, <5>1, <5>2
      <4>4. Current(f.sid)
        BY <1>3, <2>2, <4>1, <4>2, <4>3 DEF Settled
      <4>5. InCall /\ f.sid = active
        BY <4>4 DEF Current
      <4>6. ~done
        BY <4>2, <4>5 DEF ResponseInv
      <4>7. QED
        BY <4>5, <4>6 DEF Pending
    <3>3. \A i \in 1..Len(toClient') :
            (i \in 1..Len(toClient) /\ toClient'[i] = toClient[i]) \/ toClient'[i] = f
      BY <1>0, <3>1, Behind
    <3>4. OnlyCurrent(toClient)'
      BY <2>2, <2>3, <3>2, <3>3 DEF OnlyCurrent
    <3>5. QED
      BY <1>5, <2>2, <3>4
  <2>7. QED
    BY <1>16, <2>4, <2>5, <2>6
<1>17. QED
  BY <1>9, <1>10, <1>11, <1>13, <1>14, <1>15, <1>16, Steps DEF Quiet

-----------------------------------------------------------------------------
(* What a call returns.                                                    *)

\* The ways a step may leave the result: only the end of a response is "ok".
LEMMA Returns ==
  ASSUME TypeInv, CallInv, CreditInv, Next
  PROVE  \/ UNCHANGED <<callVars, sid>>
         \/ UNCHANGED <<result, sid>> /\ at' \notin {"handshake", "idle"}
         \/ Complete
         \/ \E k \in Kinds, b \in Bodies : Post(k, b)
         \/ /\ ReadAny /\ at = "handshake" /\ at' = "idle"
            /\ UNCHANGED <<result, sid>>
         \/ /\ result' \in Errors /\ at' # "handshake"
            /\ result' = "ProtocolFailed" => ReadAny
<1>1. CASE SendChunk \/ Accept \/ Close
  BY <1>1 DEF SendChunk, Accept, Close, connVars
<1>2. CASE ReadAny
  <2>1. toClient[1].type \in {"info", "final", "trailers"} /\ Admits(toClient[1]) =>
          at = "recv"
    BY DEF Admits
  <2>2. ASSUME Stops PROVE at' # "handshake"
    BY <2>2 DEF Stops
  <2>3. {"Closed", "ProtocolFailed"} \subseteq Errors
    BY DEF Errors
  <2>4. QED
    BY <1>2, <2>1, <2>2, <2>3, ReadCall DEF GoesOn
<1>3. CASE PeerReads \/ Tells \/ Cut \/ UNCHANGED vars
  BY <1>3, PeerReadsCases, TellsCases DEF Cut, vars, connVars
<1>4. CASE Quiet /\ ~Complete
  <2>1. {"Receiver", "RecvFailed", "SendFailed", "Closed"} \subseteq Errors
    BY DEF Errors
  <2>2. CASE Refuse
    BY <2>1, <2>2 DEF Refuse
  <2>3. CASE LinkFails
    BY <2>1, <2>3 DEF LinkFails, Fails
  <2>4. CASE \E k \in Kinds : PostUnsent(k) \/ PostRefused(k)
    BY <2>1, <2>4 DEF PostUnsent, PostRefused
  <2>5. QED
    BY <1>4, <2>2, <2>3, <2>4 DEF Quiet
<1>5. QED
  BY <1>1, <1>2, <1>3, <1>4, Steps

\* No call has ended well before the first.
LEMMA ResultStep ==
  ASSUME TypeInv, CallInv, CreditInv, ResultInv, Next
  PROVE  ResultInv'
<1>1. sid \in Nat /\ sid >= 1
  <2>1. sid \in 1..MaxPosts + 1 /\ MaxPosts \in Nat
    BY Numbers
  <2>2. QED
    BY <2>1
<1>2. CASE UNCHANGED <<callVars, sid>>
  BY <1>2 DEF ResultInv, callVars
<1>3. CASE UNCHANGED <<result, sid>> /\ at' # "handshake"
  BY <1>3 DEF ResultInv
<1>4. CASE Complete
  <2>1. at' = "idle" /\ sid' = sid /\ active # 0
    BY <1>4 DEF Complete, CallInv, InCall
  <2>2. sid # 1
    BY <2>1 DEF CallInv
  <2>3. QED
    BY <2>1, <2>2 DEF ResultInv
<1>5. CASE \E k \in Kinds, b \in Bodies : Post(k, b)
  BY <1>5 DEF Post, ResultInv
<1>6. CASE result' \in Errors /\ at' # "handshake"
  BY <1>6 DEF ResultInv, Errors
<1>7. QED
  BY <1>2, <1>3, <1>4, <1>5, <1>6, Returns

\* Nothing else makes a call fail with ProtocolFailed.
LEMMA AlarmStep ==
  ASSUME TypeInv, CallInv, CreditInv, Fresh, RequestInv, ReplyInv, ResponseInv, CleanInv,
         FailsForCause, Next
  PROVE  FailsForCause'
<1>1. /\ LeavesUnread' = LeavesUnread
      /\ (PeerDoes \cap Causes # {})' <=> PeerDoes \cap Causes # {}
  BY Steps DEF LeavesUnread, Refuses, Kinds, PeerDoes
<1> SUFFICES ASSUME ~Does("early"), ~Does("reset"), ~Does("overgrant"),
                    ~Does("unsupported"), ~LeavesUnread,
                    result # "ProtocolFailed", result' = "ProtocolFailed"
             PROVE  FALSE
  BY <1>1 DEF FailsForCause, Causes, Does
<1>2. ReadAny
  BY Returns DEF callVars, Complete, Post
<1>3. toClient[1] \in Arrived /\ ToClientFrame(toClient[1])
  BY <1>2, ReadWires, Arrival
<1>4. toClient[1].type \in Response /\ ~Admits(toClient[1])
  BY <1>2, ReadCall DEF GoesOn, callVars
<1>5. toClient[1].type # "reset"
  BY <1>3 DEF ToClientFrame
<1>6. QED
  BY <1>3, <1>4, <1>5, Expected

\* A response that has ended has ended for good.
LEMMA EndedStays ==
  ASSUME TypeInv, Next, NEW s \in Streams, reply[s] = "ended"
  PROVE  reply'[s] = "ended" /\ owed'[s] = owed[s] /\ sent'[s] = sent[s]
<1>1. /\ reply \in [Streams -> {"none", "open", "ended"}]
      /\ owed \in [Streams -> Nat] /\ sent \in [Streams -> Nat]
  BY DEF TypeInv, TypeOK, PeerOK
<1>2. CASE Tells
  <2>1. PICK f \in Frames : toClient' = Append(toClient, f) /\ Told(f)
    BY <1>2, TellsCases
  <2>2. QED
    BY <1>1, <2>1 DEF Told, pReply
<1>3. CASE PeerReads
  BY <1>3, PeerReadsCases
<1>4. CASE Cut \/ UNCHANGED vars
  BY <1>4 DEF Cut, vars, peerVars, pReply
<1>5. CASE \/ \E k \in Kinds, b \in Bodies : Post(k, b)
           \/ SendChunk \/ ReadAny \/ Accept \/ Quiet \/ Close
  BY <1>5, ClientLeavesPeer DEF peerVars, pReply
<1>6. QED
  BY <1>2, <1>3, <1>4, <1>5, Steps

\* What a call that returned Ok has said stays true.
LEMMA WholeStep ==
  ASSUME TypeInv, CallInv, CreditInv, RequestInv, ResponseInv, ResultInv,
         WholeOnSuccess, Next
  PROVE  WholeOnSuccess'
<1> DEFINE s == sid - 1
<1>1. sid \in 1..MaxPosts + 1 /\ MaxPosts \in Nat /\ got \in Nat
  BY Numbers
<1>2. CASE UNCHANGED <<callVars, sid>>
  <2> SUFFICES ASSUME at = "idle", result = "ok"
               PROVE  /\ got = sent'[s] /\ owed'[s] = 0 /\ reply'[s] = "ended"
                      /\ left = 0 /\ Asked(s)'
    BY <1>2 DEF WholeOnSuccess, callVars, Asked
  <2>1. s \in Streams
    BY <1>1 DEF ResultInv, Streams
  <2>2. got = sent[s] /\ owed[s] = 0 /\ reply[s] = "ended" /\ left = 0 /\ Asked(s)
    BY DEF WholeOnSuccess, Asked
  <2>3. reply'[s] = "ended" /\ owed'[s] = owed[s] /\ sent'[s] = sent[s]
    BY <2>1, <2>2, EndedStays
  <2>4. \A t \in Streams : Asked(t) => Asked(t)'
    BY AskedStays
  <2>5. Asked(s)'
    BY <1>2, <2>1, <2>2, <2>4 DEF Asked
  <2>6. QED
    BY <2>2, <2>3, <2>5
<1>3. CASE Complete
  <2>1. /\ at = "recv" /\ done /\ sid' = sid /\ got' = got /\ left' = left
        /\ UNCHANGED peerVars
    BY <1>3 DEF Complete
  <2>2. active # 0 /\ active = s /\ left = 0
    BY <2>1 DEF CallInv, InCall
  <2>3. /\ reply[s] = "ended" /\ owed[s] = 0 /\ Asked(s) /\ got + InHand = sent[s]
    BY <2>1, <2>2 DEF ResponseInv, InCall
  <2>4. got = sent[s]
    <3>1. InHand = 0
      BY <2>1 DEF InHand
    <3>2. QED
      BY <1>1, <2>3, <3>1
  <2>5. PeerDoes' = PeerDoes
    BY Steps DEF PeerDoes
  <2>6. QED
    BY <2>1, <2>2, <2>3, <2>4, <2>5
       DEF WholeOnSuccess, Asked, Does, peerVars, pSend, pReply
<1>4. CASE \E k \in Kinds, b \in Bodies : Post(k, b)
  BY <1>4 DEF Post, WholeOnSuccess
<1>5. CASE result' # "ok" \/ at' # "idle"
  BY <1>5 DEF WholeOnSuccess
<1>6. CASE at = "handshake" /\ result' = result
  BY <1>5, <1>6 DEF ResultInv
<1>7. result' \in Errors => result' # "ok"
  BY DEF Errors
<1>8. QED
  BY <1>2, <1>3, <1>4, <1>5, <1>6, <1>7, Returns

-----------------------------------------------------------------------------
(* Receive credit.                                                         *)

\* Where receive credit is claimed to be exact.
Held == /\ up /\ at # "dead" /\ (open \/ at # "idle")
        /\ Refuses \subseteq {<<"stream", "middle">>} /\ ~LeavesUnread

\* The steps that leave it so.
LEMMA HeldBefore ==
  ASSUME TypeInv, CallInv, CreditInv, Fresh, RequestInv, ReplyInv, ResponseInv, CleanInv,
         Next, Held'
  PROVE  /\ Held /\ ~Cut /\ ~Close
         /\ Quiet => Complete \/ \E k \in Kinds : PostUnsent(k)
         /\ ReadAny =>
              LET f == toClient[1] IN
              \/ /\ f.type = "data" /\ at = "recv" /\ at' = "deliver" /\ credit' = f.n
                 /\ f.sid = active /\ active' = active
              \/ /\ f.type # "data" /\ at # "deliver" /\ at' # "deliver"
                 /\ active' = active
<1>0. /\ UNCHANGED scene /\ LeavesUnread' = LeavesUnread /\ Refuses' = Refuses
      /\ ~LeavesUnread /\ up' /\ at' # "dead" /\ (open' \/ at' # "idle")
      /\ Refuses \subseteq {<<"stream", "middle">>}
  BY Steps DEF Held, LeavesUnread, Refuses, Kinds, PeerDoes
<1>1. ~Cut /\ ~Close
  BY <1>0 DEF Cut, Close
<1>2. up
  <2>1. CASE \/ \E k \in Kinds, b \in Bodies : Post(k, b)
             \/ SendChunk \/ ReadAny \/ Accept \/ Quiet
    BY <1>0, <1>1, <2>1, ClientLeavesPeer
  <2>2. CASE PeerReads \/ Tells \/ UNCHANGED vars
    BY <1>0, <2>2, PeerReadsCases, TellsCases DEF vars, linkVars
  <2>3. QED
    BY <1>1, <2>1, <2>2, Steps
<1>3. ASSUME kind = "into"
      PROVE  ~Does("early") /\ ~Does("overgrant") /\ ~Does("unsupported")
  BY <1>0, <1>3 DEF CallInv, LeavesUnread, Does
<1>4. ASSUME Quiet
      PROVE  Complete \/ \E k \in Kinds : PostUnsent(k)
  <2>1. ~LinkFails
    BY <1>2 DEF LinkFails
  <2>2. ~ \E k \in Kinds : PostRefused(k)
    BY <1>0 DEF PostRefused
  <2>3. ~Refuse
    <3>1. ASSUME Refuse PROVE FALSE
      <4>1. kind = "stream" /\ ~done
        BY <1>0, <3>1 DEF Refuse
      <4>2. at' = "idle" /\ ~open'
        BY <3>1, <4>1 DEF Refuse
      <4>3. QED
        BY <1>0, <4>2
    <3>2. QED
      BY <3>1
  <2>4. QED
    BY <1>4, <2>1, <2>2, <2>3 DEF Quiet
<1>5. ASSUME ReadAny
      PROVE  LET f == toClient[1] IN
             \/ /\ f.type = "data" /\ at = "recv" /\ at' = "deliver" /\ credit' = f.n
                /\ f.sid = active /\ active' = active
             \/ /\ f.type # "data" /\ at # "deliver" /\ at' # "deliver"
                /\ active' = active
  <2> DEFINE f == toClient[1]
  <2>1. f \in Arrived /\ at \in {"handshake", "send", "recv"}
    BY <1>5, ReadWires DEF Reading
  <2>2. CASE f.type \in Others /\ (GoesOn \/ (at' = "idle" /\ active' = active))
    BY <2>1, <2>2 DEF GoesOn, callVars, Others, Control, Stray
  <2>3. CASE Stops /\ (Does("overgrant") \/ Does("unsupported") \/ ~open')
    <3>1. at' = "idle" /\ kind = "into" /\ open'
      BY <1>0, <2>3 DEF Stops
    <3>2. QED
      BY <1>3, <2>3, <3>1
  <2>4. CASE f.type \in Response /\ ~Admits(f) /\ Stops
    <3>1. at' = "idle" /\ kind = "into" /\ active' = active
      BY <1>0, <2>4 DEF Stops
    <3>2. f.type = "reset"
      BY <1>0, <1>3, <2>1, <2>4, <3>1, Expected
    <3>3. QED
      BY <2>1, <3>1, <3>2
  <2>5. CASE /\ f.type \in {"info", "final", "trailers"} /\ Admits(f)
             /\ UNCHANGED <<at, active>>
    BY <2>1, <2>5
  <2>6. CASE /\ f.type = "data" /\ Admits(f) /\ at' = "deliver" /\ credit' = f.n
             /\ active' = active
    BY <2>6 DEF Admits
  <2>7. QED
    BY <1>5, <2>2, <2>3, <2>4, <2>5, <2>6, ReadCall DEF Others, Control, Stray
<1>6. at # "dead" /\ (open \/ at # "idle")
  <2>1. CASE \E k \in Kinds, b \in Bodies : Post(k, b)
    BY <2>1 DEF Post
  <2>2. CASE SendChunk \/ Accept
    BY <2>2 DEF SendChunk, Accept
  <2>3. CASE ReadAny
    BY <1>5, <2>3, ReadWires DEF Reading
  <2>4. CASE Quiet
    BY <1>4, <2>4 DEF Complete, PostUnsent
  <2>5. CASE PeerReads \/ Tells \/ UNCHANGED vars
    BY <1>0, <2>5, PeerReadsCases, TellsCases DEF vars, callVars, connVars
  <2>6. QED
    BY <1>1, <2>1, <2>2, <2>3, <2>4, <2>5, Steps
<1>7. QED
  BY <1>0, <1>1, <1>2, <1>4, <1>5, <1>6 DEF Held

\* Only a chunk that is accepted gives credit back.
LEMMA UpdatesKept ==
  ASSUME TypeInv, CallInv, \/ \E k \in Kinds, b \in Bodies : Post(k, b)
                           \/ SendChunk \/ ReadAny \/ Quiet \/ Tells
  PROVE  \A s : UpdatesOn(toPeer', s) = UpdatesOn(toPeer, s)
<1>1. ASSUME NEW f \in Frames, f.type # "update", Sent(f), NEW s
      PROVE  UpdatesOn(toPeer', s) = UpdatesOn(toPeer, s)
  <2> DEFINE u == UpdatesOn(toPeer, s)
             u1 == UpdatesOn(toPeer', s)
             c == Carries(f, "update", {s})
  <2>1. c = 0
    BY <1>1 DEF Carries
  <2>2. u1 = IF up THEN u + c ELSE u
    BY <1>1, SentBytes DEF UpdatesOn
  <2>3. u \in Nat
    BY Numbers
  <2> HIDE DEF u, u1, c
  <2>4. u1 = u
    BY <2>1, <2>2, <2>3
  <2>5. QED
    BY <2>4 DEF u, u1
<1>2. CASE \E k \in Kinds, b \in Bodies : Post(k, b)
  <2>1. PICK k \in Kinds, b \in Bodies : Post(k, b)
    BY <1>2
  <2> DEFINE f == Frame("headers", sid, 0, b = 0)
  <2>2. f \in Frames /\ Sent(f) /\ f.type = "headers"
    BY <2>1, SentFrame DEF Frame
  <2> HIDE DEF f
  <2>3. QED
    BY <1>1, <2>2
<1>3. CASE SendChunk
  <2>1. PICK n \in Nat, f \in Frames : f.type = "data" /\ Sent(f)
    BY <1>3, ChunkSent
  <2>2. QED
    BY <1>1, <2>1
<1>4. CASE ReadAny
  <2>1. toPeer' = toPeer \/ Sent(Ack) \/ Sent(Pong)
    BY <1>4, ReadWires
  <2>2. /\ Ack \in Frames /\ Ack.type # "update"
        /\ Pong \in Frames /\ Pong.type # "update"
    BY AckPong
  <2>3. QED
    BY <1>1, <2>1, <2>2
<1>5. CASE Quiet \/ Tells
  BY <1>5, QuietWires, TellsCases
<1>6. QED
  BY <1>2, <1>3, <1>4, <1>5

\* The credit that an accepted chunk gives back.
LEMMA UpdatesAccepted ==
  ASSUME TypeInv, CallInv, Accept, up
  PROVE  /\ UpdatesOn(toPeer', 0) = UpdatesOn(toPeer, 0) + credit
         /\ ~done => UpdatesOn(toPeer', active) = UpdatesOn(toPeer, active) + credit
<1> DEFINE f == Frame("update", active, credit, FALSE)
           g == Frame("update", 0, credit, FALSE)
           c == credit
<1>1. /\ f \in Frames /\ g \in Frames
      /\ toPeer' = IF c = 0 THEN toPeer
                   ELSE IF done THEN Append(toPeer, g)
                   ELSE Append(Append(toPeer, f), g)
  BY WriteUpdates
<1>2. active # 0 /\ toPeer \in Seq(Frames) /\ c \in Nat
  BY Numbers DEF Accept, CallInv, InCall
<1>3. /\ Carries(f, "update", {0}) = 0 /\ Carries(g, "update", {0}) = c
      /\ Carries(f, "update", {active}) = c /\ Carries(g, "update", {active}) = 0
  BY <1>2 DEF Frame, Carries
<1> HIDE DEF f, g, c
<1>4. Append(toPeer, f) \in Seq(Frames)
  BY <1>1, <1>2
<1>5. ASSUME NEW s
      PROVE  /\ UpdatesOn(Append(toPeer, g), s)
                  = UpdatesOn(toPeer, s) + Carries(g, "update", {s})
             /\ UpdatesOn(Append(Append(toPeer, f), g), s)
                  = UpdatesOn(toPeer, s) + Carries(f, "update", {s})
                      + Carries(g, "update", {s})
  <2> DEFINE w == Append(toPeer, f)
  <2>1. w \in Seq(Frames)
    BY <1>4
  <2>2. \A v \in Seq(Frames), e \in Frames :
          UpdatesOn(Append(v, e), s) = UpdatesOn(v, s) + Carries(e, "update", {s})
    BY Put DEF UpdatesOn
  <2>3. UpdatesOn(w, s) = UpdatesOn(toPeer, s) + Carries(f, "update", {s})
    BY <1>1, <1>2, <2>2
  <2>4. UpdatesOn(Append(toPeer, g), s)
          = UpdatesOn(toPeer, s) + Carries(g, "update", {s})
    BY <1>1, <1>2, <2>2
  <2> HIDE DEF w
  <2>5. UpdatesOn(Append(w, g), s) = UpdatesOn(w, s) + Carries(g, "update", {s})
    BY <1>1, <2>1, <2>2
  <2>6. QED
    BY <2>3, <2>4, <2>5 DEF w
<1>6. UpdatesOn(toPeer, 0) \in Nat /\ UpdatesOn(toPeer, active) \in Nat
  BY Numbers
<1> DEFINE a == UpdatesOn(toPeer, 0)
           b == UpdatesOn(toPeer, active)
           a1 == UpdatesOn(Append(toPeer, g), 0)
           a2 == UpdatesOn(Append(Append(toPeer, f), g), 0)
           b2 == UpdatesOn(Append(Append(toPeer, f), g), active)
<1>7. a1 = a + c /\ a2 = a + 0 + c /\ b2 = b + c + 0 /\ a \in Nat /\ b \in Nat
  BY <1>3, <1>5, <1>6
<1> HIDE DEF a, b, a1, a2, b2
<1>8. a1 = a + c /\ a2 = a + c /\ b2 = b + c /\ a = a + 0 /\ b = b + 0
  BY <1>2, <1>7
<1>9. CASE c = 0
  BY <1>1, <1>8, <1>9 DEF a, b, c
<1>10. CASE c # 0
  BY <1>1, <1>8, <1>10 DEF a, b, a1, a2, b2, c
<1>11. QED
  BY <1>9, <1>10

\* The connection.
LEMMA RecvConnStep ==
  ASSUME TypeInv, CallInv, CreditInv, Fresh, RequestInv, ReplyInv, ResponseInv, CleanInv,
         RecvCreditExact, Next, Held'
  PROVE  outConn' + DataOn(toClient') + InHand' + UpdatesOn(toPeer', 0)
           = DefaultWindow + Window
<1> DEFINE x == outConn
           d == DataOn(toClient)
           h == InHand
           u == UpdatesOn(toPeer, 0)
           x1 == outConn'
           d1 == DataOn(toClient')
           h1 == InHand'
           u1 == UpdatesOn(toPeer', 0)
           all == DefaultWindow + Window
<1>1. /\ Held /\ ~Cut /\ ~Close
      /\ Quiet => Complete \/ \E k \in Kinds : PostUnsent(k)
      /\ ReadAny =>
           LET f == toClient[1] IN
           \/ /\ f.type = "data" /\ at = "recv" /\ at' = "deliver" /\ credit' = f.n
              /\ f.sid = active /\ active' = active
           \/ /\ f.type # "data" /\ at # "deliver" /\ at' # "deliver"
              /\ active' = active
  BY HeldBefore
<1>2. /\ x \in Nat /\ d \in Nat /\ h \in Nat /\ u \in Nat /\ credit \in Nat
      /\ toPeer \in Seq(Frames) /\ toClient \in Seq(Frames)
  BY Numbers DEF InHand
<1>3. x + d + h + u = all
  BY <1>1 DEF Held, RecvCreditExact
<1>4. ASSUME x1 = x, d1 = d, h1 = h, u1 = u
      PROVE  x1 + d1 + h1 + u1 = all
  BY <1>3, <1>4
<1>5. ASSUME at # "deliver", at' # "deliver" PROVE h1 = h /\ h = 0
  BY <1>5 DEF InHand
<1>6. CASE \/ \E k \in Kinds, b \in Bodies : Post(k, b)
           \/ SendChunk \/ Complete \/ \E k \in Kinds : PostUnsent(k)
  <2>1. /\ at # "deliver" /\ at' # "deliver" /\ toClient' = toClient /\ outConn' = outConn
    BY <1>6 DEF Post, SendChunk, Complete, PostUnsent, linkVars, peerVars, pReply
  <2>2. u1 = u
    BY <1>6, UpdatesKept DEF Quiet
  <2>3. QED
    BY <1>4, <1>5, <2>1, <2>2
<1>7. CASE ReadAny
  <2> DEFINE f == toClient[1]
             n == f.n
  <2>1. /\ toClient # <<>> /\ toClient' = Tail(toClient) /\ f \in Frames
        /\ ToClientFrame(f) /\ n \in Nat /\ outConn' = outConn
    <3>1. /\ toClient # <<>> /\ toClient' = Tail(toClient) /\ f \in Arrived
          /\ UNCHANGED peerVars
      BY <1>7, ReadWires, ClientLeavesPeer
    <3>2. f \in Frames /\ ToClientFrame(f)
      BY <3>1, Arrival
    <3>3. QED
      BY <3>1, <3>2 DEF peerVars, pReply, Frames
  <2>2. u1 = u
    BY <1>7, UpdatesKept
  <2>3. d1 = d - Carries(f, "data", Streams)
    BY <1>2, <2>1, Taken DEF DataOn
  <2>4. CASE f.type = "data"
    <3>1. f.sid \in Streams
      BY <2>1, <2>4 DEF ToClientFrame, Response
    <3>2. Carries(f, "data", Streams) = n
      BY <2>4, <3>1 DEF Carries
    <3>3. h = 0 /\ h1 = n
      BY <1>1, <1>7, <2>4 DEF InHand
    <3>4. x1 = x /\ d1 = d - n /\ h = 0 /\ h1 = n /\ u1 = u /\ n \in Nat
      BY <2>1, <2>2, <2>3, <3>2, <3>3
    <3> HIDE DEF x, d, h, u, x1, d1, h1, u1, n, all
    <3>5. x1 + d1 + h1 + u1 = all
      BY <1>2, <1>3, <3>4
    <3>6. QED
      BY <3>5 DEF x1, d1, h1, u1, all
  <2>5. CASE f.type # "data"
    <3>1. Carries(f, "data", Streams) = 0
      BY <2>5, PlainCarries
    <3>2. d1 = d
      <4> HIDE DEF d, d1
      <4>1. QED
        BY <1>2, <2>3, <3>1
    <3>3. h1 = h
      BY <1>1, <1>5, <1>7, <2>5
    <3>4. QED
      BY <1>4, <2>1, <2>2, <3>2, <3>3
  <2>6. QED
    BY <2>4, <2>5
<1>8. CASE Accept
  <2> DEFINE c == credit
  <2>1. u1 = u + c
    BY <1>1, <1>8, UpdatesAccepted DEF Held
  <2>2. x1 = x /\ d1 = d /\ h = c /\ h1 = 0 /\ c \in Nat
    BY <1>2, <1>8 DEF Accept, InHand, peerVars, pReply
  <2> HIDE DEF x, d, h, u, x1, d1, h1, u1, c, all
  <2>3. x1 + d1 + h1 + u1 = all
    BY <1>2, <1>3, <2>1, <2>2
  <2>4. QED
    BY <2>3 DEF x1, d1, h1, u1, all
<1>9. CASE PeerReads
  <2> DEFINE f == toPeer[1]
             n == f.n
  <2>1. /\ toPeer # <<>> /\ toPeer' = Tail(toPeer) /\ n \in Nat /\ Heard(f)
        /\ h1 = h
    BY <1>9, PeerReadsCases DEF callVars, InHand
  <2>2. u1 = u - Carries(f, "update", {0})
    BY <1>2, <2>1, Taken DEF UpdatesOn
  <2>3. d1 = d
    <3>1. toClient' = toClient \/ toClient' = Append(toClient, Ack)
      BY <2>1 DEF Heard
    <3>2. Carries(Ack, "data", Streams) = 0 /\ Ack \in Frames
      BY AckPong DEF Carries
    <3>3. DataOn(Append(toClient, Ack)) = d + 0
      BY <1>2, <3>2, Put DEF DataOn
    <3>4. DataOn(Append(toClient, Ack)) = d
      <4> HIDE DEF d
      <4>1. QED
        BY <1>2, <3>3
    <3>5. QED
      BY <3>1, <3>4
  <2>4. CASE f.type = "update" /\ f.sid = 0
    <3>1. outConn' = outConn + f.n
      BY <2>1, <2>4 DEF Heard, Streams
    <3>2. Carries(f, "update", {0}) = n
      BY <2>4 DEF Carries
    <3>3. x1 = x + n /\ u1 = u - n /\ d1 = d /\ h1 = h /\ n \in Nat
      BY <2>1, <2>2, <2>3, <3>1, <3>2
    <3> HIDE DEF x, d, h, u, x1, d1, h1, u1, n, all
    <3>4. x1 + d1 + h1 + u1 = all
      BY <1>2, <1>3, <3>3
    <3>5. QED
      BY <3>4 DEF x1, d1, h1, u1, all
  <2>5. CASE ~(f.type = "update" /\ f.sid = 0)
    <3>1. outConn' = outConn
      BY <2>1, <2>5 DEF Heard
    <3>2. Carries(f, "update", {0}) = 0
      BY <2>5 DEF Carries
    <3>3. u1 = u
      <4> HIDE DEF u, u1
      <4>1. QED
        BY <1>2, <2>2, <3>2
    <3>4. QED
      BY <1>4, <2>1, <2>3, <3>1, <3>3
  <2>6. QED
    BY <2>4, <2>5
<1>10. CASE Tells
  <2>1. PICK f \in Frames : toClient' = Append(toClient, f) /\ Told(f)
    BY <1>10, TellsCases
  <2> DEFINE n == f.n
  <2>2. u1 = u /\ h1 = h /\ n \in Nat
    BY <1>10, TellsCases DEF callVars, InHand, Frames
  <2>3. d1 = d + Carries(f, "data", Streams)
    BY <1>2, <2>1, Put DEF DataOn
  <2>4. CASE f.type = "data"
    <3>1. f.sid \in Streams /\ outConn' = outConn - n /\ n <= outConn
      BY <2>1, <2>4 DEF Told
    <3>2. Carries(f, "data", Streams) = n
      BY <2>4, <3>1 DEF Carries
    <3>3. x1 = x - n /\ d1 = d + n /\ h1 = h /\ u1 = u /\ n \in Nat
      BY <2>2, <2>3, <3>1, <3>2
    <3> HIDE DEF x, d, h, u, x1, d1, h1, u1, n, all
    <3>4. x1 + d1 + h1 + u1 = all
      BY <1>2, <1>3, <3>3
    <3>5. QED
      BY <3>4 DEF x1, d1, h1, u1, all
  <2>5. CASE f.type # "data"
    <3>1. outConn' = outConn
      BY <2>1, <2>5 DEF Told, pReply
    <3>2. Carries(f, "data", Streams) = 0
      BY <2>5, PlainCarries
    <3>3. d1 = d
      <4> HIDE DEF d, d1
      <4>1. QED
        BY <1>2, <2>3, <3>2
    <3>4. QED
      BY <1>4, <2>2, <3>1, <3>3
  <2>6. QED
    BY <2>4, <2>5
<1>11. CASE UNCHANGED vars
  BY <1>4, <1>11 DEF vars, linkVars, peerVars, pReply, callVars, InHand
<1>12. QED
  BY <1>1, <1>6, <1>7, <1>8, <1>9, <1>10, <1>11, Steps

\* Nothing of a stream that was never opened has been answered or given back.
LEMMA NothingBack ==
  ASSUME TypeInv, Fresh, sid \in Streams
  PROVE  /\ StreamDataOn(toClient, sid) = 0 /\ UpdatesOn(toPeer, sid) = 0
         /\ spent[sid] = 0
<1>1. sid \in Nat /\ toPeer \in Seq(Frames) /\ toClient \in Seq(Frames)
  BY Numbers DEF Streams
<1>2. \A i \in 1..Len(toPeer) : Carries(toPeer[i], "update", {sid}) = 0
  BY <1>1 DEF Fresh, Carries
<1>3. \A i \in 1..Len(toClient) : Carries(toClient[i], "data", {sid}) = 0
  BY <1>1 DEF Fresh, Carries, Response
<1>4. spent[sid] = 0
  BY <1>1 DEF Fresh
<1>5. QED
  BY <1>1, <1>2, <1>3, <1>4, BytesNone DEF StreamDataOn, UpdatesOn

\* The stream in use, as long as its response has not ended.
LEMMA RecvStreamStep ==
  ASSUME TypeInv, CallInv, CreditInv, Fresh, RequestInv, ReplyInv, ResponseInv, CleanInv,
         RecvCreditExact, Next, Held', active' # 0, reply'[active'] # "ended"
  PROVE  spent'[active'] = StreamDataOn(toClient', active') + InHand'
                             + UpdatesOn(toPeer', active')
<1> DEFINE x == spent[active]
           d == StreamDataOn(toClient, active)
           h == InHand
           u == UpdatesOn(toPeer, active)
           x1 == spent'[active']
           d1 == StreamDataOn(toClient', active')
           h1 == InHand'
           u1 == UpdatesOn(toPeer', active')
<1>1. /\ Held /\ ~Cut /\ ~Close
      /\ Quiet => Complete \/ \E k \in Kinds : PostUnsent(k)
      /\ ReadAny =>
           LET f == toClient[1] IN
           \/ /\ f.type = "data" /\ at = "recv" /\ at' = "deliver" /\ credit' = f.n
              /\ f.sid = active /\ active' = active
           \/ /\ f.type # "data" /\ at # "deliver" /\ at' # "deliver"
              /\ active' = active
  BY HeldBefore
<1>2. CASE \E k \in Kinds : PostUnsent(k) \/ \E b \in Bodies : Post(k, b)
  <2>1. PICK k \in Kinds : PostUnsent(k) \/ \E b \in Bodies : Post(k, b)
    BY <1>2
  <2>2. /\ active' = sid /\ sid \in Streams /\ toClient' = toClient /\ spent' = spent
        /\ at' # "deliver"
    BY <2>1 DEF PostUnsent, Post, linkVars, peerVars, pReply
  <2>3. UpdatesOn(toPeer', sid) = UpdatesOn(toPeer, sid)
    BY <2>1, UpdatesKept DEF Quiet
  <2>4. d1 = 0 /\ u1 = 0 /\ x1 = 0 /\ h1 = 0
    BY <2>2, <2>3, NothingBack DEF InHand
  <2> HIDE DEF x1, d1, h1, u1
  <2>5. x1 = d1 + h1 + u1
    BY <2>4
  <2>6. QED
    BY <2>5 DEF x1, d1, h1, u1
<1>3. CASE ~ \E k \in Kinds : PostUnsent(k) \/ \E b \in Bodies : Post(k, b)
  <2>0. /\ active' = active /\ active \in Streams /\ reply[active] # "ended"
    <3>1. active' = active /\ active \in Streams
      BY <1>3, ActiveKept, Numbers
    <3>2. QED
      BY <3>1, EndedStays
  <2>1. /\ x \in Int /\ d \in Nat /\ h \in Nat /\ u \in Nat /\ credit \in Nat
        /\ toPeer \in Seq(Frames) /\ toClient \in Seq(Frames)
        /\ active # 0 /\ spent \in [Streams -> Int]
    <3>1. active # 0
      BY <2>0 DEF Streams
    <3>2. QED
      BY <2>0, <3>1, Numbers DEF InHand, TypeInv, TypeOK, PeerOK
  <2>2. x = d + h + u
    BY <1>1, <2>0, <2>1 DEF Held, RecvCreditExact
  <2>3. ASSUME x1 = x, d1 = d, h1 = h, u1 = u
        PROVE  x1 = d1 + h1 + u1
    BY <2>2, <2>3
  <2>4. ASSUME at # "deliver", at' # "deliver" PROVE h1 = h /\ h = 0
    BY <2>4 DEF InHand
  <2>5. CASE SendChunk
    <3>1. at # "deliver" /\ at' # "deliver" /\ toClient' = toClient /\ spent' = spent
      BY <2>5 DEF SendChunk, peerVars, pReply
    <3>2. u1 = u
      BY <2>0, <2>5, UpdatesKept
    <3>3. QED
      BY <2>0, <2>3, <2>4, <3>1, <3>2
  <2>6. CASE ReadAny
    <3> DEFINE f == toClient[1]
               n == f.n
    <3>1. /\ toClient # <<>> /\ toClient' = Tail(toClient) /\ f \in Frames
          /\ n \in Nat /\ spent' = spent
      <4>1. /\ toClient # <<>> /\ toClient' = Tail(toClient) /\ f \in Arrived
            /\ UNCHANGED peerVars
        BY <2>6, ReadWires, ClientLeavesPeer
      <4>2. f \in Frames
        BY <4>1, Arrival
      <4>3. QED
        BY <4>1, <4>2 DEF peerVars, pReply, Frames
    <3>2. u1 = u /\ x1 = x
      BY <2>0, <2>6, <3>1, UpdatesKept
    <3>3. d1 = d - Carries(f, "data", {active})
      BY <2>0, <2>1, <3>1, Taken DEF StreamDataOn
    <3>4. CASE f.type = "data"
      <4>1. h = 0 /\ h1 = n /\ f.sid = active
        BY <1>1, <2>6, <3>4 DEF InHand
      <4>2. Carries(f, "data", {active}) = n
        BY <3>4, <4>1 DEF Carries
      <4>3. x1 = x /\ d1 = d - n /\ h = 0 /\ h1 = n /\ u1 = u /\ n \in Nat
        BY <3>1, <3>2, <3>3, <4>1, <4>2
      <4> HIDE DEF x, d, h, u, x1, d1, h1, u1, n
      <4>4. x1 = d1 + h1 + u1
        BY <2>1, <2>2, <4>3
      <4>5. QED
        BY <4>4 DEF x1, d1, h1, u1
    <3>5. CASE f.type # "data"
      <4>1. Carries(f, "data", {active}) = 0
        BY <3>5, PlainCarries
      <4>2. d1 = d
        <5> HIDE DEF d, d1
        <5>1. QED
          BY <2>1, <3>3, <4>1
      <4>3. h1 = h
        BY <1>1, <2>4, <2>6, <3>5
      <4>4. QED
        BY <2>3, <3>2, <4>2, <4>3
    <3>6. QED
      BY <3>4, <3>5
  <2>7. CASE Accept
    <3> DEFINE c == credit
    <3>1. ~done
      BY <2>0, <2>7 DEF Accept, InCall, ResponseInv
    <3>2. u1 = u + c
      BY <1>1, <2>0, <2>7, <3>1, UpdatesAccepted DEF Held
    <3>3. x1 = x /\ d1 = d /\ h = c /\ h1 = 0 /\ c \in Nat
      BY <2>0, <2>1, <2>7 DEF Accept, InHand, peerVars, pReply
    <3> HIDE DEF x, d, h, u, x1, d1, h1, u1, c
    <3>4. x1 = d1 + h1 + u1
      BY <2>1, <2>2, <3>2, <3>3
    <3>5. QED
      BY <3>4 DEF x1, d1, h1, u1
  <2>8. CASE PeerReads
    <3> DEFINE f == toPeer[1]
               n == f.n
    <3>1. /\ toPeer # <<>> /\ toPeer' = Tail(toPeer) /\ n \in Nat /\ Heard(f)
          /\ h1 = h
      BY <2>8, PeerReadsCases DEF callVars, InHand
    <3>2. u1 = u - Carries(f, "update", {active})
      BY <2>0, <2>1, <3>1, Taken DEF UpdatesOn
    <3>3. d1 = d
      <4>1. toClient' = toClient \/ toClient' = Append(toClient, Ack)
        BY <3>1 DEF Heard
      <4>2. Carries(Ack, "data", {active}) = 0 /\ Ack \in Frames
        BY AckPong DEF Carries
      <4>3. StreamDataOn(Append(toClient, Ack), active) = d + 0
        BY <2>1, <4>2, Put DEF StreamDataOn
      <4>4. StreamDataOn(Append(toClient, Ack), active) = d
        <5> HIDE DEF d
        <5>1. QED
          BY <2>1, <4>3
      <4>5. QED
        BY <2>0, <4>1, <4>4
    <3>4. CASE f.type = "update" /\ f.sid = active
      <4>1. spent' = [spent EXCEPT ![active] = @ - f.n]
        BY <2>1, <3>1, <3>4 DEF Heard
      <4>2. x1 = x - n
        BY <2>0, <2>1, <3>1, <4>1, Shift
      <4>3. Carries(f, "update", {active}) = n
        BY <3>4 DEF Carries
      <4>4. x1 = x - n /\ u1 = u - n /\ d1 = d /\ h1 = h /\ n \in Nat
        BY <3>1, <3>2, <3>3, <4>2, <4>3
      <4> HIDE DEF x, d, h, u, x1, d1, h1, u1, n
      <4>5. x1 = d1 + h1 + u1
        BY <2>1, <2>2, <4>4
      <4>6. QED
        BY <4>5 DEF x1, d1, h1, u1
    <3>5. CASE ~(f.type = "update" /\ f.sid = active)
      <4>1. spent'[active] = spent[active]
        BY <2>0, <2>1, <3>1, <3>5 DEF Heard
      <4>2. Carries(f, "update", {active}) = 0
        BY <3>5 DEF Carries
      <4>3. u1 = u
        <5> HIDE DEF u, u1
        <5>1. QED
          BY <2>1, <3>2, <4>2
      <4>4. QED
        BY <2>0, <2>3, <3>1, <3>3, <4>1, <4>3
    <3>6. QED
      BY <3>4, <3>5
  <2>9. CASE Tells
    <3>1. PICK f \in Frames : toClient' = Append(toClient, f) /\ Told(f)
      BY <2>9, TellsCases
    <3> DEFINE n == f.n
    <3>2. u1 = u /\ h1 = h /\ n \in Nat
      BY <2>0, <2>9, TellsCases DEF callVars, InHand, Frames
    <3>3. d1 = d + Carries(f, "data", {active})
      BY <2>0, <2>1, <3>1, Put DEF StreamDataOn
    <3>4. CASE f.type = "data" /\ f.sid = active
      <4>1. spent' = [spent EXCEPT ![active] = @ + f.n]
        BY <3>1, <3>4 DEF Told
      <4>2. x1 = x + n
        BY <2>0, <2>1, <3>2, <4>1, Shift
      <4>3. Carries(f, "data", {active}) = n
        BY <3>4 DEF Carries
      <4>4. x1 = x + n /\ d1 = d + n /\ h1 = h /\ u1 = u /\ n \in Nat
        BY <3>2, <3>3, <4>2, <4>3
      <4> HIDE DEF x, d, h, u, x1, d1, h1, u1, n
      <4>5. x1 = d1 + h1 + u1
        BY <2>1, <2>2, <4>4
      <4>6. QED
        BY <4>5 DEF x1, d1, h1, u1
    <3>5. CASE ~(f.type = "data" /\ f.sid = active)
      <4>1. spent'[active] = spent[active]
        BY <2>0, <2>1, <3>1, <3>5 DEF Told, pReply
      <4>2. Carries(f, "data", {active}) = 0
        BY <3>5 DEF Carries
      <4>3. d1 = d
        <5> HIDE DEF d, d1
        <5>1. QED
          BY <2>1, <3>3, <4>2
      <4>4. QED
        BY <2>0, <2>3, <3>2, <4>1, <4>3
    <3>6. QED
      BY <3>4, <3>5
  <2>10. CASE UNCHANGED vars
    <3>1. UNCHANGED <<toPeer, toClient, spent, at, credit>>
      BY <2>10 DEF vars, linkVars, peerVars, pReply, callVars
    <3>2. QED
      BY <2>0, <2>3, <3>1 DEF InHand
  <2>11. ~Complete
    BY <2>1, <2>0 DEF Complete
  <2>12. QED
    BY <1>1, <1>3, <2>5, <2>6, <2>7, <2>8, <2>9, <2>10, <2>11, Steps
<1>4. QED
  BY <1>2, <1>3

\* Receive credit stays exact.
LEMMA RecvStep ==
  ASSUME TypeInv, CallInv, CreditInv, Fresh, RequestInv, ReplyInv, ResponseInv, CleanInv,
         RecvCreditExact, Next
  PROVE  RecvCreditExact'
<1>1. Held' => outConn' + DataOn(toClient') + InHand' + UpdatesOn(toPeer', 0)
                 = DefaultWindow + Window
  BY RecvConnStep
<1>2. Held' /\ active' # 0 /\ reply'[active'] # "ended" =>
        spent'[active'] = StreamDataOn(toClient', active') + InHand'
                            + UpdatesOn(toPeer', active')
  BY RecvStreamStep
<1>3. (RecvCreditExact <=>
         (Held =>
            /\ outConn + DataOn(toClient) + InHand + UpdatesOn(toPeer, 0)
                 = DefaultWindow + Window
            /\ active # 0 /\ reply[active] # "ended" =>
                 spent[active] = StreamDataOn(toClient, active) + InHand
                                   + UpdatesOn(toPeer, active)))'
  BY DEF RecvCreditExact, Held
<1>4. QED
  BY <1>1, <1>2, <1>3

-----------------------------------------------------------------------------
(* The invariant holds.                                                    *)

\* What is on the wires at first.
LEMMA InitWires ==
  ASSUME Init
  PROVE  /\ toPeer \in Seq(Frames) /\ Len(toPeer) = 2
         /\ \A i \in 1..2 : toPeer[i].type \in {"settings", "update"}
                            /\ toPeer[i].sid = 0
         /\ \A ids : Bytes(toPeer, "data", ids) = 0
         /\ UpdatesOn(toPeer, 0) = Window
         /\ Count(toPeer, "ack") = 0
         /\ unacked \in Seq(0..MaxWindow) /\ Len(unacked) = 1
         /\ toClient \in Seq(Frames) /\ Len(toClient) = 1
         /\ toClient[1].type = "settings" /\ toClient[1].sid = 0 /\ ~toClient[1].end
         /\ toClient[1].n = unacked[1] /\ toClient[1].n <= MaxWindow
         /\ \A ids : /\ Bytes(toClient, "data", ids) = 0
                     /\ Bytes(toClient, "update", ids) = 0
         /\ CountTo(toClient, "settings", 1) = 1 /\ Count(toClient, "settings") = 1
<1> DEFINE a == Frame("settings", 0, Window, FALSE)
           b == Frame("update", 0, Window, FALSE)
<1>1. PICK v \in Inits : toClient = <<Frame("settings", 0, v, FALSE)>> /\ unacked = <<v>>
  BY DEF Init
<1>2. v \in 0..MaxWindow /\ MaxWindow \in Nat /\ Window \in Nat
  BY SceneAssumption, WindowAssumption DEF Init, Inits
<1> DEFINE c == Frame("settings", 0, v, FALSE)
<1>3. /\ a \in Frames /\ a.type = "settings" /\ a.sid = 0
      /\ b \in Frames /\ b.type = "update" /\ b.sid = 0 /\ b.n = Window
      /\ c \in Frames /\ c.type = "settings" /\ c.sid = 0 /\ ~c.end /\ c.n = v
  <2>1. /\ 0 \in 0..MaxPosts /\ v \in Nat /\ FALSE \in BOOLEAN
        /\ "settings" \in Response \cup Others \cup {"headers", "pong"}
        /\ "update" \in Response \cup Others \cup {"headers", "pong"}
    BY <1>2, CallAssumption DEF Others, Control, Stray
  <2>2. /\ a.type = "settings" /\ a.sid = 0
        /\ b.type = "update" /\ b.sid = 0 /\ b.n = Window
    BY DEF Frame
  <2>3. a \in Frames
    BY <1>2, <2>1, FrameType
  <2>4. b \in Frames /\ c \in Frames
    BY <1>2, <2>1, FrameType
  <2>5. c.type = "settings" /\ c.sid = 0 /\ ~c.end /\ c.n = v
    BY DEF Frame
  <2> HIDE DEF a, b, c
  <2>6. QED
    BY <2>2, <2>3, <2>4, <2>5
<1>4. toPeer = <<a, b>> /\ toClient = <<c>>
  BY <1>1 DEF Init
<1> HIDE DEF a, b, c
<1>5. /\ toPeer = Append(Append(<<>>, a), b) /\ toClient = Append(<<>>, c)
      /\ <<>> \in Seq(Frames) /\ Append(<<>>, a) \in Seq(Frames)
  BY <1>3, <1>4
<1>6. \A type, ids : Bytes(<<>>, type, ids) = 0 /\ Count(<<>>, type) = 0
  BY BytesEmpty
<1>7. /\ \A type, ids : /\ Bytes(toPeer, type, ids)
                             = 0 + Carries(a, type, ids) + Carries(b, type, ids)
                        /\ Bytes(toClient, type, ids) = 0 + Carries(c, type, ids)
      /\ \A type : /\ Count(toPeer, type) = 0 + Is(a, type) + Is(b, type)
                   /\ Count(toClient, type) = 0 + Is(c, type)
  <2> DEFINE none == <<>>
  <2>0. /\ none \in Seq(Frames)
        /\ \A type, ids : Bytes(none, type, ids) = 0 /\ Count(none, type) = 0
    BY <1>5, <1>6
  <2> HIDE DEF none
  <2>1. /\ \A type, ids : Bytes(Append(none, a), type, ids) = 0 + Carries(a, type, ids)
        /\ \A type : Count(Append(none, a), type) = 0 + Is(a, type)
    BY <1>3, <2>0, Put
  <2>2. /\ \A type, ids : Bytes(Append(none, c), type, ids) = 0 + Carries(c, type, ids)
        /\ \A type : Count(Append(none, c), type) = 0 + Is(c, type)
    BY <1>3, <2>0, Put
  <2> DEFINE w == Append(none, a)
  <2>3. w \in Seq(Frames)
    BY <1>3, <2>0
  <2> HIDE DEF w
  <2>4. /\ \A type, ids : Bytes(Append(w, b), type, ids)
                            = Bytes(w, type, ids) + Carries(b, type, ids)
        /\ \A type : Count(Append(w, b), type) = Count(w, type) + Is(b, type)
    BY <1>3, <2>3, Put
  <2>5. QED
    BY <1>5, <2>1, <2>2, <2>4 DEF w, none
<1>8. \A ids : Bytes(toPeer, "data", ids) = 0 + 0 + 0
  BY <1>3, <1>7 DEF Carries
<1>9. UpdatesOn(toPeer, 0) = 0 + 0 + Window
  BY <1>3, <1>7 DEF Carries, UpdatesOn
<1>10. Count(toPeer, "ack") = 0 + 0 + 0 /\ Count(toClient, "settings") = 0 + 1
  BY <1>3, <1>7 DEF Is
<1>11. \A ids : /\ Bytes(toClient, "data", ids) = 0 + 0
                /\ Bytes(toClient, "update", ids) = 0 + 0
  BY <1>3, <1>7 DEF Carries
<1>12. /\ toPeer \in Seq(Frames) /\ Len(toPeer) = 2 /\ toPeer[1] = a /\ toPeer[2] = b
       /\ toClient \in Seq(Frames) /\ Len(toClient) = 1 /\ toClient[1] = c
       /\ unacked \in Seq(0..MaxWindow) /\ Len(unacked) = 1 /\ unacked[1] = v
  <2>1. toPeer \in Seq(Frames) /\ Len(toPeer) = 2
    BY <1>3, <1>4
  <2>2. toPeer[1] = a /\ toPeer[2] = b
    BY <1>4
  <2>3. toClient \in Seq(Frames) /\ Len(toClient) = 1 /\ toClient[1] = c
    BY <1>3, <1>4
  <2>4. unacked \in Seq(0..MaxWindow) /\ Len(unacked) = 1 /\ unacked[1] = v
    BY <1>1, <1>2
  <2>5. QED
    BY <2>1, <2>2, <2>3, <2>4
<1>13. CountTo(toClient, "settings", 1) = Count(toClient, "settings")
  BY <1>12 DEF Count
<1>14. \A i \in 1..2 : i = 1 \/ i = 2
  OBVIOUS
<1>15. \A i \in 1..2 : toPeer[i].type \in {"settings", "update"} /\ toPeer[i].sid = 0
  BY <1>3, <1>12, <1>14
<1>16. toClient[1].n = unacked[1] /\ toClient[1].n <= MaxWindow
  BY <1>2, <1>3, <1>12
<1>17. QED
  BY <1>2, <1>3, <1>8, <1>9, <1>10, <1>11, <1>12, <1>13, <1>15, <1>16

\* The invariant holds at first.
LEMMA InitInv ==
  ASSUME Init
  PROVE  IInv
<1>1. /\ MaxWindow \in Nat /\ MaxPosts \in Nat /\ Turns \in Nat
      /\ DefaultWindow \in 0..MaxWindow /\ DefaultWindow \in Nat /\ Window \in Nat
  BY WindowAssumption, CallAssumption, SceneAssumption DEF Init, Turns
<1>2. 1 \in 1..MaxPosts + 1
  BY <1>1
<1>3. \A i \in 1..1 : i = 1
  OBVIOUS
<1>4. \A s \in Streams : ~(s < 1)
  BY DEF Streams
<1>5. \A i \in 1..Len(toClient) : i = 1 /\ toClient[i].type = "settings"
        /\ toClient[i].sid = 0
  BY <1>3, InitWires
<1>6. \A i \in 1..Len(toPeer) : toPeer[i].type \in {"settings", "update"}
        /\ toPeer[i].sid = 0
  BY InitWires
<1>7. TypeInv
  <2>1. ClientOK
    <3>1. /\ open = TRUE /\ gotGoaway = FALSE /\ sid = 1 /\ active = 0 /\ peerLast = 0
          /\ initWin = DefaultWindow /\ sendWin = DefaultWindow
          /\ connWin = DefaultWindow /\ sendDebt = 0
          /\ at = "handshake" /\ kind = "stream" /\ result = "none"
          /\ left = 0 /\ credit = 0 /\ got = 0 /\ gotFinal = FALSE /\ done = FALSE
      BY DEF Init
    <3>2. 0 \in 0..MaxPosts
      BY <1>1
    <3>3. QED
      BY <1>1, <1>2, <3>1, <3>2 DEF ClientOK
  <2>2. PeerOK
    <3>1. /\ up = TRUE /\ overrun = FALSE
          /\ pConn = DefaultWindow /\ pInit = DefaultWindow
          /\ granted = [s \in Streams |-> 0] /\ spent = [s \in Streams |-> 0]
          /\ request = [s \in Streams |-> "none"]
          /\ reply = [s \in Streams |-> "none"]
          /\ owed = [s \in Streams |-> 0] /\ sent = [s \in Streams |-> 0]
          /\ outConn = DefaultWindow /\ outInit = DefaultWindow
          /\ pLast = MaxPosts /\ turns = Turns
      BY DEF Init
    <3>2. /\ MaxPosts \in 0..MaxPosts /\ Turns \in 0..Turns
          /\ unacked \in Seq(0..MaxWindow)
      BY <1>1, InitWires
    <3>3. /\ granted \in [Streams -> Int] /\ spent \in [Streams -> Int]
          /\ request \in [Streams -> {"none", "open", "ended"}]
          /\ reply \in [Streams -> {"none", "open", "ended"}]
          /\ owed \in [Streams -> Nat] /\ sent \in [Streams -> Nat]
      BY <3>1
    <3>4. /\ up \in BOOLEAN /\ overrun \in BOOLEAN
          /\ pConn \in Int /\ pInit \in 0..MaxWindow
          /\ outConn \in Nat /\ outInit \in Nat
      <4>1. /\ up = TRUE /\ overrun = FALSE
            /\ pConn = DefaultWindow /\ pInit = DefaultWindow
            /\ outConn = DefaultWindow /\ outInit = DefaultWindow
        BY <3>1
      <4>2. DefaultWindow \in Int
        BY <1>1
      <4>3. QED
        BY <1>1, <4>1, <4>2
    <3>5. pLast \in 0..MaxPosts /\ turns \in 0..Turns
      BY <3>1, <3>2
    <3>6. QED
      BY <3>2, <3>3, <3>4, <3>5 DEF PeerOK
  <2>3. \A i \in 1..Len(toPeer) : ToPeerFrame(toPeer[i])
    BY <1>6 DEF ToPeerFrame, Requests
  <2>4. \A i \in 1..Len(toClient) : ToClientFrame(toClient[i])
    BY <1>5, InitWires DEF ToClientFrame, Others, Control, Stray, Response
  <2>5. Count(toPeer, "ack") + Count(toClient, "settings") = Len(unacked)
    BY InitWires
  <2>6. Len(unacked) <= Len(unacked)
    BY InitWires
  <2>7. QED
    BY <2>1, <2>2, <2>3, <2>4, <2>5, <2>6, InitWires DEF TypeInv, TypeOK, Init
<1>8. CallInv
  BY <1>1 DEF Init, CallInv, InCall
<1>9. Fresh
  <2>1. /\ sid = 1 /\ 0 < 1
        /\ \A s \in Streams :
             /\ request[s] = "none" /\ reply[s] = "none"
             /\ granted[s] = 0 /\ spent[s] = 0 /\ sent[s] = 0 /\ owed[s] = 0
    BY DEF Init
  <2>2. QED
    BY <1>5, <1>6, <2>1 DEF Fresh, Response
<1>10. RequestInv
  BY <1>6 DEF Init, RequestInv, Requests
<1>11. ReplyInv
  BY <1>5 DEF Init, ReplyInv, Response
<1>12. ResponseInv
  BY DEF Init, ResponseInv, InCall, Pending
<1>13. CreditInv
  <2>1. DataOn(toPeer) = 0 /\ UpdatesOn(toClient, 0) = 0
    BY InitWires DEF DataOn, UpdatesOn
  <2>2. connWin + DataOn(toPeer) + UpdatesOn(toClient, 0) = pConn
    BY <1>1, <2>1 DEF Init
  <2>3. /\ ~overrun /\ pConn <= MaxWindow /\ active = 0 /\ ~Pending
        /\ pConn <= pConn /\ SendCreditExact
    BY <1>1, <2>2 DEF Init, Pending, InCall, SendCreditExact
  <2>4. initWin = InitAfter(Count(toPeer, "ack"))
    BY InitWires DEF Init, InitAfter
  <2>5. ASSUME NEW i \in 1..Len(toClient)
        PROVE  toClient[i].n = unacked[Count(toPeer, "ack")
                                         + CountTo(toClient, "settings", i)]
    BY <1>5, InitWires
  <2>6. QED
    BY <1>6, <2>2, <2>3, <2>4, <2>5 DEF CreditInv
<1>14. ResultInv
  BY DEF Init, ResultInv
<1>15. CleanInv
  BY <1>4, <1>5 DEF Init, CleanInv, Response
<1>16. RecvCreditExact
  <2>1. DataOn(toClient) = 0 /\ InHand = 0 /\ UpdatesOn(toPeer, 0) = Window
    BY InitWires DEF DataOn, Init, InHand
  <2>2. outConn = DefaultWindow /\ active = 0
    BY DEF Init
  <2>3. QED
    BY <1>1, <2>1, <2>2 DEF RecvCreditExact
<1>17. FailsForCause /\ WholeOnSuccess
  BY DEF Init, FailsForCause, WholeOnSuccess
<1>18. QED
  BY <1>7, <1>8, <1>9, <1>10, <1>11, <1>12, <1>13, <1>14, <1>15, <1>16, <1>17 DEF IInv

\* The invariant is inductive.
LEMMA StepInv ==
  ASSUME IInv, [Next]_vars
  PROVE  IInv'
<1>1. CASE Next
  <2>1. TypeInv' /\ CallInv'
    BY <1>1, TypeStep, CallStep DEF IInv
  <2>2. Fresh' /\ RequestInv'
    BY <1>1, FreshStep, RequestStep DEF IInv
  <2>3. ReplyInv' /\ ResponseInv'
    BY <1>1, ReplyStep, ResponseStep DEF IInv
  <2>4. CreditInv' /\ ResultInv'
    BY <1>1, CreditStep, ResultStep DEF IInv
  <2>5. CleanInv' /\ RecvCreditExact'
    BY <1>1, CleanStep, RecvStep DEF IInv
  <2>6. FailsForCause' /\ WholeOnSuccess'
    BY <1>1, AlarmStep, WholeStep DEF IInv
  <2>7. QED
    BY <2>1, <2>2, <2>3, <2>4, <2>5, <2>6 DEF IInv
<1>2. CASE UNCHANGED vars
  <2>1. UNCHANGED <<scene, sendVars, connVars, callVars, linkVars, pSend, pReply, pLast,
                    turns>>
    BY <1>2 DEF vars, peerVars
  <2> USE <2>1 DEF sendVars, connVars, callVars, linkVars, pSend, pReply
  <2>2. TypeInv'
    BY DEF IInv, TypeInv, TypeOK, ClientOK, PeerOK, ToClientFrame, Does, PeerDoes, Turns
  <2>3. CallInv' /\ Fresh' /\ RequestInv' /\ ResultInv'
    BY DEF IInv, CallInv, Fresh, RequestInv, ResultInv, InCall, Kinds, Does, PeerDoes
  <2>4. ReplyInv' /\ ResponseInv'
    BY DEF IInv, ReplyInv, ResponseInv, Asked, Does, PeerDoes, Of, Pending, InCall,
       Ahead, AheadWhole, InHand
  <2>5. CreditInv'
    BY DEF IInv, CreditInv, SendCreditExact, Does, PeerDoes, InitAfter, Bound, Pending,
       InCall, Of
  <2>6. CleanInv' /\ RecvCreditExact'
    BY DEF IInv, CleanInv, RecvCreditExact, LeavesUnread, Usable, Current, Pending,
       InCall, InHand, Refuses, Kinds, PeerDoes
  <2>7. FailsForCause' /\ WholeOnSuccess'
    BY DEF IInv, FailsForCause, Causes, WholeOnSuccess, LeavesUnread, Refuses, Kinds,
       Does, PeerDoes
  <2>8. QED
    BY <2>2, <2>3, <2>4, <2>5, <2>6, <2>7 DEF IInv
<1>3. QED
  BY <1>1, <1>2

\* The inductive invariant, of which the other theorems are parts.
THEOREM Invariance == Spec => []IInv
<1>1. Init => IInv
  BY InitInv
<1>2. IInv /\ [Next]_vars => IInv'
  BY StepInv
<1>3. QED
  BY <1>1, <1>2, PTL DEF Spec

\* The state keeps its shape; no window of the client leaves 0..MAX_WINDOW
\* (add_conn_credit, add_stream_credit, apply_settings).
THEOREM ShapeKept == Spec => []TypeOK
<1>1. IInv => TypeOK
  BY DEF IInv, TypeInv
<1>2. QED
  BY <1>1, Invariance, PTL

\* The client sends no DATA that the peer has not granted, whatever SETTINGS are
\* in flight, of any window sizes (send_post's wait for credit, apply_settings).
THEOREM NeverOverruns == Spec => []NoOverrun
<1>1. IInv => NoOverrun
  BY DEF IInv, CreditInv, NoOverrun
<1>2. QED
  BY <1>1, Invariance, PTL

\* Send credit is neither lost nor invented, on the connection and on the stream
\* in use (send_win, send_debt, conn_win).
THEOREM SendCreditKept == Spec => []SendCreditExact
<1>1. IInv => SendCreditExact
  BY DEF IInv, CreditInv, SendCreditExact
<1>2. QED
  BY <1>1, Invariance, PTL

\* Receive credit does not leak while the client can be used
\* (restore_recv_window).
THEOREM RecvCreditKept == Spec => []RecvCreditExact
<1>1. IInv => RecvCreditExact
  BY DEF IInv
<1>2. QED
  BY <1>1, Invariance, PTL

\* ProtocolFailed has one of the causes that FailsForCause names: a peer that
\* breaks flow control, early answers, resets and frames the client does not
\* support, or a response left unread (control, decode_headers, data_event,
\* apply_settings).
THEOREM FailuresHaveCause == Spec => []FailsForCause
<1>1. IInv => FailsForCause
  BY DEF IInv
<1>2. QED
  BY <1>1, Invariance, PTL

\* An open client has nothing of an earlier response before its next call
\* (stream_failed, receiver_refused).
THEOREM NothingLeftOver == Spec => []CleanWhenOpen
<1>1. IInv => CleanWhenOpen
  <2>1. ASSUME IInv, at = "idle", open, ~LeavesUnread,
               NEW i \in DOMAIN toClient, toClient[i].type \in Response
        PROVE  FALSE
    <3>1. i \in 1..Len(toClient)
      BY <2>1 DEF IInv, TypeInv, TypeOK
    <3>2. Usable /\ ~Pending
      BY <2>1 DEF Usable, Pending, InCall
    <3>3. QED
      BY <2>1, <3>1, <3>2 DEF IInv, CleanInv
  <2>2. QED
    BY <2>1 DEF CleanWhenOpen
<1>2. QED
  BY <1>1, Invariance, PTL

\* A call that returns Ok delivered the whole response to the whole request
\* (next_response_event, send_post).
THEOREM WholeDelivered == Spec => []WholeOnSuccess
<1>1. IInv => WholeOnSuccess
  BY DEF IInv
<1>2. QED
  BY <1>1, Invariance, PTL
=============================================================================
