--------------------------- MODULE RoundTripProofs ---------------------------
(***************************************************************************)
(* The round trip: the format, the writer, the reader.                     *)
(*                                                                         *)
(* Numbers as bytes, for every number of values of a byte and every width  *)
(* of the integer types: what writeNumber writes are bytes, readNumber     *)
(* makes of them the number modulo the width, and a signed number that has *)
(* room comes back as it was.                                              *)
(*                                                                         *)
(* writeBinaryTable gives its caller the Lua stack back, every remembered  *)
(* or relative stack index of writeTable denotes the table of its own      *)
(* activation, and the StringTable numbers strings one to one: for every   *)
(* table, however deep, and every caller.                                  *)
(*                                                                         *)
(* Whatever writeBinaryTable produces is a sequence of bytes; whatever     *)
(* bytes parseBinaryTable gets, it leaves its results and nothing else     *)
(* above its caller's stack, every relative stack index hits its operand,  *)
(* and what it builds is a tree.                                           *)
(***************************************************************************)
EXTENDS RoundTrip, FiniteSetTheorems, SequenceTheorems, WellFoundedInduction, TLAPS

-----------------------------------------------------------------------------
(* Sequences as stacks.                                                    *)

\* <<x>> \o s: a new innermost activation.
LEMMA Pushed ==
  ASSUME NEW S, NEW s \in Seq(S), NEW x \in S
  PROVE  /\ <<x>> \o s \in Seq(S) /\ Len(<<x>> \o s) = Len(s) + 1 /\ Len(s) \in Nat
         /\ (<<x>> \o s)[1] = x
         /\ \A k \in 1..Len(s) : (<<x>> \o s)[k + 1] = s[k]
<1>1. <<x>> \in Seq(S) /\ Len(<<x>>) = 1 /\ <<x>>[1] = x
  OBVIOUS
<1>2. Len(s) \in Nat
  OBVIOUS
<1>3. /\ <<x>> \o s \in Seq(S) /\ Len(<<x>> \o s) = 1 + Len(s)
      /\ \A k \in 1..(1 + Len(s)) : (<<x>> \o s)[k] = IF k <= 1 THEN <<x>>[k] ELSE s[k - 1]
  BY <1>1, ConcatProperties
<1>4. \A k \in 1..Len(s) : (<<x>> \o s)[k + 1] = s[k]
  <2> SUFFICES ASSUME NEW k \in 1..Len(s) PROVE (<<x>> \o s)[k + 1] = s[k]
    OBVIOUS
  <2>1. k + 1 \in 1..(1 + Len(s)) /\ ~(k + 1 <= 1) /\ (k + 1) - 1 = k
    BY <1>2
  <2> QED BY <1>3, <2>1
<1>5. (<<x>> \o s)[1] = x
  BY <1>1, <1>2, <1>3
<1> QED BY <1>2, <1>3, <1>4, <1>5

\* Tail(s): the innermost activation is left.
LEMMA PoppedFirst ==
  ASSUME NEW S, NEW s \in Seq(S), s # <<>>
  PROVE  /\ Head(s) = s[1] /\ Head(s) \in S
         /\ Len(s) \in Nat \ {0} /\ Tail(s) \in Seq(S) /\ Len(Tail(s)) = Len(s) - 1
         /\ \A k \in 1..(Len(s) - 1) : Tail(s)[k] = s[k + 1]
BY HeadTailProperties, EmptySeq

\* <<x>> \o Tail(s): the innermost activation changes.
LEMMA FirstChanged ==
  ASSUME NEW S, NEW s \in Seq(S), s # <<>>, NEW x \in S
  PROVE  /\ <<x>> \o Tail(s) \in Seq(S) /\ Len(<<x>> \o Tail(s)) = Len(s) /\ Len(s) \in Nat \ {0}
         /\ (<<x>> \o Tail(s))[1] = x
         /\ \A k \in 2..Len(s) : (<<x>> \o Tail(s))[k] = s[k]
<1>1. /\ Len(s) \in Nat \ {0} /\ Tail(s) \in Seq(S) /\ Len(Tail(s)) = Len(s) - 1
      /\ \A k \in 1..(Len(s) - 1) : Tail(s)[k] = s[k + 1]
  BY PoppedFirst
<1>2. /\ <<x>> \o Tail(s) \in Seq(S) /\ Len(<<x>> \o Tail(s)) = Len(Tail(s)) + 1
      /\ (<<x>> \o Tail(s))[1] = x
      /\ \A k \in 1..Len(Tail(s)) : (<<x>> \o Tail(s))[k + 1] = Tail(s)[k]
  BY <1>1, Pushed
<1>3. ASSUME NEW k \in 2..Len(s) PROVE (<<x>> \o Tail(s))[k] = s[k]
  <2>1. k - 1 \in 1..(Len(s) - 1) /\ (k - 1) + 1 = k
    BY <1>1
  <2>2. (<<x>> \o Tail(s))[(k - 1) + 1] = Tail(s)[k - 1] /\ Tail(s)[k - 1] = s[(k - 1) + 1]
    BY <1>1, <1>2, <2>1
  <2> QED BY <2>1, <2>2
<1> QED BY <1>1, <1>2, <1>3

\* SubSeq(s, 1, m): what lies above slot m is popped.
LEMMA Popped ==
  ASSUME NEW S, NEW s \in Seq(S), NEW m \in Nat, m <= Len(s)
  PROVE  /\ SubSeq(s, 1, m) \in Seq(S) /\ Len(SubSeq(s, 1, m)) = m /\ Len(s) \in Nat
         /\ \A k \in 1..m : SubSeq(s, 1, m)[k] = s[k]
<1>1. Len(s) \in Nat /\ \A k \in 1..m : s[k] \in S
  OBVIOUS
<1>2. /\ SubSeq(s, 1, m) \in Seq(S)
      /\ Len(SubSeq(s, 1, m)) = IF 1 <= m THEN m - 1 + 1 ELSE 0
      /\ \A k \in 1..(m - 1 + 1) : SubSeq(s, 1, m)[k] = s[1 + k - 1]
  BY <1>1, SubSeqProperties
<1>3. ASSUME NEW k \in 1..m PROVE SubSeq(s, 1, m)[k] = s[k]
  <2>1. k \in 1..(m - 1 + 1) /\ 1 + k - 1 = k
    OBVIOUS
  <2> QED BY <1>2, <2>1
<1> QED BY <1>1, <1>2, <1>3

\* lua_remove of slot m turns s into r.
IsRemoval(s, m, r) == r = SubSeq(s, 1, m - 1) \o SubSeq(s, m + 1, Len(s))

\* What lies above the slot moves down.
LEMMA Removed ==
  ASSUME NEW S, NEW s \in Seq(S), NEW m \in 1..Len(s),
         NEW r, IsRemoval(s, m, r)
  PROVE  /\ r \in Seq(S) /\ Len(r) = Len(s) - 1 /\ Len(s) \in Nat
         /\ \A k \in 1..(m - 1) : r[k] = s[k]
         /\ \A k \in m..(Len(s) - 1) : r[k] = s[k + 1]
<1>1. Len(s) \in Nat /\ \A k \in 1..Len(s) : s[k] \in S
  OBVIOUS
<1> DEFINE lo == SubSeq(s, 1, m - 1)
           hi == SubSeq(s, m + 1, Len(s))
<1>2. lo \in Seq(S) /\ Len(lo) = m - 1 /\ \A k \in 1..(m - 1) : lo[k] = s[k]
  BY <1>1, Popped
<1>3. hi \in Seq(S) /\ Len(hi) = Len(s) - m /\ \A k \in 1..(Len(s) - m) : hi[k] = s[m + k]
  <2>1. \A k \in (m + 1)..Len(s) : s[k] \in S
    BY <1>1
  <2>2. /\ hi \in Seq(S)
        /\ Len(hi) = IF m + 1 <= Len(s) THEN Len(s) - (m + 1) + 1 ELSE 0
        /\ \A k \in 1..(Len(s) - (m + 1) + 1) : hi[k] = s[(m + 1) + k - 1]
    BY <1>1, <2>1, SubSeqProperties
  <2>3. Len(hi) = Len(s) - m
    BY <1>1, <2>2
  <2>4. ASSUME NEW k \in 1..(Len(s) - m) PROVE hi[k] = s[m + k]
    <3>1. k \in 1..(Len(s) - (m + 1) + 1) /\ (m + 1) + k - 1 = m + k
      BY <1>1
    <3> QED BY <2>2, <3>1
  <2> QED BY <2>2, <2>3, <2>4
<1>4. r = lo \o hi
  BY DEF IsRemoval
<1> HIDE DEF lo, hi
<1>5. /\ r \in Seq(S) /\ Len(r) = Len(lo) + Len(hi)
      /\ \A k \in 1..(Len(lo) + Len(hi)) : r[k] = IF k <= Len(lo) THEN lo[k] ELSE hi[k - Len(lo)]
  <2>1. lo \in Seq(S) /\ hi \in Seq(S)
    BY <1>2, <1>3
  <2>2. /\ lo \o hi \in Seq(S) /\ Len(lo \o hi) = Len(lo) + Len(hi)
        /\ \A k \in 1..(Len(lo) + Len(hi)) : (lo \o hi)[k] = IF k <= Len(lo) THEN lo[k] ELSE hi[k - Len(lo)]
    BY <2>1, ConcatProperties
  <2> QED BY <1>4, <2>2
<1>6. Len(r) = Len(s) - 1
  BY <1>1, <1>2, <1>3, <1>5
<1>7. ASSUME NEW k \in 1..(m - 1) PROVE r[k] = s[k]
  <2>1. k \in 1..(Len(lo) + Len(hi)) /\ k <= Len(lo)
    BY <1>1, <1>2, <1>3
  <2> QED BY <1>2, <1>5, <2>1
<1>8. ASSUME NEW k \in m..(Len(s) - 1) PROVE r[k] = s[k + 1]
  <2>1. /\ k \in 1..(Len(lo) + Len(hi)) /\ ~(k <= Len(lo))
        /\ k - Len(lo) \in 1..(Len(s) - m) /\ m + (k - Len(lo)) = k + 1
    BY <1>1, <1>2, <1>3
  <2> QED BY <1>3, <1>5, <2>1
<1> QED BY <1>1, <1>5, <1>6, <1>7, <1>8

\* A sequence whose elements are those of a shorter one, up to its length.
LEMMA SamePrefix ==
  ASSUME NEW S, NEW s \in Seq(S), NEW c \in Seq(S), Len(c) <= Len(s), \A k \in 1..Len(c) : s[k] = c[k]
  PROVE  SubSeq(s, 1, Len(c)) = c
<1>1. Len(c) \in Nat
  OBVIOUS
<1>2. /\ SubSeq(s, 1, Len(c)) \in Seq(S) /\ Len(SubSeq(s, 1, Len(c))) = Len(c)
      /\ \A k \in 1..Len(c) : SubSeq(s, 1, Len(c))[k] = s[k]
  BY <1>1, Popped
<1> QED BY <1>2, SeqEqual

\* One sequence behind the other.
LEMMA Joined ==
  ASSUME NEW S, NEW s \in Seq(S), NEW r \in Seq(S)
  PROVE  /\ s \o r \in Seq(S) /\ Len(s \o r) = Len(s) + Len(r) /\ Len(s) \in Nat /\ Len(r) \in Nat
         /\ \A k \in 1..Len(s) : (s \o r)[k] = s[k]
         /\ \A k \in 1..Len(r) : (s \o r)[Len(s) + k] = r[k]
<1>1. /\ s \o r \in Seq(S) /\ Len(s \o r) = Len(s) + Len(r) /\ Len(s) \in Nat /\ Len(r) \in Nat
      /\ \A i \in 1..(Len(s) + Len(r)) : (s \o r)[i] = IF i <= Len(s) THEN s[i] ELSE r[i - Len(s)]
  BY ConcatProperties
<1>2. ASSUME NEW k \in 1..Len(s) PROVE (s \o r)[k] = s[k]
  BY <1>1
<1>3. ASSUME NEW k \in 1..Len(r) PROVE (s \o r)[Len(s) + k] = r[k]
  <2>1. Len(s) + k \in 1..(Len(s) + Len(r)) /\ ~(Len(s) + k <= Len(s)) /\ (Len(s) + k) - Len(s) = k
    BY <1>1
  <2> QED BY <1>1, <2>1
<1> QED BY <1>1, <1>2, <1>3

-----------------------------------------------------------------------------
(* Induction and recursion.                                                *)

LessThan == {p \in Nat \X Nat : p[1] < p[2]}

\* Less than on the natural numbers is well founded.
LEMMA LessIsWellFounded == IsWellFoundedOn(LessThan, Nat)
BY NatLessThanWellFounded DEF OpToRel, LessThan

\* Every set of natural numbers has a least one.
LEMMA LeastElement ==
  ASSUME NEW S \in SUBSET Nat, S # {}
  PROVE  \E n \in S : \A m \in S : n <= m
<1>1. S \subseteq Nat
  OBVIOUS
<1>2. \E n \in S : \A m \in S : ~(<<m, n>> \in LessThan)
  BY <1>1, LessIsWellFounded, WFMin, Zenon
<1>3. PICK n \in S : \A m \in S : ~(<<m, n>> \in LessThan)
  BY <1>2
<1>4. ASSUME NEW m \in S PROVE n <= m
  <2>1. ~(<<m, n>> \in LessThan)
    BY <1>3
  <2> QED BY <2>1 DEF LessThan
<1> QED BY <1>4

\* Induction over the natural numbers, for a set in place of a predicate.
LEMMA Induction ==
  ASSUME NEW S, 0 \in S, \A n \in Nat : n \in S => n + 1 \in S
  PROVE  Nat \subseteq S
<1> DEFINE C == {n \in Nat : n \notin S}
<1> SUFFICES ASSUME C # {} PROVE FALSE
  OBVIOUS
<1>1. PICK n \in C : \A m \in C : n <= m
  BY LeastElement
<1>2. n # 0 /\ n - 1 \in Nat /\ n - 1 \notin C
  BY <1>1
<1> QED BY <1>2

\* A function over the natural numbers may be defined by what it is at 0 and how each value
\* follows from the one before.
IsIteration(f, S, a, step) ==
  f \in [Nat -> S] /\ f[0] = a /\ \A n \in Nat : f[n + 1] = step[<<n, f[n]>>]

\* A first element and a step define a sequence without end.
LEMMA Recursion ==
  ASSUME NEW S, NEW a, NEW step, a \in S, step \in [Nat \X S -> S]
  PROVE  \E f : IsIteration(f, S, a, step)
<1> DEFINE Start(n) == {g \in [0..n -> S] : g[0] = a /\ \A k \in 0..(n - 1) : g[k + 1] = step[<<k, g[k]>>]}
           Begun == {n \in Nat : Start(n) # {}}
           Same == {k \in Nat : \A n, m \in Nat : k <= n /\ k <= m =>
                                  \A g \in Start(n), h \in Start(m) : g[k] = h[k]}
           Chosen(n) == CHOOSE g \in Start(n) : TRUE
           f == [n \in Nat |-> Chosen(n)[n]]
<1>1. Nat \subseteq Begun
  <2>1. 0 \in Begun
    <3>1. [k \in 0..0 |-> a] \in Start(0)
      OBVIOUS
    <3> QED BY <3>1
  <2>2. ASSUME NEW n \in Nat, n \in Begun PROVE n + 1 \in Begun
    <3>1. PICK g \in Start(n) : TRUE
      BY <2>2
    <3> DEFINE h == [k \in 0..(n + 1) |-> IF k = n + 1 THEN step[<<n, g[n]>>] ELSE g[k]]
    <3>2. /\ g \in [0..n -> S] /\ g[0] = a /\ \A k \in 0..(n - 1) : g[k + 1] = step[<<k, g[k]>>]
          /\ g[n] \in S /\ step[<<n, g[n]>>] \in S
      <4>1. g \in [0..n -> S] /\ g[0] = a /\ \A k \in 0..(n - 1) : g[k + 1] = step[<<k, g[k]>>]
        BY <3>1
      <4>2. g[n] \in S
        BY <4>1
      <4> QED BY <4>1, <4>2
    <3>3. h \in [0..(n + 1) -> S]
      <4> SUFFICES ASSUME NEW k \in 0..(n + 1) PROVE h[k] \in S
        OBVIOUS
      <4>1. k = n + 1 \/ k \in 0..n
        OBVIOUS
      <4> QED BY <3>2, <4>1
    <3>4. h[0] = a
      BY <3>2
    <3>5. ASSUME NEW k \in 0..n PROVE h[k + 1] = step[<<k, h[k]>>]
      <4>1. h[k] = g[k] /\ k + 1 \in 0..(n + 1)
        OBVIOUS
      <4>2. CASE k = n
        BY <4>1, <4>2
      <4>3. CASE k # n
        <5>1. k \in 0..(n - 1) /\ h[k + 1] = g[k + 1]
          BY <4>1, <4>3
        <5> QED BY <3>2, <4>1, <5>1
      <4> QED BY <4>2, <4>3
    <3> HIDE DEF h
    <3>6. h \in Start(n + 1)
      <4>1. (n + 1) - 1 = n
        OBVIOUS
      <4> QED BY <3>3, <3>4, <3>5, <4>1
    <3> QED BY <3>6
  <2> HIDE DEF Begun
  <2> QED BY <2>1, <2>2, Induction
<1>2. Nat \subseteq Same
  <2>1. 0 \in Same
    OBVIOUS
  <2>2. ASSUME NEW k \in Nat, k \in Same PROVE k + 1 \in Same
    <3>1. ASSUME NEW n \in Nat, NEW m \in Nat, k + 1 <= n, k + 1 <= m,
                 NEW g \in Start(n), NEW h \in Start(m)
          PROVE  g[k + 1] = h[k + 1]
      <4>1. g[k] = h[k]
        <5>1. k <= n /\ k <= m
          BY <3>1
        <5> HIDE DEF Start
        <5> QED BY <2>2, <3>1, <5>1
      <4>2. g[k + 1] = step[<<k, g[k]>>]
        <5>1. k \in 0..(n - 1)
          BY <3>1
        <5> QED BY <5>1
      <4>3. h[k + 1] = step[<<k, h[k]>>]
        <5>1. k \in 0..(m - 1)
          BY <3>1
        <5> QED BY <5>1
      <4> QED BY <4>1, <4>2, <4>3
    <3> HIDE DEF Start
    <3> QED BY <3>1
  <2> HIDE DEF Same
  <2> QED BY <2>1, <2>2, Induction
<1>3. ASSUME NEW n \in Nat PROVE Chosen(n) \in Start(n)
  <2>1. Start(n) # {}
    BY <1>1
  <2> HIDE DEF Start
  <2> QED BY <2>1
<1> HIDE DEF Chosen
<1>4. f \in [Nat -> S]
  <2> SUFFICES ASSUME NEW n \in Nat PROVE Chosen(n)[n] \in S
    OBVIOUS
  <2>1. Chosen(n) \in [0..n -> S] /\ n \in 0..n
    BY <1>3
  <2> QED BY <2>1
<1>5. f[0] = a
  BY <1>3
<1>6. ASSUME NEW n \in Nat PROVE f[n + 1] = step[<<n, f[n]>>]
  <2>1. Chosen(n + 1)[n + 1] = step[<<n, Chosen(n + 1)[n]>>]
    <3>1. Chosen(n + 1) \in Start(n + 1) /\ n \in 0..((n + 1) - 1)
      BY <1>3
    <3> QED BY <3>1
  <2>2. Chosen(n + 1)[n] = Chosen(n)[n]
    <3>1. n \in Same /\ n <= n /\ n <= n + 1 /\ n + 1 \in Nat
      <4> HIDE DEF Same
      <4> QED BY <1>2
    <3>2. Chosen(n) \in Start(n) /\ Chosen(n + 1) \in Start(n + 1)
      BY <1>3
    <3> HIDE DEF Start
    <3> QED BY <3>1, <3>2
  <2> QED BY <2>1, <2>2
<1>7. IsIteration(f, S, a, step)
  BY <1>4, <1>5, <1>6 DEF IsIteration
<1> QED BY <1>7

-----------------------------------------------------------------------------
(* THE FORMAT.                                                             *)

Byte == 0..(Base - 1)

Positive == Nat \ {0}

Widths == {8, 16, 32, 64}

\* Pow is defined by its recursion, and its values are positive.
LEMMA PowDef ==
  /\ Pow \in [Nat -> Positive] /\ Pow[0] = 1
  /\ \A k \in Nat : Pow[k + 1] = Base * Pow[k]
<1> DEFINE Eq(f) == f = [k \in Nat |-> IF k = 0 THEN 1 ELSE Base * f[k - 1]]
           step == [p \in Nat \X Positive |-> Base * p[2]]
<1>1. Base \in Nat \ {0}
  BY WireAssumption
<1>2. step \in [Nat \X Positive -> Positive]
  <2>1. \A x \in Positive : Base * x \in Positive
    BY <1>1 DEF Positive
  <2> HIDE DEF step
  <2> QED BY <2>1 DEF step
<1>3. \E f : IsIteration(f, Positive, 1, step)
  <2>1. 1 \in Positive
    BY DEF Positive
  <2> HIDE DEF step
  <2> QED BY <1>2, <2>1, Recursion
<1>4. PICK f : IsIteration(f, Positive, 1, step)
  BY <1>3
<1>5. f \in [Nat -> Positive] /\ f[0] = 1 /\ \A n \in Nat : f[n + 1] = Base * f[n]
  BY <1>4 DEF IsIteration
<1>6. Eq(f)
  <2>1. ASSUME NEW k \in Nat PROVE f[k] = IF k = 0 THEN 1 ELSE Base * f[k - 1]
    <3>1. CASE k = 0
      BY <1>5, <3>1
    <3>2. CASE k # 0
      <4>1. k - 1 \in Nat /\ (k - 1) + 1 = k
        BY <3>2
      <4>2. f[(k - 1) + 1] = Base * f[k - 1]
        BY <1>5, <4>1
      <4> QED BY <3>2, <4>1, <4>2
    <3> QED BY <3>1, <3>2
  <2> QED BY <1>5, <2>1
<1>7. Pow = CHOOSE g : Eq(g)
  BY DEF Pow
<1>8. Eq(Pow)
  <2> HIDE DEF Eq
  <2> QED BY <1>6, <1>7
<1>9. /\ DOMAIN Pow = Nat /\ Pow[0] = 1
      /\ \A k \in Nat : Pow[k + 1] = Base * Pow[k]
  <2>1. \A k \in Nat : Pow[k] = IF k = 0 THEN 1 ELSE Base * Pow[k - 1]
    BY <1>8
  <2>2. \A k \in Nat : k + 1 \in Nat /\ k + 1 # 0 /\ (k + 1) - 1 = k
    OBVIOUS
  <2>3. DOMAIN Pow = Nat
    BY <1>8
  <2> QED BY <2>1, <2>2, <2>3
<1>10. \A k \in Nat : Pow[k] \in Nat \ {0}
  <2> DEFINE G == {k \in Nat : Pow[k] \in Nat \ {0}}
  <2>1. 0 \in G
    BY <1>9
  <2>2. \A k \in Nat : k \in G => k + 1 \in G
    BY <1>1, <1>9
  <2>3. Nat \subseteq G
    <3> HIDE DEF G
    <3> QED BY <2>1, <2>2, Induction
  <2> QED BY <2>3
<1>11. Pow \in [Nat -> Positive]
  <2>1. Pow = [k \in Nat |-> Pow[k]]
    BY <1>8, <1>9
  <2> QED BY <1>10, <2>1 DEF Positive
<1> QED BY <1>9, <1>11

\* The number of values of an integer type is positive.
LEMMA CardPositive == \A bits \in Widths : Sizeof[bits] \in Nat \ {0} /\ Card(bits) \in Nat \ {0}
BY PowDef, WireAssumption DEF Card, Widths, Positive

\* The recursion of readNumber over the bytes of a number.
LEMMA UnsignedDef ==
  ASSUME NEW bytes \in Seq(Byte)
  PROVE  \E low \in [0..Len(bytes) -> Nat] :
           /\ low[0] = 0 /\ \A k \in 1..Len(bytes) : low[k] = low[k - 1] + bytes[k] * Pow[k - 1]
           /\ Unsigned(bytes) = low[Len(bytes)]
<1> DEFINE n == Len(bytes)
           Eq(f) == f = [k \in 0..n |-> IF k = 0 THEN 0 ELSE f[k - 1] + bytes[k] * Pow[k - 1]]
           byte(k) == IF k + 1 \in 1..n THEN bytes[k + 1] ELSE 0
           step == [p \in Nat \X Nat |-> p[2] + byte(p[1]) * Pow[p[1]]]
<1>1. n \in Nat /\ \A k \in Nat : byte(k) \in Nat
  BY WireAssumption DEF Byte
<1>2. \A k \in Nat : Pow[k] \in Nat
  BY PowDef DEF Positive
<1> HIDE DEF byte
<1>3. step \in [Nat \X Nat -> Nat]
  <2>1. ASSUME NEW k \in Nat PROVE byte(k) * Pow[k] \in Nat
    <3>1. \A x, y \in Nat : x * y \in Nat
      OBVIOUS
    <3>2. byte(k) \in Nat /\ Pow[k] \in Nat
      BY <1>1, <1>2
    <3> QED BY <3>1, <3>2
  <2> QED BY <2>1
<1>4. PICK g : IsIteration(g, Nat, 0, step)
  <2> HIDE DEF step
  <2> QED BY <1>3, Recursion
<1>5. g \in [Nat -> Nat] /\ g[0] = 0 /\ \A k \in Nat : g[k + 1] = g[k] + byte(k) * Pow[k]
  BY <1>4 DEF IsIteration
<1> DEFINE low == [k \in 0..n |-> g[k]]
<1>6. ASSUME NEW k \in 1..n PROVE low[k] = low[k - 1] + bytes[k] * Pow[k - 1]
  <2>1. k \in 0..n /\ k - 1 \in 0..n /\ k - 1 \in Nat /\ (k - 1) + 1 = k
    BY <1>1
  <2>2. byte(k - 1) = bytes[k]
    BY <2>1 DEF byte
  <2>3. g[(k - 1) + 1] = g[k - 1] + byte(k - 1) * Pow[k - 1]
    BY <1>5, <2>1
  <2> QED BY <2>1, <2>2, <2>3
<1>7. low \in [0..n -> Nat] /\ low[0] = 0
  BY <1>1, <1>5
<1> HIDE DEF low
<1>8. Eq(low)
  <2>1. \A k \in 0..n : low[k] = IF k = 0 THEN 0 ELSE low[k - 1] + bytes[k] * Pow[k - 1]
    BY <1>1, <1>6, <1>7
  <2> QED BY <1>7, <2>1
<1>9. Unsigned(bytes) = (CHOOSE f : Eq(f))[n]
  BY DEF Unsigned
<1>10. Eq(CHOOSE f : Eq(f))
  <2> HIDE DEF Eq
  <2> QED BY <1>8
\* Only one function has these values.
<1> DEFINE h == CHOOSE f : Eq(f)
<1>11. h = low
  <2>1. DOMAIN h = 0..n /\ \A k \in 0..n : h[k] = IF k = 0 THEN 0 ELSE h[k - 1] + bytes[k] * Pow[k - 1]
    BY <1>10
  <2> HIDE DEF h
  <2> DEFINE G == {k \in Nat : k \in 0..n => h[k] = low[k]}
  <2>2. 0 \in G
    BY <1>1, <1>7, <2>1
  <2>3. ASSUME NEW k \in Nat, k \in G PROVE k + 1 \in G
    <3> SUFFICES ASSUME k + 1 \in 0..n PROVE h[k + 1] = low[k + 1]
      OBVIOUS
    <3>1. k \in 0..n /\ k + 1 \in 1..n /\ (k + 1) - 1 = k /\ k + 1 # 0
      BY <1>1, SMTT(30)
    <3>2. h[k] = low[k]
      BY <2>3, <3>1
    <3>3. h[k + 1] = h[(k + 1) - 1] + bytes[k + 1] * Pow[(k + 1) - 1]
      BY <2>1, <3>1
    <3>4. low[k + 1] = low[(k + 1) - 1] + bytes[k + 1] * Pow[(k + 1) - 1]
      BY <1>6, <3>1
    <3> QED BY <3>1, <3>2, <3>3, <3>4
  <2>4. Nat \subseteq G
    <3> HIDE DEF G
    <3> QED BY <2>2, <2>3, Induction
  <2>5. \A k \in 0..n : h[k] = low[k]
    BY <1>1, <2>4
  <2>6. h = [k \in 0..n |-> h[k]]
    <3>1. Eq(h)
      BY <1>10 DEF h
    <3> QED BY <2>1, <3>1
  <2>7. low = [k \in 0..n |-> low[k]]
    BY <1>7
  <2> QED BY <2>5, <2>6, <2>7
<1> QED BY <1>6, <1>7, <1>9, <1>11

\* What writeNumber writes are as many bytes as the type has.
LEMMA WrittenNumber ==
  ASSUME NEW bits \in Widths, NEW v \in Int
  PROVE  /\ writeNumber(bits, v) \in Seq(Byte) /\ Len(writeNumber(bits, v)) = Sizeof[bits]
         /\ Sizeof[bits] \in Nat
         /\ \A k \in 1..Sizeof[bits] : writeNumber(bits, v)[k] = (v \div Pow[k - 1]) % Base
<1> DEFINE n == Sizeof[bits]
           w == writeNumber(bits, v)
<1>1. n \in Nat /\ Base \in Nat /\ Base > 0
  BY WireAssumption DEF Widths
<1>2. w = [k \in 1..n |-> (v \div Pow[k - 1]) % Base]
  BY DEF writeNumber
<1>3. ASSUME NEW k \in 1..n PROVE (v \div Pow[k - 1]) % Base \in Byte
  <2>1. k - 1 \in Nat
    BY <1>1
  <2>2. Pow[k - 1] \in Nat /\ Pow[k - 1] > 0
    BY <2>1, PowDef DEF Positive
  <2>3. v \div Pow[k - 1] \in Int
    BY <2>2
  <2> QED BY <1>1, <2>3 DEF Byte
<1> HIDE DEF w, n
<1>4. w \in [1..n -> Byte]
  BY <1>2, <1>3
<1>5. w \in Seq(Byte)
  BY <1>1, <1>4
<1>6. Len(w) = n
  BY <1>1, <1>4, <1>5, LenProperties
<1> QED BY <1>1, <1>2, <1>5, <1>6 DEF w, n

\* The remainder is what is left below the divisor.
LEMMA Remainder ==
  ASSUME NEW m \in Nat \ {0}, NEW q \in Int, NEW s \in 0..(m - 1), NEW v, v = m * q + s
  PROVE  v % m = s
<1> DEFINE d == v \div m
           r == v % m
<1>1. v \in Int
  OBVIOUS
<1>2. d \in Int /\ r \in 0..(m - 1) /\ v = m * d + r
  BY <1>1
<1> HIDE DEF d, r
<1>3. m * d - m * q = s - r /\ s - r < m /\ s - r > -m
  BY <1>2
<1>4. CASE d > q
  <2>1. m * d >= m * q + m
    <3>1. \A x, y \in Int : x > y => m * x >= m * y + m
      <4> SUFFICES ASSUME NEW x \in Int, NEW y \in Int, x > y PROVE m * x >= m * y + m
        OBVIOUS
      <4>1. m * (x - y) >= m /\ m * (x - y) = m * x - m * y
        OBVIOUS
      <4> QED BY <4>1
    <3> QED BY <1>2, <1>4, <3>1
  <2> QED BY <1>2, <1>3, <2>1
<1>5. CASE d < q
  <2>1. m * q >= m * d + m
    <3>1. m * (q - d) >= m /\ m * (q - d) = m * q - m * d
      BY <1>2, <1>5
    <3> QED BY <1>2, <3>1
  <2> QED BY <1>2, <1>3, <2>1
<1>6. CASE d = q
  BY <1>2, <1>3, <1>6 DEF r
<1> QED BY <1>2, <1>4, <1>5, <1>6

\* One more byte of a number.
LEMMA NextByte ==
  ASSUME NEW v \in Int, NEW p \in Nat \ {0}, NEW b \in Nat \ {0}
  PROVE  v % (b * p) = (v % p) + ((v \div p) % b) * p
<1> DEFINE q == v \div p
           r == v % p
           q2 == q \div b
           r2 == q % b
<1>1. q \in Int /\ r \in 0..(p - 1) /\ v = p * q + r
  OBVIOUS
<1> HIDE DEF q, r
<1>2. q2 \in Int /\ r2 \in 0..(b - 1) /\ q = b * q2 + r2
  BY <1>1
<1> HIDE DEF q2, r2
<1>3. v = (b * p) * q2 + (r + r2 * p)
  BY <1>1, <1>2
<1>4. r + r2 * p \in 0..(b * p - 1)
  BY <1>1, <1>2
<1>5. b * p \in Nat \ {0}
  OBVIOUS
<1> DEFINE s == r + r2 * p
<1>6. s \in 0..(b * p - 1) /\ v = (b * p) * q2 + s
  BY <1>3, <1>4
<1> HIDE DEF s
<1>7. v % (b * p) = s
  BY <1>2, <1>5, <1>6, Remainder
<1> QED BY <1>7 DEF s, r, r2, q

\* readNumber makes of the bytes of a number the number modulo the width of its type.
THEOREM NumbersReadBack ==
  \A bits \in Widths : \A v \in Int : Unsigned(writeNumber(bits, v)) = v % Card(bits)
<1> SUFFICES ASSUME NEW bits \in Widths, NEW v \in Int
             PROVE  Unsigned(writeNumber(bits, v)) = v % Card(bits)
  OBVIOUS
<1> DEFINE n == Sizeof[bits]
           w == writeNumber(bits, v)
<1>1. /\ w \in Seq(Byte) /\ Len(w) = n /\ n \in Nat
      /\ \A k \in 1..n : w[k] = (v \div Pow[k - 1]) % Base
  BY WrittenNumber
<1> HIDE DEF w
<1>2. PICK low \in [0..n -> Nat] :
        /\ low[0] = 0 /\ \A k \in 1..n : low[k] = low[k - 1] + w[k] * Pow[k - 1]
        /\ Unsigned(w) = low[n]
  BY <1>1, UnsignedDef
<1>3. Base \in Nat \ {0} /\ \A k \in Nat : Pow[k] \in Nat \ {0} /\ Pow[k + 1] = Base * Pow[k]
  <2>1. Base \in Nat \ {0}
    BY WireAssumption
  <2>2. \A k \in Nat : Pow[k] \in Nat \ {0}
    BY PowDef DEF Positive
  <2>3. \A k \in Nat : Pow[k + 1] = Base * Pow[k]
    BY PowDef
  <2> QED BY <2>1, <2>2, <2>3
<1> DEFINE G == {k \in Nat : k <= n => low[k] = v % Pow[k]}
<1>4. 0 \in G
  <2>1. Pow[0] = 1 /\ v % 1 = 0
    BY PowDef
  <2> QED BY <1>2, <2>1
<1>5. ASSUME NEW k \in Nat, k \in G PROVE k + 1 \in G
  <2> SUFFICES ASSUME k + 1 <= n PROVE low[k + 1] = v % Pow[k + 1]
    OBVIOUS
  <2>1. k + 1 \in 1..n /\ (k + 1) - 1 = k /\ k <= n
    BY <1>1
  <2>2. low[k] = v % Pow[k]
    BY <1>5, <2>1
  <2>3. w[k + 1] = (v \div Pow[k]) % Base
    BY <1>1, <2>1
  <2>4. low[k + 1] = low[k] + w[k + 1] * Pow[k]
    <3>1. low[k + 1] = low[(k + 1) - 1] + w[k + 1] * Pow[(k + 1) - 1]
      BY <1>2, <2>1
    <3> QED BY <2>1, <3>1
  <2>5. v % (Base * Pow[k]) = (v % Pow[k]) + ((v \div Pow[k]) % Base) * Pow[k]
    BY <1>3, NextByte
  <2> QED BY <1>3, <2>2, <2>3, <2>4, <2>5
<1>6. Nat \subseteq G
  <2> HIDE DEF G
  <2> QED BY <1>4, <1>5, Induction
<1>7. low[n] = v % Pow[n]
  BY <1>1, <1>6
<1> QED BY <1>2, <1>7 DEF Card, w

\* A signed number that fits its type is found again in its bytes.
LEMMA SignedReadBack ==
  ASSUME NEW bits \in Widths, NEW v \in Int, MinInt(bits) <= v, v <= MaxInt(bits)
  PROVE  AsSigned(bits, v % Card(bits)) = v
<1> DEFINE c == Card(bits)
<1>1. c \in Nat \ {0}
  BY CardPositive
<1>2. -(c \div 2) <= v /\ v <= c \div 2 - 1
  BY DEF MinInt, MaxInt
<1>3. AsSigned(bits, v % c) = IF (v % c) % c > c \div 2 - 1 THEN ((v % c) % c) - c ELSE (v % c) % c
  BY DEF AsSigned, MaxInt
<1> HIDE DEF c
<1>4. c \div 2 \in Nat /\ 2 * (c \div 2) <= c
  BY <1>1
<1>5. CASE v >= 0
  <2>1. v \in 0..(c - 1) /\ v = c * 0 + v
    BY <1>1, <1>2, <1>4, <1>5
  <2>2. v % c = v
    BY <1>1, <2>1, Remainder
  <2>3. ~(v > c \div 2 - 1)
    BY <1>1, <1>2, <1>4
  <2> QED BY <1>3, <2>2, <2>3 DEF c
<1>6. CASE v < 0
  <2>1. v + c \in 0..(c - 1) /\ v = c * (-1) + (v + c) /\ v + c = c * 0 + (v + c)
    BY <1>1, <1>2, <1>4, <1>6
  <2>2. v % c = v + c /\ (v + c) % c = v + c
    BY <1>1, <2>1, Remainder
  <2>3. v + c > c \div 2 - 1 /\ (v + c) - c = v
    BY <1>1, <1>2, <1>4
  <2> QED BY <1>3, <2>2, <2>3 DEF c
<1> QED BY <1>5, <1>6

\* writeInteger takes one of the types, and one that has room for a number of 64 bits.
LEMMA BitsFit ==
  ASSUME NEW v \in Int
  PROVE  /\ IntBits(v) \in Widths
         /\ v \in MinInt(64)..MaxInt(64) => MinInt(IntBits(v)) <= v /\ v <= MaxInt(IntBits(v))
<1> DEFINE Fits(b) == MinInt(b) <= v /\ v <= MaxInt(b)
           Takes(b) == (b = 64 \/ Fits(b)) /\ \A c \in {8, 16, 32} : c < b => ~Fits(c)
<1>1. IntBits(v) = CHOOSE b \in Widths : Takes(b)
  BY DEF IntBits, Widths
<1>2. v \in MinInt(64)..MaxInt(64) => Fits(64)
  <2>1. MinInt(64) \in Int /\ MaxInt(64) \in Int
    <3>1. Card(64) \in Nat
      BY CardPositive DEF Widths
    <3> QED BY <3>1 DEF MinInt, MaxInt
  <2> QED BY <2>1
<1> HIDE DEF Fits
<1>3. \E b \in Widths : Takes(b)
  <2>1. CASE Fits(8)
    <3>1. Takes(8) /\ 8 \in Widths
      BY <2>1 DEF Widths
    <3> QED BY <3>1
  <2>2. CASE ~Fits(8) /\ Fits(16)
    <3>1. Takes(16) /\ 16 \in Widths
      BY <2>2 DEF Widths
    <3> QED BY <3>1
  <2>3. CASE ~Fits(8) /\ ~Fits(16) /\ Fits(32)
    <3>1. Takes(32) /\ 32 \in Widths
      BY <2>3 DEF Widths
    <3> QED BY <3>1
  <2>4. CASE ~Fits(8) /\ ~Fits(16) /\ ~Fits(32)
    <3>1. Takes(64) /\ 64 \in Widths
      BY <2>4 DEF Widths
    <3> QED BY <3>1
  <2> QED BY <2>1, <2>2, <2>3, <2>4
<1>4. IntBits(v) \in Widths /\ Takes(IntBits(v))
  <2> HIDE DEF Takes
  <2> QED BY <1>1, <1>3
<1>5. v \in MinInt(64)..MaxInt(64) => Fits(IntBits(v))
  BY <1>2, <1>4
<1> QED BY <1>4, <1>5 DEF Fits

\* Every integer of 64 bits is read back as it was written, whatever narrower type
\* writeInteger has chosen for it.
THEOREM IntegersReadBack ==
  \A v \in MinInt(64)..MaxInt(64) : AsSigned(IntBits(v), Unsigned(writeNumber(IntBits(v), v))) = v
<1> SUFFICES ASSUME NEW v \in MinInt(64)..MaxInt(64)
             PROVE  AsSigned(IntBits(v), Unsigned(writeNumber(IntBits(v), v))) = v
  OBVIOUS
<1>1. v \in Int
  <2>1. Card(64) \in Nat
    BY CardPositive DEF Widths
  <2> QED BY <2>1 DEF MinInt, MaxInt
<1>2. IntBits(v) \in Widths /\ MinInt(IntBits(v)) <= v /\ v <= MaxInt(IntBits(v))
  BY <1>1, BitsFit
<1>3. Unsigned(writeNumber(IntBits(v), v)) = v % Card(IntBits(v))
  BY <1>1, <1>2, NumbersReadBack
<1> QED BY <1>1, <1>2, <1>3, SignedReadBack

-----------------------------------------------------------------------------
(* The encoders write bytes.                                               *)

\* A byte, then other ones.
LEMMA BytesBehind ==
  ASSUME NEW tag \in Byte, NEW s \in Seq(Byte)
  PROVE  <<tag>> \o s \in Seq(Byte)
BY Pushed

\* A length is written as bytes.
LEMMA LengthBytes ==
  ASSUME NEW tag \in 0..20, NEW n \in Nat
  PROVE  writeLength(tag, n) \in Seq(Byte)
<1>1. \A k \in 0..3 : tag + k \in Byte
  BY WireAssumption DEF Byte
<1>2. tag \in Byte /\ tag + 1 \in Byte /\ tag + 2 \in Byte /\ tag + 3 \in Byte
  BY <1>1
<1>3. \A bits \in Widths : writeNumber(bits, n) \in Seq(Byte)
  BY WrittenNumber
<1>4. writeNumber(8, n) \in Seq(Byte) /\ writeNumber(16, n) \in Seq(Byte) /\ writeNumber(32, n) \in Seq(Byte)
  BY <1>3 DEF Widths
<1>5. /\ <<tag>> \in Seq(Byte) /\ <<tag + 1>> \o writeNumber(8, n) \in Seq(Byte)
      /\ <<tag + 2>> \o writeNumber(16, n) \in Seq(Byte) /\ <<tag + 3>> \o writeNumber(32, n) \in Seq(Byte)
  BY <1>2, <1>4, BytesBehind
<1> QED BY <1>5 DEF writeLength

\* A lua_Number is written as bytes.
LEMMA NumberBytes ==
  ASSUME NEW num \in Int, NEW bytes \in writeLuaNumber(num)
  PROVE  bytes \in Seq(Byte)
<1>1. Widths \subseteq Int /\ \A k \in 0..23 : k \in Byte
  BY WireAssumption DEF Byte, Widths
<1>2. T.ZERO \in Byte /\ T.ONE \in Byte /\ T.DOUBLE \in Byte /\ \A b \in Widths : IntTag[b] \in Byte
  BY <1>1 DEF T, IntTag, Widths
<1>3. ASSUME NEW v \in Int PROVE writeInteger(v) \in Seq(Byte)
  <2>1. IntBits(v) \in Widths
    BY BitsFit
  <2>2. <<T.ZERO>> \in Seq(Byte) /\ <<T.ONE>> \in Seq(Byte)
    BY <1>2
  <2>3. IntTag[IntBits(v)] \in Byte
    BY <1>2, <2>1
  <2>4. <<IntTag[IntBits(v)]>> \o writeNumber(IntBits(v), v) \in Seq(Byte)
    BY <2>1, <2>3, WrittenNumber, BytesBehind
  <2> QED BY <2>2, <2>4 DEF writeInteger
<1>4. writeFloat(num) \in Seq(Byte)
  <2>1. writeNumber(64, num) \in Seq(Byte)
    BY WrittenNumber DEF Widths
  <2> QED BY <1>2, <2>1, BytesBehind DEF writeFloat
<1>5. ASSUME NEW x \in CastToInt64(num \div 2) PROVE x \in Int
  <2>1. MaxInt(64) \in Int /\ MinInt(64) \in Int
    <3>1. Card(64) \in Nat
      BY CardPositive DEF Widths
    <3> QED BY <3>1 DEF MinInt, MaxInt
  <2> QED BY <1>5, <2>1 DEF CastToInt64
<1> QED BY <1>3, <1>4, <1>5 DEF writeLuaNumber

-----------------------------------------------------------------------------
(* THE WRITER.                                                             *)

-----------------------------------------------------------------------------
(* What may lie on the stack of the writer.                                *)

Slot ==
  {Writer!Nil}
  \cup (UNION {Entries(id) \cup Writer!Keys(Heap[id]) : id \in DOMAIN Heap})
  \cup (UNION {Range(c) : c \in Callers})
  \cup {Writer!String2Index, Writer!Index2String, Writer!Library}
  \cup (UNION {{Writer!KeyArray(s) : s \in Writer!Arrays(Writer!Keys(Heap[id]))} : id \in DOMAIN Heap})

\* The writer's instance counts as this module does.
LEMMA SameCardinality == \A S : Writer!Cardinality(S) = Cardinality(S)
BY DEF Writer!Cardinality, Cardinality

\* A table on the stack is one there is, a string on it consists of bytes.
LEMMA SlotValue ==
  ASSUME NEW x \in Slot
  PROVE  IsValue(x)
<1>1. CASE \E id \in DOMAIN Heap : x \in Entries(id)
  BY <1>1, WriterAssumption
<1>2. CASE \E c \in Callers : x \in Range(c)
  BY <1>2, WriterAssumption
<1>3. CASE \E id \in DOMAIN Heap : x \in Writer!Keys(Heap[id])
  <2>1. PICK id \in DOMAIN Heap : x \in Writer!Keys(Heap[id])
    BY <1>3
  <2>2. CASE \E i \in 1..Len(Heap[id].arr) : x = Writer!Int2Num(i)
    <3>1. PICK i \in 1..Len(Heap[id].arr) : x = <<"num", 2 * i>>
      BY <2>2 DEF Writer!Int2Num, Writer!Num
    <3>2. lua_type(x) = "num" /\ x[2] \in Int
      BY <3>1 DEF lua_type
    <3> QED BY <3>2 DEF IsValue
  <2>3. CASE x \in DOMAIN Heap[id].hash
    BY <2>3, <1>1 DEF Entries
  <2> QED BY <2>1, <2>2, <2>3 DEF Writer!Keys
<1>4. CASE x \in {Writer!Nil, Writer!String2Index, Writer!Index2String, Writer!Library}
  BY <1>4 DEF Writer!Nil, Writer!String2Index, Writer!Index2String, Writer!Library, lua_type, IsValue
<1>5. CASE \E s : x = Writer!KeyArray(s)
  BY <1>5 DEF Writer!KeyArray, lua_type, IsValue
<1> QED BY <1>1, <1>2, <1>3, <1>4, <1>5 DEF Slot

\* A slot of type table holds a table of the heap.
LEMMA SlotTable ==
  ASSUME NEW x \in Slot, Writer!lua_type(x) = "table"
  PROVE  x[2] \in DOMAIN Heap
BY SlotValue DEF IsValue, lua_type, Writer!lua_type

\* lua_rawget yields a value that may lie on the stack.
LEMMA SlotGet ==
  ASSUME NEW id \in DOMAIN Heap, NEW k
  PROVE  Writer!rawget(Heap[id], k) \in Slot
<1> DEFINE t == Heap[id]
           n == Writer!ArrayIndex(t, k)
<1>1. t.arr \in Seq(Entries(id))
  BY WriterAssumption
<1>2. Entries(id) \subseteq Slot /\ Writer!Nil \in Slot
  BY DEF Slot
<1>3. n = 0 \/ n \in 1..Len(t.arr)
  BY DEF Writer!ArrayIndex
<1>4. CASE n # 0
  <2>1. t.arr[n] \in Entries(id)
    BY <1>1, <1>3, <1>4
  <2> QED BY <1>2, <1>4, <2>1 DEF Writer!rawget
<1>5. CASE n = 0 /\ k \in DOMAIN t.hash
  <2>1. t.hash[k] \in Entries(id)
    BY <1>5 DEF Entries, Range
  <2> QED BY <1>2, <1>5, <2>1 DEF Writer!rawget
<1>6. CASE n = 0 /\ k \notin DOMAIN t.hash
  BY <1>2, <1>6 DEF Writer!rawget
<1> QED BY <1>4, <1>5, <1>6

\* A table has finitely many keys.
LEMMA KeysFinite ==
  ASSUME NEW id \in DOMAIN Heap
  PROVE  IsFiniteSet(Writer!Keys(Heap[id]))
<1> DEFINE t == Heap[id]
           K == Writer!Keys(t)
           N == {j \in 1..Len(t.arr) : t.arr[j] # Writer!Nil}
           I == {Writer!Int2Num(i) : i \in N}
           H == {k \in DOMAIN t.hash : t.hash[k] # Writer!Nil}
<1>1. Len(t.arr) \in Nat /\ IsFiniteSet(DOMAIN t.hash)
  BY WriterAssumption
<1>2. IsFiniteSet(N)
  <2>1. IsFiniteSet(1..Len(t.arr)) /\ N \in SUBSET (1..Len(t.arr))
    BY <1>1, FS_Interval
  <2> HIDE DEF N
  <2> QED BY <2>1, FS_Subset
<1>3. IsFiniteSet(I)
  <2> DEFINE f == [i \in N |-> Writer!Int2Num(i)]
  <2>1. f \in Surjection(N, I)
    BY DEF Surjection
  <2> HIDE DEF f, N, I
  <2> QED BY <1>2, <2>1, FS_Surjection
<1>4. IsFiniteSet(H)
  BY <1>1, FS_Subset
<1>5. K = I \cup H
  BY DEF Writer!Keys
<1>6. IsFiniteSet(K)
  <2> HIDE DEF t, K, N, I, H
  <2>1. IsFiniteSet(I \cup H)
    BY ONLY <1>3, <1>4, FS_Union
  <2> QED BY ONLY <1>5, <2>1
<1> QED BY <1>6

\* The array of keys that getSortedTableKeys leaves on the stack.
LEMMA SlotKeys ==
  ASSUME NEW id \in DOMAIN Heap
  PROVE  /\ Writer!countTableLength(Heap[id]) \in Nat
         /\ \A s \in Writer!Arrays(Writer!Keys(Heap[id])) :
              /\ Writer!KeyArray(s) \in Slot
              /\ Writer!KeyArray(s)[2] = s /\ Writer!lua_type(Writer!KeyArray(s)) = "keys"
              /\ \A k \in 1..Writer!countTableLength(Heap[id]) : s[k] \in Slot
<1> DEFINE t == Heap[id]
           K == Writer!Keys(t)
<1>1. Cardinality(K) \in Nat
  BY KeysFinite, FS_CardinalityType
<1>2. K \subseteq Slot
  BY DEF Slot
<1>3. Writer!countTableLength(t) = Cardinality(K)
  BY SameCardinality DEF Writer!countTableLength
<1> HIDE DEF K
<1>4. ASSUME NEW s \in Writer!Arrays(K)
      PROVE  /\ Writer!KeyArray(s) \in Slot
             /\ Writer!KeyArray(s)[2] = s /\ Writer!lua_type(Writer!KeyArray(s)) = "keys"
             /\ \A k \in 1..Writer!countTableLength(t) : s[k] \in Slot
  <2>1. Writer!KeyArray(s) \in Slot
    BY DEF Slot, K
  <2>2. s \in [1..Cardinality(K) -> K]
    BY SameCardinality DEF Writer!Arrays, Writer!Injection, Writer!IsInjective
  <2> QED BY <1>1, <1>2, <1>3, <2>1, <2>2 DEF Writer!KeyArray, Writer!lua_type
<1> QED BY <1>1, <1>3, <1>4 DEF K

\* The argument of the writer may lie on the stack.
LEMMA SlotCaller ==
  ASSUME NEW c \in Callers
  PROVE  c \in Seq(Slot) /\ Len(c) \in Nat \ {0}
<1>1. c \in Seq(Range(c)) /\ Range(c) \subseteq Slot /\ c # <<>>
  BY WriterAssumption DEF Slot
<1> QED BY <1>1, SeqMonotonic, EmptySeq

-----------------------------------------------------------------------------
(* The inductive invariant.                                                *)

Frame == [kind : {"array", "hash"}, index : Nat, i : Nat, n : Nat, key : BOOLEAN]

WriterRuns == wpc \in {"value", "loop", "return", "fail"}

WriterTypes ==
  /\ wpc \in {"enter", "value", "loop", "return", "fail", "written", "failed"}
  /\ caller \in Seq(Slot) /\ wL \in Seq(Slot) /\ wframes \in Seq(Frame) /\ wstrings \in Seq(Slot)
  /\ index \in Nat /\ whandle \in Nat /\ index2string_ \in Nat /\ wsize \in Nat

\* The caller's stack, and the two tables of the StringTable above it.
Bottom ==
  /\ Len(caller) >= 1 /\ Len(wL) >= Len(caller) + 2
  /\ whandle = Len(caller) + 1 /\ index2string_ = Len(caller) + 2
  /\ \A p \in 1..Len(caller) : wL[p] = caller[p]
  /\ wL[whandle] = Writer!String2Index /\ wL[index2string_] = Writer!Index2String

\* Activation k remembers its table, and finds its array of keys where it expects it.
Placed(k) ==
  /\ Writer!lua_type(wL[wframes[k].index]) = "table"
  /\ wframes[k].n = Writer!countTableLength(Heap[wL[wframes[k].index][2]])
  /\ wframes[k].index = IF k = Len(wframes) THEN Len(caller) ELSE Writer!Above(k + 1)
  /\ wframes[k].kind = "hash" =>
       \E s \in Writer!Arrays(Writer!Keys(Heap[wL[wframes[k].index][2]])) :
         wL[Writer!Above(k) - 1] = Writer!KeyArray(s)

\* Activations lie on the stack in the order of their calls.
Descending == \A k, m \in 1..(Len(wframes) + 1) : k < m => Writer!Above(m) <= Writer!Above(k)

Layout == Bottom /\ Descending /\ \A k \in 1..Len(wframes) : Placed(k)

\* What lies above the innermost activation.
Tops ==
  /\ wpc = "loop" => wframes # <<>> /\ Len(wL) + 1 = Writer!Above(1)
  /\ wpc \in {"value", "return"} => Len(wL) = IF wframes = <<>> THEN index2string_ ELSE Writer!Above(1)
  /\ wpc = "value" => index = IF wframes = <<>> THEN Len(caller) ELSE Len(wL)
  /\ wpc = "fail" => Len(wL) + 1 >= Writer!Above(1)

\* The loops have not run too far.
Counting ==
  \A k \in 1..Len(wframes) :
    /\ wframes[k].i \in 1..(wframes[k].n + 1)
    /\ k > 1 \/ wpc \in {"value", "return"} => wframes[k].i <= wframes[k].n

StackInv ==
  /\ WriterTypes
  /\ WriterRuns => Layout /\ Tops /\ Counting
  /\ ~WriterRuns => wL = caller /\ wframes = <<>>
  /\ wpc = "enter" => Len(caller) >= 1

-----------------------------------------------------------------------------
(* The layout of the stack.                                                *)

\* Where activations and the string tables lie.
LEMMA Places ==
  ASSUME WriterTypes, Layout
  PROVE  /\ Len(wframes) \in Nat /\ Len(wL) \in Nat /\ Len(caller) \in Nat
         /\ \A k \in 1..Len(wframes) : wframes[k] \in Frame
         /\ Writer!Above(Len(wframes) + 1) = Len(caller) + 3
         /\ \A k \in 1..(Len(wframes) + 1) :
              /\ Writer!Above(k) \in Int /\ Writer!Above(k) <= Writer!Above(1)
              /\ Writer!Above(k) >= Len(caller) + 3
         /\ \A k \in 1..Len(wframes) :
              /\ wframes[k].index \in 1..(Writer!Above(1) - 1)
              /\ k < Len(wframes) => wframes[k].index = Writer!Above(k + 1)
              /\ Writer!Above(k) =
                   (IF k = Len(wframes) THEN Len(caller) + 2 ELSE Writer!Above(k + 1))
                     + (IF wframes[k].kind = "hash" THEN 2 ELSE 1)
              /\ Writer!Above(k) - 1 \in 1..(Writer!Above(1) - 1)
<1>1. /\ Len(wframes) \in Nat /\ Len(wL) \in Nat /\ Len(caller) \in Nat
      /\ \A k \in 1..Len(wframes) : wframes[k] \in Frame
  BY DEF WriterTypes
<1> DEFINE n == Len(wframes)
<1>2. Writer!Above(n + 1) = Len(caller) + 3
  BY <1>1 DEF Writer!Above, Layout, Bottom
<1>3. ASSUME NEW k \in 1..n
      PROVE  Writer!Above(k) = (IF wframes[k].index = Len(caller) THEN Len(caller) + 2 ELSE wframes[k].index)
                                 + (IF wframes[k].kind = "hash" THEN 2 ELSE 1)
  BY <1>1 DEF Writer!Above, Writer!top, Layout, Bottom
<1>4. \A k \in 1..n : Writer!Above(k) \in Int
  <2> SUFFICES ASSUME NEW k \in 1..n PROVE Writer!Above(k) \in Int
    OBVIOUS
  <2>1. wframes[k].index \in Nat
    BY <1>1 DEF Frame
  <2> QED BY <1>1, <1>3, <2>1
<1>5. \A k \in 1..(n + 1) : Writer!Above(k) \in Int
  BY <1>1, <1>2, <1>4
<1>6. \A k, m \in 1..(n + 1) : k < m => Writer!Above(m) <= Writer!Above(k)
  BY DEF Layout, Descending
<1>7. ASSUME NEW k \in 1..(n + 1)
      PROVE  Writer!Above(k) <= Writer!Above(1) /\ Writer!Above(k) >= Len(caller) + 3
  <2>1. k = 1 \/ Writer!Above(k) <= Writer!Above(1)
    BY <1>1, <1>6
  <2>2. k = n + 1 \/ Writer!Above(n + 1) <= Writer!Above(k)
    BY <1>1, <1>6
  <2>3. Writer!Above(k) \in Int /\ Writer!Above(1) \in Int
    BY <1>1, <1>5
  <2> QED BY <1>1, <1>2, <2>1, <2>2, <2>3
<1>8. ASSUME NEW k \in 1..n
      PROVE  /\ wframes[k].index \in 1..(Writer!Above(1) - 1)
             /\ k < n => wframes[k].index = Writer!Above(k + 1)
             /\ Writer!Above(k) = (IF k = n THEN Len(caller) + 2 ELSE Writer!Above(k + 1))
                                     + (IF wframes[k].kind = "hash" THEN 2 ELSE 1)
             /\ Writer!Above(k) - 1 \in 1..(Writer!Above(1) - 1)
  <2>1. wframes[k].index = IF k = n THEN Len(caller) ELSE Writer!Above(k + 1)
    BY DEF Layout, Placed
  <2>2. k \in 1..(n + 1) /\ (k # n => k + 1 \in 1..(n + 1)) /\ 1 \in 1..(n + 1)
    BY <1>1
  <2>3. Len(caller) >= 1
    BY DEF Layout, Bottom
  <2>4. CASE k = n
    <3>1. wframes[k].index = Len(caller)
      BY <2>1, <2>4
    <3>2. Writer!Above(k) = Len(caller) + 2 + (IF wframes[k].kind = "hash" THEN 2 ELSE 1)
      BY <1>3, <3>1
    <3>3. /\ Writer!Above(k) <= Writer!Above(1) /\ Writer!Above(k) >= Len(caller) + 3
          /\ Writer!Above(k) \in Int /\ Writer!Above(1) \in Int
      BY <1>5, <1>7, <2>2
    <3>4. /\ Len(caller) \in 1..(Writer!Above(1) - 1)
          /\ Writer!Above(k) - 1 \in 1..(Writer!Above(1) - 1)
      BY ONLY <1>1, <2>3, <3>3
    <3> QED BY <2>4, <3>1, <3>2, <3>4
  <2>5. CASE k # n
    <3>1. /\ wframes[k].index = Writer!Above(k + 1) /\ Writer!Above(k + 1) >= Len(caller) + 3
          /\ Writer!Above(k + 1) <= Writer!Above(k) /\ Writer!Above(k) <= Writer!Above(1)
          /\ Writer!Above(k) \in Int /\ Writer!Above(k + 1) \in Int /\ Writer!Above(1) \in Int
      BY <1>1, <1>5, <1>6, <1>7, <2>1, <2>2, <2>5
    <3>2. Writer!Above(k) = Writer!Above(k + 1) + (IF wframes[k].kind = "hash" THEN 2 ELSE 1)
      <4>1. wframes[k].index # Len(caller)
        BY <1>1, <3>1
      <4> QED BY <1>3, <3>1, <4>1
    <3>3. wframes[k].index <= Writer!Above(1) - 1 /\ wframes[k].index >= 1
      <4>1. Writer!Above(k + 1) + 1 <= Writer!Above(k)
        BY <3>1, <3>2
      <4> QED BY <1>1, <3>1, <4>1
    <3>4. Writer!Above(k) - 1 >= 1 /\ Writer!Above(k) - 1 <= Writer!Above(1) - 1
      BY <1>1, <3>1
    <3> QED BY <2>5, <3>1, <3>2, <3>3, <3>4
  <2> QED BY <2>4, <2>5
<1> QED BY <1>1, <1>2, <1>5, <1>7, <1>8

StackTables == UNCHANGED <<caller, whandle, index2string_>>

\* The bottom of the stack is not touched.
LEMMA BottomKept ==
  ASSUME WriterTypes, Layout, StackTables, Len(wL') \in Nat, Len(wL') >= Len(caller) + 2,
         \A p \in 1..(Len(caller) + 2) : wL'[p] = wL[p]
  PROVE  Bottom'
<1>1. Len(caller) \in Nat
  BY Places
<1>2. /\ Len(caller) \in 1..(Len(caller) + 2) /\ Len(caller) + 1 \in 1..(Len(caller) + 2)
      /\ Len(caller) + 2 \in 1..(Len(caller) + 2)
      /\ \A p \in 1..Len(caller) : p \in 1..(Len(caller) + 2)
  BY <1>1 DEF Layout, Bottom
<1> QED BY <1>1, <1>2 DEF Layout, Bottom, StackTables

\* Nothing that the activations use changes.
LEMMA LayoutKept ==
  ASSUME WriterTypes, Layout, StackTables,
         Len(wframes') = Len(wframes),
         \A k \in 1..Len(wframes) :
           /\ wframes'[k].index = wframes[k].index /\ wframes'[k].kind = wframes[k].kind
           /\ wframes'[k].n = wframes[k].n,
         Len(wL') \in Nat, Len(wL') + 1 >= Writer!Above(1),
         \A p \in 1..(Writer!Above(1) - 1) : wL'[p] = wL[p]
  PROVE  /\ Layout'
         /\ \A k \in 1..(Len(wframes) + 1) : Writer!Above(k)' = Writer!Above(k)
<1> DEFINE n == Len(wframes)
<1>1. /\ n \in Nat /\ Len(caller) \in Nat /\ Writer!Above(1) \in Int
      /\ Writer!Above(1) >= Len(caller) + 3
  BY Places
<1>2. \A k \in 1..(n + 1) : Writer!Above(k)' = Writer!Above(k)
  BY <1>1 DEF Writer!Above, Writer!top, StackTables
<1>3. Bottom'
  <2>1. Len(wL') >= Len(caller) + 2 /\ \A p \in 1..(Len(caller) + 2) : p \in 1..(Writer!Above(1) - 1)
    BY <1>1
  <2> QED BY <2>1, BottomKept
<1>4. Descending'
  BY <1>1, <1>2 DEF Layout, Descending
<1>5. ASSUME NEW k \in 1..n PROVE Placed(k)'
  <2>1. /\ wframes[k].index \in 1..(Writer!Above(1) - 1)
        /\ Writer!Above(k) - 1 \in 1..(Writer!Above(1) - 1)
    BY Places
  <2>2. /\ wL'[wframes[k].index] = wL[wframes[k].index]
        /\ wL'[Writer!Above(k) - 1] = wL[Writer!Above(k) - 1]
    BY <2>1
  <2>3. Writer!Above(k)' = Writer!Above(k) /\ (k # n => Writer!Above(k + 1)' = Writer!Above(k + 1))
    BY <1>1, <1>2
  <2>4. Placed(k)
    BY DEF Layout
  <2> QED BY <2>2, <2>3, <2>4 DEF Placed, StackTables
<1> QED BY <1>2, <1>3, <1>4, <1>5 DEF Layout

\* An activation of writeTable begins.
LEMMA LayoutPushed ==
  ASSUME WriterTypes, Layout, StackTables,
         NEW x \in Frame, wframes' = <<x>> \o wframes,
         Len(wL) = IF wframes = <<>> THEN index2string_ ELSE Writer!Above(1),
         x.index = IF wframes = <<>> THEN Len(caller) ELSE Len(wL),
         Writer!lua_type(wL[x.index]) = "table",
         x.n = Writer!countTableLength(Heap[wL[x.index][2]]),
         \A p \in 1..Len(wL) : wL'[p] = wL[p],
         Len(wL') = Len(wL) + (IF x.kind = "hash" THEN 1 ELSE 0),
         x.kind = "hash" =>
           \E s \in Writer!Arrays(Writer!Keys(Heap[wL[x.index][2]])) : wL'[Len(wL')] = Writer!KeyArray(s)
  PROVE  Layout' /\ Len(wL') + 1 = Writer!Above(1)'
<1> DEFINE n == Len(wframes)
<1>1. /\ n \in Nat /\ Len(caller) \in Nat /\ Len(wL) \in Nat
      /\ Writer!Above(n + 1) = Len(caller) + 3
      /\ \A k \in 1..(n + 1) : Writer!Above(k) \in Int /\ Writer!Above(k) >= Len(caller) + 3
      /\ Writer!Above(1) \in Int /\ Writer!Above(1) >= Len(caller) + 3
      /\ \A k \in 1..(n + 1) : Writer!Above(k) <= Writer!Above(1)
  BY Places
<1>2. /\ Len(wframes') = n + 1 /\ wframes'[1] = x
      /\ \A k \in 1..n : wframes'[k + 1] = wframes[k]
      /\ wframes = <<>> <=> n = 0
  <2>1. wframes \in Seq(Frame)
    BY DEF WriterTypes
  <2>2. wframes = <<>> <=> n = 0
    BY <2>1, EmptySeq
  <2> QED BY <2>1, <2>2, Pushed
<1>3. Len(caller) >= 1 /\ index2string_ = Len(caller) + 2
  BY DEF Layout, Bottom
\* The stack ends where the new activation begins.
<1>4. Len(wL) >= Writer!Above(1) - 1 /\ Len(wL) >= Len(caller) + 2
  <2>1. CASE wframes = <<>>
    BY <1>1, <1>2, <1>3, <2>1
  <2>2. CASE wframes # <<>>
    BY <1>1, <2>2
  <2> QED BY <2>1, <2>2
<1>5. ASSUME NEW k \in 1..(n + 1) PROVE Writer!Above(k + 1)' = Writer!Above(k)
  <2>1. CASE k = n + 1
    <3>1. k + 1 > Len(wframes') /\ k > n
      BY <1>1, <1>2, <2>1
    <3> QED BY <3>1 DEF Writer!Above, StackTables
  <2>2. CASE k # n + 1
    <3>1. ~(k + 1 > Len(wframes')) /\ ~(k > n) /\ wframes'[k + 1] = wframes[k]
      BY <1>1, <1>2, <2>2
    <3> QED BY <3>1 DEF Writer!Above, Writer!top, StackTables
  <2> QED BY <2>1, <2>2
<1>6. /\ Writer!Above(1)' = Len(wL) + (IF x.kind = "hash" THEN 2 ELSE 1)
      /\ Writer!Above(1)' \in Int /\ Writer!Above(1)' >= Writer!Above(1)
  <2>1. ~(1 > Len(wframes'))
    BY <1>1, <1>2
  <2>2. Writer!Above(1)' = (IF x.index = Len(caller) THEN Len(caller) + 2 ELSE x.index)
                              + (IF x.kind = "hash" THEN 2 ELSE 1)
    BY <1>2, <1>3, <2>1 DEF Writer!Above, Writer!top, StackTables
  <2>3. (IF x.index = Len(caller) THEN Len(caller) + 2 ELSE x.index) = Len(wL)
    <3>1. CASE wframes = <<>>
      BY <1>1, <1>3, <3>1
    <3>2. CASE wframes # <<>>
      <4>1. x.index = Len(wL) /\ Len(wL) # Len(caller)
        BY <1>1, <1>4, <3>2
      <4> QED BY <4>1
    <3> QED BY <3>1, <3>2
  <2>4. Writer!Above(1)' = Len(wL) + (IF x.kind = "hash" THEN 2 ELSE 1)
    BY <2>2, <2>3
  <2>5. Len(wL) + 2 \in Int /\ Len(wL) + 1 \in Int /\ Len(wL) + 2 > Len(wL) + 1
    BY <1>1
  <2>6. Len(wL) + 1 > Writer!Above(1) \/ Len(wL) + 1 = Writer!Above(1)
    BY <1>1, <1>4
  <2> QED BY <1>1, <1>3, <1>4, <2>4, <2>5, <2>6
<1>7. Bottom'
  <2>1. Len(wL') \in Nat /\ Len(wL') >= Len(caller) + 2
    BY <1>1, <1>4
  <2>2. \A p \in 1..(Len(caller) + 2) : p \in 1..Len(wL)
    BY <1>1, <1>4
  <2> QED BY <2>1, <2>2, BottomKept
<1>8. Descending'
  <2> SUFFICES ASSUME NEW k \in 1..(n + 2), NEW m \in 1..(n + 2), k < m
               PROVE  Writer!Above(m)' <= Writer!Above(k)'
    BY <1>1, <1>2 DEF Descending
  <2>1. m - 1 \in 1..(n + 1) /\ (m - 1) + 1 = m
    BY <1>1
  <2>2. Writer!Above(m)' = Writer!Above(m - 1)
    BY <1>5, <2>1
  <2>3. CASE k = 1
    <3>1. Writer!Above(m - 1) \in Int /\ Writer!Above(m - 1) <= Writer!Above(1) /\ Writer!Above(1) \in Int
      BY <1>1, <2>1
    <3>2. Writer!Above(1)' \in Int /\ Writer!Above(1)' >= Writer!Above(1)
      BY <1>6
    <3> QED BY <2>2, <2>3, <3>1, <3>2
  <2>4. CASE k # 1
    <3>1. k - 1 \in 1..(n + 1) /\ (k - 1) + 1 = k /\ k - 1 < m - 1
      BY <1>1, <2>4
    <3>2. Writer!Above(k)' = Writer!Above(k - 1)
      BY <1>5, <3>1
    <3> QED BY <2>1, <2>2, <3>1, <3>2 DEF Layout, Descending
  <2> QED BY <2>3, <2>4
<1>9. ASSUME NEW k \in 1..n PROVE Placed(k + 1)'
  <2>1. /\ wframes[k].index \in 1..(Writer!Above(1) - 1)
        /\ Writer!Above(k) - 1 \in 1..(Writer!Above(1) - 1)
    BY Places
  <2>2. /\ wL'[wframes[k].index] = wL[wframes[k].index]
        /\ wL'[Writer!Above(k) - 1] = wL[Writer!Above(k) - 1]
    <3>1. \A p \in 1..(Writer!Above(1) - 1) : p \in 1..Len(wL)
      BY <1>1, <1>4
    <3>2. wframes[k].index \in 1..Len(wL) /\ Writer!Above(k) - 1 \in 1..Len(wL)
      BY <2>1, <3>1
    <3> QED BY <3>2
  <2>3. /\ wframes'[k + 1] = wframes[k] /\ Writer!Above(k + 1)' = Writer!Above(k)
        /\ (k + 1 = Len(wframes') <=> k = n)
        /\ Writer!Above(k + 2)' = Writer!Above(k + 1)
    <3>1. k + 1 \in 1..(n + 1) /\ (k + 1) + 1 = k + 2 /\ k \in 1..(n + 1)
      BY <1>1
    <3>2. Writer!Above((k + 1) + 1)' = Writer!Above(k + 1)
      BY <1>5, <3>1
    <3> QED BY <1>1, <1>2, <1>5, <3>1, <3>2
  <2>4. Placed(k) /\ (k + 1) + 1 = k + 2
    BY DEF Layout
  <2> QED BY <2>2, <2>3, <2>4 DEF Placed, StackTables
<1>10. Placed(1)'
  <2>1. x.index \in 1..Len(wL)
    BY <1>1, <1>2, <1>3, <1>4
  <2>2. wL'[x.index] = wL[x.index]
    BY <2>1
  <2>3. x.index = IF 1 = Len(wframes') THEN Len(caller) ELSE Writer!Above(1 + 1)'
    <3>1. 1 \in 1..(n + 1) /\ Writer!Above(1 + 1)' = Writer!Above(1)
      BY <1>1, <1>5
    <3> QED BY <1>1, <1>2, <3>1
  <2>4. x.kind = "hash" => Len(wL') = Writer!Above(1)' - 1
    BY <1>1, <1>6
  <2> QED BY <1>2, <2>2, <2>3, <2>4 DEF Placed, StackTables
<1>11. ASSUME NEW k \in 1..Len(wframes') PROVE Placed(k)'
  <2>1. k = 1 \/ (k - 1 \in 1..n /\ (k - 1) + 1 = k)
    BY <1>1, <1>2
  <2>2. ASSUME k - 1 \in 1..n, (k - 1) + 1 = k PROVE Placed(k)'
    <3>1. Placed((k - 1) + 1)'
      BY <1>9, <2>2
    <3> QED BY <2>2, <3>1
  <2> QED BY <1>10, <2>1, <2>2
<1>12. Len(wL') + 1 = Writer!Above(1)'
  BY <1>1, <1>6
<1> QED BY <1>7, <1>8, <1>11, <1>12 DEF Layout

\* An activation of writeTable ends.
LEMMA LayoutPopped ==
  ASSUME WriterTypes, Layout, StackTables,
         wframes # <<>>, wframes' = Tail(wframes),
         Len(wL') \in Nat, Len(wL') + 1 >= Writer!Above(2),
         \A p \in 1..(Writer!Above(2) - 1) : wL'[p] = wL[p]
  PROVE  /\ Layout' /\ Len(wframes') = Len(wframes) - 1
         /\ \A k \in 1..Len(wframes) : Writer!Above(k)' = Writer!Above(k + 1)
         /\ \A k \in 1..(Len(wframes) - 1) : wframes'[k] = wframes[k + 1]
<1> DEFINE n == Len(wframes)
<1>1. /\ n \in Nat /\ Len(caller) \in Nat /\ Len(wL) \in Nat
      /\ Writer!Above(n + 1) = Len(caller) + 3
      /\ \A k \in 1..(n + 1) : Writer!Above(k) \in Int /\ Writer!Above(k) >= Len(caller) + 3
  BY Places
<1>2. /\ n >= 1 /\ Len(wframes') = n - 1
      /\ \A k \in 1..(n - 1) : wframes'[k] = wframes[k + 1]
  <2>1. wframes \in Seq(Frame)
    BY DEF WriterTypes
  <2> QED BY <1>1, <2>1, PoppedFirst
<1>3. ASSUME NEW k \in 1..n PROVE Writer!Above(k)' = Writer!Above(k + 1)
  <2>1. CASE k = n
    <3>1. k > Len(wframes') /\ k + 1 > n
      BY <1>1, <1>2, <2>1
    <3> QED BY <3>1 DEF Writer!Above, StackTables
  <2>2. CASE k # n
    <3>1. ~(k > Len(wframes')) /\ ~(k + 1 > n) /\ wframes'[k] = wframes[k + 1]
      BY <1>1, <1>2, <2>2
    <3> QED BY <3>1 DEF Writer!Above, Writer!top, StackTables
  <2> QED BY <2>1, <2>2
<1>4. 2 \in 1..(n + 1) /\ Writer!Above(2) \in Int /\ Writer!Above(2) >= Len(caller) + 3
  <2>1. 2 \in 1..(n + 1)
    BY <1>1, <1>2
  <2> QED BY <1>1, <2>1
<1>5. \A k \in 2..(n + 1) : Writer!Above(k) \in Int /\ Writer!Above(k) <= Writer!Above(2)
  <2> SUFFICES ASSUME NEW k \in 2..(n + 1) PROVE Writer!Above(k) \in Int /\ Writer!Above(k) <= Writer!Above(2)
    OBVIOUS
  <2>1. k \in 1..(n + 1) /\ (k = 2 \/ 2 < k)
    BY <1>1
  <2>2. k = 2 \/ Writer!Above(k) <= Writer!Above(2)
    BY <1>4, <2>1 DEF Layout, Descending
  <2>3. Writer!Above(k) \in Int
    BY <1>1, <2>1
  <2> QED BY <1>4, <2>2, <2>3
<1>6. Bottom'
  <2>1. Len(wL') >= Len(caller) + 2 /\ \A p \in 1..(Len(caller) + 2) : p \in 1..(Writer!Above(2) - 1)
    BY <1>1, <1>4
  <2> QED BY <2>1, BottomKept
<1>7. Descending'
  <2> SUFFICES ASSUME NEW k \in 1..n, NEW m \in 1..n, k < m
               PROVE  Writer!Above(m)' <= Writer!Above(k)'
    BY <1>1, <1>2 DEF Descending
  <2>1. k + 1 \in 1..(n + 1) /\ m + 1 \in 1..(n + 1) /\ k + 1 < m + 1
    BY <1>1
  <2>2. Writer!Above(m + 1) <= Writer!Above(k + 1)
    BY <2>1 DEF Layout, Descending
  <2> QED BY <1>3, <2>2
<1>8. ASSUME NEW k \in 1..(n - 1) PROVE Placed(k)'
  <2>1. /\ k + 1 \in 1..n /\ k \in 1..n /\ k + 1 \in 2..(n + 1) /\ (k + 1) + 1 = k + 2
        /\ (k = n - 1 <=> k + 1 = n) /\ (k + 1 # n => k + 2 \in 2..(n + 1))
    BY <1>1
  <2>2. /\ wframes[k + 1].index = IF k + 1 = n THEN Len(caller) ELSE Writer!Above(k + 2)
        /\ Writer!Above(k + 1) = (IF k + 1 = n THEN Len(caller) + 2 ELSE Writer!Above(k + 2))
                                   + (IF wframes[k + 1].kind = "hash" THEN 2 ELSE 1)
    <3>1. Placed(k + 1)
      BY <2>1 DEF Layout
    <3>2. Writer!Above(k + 1) = (IF k + 1 = n THEN Len(caller) + 2 ELSE Writer!Above((k + 1) + 1))
                                  + (IF wframes[k + 1].kind = "hash" THEN 2 ELSE 1)
      BY <2>1, Places
    <3> QED BY <2>1, <3>1, <3>2 DEF Placed
  <2>3. Writer!Above(k + 1) \in Int /\ Writer!Above(k + 1) <= Writer!Above(2) /\ Writer!Above(k + 1) >= Len(caller) + 3
    BY <1>1, <1>5, <2>1
  <2>4. k + 1 # n => Writer!Above(k + 2) \in Int /\ Writer!Above(k + 2) <= Writer!Above(k + 1) - 1 /\ Writer!Above(k + 2) >= 1
    <3> SUFFICES ASSUME k + 1 # n
                 PROVE  Writer!Above(k + 2) \in Int /\ Writer!Above(k + 2) <= Writer!Above(k + 1) - 1 /\ Writer!Above(k + 2) >= 1
      OBVIOUS
    <3>1. k + 2 \in 1..(n + 1)
      BY <1>1, <2>1
    <3>2. Writer!Above(k + 2) \in Int /\ Writer!Above(k + 2) >= 1
      BY <1>1, <3>1
    <3>3. Writer!Above(k + 1) = Writer!Above(k + 2) + 2 \/ Writer!Above(k + 1) = Writer!Above(k + 2) + 1
      BY <2>2
    <3> QED BY <2>3, <3>2, <3>3
  <2>5. wframes[k + 1].index \in 1..(Writer!Above(2) - 1) /\ Writer!Above(k + 1) - 1 \in 1..(Writer!Above(2) - 1)
    <3>1. Len(caller) >= 1
      BY DEF Layout, Bottom
    <3>2. Writer!Above(k + 1) - 1 \in 1..(Writer!Above(2) - 1)
      BY <1>1, <1>4, <2>3
    <3>3. CASE k + 1 = n
      BY <1>1, <1>4, <2>2, <3>1, <3>2, <3>3
    <3>4. CASE k + 1 # n
      BY <1>4, <2>2, <2>3, <2>4, <3>2, <3>4
    <3> QED BY <3>3, <3>4
  <2>6. /\ wL'[wframes[k + 1].index] = wL[wframes[k + 1].index]
        /\ wL'[Writer!Above(k + 1) - 1] = wL[Writer!Above(k + 1) - 1]
    BY <2>5
  <2>7. /\ wframes'[k] = wframes[k + 1] /\ Writer!Above(k)' = Writer!Above(k + 1)
        /\ (k # n - 1 => Writer!Above(k + 1)' = Writer!Above(k + 2)) /\ Len(wframes') = n - 1
    BY <1>2, <1>3, <2>1
  <2>8. Placed(k + 1) /\ (k + 1) + 1 = k + 2
    BY <2>1 DEF Layout
  <2> QED BY <2>1, <2>6, <2>7, <2>8 DEF Placed, StackTables
<1> QED BY <1>1, <1>2, <1>3, <1>6, <1>7, <1>8 DEF Layout

-----------------------------------------------------------------------------
(* Every action of the writer keeps the invariant.                         *)

Running == StackInv /\ WriterRuns

\* What the invariant says while the writer runs.
LEMMA WhileRunning ==
  ASSUME Running
  PROVE  /\ WriterTypes /\ Layout /\ Tops /\ Counting
         /\ Len(wframes) \in Nat /\ Len(wL) \in Nat /\ Len(caller) \in Nat /\ Len(caller) >= 1
         /\ index2string_ = Len(caller) + 2 /\ whandle = Len(caller) + 1
         /\ (wframes = <<>> <=> Len(wframes) = 0)
         /\ Writer!Above(1) \in Int /\ Writer!Above(1) >= Len(caller) + 3
         /\ wframes = <<>> => Writer!Above(1) = Len(caller) + 3
<1>1. WriterTypes /\ Layout /\ Tops /\ Counting
  BY DEF Running, StackInv
<1>2. wframes = <<>> <=> Len(wframes) = 0
  BY <1>1, EmptySeq DEF WriterTypes
<1> QED BY <1>1, <1>2, Places DEF Layout, Bottom

\* writeBinaryTable opens its buffer and its table of strings.
LEMMA EnterKeeps ==
  ASSUME StackInv, Writer!Enter
  PROVE  StackInv'
<1>1. /\ wL = caller /\ wframes = <<>> /\ wframes' = <<>> /\ caller' = caller /\ Len(caller) >= 1
      /\ wL' = wL \o <<Writer!String2Index, Writer!Index2String>>
      /\ whandle' = Len(wL) + 1 /\ index2string_' = Len(wL) + 2 /\ index' = Len(caller)
      /\ wpc' = "value" /\ wstrings' = wstrings /\ wsize' = wsize
  BY DEF StackInv, WriterRuns, Writer!Enter, Writer!top
<1>2. /\ caller \in Seq(Slot) /\ Len(caller) \in Nat
      /\ Writer!String2Index \in Slot /\ Writer!Index2String \in Slot
      /\ wstrings \in Seq(Slot) /\ wsize \in Nat
  BY DEF StackInv, WriterTypes, Slot
<1>3. /\ wL' \in Seq(Slot) /\ Len(wL') = Len(caller) + 2
      /\ \A p \in 1..Len(caller) : wL'[p] = caller[p]
      /\ wL'[Len(caller) + 1] = Writer!String2Index /\ wL'[Len(caller) + 2] = Writer!Index2String
  BY <1>1, <1>2
<1>4. WriterTypes'
  BY <1>1, <1>2, <1>3 DEF WriterTypes
<1>5. Bottom'
  BY <1>1, <1>2, <1>3 DEF Bottom
<1>6. Descending' /\ Counting' /\ \A k \in 1..Len(wframes') : Placed(k)'
  BY <1>1 DEF Descending, Counting
<1>7. Tops'
  BY <1>1, <1>2, <1>3 DEF Tops
<1> QED BY <1>1, <1>4, <1>5, <1>6, <1>7 DEF StackInv, Layout, WriterRuns

\* writeValue returns without having pushed anything.
LEMMA ReturnKeeps ==
  ASSUME Running, wpc = "value", wpc' \in {"return", "fail"},
         UNCHANGED <<caller, wL, wframes, index, whandle, index2string_>>,
         wstrings' \in Seq(Slot), wsize' \in Nat
  PROVE  StackInv'
<1>1. /\ WriterTypes /\ Layout /\ Tops /\ Counting /\ Len(wframes) \in Nat /\ Len(wL) \in Nat
      /\ Len(caller) \in Nat /\ index2string_ = Len(caller) + 2
      /\ Writer!Above(1) \in Int /\ (wframes = <<>> => Writer!Above(1) = Len(caller) + 3)
  BY WhileRunning
<1>2. WriterTypes'
  BY <1>1 DEF WriterTypes
<1>3. Len(wL) = IF wframes = <<>> THEN index2string_ ELSE Writer!Above(1)
  BY <1>1 DEF Tops
<1>4. Len(wL) + 1 >= Writer!Above(1)
  <2>1. CASE wframes = <<>>
    BY <1>1, <1>3, <2>1
  <2>2. CASE wframes # <<>>
    BY <1>1, <1>3, <2>2
  <2> QED BY <2>1, <2>2
<1>5. Layout' /\ \A k \in 1..(Len(wframes) + 1) : Writer!Above(k)' = Writer!Above(k)
  BY <1>1, <1>4, LayoutKept DEF StackTables
<1>6. Writer!Above(1)' = Writer!Above(1)
  BY <1>1, <1>5
<1>7. Tops'
  BY <1>3, <1>4, <1>6 DEF Tops
<1>8. Counting'
  BY <1>1 DEF Counting
<1> QED BY <1>2, <1>5, <1>7, <1>8 DEF StackInv, WriterRuns

\* writeTableValue writes a boolean or a number.
LEMMA ScalarKeeps == StackInv /\ Writer!WriteScalar => StackInv'
<1> SUFFICES ASSUME StackInv, Writer!WriteScalar PROVE StackInv'
  OBVIOUS
<1>1. /\ Running /\ wpc = "value" /\ wpc' = "return" /\ wstrings' = wstrings /\ wsize' = wsize
      /\ UNCHANGED <<caller, wL, wframes, index, whandle, index2string_>>
  BY DEF Running, WriterRuns, Writer!WriteScalar, Writer!strTable
<1>2. wstrings \in Seq(Slot) /\ wsize \in Nat
  BY DEF StackInv, WriterTypes
<1> QED BY <1>1, <1>2, ReturnKeeps

\* The argument of writeValue.
LEMMA Argument ==
  ASSUME Running, wpc = "value"
  PROVE  index \in 1..Len(wL) /\ wL[index] \in Slot
<1>1. /\ WriterTypes /\ Len(wL) \in Nat /\ Len(caller) \in Nat /\ Len(caller) >= 1
      /\ Tops /\ Layout /\ Writer!Above(1) \in Int /\ Writer!Above(1) >= Len(caller) + 3
  BY WhileRunning
<1>2. Len(wL) >= Len(caller)
  BY <1>1 DEF Layout, Bottom
<1>3. index = IF wframes = <<>> THEN Len(caller) ELSE Len(wL)
  BY <1>1 DEF Tops
<1>4. index \in 1..Len(wL)
  BY <1>1, <1>2, <1>3
<1> QED BY <1>1, <1>4 DEF WriterTypes

\* writeTableValue looks a string up in the table of strings.
LEMMA StringKeeps == StackInv /\ Writer!WriteString => StackInv'
<1> SUFFICES ASSUME StackInv, Writer!WriteString PROVE StackInv'
  OBVIOUS
<1>1. /\ Running /\ wpc = "value" /\ wpc' = "return"
      /\ UNCHANGED <<caller, wL, wframes, index, whandle, index2string_>>
      /\ \/ wstrings' = wstrings /\ wsize' = wsize
         \/ wstrings' = Append(wstrings, wL[index]) /\ wsize' = wsize + 1
  BY DEF Running, WriterRuns, Writer!WriteString, Writer!strTable, Writer!v
<1>2. wstrings \in Seq(Slot) /\ wsize \in Nat /\ wL[index] \in Slot
  BY <1>1, Argument DEF StackInv, WriterTypes
<1>3. CASE wstrings' = wstrings /\ wsize' = wsize
  BY <1>1, <1>2, <1>3, ReturnKeeps
<1>4. CASE wstrings' = Append(wstrings, wL[index]) /\ wsize' = wsize + 1
  <2>1. Append(wstrings, wL[index]) \in Seq(Slot) /\ wsize + 1 \in Nat
    BY ONLY <1>2
  <2> QED BY <1>1, <1>4, <2>1, ReturnKeeps
<1> QED BY <1>1, <1>3, <1>4

\* writeTableValue fails for a value of another type.
LEMMA RefuseKeeps == StackInv /\ Writer!Refuse => StackInv'
<1> SUFFICES ASSUME StackInv, Writer!Refuse PROVE StackInv'
  OBVIOUS
<1>1. /\ Running /\ wpc = "value" /\ wpc' = "fail" /\ wstrings' = wstrings /\ wsize' = wsize
      /\ UNCHANGED <<caller, wL, wframes, index, whandle, index2string_>>
  BY DEF Running, WriterRuns, Writer!Refuse, Writer!strTable
<1>2. wstrings \in Seq(Slot) /\ wsize \in Nat
  BY DEF StackInv, WriterTypes
<1> QED BY <1>1, <1>2, ReturnKeeps

\* writeTable writes a table without keys.
LEMMA EmptyKeeps == StackInv /\ Writer!WriteEmpty => StackInv'
<1> SUFFICES ASSUME StackInv, Writer!WriteEmpty PROVE StackInv'
  OBVIOUS
<1>1. /\ Running /\ wpc = "value" /\ wpc' = "return" /\ wstrings' = wstrings /\ wsize' = wsize
      /\ UNCHANGED <<caller, wL, wframes, index, whandle, index2string_>>
  BY DEF Running, WriterRuns, Writer!WriteEmpty, Writer!IsTable, Writer!strTable
<1>2. wstrings \in Seq(Slot) /\ wsize \in Nat
  BY DEF StackInv, WriterTypes
<1> QED BY <1>1, <1>2, ReturnKeeps

\* The table that writeTable was called for.
LEMMA Table ==
  ASSUME Running, Writer!IsTable
  PROVE  /\ index \in 1..Len(wL) /\ Writer!lua_type(wL[index]) = "table"
         /\ wL[index][2] \in DOMAIN Heap /\ Writer!t = Heap[wL[index][2]]
         /\ Writer!length = Writer!countTableLength(Heap[wL[index][2]])
         /\ Writer!length \in Nat
<1>1. wpc = "value" /\ Writer!lua_type(wL[index]) = "table"
  BY DEF Writer!IsTable, Writer!v
<1>2. index \in 1..Len(wL) /\ wL[index][2] \in DOMAIN Heap
  BY <1>1, Argument, SlotTable
<1>3. Writer!t = Heap[wL[index][2]] /\ Writer!length = Writer!countTableLength(Heap[wL[index][2]])
  BY DEF Writer!t, Writer!length, Writer!v
<1> QED BY <1>1, <1>2, <1>3, SlotKeys

\* writeTable reaches its loop.
LEMMA BeginKeeps ==
  ASSUME Running, Writer!IsTable, Writer!length # 0, wpc' = "loop",
         UNCHANGED <<caller, index, whandle, index2string_, wstrings, wsize>>,
         NEW kind \in {"array", "hash"}, wframes' = Writer!Activation(kind),
         kind = "array" => wL' = wL,
         kind = "hash" => \E s \in Writer!Arrays(Writer!Keys(Writer!t)) : wL' = Append(wL, Writer!KeyArray(s))
  PROVE  StackInv'
<1> DEFINE x == [kind |-> kind, index |-> index, i |-> 1, n |-> Writer!length, key |-> FALSE]
<1>1. /\ WriterTypes /\ Layout /\ Tops /\ Counting /\ Len(wframes) \in Nat /\ Len(wL) \in Nat
      /\ Len(caller) \in Nat
  BY WhileRunning
<1>2. /\ index \in 1..Len(wL) /\ Writer!lua_type(wL[index]) = "table" /\ wL[index][2] \in DOMAIN Heap
      /\ Writer!t = Heap[wL[index][2]] /\ Writer!length = Writer!countTableLength(Heap[wL[index][2]])
      /\ Writer!length \in Nat
  BY Table
<1>3. wpc = "value"
  BY DEF Writer!IsTable
<1>4. wframes' = <<x>> \o wframes
  BY DEF Writer!Activation
<1>5. x \in Frame /\ x.index = index /\ x.i = 1 /\ x.n = Writer!length /\ x.kind = kind
  BY <1>1, <1>2 DEF Frame, WriterTypes
<1> HIDE DEF x
<1>6. /\ wL' \in Seq(Slot) /\ Len(wL') = Len(wL) + (IF x.kind = "hash" THEN 1 ELSE 0)
      /\ \A p \in 1..Len(wL) : wL'[p] = wL[p]
      /\ x.kind = "hash" =>
           \E s \in Writer!Arrays(Writer!Keys(Heap[wL[x.index][2]])) : wL'[Len(wL')] = Writer!KeyArray(s)
  <2>1. CASE kind = "array"
    BY <1>1, <1>5, <2>1 DEF WriterTypes
  <2>2. CASE kind = "hash"
    <3>1. PICK s \in Writer!Arrays(Writer!Keys(Writer!t)) : wL' = Append(wL, Writer!KeyArray(s))
      BY <2>2
    <3>2. Writer!KeyArray(s) \in Slot /\ wL \in Seq(Slot)
      BY <1>1, <1>2, <3>1, SlotKeys DEF WriterTypes
    <3>3. /\ wL' \in Seq(Slot) /\ Len(wL') = Len(wL) + 1 /\ wL'[Len(wL')] = Writer!KeyArray(s)
          /\ \A p \in 1..Len(wL) : wL'[p] = wL[p]
      BY <1>1, <3>1, <3>2, AppendProperties
    <3> QED BY <1>2, <1>5, <2>2, <3>3
  <2> QED BY <2>1, <2>2
<1>7. wframes' \in Seq(Frame) /\ Len(wframes') = Len(wframes) + 1 /\ wframes'[1] = x
      /\ \A k \in 1..Len(wframes) : wframes'[k + 1] = wframes[k]
  BY <1>1, <1>4, <1>5, Pushed DEF WriterTypes
<1>8. WriterTypes'
  BY <1>1, <1>6, <1>7 DEF WriterTypes
<1>9. Layout' /\ Len(wL') + 1 = Writer!Above(1)'
  <2>1. /\ Len(wL) = IF wframes = <<>> THEN index2string_ ELSE Writer!Above(1)
        /\ x.index = IF wframes = <<>> THEN Len(caller) ELSE Len(wL)
    BY <1>1, <1>3, <1>5 DEF Tops
  <2>2. Writer!lua_type(wL[x.index]) = "table" /\ x.n = Writer!countTableLength(Heap[wL[x.index][2]])
    BY <1>2, <1>5
  <2> QED BY <1>1, <1>4, <1>5, <1>6, <2>1, <2>2, LayoutPushed DEF StackTables
<1>10. Tops'
  <2>1. wframes' # <<>>
    BY <1>1, <1>7
  <2> QED BY <1>9, <2>1 DEF Tops
<1>11. Counting'
  <2> SUFFICES ASSUME NEW k \in 1..(Len(wframes) + 1)
               PROVE  /\ wframes'[k].i \in 1..(wframes'[k].n + 1)
                      /\ wframes'[k].i <= wframes'[k].n
    BY <1>7 DEF Counting
  <2>1. CASE k = 1
    <3>1. Writer!length >= 1 /\ 1 \in 1..(Writer!length + 1)
      BY <1>2
    <3>2. wframes'[k].i = 1 /\ wframes'[k].n = Writer!length
      BY <1>5, <1>7, <2>1
    <3> QED BY <3>1, <3>2
  <2>2. CASE k # 1
    <3>1. k - 1 \in 1..Len(wframes) /\ (k - 1) + 1 = k
      BY <1>1, <2>2
    <3>2. wframes'[k] = wframes[k - 1]
      BY <1>7, <3>1
    <3> QED BY <1>1, <1>3, <3>1, <3>2 DEF Counting
  <2> QED BY <2>1, <2>2
<1> QED BY <1>8, <1>9, <1>10, <1>11 DEF StackInv, WriterRuns

\* writeTableArray begins with the first element.
LEMMA BeginArrayKeeps == StackInv /\ Writer!BeginArray => StackInv'
<1> SUFFICES ASSUME StackInv, Writer!BeginArray PROVE StackInv'
  OBVIOUS
<1>1. /\ Writer!IsTable /\ Writer!length # 0 /\ wframes' = Writer!Activation("array") /\ wpc' = "loop" /\ wL' = wL
      /\ UNCHANGED <<caller, index, whandle, index2string_, wstrings, wsize>>
  BY DEF Writer!BeginArray, Writer!strTable
<1>2. Running
  BY <1>1 DEF Running, WriterRuns, Writer!IsTable
<1> QED BY <1>1, <1>2, BeginKeeps

\* writeTableHashMap collects the keys and begins with the first.
LEMMA BeginHashKeeps == StackInv /\ Writer!BeginHash => StackInv'
<1> SUFFICES ASSUME StackInv, Writer!BeginHash PROVE StackInv'
  OBVIOUS
<1>1. /\ Writer!IsTable /\ Writer!length # 0
      /\ UNCHANGED <<caller, index, whandle, index2string_, wstrings, wsize>>
  BY DEF Writer!BeginHash, Writer!strTable
<1>2. Running
  BY <1>1 DEF Running, WriterRuns, Writer!IsTable
<1>3. CASE wpc' = "loop"
  <2>1. /\ wframes' = Writer!Activation("hash")
        /\ \E s \in Writer!Arrays(Writer!Keys(Writer!t)) : wL' = Append(wL, Writer!KeyArray(s))
    BY <1>3 DEF Writer!BeginHash, Writer!SortedKeys
  <2> QED BY <1>1, <1>2, <1>3, <2>1, BeginKeeps
\* table.sort raises an error: the keys and the library are left on the stack.
<1>4. CASE wpc' # "loop"
  <2>1. /\ wpc' = "fail" /\ wframes' = wframes
        /\ \E s \in Writer!Arrays(Writer!Keys(Writer!t)) : wL' = wL \o <<Writer!KeyArray(s), Writer!Library>>
    BY <1>4 DEF Writer!BeginHash
  <2>2. PICK s \in Writer!Arrays(Writer!Keys(Writer!t)) : wL' = wL \o <<Writer!KeyArray(s), Writer!Library>>
    BY <2>1
  <2>3. /\ WriterTypes /\ Layout /\ Tops /\ Counting /\ Len(wframes) \in Nat /\ Len(wL) \in Nat
        /\ Len(caller) \in Nat /\ index2string_ = Len(caller) + 2
        /\ Writer!Above(1) \in Int /\ (wframes = <<>> => Writer!Above(1) = Len(caller) + 3)
    BY <1>2, WhileRunning
  <2>4. Writer!KeyArray(s) \in Slot /\ Writer!Library \in Slot /\ wL \in Seq(Slot)
    <3>1. Writer!t = Heap[wL[index][2]] /\ wL[index][2] \in DOMAIN Heap
      BY <1>1, <1>2, Table
    <3>2. Writer!KeyArray(s) \in Slot
      BY <3>1, SlotKeys
    <3> QED BY <2>3, <3>2 DEF WriterTypes, Slot
  <2>5. wL' \in Seq(Slot) /\ Len(wL') = Len(wL) + 2 /\ \A p \in 1..Len(wL) : wL'[p] = wL[p]
    BY <2>2, <2>4
  <2>6. wpc = "value"
    BY <1>1 DEF Writer!IsTable
  <2>7. Len(wL) + 1 >= Writer!Above(1)
    <3>1. Len(wL) = IF wframes = <<>> THEN index2string_ ELSE Writer!Above(1)
      BY <2>3, <2>6 DEF Tops
    <3>2. CASE wframes = <<>>
      BY <2>3, <3>1, <3>2
    <3>3. CASE wframes # <<>>
      BY <2>3, <3>1, <3>3
    <3> QED BY <3>2, <3>3
  <2>8. Layout' /\ \A k \in 1..(Len(wframes) + 1) : Writer!Above(k)' = Writer!Above(k)
    <3>1. /\ Len(wframes') = Len(wframes) /\ Len(wL') \in Nat /\ Len(wL') + 1 >= Writer!Above(1)
          /\ \A p \in 1..(Writer!Above(1) - 1) : wL'[p] = wL[p]
      BY <2>1, <2>3, <2>5, <2>7
    <3> QED BY <1>1, <2>1, <2>3, <3>1, LayoutKept DEF StackTables
  <2>9. Writer!Above(1)' = Writer!Above(1)
    BY <2>3, <2>8
  <2>10. WriterTypes'
    BY <1>1, <2>1, <2>3, <2>5 DEF WriterTypes
  <2>11. Tops'
    BY <2>1, <2>3, <2>5, <2>7, <2>9 DEF Tops
  <2>12. Counting'
    BY <2>1, <2>3 DEF Counting
  <2> QED BY <2>1, <2>8, <2>10, <2>11, <2>12 DEF StackInv, WriterRuns
<1> QED BY <1>3, <1>4

\* A loop of writeTable takes a step: only the innermost frame's i and key change.
LEMMA LoopKeeps ==
  ASSUME Running, wframes # <<>>,
         UNCHANGED <<caller, whandle, index2string_, wstrings, wsize>>,
         NEW x \in Frame, wframes' = <<x>> \o Tail(wframes),
         x.index = wframes[1].index, x.kind = wframes[1].kind, x.n = wframes[1].n,
         wL' \in Seq(Slot), index' \in Nat, \A p \in 1..(Writer!Above(1) - 1) : wL'[p] = wL[p],
         \/ wpc' = "value" /\ Len(wL') = Writer!Above(1) /\ index' = Len(wL') /\ x.i \in 1..x.n
         \/ wpc' = "loop" /\ Len(wL') + 1 = Writer!Above(1) /\ x.i \in 1..(x.n + 1)
  PROVE  StackInv'
<1>1. /\ WriterTypes /\ Layout /\ Counting /\ Len(wframes) \in Nat /\ Len(caller) \in Nat
      /\ Writer!Above(1) \in Int /\ Writer!Above(1) >= Len(caller) + 3
  BY WhileRunning
<1>2. /\ wframes' \in Seq(Frame) /\ Len(wframes') = Len(wframes) /\ Len(wframes) \in Nat \ {0}
      /\ wframes'[1] = x /\ \A k \in 2..Len(wframes) : wframes'[k] = wframes[k]
  BY <1>1, FirstChanged DEF WriterTypes
<1>3. \A k \in 1..Len(wframes) :
        /\ wframes'[k].index = wframes[k].index /\ wframes'[k].kind = wframes[k].kind
        /\ wframes'[k].n = wframes[k].n
  <2> SUFFICES ASSUME NEW k \in 1..Len(wframes)
               PROVE  /\ wframes'[k].index = wframes[k].index /\ wframes'[k].kind = wframes[k].kind
                      /\ wframes'[k].n = wframes[k].n
    OBVIOUS
  <2>1. k = 1 \/ k \in 2..Len(wframes)
    BY <1>1
  <2> QED BY <1>2, <2>1
<1>4. Len(wL') \in Nat /\ Len(wL') + 1 >= Writer!Above(1)
  <2>1. Len(wL') \in Nat
    OBVIOUS
  <2> QED BY <1>1, <2>1
<1>5. Layout' /\ \A k \in 1..(Len(wframes) + 1) : Writer!Above(k)' = Writer!Above(k)
  BY <1>1, <1>2, <1>3, <1>4, LayoutKept DEF StackTables
<1>6. Writer!Above(1)' = Writer!Above(1)
  BY <1>1, <1>5
<1>7. WriterTypes'
  <2>1. wpc' \in {"enter", "value", "loop", "return", "fail", "written", "failed"}
    OBVIOUS
  <2> QED BY <1>1, <1>2, <2>1 DEF WriterTypes
<1>8. wframes' # <<>>
  BY <1>2
<1>9. Tops'
  BY <1>6, <1>8 DEF Tops
<1>10. Counting'
  <2> SUFFICES ASSUME NEW k \in 1..Len(wframes)
               PROVE  /\ wframes'[k].i \in 1..(wframes'[k].n + 1)
                      /\ k > 1 \/ wpc' \in {"value", "return"} => wframes'[k].i <= wframes'[k].n
    BY <1>2 DEF Counting
  <2>1. CASE k = 1
    <3>1. wframes'[k] = x /\ x.n \in Nat /\ x.i \in Nat
      BY <1>2, <2>1 DEF Frame
    <3>2. x.i \in 1..(x.n + 1) /\ (wpc' \in {"value", "return"} => x.i <= x.n)
      BY <3>1
    <3> QED BY <2>1, <3>1, <3>2
  <2>2. CASE k # 1
    <3>1. k \in 2..Len(wframes) /\ k > 1
      BY <1>1, <2>2
    <3>2. wframes'[k] = wframes[k]
      BY <1>2, <3>1
    <3> QED BY <1>1, <3>1, <3>2 DEF Counting
  <2> QED BY <2>1, <2>2
<1> QED BY <1>5, <1>7, <1>9, <1>10 DEF StackInv, WriterRuns

\* The innermost activation, its table and its array of keys.
LEMMA Innermost ==
  ASSUME Running, wframes # <<>>
  PROVE  /\ Writer!f = wframes[1] /\ wframes[1] \in Frame /\ 1 \in 1..Len(wframes)
         /\ wL[wframes[1].index][2] \in DOMAIN Heap /\ Writer!Own = Heap[wL[wframes[1].index][2]]
         /\ wframes[1].n = Writer!countTableLength(Writer!Own)
         /\ wframes[1].kind = "hash" =>
              \E s \in Writer!Arrays(Writer!Keys(Writer!Own)) : wL[Writer!Above(1) - 1] = Writer!KeyArray(s)
         /\ wframes[1].index \in 1..(Writer!Above(1) - 1)
         /\ wpc \in {"value", "loop", "return"} => Writer!Above(1) - 1 <= Len(wL)
<1>1. /\ WriterTypes /\ Layout /\ Tops /\ Len(wframes) \in Nat /\ Len(wframes) # 0 /\ Len(caller) \in Nat
      /\ Writer!Above(1) \in Int /\ Len(wL) \in Nat
  BY WhileRunning
<1>2. Writer!f = wframes[1] /\ wframes[1] \in Frame
  BY <1>1, PoppedFirst DEF WriterTypes, Writer!f
<1>3. 1 \in 1..Len(wframes)
  BY <1>1
<1>4. Placed(1) /\ wframes[1].index \in 1..(Writer!Above(1) - 1)
  BY <1>1, <1>3, Places DEF Layout
<1>5. Writer!Above(1) - 1 <= Len(wL) \/ wpc \notin {"value", "loop", "return"}
  <2>1. CASE wpc = "loop"
    BY <1>1, <2>1 DEF Tops
  <2>2. CASE wpc \in {"value", "return"}
    BY <1>1, <2>2 DEF Tops
  <2> QED BY <2>1, <2>2
<1>6. Len(wL) >= Writer!Above(1) - 1
  <2>1. CASE wpc = "fail"
    BY <1>1, <2>1 DEF Tops
  <2> QED BY <1>1, <1>5, <2>1 DEF Running, WriterRuns
<1>7. wframes[1].index \in 1..Len(wL)
  BY <1>1, <1>4, <1>6
<1>8. wL[wframes[1].index] \in Slot
  BY <1>1, <1>7 DEF WriterTypes
<1>9. wL[wframes[1].index][2] \in DOMAIN Heap
  BY <1>4, <1>8, SlotTable DEF Placed
<1>10. Writer!Own = Heap[wL[wframes[1].index][2]]
  BY <1>2 DEF Writer!Own
<1> QED BY <1>2, <1>3, <1>4, <1>5, <1>9, <1>10 DEF Placed

\* The next key or element is pushed and written.
LEMMA EntryKeeps == StackInv /\ Writer!LoopEntry => StackInv'
<1> SUFFICES ASSUME StackInv, Writer!LoopEntry PROVE StackInv'
  OBVIOUS
<1> DEFINE y == IF Writer!f.kind = "array" THEN Writer!rawget(Writer!Own, Writer!Int2Num(Writer!f.i))
                ELSE Writer!KeysOnTop[Writer!f.i]
           x == [Writer!f EXCEPT !.key = Writer!f.kind = "hash"]
<1>1. /\ wpc = "loop" /\ wpc' = "value" /\ Writer!f.i <= Writer!f.n
      /\ wL' = Append(wL, y) /\ wframes' = <<x>> \o Tail(wframes) /\ index' = Len(wL) + 1
      /\ UNCHANGED <<caller, whandle, index2string_, wstrings, wsize>>
  BY DEF Writer!LoopEntry, Writer!PushedIndex, Writer!strTable
<1>2. Running
  BY <1>1 DEF Running, WriterRuns
<1>3. /\ WriterTypes /\ Tops /\ Counting /\ Len(wL) \in Nat /\ Writer!Above(1) \in Int
      /\ wframes # <<>> /\ Len(wL) + 1 = Writer!Above(1)
  BY <1>1, <1>2, WhileRunning DEF Tops
<1>4. /\ Writer!f = wframes[1] /\ wframes[1] \in Frame /\ 1 \in 1..Len(wframes)
      /\ wL[wframes[1].index][2] \in DOMAIN Heap /\ Writer!Own = Heap[wL[wframes[1].index][2]]
      /\ wframes[1].n = Writer!countTableLength(Writer!Own)
      /\ wframes[1].kind = "hash" =>
           \E s \in Writer!Arrays(Writer!Keys(Writer!Own)) : wL[Writer!Above(1) - 1] = Writer!KeyArray(s)
  BY <1>2, <1>3, Innermost
<1>5. wframes[1].i \in Nat /\ wframes[1].n \in Nat /\ wframes[1].kind \in {"array", "hash"}
  BY <1>4 DEF Frame
<1>6. wframes[1].i \in 1..wframes[1].n
  <2>1. wframes[1].i \in 1..(wframes[1].n + 1)
    BY <1>3, <1>4 DEF Counting
  <2> QED BY <1>1, <1>4, <1>5, <2>1
<1>7. y \in Slot
  <2>1. CASE wframes[1].kind = "array"
    BY <1>4, <2>1, SlotGet
  <2>2. CASE wframes[1].kind = "hash"
    <3>1. PICK s \in Writer!Arrays(Writer!Keys(Writer!Own)) : wL[Writer!Above(1) - 1] = Writer!KeyArray(s)
      BY <1>4, <2>2
    <3>2. Writer!KeysOnTop = s
      <4>1. Writer!Above(1) - 1 = Len(wL)
        BY <1>3
      <4>2. Writer!KeyArray(s)[2] = s
        BY DEF Writer!KeyArray
      <4> QED BY <3>1, <4>1, <4>2 DEF Writer!KeysOnTop
    <3>3. \A k \in 1..Writer!countTableLength(Writer!Own) : s[k] \in Slot
      BY <1>4, SlotKeys
    <3>4. s[wframes[1].i] \in Slot
      BY <1>4, <1>6, <3>3
    <3> QED BY <1>4, <2>2, <3>2, <3>4
  <2> QED BY <1>5, <2>1, <2>2
<1>8. x \in Frame /\ x.index = wframes[1].index /\ x.kind = wframes[1].kind /\ x.n = wframes[1].n /\ x.i = wframes[1].i
  BY <1>4 DEF Frame
<1> HIDE DEF x, y
<1>9. wL' \in Seq(Slot) /\ Len(wL') = Len(wL) + 1 /\ \A p \in 1..Len(wL) : wL'[p] = wL[p]
  BY <1>1, <1>3, <1>7, AppendProperties DEF WriterTypes
<1>10. /\ Len(wL') = Writer!Above(1) /\ index' = Len(wL') /\ index' \in Nat
       /\ \A p \in 1..(Writer!Above(1) - 1) : wL'[p] = wL[p]
  BY <1>1, <1>3, <1>9
<1> QED BY <1>1, <1>2, <1>3, <1>6, <1>8, <1>9, <1>10, LoopKeeps

\* A table without further entries is done with.
LEMMA EndKeeps == StackInv /\ Writer!LoopEnd => StackInv'
<1> SUFFICES ASSUME StackInv, Writer!LoopEnd PROVE StackInv'
  OBVIOUS
<1> DEFINE n == Len(wframes)
           w == IF wframes[1].kind = "hash" THEN 2 ELSE 1
           own == IF 1 = n THEN Len(caller) + 2 ELSE Writer!Above(2)
<1>1. /\ wpc = "loop" /\ wpc' = "return" /\ wframes' = Tail(wframes) /\ wL' = Writer!PopKeys
      /\ UNCHANGED <<caller, index, whandle, index2string_, wstrings, wsize>>
  BY DEF Writer!LoopEnd, Writer!strTable
<1>2. Running
  BY <1>1 DEF Running, WriterRuns
<1>3. /\ WriterTypes /\ Layout /\ Tops /\ Counting /\ n \in Nat /\ Len(wL) \in Nat /\ Len(caller) \in Nat
      /\ index2string_ = Len(caller) + 2 /\ wframes # <<>> /\ n # 0
      /\ Writer!Above(1) \in Int /\ Len(wL) + 1 = Writer!Above(1)
  BY <1>1, <1>2, WhileRunning DEF Tops
<1>4. Writer!f = wframes[1] /\ 1 \in 1..n
  BY <1>2, <1>3, Innermost
<1>5. /\ Writer!Above(1) = own + w /\ Writer!Above(n + 1) = Len(caller) + 3
      /\ \A k \in 1..(n + 1) : Writer!Above(k) \in Int /\ Writer!Above(k) >= Len(caller) + 3
  <2>1. Writer!Above(1) = (IF 1 = n THEN Len(caller) + 2 ELSE Writer!Above(1 + 1))
                             + (IF wframes[1].kind = "hash" THEN 2 ELSE 1)
    BY <1>3, <1>4, Places
  <2> QED BY <1>3, <2>1, Places
<1>6. Writer!Above(2) \in Int /\ (n = 1 => Writer!Above(2) = Len(caller) + 3) /\ Writer!Above(2) >= Len(caller) + 3
  <2>1. 2 \in 1..(n + 1)
    BY <1>3
  <2>2. n = 1 => Writer!Above(2) = Len(caller) + 3
    <3> SUFFICES ASSUME n = 1 PROVE Writer!Above(2) = Len(caller) + 3
      OBVIOUS
    <3>1. n + 1 = 1 + 1 /\ 1 + 1 = 2
      OBVIOUS
    <3>2. Writer!Above(n + 1) = Writer!Above(2)
      BY <3>1
    <3> QED BY <1>5, <3>2
  <2> QED BY <1>5, <2>1, <2>2
<1>7. own \in Nat /\ own + 1 >= Writer!Above(2) /\ w \in {1, 2} /\ (wframes[1].kind = "hash" <=> w = 2)
  BY <1>3, <1>6
<1> HIDE DEF w, own
<1>8. wL' \in Seq(Slot) /\ Len(wL') = own /\ \A p \in 1..own : wL'[p] = wL[p]
  <2>1. wL \in Seq(Slot) /\ Len(wL) = own + w - 1
    BY <1>3, <1>5, <1>7 DEF WriterTypes
  <2>2. CASE wframes[1].kind = "hash"
    <3>1. wL' = SubSeq(wL, 1, Len(wL) - 1)
      BY <1>1, <1>4, <2>2 DEF Writer!PopKeys, Writer!Pop
    <3>2. Len(wL) - 1 = own /\ own <= Len(wL)
      BY <1>7, <2>1, <2>2
    <3> QED BY <1>7, <2>1, <3>1, <3>2, Popped
  <2>3. CASE wframes[1].kind # "hash"
    BY <1>1, <1>4, <1>7, <2>1, <2>3 DEF Writer!PopKeys
  <2> QED BY <2>2, <2>3
<1>9. /\ Layout' /\ Len(wframes') = n - 1
      /\ \A k \in 1..n : Writer!Above(k)' = Writer!Above(k + 1)
      /\ \A k \in 1..(n - 1) : wframes'[k] = wframes[k + 1]
  <2>1. /\ Len(wL') \in Nat /\ Len(wL') + 1 >= Writer!Above(2)
        /\ \A p \in 1..(Writer!Above(2) - 1) : wL'[p] = wL[p]
    BY <1>6, <1>7, <1>8
  <2> QED BY <1>1, <1>3, <2>1, LayoutPopped DEF StackTables
<1>10. WriterTypes'
  <2>1. wframes' \in Seq(Frame)
    BY <1>1, <1>3, PoppedFirst DEF WriterTypes
  <2> QED BY <1>1, <1>3, <1>8, <2>1 DEF WriterTypes
<1>11. Tops'
  <2>1. wframes' = <<>> <=> n = 1
    <3>1. wframes' = <<>> <=> Len(wframes') = 0
      BY <1>10, EmptySeq DEF WriterTypes
    <3> QED BY <1>3, <1>9, <3>1
  <2>2. Writer!Above(1)' = Writer!Above(2)
    <3>1. Writer!Above(1)' = Writer!Above(1 + 1)
      BY <1>3, <1>4, <1>9
    <3> QED BY <3>1
  <2>3. Len(wL') = IF wframes' = <<>> THEN index2string_ ELSE Writer!Above(2)
    BY <1>3, <1>8, <2>1 DEF own
  <2> QED BY <1>1, <2>2, <2>3 DEF Tops
<1>12. Counting'
  <2> SUFFICES ASSUME NEW k \in 1..(n - 1)
               PROVE  wframes'[k].i \in 1..(wframes'[k].n + 1) /\ wframes'[k].i <= wframes'[k].n
    BY <1>9 DEF Counting
  <2>1. k + 1 \in 1..n /\ k + 1 > 1 /\ wframes'[k] = wframes[k + 1]
    BY <1>3, <1>9
  <2> QED BY <1>3, <2>1 DEF Counting
<1> QED BY <1>1, <1>9, <1>10, <1>11, <1>12 DEF StackInv, WriterRuns

\* A call of writeValue by writeTable returns.
LEMMA WhileReturning ==
  ASSUME StackInv, wpc = "return", wframes # <<>>
  PROVE  /\ Running /\ Writer!f = wframes[1] /\ wframes[1] \in Frame
         /\ wframes[1].i \in Nat /\ wframes[1].n \in Nat /\ wframes[1].i \in 1..wframes[1].n
         /\ wL \in Seq(Slot) /\ Len(wL) \in Nat \ {0} /\ Len(wL) = Writer!Above(1)
         /\ wL[wframes[1].index][2] \in DOMAIN Heap /\ Writer!Own = Heap[wL[wframes[1].index][2]]
<1>1. Running
  BY DEF Running, WriterRuns
<1>2. /\ Writer!f = wframes[1] /\ wframes[1] \in Frame /\ 1 \in 1..Len(wframes)
      /\ wL[wframes[1].index][2] \in DOMAIN Heap /\ Writer!Own = Heap[wL[wframes[1].index][2]]
  BY <1>1, Innermost
<1>3. /\ WriterTypes /\ Tops /\ Counting /\ Len(wL) \in Nat /\ Len(caller) \in Nat
      /\ Writer!Above(1) \in Int /\ Writer!Above(1) >= Len(caller) + 3
  BY <1>1, WhileRunning
<1>4. wframes[1].i \in Nat /\ wframes[1].n \in Nat
  BY <1>2 DEF Frame
<1>5. wframes[1].i \in 1..wframes[1].n
  <2>1. wframes[1].i \in 1..(wframes[1].n + 1) /\ wframes[1].i <= wframes[1].n
    BY <1>2, <1>3 DEF Counting
  <2> QED BY <1>4, <2>1
<1>6. wL \in Seq(Slot) /\ Len(wL) = Writer!Above(1)
  BY <1>3 DEF WriterTypes, Tops
<1> QED BY <1>1, <1>2, <1>3, <1>4, <1>5, <1>6

\* When a key is written its value comes next.
LEMMA ReturnKeyKeeps == StackInv /\ Writer!ReturnKey => StackInv'
<1> SUFFICES ASSUME StackInv, Writer!ReturnKey PROVE StackInv'
  OBVIOUS
<1> DEFINE y == Writer!rawget(Writer!Own, wL[Len(wL)])
           x == [Writer!f EXCEPT !.key = FALSE]
           low == SubSeq(wL, 1, Len(wL) - 1)
<1>1. /\ wpc = "return" /\ wframes # <<>> /\ wpc' = "value"
      /\ wL' = Append(low, y) /\ wframes' = <<x>> \o Tail(wframes) /\ index' = Len(wL)
      /\ UNCHANGED <<caller, whandle, index2string_, wstrings, wsize>>
  BY DEF Writer!ReturnKey, Writer!Pop, Writer!strTable
<1>2. /\ Running /\ Writer!f = wframes[1] /\ wframes[1] \in Frame
      /\ wframes[1].i \in 1..wframes[1].n
      /\ wL \in Seq(Slot) /\ Len(wL) \in Nat \ {0} /\ Len(wL) = Writer!Above(1)
      /\ wL[wframes[1].index][2] \in DOMAIN Heap /\ Writer!Own = Heap[wL[wframes[1].index][2]]
  BY <1>1, WhileReturning
<1>3. y \in Slot
  BY <1>2, SlotGet
<1>4. x \in Frame /\ x.index = wframes[1].index /\ x.kind = wframes[1].kind /\ x.n = wframes[1].n /\ x.i = wframes[1].i
  BY <1>2 DEF Frame
<1>5. low \in Seq(Slot) /\ Len(low) = Len(wL) - 1 /\ \A p \in 1..(Len(wL) - 1) : low[p] = wL[p]
  <2>1. Len(wL) - 1 \in Nat /\ Len(wL) - 1 <= Len(wL)
    BY <1>2
  <2> QED BY <1>2, <2>1, Popped
<1> HIDE DEF x, y, low
<1>6. /\ wL' \in Seq(Slot) /\ Len(wL') = Len(wL) /\ \A p \in 1..(Len(wL) - 1) : wL'[p] = wL[p]
  <2>1. /\ wL' \in Seq(Slot) /\ Len(wL') = Len(low) + 1 /\ \A p \in 1..Len(low) : wL'[p] = low[p]
    BY <1>1, <1>3, <1>5, AppendProperties
  <2> QED BY <1>2, <1>5, <2>1
<1>7. /\ Len(wL') = Writer!Above(1) /\ index' = Len(wL') /\ index' \in Nat
      /\ \A p \in 1..(Writer!Above(1) - 1) : wL'[p] = wL[p]
  BY <1>1, <1>2, <1>6
<1> QED BY <1>1, <1>2, <1>4, <1>6, <1>7, LoopKeeps

\* When a value is written it is popped.
LEMMA ReturnValueKeeps == StackInv /\ Writer!ReturnValue => StackInv'
<1> SUFFICES ASSUME StackInv, Writer!ReturnValue PROVE StackInv'
  OBVIOUS
<1> DEFINE x == [Writer!f EXCEPT !.i = @ + 1]
<1>1. /\ wpc = "return" /\ wframes # <<>> /\ wpc' = "loop"
      /\ wL' = SubSeq(wL, 1, Len(wL) - 1) /\ wframes' = <<x>> \o Tail(wframes) /\ index' = index
      /\ UNCHANGED <<caller, whandle, index2string_, wstrings, wsize>>
  BY DEF Writer!ReturnValue, Writer!Pop, Writer!strTable
<1>2. /\ Running /\ Writer!f = wframes[1] /\ wframes[1] \in Frame
      /\ wframes[1].i \in Nat /\ wframes[1].n \in Nat /\ wframes[1].i \in 1..wframes[1].n
      /\ wL \in Seq(Slot) /\ Len(wL) \in Nat \ {0} /\ Len(wL) = Writer!Above(1)
  BY <1>1, WhileReturning
<1>3. /\ x \in Frame /\ x.index = wframes[1].index /\ x.kind = wframes[1].kind /\ x.n = wframes[1].n
      /\ x.i = wframes[1].i + 1
  BY <1>2 DEF Frame
<1> HIDE DEF x
<1>4. x.i \in 1..(x.n + 1)
  BY <1>2, <1>3
<1>5. wL' \in Seq(Slot) /\ Len(wL') = Len(wL) - 1 /\ \A p \in 1..(Len(wL) - 1) : wL'[p] = wL[p]
  <2>1. Len(wL) - 1 \in Nat /\ Len(wL) - 1 <= Len(wL)
    BY <1>2
  <2> QED BY <1>1, <1>2, <2>1, Popped
<1>6. Len(wL') + 1 = Writer!Above(1) /\ \A p \in 1..(Writer!Above(1) - 1) : wL'[p] = wL[p]
  BY <1>2, <1>5
<1>7. index' \in Nat
  BY <1>1, <1>2 DEF StackInv, WriterTypes
<1> QED BY <1>1, <1>2, <1>3, <1>4, <1>5, <1>6, <1>7, LoopKeeps

\* strTable.destroy, and what is left of the stack.
LEMMA Destroyed ==
  ASSUME Running
  PROVE  /\ Writer!destroy(wL) \in Seq(Slot) /\ Len(Writer!destroy(wL)) = Len(wL) - 2
         /\ Len(wL) - 2 \in Nat /\ Len(wL) - 2 >= Len(caller)
         /\ \A p \in 1..Len(caller) : Writer!destroy(wL)[p] = caller[p]
<1> DEFINE c == Len(caller)
           r1 == Writer!lua_remove(wL, c + 2)
           r2 == Writer!lua_remove(r1, c + 1)
<1>1. /\ wL \in Seq(Slot) /\ Len(wL) \in Nat /\ c \in Nat /\ index2string_ = c + 2 /\ whandle = c + 1
      /\ Len(wL) >= c + 2 /\ \A p \in 1..c : wL[p] = caller[p]
  BY WhileRunning DEF WriterTypes, Layout, Bottom
<1>2. Writer!destroy(wL) = r2
  BY <1>1 DEF Writer!destroy
<1>3. IsRemoval(wL, c + 2, r1) /\ IsRemoval(r1, c + 1, r2)
  BY DEF Writer!lua_remove, IsRemoval
<1> HIDE DEF r1, r2
<1>4. /\ r1 \in Seq(Slot) /\ Len(r1) = Len(wL) - 1
      /\ \A p \in 1..((c + 2) - 1) : r1[p] = wL[p]
  <2>1. c + 2 \in 1..Len(wL)
    BY <1>1
  <2> QED BY <1>1, <1>3, <2>1, Removed
<1>5. /\ r2 \in Seq(Slot) /\ Len(r2) = Len(r1) - 1
      /\ \A p \in 1..((c + 1) - 1) : r2[p] = r1[p]
  <2>1. c + 1 \in 1..Len(r1)
    BY <1>1, <1>4
  <2> DEFINE m == c + 1
  <2>2. IsRemoval(r1, m, r2)
    BY <1>3
  <2>3. r1 \in Seq(Slot) /\ m \in 1..Len(r1) /\ Len(r1) \in Nat /\ m \in Nat
    <3>1. r1 \in Seq(Slot) /\ Len(r1) \in Nat /\ c + 1 \in Nat
      BY <1>1, <1>4
    <3> QED BY <2>1, <3>1
  <2> HIDE DEF m
  <2>4. r2 \in Seq(Slot) /\ Len(r2) = Len(r1) - 1 /\ \A p \in 1..(m - 1) : r2[p] = r1[p]
    BY <2>2, <2>3, Removed
  <2> QED BY <2>4 DEF m
<1>6. ASSUME NEW p \in 1..c PROVE r2[p] = caller[p]
  <2>1. p \in 1..((c + 2) - 1) /\ p \in 1..((c + 1) - 1)
    BY <1>1
  <2> QED BY <1>1, <1>4, <1>5, <2>1
<1>7. Len(r2) = Len(wL) - 2 /\ Len(wL) - 2 \in Nat /\ Len(wL) - 2 >= c
  BY <1>1, <1>4, <1>5
<1> QED BY <1>2, <1>5, <1>6, <1>7

\* writeBinaryTable has written the table and pops what it had pushed.
LEMMA FinishKeeps == StackInv /\ Writer!Finish => StackInv'
<1> SUFFICES ASSUME StackInv, Writer!Finish PROVE StackInv'
  OBVIOUS
<1>1. /\ wpc = "return" /\ wframes = <<>> /\ wpc' = "written" /\ wL' = Writer!destroy(wL)
      /\ whandle' = 0 /\ index2string_' = 0
      /\ UNCHANGED <<caller, wframes, index, wstrings, wsize>>
  BY DEF Writer!Finish
<1>2. Running
  BY <1>1 DEF Running, WriterRuns
<1>3. WriterTypes /\ Tops /\ index2string_ = Len(caller) + 2 /\ Len(caller) \in Nat
  BY <1>2, WhileRunning
<1>4. Len(wL) = Len(caller) + 2
  BY <1>1, <1>3 DEF Tops
<1>5. /\ wL' \in Seq(Slot) /\ Len(wL') = Len(caller) /\ \A p \in 1..Len(caller) : wL'[p] = caller[p]
  <2>1. (Len(caller) + 2) - 2 = Len(caller)
    BY <1>3
  <2> QED BY <1>1, <1>2, <1>4, <2>1, Destroyed
<1>6. wL' = caller
  BY <1>3, <1>5, SeqEqual DEF WriterTypes
<1>7. WriterTypes'
  BY <1>1, <1>3, <1>5 DEF WriterTypes
<1> QED BY <1>1, <1>6, <1>7 DEF StackInv, WriterRuns

\* An error unwinds writeBinaryTable to its caller.
LEMMA FailKeeps == StackInv /\ Writer!Fail => StackInv'
<1> SUFFICES ASSUME StackInv, Writer!Fail PROVE StackInv'
  OBVIOUS
<1> DEFINE r == Writer!destroy(wL)
<1>1. /\ wpc = "fail" /\ wpc' = "failed" /\ wL' = Writer!settop(r, Len(caller)) /\ wframes' = <<>>
      /\ whandle' = 0 /\ index2string_' = 0
      /\ UNCHANGED <<caller, index, wstrings, wsize>>
  BY DEF Writer!Fail, Writer!top
<1>2. Running
  BY <1>1 DEF Running, WriterRuns
<1>3. WriterTypes /\ Len(caller) \in Nat
  BY <1>2, WhileRunning
<1>4. /\ r \in Seq(Slot) /\ Len(r) \in Nat /\ Len(r) >= Len(caller)
      /\ \A p \in 1..Len(caller) : r[p] = caller[p]
  BY <1>2, Destroyed
<1> HIDE DEF r
<1>5. wL' = [p \in 1..Len(caller) |-> IF p <= Len(r) THEN r[p] ELSE Writer!Nil]
  BY <1>1 DEF Writer!settop
<1>6. wL' = [p \in 1..Len(caller) |-> caller[p]]
  <2>1. \A p \in 1..Len(caller) : (IF p <= Len(r) THEN r[p] ELSE Writer!Nil) = caller[p]
    BY <1>3, <1>4
  <2> QED BY <1>5, <2>1
<1>7. wL' = caller
  <2>1. caller \in Seq(Slot)
    BY <1>3 DEF WriterTypes
  <2>2. caller = [p \in 1..Len(caller) |-> caller[p]]
    BY <2>1, LenProperties
  <2> QED BY <1>6, <2>2
<1>8. WriterTypes'
  <2>1. wL' \in Seq(Slot) /\ wframes' \in Seq(Frame)
    BY <1>1, <1>3, <1>7 DEF WriterTypes
  <2> QED BY <1>1, <1>3, <2>1 DEF WriterTypes
<1> QED BY <1>1, <1>7, <1>8 DEF StackInv, WriterRuns

\* The writer starts with its caller's stack.
LEMMA StackInit == Init => StackInv
<1> SUFFICES ASSUME Init PROVE StackInv
  OBVIOUS
<1>1. CASE Writer!Init
  <2>1. /\ caller \in Callers /\ wL = caller /\ wframes = <<>> /\ index = 0 /\ whandle = 0
        /\ index2string_ = 0 /\ wstrings = <<>> /\ wsize = 0 /\ wpc = "enter"
    BY <1>1 DEF Writer!Init
  <2>2. caller \in Seq(Slot) /\ Len(caller) \in Nat \ {0}
    BY <2>1, SlotCaller
  <2>3. WriterTypes
    BY <2>1, <2>2 DEF WriterTypes
  <2> QED BY <2>1, <2>2, <2>3 DEF StackInv, WriterRuns
<1>2. CASE NoWriter
  <2>1. WriterTypes
    BY <1>2 DEF NoWriter, WriterTypes
  <2> QED BY <1>2, <2>1 DEF NoWriter, StackInv, WriterRuns
<1> QED BY <1>1, <1>2 DEF Init

\* No step of writer or reader disturbs the Lua stack of the writer.
LEMMA StackNext == StackInv /\ [Next]_vars => StackInv'
<1> SUFFICES ASSUME StackInv, [Next]_vars PROVE StackInv'
  OBVIOUS
<1>1. CASE Write
  <2>1. Writer!Write
    BY <1>1 DEF Write
  <2> QED BY <2>1, EnterKeeps, ScalarKeeps, StringKeeps, RefuseKeeps, EmptyKeeps, BeginArrayKeeps,
             BeginHashKeeps, EntryKeeps, EndKeeps, ReturnKeyKeeps, ReturnValueKeeps, FinishKeeps, FailKeeps
          DEF Writer!Write
<1>2. CASE UNCHANGED writerVars
  <2>1. UNCHANGED <<caller, wL, wframes, index, whandle, index2string_, wstrings, wsize, wpc>>
    BY <1>2 DEF writerVars
  <2>2. WriterTypes' <=> WriterTypes
    BY <2>1 DEF WriterTypes
  <2>3. CASE WriterRuns
    <3>1. WriterTypes /\ Layout /\ Tops /\ Counting
      BY <2>3 DEF StackInv
    <3>2. /\ Len(wL) \in Nat /\ Len(wL) + 1 >= Writer!Above(1) /\ Len(wframes) \in Nat
      <4>1. /\ Len(wL) \in Nat /\ Len(caller) \in Nat /\ index2string_ = Len(caller) + 2
            /\ Writer!Above(1) \in Int /\ (wframes = <<>> => Writer!Above(1) = Len(caller) + 3)
            /\ Len(wframes) \in Nat
        BY <2>3, WhileRunning DEF Running
      <4>2. CASE wpc \in {"value", "return"} /\ wframes = <<>>
        BY <3>1, <4>1, <4>2 DEF Tops
      <4>3. CASE wpc \in {"value", "return"} /\ wframes # <<>>
        BY <3>1, <4>1, <4>3 DEF Tops
      <4>4. CASE wpc \in {"loop", "fail"}
        BY <3>1, <4>1, <4>4 DEF Tops
      <4> QED BY <2>3, <4>1, <4>2, <4>3, <4>4 DEF WriterRuns
    <3>3. Layout' /\ \A k \in 1..(Len(wframes) + 1) : Writer!Above(k)' = Writer!Above(k)
      BY <2>1, <3>1, <3>2, LayoutKept DEF StackTables
    <3>4. Writer!Above(1)' = Writer!Above(1)
      BY <3>2, <3>3
    <3>5. Tops' /\ Counting'
      BY <2>1, <3>1, <3>4 DEF Tops, Counting
    <3> QED BY <2>1, <2>2, <2>3, <3>1, <3>3, <3>5 DEF StackInv, WriterRuns
  <2>4. CASE ~WriterRuns
    BY <2>1, <2>2, <2>4 DEF StackInv, WriterRuns
  <2> QED BY <2>3, <2>4
<1>3. Write \/ UNCHANGED writerVars
  BY DEF Next, Write, Store, Read, Ended, vars
<1> QED BY <1>1, <1>2, <1>3

-----------------------------------------------------------------------------
(* The theorems.                                                           *)

\* The frames of writeTable match the Lua stack in every reachable state.
LEMMA StackInvariant == Spec => []StackInv
BY StackInit, StackNext, PTL DEF Spec

\* writeBinaryTable leaves the stack of its caller as it was, for every table, every
\* caller and every depth, whether it succeeds, refuses a value or table.sort fails.
THEOREM CallerStackRestored == Spec => []StackRestored
<1>1. StackInv => StackRestored
  BY DEF StackInv, WriterRuns, StackRestored, Writer!StackRestored
<1> QED BY <1>1, StackInvariant, PTL

\* The StringTable learns a string that it does not know.
LEMMA InternedLearns ==
  ASSUME StackInv, Interned, wpc = "value", ~Writer!Known(Writer!v), wL[index] \in Slot,
         wsize' = wsize + 1,
         indexOf' = [s \in DOMAIN indexOf \cup {Writer!v} |-> IF s = Writer!v THEN wsize + 1 ELSE indexOf[s]],
         wstrings' = Append(wstrings, Writer!v)
  PROVE  Interned'
<1> DEFINE x == wL[index]
           n == Len(wstrings)
<1>1. /\ wsize' = n + 1 /\ x \notin DOMAIN indexOf /\ x \in Slot
      /\ indexOf' = [s \in DOMAIN indexOf \cup {x} |-> IF s = x THEN n + 1 ELSE indexOf[s]]
      /\ wstrings' = Append(wstrings, x)
  BY DEF Interned, Writer!Interned, Writer!v, Writer!Known
<1>2. /\ DOMAIN indexOf = {wstrings[k] : k \in DOMAIN wstrings}
      /\ \A s \in DOMAIN indexOf : indexOf[s] \in 1..n /\ wstrings[indexOf[s]] = s
      /\ \A j, k \in DOMAIN wstrings : wstrings[j] = wstrings[k] => j = k
  BY DEF Interned, Writer!Interned, Writer!Range, Writer!IsInjective
<1>3. wstrings \in Seq(Slot)
  BY DEF StackInv, WriterTypes
<1> HIDE DEF x
<1>4. /\ n \in Nat /\ DOMAIN wstrings = 1..n /\ wstrings' \in Seq(Slot) /\ DOMAIN wstrings' = 1..(n + 1)
      /\ Len(wstrings') = n + 1 /\ wstrings'[n + 1] = x /\ \A k \in 1..n : wstrings'[k] = wstrings[k]
  BY <1>1, <1>3, AppendProperties, LenProperties
<1>5. /\ DOMAIN indexOf' = DOMAIN indexOf \cup {x} /\ indexOf'[x] = n + 1
      /\ \A s \in DOMAIN indexOf : indexOf'[s] = indexOf[s]
  BY <1>1
<1>6. \A k \in 1..(n + 1) : k \in 1..n \/ k = n + 1
  BY <1>4
<1>7. DOMAIN indexOf' = {wstrings'[k] : k \in DOMAIN wstrings'}
  <2>1. \A k \in 1..n : k \in 1..(n + 1)
    BY <1>4
  <2>2. n + 1 \in 1..(n + 1)
    BY <1>4
  <2> QED BY <1>2, <1>4, <1>5, <1>6, <2>1, <2>2
<1>8. ASSUME NEW s \in DOMAIN indexOf' PROVE indexOf'[s] \in 1..(n + 1) /\ wstrings'[indexOf'[s]] = s
  <2>1. CASE s = x
    BY <1>4, <1>5, <2>1
  <2>2. CASE s # x
    <3>1. s \in DOMAIN indexOf /\ indexOf'[s] = indexOf[s]
      BY <1>5, <2>2
    <3>2. indexOf[s] \in 1..n /\ wstrings[indexOf[s]] = s
      BY <1>2, <3>1
    <3> QED BY <1>4, <3>1, <3>2
  <2> QED BY <2>1, <2>2
<1>9. ASSUME NEW j \in 1..(n + 1), NEW k \in 1..(n + 1), wstrings'[j] = wstrings'[k] PROVE j = k
  <2>1. \A m \in 1..n : wstrings'[m] # x
    BY <1>1, <1>2, <1>4
  <2> QED BY <1>2, <1>4, <1>6, <1>9, <2>1
<1> QED BY <1>1, <1>4, <1>7, <1>8, <1>9 DEF Interned, Writer!Interned, Writer!Range, Writer!IsInjective

\* The table of strings is empty at first.
LEMMA InternedInit == Init => Interned
<1> SUFFICES ASSUME Init PROVE Interned
  OBVIOUS
<1>1. wsize = 0 /\ indexOf = <<>> /\ wstrings = <<>>
  BY DEF Init, NoWriter, Writer!Init
<1> QED BY <1>1 DEF Interned, Writer!Interned, Writer!Range, Writer!IsInjective

\* Every string that is written first gets the next free number.
LEMMA InternedNext == StackInv /\ Interned /\ [Next]_vars => Interned'
<1> SUFFICES ASSUME StackInv, Interned, [Next]_vars PROVE Interned'
  OBVIOUS
<1>1. CASE UNCHANGED <<wsize, indexOf, wstrings>>
  BY <1>1 DEF Interned, Writer!Interned, Writer!Range, Writer!IsInjective
<1>2. CASE Writer!WriteString /\ ~Writer!Known(Writer!v)
  <2>1. /\ wpc = "value" /\ wsize' = wsize + 1
        /\ indexOf' = [s \in DOMAIN indexOf \cup {Writer!v} |-> IF s = Writer!v THEN wsize + 1 ELSE indexOf[s]]
        /\ wstrings' = Append(wstrings, Writer!v)
    BY <1>2 DEF Writer!WriteString
  <2>2. wL[index] \in Slot
    BY <2>1, Argument DEF Running, WriterRuns
  <2> QED BY <1>2, <2>1, <2>2, InternedLearns
<1>3. UNCHANGED <<wsize, indexOf, wstrings>> \/ (Writer!WriteString /\ ~Writer!Known(Writer!v))
  <2>1. CASE Write
    BY <2>1 DEF Write, Writer!Write, Writer!Enter, Writer!WriteScalar, Writer!WriteString, Writer!Refuse,
                Writer!WriteEmpty, Writer!BeginArray, Writer!BeginHash, Writer!LoopEntry, Writer!LoopEnd,
                Writer!ReturnKey, Writer!ReturnValue, Writer!Finish, Writer!Fail, Writer!strTable
  <2>2. CASE UNCHANGED writerVars
    BY <2>2 DEF writerVars
  <2> QED BY <2>1, <2>2 DEF Next, Write, Store, Read, Ended, vars
<1> QED BY <1>1, <1>2, <1>3

\* The StringTable of the writer numbers strings one to one, whatever is written: two
\* strings never share a number, and none gets a second one.
THEOREM StringsNumbered == Spec => []Interned
BY InternedInit, InternedNext, StackInvariant, PTL DEF Spec

\* Every activation of writeTable finds its table at the index it remembers, and its keys
\* at the relative index -1, however deep the table nests.
THEOREM WriterFrames == Spec => [](Writer!TypeOK /\ Writer!FramesOnStack)
<1>1. StackInv => Writer!TypeOK /\ Writer!FramesOnStack
  <2> SUFFICES ASSUME StackInv PROVE Writer!TypeOK /\ Writer!FramesOnStack
    OBVIOUS
  <2>1. CASE Running
    <3>1. /\ WriterTypes /\ Layout /\ Tops /\ Counting /\ Len(wL) \in Nat /\ Len(caller) \in Nat
          /\ index2string_ = Len(caller) + 2 /\ whandle = Len(caller) + 1
          /\ Writer!Above(1) \in Int /\ Len(wframes) \in Nat
          /\ (wframes = <<>> => Writer!Above(1) = Len(caller) + 3)
      BY <2>1, WhileRunning
    <3>2. Len(wL) >= Writer!Above(1) - 1
      <4>1. CASE wpc \in {"value", "return"} /\ wframes = <<>>
        BY <3>1, <4>1 DEF Tops
      <4>2. CASE wpc \in {"value", "return"} /\ wframes # <<>>
        BY <3>1, <4>2 DEF Tops
      <4>3. CASE wpc \in {"loop", "fail"}
        BY <3>1, <4>3 DEF Tops
      <4> QED BY <2>1, <3>1, <4>1, <4>2, <4>3 DEF Running, WriterRuns
    <3>3. \A k \in 1..Len(wframes) : wframes[k].i \in 1..(wframes[k].n + 1) /\ wframes[k].index \in 1..Len(wL)
      <4>1. \A k \in 1..Len(wframes) : wframes[k].index \in 1..(Writer!Above(1) - 1)
        BY <3>1, Places
      <4>2. \A j \in 1..(Writer!Above(1) - 1) : j \in 1..Len(wL)
        BY <3>1, <3>2
      <4> QED BY <3>1, <4>1, <4>2 DEF Counting
    <3>4. DOMAIN wL = 1..Len(wL) /\ DOMAIN wframes = 1..Len(wframes)
      BY <3>1, LenProperties DEF WriterTypes
    <3>5. wpc = "value" => index \in 1..Len(wL)
      BY <2>1, Argument
    <3>6. Writer!TypeOK
      BY <3>1, <3>3, <3>4, <3>5 DEF WriterTypes, Writer!TypeOK
    <3>7. SubSeq(wL, 1, Len(caller)) = caller
      <4>1. Len(caller) <= Len(wL) /\ \A k \in 1..Len(caller) : wL[k] = caller[k]
        BY <3>1 DEF Layout, Bottom
      <4> QED BY <3>1, <4>1, SamePrefix DEF WriterTypes
    <3>8. ASSUME NEW k \in 1..Len(wframes)
          PROVE  /\ Writer!lua_type(wL[wframes[k].index]) = "table"
                 /\ wframes[k].n = Writer!countTableLength(Heap[wL[wframes[k].index][2]])
                 /\ wframes[k].index = IF k = Len(wframes) THEN Len(caller) ELSE Writer!Above(k + 1)
                 /\ wframes[k].kind = "hash" => Writer!lua_type(wL[Writer!Above(k) - 1]) = "keys"
      BY <3>1 DEF Layout, Placed, Writer!KeyArray, Writer!lua_type
    <3>9. /\ wL[whandle] = Writer!String2Index /\ wL[index2string_] = Writer!Index2String
          /\ (wpc = "loop" => Len(wL) + 1 = Writer!Above(1))
          /\ (wpc \in {"value", "return"} => Len(wL) = IF wframes = <<>> THEN index2string_ ELSE Writer!Above(1))
      BY <3>1 DEF Layout, Bottom, Tops
    <3>10. Writer!FramesOnStack
      BY <3>1, <3>4, <3>7, <3>8, <3>9 DEF Writer!FramesOnStack, Writer!top
    <3> QED BY <3>6, <3>10
  <2>2. CASE ~Running
    BY <2>2 DEF StackInv, Running, WriterRuns, WriterTypes, Writer!TypeOK, Writer!FramesOnStack, Writer!Running
  <2> QED BY <2>1, <2>2
<1> QED BY <1>1, StackInvariant, PTL

-----------------------------------------------------------------------------
(* THE READER.                                                             *)

-----------------------------------------------------------------------------
(* The format is one and the same for writer, file and reader.             *)

\* Writer, reader and format have the same powers of two, ...
LEMMA SamePow == Writer!Pow = Pow /\ Reader!Pow = Pow /\ Reader!Reader!Pow = Pow
BY DEF Writer!Pow, Reader!Pow, Reader!Reader!Pow, Pow

\* ... ranges of integers, ...
LEMMA SameCard == \A bits : Writer!Card(bits) = Card(bits) /\ Reader!Card(bits) = Card(bits)
BY SamePow DEF Writer!Card, Reader!Card, Card

\* ... numbers, ...
LEMMA SameNumber == \A bits, x : Writer!writeNumber(bits, x) = writeNumber(bits, x)
BY SamePow DEF Writer!writeNumber, writeNumber

\* ... lengths, ...
LEMMA SameLength == \A tag, n : Writer!writeLength(tag, n) = writeLength(tag, n)
BY SameNumber, SameCard DEF Writer!writeLength, writeLength

\* ... tags, ...
LEMMA SameTags == Writer!T = T /\ Reader!T = T
BY DEF Writer!T, Reader!T, T

\* ... integers, ...
LEMMA SameInteger == \A x : Writer!writeInteger(x) = writeInteger(x)
<1> SUFFICES ASSUME NEW x PROVE Writer!writeInteger(x) = writeInteger(x)
  OBVIOUS
<1>1. Writer!IntBits(x) = IntBits(x)
  BY SameCard DEF Writer!IntBits, IntBits, Writer!MinInt, MinInt, Writer!MaxInt, MaxInt
<1>2. Writer!IntTag = IntTag
  BY SameTags DEF Writer!IntTag, IntTag
<1> QED BY <1>1, <1>2, SameNumber, SameTags DEF Writer!writeInteger, writeInteger

\* ... lua_Numbers ...
LEMMA SameLuaNumber == \A x : Writer!writeLuaNumber(x) = writeLuaNumber(x)
<1> SUFFICES ASSUME NEW x PROVE Writer!writeLuaNumber(x) = writeLuaNumber(x)
  OBVIOUS
<1>1. Writer!CastToInt64(x \div 2) = CastToInt64(x \div 2)
  BY SameCard DEF Writer!CastToInt64, CastToInt64, Writer!MinInt, MinInt, Writer!MaxInt, MaxInt
<1>2. Writer!writeFloat(x) = writeFloat(x)
  BY SameNumber, SameTags DEF Writer!writeFloat, writeFloat
<1> QED BY <1>1, <1>2, SameInteger DEF Writer!writeLuaNumber, writeLuaNumber

\* ... and unsigned values.
LEMMA SameUnsigned == \A s : Reader!Reader!Unsigned(s) = Unsigned(s)
BY SamePow DEF Reader!Reader!Unsigned, Unsigned

-----------------------------------------------------------------------------
(* What is written are bytes.                                              *)

\* The encodings of a value that needs no further call.
LEMMA ScalarBytes ==
  ASSUME IsValue(Writer!v), NEW s \in Writer!Scalar
  PROVE  s \in Seq(Byte)
<1>1. Writer!Scalar \subseteq {<<T.NIL>>, <<T.TRUE_>>, <<T.FALSE_>>, <<T.STRING0>>}
        \cup (IF lua_type(Writer!v) = "num" THEN writeLuaNumber(Writer!v[2]) ELSE {})
  BY SameTags, SameLuaNumber DEF Writer!Scalar, Writer!lua_type, lua_type
<1>2. \A k \in 0..23 : <<k>> \in Seq(Byte)
  BY WireAssumption DEF Byte
<1>3. <<T.NIL>> \in Seq(Byte) /\ <<T.TRUE_>> \in Seq(Byte) /\ <<T.FALSE_>> \in Seq(Byte) /\ <<T.STRING0>> \in Seq(Byte)
  BY <1>2 DEF T
<1>4. ASSUME lua_type(Writer!v) = "num", s \in writeLuaNumber(Writer!v[2]) PROVE s \in Seq(Byte)
  BY <1>4, NumberBytes DEF IsValue
<1> QED BY <1>1, <1>3, <1>4

\* fl[k] are the first k of the sequences, one behind the other.
IsFlat(fl, seqs, S) ==
  /\ fl \in [0..Len(seqs) -> Seq(S)] /\ fl[0] = <<>>
  /\ \A k \in 1..Len(seqs) : fl[k] = fl[k - 1] \o seqs[k]

\* That is what the recursion over the strings of the pool computes.
Concatenates(c, seqs) == c = [k \in 0..Len(seqs) |-> IF k = 0 THEN <<>> ELSE c[k - 1] \o seqs[k]]

LEMMA Flattened ==
  ASSUME NEW S, NEW seqs \in Seq(Seq(S))
  PROVE  /\ \E c : Concatenates(c, seqs)
         /\ \A c : Concatenates(c, seqs) => IsFlat(c, seqs, S)
<1> DEFINE n == Len(seqs)
           part(k) == IF k + 1 \in 1..n THEN seqs[k + 1] ELSE <<>>
           step == [p \in Nat \X Seq(S) |-> p[2] \o part(p[1])]
<1>1. n \in Nat /\ \A k \in 1..n : seqs[k] \in Seq(S)
  OBVIOUS
<1>2. \A k \in Nat : part(k) \in Seq(S)
  BY <1>1
<1> HIDE DEF part
<1>3. step \in [Nat \X Seq(S) -> Seq(S)]
  <2>1. ASSUME NEW k \in Nat, NEW x \in Seq(S) PROVE x \o part(k) \in Seq(S)
    BY <1>2, ConcatProperties
  <2> QED BY <2>1
<1>4. PICK g : IsIteration(g, Seq(S), <<>>, step)
  <2>1. <<>> \in Seq(S)
    OBVIOUS
  <2> HIDE DEF step
  <2> QED BY <1>3, <2>1, Recursion
<1>5. g \in [Nat -> Seq(S)] /\ g[0] = <<>> /\ \A k \in Nat : g[k + 1] = g[k] \o part(k)
  BY <1>4 DEF IsIteration
<1> DEFINE c == [k \in 0..n |-> g[k]]
<1>6. Concatenates(c, seqs)
  <2>1. ASSUME NEW k \in 1..n PROVE c[k] = c[k - 1] \o seqs[k]
    <3>1. k - 1 \in Nat /\ (k - 1) + 1 = k /\ k - 1 \in 0..n /\ k \in 0..n
      BY <1>1
    <3>2. part(k - 1) = seqs[k]
      BY <3>1 DEF part
    <3> QED BY <1>5, <3>1, <3>2
  <2>2. c[0] = <<>> /\ c = [k \in 0..n |-> c[k]]
    BY <1>1, <1>5
  <2> HIDE DEF c
  <2>3. ASSUME NEW k \in 0..n PROVE c[k] = IF k = 0 THEN <<>> ELSE c[k - 1] \o seqs[k]
    <3>1. CASE k = 0
      BY <2>2, <3>1
    <3>2. CASE k # 0
      <4>1. k \in 1..n
        BY <1>1, <3>2
      <4> QED BY <2>1, <3>2, <4>1
    <3> QED BY <3>1, <3>2
  <2> HIDE DEF n
  <2> QED BY <2>2, <2>3 DEF Concatenates, n
<1>7. ASSUME NEW d, Concatenates(d, seqs) PROVE IsFlat(d, seqs, S)
  <2>1. DOMAIN d = 0..n /\ d[0] = <<>> /\ \A k \in 1..n : d[k] = d[k - 1] \o seqs[k]
    <3>1. DOMAIN d = 0..n /\ \A k \in 0..n : d[k] = IF k = 0 THEN <<>> ELSE d[k - 1] \o seqs[k]
      BY <1>7 DEF Concatenates
    <3>2. 0 \in 0..n /\ \A k \in 1..n : k \in 0..n /\ k # 0
      BY <1>1
    <3> HIDE DEF n
    <3> QED BY <3>1, <3>2
  <2> DEFINE G == {k \in Nat : k \in 0..n => d[k] \in Seq(S)}
  <2>2. 0 \in G
    <3>1. <<>> \in Seq(S)
      OBVIOUS
    <3> QED BY <2>1, <3>1
  <2>3. ASSUME NEW k \in Nat, k \in G PROVE k + 1 \in G
    <3> SUFFICES ASSUME k + 1 \in 0..n PROVE d[k + 1] \in Seq(S)
      OBVIOUS
    <3>1. k \in 0..n /\ k + 1 \in 1..n /\ (k + 1) - 1 = k
      BY <1>1
    <3>2. d[k] \in Seq(S) /\ seqs[k + 1] \in Seq(S) /\ d[k + 1] = d[k] \o seqs[k + 1]
      BY <1>1, <2>1, <2>3, <3>1
    <3> QED BY <3>2, ConcatProperties
  <2>4. Nat \subseteq G
    <3> HIDE DEF G
    <3> QED BY <2>2, <2>3, Induction
  <2>5. \A k \in 0..n : d[k] \in Seq(S)
    BY <1>1, <2>4
  <2>6. d = [k \in 0..n |-> d[k]]
    BY <1>7 DEF Concatenates
  <2>7. d \in [0..n -> Seq(S)]
    BY <2>5, <2>6
  <2> QED BY <2>1, <2>7 DEF IsFlat
<1> QED BY <1>6, <1>7

-----------------------------------------------------------------------------
(* The stream consists of bytes.                                           *)

WrittenBytes ==
  /\ out \in Seq(Byte) /\ stream \in Seq(Byte)
  /\ \A k \in 1..Len(wstrings) : wstrings[k][2] \in Seq(Byte)

BytesInv == WrittenBytes /\ data \in Seq(Byte)

\* The tag and the length of a string, an array or a table.
LEMMA SizeBytes ==
  ASSUME NEW tag \in {T.STRING0, T.ARRAY0, T.TABLE0}, NEW n \in Nat
  PROVE  Writer!writeLength(tag, n) \in Seq(Byte)
<1>1. tag \in 0..20
  BY DEF T
<1> QED BY <1>1, LengthBytes, SameLength

\* More bytes behind the others.
LEMMA AppendsBytes ==
  ASSUME WrittenBytes, NEW bytes \in Seq(Byte), out' = out \o bytes, UNCHANGED <<stream, wstrings>>
  PROVE  WrittenBytes'
<1>1. out \o bytes \in Seq(Byte)
  BY ConcatProperties DEF WrittenBytes
<1> QED BY <1>1 DEF WrittenBytes

\* A number, or a constant.
LEMMA ScalarAppendsBytes == StackInv /\ WrittenBytes /\ Writer!WriteScalar => WrittenBytes'
<1> SUFFICES ASSUME StackInv, WrittenBytes, Writer!WriteScalar PROVE WrittenBytes'
  OBVIOUS
<1>1. /\ wpc = "value" /\ UNCHANGED <<stream, wstrings>>
      /\ \E bytes \in Writer!Scalar : out' = out \o bytes
  BY DEF Writer!WriteScalar, Writer!strTable
<1>2. IsValue(Writer!v)
  BY <1>1, Argument, SlotValue DEF Running, WriterRuns, Writer!v
<1>3. PICK bytes \in Writer!Scalar : out' = out \o bytes
  BY <1>1
<1>4. bytes \in Seq(Byte)
  BY <1>2, ScalarBytes
<1> QED BY <1>1, <1>3, <1>4, AppendsBytes

\* The number of a string, which the StringTable may learn.
LEMMA StringAppendsBytes == StackInv /\ Interned /\ WrittenBytes /\ Writer!WriteString => WrittenBytes'
<1> SUFFICES ASSUME StackInv, Interned, WrittenBytes, Writer!WriteString PROVE WrittenBytes'
  OBVIOUS
<1> DEFINE x == Writer!v
<1>1. wpc = "value" /\ Writer!lua_type(x) = "str" /\ UNCHANGED stream
  BY DEF Writer!WriteString
<1>2. x \in Slot /\ IsValue(x)
  BY <1>1, Argument, SlotValue DEF Running, WriterRuns, Writer!v
<1>3. x[2] \in Seq(Byte)
  BY <1>1, <1>2 DEF IsValue, Writer!lua_type, lua_type, Byte
<1>4. wsize \in Nat /\ wstrings \in Seq(Slot) /\ T.STRING0 \in {T.STRING0, T.ARRAY0, T.TABLE0}
  BY DEF StackInv, WriterTypes
<1>5. out \in Seq(Byte) /\ stream \in Seq(Byte) /\ \A k \in 1..Len(wstrings) : wstrings[k][2] \in Seq(Byte)
  BY DEF WrittenBytes
<1> HIDE DEF x
<1>6. CASE Writer!Known(x)
  <2>1. out' = out \o Writer!writeLength(T.STRING0, indexOf[x]) /\ UNCHANGED wstrings
    BY <1>6, SameTags DEF Writer!WriteString, Writer!strTable, x
  <2>2. indexOf[x] \in Nat
    BY <1>4, <1>6 DEF Interned, Writer!Interned, Writer!Known
  <2>3. Writer!writeLength(T.STRING0, indexOf[x]) \in Seq(Byte)
    BY <1>4, <2>2, SizeBytes
  <2> QED BY <1>1, <2>1, <2>3, AppendsBytes
<1>7. CASE ~Writer!Known(x)
  <2>1. out' = out \o Writer!writeLength(T.STRING0, wsize + 1) /\ wstrings' = Append(wstrings, x)
    BY <1>7, SameTags DEF Writer!WriteString, x
  <2>2. Writer!writeLength(T.STRING0, wsize + 1) \in Seq(Byte)
    BY <1>4, SizeBytes
  <2>3. out' \in Seq(Byte)
    BY <1>5, <2>1, <2>2, ConcatProperties
  <2>4. \A k \in 1..Len(wstrings') : wstrings'[k][2] \in Seq(Byte)
    <3>1. /\ Len(wstrings) \in Nat /\ Len(wstrings') = Len(wstrings) + 1 /\ wstrings'[Len(wstrings) + 1] = x
          /\ \A k \in 1..Len(wstrings) : wstrings'[k] = wstrings[k]
      BY <1>2, <1>4, <2>1, AppendProperties
    <3>2. \A k \in 1..Len(wstrings') : k \in 1..Len(wstrings) \/ k = Len(wstrings) + 1
      BY <3>1
    <3> QED BY <1>3, <1>5, <3>1, <3>2
  <2> QED BY <1>1, <1>5, <2>3, <2>4 DEF WrittenBytes
<1> QED BY <1>6, <1>7

\* An array or a table is announced with its length.
LEMMA TableAppendsBytes ==
  StackInv /\ WrittenBytes /\ (Writer!WriteEmpty \/ Writer!BeginArray \/ Writer!BeginHash) => WrittenBytes'
<1> SUFFICES ASSUME StackInv, WrittenBytes, Writer!WriteEmpty \/ Writer!BeginArray \/ Writer!BeginHash
             PROVE  WrittenBytes'
  OBVIOUS
<1>1. Writer!IsTable /\ UNCHANGED <<stream, wstrings>>
  BY DEF Writer!WriteEmpty, Writer!BeginArray, Writer!BeginHash, Writer!strTable
<1>2. Writer!length \in Nat
  BY <1>1, Table DEF Writer!IsTable, Running, WriterRuns
<1>3. out \in Seq(Byte)
  BY DEF WrittenBytes
<1>4. CASE Writer!WriteEmpty
  <2>1. out' = Append(out, T.TABLE0)
    BY <1>4, SameTags DEF Writer!WriteEmpty
  <2>2. T.TABLE0 \in Byte
    BY WireAssumption DEF T, Byte
  <2>3. out' \in Seq(Byte)
    BY <1>3, <2>1, <2>2, AppendProperties
  <2> QED BY <1>1, <2>3 DEF WrittenBytes
<1>5. CASE Writer!BeginArray
  <2>1. out' = out \o Writer!writeLength(T.ARRAY0, Writer!length)
    BY <1>5, SameTags DEF Writer!BeginArray
  <2>2. Writer!writeLength(T.ARRAY0, Writer!length) \in Seq(Byte)
    BY <1>2, SizeBytes
  <2> QED BY <1>1, <2>1, <2>2, AppendsBytes
<1>6. CASE Writer!BeginHash
  <2>1. out' = out \o Writer!writeLength(T.TABLE0, Writer!length)
    BY <1>6, SameTags DEF Writer!BeginHash
  <2>2. Writer!writeLength(T.TABLE0, Writer!length) \in Seq(Byte)
    BY <1>2, SizeBytes
  <2> QED BY <1>1, <2>1, <2>2, AppendsBytes
<1> QED BY <1>4, <1>5, <1>6

\* The strings of the pool, each behind its length.
PoolOf(names) == [k \in 1..Len(names) |-> writeNumber(TStringLength, Len(names[k][2])) \o names[k][2]]

FileHead == writeNumber(16, MAGIC_NUMBER) \o writeNumber(16, LUABT_VERSION)

\* A file of the given strings and the given bytes of values; fl adds up the pool.
IsStream(s, names, fl, bytes) ==
  /\ IsFlat(fl, PoolOf(names), Byte)
  /\ s = FileHead \o (writeNumber(TStringPoolLength, Len(names)) \o fl[Len(names)]) \o bytes

\* The header, the pool of strings, and the values behind it.
LEMMA Streamed ==
  ASSUME StackInv, Interned, WrittenBytes, Writer!Finish
  PROVE  \E fl : IsStream(stream', wstrings, fl, out)
<1>1. /\ \A k \in 1..Len(wstrings) : wstrings[k][2] \in Seq(Byte)
      /\ wsize = Len(wstrings) /\ wsize \in Nat
  BY DEF WrittenBytes, Interned, Writer!Interned, StackInv, WriterTypes
<1>2. PoolOf(wstrings) \in Seq(Seq(Byte)) /\ Len(PoolOf(wstrings)) = Len(wstrings)
  <2>1. ASSUME NEW k \in 1..wsize PROVE writeNumber(16, Len(wstrings[k][2])) \o wstrings[k][2] \in Seq(Byte)
    <3> DEFINE s == wstrings[k][2]
    <3>1. s \in Seq(Byte)
      BY <1>1
    <3> HIDE DEF s
    <3>2. writeNumber(16, Len(s)) \in Seq(Byte)
      BY <3>1, WrittenNumber DEF Widths
    <3> QED BY <3>1, <3>2, ConcatProperties DEF s
  <2> QED BY <1>1, <2>1 DEF PoolOf, TStringLength
<1> DEFINE Eq(c) == c = [k \in 0..wsize |-> IF k = 0 THEN <<>> ELSE c[k - 1] \o Writer!PooledString(wstrings[k][2])]
           pool == CHOOSE c : Eq(c)
<1>3. \A c : Eq(c) <=> Concatenates(c, PoolOf(wstrings))
  <2>1. \A k \in 1..wsize : Writer!PooledString(wstrings[k][2]) = PoolOf(wstrings)[k]
    BY <1>1, SameNumber DEF Writer!PooledString, Writer!TStringLength, TStringLength, PoolOf
  <2>2. Len(PoolOf(wstrings)) = wsize
    BY <1>1, <1>2
  <2> HIDE DEF PoolOf
  <2>3. ASSUME NEW c
        PROVE  [k \in 0..wsize |-> IF k = 0 THEN <<>> ELSE c[k - 1] \o Writer!PooledString(wstrings[k][2])]
                 = [k \in 0..wsize |-> IF k = 0 THEN <<>> ELSE c[k - 1] \o PoolOf(wstrings)[k]]
    BY <1>1, <2>1
  <2> QED BY <2>2, <2>3 DEF Concatenates
<1>4. Writer!Pooled = writeNumber(TStringPoolLength, wsize) \o pool[wsize]
  BY SameNumber DEF Writer!Pooled, Writer!TStringPoolLength, TStringPoolLength
<1>5. IsFlat(pool, PoolOf(wstrings), Byte)
  <2>1. Eq(pool)
    <3>1. \E c : Concatenates(c, PoolOf(wstrings))
      BY <1>2, Flattened
    <3>2. \E c : Eq(c)
      <4> HIDE DEF Eq
      <4> QED BY <1>3, <3>1
    <3> QED BY <3>2
  <2> HIDE DEF Eq, pool
  <2> QED BY <1>2, <1>3, <2>1, Flattened
<1> HIDE DEF Eq, pool
<1>6. stream' = FileHead \o (writeNumber(TStringPoolLength, wsize) \o pool[Len(PoolOf(wstrings))]) \o out
  <2>1. Len(PoolOf(wstrings)) = wsize
    BY <1>1, <1>2
  <2> QED BY <1>4, <2>1, SameNumber DEF Writer!Finish, Writer!MAGIC_NUMBER, MAGIC_NUMBER, Writer!LUABT_VERSION, LUABT_VERSION, FileHead
<1> QED BY <1>1, <1>2, <1>5, <1>6 DEF IsStream

\* All of it are bytes.
LEMMA StreamBytes ==
  ASSUME NEW s, NEW names, NEW fl, NEW bytes \in Seq(Byte), IsStream(s, names, fl, bytes), Len(names) \in Nat
  PROVE  /\ FileHead \in Seq(Byte) /\ fl[Len(names)] \in Seq(Byte) /\ s \in Seq(Byte)
         /\ writeNumber(TStringPoolLength, Len(names)) \in Seq(Byte)
<1> DEFINE n == Len(names)
<1>1. /\ writeNumber(16, MAGIC_NUMBER) \in Seq(Byte) /\ writeNumber(16, LUABT_VERSION) \in Seq(Byte)
      /\ writeNumber(TStringPoolLength, n) \in Seq(Byte)
  BY WireAssumption, WrittenNumber DEF Widths, MAGIC_NUMBER, LUABT_VERSION, TStringPoolLength
<1>2. FileHead \in Seq(Byte)
  BY <1>1, ConcatProperties DEF FileHead
<1>3. fl[n] \in Seq(Byte)
  <2>1. Len(PoolOf(names)) = n
    BY DEF PoolOf
  <2>2. fl \in [0..n -> Seq(Byte)]
    BY <2>1 DEF IsStream, IsFlat
  <2> QED BY <2>2
<1> HIDE DEF n
<1>4. writeNumber(TStringPoolLength, n) \o fl[n] \in Seq(Byte)
  BY <1>1, <1>3, ConcatProperties
<1>5. FileHead \o (writeNumber(TStringPoolLength, n) \o fl[n]) \in Seq(Byte)
  BY <1>2, <1>4, ConcatProperties
<1>6. s \in Seq(Byte)
  BY <1>5, ConcatProperties DEF IsStream, n
<1> QED BY <1>1, <1>2, <1>3, <1>6 DEF n

\* Hence the stream, too.
LEMMA FinishWritesBytes == StackInv /\ Interned /\ WrittenBytes /\ Writer!Finish => WrittenBytes'
<1> SUFFICES ASSUME StackInv, Interned, WrittenBytes, Writer!Finish PROVE WrittenBytes'
  OBVIOUS
<1>1. out' = <<>> /\ UNCHANGED wstrings
  BY DEF Writer!Finish
<1>2. out \in Seq(Byte) /\ Len(wstrings) \in Nat
  BY DEF WrittenBytes, StackInv, WriterTypes
<1>3. PICK fl : IsStream(stream', wstrings, fl, out)
  BY Streamed
<1>4. stream' \in Seq(Byte)
  BY <1>2, <1>3, StreamBytes
<1> QED BY <1>1, <1>4 DEF WrittenBytes

\* No file is there at first.
LEMMA BytesInit == Init => BytesInv
<1> SUFFICES ASSUME Init PROVE BytesInv
  OBVIOUS
<1>1. out = <<>> /\ stream = <<>> /\ wstrings = <<>>
  BY DEF Init, NoWriter, Writer!Init
<1>2. data = <<>> \/ data \in Files
  BY DEF Init, Reader!Init
<1>3. data \in Seq(Byte)
  <2>1. \A file \in Files : file \in Seq(Byte)
    BY ReaderAssumption DEF Byte
  <2>2. <<>> \in Seq(Byte)
    OBVIOUS
  <2> QED BY <1>2, <2>1, <2>2
<1> QED BY <1>1, <1>3 DEF BytesInv, WrittenBytes

\* What the writer appends, and what is cut off it, is a sequence of bytes.
LEMMA BytesNext == StackInv /\ Interned /\ BytesInv /\ [Next]_vars => BytesInv'
<1> SUFFICES ASSUME StackInv, Interned, BytesInv, [Next]_vars PROVE BytesInv'
  OBVIOUS
<1>1. CASE Write
  <2>1. Writer!Write /\ UNCHANGED data
    BY <1>1 DEF Write, readerVars
  <2>2. WrittenBytes'
    <3>1. CASE UNCHANGED <<out, stream, wstrings>>
      BY <3>1 DEF BytesInv, WrittenBytes
    <3>2. CASE Writer!Fail
      BY <3>2 DEF Writer!Fail, BytesInv, WrittenBytes
    <3>3. \/ UNCHANGED <<out, stream, wstrings>> \/ Writer!Fail
          \/ Writer!WriteScalar \/ Writer!WriteString
          \/ Writer!WriteEmpty \/ Writer!BeginArray \/ Writer!BeginHash \/ Writer!Finish
      BY <2>1 DEF Writer!Write, Writer!Enter, Writer!Refuse, Writer!LoopEntry, Writer!LoopEnd,
                  Writer!ReturnKey, Writer!ReturnValue, Writer!strTable
    <3> QED BY <3>1, <3>2, <3>3, ScalarAppendsBytes, StringAppendsBytes, TableAppendsBytes,
               FinishWritesBytes DEF BytesInv
  <2> QED BY <2>1, <2>2 DEF BytesInv
<1>2. CASE Store
  <2>1. /\ UNCHANGED <<out, stream, wstrings>>
        /\ \E cut \in 0..Len(stream) : data' = SubSeq(stream, 1, Len(stream) - cut)
    <3>1. stream \in Seq(Byte) /\ Len(stream) \in Nat
      BY DEF BytesInv, WrittenBytes
    <3> QED BY <1>2, <3>1 DEF Store, writerVars
  <2>2. PICK cut \in 0..Len(stream) : data' = SubSeq(stream, 1, Len(stream) - cut)
    BY <2>1
  <2>3. stream \in Seq(Byte) /\ Len(stream) - cut \in Nat /\ Len(stream) - cut <= Len(stream)
    BY DEF BytesInv, WrittenBytes
  <2>4. data' \in Seq(Byte)
    BY <2>2, <2>3, Popped
  <2> QED BY <2>1, <2>4 DEF BytesInv, WrittenBytes
<1>3. CASE Read
  <2>1. UNCHANGED <<out, stream, wstrings>>
    BY <1>3 DEF Read, writerVars
  <2>2. UNCHANGED data
    BY <1>3 DEF Read, Reader!Parse, Reader!ReadMagic, Reader!ReadVersion, Reader!ReadPoolSize,
       Reader!ReadLength, Reader!ReadString, Reader!ReadTag, Reader!ReadNumber, Reader!ReadStringIndex,
       Reader!ReadSize, Reader!LoopEntry, Reader!LoopEnd, Reader!ReturnElement, Reader!ReturnKey,
       Reader!ReturnEntry, Reader!Finish, Reader!cursor, Reader!Reader!readNumber, Reader!Reader!readBytes,
       Reader!Reader!Deliver, Reader!Reader!FallShort
  <2> QED BY <2>1, <2>2 DEF BytesInv, WrittenBytes
<1>4. CASE UNCHANGED vars
  BY <1>4 DEF vars, writerVars, readerVars, BytesInv, WrittenBytes
<1> QED BY <1>1, <1>2, <1>3, <1>4 DEF Next, Ended

\* What writeBinaryTable returns, and what arrives of it, are sequences of bytes, for every
\* table and every caller: a number is cut to the width of its tag, a length to that of its type.
THEOREM BytesOnly == Spec => []BytesInv
BY BytesInit, BytesNext, StackInvariant, StringsNumbered, PTL DEF Spec

-----------------------------------------------------------------------------
(* The inductive invariant of the reader.                                  *)

\* What parsers push.
RValue ==
  {Reader!Nil, Reader!True, Reader!False} \cup {Reader!Num(n) : n \in Int}
  \cup {Reader!Str(s) : s \in Seq(Byte)} \cup {Reader!Tbl(t) : t \in Nat}

RSlot == Range(Caller) \cup RValue \cup {Reader!Pool, Reader!Message}

Contained == UNION {[S -> RValue] : S \in SUBSET RValue}

\* The tables that a table with contents c refers to, as keys and as values.
Within(c) == {x[2] : x \in {y \in DOMAIN c \cup Range(c) : Reader!lua_type(y) = "table"}}

RFrame == [t : Nat, at : Nat, kind : {"array", "hash"}, i : Nat, n : Nat, key : BOOLEAN]

ReaderRuns == rpc \in {"length", "bytes", "value", "payload", "loop", "return"}

ReaderWaits == rpc \in {"idle", "magic", "version", "pool"}

Cursor == p_ \in Nat /\ short \in BOOLEAN

ReaderTypes ==
  /\ rL \in Seq(RSlot) /\ heap \in Seq(Contained) /\ rframes \in Seq(RFrame) /\ rstrings \in Seq(Seq(Byte))
  /\ Cursor /\ rhandle \in Nat /\ rsize \in Nat /\ payload \in Nat /\ ret \in 0..2
  /\ ReaderRuns \/ ReaderWaits \/ rpc \in {"done", "raised"}

\* The caller's stack, the string pool, and nothing but values above it.
RBottom ==
  /\ rhandle = Len(Caller) + 1 /\ Len(rL) >= rhandle /\ rL[rhandle] = Reader!Pool
  /\ \A p \in 1..Len(Caller) : rL[p] = Caller[p]
  /\ \A p \in (rhandle + 1)..Len(rL) : rL[p] \in RValue

\* Activation k finds its table where it expects it.
RPlaced(k) ==
  /\ rL[rframes[k].at] = Reader!Tbl(rframes[k].t)
  /\ rframes[k].at = Reader!Above(k + 1)
  /\ rframes[k].kind = "array" => ~rframes[k].key

RDescending == \A k, m \in 1..(Len(rframes) + 1) : k < m => Reader!Above(m) <= Reader!Above(k)

RLayout == RBottom /\ RDescending /\ \A k \in 1..Len(rframes) : RPlaced(k)

\* What lies above the innermost activation, and which of its reads is due.
RTops ==
  /\ Len(rL) + 1 = Reader!Above(1) + (IF rpc = "return" THEN 1 ELSE 0)
  /\ rpc \in {"length", "bytes"} => rframes = <<>> /\ Len(rstrings) < rsize
  /\ rpc \notin {"length", "bytes"} => Len(rstrings) = rsize
  /\ rpc = "payload" => payload \in 6..23 \ {12, 16, 20}
  /\ rpc = "loop" => rframes # <<>> /\ ~rframes[1].key

RCounting ==
  \A k \in 1..Len(rframes) :
    /\ rframes[k].i \in 0..rframes[k].n /\ rframes[k].t \in 1..Len(heap)
    /\ k > 1 \/ rpc \in {"value", "payload", "return"} => rframes[k].i < rframes[k].n

\* A table on the stack was made after those below it, and is in no table yet.
OnStack(p) == p \in (rhandle + 1)..Len(rL) /\ Reader!lua_type(rL[p]) = "table"

Growing ==
  \A p \in 1..Len(rL) : OnStack(p) =>
    /\ rL[p][2] \in 1..Len(heap)
    /\ \A t \in 1..Len(heap) : rL[p][2] \notin Within(heap[t])
    /\ \A q \in 1..Len(rL) : OnStack(q) /\ p < q => rL[p][2] < rL[q][2]

\* A table in another one was made after it, and is in no third one.
Grown ==
  \A t1 \in 1..Len(heap) : \A x \in Within(heap[t1]) :
    /\ t1 < x /\ x <= Len(heap)
    /\ \A t2 \in 1..Len(heap) : x \in Within(heap[t2]) => t1 = t2

Results ==
  /\ ret \in {1, 2} /\ Len(rL) = Len(Caller) + ret
  /\ \A p \in 1..Len(Caller) : rL[p] = Caller[p]
  /\ ret = 2 => rL[Len(Caller) + 1] = Reader!Nil

ReaderInv ==
  /\ ReaderTypes /\ RCounting /\ Grown /\ Len(rstrings) <= rsize
  /\ ReaderWaits => rL = Caller /\ rframes = <<>> /\ rhandle = 0 /\ heap = <<>> /\ rstrings = <<>>
  /\ ReaderRuns => RLayout /\ RTops /\ Growing
  /\ rpc = "done" => Results

-----------------------------------------------------------------------------
(* Values, tables and the cursor.                                          *)

\* The values that parseTableValue makes, and the slots they go to.
LEMMA Values ==
  /\ {Reader!Nil, Reader!True, Reader!False} \subseteq RValue
  /\ \A n \in Int : Reader!Num(n) \in RValue /\ Reader!lua_type(Reader!Num(n)) # "table"
  /\ \A s \in Seq(Byte) : Reader!Str(s) \in RValue /\ Reader!lua_type(Reader!Str(s)) # "table"
  /\ \A t \in Nat : Reader!Tbl(t) \in RValue /\ Reader!lua_type(Reader!Tbl(t)) = "table" /\ Reader!Tbl(t)[2] = t
  /\ \A x \in {Reader!Nil, Reader!True, Reader!False} : Reader!lua_type(x) # "table"
  /\ RValue \subseteq RSlot /\ Reader!Nil \in RSlot /\ Reader!Pool \in RSlot /\ Reader!Message \in RSlot
<1>1. {Reader!Nil, Reader!True, Reader!False} \subseteq RValue
  BY DEF RValue
<1>2. \A n \in Int : Reader!Num(n) \in RValue
  BY DEF RValue
<1>3. \A s \in Seq(Byte) : Reader!Str(s) \in RValue
  BY DEF RValue
<1>4. \A t \in Nat : Reader!Tbl(t) \in RValue
  BY DEF RValue
<1>5. /\ \A n \in Int : Reader!lua_type(Reader!Num(n)) # "table"
      /\ \A s \in Seq(Byte) : Reader!lua_type(Reader!Str(s)) # "table"
      /\ \A t \in Nat : Reader!lua_type(Reader!Tbl(t)) = "table" /\ Reader!Tbl(t)[2] = t
  BY DEF Reader!Num, Reader!Str, Reader!Tbl, Reader!lua_type
<1>6. \A x \in {Reader!Nil, Reader!True, Reader!False} : Reader!lua_type(x) # "table"
  <2>1. Reader!lua_type(Reader!Nil) # "table"
    BY DEF Reader!Nil, Reader!lua_type
  <2>2. Reader!lua_type(Reader!True) # "table"
    BY DEF Reader!True, Reader!lua_type
  <2>3. Reader!lua_type(Reader!False) # "table"
    BY DEF Reader!False, Reader!lua_type
  <2> QED BY <2>1, <2>2, <2>3
<1>7. RValue \subseteq RSlot /\ Reader!Pool \in RSlot /\ Reader!Message \in RSlot
  BY DEF RSlot
<1>8. Reader!Nil \in RSlot
  BY <1>1, <1>7
<1> QED BY <1>1, <1>2, <1>3, <1>4, <1>5, <1>6, <1>7, <1>8

\* A value of type table is one of the heap by its number.
LEMMA TableValue ==
  ASSUME NEW x \in RValue, Reader!lua_type(x) = "table"
  PROVE  x[2] \in Nat /\ x = Reader!Tbl(x[2])
<1>1. x \in {Reader!Tbl(t) : t \in Nat}
  BY Values DEF RValue
<1>2. PICK t \in Nat : x = Reader!Tbl(t)
  BY <1>1
<1> QED BY <1>2, Values

\* What a table consists of.
LEMMA HoldsValues ==
  ASSUME NEW c \in Contained
  PROVE  DOMAIN c \subseteq RValue /\ \A k \in DOMAIN c : c[k] \in RValue
<1>1. PICK S \in SUBSET RValue : c \in [S -> RValue]
  BY DEF Contained
<1> QED BY <1>1

\* A function of values is a table's content.
LEMMA IsContained ==
  ASSUME NEW S \in SUBSET RValue, NEW c \in [S -> RValue]
  PROVE  c \in Contained
BY DEF Contained

\* rawset replaces, adds or clears one entry.
LEMMA RawSet ==
  ASSUME NEW c \in Contained, NEW k \in RValue, NEW v \in RValue
  PROVE  /\ Reader!rawset(c, k, v) \in Contained
         /\ \A x \in Within(Reader!rawset(c, k, v)) :
              \/ x \in Within(c)
              \/ Reader!lua_type(k) = "table" /\ x = k[2]
              \/ Reader!lua_type(v) = "table" /\ x = v[2]
<1> DEFINE r == Reader!rawset(c, k, v)
<1>1. DOMAIN c \subseteq RValue /\ \A y \in DOMAIN c : c[y] \in RValue
  BY HoldsValues
<1>2. CASE v = Reader!Nil
  <2>1. r = [y \in DOMAIN c \ {k} |-> c[y]]
    BY <1>2 DEF Reader!rawset, Reader!Restrict
  <2> HIDE DEF r
  <2>2. r \in Contained
    <3> DEFINE S == DOMAIN c \ {k}
    <3>1. r \in [S -> RValue] /\ S \in SUBSET RValue
      BY <1>1, <2>1
    <3> QED BY <3>1, IsContained
  <2>3. Within(r) \subseteq Within(c)
    BY <2>1 DEF Within, Range
  <2> QED BY <2>2, <2>3 DEF r
<1>3. CASE v # Reader!Nil
  <2>1. r = [y \in DOMAIN c \cup {k} |-> IF y = k THEN v ELSE c[y]]
    BY <1>3 DEF Reader!rawset
  <2> HIDE DEF r
  <2>2. r \in Contained
    <3> DEFINE S == DOMAIN c \cup {k}
    <3>1. r \in [S -> RValue] /\ S \in SUBSET RValue
      BY <1>1, <2>1
    <3> QED BY <3>1, IsContained
  <2>3. DOMAIN r \cup Range(r) \subseteq DOMAIN c \cup Range(c) \cup {k, v}
    BY <2>1 DEF Range
  <2>4. ASSUME NEW x \in Within(r)
        PROVE  \/ x \in Within(c)
               \/ Reader!lua_type(k) = "table" /\ x = k[2]
               \/ Reader!lua_type(v) = "table" /\ x = v[2]
    <3>1. PICK y \in DOMAIN r \cup Range(r) : Reader!lua_type(y) = "table" /\ x = y[2]
      BY DEF Within
    <3>2. y \in DOMAIN c \cup Range(c) \/ y = k \/ y = v
      BY <2>3
    <3>3. y \in DOMAIN c \cup Range(c) => x \in Within(c)
      BY <3>1 DEF Within
    <3> QED BY <3>1, <3>2, <3>3
  <2> QED BY <2>2, <2>4 DEF r
<1> QED BY <1>2, <1>3

\* A read of a number moves the cursor and yields a natural number.
LEMMA NumberIsRead ==
  ASSUME BytesInv, Cursor, NEW bits \in Widths, Reader!Reader!readNumber(bits)
  PROVE  Cursor' /\ Reader!Reader!Value(bits) \in Nat
<1>1. Sizeof[bits] \in Nat /\ p_ \in Nat /\ data \in Seq(Byte) /\ Len(data) \in Nat
  BY CardPositive DEF Cursor, BytesInv
<1>2. p_' \in Nat
  BY <1>1 DEF Reader!Reader!readNumber, Reader!Reader!AfterNumber
<1>3. short' \in BOOLEAN
  BY DEF Cursor, Reader!Reader!readNumber, Reader!Reader!Deliver, Reader!Reader!FallShort
<1>4. CASE Reader!Reader!Fits(Sizeof[bits])
  <2> DEFINE s == SubSeq(data, p_ + 1, p_ + Sizeof[bits])
  <2>1. s \in Seq(Byte)
    BY <1>1, <1>4, SubSeqProperties DEF Reader!Reader!Fits, Reader!Reader!end_
  <2>2. Reader!Reader!Value(bits) = Unsigned(s)
    BY <1>4, SameUnsigned DEF Reader!Reader!Value, Reader!Reader!Ahead
  <2> HIDE DEF s
  <2>3. Len(s) \in Nat /\ Unsigned(s) \in Nat
    <3>1. Len(s) \in Nat
      BY <2>1
    <3>2. PICK low \in [0..Len(s) -> Nat] : Unsigned(s) = low[Len(s)]
      BY <2>1, UnsignedDef
    <3> QED BY <3>1, <3>2
  <2> QED BY <1>2, <1>3, <2>2, <2>3 DEF Cursor
<1>5. CASE ~Reader!Reader!Fits(Sizeof[bits])
  BY <1>2, <1>3, <1>5 DEF Reader!Reader!Value, Cursor
<1> QED BY <1>4, <1>5

\* A read of bytes moves the cursor and yields bytes, when there are as many.
LEMMA BytesAreRead ==
  ASSUME BytesInv, Cursor, NEW n \in Nat, Reader!Reader!readBytes(n)
  PROVE  Cursor' /\ (Reader!Reader!Fits(n) => Reader!Reader!Ahead(n) \in Seq(Byte))
<1>1. p_ \in Nat /\ data \in Seq(Byte) /\ Len(data) \in Nat
  BY DEF Cursor, BytesInv
<1>2. p_' \in Nat
  BY <1>1 DEF Reader!Reader!readBytes, Reader!Reader!AfterBytes, Reader!Reader!end_
<1>3. short' \in BOOLEAN
  BY DEF Cursor, Reader!Reader!readBytes, Reader!Reader!Deliver, Reader!Reader!FallShort
<1>4. Reader!Reader!Fits(n) => Reader!Reader!Ahead(n) \in Seq(Byte)
  BY <1>1, SubSeqProperties DEF Reader!Reader!Fits, Reader!Reader!end_, Reader!Reader!Ahead
<1> QED BY <1>2, <1>3, <1>4 DEF Cursor

-----------------------------------------------------------------------------
(* The layout of the reader's stack.                                       *)

\* Where activations lie.
LEMMA RPlaces ==
  ASSUME ReaderTypes, RLayout
  PROVE  /\ Len(rframes) \in Nat /\ Len(rL) \in Nat /\ Len(Caller) \in Nat /\ rhandle \in Nat
         /\ rhandle = Len(Caller) + 1
         /\ Reader!Above(Len(rframes) + 1) = rhandle + 1
         /\ \A k \in 1..(Len(rframes) + 1) :
              /\ Reader!Above(k) \in Int /\ Reader!Above(k) <= Reader!Above(1)
              /\ Reader!Above(k) >= rhandle + 1
         /\ \A k \in 1..Len(rframes) :
              /\ rframes[k] \in RFrame /\ rframes[k].at = Reader!Above(k + 1)
              /\ rframes[k].at \in (rhandle + 1)..(Reader!Above(1) - 1)
              /\ Reader!Above(k) = rframes[k].at + (IF rframes[k].key THEN 2 ELSE 1)
<1> DEFINE n == Len(rframes)
<1>1. /\ n \in Nat /\ Len(rL) \in Nat /\ Len(Caller) \in Nat /\ rhandle \in Nat
      /\ rhandle = Len(Caller) + 1 /\ \A k \in 1..n : rframes[k] \in RFrame
  BY ReaderAssumption DEF ReaderTypes, RLayout, RBottom
<1>2. Reader!Above(n + 1) = rhandle + 1
  BY <1>1 DEF Reader!Above
<1>3. \A k \in 1..n : Reader!Above(k) = rframes[k].at + (IF rframes[k].key THEN 2 ELSE 1)
  BY <1>1 DEF Reader!Above
<1>4. \A k \in 1..n : rframes[k].at \in Nat /\ rframes[k].at = Reader!Above(k + 1)
  BY <1>1 DEF RFrame, RLayout, RPlaced
<1>5. \A k \in 1..(n + 1) : Reader!Above(k) \in Int
  <2> SUFFICES ASSUME NEW k \in 1..(n + 1) PROVE Reader!Above(k) \in Int
    OBVIOUS
  <2>1. CASE k = n + 1
    <3>1. Reader!Above(n + 1) \in Int
      BY <1>1, <1>2
    <3> QED BY <2>1, <3>1
  <2>2. CASE k # n + 1
    <3>1. k \in 1..n
      BY <1>1, <2>2
    <3>2. rframes[k].at \in Nat
      BY <1>4, <3>1
    <3>3. Reader!Above(k) = rframes[k].at + (IF rframes[k].key THEN 2 ELSE 1)
      BY <1>3, <3>1
    <3>4. rframes[k].at + (IF rframes[k].key THEN 2 ELSE 1) \in Int
      <4>1. CASE rframes[k].key
        BY <3>2, <4>1
      <4>2. CASE ~rframes[k].key
        BY <3>2, <4>2
      <4> QED BY <4>1, <4>2
    <3> QED BY ONLY <3>3, <3>4
  <2> QED BY <2>1, <2>2
<1>6. \A k, m \in 1..(n + 1) : k < m => Reader!Above(m) <= Reader!Above(k)
  BY DEF RLayout, RDescending
<1>7. ASSUME NEW k \in 1..(n + 1)
      PROVE  Reader!Above(k) <= Reader!Above(1) /\ Reader!Above(k) >= rhandle + 1
  <2>1. k = 1 \/ Reader!Above(k) <= Reader!Above(1)
    BY <1>1, <1>6
  <2>2. k = n + 1 \/ Reader!Above(n + 1) <= Reader!Above(k)
    BY <1>1, <1>6
  <2>3. Reader!Above(k) \in Int /\ Reader!Above(1) \in Int
    BY <1>1, <1>5
  <2> QED BY <1>1, <1>2, <2>1, <2>2, <2>3
<1>8. ASSUME NEW k \in 1..n
      PROVE  rframes[k].at \in (rhandle + 1)..(Reader!Above(1) - 1)
  <2>1. k \in 1..(n + 1) /\ k + 1 \in 1..(n + 1) /\ 1 \in 1..(n + 1)
    BY <1>1
  <2>2. /\ Reader!Above(k) <= Reader!Above(1) /\ Reader!Above(k + 1) >= rhandle + 1
        /\ Reader!Above(k) \in Int /\ Reader!Above(k + 1) \in Int /\ Reader!Above(1) \in Int
    BY <1>5, <1>7, <2>1
  <2>3. rframes[k].at = Reader!Above(k + 1) /\ Reader!Above(k) >= rframes[k].at + 1
    <3>1. rframes[k].at \in Nat /\ rframes[k].at = Reader!Above(k + 1)
      BY <1>4
    <3>2. Reader!Above(k) = rframes[k].at + (IF rframes[k].key THEN 2 ELSE 1)
      BY <1>3
    <3>3. CASE rframes[k].key
      <4>1. Reader!Above(k) = rframes[k].at + 2
        BY <3>2, <3>3
      <4> QED BY ONLY <3>1, <4>1
    <3>4. CASE ~rframes[k].key
      <4>1. Reader!Above(k) = rframes[k].at + 1
        BY <3>2, <3>4
      <4> QED BY ONLY <3>1, <4>1
    <3> QED BY <3>3, <3>4
  <2> QED BY <1>1, <2>2, <2>3
<1> QED BY <1>1, <1>2, <1>3, <1>4, <1>5, <1>7, <1>8

\* Nothing that the activations use changes, except whether the key of the innermost one waits.
LEMMA RFramesKept ==
  ASSUME ReaderTypes, RLayout, RBottom', UNCHANGED rhandle,
         Len(rframes') = Len(rframes),
         \A k \in 1..Len(rframes) :
           /\ rframes'[k].at = rframes[k].at /\ rframes'[k].t = rframes[k].t
           /\ rframes'[k].kind = rframes[k].kind
           /\ k > 1 => rframes'[k].key = rframes[k].key
           /\ rframes'[k].kind = "array" => ~rframes'[k].key
           /\ rL'[rframes[k].at] = rL[rframes[k].at]
  PROVE  /\ RLayout'
         /\ Reader!Above(1)' = IF rframes = <<>> THEN rhandle + 1
                               ELSE rframes[1].at + (IF rframes'[1].key THEN 2 ELSE 1)
<1> DEFINE n == Len(rframes)
<1>1. /\ n \in Nat /\ rhandle \in Nat /\ (rframes = <<>> <=> n = 0)
      /\ \A k \in 1..(n + 1) : Reader!Above(k) \in Int
      /\ \A k \in 1..n : rframes[k].at = Reader!Above(k + 1) /\ rframes[k].at \in Nat
  BY RPlaces, EmptySeq DEF ReaderTypes, RFrame
<1>2. \A k \in 2..(n + 1) : Reader!Above(k)' = Reader!Above(k)
  BY <1>1 DEF Reader!Above
<1>3. Reader!Above(1)' = IF rframes = <<>> THEN rhandle + 1
                         ELSE rframes[1].at + (IF rframes'[1].key THEN 2 ELSE 1)
  BY <1>1 DEF Reader!Above
<1>4. ASSUME NEW k \in 1..(n + 1), NEW m \in 1..(n + 1), k < m
      PROVE  Reader!Above(m)' <= Reader!Above(k)'
  <2>1. \A a, b \in 1..(n + 1) : a < b => Reader!Above(b) <= Reader!Above(a)
    BY DEF RLayout, RDescending
  <2>2. m \in 2..(n + 1)
    BY <1>1, <1>4
  <2>3. CASE k # 1
    <3>1. k \in 2..(n + 1)
      BY <1>1, <2>3
    <3> QED BY <1>2, <1>4, <2>1, <2>2, <3>1
  <2>4. CASE k = 1
    <3>1. 2 \in 1..(n + 1) /\ 1 \in 1..n
      BY <1>1, <1>4, <2>4
    <3>2. m = 2 \/ Reader!Above(m) <= Reader!Above(2)
      BY <2>1, <2>2, <3>1
    <3>3. Reader!Above(m) \in Int /\ Reader!Above(2) \in Int /\ rframes[1].at = Reader!Above(2)
      BY <1>1, <3>1
    <3>4. Reader!Above(1)' >= rframes[1].at /\ Reader!Above(1)' \in Int
      BY <1>1, <1>3, <3>1, <3>3
    <3> QED BY <1>2, <2>2, <2>4, <3>2, <3>3, <3>4
  <2> QED BY <2>3, <2>4
<1>5. ASSUME NEW k \in 1..n PROVE RPlaced(k)'
  <2>1. k + 1 \in 2..(n + 1)
    BY <1>1
  <2>2. Reader!Above(k + 1)' = Reader!Above(k + 1)
    BY <1>2, <2>1
  <2>3. RPlaced(k)
    BY DEF RLayout
  <2> QED BY <2>2, <2>3 DEF RPlaced
<1>6. RDescending'
  BY <1>4 DEF RDescending
<1> QED BY <1>3, <1>5, <1>6 DEF RLayout

\* An activation of _parseArray or _parseTable begins.
LEMMA RFramePushed ==
  ASSUME ReaderTypes, RLayout, RBottom', UNCHANGED rhandle,
         NEW x \in RFrame, rframes' = <<x>> \o rframes,
         ~x.key, x.at = Reader!Above(1), rL'[x.at] = Reader!Tbl(x.t),
         \A k \in 1..Len(rframes) : rL'[rframes[k].at] = rL[rframes[k].at]
  PROVE  RLayout' /\ Reader!Above(1)' = x.at + 1
<1> DEFINE n == Len(rframes)
<1>1. /\ n \in Nat /\ rhandle \in Nat
      /\ \A k \in 1..(n + 1) : Reader!Above(k) \in Int /\ Reader!Above(k) <= Reader!Above(1)
  BY RPlaces
<1>2. /\ Len(rframes') = n + 1 /\ rframes'[1] = x /\ \A k \in 1..n : rframes'[k + 1] = rframes[k]
  <2>1. rframes \in Seq(RFrame)
    BY DEF ReaderTypes
  <2> QED BY <2>1, Pushed
<1>3. Reader!Above(1)' = x.at + 1
  BY <1>1, <1>2 DEF Reader!Above
<1>4. ASSUME NEW k \in 1..(n + 1) PROVE Reader!Above(k + 1)' = Reader!Above(k)
  <2>1. CASE k = n + 1
    BY <1>1, <1>2, <2>1 DEF Reader!Above
  <2>2. CASE k # n + 1
    <3>1. k \in 1..n /\ k + 1 \in 1..(n + 1)
      BY <1>1, <2>2
    <3> QED BY <1>1, <1>2, <3>1 DEF Reader!Above
  <2> QED BY <2>1, <2>2
<1>5. ASSUME NEW k \in 1..(n + 2), NEW m \in 1..(n + 2), k < m
      PROVE  Reader!Above(m)' <= Reader!Above(k)'
  <2>1. \A a, b \in 1..(n + 1) : a < b => Reader!Above(b) <= Reader!Above(a)
    BY DEF RLayout, RDescending
  <2>2. m - 1 \in 1..(n + 1) /\ (m - 1) + 1 = m
    BY <1>1, <1>5
  <2>3. Reader!Above(m)' = Reader!Above(m - 1)
    BY <1>4, <2>2
  <2>4. CASE k = 1
    <3>1. Reader!Above(k)' = Reader!Above(1) + 1
      BY <1>3, <2>4
    <3>2. Reader!Above(m - 1) <= Reader!Above(1) /\ Reader!Above(m - 1) \in Int /\ Reader!Above(1) \in Int
      BY <1>1, <2>2
    <3> QED BY <2>3, <3>1, <3>2
  <2>5. CASE k # 1
    <3>1. k - 1 \in 1..(n + 1) /\ (k - 1) + 1 = k /\ k - 1 < m - 1
      BY <1>1, <1>5, <2>5
    <3>2. Reader!Above(k)' = Reader!Above(k - 1)
      BY <1>4, <3>1
    <3> QED BY <2>1, <2>2, <2>3, <3>1, <3>2
  <2> QED BY <2>4, <2>5
<1>6. RDescending'
  <2>1. Len(rframes') + 1 = n + 2
    BY <1>1, <1>2
  <2> QED BY <1>5, <2>1 DEF RDescending
<1>7. ASSUME NEW k \in 1..(n + 1) PROVE RPlaced(k)'
  <2>1. CASE k = 1
    <3>1. Reader!Above(1 + 1)' = Reader!Above(1)
      BY <1>1, <1>4
    <3> QED BY <1>2, <2>1, <3>1 DEF RPlaced
  <2>2. CASE k # 1
    <3>1. k - 1 \in 1..n /\ (k - 1) + 1 = k /\ k \in 1..(n + 1)
      BY <1>1, <2>2
    <3>2. rframes'[k] = rframes[k - 1] /\ Reader!Above(k + 1)' = Reader!Above(k)
      BY <1>2, <1>4, <3>1
    <3>3. RPlaced(k - 1)
      BY <3>1 DEF RLayout
    <3>4. rL'[rframes[k - 1].at] = rL[rframes[k - 1].at]
      BY <3>1
    <3> QED BY <3>1, <3>2, <3>3, <3>4 DEF RPlaced
  <2> QED BY <2>1, <2>2
<1> QED BY <1>2, <1>3, <1>6, <1>7 DEF RLayout

\* An activation ends.
LEMMA RFramePopped ==
  ASSUME ReaderTypes, RLayout, UNCHANGED <<rL, rhandle>>, rframes # <<>>, rframes' = Tail(rframes)
  PROVE  RLayout' /\ Reader!Above(1)' = rframes[1].at
<1> DEFINE n == Len(rframes)
<1>1. /\ n \in Nat \ {0} /\ Len(rframes') = n - 1 /\ \A k \in 1..(n - 1) : rframes'[k] = rframes[k + 1]
  <2>1. rframes \in Seq(RFrame)
    BY DEF ReaderTypes
  <2> QED BY <2>1, PoppedFirst
<1>2. ASSUME NEW k \in 1..n PROVE Reader!Above(k)' = Reader!Above(k + 1)
  <2>1. CASE k = n
    BY <1>1, <2>1 DEF Reader!Above
  <2>2. CASE k # n
    <3>1. k \in 1..(n - 1) /\ k + 1 \in 1..n
      <4>1. n \in Nat
        BY <1>1
      <4> QED BY <2>2, <4>1
    <3> QED BY <1>1, <3>1 DEF Reader!Above
  <2> QED BY <2>1, <2>2
<1>3. RDescending'
  <2> SUFFICES ASSUME NEW k \in 1..n, NEW m \in 1..n, k < m PROVE Reader!Above(m)' <= Reader!Above(k)'
    BY <1>1 DEF RDescending
  <2>1. k + 1 \in 1..(n + 1) /\ m + 1 \in 1..(n + 1) /\ k + 1 < m + 1
    BY <1>1
  <2>2. Reader!Above(m + 1) <= Reader!Above(k + 1)
    BY <2>1 DEF RLayout, RDescending
  <2> QED BY <1>2, <2>2
<1>4. ASSUME NEW k \in 1..(n - 1) PROVE RPlaced(k)'
  <2>1. k + 1 \in 1..n
    BY <1>1
  <2>2. Reader!Above(k + 1)' = Reader!Above((k + 1) + 1) /\ rframes'[k] = rframes[k + 1]
    BY <1>1, <1>2, <2>1
  <2>3. RPlaced(k + 1)
    BY <2>1 DEF RLayout
  <2> QED BY <2>2, <2>3 DEF RPlaced
<1>5. RBottom'
  BY DEF RLayout, RBottom
<1>6. Reader!Above(1)' = rframes[1].at
  BY <1>1, <1>2, RPlaces
<1> QED BY <1>1, <1>3, <1>4, <1>5, <1>6 DEF RLayout

\* A value is pushed.
LEMMA RPushed ==
  ASSUME rL \in Seq(RSlot), RBottom, UNCHANGED rhandle, rhandle \in Nat, NEW x \in RValue, rL' = Append(rL, x)
  PROVE  /\ RBottom' /\ rL' \in Seq(RSlot) /\ Len(rL) \in Nat /\ Len(rL') = Len(rL) + 1
         /\ rL'[Len(rL) + 1] = x /\ \A p \in 1..Len(rL) : rL'[p] = rL[p]
<1>1. x \in RSlot
  BY Values
<1>2. /\ rL' \in Seq(RSlot) /\ Len(rL) \in Nat /\ Len(rL') = Len(rL) + 1
      /\ rL'[Len(rL) + 1] = x /\ \A p \in 1..Len(rL) : rL'[p] = rL[p]
  BY <1>1, AppendProperties
<1>3. Len(Caller) \in Nat /\ rhandle = Len(Caller) + 1 /\ Len(rL) >= rhandle
  BY ReaderAssumption DEF RBottom
<1>4. /\ rhandle \in 1..Len(rL) /\ (\A p \in 1..Len(Caller) : p \in 1..Len(rL))
      /\ \A p \in (rhandle + 1)..(Len(rL) + 1) :
           (p \in (rhandle + 1)..Len(rL) /\ p \in 1..Len(rL)) \/ p = Len(rL) + 1
  BY <1>2, <1>3
<1>5. ASSUME NEW p \in (rhandle + 1)..(Len(rL) + 1) PROVE rL'[p] \in RValue
  BY <1>2, <1>4 DEF RBottom
<1> QED BY <1>2, <1>3, <1>4, <1>5 DEF RBottom

\* Values are popped.
LEMMA RPopped ==
  ASSUME rL \in Seq(RSlot), RBottom, UNCHANGED rhandle, NEW m \in Nat, m >= rhandle, m <= Len(rL),
         rL' = SubSeq(rL, 1, m), rhandle \in Nat
  PROVE  /\ RBottom' /\ rL' \in Seq(RSlot) /\ Len(rL') = m /\ \A p \in 1..m : rL'[p] = rL[p]
<1>1. /\ rL' \in Seq(RSlot) /\ Len(rL') = m /\ Len(rL) \in Nat /\ \A p \in 1..m : rL'[p] = rL[p]
  BY Popped
<1>2. Len(Caller) \in Nat /\ rhandle = Len(Caller) + 1
  BY ReaderAssumption DEF RBottom
<1>3. /\ rhandle \in 1..m /\ (\A p \in 1..Len(Caller) : p \in 1..m)
      /\ \A p \in (rhandle + 1)..m : p \in (rhandle + 1)..Len(rL) /\ p \in 1..m
  BY <1>1, <1>2
<1> QED BY <1>1, <1>2, <1>3 DEF RBottom

-----------------------------------------------------------------------------
(* The tree grows.                                                         *)

\* A new table is on top of the stack, empty and in no other table.
LEMMA NewTableGrows ==
  ASSUME ReaderTypes, RBottom, Growing, Grown, UNCHANGED rhandle, Reader!NewTable
  PROVE  /\ heap' \in Seq(Contained) /\ Len(heap') = Len(heap) + 1 /\ Len(heap) \in Nat
         /\ Reader!NewId = Len(heap) + 1 /\ Reader!Tbl(Len(heap) + 1) \in RValue
         /\ rL' = Append(rL, Reader!Tbl(Len(heap) + 1))
         /\ Growing' /\ Grown'
<1> DEFINE n == Len(heap)
           x == Reader!Tbl(n + 1)
<1>1. /\ heap \in Seq(Contained) /\ n \in Nat /\ DOMAIN heap = 1..n /\ \A u \in 1..n : heap[u] \in Contained
      /\ rL \in Seq(RSlot) /\ rhandle \in Nat
  BY DEF ReaderTypes
<1>2. rL' = Append(rL, x) /\ heap' = [u \in 1..n \cup {n + 1} |-> IF u = n + 1 THEN Reader!EmptyFcn ELSE heap[u]]
  BY <1>1 DEF Reader!NewTable, Reader!Push, Reader!NewId
<1>3. x \in RValue /\ Reader!lua_type(x) = "table" /\ x[2] = n + 1
  BY <1>1, Values
<1> HIDE DEF x
<1>4. /\ Len(rL) \in Nat /\ Len(rL') = Len(rL) + 1 /\ rL'[Len(rL) + 1] = x
      /\ \A p \in 1..Len(rL) : rL'[p] = rL[p]
  BY <1>1, <1>2, <1>3, RPushed
<1>5. Reader!EmptyFcn \in Contained /\ Within(Reader!EmptyFcn) = {}
  <2>1. Reader!EmptyFcn \in [{} -> RValue]
    BY DEF Reader!EmptyFcn
  <2>2. {} \in SUBSET RValue
    OBVIOUS
  <2>3. DOMAIN Reader!EmptyFcn = {} /\ Range(Reader!EmptyFcn) = {}
    BY DEF Reader!EmptyFcn, Range
  <2> QED BY <2>1, <2>2, <2>3, IsContained DEF Within
<1>6. /\ heap' \in Seq(Contained) /\ Len(heap') = n + 1
      /\ heap'[n + 1] = Reader!EmptyFcn /\ \A u \in 1..n : heap'[u] = heap[u]
  <2>1. 1..n \cup {n + 1} = 1..(n + 1)
    BY <1>1
  <2>2. heap' = [u \in 1..(n + 1) |-> IF u = n + 1 THEN Reader!EmptyFcn ELSE heap[u]]
    BY <1>2, <2>1
  <2>3. \A u \in 1..(n + 1) : (IF u = n + 1 THEN Reader!EmptyFcn ELSE heap[u]) \in Contained
    BY <1>1, <1>5
  <2>4. heap' \in [1..(n + 1) -> Contained]
    BY <2>2, <2>3
  <2>5. heap' \in Seq(Contained) /\ Len(heap') = n + 1
    BY <1>1, <2>4
  <2>6. \A u \in 1..n : heap'[u] = heap[u]
    BY <1>1, <2>2
  <2> QED BY <1>1, <2>2, <2>5, <2>6
<1>7. \A u \in 1..(n + 1) : u \in 1..n \/ Within(heap'[u]) = {}
  BY <1>1, <1>5, <1>6
<1>8. Grown'
  <2> SUFFICES ASSUME NEW t1 \in 1..(n + 1), NEW y \in Within(heap'[t1])
               PROVE  /\ t1 < y /\ y <= n + 1
                      /\ \A t2 \in 1..(n + 1) : y \in Within(heap'[t2]) => t1 = t2
    BY <1>6 DEF Grown
  <2>1. t1 \in 1..n /\ y \in Within(heap[t1])
    BY <1>6, <1>7
  <2>2. t1 < y /\ y <= n /\ \A t2 \in 1..n : y \in Within(heap[t2]) => t1 = t2
    BY <2>1 DEF Grown
  <2>3. \A t2 \in 1..(n + 1) : y \in Within(heap'[t2]) => t2 \in 1..n /\ y \in Within(heap[t2])
    BY <1>6, <1>7
  <2>4. y <= n + 1
    <3>1. y \in Nat
      <4>1. PICK z \in DOMAIN heap[t1] \cup Range(heap[t1]) : Reader!lua_type(z) = "table" /\ y = z[2]
        BY <2>1 DEF Within
      <4>2. z \in RValue
        BY <1>1, <2>1, HoldsValues DEF Range
      <4> QED BY <4>1, <4>2, TableValue
    <3> QED BY <1>1, <2>2, <3>1
  <2> QED BY <2>2, <2>3, <2>4
<1>9. Growing'
  <2> SUFFICES ASSUME NEW p \in 1..(Len(rL) + 1), OnStack(p)'
               PROVE  /\ rL'[p][2] \in 1..(n + 1)
                      /\ \A t \in 1..(n + 1) : rL'[p][2] \notin Within(heap'[t])
                      /\ \A q \in 1..(Len(rL) + 1) : OnStack(q)' /\ p < q => rL'[p][2] < rL'[q][2]
    BY <1>4, <1>6 DEF Growing
  <2>1. \A q \in 1..Len(rL) : OnStack(q)' => OnStack(q) /\ rL'[q] = rL[q]
    BY <1>1, <1>4 DEF OnStack
  <2>2. CASE p = Len(rL) + 1
    <3>1. rL'[p][2] = n + 1
      BY <1>3, <1>4, <2>2
    <3>2. \A t \in 1..(n + 1) : n + 1 \notin Within(heap'[t])
      <4> SUFFICES ASSUME NEW t \in 1..n, n + 1 \in Within(heap[t]) PROVE FALSE
        BY <1>6, <1>7
      <4>1. n + 1 <= n
        BY DEF Grown
      <4> QED BY <1>1, <4>1
    <3>3. \A q \in 1..(Len(rL) + 1) : ~(p < q)
      BY <1>4, <2>2
    <3>4. n + 1 \in 1..(n + 1)
      BY <1>1
    <3> QED BY <3>1, <3>2, <3>3, <3>4
  <2>3. CASE p # Len(rL) + 1
    <3>1. p \in 1..Len(rL)
      BY <1>4, <2>3
    <3>2. OnStack(p) /\ rL'[p] = rL[p]
      BY <2>1, <3>1
    <3>3. /\ rL[p][2] \in 1..n
          /\ \A t \in 1..n : rL[p][2] \notin Within(heap[t])
          /\ \A q \in 1..Len(rL) : OnStack(q) /\ p < q => rL[p][2] < rL[q][2]
      BY <3>1, <3>2 DEF Growing
    <3>4. \A t \in 1..(n + 1) : rL'[p][2] \notin Within(heap'[t])
      BY <1>6, <1>7, <3>2, <3>3
    <3>5. \A q \in 1..(Len(rL) + 1) : OnStack(q)' /\ p < q => rL'[p][2] < rL'[q][2]
      <4> SUFFICES ASSUME NEW q \in 1..(Len(rL) + 1), OnStack(q)', p < q PROVE rL'[p][2] < rL'[q][2]
        OBVIOUS
      <4>1. CASE q = Len(rL) + 1
        <5>1. rL'[q][2] = n + 1
          BY <1>3, <1>4, <4>1
        <5> QED BY <1>1, <3>2, <3>3, <5>1
      <4>2. CASE q # Len(rL) + 1
        <5>1. q \in 1..Len(rL)
          BY <1>4, <4>2
        <5> QED BY <2>1, <3>2, <3>3, <5>1
      <4> QED BY <4>1, <4>2
    <3>6. rL'[p][2] \in 1..(n + 1)
      BY <1>1, <3>2, <3>3
    <3> QED BY <3>4, <3>5, <3>6
  <2> QED BY <2>2, <2>3
<1> QED BY <1>1, <1>2, <1>3, <1>6, <1>8, <1>9 DEF x, Reader!NewId

\* A value that is no table is on top of the stack.
LEMMA ValueGrows ==
  ASSUME rL \in Seq(RSlot), RBottom, rhandle \in Nat, Growing, UNCHANGED <<heap, rhandle>>,
         NEW x \in RValue, Reader!lua_type(x) # "table", rL' = Append(rL, x)
  PROVE  Growing'
<1>1. /\ Len(rL) \in Nat /\ Len(rL') = Len(rL) + 1 /\ rL'[Len(rL) + 1] = x
      /\ \A p \in 1..Len(rL) : rL'[p] = rL[p]
  BY RPushed
<1>2. \A p \in 1..(Len(rL) + 1) : OnStack(p)' => p \in 1..Len(rL) /\ OnStack(p) /\ rL'[p] = rL[p]
  BY <1>1 DEF OnStack
<1> SUFFICES ASSUME NEW p \in 1..(Len(rL) + 1), OnStack(p)'
             PROVE  /\ rL'[p][2] \in 1..Len(heap)
                    /\ \A t \in 1..Len(heap) : rL'[p][2] \notin Within(heap[t])
                    /\ \A q \in 1..(Len(rL) + 1) : OnStack(q)' /\ p < q => rL'[p][2] < rL'[q][2]
  BY <1>1 DEF Growing
<1>3. p \in 1..Len(rL) /\ OnStack(p) /\ rL'[p] = rL[p]
  BY <1>2
<1>4. /\ rL[p][2] \in 1..Len(heap)
      /\ \A t \in 1..Len(heap) : rL[p][2] \notin Within(heap[t])
      /\ \A q \in 1..Len(rL) : OnStack(q) /\ p < q => rL[p][2] < rL[q][2]
  BY <1>3 DEF Growing
<1> QED BY <1>2, <1>3, <1>4

\* lua_rawseti, lua_rawset: the value v on top, and the key k below it if that is on the
\* stack, become part of the table at m below them.
Enters(m, k, v) ==
  /\ m \in 1..Len(rL) /\ m < Len(rL) /\ OnStack(m) /\ rL' = SubSeq(rL, 1, m)
  /\ k \in RValue /\ v \in RValue /\ v = rL[Len(rL)]
  /\ Reader!lua_type(k) = "table" => m = Len(rL) - 2 /\ k = rL[Len(rL) - 1]
  /\ heap' = [heap EXCEPT ![rL[m][2]] = Reader!rawset(@, k, v)]

\* An entry that is set makes the table grow, and no other.
LEMMA EntryGrows ==
  ASSUME ReaderTypes, RBottom, Growing, Grown, UNCHANGED rhandle, NEW m, NEW k, NEW v, Enters(m, k, v)
  PROVE  heap' \in Seq(Contained) /\ Len(heap') = Len(heap) /\ Growing' /\ Grown'
<1> USE DEF Enters
<1> DEFINE n == Len(heap)
           id == rL[m][2]
           Popped_(x) == \E p \in (m + 1)..Len(rL) : OnStack(p) /\ x = rL[p][2]
<1>1. /\ heap \in Seq(Contained) /\ n \in Nat /\ DOMAIN heap = 1..n /\ \A u \in 1..n : heap[u] \in Contained
      /\ rL \in Seq(RSlot) /\ Len(rL) \in Nat /\ rhandle \in Nat /\ id \in 1..n
  BY DEF ReaderTypes, Growing
<1>2. heap' = [heap EXCEPT ![id] = Reader!rawset(heap[id], k, v)]
  OBVIOUS
<1>3. Reader!rawset(heap[id], k, v) \in Contained
  BY <1>1, RawSet
<1>4. /\ heap' \in Seq(Contained) /\ Len(heap') = n
      /\ heap'[id] = Reader!rawset(heap[id], k, v) /\ \A u \in 1..n : u # id => heap'[u] = heap[u]
  <2> DEFINE c == Reader!rawset(heap[id], k, v)
  <2>1. heap \in [1..n -> Contained] /\ id \in 1..n /\ c \in Contained /\ heap' = [heap EXCEPT ![id] = c]
    BY <1>1, <1>2, <1>3
  <2> HIDE DEF id, c
  <2>2. heap' \in [1..n -> Contained] /\ heap'[id] = c /\ \A u \in 1..n : u # id => heap'[u] = heap[u]
    BY <2>1
  <2>3. heap' \in Seq(Contained) /\ Len(heap') = n
    BY <1>1, <2>2
  <2> QED BY <2>2, <2>3 DEF c
<1>5. ASSUME NEW u \in 1..n, NEW x \in Within(heap'[u])
      PROVE  x \in Within(heap[u]) \/ (u = id /\ Popped_(x))
  <2>1. CASE u # id
    BY <1>4, <2>1
  <2>2. CASE u = id
    <3>1. \/ x \in Within(heap[u])
          \/ Reader!lua_type(k) = "table" /\ x = k[2]
          \/ Reader!lua_type(v) = "table" /\ x = v[2]
      BY <1>1, <1>4, <2>2, RawSet
    <3>2. m > rhandle
      BY <1>1 DEF OnStack
    <3>3. ASSUME Reader!lua_type(k) = "table", x = k[2] PROVE Popped_(x)
      <4>1. Len(rL) - 1 \in (m + 1)..Len(rL) /\ Len(rL) - 1 \in (rhandle + 1)..Len(rL)
        BY <1>1, <3>2, <3>3
      <4> QED BY <3>3, <4>1 DEF OnStack
    <3>4. ASSUME Reader!lua_type(v) = "table", x = v[2] PROVE Popped_(x)
      <4>1. Len(rL) \in (m + 1)..Len(rL) /\ Len(rL) \in (rhandle + 1)..Len(rL)
        BY <1>1, <3>2
      <4> QED BY <3>4, <4>1 DEF OnStack
    <3> QED BY <2>2, <3>1, <3>3, <3>4
  <2> QED BY <2>1, <2>2
<1>6. ASSUME NEW x, Popped_(x)
      PROVE  /\ x \in 1..n /\ id < x /\ \A u \in 1..n : x \notin Within(heap[u])
             /\ \A p \in 1..m : OnStack(p) => rL[p][2] < x
  <2>1. PICK q \in (m + 1)..Len(rL) : OnStack(q) /\ x = rL[q][2]
    BY <1>6
  <2>2. q \in 1..Len(rL) /\ m < q /\ \A p \in 1..m : p \in 1..Len(rL) /\ p < q
    BY <1>1
  <2> QED BY <2>1, <2>2 DEF Growing
<1> HIDE DEF Popped_, id
<1>7. Grown'
  <2> SUFFICES ASSUME NEW t1 \in 1..n, NEW x \in Within(heap'[t1])
               PROVE  /\ t1 < x /\ x <= n
                      /\ \A t2 \in 1..n : x \in Within(heap'[t2]) => t1 = t2
    BY <1>4 DEF Grown
  <2>1. CASE Popped_(x)
    <3>1. x \in 1..n /\ id < x /\ \A u \in 1..n : x \notin Within(heap[u])
      BY <1>6, <2>1
    <3>2. \A t2 \in 1..n : x \in Within(heap'[t2]) => t2 = id
      BY <1>5, <3>1
    <3> QED BY <1>1, <3>1, <3>2
  <2>2. CASE ~Popped_(x)
    <3>1. \A t2 \in 1..n : x \in Within(heap'[t2]) => x \in Within(heap[t2])
      BY <1>5, <2>2
    <3>2. x \in Within(heap[t1])
      BY <3>1
    <3>3. t1 < x /\ x <= n /\ \A t2 \in 1..n : x \in Within(heap[t2]) => t1 = t2
      BY <3>2 DEF Grown
    <3> QED BY <3>1, <3>3
  <2> QED BY <2>1, <2>2
<1>8. /\ Len(rL') = m /\ \A p \in 1..m : rL'[p] = rL[p] /\ (OnStack(p)' => OnStack(p))
  <2>1. m \in Nat /\ m <= Len(rL)
    BY <1>1
  <2>2. Len(rL') = m /\ \A p \in 1..m : rL'[p] = rL[p]
    BY <1>1, <2>1, Popped
  <2>3. ASSUME NEW p \in 1..m, OnStack(p)' PROVE OnStack(p)
    <3>1. p \in (rhandle + 1)..m
      BY <2>2, <2>3 DEF OnStack
    <3>2. p \in (rhandle + 1)..Len(rL)
      BY <1>1, <2>1, <3>1
    <3> QED BY <2>2, <2>3, <3>2 DEF OnStack
  <2> QED BY <2>2, <2>3
<1>9. Growing'
  <2> SUFFICES ASSUME NEW p \in 1..m, OnStack(p)'
               PROVE  /\ rL'[p][2] \in 1..n
                      /\ \A t \in 1..n : rL'[p][2] \notin Within(heap'[t])
                      /\ \A q \in 1..m : OnStack(q)' /\ p < q => rL'[p][2] < rL'[q][2]
    BY <1>4, <1>8 DEF Growing
  <2>1. OnStack(p) /\ rL'[p] = rL[p] /\ \A q \in 1..m : q \in 1..Len(rL)
    BY <1>1, <1>8
  <2>2. /\ rL[p][2] \in 1..n
        /\ \A t \in 1..n : rL[p][2] \notin Within(heap[t])
        /\ \A q \in 1..Len(rL) : OnStack(q) /\ p < q => rL[p][2] < rL[q][2]
    BY <2>1 DEF Growing
  <2>3. ~Popped_(rL[p][2])
    <3> SUFFICES ASSUME Popped_(rL[p][2]) PROVE FALSE
      OBVIOUS
    <3>1. rL[p][2] < rL[p][2]
      BY <1>6, <2>1
    <3> QED BY <2>2, <3>1
  <2>4. \A t \in 1..n : rL[p][2] \notin Within(heap'[t])
    BY <1>5, <2>2, <2>3
  <2>5. \A q \in 1..m : OnStack(q)' /\ p < q => rL'[p][2] < rL'[q][2]
    BY <1>8, <2>1, <2>2
  <2> QED BY <2>1, <2>2, <2>4, <2>5
<1> QED BY <1>4, <1>7, <1>9

-----------------------------------------------------------------------------
(* The ends of a parse.                                                    *)

\* The caller's stack is one of the reader's.
LEMMA CallerSlots == Caller \in Seq(RSlot) /\ Len(Caller) \in Nat
<1>1. Caller \in Seq(Range(Caller)) /\ Range(Caller) \subseteq RSlot
  BY ReaderAssumption DEF RSlot
<1> QED BY <1>1, SeqMonotonic

\* nil and a message are left on the stack of the caller.
LEMMA RejectKeeps ==
  ASSUME ReaderInv, Cursor', Reader!Reject(Caller)
  PROVE  ReaderInv'
<1> DEFINE answer == <<Reader!Nil, Reader!Message>>
<1>1. /\ rL' = Caller \o answer /\ rframes' = <<>> /\ rpc' = "done" /\ ret' = 2
      /\ UNCHANGED <<heap, rhandle, rsize, rstrings, payload>>
  BY DEF Reader!Reject, Reader!strTable
<1>2. answer \in Seq(RSlot) /\ Len(answer) = 2 /\ answer[1] = Reader!Nil
  BY Values
<1> HIDE DEF answer
<1>3. /\ rL' \in Seq(RSlot) /\ Len(rL') = Len(Caller) + 2
      /\ \A p \in 1..Len(Caller) : rL'[p] = Caller[p]
      /\ rL'[Len(Caller) + 1] = Reader!Nil
  <2>1. /\ Caller \o answer \in Seq(RSlot) /\ Len(Caller \o answer) = Len(Caller) + Len(answer)
        /\ \A p \in 1..Len(Caller) : (Caller \o answer)[p] = Caller[p]
        /\ \A k \in 1..Len(answer) : (Caller \o answer)[Len(Caller) + k] = answer[k]
    <3>1. Caller \in Seq(RSlot) /\ answer \in Seq(RSlot)
      BY <1>2, CallerSlots
    <3> QED BY <3>1, Joined
  <2>2. 1 \in 1..Len(answer)
    BY <1>2
  <2> QED BY <1>1, <1>2, <2>1, <2>2
<1>4. ReaderTypes'
  BY <1>1, <1>3 DEF ReaderInv, ReaderTypes, ReaderRuns, ReaderWaits
<1>5. Results'
  BY <1>1, <1>3 DEF Results
<1>6. RCounting'
  BY <1>1 DEF RCounting
<1>7. Grown'
  BY <1>1 DEF ReaderInv, Grown
<1> QED BY <1>1, <1>4, <1>5, <1>6, <1>7 DEF ReaderInv, ReaderRuns, ReaderWaits

\* settop(top) and "Parse failed."
LEMMA FailRejects ==
  ASSUME ReaderInv, Cursor', ReaderRuns, Reader!Fail
  PROVE  ReaderInv'
<1>1. SubSeq(rL, 1, Len(Caller)) = Caller
  <2>1. /\ rL \in Seq(RSlot) /\ Len(rL) \in Nat /\ rhandle = Len(Caller) + 1 /\ Len(rL) >= rhandle
        /\ \A p \in 1..Len(Caller) : rL[p] = Caller[p]
    BY DEF ReaderInv, ReaderTypes, RLayout, RBottom
  <2>2. Len(Caller) <= Len(rL)
    BY <2>1, CallerSlots
  <2> QED BY <2>1, <2>2, CallerSlots, SamePrefix
<1>2. Reader!Reject(Caller)
  BY <1>1 DEF Reader!Fail, Reader!top
<1> QED BY <1>2, RejectKeeps

\* A Lua error.
LEMMA RaiseKeeps ==
  ASSUME ReaderInv, Cursor', Reader!Raise
  PROVE  ReaderInv'
<1>1. rpc' = "raised" /\ UNCHANGED <<rL, heap, rframes, rhandle, rsize, rstrings, payload, ret>>
  BY DEF Reader!Raise, Reader!strTable
<1>2. ReaderTypes'
  BY <1>1 DEF ReaderInv, ReaderTypes, ReaderRuns, ReaderWaits
<1>3. RCounting' /\ Grown'
  BY <1>1 DEF ReaderInv, RCounting, Grown
<1> QED BY <1>1, <1>2, <1>3 DEF ReaderInv, ReaderRuns, ReaderWaits

-----------------------------------------------------------------------------
(* The header and the pool.                                                *)

\* parseBinaryTable checks the magic number.
LEMMA MagicKeeps == ReaderInv /\ BytesInv /\ Reader!ReadMagic => ReaderInv'
<1> SUFFICES ASSUME ReaderInv, BytesInv, Reader!ReadMagic PROVE ReaderInv'
  OBVIOUS
<1>1. rpc = "magic" /\ Reader!Reader!readNumber(16)
  BY DEF Reader!ReadMagic
<1>2. Cursor'
  BY <1>1, NumberIsRead DEF ReaderInv, ReaderTypes, Widths
<1>3. CASE Reader!Reject(rL)
  BY <1>1, <1>2, <1>3, RejectKeeps DEF ReaderInv, ReaderWaits
<1>4. CASE rpc' = "version" /\ UNCHANGED <<rL, heap, rframes, rhandle, rsize, rstrings, payload, ret>>
  BY <1>1, <1>2, <1>4 DEF ReaderInv, ReaderTypes, ReaderRuns, ReaderWaits, RCounting, Grown
<1> QED BY <1>3, <1>4 DEF Reader!ReadMagic, Reader!strTable

\* parseBinaryTable checks the version.
LEMMA VersionKeeps == ReaderInv /\ BytesInv /\ Reader!ReadVersion => ReaderInv'
<1> SUFFICES ASSUME ReaderInv, BytesInv, Reader!ReadVersion PROVE ReaderInv'
  OBVIOUS
<1>1. rpc = "version" /\ Reader!Reader!readNumber(16)
  BY DEF Reader!ReadVersion
<1>2. Cursor'
  BY <1>1, NumberIsRead DEF ReaderInv, ReaderTypes, Widths
<1>3. CASE Reader!Reject(rL)
  BY <1>1, <1>2, <1>3, RejectKeeps DEF ReaderInv, ReaderWaits
<1>4. CASE rpc' = "pool" /\ UNCHANGED <<rL, heap, rframes, rhandle, rsize, rstrings, payload, ret>>
  BY <1>1, <1>2, <1>4 DEF ReaderInv, ReaderTypes, ReaderRuns, ReaderWaits, RCounting, Grown
<1> QED BY <1>3, <1>4 DEF Reader!ReadVersion, Reader!strTable

\* parseStringTable opens the table of strings.
LEMMA PoolKeeps == ReaderInv /\ BytesInv /\ Reader!ReadPoolSize => ReaderInv'
<1> SUFFICES ASSUME ReaderInv, BytesInv, Reader!ReadPoolSize PROVE ReaderInv'
  OBVIOUS
<1> DEFINE n == Reader!Reader!Value(32)
<1>1. rpc = "pool" /\ Reader!Reader!readNumber(32)
  BY DEF Reader!ReadPoolSize, Reader!TStringPoolLength
<1>2. Cursor' /\ n \in Nat
  BY <1>1, NumberIsRead DEF ReaderInv, ReaderTypes, Widths
<1>3. CASE Reader!Raise
  BY <1>2, <1>3, RaiseKeeps
<1>4. CASE /\ rL' = Append(rL, Reader!Pool) /\ rsize' = n /\ rhandle' = Len(rL) + 1 /\ rstrings' = <<>>
           /\ rpc' = Reader!AfterStrings(0, n) /\ UNCHANGED <<heap, rframes, payload, ret>>
  <2>1. /\ rL = Caller /\ rframes = <<>> /\ heap = <<>> /\ payload \in Nat /\ ret \in 0..2
    BY <1>1 DEF ReaderInv, ReaderWaits, ReaderTypes
  <2>2. /\ rL' \in Seq(RSlot) /\ Len(rL') = Len(Caller) + 1 /\ rL'[Len(Caller) + 1] = Reader!Pool
        /\ \A p \in 1..Len(Caller) : rL'[p] = Caller[p]
    BY <1>4, <2>1, CallerSlots, Values, AppendProperties
  <2>3. rhandle' = Len(Caller) + 1 /\ rhandle' \in Nat /\ Len(rL') = rhandle'
    BY <1>4, <2>1, <2>2, CallerSlots
  <2>4. rpc' = IF 0 < n THEN "length" ELSE "value"
    BY <1>4 DEF Reader!AfterStrings
  <2>5. ReaderTypes' /\ ReaderRuns'
    BY <1>2, <1>4, <2>1, <2>2, <2>3, <2>4 DEF ReaderTypes, ReaderRuns
  <2>6. RBottom'
    <3>1. \A p \in (rhandle' + 1)..Len(rL') : FALSE
      BY <2>3
    <3> QED BY <2>2, <2>3, <3>1 DEF RBottom
  <2>7. Len(rframes') = 0 /\ Len(rstrings') = 0 /\ Reader!Above(1)' = Len(rL') + 1
    BY <1>4, <2>1, <2>3 DEF Reader!Above
  <2>8. RLayout' /\ RCounting' /\ RTops'
    <3>1. RLayout'
      BY <2>6, <2>7 DEF RLayout, RDescending
    <3>2. RCounting'
      BY <2>7 DEF RCounting
    <3>3. RTops'
      BY <1>2, <1>4, <2>1, <2>3, <2>4, <2>7 DEF RTops
    <3> QED BY <3>1, <3>2, <3>3
  <2>9. Growing' /\ Grown'
    <3>1. \A p \in 1..Len(rL') : ~OnStack(p)'
      BY <2>3 DEF OnStack
    <3>2. Len(heap') = 0
      BY <1>4, <2>1
    <3> QED BY <3>1, <3>2 DEF Growing, Grown
  <2> QED BY <1>2, <1>4, <2>5, <2>7, <2>8, <2>9 DEF ReaderInv, ReaderRuns, ReaderWaits
<1> QED BY <1>3, <1>4 DEF Reader!ReadPoolSize, Reader!TStringPoolLength, Reader!Push

\* Neither the stack nor the tables change.
LEMMA StillLaidOut ==
  ASSUME RLayout, Growing, Grown, UNCHANGED <<rL, heap, rframes, rhandle>>
  PROVE  RLayout' /\ Growing' /\ Grown' /\ Reader!Above(1)' = Reader!Above(1)
<1>1. RBottom' /\ RDescending'
  BY DEF RLayout, RBottom, RDescending, Reader!Above
<1>2. \A k \in 1..Len(rframes) : RPlaced(k)'
  BY DEF RLayout, RPlaced, Reader!Above
<1>3. Growing'
  BY DEF Growing, OnStack
<1>4. Grown'
  BY DEF Grown
<1>5. Reader!Above(1)' = Reader!Above(1)
  BY DEF Reader!Above
<1> QED BY <1>1, <1>2, <1>3, <1>4, <1>5 DEF RLayout

\* parseStringTable reads the length of the next string.
LEMMA LengthKeeps == ReaderInv /\ BytesInv /\ Reader!ReadLength => ReaderInv'
<1> SUFFICES ASSUME ReaderInv, BytesInv, Reader!ReadLength PROVE ReaderInv'
  OBVIOUS
<1>1. rpc = "length" /\ ReaderRuns /\ Reader!Reader!readNumber(16)
  BY DEF Reader!ReadLength, Reader!TStringLength, ReaderRuns
<1>2. Cursor' /\ Reader!Reader!Value(16) \in Nat
  BY <1>1, NumberIsRead DEF ReaderInv, ReaderTypes, Widths
<1>3. CASE Reader!Fail
  BY <1>1, <1>2, <1>3, FailRejects
<1>4. CASE /\ payload' = Reader!Reader!Value(16) /\ rpc' = "bytes"
           /\ UNCHANGED <<rL, heap, rframes, rhandle, rsize, rstrings, ret>>
  <2>1. ReaderTypes' /\ ReaderRuns'
    BY <1>2, <1>4 DEF ReaderInv, ReaderTypes, ReaderRuns
  <2>2. RLayout' /\ Growing' /\ Grown' /\ Reader!Above(1)' = Reader!Above(1)
    BY <1>1, <1>4, StillLaidOut DEF ReaderInv
  <2>3. RTops'
    BY <1>1, <1>4, <2>2 DEF ReaderInv, RTops
  <2>4. RCounting'
    BY <1>4 DEF ReaderInv, RCounting
  <2> QED BY <1>4, <2>1, <2>2, <2>3, <2>4 DEF ReaderInv, ReaderRuns, ReaderWaits
<1> QED BY <1>3, <1>4 DEF Reader!ReadLength, Reader!TStringLength, Reader!strTable

\* parseStringTable reads the bytes of a string and adds it to its table.
LEMMA StringRKeeps == ReaderInv /\ BytesInv /\ Reader!ReadString => ReaderInv'
<1> SUFFICES ASSUME ReaderInv, BytesInv, Reader!ReadString PROVE ReaderInv'
  OBVIOUS
<1>1. rpc = "bytes" /\ ReaderRuns /\ Reader!Reader!readBytes(payload)
  BY DEF Reader!ReadString, ReaderRuns
<1>2. Cursor' /\ (Reader!Reader!Fits(payload) => Reader!Reader!Ahead(payload) \in Seq(Byte))
  BY <1>1, BytesAreRead DEF ReaderInv, ReaderTypes
<1>3. CASE Reader!Fail
  BY <1>1, <1>2, <1>3, FailRejects
<1>4. CASE /\ Reader!Reader!Fits(payload) /\ rstrings' = Append(rstrings, Reader!Reader!Ahead(payload))
           /\ rpc' = Reader!AfterStrings(Len(rstrings) + 1, rsize)
           /\ UNCHANGED <<rL, heap, rframes, rhandle, rsize, payload, ret>>
  <2>1. rstrings' \in Seq(Seq(Byte)) /\ Len(rstrings') = Len(rstrings) + 1 /\ Len(rstrings) \in Nat
    <3>1. rstrings \in Seq(Seq(Byte))
      BY DEF ReaderInv, ReaderTypes
    <3> QED BY <1>2, <1>4, <3>1, AppendProperties
  <2>2. rpc' = IF Len(rstrings) + 1 < rsize THEN "length" ELSE "value"
    BY <1>4 DEF Reader!AfterStrings
  <2>3. ReaderTypes' /\ ReaderRuns'
    BY <1>2, <1>4, <2>1, <2>2 DEF ReaderInv, ReaderTypes, ReaderRuns
  <2>4. RLayout' /\ Growing' /\ Grown' /\ Reader!Above(1)' = Reader!Above(1)
    BY <1>1, <1>4, StillLaidOut DEF ReaderInv
  <2>5. Len(rstrings) < rsize /\ rsize \in Nat /\ rframes = <<>>
    BY <1>1 DEF ReaderInv, ReaderTypes, RTops
  <2>6. RTops'
    BY <1>1, <1>4, <2>1, <2>2, <2>4, <2>5 DEF ReaderInv, RTops
  <2>7. RCounting'
    BY <1>4, <2>5 DEF RCounting
  <2>8. Len(rstrings') <= rsize'
    BY <1>4, <2>1, <2>5
  <2> QED BY <1>4, <2>3, <2>4, <2>6, <2>7, <2>8 DEF ReaderInv, ReaderRuns, ReaderWaits
<1> QED BY <1>3, <1>4 DEF Reader!ReadString

-----------------------------------------------------------------------------
(* Values.                                                                 *)

\* What the invariant says while values are parsed.
LEMMA WhileParsing ==
  ASSUME ReaderInv, rpc \in {"value", "payload", "loop", "return"}
  PROVE  /\ ReaderRuns /\ ReaderTypes /\ RLayout /\ RBottom /\ RTops /\ RCounting /\ Growing /\ Grown
         /\ Len(rframes) \in Nat /\ Len(rL) \in Nat /\ rhandle \in Nat /\ Len(rstrings) = rsize
         /\ (rframes = <<>> <=> Len(rframes) = 0)
         /\ Reader!Above(1) \in Int /\ Reader!Above(1) >= rhandle + 1
         /\ Reader!Above(1) = IF rframes = <<>> THEN rhandle + 1
                              ELSE rframes[1].at + (IF rframes[1].key THEN 2 ELSE 1)
         /\ Len(rL) + 1 = Reader!Above(1) + (IF rpc = "return" THEN 1 ELSE 0)
         /\ \A k \in 1..Len(rframes) : rframes[k].at \in (rhandle + 1)..(Reader!Above(1) - 1)
<1>1. ReaderRuns /\ ReaderTypes /\ RLayout /\ RTops /\ RCounting /\ Growing /\ Grown
  BY DEF ReaderInv, ReaderRuns
<1>2. RBottom
  BY <1>1 DEF RLayout
<1>3. /\ Len(rframes) \in Nat /\ Len(rL) \in Nat /\ rhandle \in Nat
      /\ (rframes = <<>> <=> Len(rframes) = 0)
  BY <1>1, EmptySeq DEF ReaderTypes
<1>4. /\ Reader!Above(1) \in Int /\ Reader!Above(1) >= rhandle + 1
      /\ \A k \in 1..Len(rframes) : rframes[k].at \in (rhandle + 1)..(Reader!Above(1) - 1)
  <2>1. 1 \in 1..(Len(rframes) + 1)
    BY <1>3
  <2> QED BY <1>1, <2>1, RPlaces
<1>5. Reader!Above(1) = IF rframes = <<>> THEN rhandle + 1
                        ELSE rframes[1].at + (IF rframes[1].key THEN 2 ELSE 1)
  BY <1>3 DEF Reader!Above
<1>6. Len(rstrings) = rsize
  BY <1>1 DEF RTops
<1>7. Len(rL) + 1 = Reader!Above(1) + (IF rpc = "return" THEN 1 ELSE 0)
  BY <1>1 DEF RTops
<1> QED BY <1>1, <1>2, <1>3, <1>4, <1>5, <1>6, <1>7

\* A parser pushes its value and returns.
LEMMA ReturnsKeeps ==
  ASSUME ReaderInv, rpc \in {"value", "payload"}, Cursor', NEW x \in RValue, rL' = Append(rL, x),
         rpc' = "return", UNCHANGED <<rframes, rhandle, rsize, rstrings, payload, ret>>,
         heap' \in Seq(Contained), Len(heap) \in Nat, Len(heap') \in {Len(heap), Len(heap) + 1},
         Growing', Grown'
  PROVE  ReaderInv'
<1>1. /\ ReaderTypes /\ RLayout /\ RBottom /\ RTops /\ RCounting /\ rhandle \in Nat
      /\ Len(rframes) \in Nat /\ Len(rL) \in Nat /\ Len(rstrings) = rsize
      /\ (rframes = <<>> <=> Len(rframes) = 0)
      /\ Reader!Above(1) \in Int /\ Len(rL) + 1 = Reader!Above(1)
      /\ Reader!Above(1) = IF rframes = <<>> THEN rhandle + 1
                           ELSE rframes[1].at + (IF rframes[1].key THEN 2 ELSE 1)
      /\ \A k \in 1..Len(rframes) : rframes[k].at \in (rhandle + 1)..(Reader!Above(1) - 1)
  BY WhileParsing
<1>2. /\ RBottom' /\ rL' \in Seq(RSlot) /\ Len(rL') = Len(rL) + 1 /\ \A p \in 1..Len(rL) : rL'[p] = rL[p]
  BY <1>1, RPushed DEF ReaderTypes
<1>3. RLayout' /\ Reader!Above(1)' = Reader!Above(1)
  <2>1. ASSUME NEW k \in 1..Len(rframes)
        PROVE  rL'[rframes[k].at] = rL[rframes[k].at] /\ (rframes[k].kind = "array" => ~rframes[k].key)
    <3>1. rframes[k].at \in 1..Len(rL)
      BY <1>1
    <3>2. RPlaced(k)
      BY <1>1 DEF RLayout
    <3> QED BY <1>2, <3>1, <3>2 DEF RPlaced
  <2>2. RLayout' /\ Reader!Above(1)' = IF rframes = <<>> THEN rhandle + 1
                                       ELSE rframes[1].at + (IF rframes'[1].key THEN 2 ELSE 1)
    BY <1>1, <1>2, <2>1, RFramesKept
  <2> QED BY <1>1, <2>2
<1>4. ReaderTypes'
  BY <1>1, <1>2 DEF ReaderTypes, ReaderRuns
<1>5. RTops'
  BY <1>1, <1>2, <1>3 DEF RTops
<1>6. RCounting'
  <2> SUFFICES ASSUME NEW k \in 1..Len(rframes)
               PROVE  /\ rframes[k].i \in 0..rframes[k].n /\ rframes[k].t \in 1..Len(heap')
                      /\ rframes[k].i < rframes[k].n
    BY DEF RCounting
  <2>1. rframes[k].i \in 0..rframes[k].n /\ rframes[k].t \in 1..Len(heap) /\ rframes[k].i < rframes[k].n
    BY <1>1 DEF RCounting
  <2> QED BY <2>1
<1>7. Len(rstrings') <= rsize' /\ rsize \in Nat
  BY <1>1 DEF ReaderTypes
<1> QED BY <1>3, <1>4, <1>5, <1>6, <1>7 DEF ReaderInv, ReaderRuns, ReaderWaits

\* A value that is no table.
LEMMA ValueKeeps ==
  ASSUME ReaderInv, rpc \in {"value", "payload"}, Cursor', NEW x \in RValue, Reader!lua_type(x) # "table",
         rL' = Append(rL, x), rpc' = "return",
         UNCHANGED <<heap, rframes, rhandle, rsize, rstrings, payload, ret>>
  PROVE  ReaderInv'
<1>1. ReaderTypes /\ RBottom /\ Growing /\ Grown /\ rhandle \in Nat
  BY WhileParsing
<1>2. Growing'
  BY <1>1, ValueGrows DEF ReaderTypes
<1>3. Grown'
  BY <1>1 DEF Grown
<1>4. heap' \in Seq(Contained) /\ Len(heap) \in Nat /\ Len(heap') \in {Len(heap), Len(heap) + 1}
  BY <1>1 DEF ReaderTypes
<1> QED BY <1>2, <1>3, <1>4, ReturnsKeeps

\* parseTableValue reads a tag and takes its case.
LEMMA TagKeeps == ReaderInv /\ BytesInv /\ Reader!ReadTag => ReaderInv'
<1> SUFFICES ASSUME ReaderInv, BytesInv, Reader!ReadTag PROVE ReaderInv'
  OBVIOUS
<1> DEFINE t == Reader!Reader!Value(8)
<1>1. rpc = "value" /\ ReaderRuns /\ Reader!Reader!readNumber(8)
  BY DEF Reader!ReadTag, ReaderRuns
<1>2. Cursor' /\ t \in Nat
  BY <1>1, NumberIsRead DEF ReaderInv, ReaderTypes, Widths
<1>3. /\ ReaderTypes /\ RLayout /\ RBottom /\ RTops /\ RCounting /\ Growing /\ Grown
  BY <1>1, WhileParsing
<1>4. CASE Reader!Fail
  BY <1>1, <1>2, <1>4, FailRejects
<1>5. CASE /\ t \in DOMAIN Reader!Constants /\ rL' = Append(rL, Reader!Constants[t]) /\ rpc' = "return"
           /\ UNCHANGED <<heap, rframes, rhandle, rsize, rstrings, payload, ret>>
  <2>1. Reader!Constants[t] \in {Reader!Nil, Reader!True, Reader!False, Reader!Num(0), Reader!Num(2), Reader!Str(<<>>)}
    BY <1>5 DEF Reader!Constants, Reader!Int2Num, Reader!T
  <2>2. Reader!Constants[t] \in RValue /\ Reader!lua_type(Reader!Constants[t]) # "table"
    <3>1. <<>> \in Seq(Byte) /\ 0 \in Int /\ 2 \in Int
      OBVIOUS
    <3> QED BY <2>1, <3>1, Values
  <2> QED BY <1>1, <1>2, <1>5, <2>2, ValueKeeps
<1>6. CASE Reader!NewTable /\ rpc' = "return" /\ UNCHANGED <<rframes, rhandle, rsize, rstrings, payload, ret>>
  <2>1. /\ heap' \in Seq(Contained) /\ Len(heap') = Len(heap) + 1 /\ Len(heap) \in Nat
        /\ Reader!Tbl(Len(heap) + 1) \in RValue /\ rL' = Append(rL, Reader!Tbl(Len(heap) + 1))
        /\ Growing' /\ Grown'
    BY <1>3, <1>6, NewTableGrows
  <2> QED BY <1>1, <1>2, <1>6, <2>1, ReturnsKeeps
<1>7. CASE /\ t \in 1..(24 - 1) \ (DOMAIN Reader!Constants \cup {16, 20}) /\ payload' = t /\ rpc' = "payload"
           /\ UNCHANGED <<rL, heap, rframes, rhandle, rsize, rstrings, ret>>
  <2>1. t \in 6..23 \ {12, 16, 20}
    <3>1. DOMAIN Reader!Constants = {1, 2, 3, 4, 5, 12}
      BY DEF Reader!Constants, Reader!T
    <3> HIDE DEF t
    <3> QED BY <1>7, <3>1
  <2>2. RLayout' /\ Growing' /\ Grown' /\ Reader!Above(1)' = Reader!Above(1)
    BY <1>3, <1>7, StillLaidOut
  <2>3. ReaderTypes'
    BY <1>2, <1>3, <1>7 DEF ReaderTypes, ReaderRuns
  <2>4. RTops'
    BY <1>1, <1>3, <1>7, <2>1, <2>2 DEF RTops
  <2>5. RCounting'
    BY <1>1, <1>3, <1>7 DEF RCounting
  <2> QED BY <1>7, <2>2, <2>3, <2>4, <2>5 DEF ReaderInv, ReaderRuns, ReaderWaits
<1>8. Reader!T.MAX = 24 /\ Reader!T.ARRAY0 = 16 /\ Reader!T.TABLE0 = 20
  BY DEF Reader!T
<1> QED BY <1>4, <1>5, <1>6, <1>7, <1>8 DEF Reader!ReadTag, Reader!strTable, Reader!Push

\* The width of what is read behind a tag.
LEMMA OperandWidth ==
  ASSUME NEW t \in 6..23 \ {12, 16, 20}
  PROVE  Reader!Operand(t) \in Widths
<1>1. t \in {6, 7, 8, 9, 10, 11, 13, 14, 15, 17, 18, 19, 21, 22, 23}
  OBVIOUS
<1> QED BY <1>1 DEF Reader!Operand, Reader!T, Widths

\* A number that is pushed is one.
LEMMA NumberPushed ==
  ASSUME NEW t \in 6..11, NEW u \in Nat
  PROVE  Reader!PushedNumber(t, u) \in Int
<1>1. \A bits \in Widths : \A x \in Int : Reader!AsSigned(bits, x) \in Int
  <2> SUFFICES ASSUME NEW bits \in Widths, NEW x \in Int PROVE Reader!AsSigned(bits, x) \in Int
    OBVIOUS
  <2>1. Reader!Card(bits) \in Nat \ {0}
    BY CardPositive, SameCard
  <2>2. x % Reader!Card(bits) \in Int
    BY <2>1
  <2> QED BY <2>1, <2>2 DEF Reader!AsSigned
<1>2. Reader!Operand(t) \in Widths
  <2>1. t \in 6..23 \ {12, 16, 20}
    OBVIOUS
  <2> QED BY <2>1, OperandWidth
<1>3. LuaIntegerBits \in Widths
  BY WireAssumption DEF Widths
<1>4. Reader!AsSigned(Reader!Operand(t), u) \in Int
  BY <1>1, <1>2
<1>5. Reader!PushedInteger(Reader!AsSigned(Reader!Operand(t), u)) \in Int
  <2> DEFINE y == Reader!AsSigned(Reader!Operand(t), u)
  <2>1. Reader!AsSigned(LuaIntegerBits, y) \in Int
    BY <1>1, <1>3, <1>4
  <2> QED BY <2>1 DEF Reader!PushedInteger
<1> QED BY <1>4, <1>5 DEF Reader!PushedNumber

\* parseTableValue reads a number.
LEMMA NumberKeeps == ReaderInv /\ BytesInv /\ Reader!ReadNumber => ReaderInv'
<1> SUFFICES ASSUME ReaderInv, BytesInv, Reader!ReadNumber PROVE ReaderInv'
  OBVIOUS
<1> DEFINE u == Reader!Reader!Value(Reader!Operand(payload))
           x == Reader!Num(Reader!PushedNumber(payload, u))
<1>1. /\ rpc = "payload" /\ Reader!Reader!readNumber(Reader!Operand(payload))
      /\ payload \in 6..11 /\ rL' = Append(rL, x) /\ rpc' = "return"
      /\ UNCHANGED <<heap, rframes, rhandle, rsize, rstrings, payload, ret>>
  BY DEF Reader!ReadNumber, Reader!T, Reader!strTable, Reader!Push
<1>2. Reader!Operand(payload) \in Widths
  <2>1. payload \in 6..23 \ {12, 16, 20}
    BY <1>1
  <2> QED BY <2>1, OperandWidth
<1>3. Cursor' /\ u \in Nat
  BY <1>1, <1>2, NumberIsRead DEF ReaderInv, ReaderTypes
<1>4. x \in RValue /\ Reader!lua_type(x) # "table"
  BY <1>1, <1>3, NumberPushed, Values
<1> QED BY <1>1, <1>3, <1>4, ValueKeeps

\* parseTableValue reads the number of a string and pushes that string.
LEMMA StringIndexKeeps == ReaderInv /\ BytesInv /\ Reader!ReadStringIndex => ReaderInv'
<1> SUFFICES ASSUME ReaderInv, BytesInv, Reader!ReadStringIndex PROVE ReaderInv'
  OBVIOUS
<1> DEFINE k == Reader!Reader!Value(Reader!Operand(payload))
           x == Reader!getString(k)
<1>1. /\ rpc = "payload" /\ ReaderRuns /\ Reader!Reader!readNumber(Reader!Operand(payload))
      /\ payload \in 13..15
  BY DEF Reader!ReadStringIndex, Reader!T, ReaderRuns
<1>2. Reader!Operand(payload) \in Widths
  <2>1. payload \in 6..23 \ {12, 16, 20}
    BY <1>1
  <2> QED BY <2>1, OperandWidth
<1>3. Cursor' /\ k \in Nat
  BY <1>1, <1>2, NumberIsRead DEF ReaderInv, ReaderTypes
<1>4. CASE Reader!Fail
  BY <1>1, <1>3, <1>4, FailRejects
<1>5. CASE /\ ~(k > rsize) /\ rL' = Append(rL, x) /\ rpc' = "return"
           /\ UNCHANGED <<heap, rframes, rhandle, rsize, rstrings, payload, ret>>
  <2>1. Len(rstrings) = rsize /\ rstrings \in Seq(Seq(Byte)) /\ rsize \in Nat
    BY <1>1, WhileParsing DEF ReaderTypes
  <2>2. k # 0 => rstrings[k] \in Seq(Byte)
    <3> HIDE DEF k
    <3>1. k # 0 => k \in 1..Len(rstrings)
      BY <1>3, <1>5, <2>1
    <3> QED BY <2>1, <3>1
  <2>3. x \in RValue /\ Reader!lua_type(x) # "table"
    BY <2>2, Values DEF Reader!getString
  <2> QED BY <1>1, <1>3, <1>5, <2>3, ValueKeeps
<1> QED BY <1>4, <1>5 DEF Reader!ReadStringIndex, Reader!strTable, Reader!Push

-----------------------------------------------------------------------------
(* Activations of _parseArray and _parseTable.                             *)

\* parseTable and parseArray read their size and push a new table.
LEMMA SizeKeeps == ReaderInv /\ BytesInv /\ Reader!ReadSize => ReaderInv'
<1> SUFFICES ASSUME ReaderInv, BytesInv, Reader!ReadSize PROVE ReaderInv'
  OBVIOUS
<1> DEFINE n == Reader!Reader!Value(Reader!Operand(payload))
           h == Len(heap)
<1>1. /\ rpc = "payload" /\ Reader!Reader!readNumber(Reader!Operand(payload)) /\ payload \in 17..23
  BY DEF Reader!ReadSize, Reader!T
<1>2. /\ ReaderTypes /\ RLayout /\ RBottom /\ RTops /\ RCounting /\ Growing /\ Grown /\ rhandle \in Nat
      /\ Len(rframes) \in Nat /\ Len(rL) \in Nat /\ Len(rstrings) = rsize
      /\ Reader!Above(1) \in Int /\ Reader!Above(1) >= rhandle + 1 /\ Len(rL) + 1 = Reader!Above(1)
      /\ \A k \in 1..Len(rframes) : rframes[k].at \in (rhandle + 1)..(Reader!Above(1) - 1)
  BY <1>1, WhileParsing
<1>3. Reader!Operand(payload) \in Widths
  <2>1. payload \in 6..23 \ {12, 16, 20}
    BY <1>1, <1>2 DEF RTops
  <2> QED BY <2>1, OperandWidth
<1>4. Cursor' /\ n \in Nat
  BY <1>1, <1>2, <1>3, NumberIsRead DEF ReaderTypes
<1>5. CASE Reader!Raise
  BY <1>4, <1>5, RaiseKeeps
<1>6. ASSUME NEW x, x = [t |-> Reader!NewId, at |-> Len(rL) + 1, kind |-> Reader!Kind(payload), i |-> 0, n |-> n, key |-> FALSE],
             Reader!NewTable, rframes' = <<x>> \o rframes, rpc' = "loop",
             UNCHANGED <<rhandle, rsize, rstrings, payload, ret>>
      PROVE  ReaderInv'
  <2>1. /\ heap' \in Seq(Contained) /\ Len(heap') = h + 1 /\ h \in Nat /\ Reader!NewId = h + 1
        /\ Reader!Tbl(h + 1) \in RValue /\ rL' = Append(rL, Reader!Tbl(h + 1))
        /\ Growing' /\ Grown'
    BY <1>2, <1>6, NewTableGrows
  <2>2. /\ RBottom' /\ rL' \in Seq(RSlot) /\ Len(rL') = Len(rL) + 1
        /\ rL'[Len(rL) + 1] = Reader!Tbl(h + 1) /\ \A p \in 1..Len(rL) : rL'[p] = rL[p]
    BY <1>2, <1>6, <2>1, RPushed DEF ReaderTypes
  <2>3. Reader!Kind(payload) \in {"array", "hash"}
    BY DEF Reader!Kind
  <2> HIDE DEF n
  <2>4. /\ x \in RFrame /\ ~x.key /\ x.at = Reader!Above(1) /\ x.t = h + 1 /\ x.i = 0 /\ x.n = n /\ x.at = Len(rL) + 1
    BY <1>2, <1>4, <1>6, <2>1, <2>3 DEF RFrame
  <2>5. RLayout' /\ Reader!Above(1)' = x.at + 1
    <3>1. ASSUME NEW k \in 1..Len(rframes) PROVE rL'[rframes[k].at] = rL[rframes[k].at]
      <4>1. rframes[k].at \in 1..Len(rL)
        BY <1>2
      <4> QED BY <2>2, <4>1
    <3> QED BY <1>2, <1>6, <2>2, <2>4, <3>1, RFramePushed
  <2>6. /\ rframes' \in Seq(RFrame) /\ Len(rframes') = Len(rframes) + 1 /\ rframes'[1] = x
        /\ \A k \in 1..Len(rframes) : rframes'[k + 1] = rframes[k]
    BY <1>2, <1>6, <2>4, Pushed DEF ReaderTypes
  <2>7. ReaderTypes'
    BY <1>2, <1>4, <1>6, <2>1, <2>2, <2>6 DEF ReaderTypes, ReaderRuns
  <2>8. RTops'
    <3>1. rframes' # <<>>
      BY <1>2, <2>6, EmptySeq
    <3> QED BY <1>2, <1>6, <2>2, <2>4, <2>5, <2>6, <3>1 DEF RTops
  <2>9. RCounting'
    <3> SUFFICES ASSUME NEW k \in 1..(Len(rframes) + 1)
                 PROVE  /\ rframes'[k].i \in 0..rframes'[k].n /\ rframes'[k].t \in 1..(h + 1)
                        /\ k > 1 => rframes'[k].i < rframes'[k].n
      BY <1>6, <2>1, <2>6 DEF RCounting
    <3>1. CASE k = 1
      <4>1. 0 \in 0..n /\ h + 1 \in 1..(h + 1)
        BY <1>4, <2>1
      <4> QED BY <2>4, <2>6, <3>1, <4>1
    <3>2. CASE k # 1
      <4>1. k - 1 \in 1..Len(rframes) /\ (k - 1) + 1 = k
        BY <1>2, <3>2
      <4>2. rframes'[k] = rframes[k - 1]
        BY <2>6, <4>1
      <4>3. /\ rframes[k - 1].i \in 0..rframes[k - 1].n /\ rframes[k - 1].t \in 1..h
            /\ rframes[k - 1].i < rframes[k - 1].n
        BY <1>1, <1>2, <4>1 DEF RCounting
      <4> QED BY <2>1, <4>2, <4>3
    <3> QED BY <3>1, <3>2
  <2>10. Len(rstrings') <= rsize' /\ rsize \in Nat
    BY <1>2, <1>6 DEF ReaderTypes
  <2> QED BY <1>6, <2>1, <2>5, <2>7, <2>8, <2>9, <2>10 DEF ReaderInv, ReaderRuns, ReaderWaits
<1> QED BY <1>5, <1>6 DEF Reader!ReadSize, Reader!strTable

\* The next element or key is read.
LEMMA LoopEntryKeeps == ReaderInv /\ Reader!LoopEntry => ReaderInv'
<1> SUFFICES ASSUME ReaderInv, Reader!LoopEntry PROVE ReaderInv'
  OBVIOUS
<1>1. /\ rpc = "loop" /\ Reader!More /\ rpc' = "value"
      /\ UNCHANGED <<p_, short, rL, heap, rframes, rhandle, rsize, rstrings, payload, ret>>
  BY DEF Reader!LoopEntry, Reader!cursor, Reader!strTable
<1>2. /\ ReaderTypes /\ RLayout /\ RTops /\ RCounting /\ Growing /\ Grown
      /\ Len(rstrings) = rsize /\ rframes # <<>>
  BY <1>1, WhileParsing DEF RTops
<1>3. rframes[1].i < rframes[1].n
  <2>1. rframes \in Seq(RFrame)
    BY <1>2 DEF ReaderTypes
  <2> QED BY <1>1, <1>2, <2>1, PoppedFirst DEF Reader!More, Reader!f
<1>4. RLayout' /\ Growing' /\ Grown' /\ Reader!Above(1)' = Reader!Above(1)
  BY <1>1, <1>2, StillLaidOut
<1>5. ReaderTypes'
  BY <1>1, <1>2 DEF ReaderTypes, ReaderRuns, Cursor
<1>6. RTops'
  BY <1>1, <1>2, <1>4 DEF RTops
<1>7. RCounting'
  <2> SUFFICES ASSUME NEW k \in 1..Len(rframes)
               PROVE  /\ rframes[k].i \in 0..rframes[k].n /\ rframes[k].t \in 1..Len(heap)
                      /\ rframes[k].i < rframes[k].n
    BY <1>1 DEF RCounting
  <2>1. k = 1 \/ k > 1
    OBVIOUS
  <2> QED BY <1>2, <1>3, <2>1 DEF RCounting
<1>8. Len(rstrings') <= rsize' /\ rsize \in Nat
  BY <1>1, <1>2 DEF ReaderTypes
<1> QED BY <1>1, <1>4, <1>5, <1>6, <1>7, <1>8 DEF ReaderInv, ReaderRuns, ReaderWaits

\* A table with all its entries is done with.
LEMMA LoopEndKeeps == ReaderInv /\ Reader!LoopEnd => ReaderInv'
<1> SUFFICES ASSUME ReaderInv, Reader!LoopEnd PROVE ReaderInv'
  OBVIOUS
<1>1. /\ rpc = "loop" /\ rpc' = "return" /\ rframes' = Tail(rframes)
      /\ UNCHANGED <<p_, short, rL, heap, rhandle, rsize, rstrings, payload, ret>>
  BY DEF Reader!LoopEnd, Reader!cursor, Reader!strTable
<1>2. /\ ReaderTypes /\ RLayout /\ RTops /\ RCounting /\ Growing /\ Grown
      /\ Len(rstrings) = rsize /\ rframes # <<>> /\ ~rframes[1].key /\ Len(rL) \in Nat
      /\ Len(rL) + 1 = Reader!Above(1) /\ Reader!Above(1) = rframes[1].at + (IF rframes[1].key THEN 2 ELSE 1)
      /\ \A k \in 1..Len(rframes) : rframes[k].at \in (rhandle + 1)..(Reader!Above(1) - 1)
  BY <1>1, WhileParsing DEF RTops
<1>3. /\ Len(rframes) \in Nat \ {0} /\ rframes' \in Seq(RFrame) /\ Len(rframes') = Len(rframes) - 1
      /\ \A k \in 1..(Len(rframes) - 1) : rframes'[k] = rframes[k + 1]
  BY <1>1, <1>2, PoppedFirst DEF ReaderTypes
<1>4. RLayout' /\ Reader!Above(1)' = rframes[1].at
  BY <1>1, <1>2, RFramePopped
<1>5. Growing' /\ Grown'
  BY <1>1, <1>2 DEF Growing, Grown, OnStack
<1>6. ReaderTypes'
  BY <1>1, <1>2, <1>3 DEF ReaderTypes, ReaderRuns, Cursor
<1>7. RTops'
  <2>1. Len(rL) + 1 = rframes[1].at + 1
    BY <1>2
  <2> QED BY <1>1, <1>2, <1>4, <2>1 DEF RTops
<1>8. RCounting'
  <2> SUFFICES ASSUME NEW k \in 1..(Len(rframes) - 1)
               PROVE  /\ rframes'[k].i \in 0..rframes'[k].n /\ rframes'[k].t \in 1..Len(heap)
                      /\ rframes'[k].i < rframes'[k].n
    BY <1>1, <1>3 DEF RCounting
  <2>1. k + 1 \in 1..Len(rframes) /\ k + 1 > 1
    BY <1>3
  <2> QED BY <1>2, <1>3, <2>1 DEF RCounting
<1>9. Len(rstrings') <= rsize' /\ rsize \in Nat
  BY <1>1, <1>2 DEF ReaderTypes
<1> QED BY <1>1, <1>4, <1>5, <1>6, <1>7, <1>8, <1>9 DEF ReaderInv, ReaderRuns, ReaderWaits

\* The frame of the innermost activation.
LEMMA RInnermost ==
  ASSUME ReaderInv, rpc = "return", rframes # <<>>
  PROVE  /\ Len(rframes) \in Nat \ {0} /\ rframes[1] \in RFrame /\ Reader!f = rframes[1]
         /\ Len(rL) = rframes[1].at + (IF rframes[1].key THEN 2 ELSE 1)
         /\ rframes[1].at \in 1..Len(rL) /\ rframes[1].at < Len(rL) /\ OnStack(rframes[1].at)
         /\ rL[rframes[1].at][2] = rframes[1].t
         /\ rL[Len(rL)] \in RValue /\ (rframes[1].key => rL[Len(rL) - 1] \in RValue)
         /\ (rframes[1].kind = "array" => ~rframes[1].key)
         /\ rframes[1].i < rframes[1].n
         /\ \A k \in 1..Len(rframes) : rframes[k].at <= rframes[1].at /\ rframes[k].at \in 1..Len(rL)
<1>1. /\ ReaderTypes /\ RLayout /\ RBottom /\ RTops /\ RCounting /\ rhandle \in Nat
      /\ Len(rframes) \in Nat /\ Len(rL) \in Nat /\ (rframes = <<>> <=> Len(rframes) = 0)
      /\ Reader!Above(1) \in Int /\ Len(rL) + 1 = Reader!Above(1) + 1
      /\ Reader!Above(1) = rframes[1].at + (IF rframes[1].key THEN 2 ELSE 1)
      /\ \A k \in 1..Len(rframes) : rframes[k].at \in (rhandle + 1)..(Reader!Above(1) - 1)
  BY WhileParsing
<1>2. 1 \in 1..Len(rframes) /\ Len(rframes) \in Nat \ {0}
  BY <1>1
<1>3. rframes[1] \in RFrame /\ Reader!f = rframes[1]
  BY <1>1, PoppedFirst DEF ReaderTypes, Reader!f
<1>4. Len(rL) = rframes[1].at + (IF rframes[1].key THEN 2 ELSE 1)
  BY <1>1
<1>5. rframes[1].at \in (rhandle + 1)..Len(rL) /\ rframes[1].at \in 1..Len(rL) /\ rframes[1].at < Len(rL)
  <2>1. rframes[1].at \in (rhandle + 1)..(Reader!Above(1) - 1)
    BY <1>1, <1>2
  <2>2. Len(rL) = Reader!Above(1) /\ Reader!Above(1) \in Int /\ rhandle \in Nat
    BY <1>1
  <2> QED BY <2>1, <2>2
<1>6. rframes[1].t \in 1..Len(heap) /\ rframes[1].i < rframes[1].n
  BY <1>1, <1>2 DEF RCounting
<1>7. RPlaced(1)
  BY <1>1, <1>2 DEF RLayout
<1>8. OnStack(rframes[1].at) /\ rL[rframes[1].at][2] = rframes[1].t
  <2>1. rL[rframes[1].at] = Reader!Tbl(rframes[1].t) /\ rframes[1].t \in Nat
    BY <1>6, <1>7 DEF RPlaced
  <2> QED BY <1>5, <2>1, Values DEF OnStack
<1>9. rL[Len(rL)] \in RValue
  <2>1. Len(rL) \in (rhandle + 1)..Len(rL)
    BY <1>1, <1>5
  <2> QED BY <1>1, <2>1 DEF RBottom
<1>10. ASSUME rframes[1].key PROVE rL[Len(rL) - 1] \in RValue
  <2>1. Len(rL) - 1 \in (rhandle + 1)..Len(rL)
    BY <1>1, <1>4, <1>5, <1>10
  <2> QED BY <1>1, <2>1 DEF RBottom
<1>11. rframes[1].kind = "array" => ~rframes[1].key
  BY <1>7 DEF RPlaced
<1>12. ASSUME NEW k \in 1..Len(rframes)
       PROVE  rframes[k].at <= rframes[1].at /\ rframes[k].at \in 1..Len(rL)
  <2>1. rframes[k].at \in 1..Len(rL)
    <3>1. rframes[k].at \in (rhandle + 1)..(Reader!Above(1) - 1)
      BY <1>1
    <3> QED BY <1>1, <3>1
  <2>2. CASE k = 1
    BY <1>5, <2>1, <2>2
  <2>3. CASE k # 1
    <3>1. 2 \in 1..(Len(rframes) + 1) /\ k + 1 \in 1..(Len(rframes) + 1) /\ 2 < k + 1
      BY <1>1, <2>3
    <3>2. Reader!Above(k + 1) <= Reader!Above(2)
      BY <1>1, <3>1 DEF RLayout, RDescending
    <3>3. rframes[k].at = Reader!Above(k + 1)
      BY <1>1 DEF RLayout, RPlaced
    <3>4. rframes[1].at = Reader!Above(2)
      BY <1>7 DEF RPlaced
    <3> QED BY <2>1, <3>2, <3>3, <3>4
  <2> QED BY <2>2, <2>3
<1> QED BY <1>2, <1>3, <1>4, <1>5, <1>6, <1>8, <1>9, <1>10, <1>11, <1>12

\* A loop goes on, and the key of an entry waits.
LEMMA FrameAdvanced ==
  ASSUME NEW x \in RFrame, NEW y \in {[x EXCEPT !.i = @ + 1, !.key = FALSE], [x EXCEPT !.key = TRUE]}
  PROVE  /\ y \in RFrame /\ y.at = x.at /\ y.t = x.t /\ y.kind = x.kind /\ y.n = x.n
         /\ y = [x EXCEPT !.key = TRUE] => y.key = TRUE /\ y.i = x.i
         /\ y = [x EXCEPT !.i = @ + 1, !.key = FALSE] => y.key = FALSE /\ y.i = x.i + 1
<1>1. x.i + 1 \in Nat
  BY DEF RFrame
<1>2. CASE y = [x EXCEPT !.key = TRUE]
  <2>1. y \in RFrame
    BY <1>2 DEF RFrame
  <2>2. y.at = x.at /\ y.t = x.t /\ y.kind = x.kind /\ y.n = x.n /\ y.i = x.i /\ y.key = TRUE
    BY <1>2 DEF RFrame
  <2>3. y # [x EXCEPT !.i = @ + 1, !.key = FALSE]
    <3>1. [x EXCEPT !.i = @ + 1, !.key = FALSE].key = FALSE
      BY DEF RFrame
    <3> QED BY <2>2, <3>1
  <2> QED BY <2>1, <2>2, <2>3
<1>3. CASE y = [x EXCEPT !.i = @ + 1, !.key = FALSE]
  <2> DEFINE z == [x EXCEPT !.i = @ + 1]
  <2>1. z \in RFrame /\ z.i = x.i + 1 /\ z.at = x.at /\ z.t = x.t /\ z.kind = x.kind /\ z.n = x.n
    BY <1>1 DEF RFrame
  <2>2. y = [z EXCEPT !.key = FALSE]
    BY <1>3
  <2> HIDE DEF z
  <2>3. y \in RFrame
    BY <2>1, <2>2 DEF RFrame
  <2>4. y.at = z.at /\ y.t = z.t /\ y.kind = z.kind /\ y.n = z.n /\ y.i = z.i /\ y.key = FALSE
    BY <2>1, <2>2 DEF RFrame
  <2>5. y # [x EXCEPT !.key = TRUE]
    <3>1. [x EXCEPT !.key = TRUE].key = TRUE
      BY DEF RFrame
    <3> QED BY <2>4, <3>1
  <2> QED BY <2>1, <2>3, <2>4, <2>5
<1> QED BY <1>2, <1>3

\* What has been read becomes an entry of the innermost table.
LEMMA EnteredKeeps ==
  ASSUME ReaderInv, rpc = "return", rframes # <<>>, rpc' = "loop", rframes' = Reader!Advance,
         NEW k \in RValue, Reader!lua_type(k) = "table" => rframes[1].key /\ k = rL[Len(rL) - 1],
         heap' = [heap EXCEPT ![rframes[1].t] = Reader!rawset(@, k, rL[Len(rL)])],
         rL' = SubSeq(rL, 1, rframes[1].at),
         UNCHANGED <<p_, short, rhandle, rsize, rstrings, payload, ret>>
  PROVE  ReaderInv'
<1> DEFINE m == rframes[1].at
           x == [rframes[1] EXCEPT !.i = @ + 1, !.key = FALSE]
<1>1. /\ ReaderTypes /\ RLayout /\ RBottom /\ RTops /\ RCounting /\ Growing /\ Grown /\ rhandle \in Nat
      /\ Len(rL) \in Nat /\ Len(rstrings) = rsize
  BY WhileParsing
<1>2. /\ Len(rframes) \in Nat \ {0} /\ rframes[1] \in RFrame /\ Reader!f = rframes[1]
      /\ Len(rL) = m + (IF rframes[1].key THEN 2 ELSE 1)
      /\ m \in 1..Len(rL) /\ m < Len(rL) /\ OnStack(m) /\ rL[m][2] = rframes[1].t
      /\ rL[Len(rL)] \in RValue /\ rframes[1].i < rframes[1].n
      /\ \A j \in 1..Len(rframes) : rframes[j].at <= m /\ rframes[j].at \in 1..Len(rL)
  BY RInnermost
<1>3. heap' \in Seq(Contained) /\ Len(heap') = Len(heap) /\ Growing' /\ Grown'
  <2>1. heap' = [heap EXCEPT ![rL[m][2]] = Reader!rawset(@, k, rL[Len(rL)])]
    BY <1>2
  <2>2. Reader!lua_type(k) = "table" => m = Len(rL) - 2 /\ k = rL[Len(rL) - 1]
    BY <1>2
  <2>3. Enters(m, k, rL[Len(rL)])
    BY <1>2, <2>1, <2>2 DEF Enters
  <2> HIDE DEF m
  <2> QED BY <1>1, <2>3, EntryGrows
<1>4. /\ RBottom' /\ rL' \in Seq(RSlot) /\ Len(rL') = m /\ \A p \in 1..m : rL'[p] = rL[p]
  <2>1. m \in Nat /\ m >= rhandle /\ m <= Len(rL)
    BY <1>1, <1>2 DEF OnStack
  <2> QED BY <1>1, <2>1, RPopped DEF ReaderTypes
<1>5. /\ x \in RFrame /\ x.at = m /\ x.t = rframes[1].t /\ x.kind = rframes[1].kind /\ ~x.key
      /\ x.i = rframes[1].i + 1 /\ x.n = rframes[1].n
  BY <1>2, FrameAdvanced
<1> HIDE DEF x
<1>6. /\ rframes' \in Seq(RFrame) /\ Len(rframes') = Len(rframes) /\ rframes'[1] = x
      /\ \A j \in 2..Len(rframes) : rframes'[j] = rframes[j]
  <2>1. rframes' = <<x>> \o Tail(rframes)
    BY <1>2 DEF x, Reader!Advance
  <2> QED BY <1>1, <1>5, <2>1, FirstChanged DEF ReaderTypes
<1>7. RLayout' /\ Reader!Above(1)' = m + 1
  <2>1. ASSUME NEW j \in 1..Len(rframes)
        PROVE  /\ rframes'[j].at = rframes[j].at /\ rframes'[j].t = rframes[j].t
               /\ rframes'[j].kind = rframes[j].kind
               /\ j > 1 => rframes'[j].key = rframes[j].key
               /\ rframes'[j].kind = "array" => ~rframes'[j].key
               /\ rL'[rframes[j].at] = rL[rframes[j].at]
    <3>1. rframes[j].at \in 1..m
      BY <1>2
    <3>2. CASE j = 1
      BY <1>4, <1>5, <1>6, <3>1, <3>2
    <3>3. CASE j # 1
      <4>1. j \in 2..Len(rframes)
        BY <1>2, <3>3
      <4>2. RPlaced(j)
        BY <1>1 DEF RLayout
      <4> QED BY <1>4, <1>6, <3>1, <4>1, <4>2 DEF RPlaced
    <3> QED BY <3>2, <3>3
  <2>2. RLayout' /\ Reader!Above(1)' = rframes[1].at + (IF rframes'[1].key THEN 2 ELSE 1)
    BY <1>1, <1>4, <1>6, <2>1, RFramesKept
  <2> QED BY <1>5, <1>6, <2>2
<1>8. ReaderTypes'
  BY <1>1, <1>3, <1>4, <1>6 DEF ReaderTypes, ReaderRuns, Cursor
<1>9. RTops'
  <2>1. rframes' # <<>> /\ m \in Int
    BY <1>2, <1>6, EmptySeq
  <2> QED BY <1>1, <1>4, <1>5, <1>6, <1>7, <2>1 DEF RTops
<1>10. RCounting'
  <2> SUFFICES ASSUME NEW j \in 1..Len(rframes)
               PROVE  /\ rframes'[j].i \in 0..rframes'[j].n /\ rframes'[j].t \in 1..Len(heap)
                      /\ j > 1 => rframes'[j].i < rframes'[j].n
    BY <1>3, <1>6 DEF RCounting
  <2>1. /\ rframes[j].i \in 0..rframes[j].n /\ rframes[j].t \in 1..Len(heap)
        /\ j > 1 => rframes[j].i < rframes[j].n
    BY <1>1 DEF RCounting
  <2>2. CASE j = 1
    <3>1. rframes[1].i \in Nat /\ rframes[1].n \in Nat
      BY <1>2 DEF RFrame
    <3>2. rframes[1].i + 1 \in 0..rframes[1].n
      BY <1>2, <3>1
    <3> QED BY <1>5, <1>6, <2>1, <2>2, <3>2
  <2>3. CASE j # 1
    <3>1. j \in 2..Len(rframes)
      BY <1>2, <2>3
    <3> QED BY <1>6, <2>1, <3>1
  <2> QED BY <2>2, <2>3
<1>11. Len(rstrings') <= rsize' /\ rsize \in Nat
  BY <1>1 DEF ReaderTypes
<1> QED BY <1>3, <1>7, <1>8, <1>9, <1>10, <1>11 DEF ReaderInv, ReaderRuns, ReaderWaits

\* An element that was read goes into its array.
LEMMA ReturnElementKeeps == ReaderInv /\ Reader!ReturnElement => ReaderInv'
<1> SUFFICES ASSUME ReaderInv, Reader!ReturnElement PROVE ReaderInv'
  OBVIOUS
<1>1. /\ rpc = "return" /\ rframes # <<>> /\ Reader!f.kind = "array" /\ rpc' = "loop" /\ rframes' = Reader!Advance
      /\ heap' = [heap EXCEPT ![rL[Len(rL) + 1 - 2][2]] = Reader!rawset(@, Reader!Int2Num(Reader!f.i + 1), rL[Len(rL) + 1 - 1])]
      /\ rL' = SubSeq(rL, 1, Len(rL) - 1)
      /\ UNCHANGED <<p_, short, rhandle, rsize, rstrings, payload, ret>>
  BY DEF Reader!ReturnElement, Reader!Top, Reader!Pop, Reader!cursor, Reader!strTable
<1>2. /\ rframes[1] \in RFrame /\ Reader!f = rframes[1] /\ ~rframes[1].key
      /\ Len(rL) = rframes[1].at + 1 /\ rL[rframes[1].at][2] = rframes[1].t
      /\ rframes[1].at \in Nat
  BY <1>1, RInnermost DEF RFrame
<1>3. Len(rL) + 1 - 2 = rframes[1].at /\ Len(rL) - 1 = rframes[1].at /\ Len(rL) + 1 - 1 = Len(rL)
  BY <1>2
<1> DEFINE k == Reader!Int2Num(Reader!f.i + 1)
<1>4. k \in RValue /\ Reader!lua_type(k) # "table"
  <2>1. 2 * (Reader!f.i + 1) \in Int
    BY <1>2 DEF RFrame
  <2> QED BY <2>1, Values DEF Reader!Int2Num
<1>5. heap' = [heap EXCEPT ![rframes[1].t] = Reader!rawset(@, k, rL[Len(rL)])]
  BY <1>1, <1>2, <1>3
<1> HIDE DEF k
<1> QED BY <1>1, <1>3, <1>4, <1>5, EnteredKeeps

\* A key and a value that were read go into their table.
LEMMA ReturnEntryKeeps == ReaderInv /\ Reader!ReturnEntry => ReaderInv'
<1> SUFFICES ASSUME ReaderInv, Reader!ReturnEntry PROVE ReaderInv'
  OBVIOUS
<1>1. rpc = "return" /\ rframes # <<>> /\ Reader!f.key /\ UNCHANGED <<p_, short>>
  BY DEF Reader!ReturnEntry, Reader!cursor
<1>2. CASE Reader!Raise
  BY <1>1, <1>2, RaiseKeeps DEF ReaderInv, ReaderTypes, Cursor
<1>3. CASE /\ heap' = [heap EXCEPT ![rL[Len(rL) + 1 - 3][2]] = Reader!rawset(@, rL[Len(rL) + 1 - 2], rL[Len(rL) + 1 - 1])]
           /\ rL' = SubSeq(rL, 1, Len(rL) - 2) /\ rframes' = Reader!Advance /\ rpc' = "loop"
           /\ UNCHANGED <<rhandle, rsize, rstrings, payload, ret>>
  <2>1. /\ rframes[1] \in RFrame /\ Reader!f = rframes[1] /\ rframes[1].key
        /\ Len(rL) = rframes[1].at + 2 /\ rL[rframes[1].at][2] = rframes[1].t
        /\ rframes[1].at \in Nat /\ rL[Len(rL) - 1] \in RValue
    BY <1>1, RInnermost DEF RFrame
  <2>2. /\ Len(rL) + 1 - 3 = rframes[1].at /\ Len(rL) - 2 = rframes[1].at
        /\ Len(rL) + 1 - 1 = Len(rL) /\ Len(rL) + 1 - 2 = Len(rL) - 1
    BY <2>1
  <2> DEFINE k == rL[Len(rL) - 1]
  <2>3. heap' = [heap EXCEPT ![rframes[1].t] = Reader!rawset(@, k, rL[Len(rL)])]
    BY <1>3, <2>1, <2>2
  <2> QED BY <1>1, <1>3, <2>1, <2>2, <2>3, EnteredKeeps
<1> QED BY <1>2, <1>3 DEF Reader!ReturnEntry, Reader!Top, Reader!Pop, Reader!strTable

\* When a key is read its value comes next.
LEMMA ReturnKeyRKeeps == ReaderInv /\ Reader!ReturnKey => ReaderInv'
<1> SUFFICES ASSUME ReaderInv, Reader!ReturnKey PROVE ReaderInv'
  OBVIOUS
<1> DEFINE x == [rframes[1] EXCEPT !.key = TRUE]
<1>1. /\ rpc = "return" /\ rframes # <<>> /\ Reader!f.kind = "hash" /\ ~Reader!f.key
      /\ rframes' = <<[Reader!f EXCEPT !.key = TRUE]>> \o Tail(rframes) /\ rpc' = "value"
      /\ UNCHANGED <<p_, short, rL, heap, rhandle, rsize, rstrings, payload, ret>>
  BY DEF Reader!ReturnKey, Reader!cursor, Reader!strTable
<1>2. /\ ReaderTypes /\ RLayout /\ RBottom /\ RTops /\ RCounting /\ Growing /\ Grown /\ rhandle \in Nat
      /\ Len(rL) \in Nat /\ Len(rstrings) = rsize
  BY <1>1, WhileParsing
<1>3. /\ Len(rframes) \in Nat \ {0} /\ rframes[1] \in RFrame /\ Reader!f = rframes[1]
      /\ Len(rL) = rframes[1].at + 1
  BY <1>1, RInnermost
<1>4. /\ x \in RFrame /\ x.at = rframes[1].at /\ x.t = rframes[1].t /\ x.kind = "hash" /\ x.key
      /\ x.i = rframes[1].i /\ x.n = rframes[1].n /\ rframes[1].kind = "hash"
  BY <1>1, <1>3, FrameAdvanced
<1>5. rframes' = <<x>> \o Tail(rframes)
  BY <1>1, <1>3
<1> HIDE DEF x
<1>6. /\ rframes' \in Seq(RFrame) /\ Len(rframes') = Len(rframes) /\ rframes'[1] = x
      /\ \A j \in 2..Len(rframes) : rframes'[j] = rframes[j]
  <2>1. rframes \in Seq(RFrame) /\ rframes # <<>> /\ x \in RFrame
    BY <1>1, <1>2, <1>4 DEF ReaderTypes
  <2> QED BY <1>5, <2>1, FirstChanged
<1>7. RLayout' /\ Reader!Above(1)' = rframes[1].at + 2
  <2>1. ASSUME NEW j \in 1..Len(rframes)
        PROVE  /\ rframes'[j].at = rframes[j].at /\ rframes'[j].t = rframes[j].t
               /\ rframes'[j].kind = rframes[j].kind
               /\ j > 1 => rframes'[j].key = rframes[j].key
               /\ rframes'[j].kind = "array" => ~rframes'[j].key
    <3>1. CASE j = 1
      BY <1>4, <1>6, <3>1
    <3>2. CASE j # 1
      <4>1. j \in 2..Len(rframes)
        BY <1>3, <3>2
      <4>2. RPlaced(j)
        BY <1>2 DEF RLayout
      <4> QED BY <1>6, <4>1, <4>2 DEF RPlaced
    <3> QED BY <3>1, <3>2
  <2>2. RBottom'
    BY <1>1, <1>2 DEF RBottom
  <2>3. RLayout' /\ Reader!Above(1)' = rframes[1].at + (IF rframes'[1].key THEN 2 ELSE 1)
    BY <1>1, <1>2, <1>6, <2>1, <2>2, RFramesKept
  <2> QED BY <1>4, <1>6, <2>3
<1>8. Growing' /\ Grown'
  <2>1. UNCHANGED <<rL, heap, rhandle>> /\ Growing /\ Grown
    BY <1>1, <1>2
  <2>2. Growing'
    BY <2>1 DEF Growing, OnStack
  <2> QED BY <2>1, <2>2 DEF Grown
<1>9. ReaderTypes'
  BY <1>1, <1>2, <1>6 DEF ReaderTypes, ReaderRuns, Cursor
<1>10. RTops'
  <2>1. Len(rL) + 1 = rframes[1].at + 2
    <3>1. rframes[1].at \in Nat
      BY <1>3 DEF RFrame
    <3> QED BY <1>3, <3>1
  <2>2. Len(rL') + 1 = Reader!Above(1)' + 0
    <3>1. rframes[1].at \in Nat
      BY <1>3 DEF RFrame
    <3> QED BY <1>1, <1>7, <2>1, <3>1
  <2> QED BY <1>1, <1>2, <2>2 DEF RTops
<1>11. RCounting'
  <2> SUFFICES ASSUME NEW j \in 1..Len(rframes)
               PROVE  /\ rframes'[j].i \in 0..rframes'[j].n /\ rframes'[j].t \in 1..Len(heap)
                      /\ rframes'[j].i < rframes'[j].n
    BY <1>1, <1>6 DEF RCounting
  <2>1. /\ rframes[j].i \in 0..rframes[j].n /\ rframes[j].t \in 1..Len(heap)
        /\ rframes[j].i < rframes[j].n
    BY <1>1, <1>2 DEF RCounting
  <2>2. j = 1 \/ j \in 2..Len(rframes)
    BY <1>3
  <2> QED BY <1>4, <1>6, <2>1, <2>2
<1>12. Len(rstrings') <= rsize' /\ rsize \in Nat
  BY <1>1, <1>2 DEF ReaderTypes
<1> QED BY <1>1, <1>7, <1>8, <1>9, <1>10, <1>11, <1>12 DEF ReaderInv, ReaderRuns, ReaderWaits

\* The string pool is removed from under the result.
LEMMA FinishRKeeps == ReaderInv /\ Reader!Finish => ReaderInv'
<1> SUFFICES ASSUME ReaderInv, Reader!Finish PROVE ReaderInv'
  OBVIOUS
<1> DEFINE c == Len(Caller)
<1>1. /\ rpc = "return" /\ rframes = <<>> /\ rpc' = "done" /\ ret' = 1 /\ rhandle' = 0
      /\ rL' = Reader!lua_remove(rL, rhandle)
      /\ UNCHANGED <<p_, short, heap, rframes, rsize, rstrings, payload>>
  BY DEF Reader!Finish, Reader!cursor
<1>2. /\ ReaderTypes /\ RLayout /\ RCounting /\ Grown /\ rhandle \in Nat /\ Len(rL) \in Nat
      /\ Len(rL) + 1 = Reader!Above(1) + 1 /\ Reader!Above(1) = rhandle + 1 /\ Len(rstrings) = rsize
  BY <1>1, WhileParsing
<1>3. rhandle = c + 1 /\ c \in Nat /\ Len(rL) = c + 2 /\ \A p \in 1..c : rL[p] = Caller[p]
  BY <1>2, CallerSlots DEF RLayout, RBottom
<1>4. rL' = SubSeq(rL, 1, rhandle - 1) \o SubSeq(rL, rhandle + 1, Len(rL))
  BY <1>1 DEF Reader!lua_remove
<1>5. /\ rL' \in Seq(RSlot) /\ Len(rL') = Len(rL) - 1 /\ \A p \in 1..(rhandle - 1) : rL'[p] = rL[p]
  <2> DEFINE r == rL'
             m == rhandle
  <2>1. rL \in Seq(RSlot) /\ m \in 1..Len(rL)
    BY <1>2, <1>3 DEF ReaderTypes
  <2>2. IsRemoval(rL, m, r)
    BY <1>4 DEF IsRemoval
  <2> HIDE DEF r, m
  <2>3. r \in Seq(RSlot) /\ Len(r) = Len(rL) - 1 /\ \A p \in 1..(m - 1) : r[p] = rL[p]
    BY <2>1, <2>2, Removed
  <2> QED BY <2>3 DEF r, m
<1>6. Len(rL') = c + 1 /\ \A p \in 1..c : rL'[p] = Caller[p]
  <2>1. \A p \in 1..c : p \in 1..(rhandle - 1)
    BY <1>3
  <2> QED BY <1>3, <1>5, <2>1
<1>7. ReaderTypes'
  BY <1>1, <1>2, <1>5 DEF ReaderTypes, ReaderRuns, ReaderWaits, Cursor
<1>8. Results'
  BY <1>1, <1>6 DEF Results
<1>9. RCounting'
  BY <1>1, <1>2 DEF RCounting
<1>10. Grown' /\ Len(rstrings') <= rsize' /\ rsize \in Nat
  BY <1>1, <1>2 DEF Grown, ReaderTypes
<1> QED BY <1>1, <1>7, <1>8, <1>9, <1>10 DEF ReaderInv, ReaderRuns, ReaderWaits

-----------------------------------------------------------------------------
(* The invariant.                                                          *)

\* parseBinaryTable starts at the beginning of the file with an empty stack.
LEMMA ReaderStarts ==
  ASSUME p_ = 0, short = FALSE, rL = Caller, heap = <<>>, rframes = <<>>, rhandle = 0, rsize = 0,
         rstrings = <<>>, payload = 0, ret = 0, rpc \in {"idle", "magic"}
  PROVE  ReaderInv
<1>1. /\ heap \in Seq(Contained) /\ rframes \in Seq(RFrame) /\ rstrings \in Seq(Seq(Byte))
      /\ rL \in Seq(RSlot) /\ Len(rframes) = 0 /\ Len(heap) = 0 /\ Len(rstrings) = 0
  BY CallerSlots
<1>2. rhandle \in Nat /\ rsize \in Nat /\ payload \in Nat /\ ret \in 0..2 /\ ReaderWaits
  BY DEF ReaderWaits
<1>5. p_ \in Nat /\ short \in BOOLEAN
  <2>1. p_ \in Nat
    OBVIOUS
  <2>2. short \in BOOLEAN
    BY Zenon
  <2> QED BY <2>1, <2>2
<1>3. ReaderTypes
  BY <1>1, <1>2, <1>5 DEF ReaderTypes, Cursor
<1>4. RCounting /\ Grown
  BY <1>1 DEF RCounting, Grown
<1> QED BY <1>1, <1>2, <1>3, <1>4 DEF ReaderInv, ReaderRuns, ReaderWaits

\* The reader waits for the file at first.
LEMMA ReaderInit == Init => ReaderInv
<1> SUFFICES ASSUME Init PROVE ReaderInv
  OBVIOUS
<1>1. Reader!InitRest /\ rpc \in {"idle", "magic"}
  BY DEF Init, Reader!Init
<1> QED BY <1>1, ReaderStarts DEF Reader!InitRest

\* No step of writer or reader disturbs what the reader has built.
LEMMA ReaderNext == BytesInv /\ ReaderInv /\ [Next]_vars => ReaderInv'
<1> SUFFICES ASSUME BytesInv, ReaderInv, [Next]_vars PROVE ReaderInv'
  OBVIOUS
<1>1. CASE Read
  <2>1. Reader!Parse
    BY <1>1 DEF Read
  <2> QED BY <2>1, MagicKeeps, VersionKeeps, PoolKeeps, LengthKeeps, StringRKeeps, TagKeeps, NumberKeeps,
             StringIndexKeeps, SizeKeeps, LoopEntryKeeps, LoopEndKeeps, ReturnElementKeeps,
             ReturnKeyRKeeps, ReturnEntryKeeps, FinishRKeeps
          DEF Reader!Parse
<1>2. CASE Store
  <2>1. rpc = "idle" /\ rpc' = "magic" /\ UNCHANGED readerRest
    BY <1>2 DEF Store
  <2>2. UNCHANGED <<p_, short, rL, heap, rframes, rhandle, rsize, rstrings, payload, ret>>
    BY <2>1 DEF readerRest
  <2> QED BY <2>1, <2>2 DEF ReaderInv, ReaderTypes, ReaderRuns, ReaderWaits, Cursor, RCounting, Grown
<1>3. CASE UNCHANGED <<p_, short, rL, heap, rframes, rhandle, rsize, rstrings, payload, ret, rpc>>
  <2>1. ReaderTypes' /\ RCounting' /\ Grown' /\ Len(rstrings') <= rsize' /\ (ReaderWaits' <=> ReaderWaits)
        /\ (ReaderRuns' <=> ReaderRuns)
    BY <1>3 DEF ReaderInv, ReaderTypes, ReaderRuns, ReaderWaits, Cursor, RCounting, Grown
  <2>2. ASSUME ReaderRuns PROVE RLayout' /\ RTops' /\ Growing'
    <3>1. RLayout' /\ Growing' /\ Reader!Above(1)' = Reader!Above(1)
      BY <1>3, <2>2, StillLaidOut DEF ReaderInv
    <3>2. RTops
      BY <2>2 DEF ReaderInv
    <3> QED BY <1>3, <3>1, <3>2 DEF RTops
  <2>3. rpc' = "done" => Results'
    BY <1>3 DEF ReaderInv, Results
  <2> QED BY <1>3, <2>1, <2>2, <2>3 DEF ReaderInv
<1> QED BY <1>1, <1>2, <1>3 DEF Next, Write, Ended, vars, readerVars, readerRest

\* The frames of parseTable match the reader's Lua stack in every reachable state.
LEMMA ReaderInvariant == Spec => []ReaderInv
BY ReaderInit, ReaderNext, BytesOnly, PTL DEF Spec

-----------------------------------------------------------------------------
(* The theorems.                                                           *)

\* parseBinaryTable leaves the one or two results it announces above its caller's stack and
\* nothing else, for every file, whatever was on the stack when it gave up.
THEOREM ResultsLeft == Spec => []ResultsOnStack
<1>1. ReaderInv => ResultsOnStack
  <2> SUFFICES ASSUME ReaderInv, rpc = "done"
               PROVE  /\ Len(rL) = Len(Caller) + ret /\ SubSeq(rL, 1, Len(Caller)) = Caller
                      /\ ret = 2 => rL[Len(Caller) + 1] = Reader!Nil
                      /\ ret \in {1, 2}
    BY DEF ResultsOnStack, Reader!ResultsOnStack, Reader!top
  <2>1. /\ ret \in {1, 2} /\ Len(rL) = Len(Caller) + ret /\ rL \in Seq(RSlot)
        /\ \A p \in 1..Len(Caller) : rL[p] = Caller[p]
        /\ ret = 2 => rL[Len(Caller) + 1] = Reader!Nil
    BY DEF ReaderInv, Results, ReaderTypes
  <2>2. Len(Caller) <= Len(rL)
    BY <2>1, CallerSlots
  <2>3. SubSeq(rL, 1, Len(Caller)) = Caller
    BY <2>1, <2>2, CallerSlots, SamePrefix
  <2> QED BY <2>1, <2>3
<1> QED BY <1>1, ReaderInvariant, PTL

\* Whatever bytes a file holds, what is parsed from it is a tree: no table is entered into two
\* tables, or into one created after it.
THEOREM TreesOnly == Spec => []BuildsTree
<1>1. ReaderInv => BuildsTree
  <2> SUFFICES ASSUME ReaderInv PROVE BuildsTree
    OBVIOUS
  <2>1. DOMAIN heap = 1..Len(heap)
    BY DEF ReaderInv, ReaderTypes
  <2>2. \A t \in DOMAIN heap : Reader!Refs(t) = Within(heap[t])
    BY DEF Reader!Refs, Within, Reader!Range, Range
  <2>3. \A t1 \in DOMAIN heap : \A x \in Reader!Refs(t1) :
          t1 < x /\ \A t2 \in DOMAIN heap : x \in Reader!Refs(t2) => t1 = t2
    BY <2>1, <2>2 DEF ReaderInv, Grown
  <2> QED BY <2>3 DEF BuildsTree, Reader!BuildsTree
<1> QED BY <1>1, ReaderInvariant, PTL

\* Every activation of writeTable, _parseArray and _parseTable finds its table, its keys and
\* its string table at the index it remembers or relative to the top of its Lua stack.
THEOREM FramesStay == Spec => []FramesOnStack
<1>1. ReaderInv => Reader!TypeOK /\ Reader!FramesOnStack
  <2> SUFFICES ASSUME ReaderInv PROVE Reader!TypeOK /\ Reader!FramesOnStack
    OBVIOUS
  <2>1. ReaderTypes /\ RCounting /\ Len(rstrings) <= rsize
    BY DEF ReaderInv
  <2>2. DOMAIN heap = 1..Len(heap) /\ DOMAIN rframes = 1..Len(rframes)
    BY <2>1 DEF ReaderTypes
  <2>3. Reader!TypeOK
    BY <2>1, <2>2 DEF ReaderTypes, ReaderRuns, ReaderWaits, Cursor, RCounting, Reader!TypeOK
  <2>4. Reader!FramesOnStack
    <3> SUFFICES ASSUME rhandle # 0, rpc \notin {"done", "raised"}
                 PROVE  /\ rL[rhandle] = Reader!Pool /\ rhandle = Len(Caller) + 1
                        /\ \A k \in 1..Len(rframes) :
                             rL[rframes[k].at] = Reader!Tbl(rframes[k].t) /\ rframes[k].at = Reader!Above(k + 1)
                        /\ Len(rL) + 1 = Reader!Above(1) + (IF rpc = "return" THEN 1 ELSE 0)
      BY <2>2 DEF Reader!FramesOnStack, Reader!top
    <3>1. RLayout /\ RTops
      BY <2>1 DEF ReaderInv, ReaderTypes
    <3> QED BY <3>1 DEF RLayout, RBottom, RPlaced, RTops
  <2> QED BY <2>3, <2>4
<1> QED BY <1>1, ReaderInvariant, WriterFrames, PTL DEF FramesOnStack
==============================================================================
