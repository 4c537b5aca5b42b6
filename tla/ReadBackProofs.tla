---------------------------- MODULE ReadBackProofs ----------------------------
(***************************************************************************)
(* What writeBinaryTable writes is what parseBinaryTable reads back: the   *)
(* reader goes through the activations that the writer went through, in    *)
(* the same order, at the bytes the writer produced on the way, until it   *)
(* is done or has gone beyond the end of a file that was cut.              *)
(***************************************************************************)
EXTENDS RoundTripProofs

-----------------------------------------------------------------------------
(* Encodings.                                                              *)

\* The operators of the two halves are the ones of the round trip.
LEMMA SameValues ==
  /\ \A x : Writer!lua_type(x) = lua_type(x) /\ Reader!lua_type(x) = lua_type(x)
  /\ Writer!Nil = Nil /\ Reader!Nil = Nil /\ Writer!True = True /\ Writer!False = False
  /\ Reader!True = True /\ Reader!False = False
  /\ \A x : /\ Writer!Num(x) = Num(x) /\ Reader!Num(x) = Num(x) /\ Writer!Str(x) = Str(x) /\ Reader!Str(x) = Str(x)
            /\ Reader!Tbl(x) = Tbl(x) /\ Writer!Int2Num(x) = Int2Num(x) /\ Reader!Int2Num(x) = Int2Num(x)
  /\ \A id \in DOMAIN Heap :
       /\ Writer!Keys(Heap[id]) = Keys(Heap[id])
       /\ Writer!countTableLength(Heap[id]) = countTableLength(Heap[id])
       /\ \A k : Writer!rawget(Heap[id], k) = rawget(Heap[id], k)
<1>1. /\ \A x : Writer!lua_type(x) = lua_type(x) /\ Reader!lua_type(x) = lua_type(x)
      /\ Writer!Nil = Nil /\ Reader!Nil = Nil /\ Writer!True = True /\ Writer!False = False
      /\ Reader!True = True /\ Reader!False = False
  BY DEF Writer!lua_type, Reader!lua_type, lua_type, Writer!Nil, Reader!Nil, Nil, Writer!True, True, Writer!False,
         False, Reader!True, Reader!False
<1>2. \A x : /\ Writer!Num(x) = Num(x) /\ Reader!Num(x) = Num(x)
             /\ Writer!Int2Num(x) = Int2Num(x) /\ Reader!Int2Num(x) = Int2Num(x)
  BY DEF Writer!Num, Num, Reader!Num, Writer!Int2Num, Int2Num, Reader!Int2Num
<1>3. \A x : Writer!Str(x) = Str(x) /\ Reader!Str(x) = Str(x) /\ Reader!Tbl(x) = Tbl(x)
  BY DEF Writer!Str, Str, Reader!Str, Reader!Tbl, Tbl
<1>4. ASSUME NEW id \in DOMAIN Heap
      PROVE  /\ Writer!Keys(Heap[id]) = Keys(Heap[id])
             /\ \A k : Writer!rawget(Heap[id], k) = rawget(Heap[id], k)
  <2>1. Writer!Keys(Heap[id]) = Keys(Heap[id])
    BY <1>1, <1>2 DEF Writer!Keys, Keys
  <2>2. \A k : Writer!ArrayIndex(Heap[id], k) = ArrayIndex(Heap[id], k)
    BY DEF Writer!ArrayIndex, ArrayIndex
  <2> QED BY <1>1, <2>1, <2>2 DEF Writer!rawget, rawget
<1>5. \A id \in DOMAIN Heap : Writer!countTableLength(Heap[id]) = countTableLength(Heap[id])
  BY <1>4, SameCardinality DEF Writer!countTableLength, countTableLength
<1> QED BY <1>1, <1>2, <1>3, <1>4, <1>5

\* Tags that are followed by nothing, and what they stand for.
Simple == {1, 2, 3, 4, 5, 12}

\* The parsers of those tags.
LEMMA SimpleTags ==
  /\ DOMAIN Reader!Constants = Simple
  /\ Reader!Constants[1] = Nil /\ Reader!Constants[2] = True /\ Reader!Constants[3] = False
  /\ Reader!Constants[4] = Num(0) /\ Reader!Constants[5] = Int2Num(1) /\ Reader!Constants[12] = Str(<<>>)
BY SameValues, SameTags DEF Reader!Constants, Simple, T, Reader!T

\* The number that is pushed for tag t and an operand written as the value o.
Decoded(t, o) == Reader!PushedNumber(t, o % Card(Reader!Operand(t)))

\* A token without an operand ...
IsSimple(x, b) == \E t \in Simple : x = Reader!Constants[t] /\ b = <<t>>

\* ... of a number ...
IsNumeral(x, b) ==
  \E t \in 6..11, o \in Int : x = Num(Decoded(t, o)) /\ b = <<t>> \o writeNumber(Reader!Operand(t), o)

\* ... or of a length or a number of a string.
Carries(b, tags, n) ==
  \E t \in tags : n < Card(Reader!Operand(t)) /\ b = <<t>> \o writeNumber(Reader!Operand(t), n)

\* Widths of the operands.
LEMMA Operands ==
  /\ \A t \in {6, 13, 17, 21} : Reader!Operand(t) = 8
  /\ \A t \in {7, 14, 18, 22} : Reader!Operand(t) = 16
  /\ \A t \in {8, 10, 15, 19, 23} : Reader!Operand(t) = 32
  /\ \A t \in {9, 11} : Reader!Operand(t) = 64
BY SameTags DEF Reader!Operand, T, Reader!T

\* The bounds of integers.
LEMMA Bounds == \A bits \in Widths : MinInt(bits) \in Int /\ MaxInt(bits) \in Int /\ MinInt(64) \in Int /\ MaxInt(64) \in Int
<1>1. ASSUME NEW bits \in Widths PROVE MinInt(bits) \in Int /\ MaxInt(bits) \in Int
  <2>1. Card(bits) \in Nat
    BY CardPositive
  <2>2. Card(bits) \div 2 \in Int
    <3> HIDE DEF Card
    <3> QED BY <2>1
  <2> QED BY <2>1, <2>2 DEF MinInt, MaxInt
<1>2. 64 \in Widths
  BY DEF Widths
<1> QED BY <1>1, <1>2

\* writeInteger
LEMMA IntegerToken ==
  ASSUME LuaIntegerBits = 64, NEW n \in MinInt(64)..MaxInt(64)
  PROVE  IsSimple(Int2Num(n), writeInteger(n)) \/ IsNumeral(Int2Num(n), writeInteger(n))
<1>1. n \in Int
  BY Bounds
<1>2. CASE n = 0
  <2>1. Int2Num(n) = Num(0) /\ writeInteger(n) = <<4>>
    BY <1>2 DEF Int2Num, writeInteger, T
  <2> QED BY <2>1, SimpleTags DEF IsSimple, Simple
<1>3. CASE n = 1
  <2>1. Int2Num(n) = Int2Num(1) /\ writeInteger(n) = <<5>>
    BY <1>3 DEF writeInteger, T
  <2> QED BY <2>1, SimpleTags DEF IsSimple, Simple
<1>4. CASE n # 0 /\ n # 1
  <2> DEFINE w == IntBits(n)
             t == IntTag[w]
  <2>1. w \in Widths /\ MinInt(w) <= n /\ n <= MaxInt(w)
    BY BitsFit
  <2>2. t \in 6..9 /\ Reader!Operand(t) = w
    <3>1. w \in {8, 16, 32, 64}
      BY <2>1 DEF Widths
    <3>2. t = (CASE w = 8 -> 6 [] w = 16 -> 7 [] w = 32 -> 8 [] w = 64 -> 9)
      BY <3>1 DEF IntTag, T
    <3> QED BY <3>1, <3>2, Operands
  <2>3. writeInteger(n) = <<t>> \o writeNumber(w, n)
    BY <1>4 DEF writeInteger
  <2> HIDE DEF w, t
  <2>4. Reader!AsSigned(w, n % Card(w)) = n
    <3>1. AsSigned(w, n % Card(w)) = n
      BY <1>1, <2>1, SignedReadBack
    <3> QED BY <3>1, SameCard DEF Reader!AsSigned, AsSigned, Reader!MaxInt, MaxInt
  <2>5. Reader!PushedInteger(n) = 2 * n
    <3>1. AsSigned(64, n % Card(64)) = n
      BY <1>1, SignedReadBack DEF Widths
    <3>2. Card(64) \in Nat \ {0}
      BY CardPositive DEF Widths
    <3>3. (n % Card(64)) % Card(64) = n % Card(64)
      <4> DEFINE r == n % Card(64)
                 m == Card(64)
      <4>1. r \in 0..(m - 1) /\ m \in Nat \ {0}
        BY <1>1, <3>2
      <4> HIDE DEF r, m
      <4>2. r = m * 0 + r
        BY <4>1
      <4>3. r % m = r
        BY <4>1, <4>2, Remainder
      <4> QED BY <4>3 DEF r, m
    <3>4. Reader!AsSigned(64, n) = n
      BY <3>1, <3>3, SameCard DEF Reader!AsSigned, AsSigned, Reader!MaxInt, MaxInt
    <3> QED BY <3>4 DEF Reader!PushedInteger
  <2>6. Decoded(t, n) = 2 * n
    <3>1. Reader!PushedNumber(t, n % Card(w)) = Reader!PushedInteger(Reader!AsSigned(w, n % Card(w)))
      BY <2>2, SameTags DEF Reader!PushedNumber, T, Reader!T
    <3> QED BY <2>2, <2>4, <2>5, <3>1 DEF Decoded
  <2>7. Int2Num(n) = Num(Decoded(t, n)) /\ t \in 6..11
    BY <2>2, <2>6 DEF Int2Num
  <2> QED BY <1>1, <2>2, <2>3, <2>7 DEF IsNumeral
<1> QED BY <1>2, <1>3, <1>4

\* writeFloat
LEMMA FloatToken ==
  ASSUME NEW n \in MinInt(64)..MaxInt(64)
  PROVE  IsNumeral(Num(n), writeFloat(n))
<1>1. n \in Int /\ 64 \in Widths
  BY Bounds DEF Widths
<1>2. Reader!Operand(11) = 64
  BY Operands
<1>3. Reader!AsSigned(64, n % Card(64)) = n
  <2>1. AsSigned(64, n % Card(64)) = n
    BY <1>1, SignedReadBack, Bounds
  <2> QED BY <2>1, SameCard DEF Reader!AsSigned, AsSigned, Reader!MaxInt, MaxInt
<1>4. Decoded(11, n) = n
  <2>1. Reader!PushedNumber(11, n % Card(64)) = Reader!AsSigned(64, n % Card(64))
    BY <1>2, SameTags DEF Reader!PushedNumber, T, Reader!T
  <2> QED BY <1>2, <1>3, <2>1 DEF Decoded
<1>5. writeFloat(n) = <<11>> \o writeNumber(Reader!Operand(11), n)
  BY <1>2 DEF writeFloat, T
<1>6. 11 \in 6..11 /\ Num(n) = Num(Decoded(11, n))
  BY <1>4
<1> QED BY <1>1, <1>5, <1>6 DEF IsNumeral

\* What WriteScalar writes for a value says what it is.
LEMMA ScalarToken ==
  ASSUME Storable, StorableValue(Writer!v), IsValue(Writer!v), NEW b \in Writer!Scalar
  PROVE  IsSimple(Writer!v, b) \/ IsNumeral(Writer!v, b)
<1> DEFINE x == Writer!v
<1>1. \/ x = Nil /\ b = <<1>>
      \/ x = True /\ b = <<2>>
      \/ x = False /\ b = <<3>>
      \/ lua_type(x) = "num" /\ b \in writeLuaNumber(x[2])
      \/ x = Str(<<>>) /\ b = <<12>>
  <2>1. Writer!T.NIL = 1 /\ Writer!T.TRUE_ = 2 /\ Writer!T.FALSE_ = 3 /\ Writer!T.STRING0 = 12
    BY SameTags DEF T
  <2>2. \A y : Writer!writeLuaNumber(y) = writeLuaNumber(y)
    BY SameLuaNumber
  <2> HIDE DEF x
  <2>3. Writer!v = x
    BY DEF x
  <2>4. b \in (CASE x = Nil -> {<<1>>}
                 [] x = True -> {<<2>>}
                 [] x = False -> {<<3>>}
                 [] lua_type(x) = "num" -> writeLuaNumber(x[2])
                 [] x = Str(<<>>) -> {<<12>>}
                 [] OTHER -> {})
    BY <2>1, <2>2, <2>3, SameValues DEF Writer!Scalar
  <2> QED BY <2>4
<1>2. ASSUME lua_type(x) = "num", b \in writeLuaNumber(x[2]) PROVE IsSimple(x, b) \/ IsNumeral(x, b)
  <2> DEFINE n == x[2]
             h == n \div 2
  <2>1. n \in Int /\ x = Num(n) /\ (IF n % 2 = 0 THEN h ELSE n) \in MinInt(64)..MaxInt(64)
    BY <1>2 DEF StorableValue, IsValue
  <2>2. CASE n % 2 = 0
    <3>1. h \in MinInt(64)..MaxInt(64) /\ n = 2 * h
      BY <2>1, <2>2
    <3>2. ~(h > MaxInt(64)) /\ ~(h < MinInt(64))
      <4> HIDE DEF h
      <4> QED BY <3>1, Bounds DEF Widths
    <3>3. b = writeInteger(h)
      <4>1. CastToInt64(h) = {h}
        <5> HIDE DEF h
        <5> QED BY <3>2 DEF CastToInt64
      <4>2. b \in {writeInteger(y) : y \in CastToInt64(h)}
        BY <1>2, <2>2 DEF writeLuaNumber
      <4> QED BY <4>1, <4>2
    <3>4. x = Int2Num(h)
      BY <2>1, <3>1 DEF Int2Num
    <3>5. LuaIntegerBits = 64
      BY DEF Storable
    <3> HIDE DEF x, h
    <3> QED BY <3>1, <3>3, <3>4, <3>5, IntegerToken
  <2>3. CASE n % 2 # 0
    <3>1. b = writeFloat(n) /\ n \in MinInt(64)..MaxInt(64)
      BY <1>2, <2>1, <2>3 DEF writeLuaNumber
    <3> HIDE DEF x, n
    <3> QED BY <2>1, <3>1, FloatToken
  <2> QED BY <2>2, <2>3
<1>3. ASSUME NEW t \in Simple, x = Reader!Constants[t], b = <<t>> PROVE IsSimple(x, b)
  BY <1>3 DEF IsSimple
<1> QED BY <1>1, <1>2, <1>3, SimpleTags DEF Simple

\* writeLength
LEMMA LengthToken ==
  ASSUME NEW tag \in {12, 16, 20}, NEW n \in Nat \ {0}, n < Card(32)
  PROVE  Carries(Writer!writeLength(tag, n), {tag + 1, tag + 2, tag + 3}, n)
<1>1. /\ Reader!Operand(tag + 1) = 8 /\ Reader!Operand(tag + 2) = 16 /\ Reader!Operand(tag + 3) = 32
  BY Operands
<1>2. Writer!writeLength(tag, n) =
        IF n < Card(8) THEN <<tag + 1>> \o writeNumber(8, n)
        ELSE IF n < Card(16) THEN <<tag + 2>> \o writeNumber(16, n)
        ELSE <<tag + 3>> \o writeNumber(32, n)
  BY SameLength DEF writeLength
<1> QED BY <1>1, <1>2 DEF Carries

-----------------------------------------------------------------------------
(* What both programs are doing: the activations of writeTable, which are  *)
(* those of _parseArray and _parseTable later on, the bytes and strings    *)
(* written so far, and the tables entered, in the order of their entry.    *)

\* The keys of a table, in the order in which they are written.
Lists(ks, id, kind) ==
  /\ ks \in [1..countTableLength(Heap[id]) -> Keys(Heap[id])]
  /\ \A i, j \in 1..countTableLength(Heap[id]) : ks[i] = ks[j] => i = j
  /\ \A k \in Keys(Heap[id]) : \E j \in 1..countTableLength(Heap[id]) : ks[j] = k
  /\ kind = "array" => \A j \in 1..countTableLength(Heap[id]) : ks[j] = Int2Num(j)

\* An activation: its table is the t-th that was entered.
Visit ==
  [t : Nat, id : DOMAIN Heap, kind : {"array", "hash"}, i : Nat, n : Nat, key : BOOLEAN, ks : Seq(Writable)]

\* The key or the value it is at.
Current(g) == IF g.key THEN g.ks[g.i] ELSE rawget(Heap[g.id], g.ks[g.i])

\* The value that the activation k - 1 was called for.
Expected(fr, k, root) == IF k > Len(fr) THEN root ELSE Current(fr[k])

Visiting(fr, k, pc, made, root) ==
  /\ fr[k].t \in 1..Len(made) /\ made[fr[k].t] = fr[k].id
  /\ fr[k].n = countTableLength(Heap[fr[k].id]) /\ Lists(fr[k].ks, fr[k].id, fr[k].kind)
  /\ fr[k].i \in 1..(fr[k].n + 1) /\ (k > 1 \/ pc # "loop" => fr[k].i <= fr[k].n)
  /\ fr[k].key => fr[k].kind = "hash" /\ (k > 1 \/ pc # "loop")
  /\ Tbl(fr[k].id) = Expected(fr, k + 1, root)

Nested(fr, pc, made, root) ==
  /\ fr \in Seq(Visit) /\ \A k \in 1..Len(fr) : Visiting(fr, k, pc, made, root)
  /\ \A k, m \in 1..Len(fr) : k < m => fr[m].t < fr[k].t

Conf(pc, fr, bytes, names, made) == [pc |-> pc, fr |-> fr, bytes |-> bytes, names |-> names, made |-> made]

Wanted(c, root) == Expected(c.fr, 1, root)

Name == WritableStrings \ {Str(<<>>)}

Sound(c, root) ==
  /\ c.pc \in {"value", "loop", "return"} /\ (c.pc = "loop" => c.fr # <<>>)
  /\ c.made \in Seq(DOMAIN Heap) /\ Nested(c.fr, c.pc, c.made, root)
  /\ c.bytes \in Seq(Byte) /\ c.names \in Seq(Name)

\* One sequence begins with the other.
Begins(s, r) == Len(s) <= Len(r) /\ \A k \in 1..Len(s) : r[k] = s[k]

\* Constants and numbers.
MScalar(c, d, root) ==
  /\ c.pc = "value"
  /\ \E b \in Seq(Byte) :
       /\ IsSimple(Wanted(c, root), b) \/ IsNumeral(Wanted(c, root), b)
       /\ d = Conf("return", c.fr, c.bytes \o b, c.names, c.made)

\* Strings, by their numbers.
MString(c, d, root) ==
  /\ c.pc = "value"
  /\ \E b \in Seq(Byte), names \in Seq(Name), k \in Nat :
       /\ k \in 1..Len(names) /\ names[k] = Wanted(c, root) /\ Begins(c.names, names)
       /\ Carries(b, {13, 14, 15}, k)
       /\ d = Conf("return", c.fr, c.bytes \o b, names, c.made)

MEmpty(c, d, root) ==
  /\ c.pc = "value"
  /\ \E id \in DOMAIN Heap :
       /\ Wanted(c, root) = Tbl(id) /\ Keys(Heap[id]) = {}
       /\ d = Conf("return", c.fr, c.bytes \o <<20>>, c.names, Append(c.made, id))

Entered(c, id, kind, ks) ==
  [t |-> Len(c.made) + 1, id |-> id, kind |-> kind, i |-> 1, n |-> countTableLength(Heap[id]), key |-> FALSE, ks |-> ks]

\* A table is entered ...
MOpen(c, d, root) ==
  /\ c.pc = "value"
  /\ \E b \in Seq(Byte), id \in DOMAIN Heap, kind \in {"array", "hash"}, ks \in Seq(Writable) :
       /\ Wanted(c, root) = Tbl(id) /\ countTableLength(Heap[id]) # 0 /\ Lists(ks, id, kind)
       /\ Carries(b, IF kind = "array" THEN {17, 18, 19} ELSE {21, 22, 23}, countTableLength(Heap[id]))
       /\ d = Conf("loop", <<Entered(c, id, kind, ks)>> \o c.fr, c.bytes \o b, c.names, Append(c.made, id))

At(g, i, key) == [t |-> g.t, id |-> g.id, kind |-> g.kind, i |-> i, n |-> g.n, key |-> key, ks |-> g.ks]

Turned(c, i, key) == <<At(c.fr[1], i, key)>> \o Tail(c.fr)

\* ... and left, and in between there are its entries.
MEntry(c, d) ==
  /\ c.pc = "loop" /\ c.fr[1].i <= c.fr[1].n
  /\ d = Conf("value", Turned(c, c.fr[1].i, c.fr[1].kind = "hash"), c.bytes, c.names, c.made)

MEnd(c, d) ==
  /\ c.pc = "loop" /\ c.fr[1].i > c.fr[1].n
  /\ d = Conf("return", Tail(c.fr), c.bytes, c.names, c.made)

MKey(c, d) ==
  /\ c.pc = "return" /\ c.fr # <<>> /\ c.fr[1].key
  /\ d = Conf("value", Turned(c, c.fr[1].i, FALSE), c.bytes, c.names, c.made)

MValue(c, d) ==
  /\ c.pc = "return" /\ c.fr # <<>> /\ ~c.fr[1].key
  /\ d = Conf("loop", Turned(c, c.fr[1].i + 1, FALSE), c.bytes, c.names, c.made)

Moves(c, d, root) ==
  \/ MScalar(c, d, root) \/ MString(c, d, root) \/ MEmpty(c, d, root) \/ MOpen(c, d, root)
  \/ MEntry(c, d) \/ MEnd(c, d) \/ MKey(c, d) \/ MValue(c, d)

\* Nothing that was written is taken back.
LEMMA BeginsLonger ==
  ASSUME NEW S, NEW s \in Seq(S), NEW r \in Seq(S)
  PROVE  /\ Begins(s, s) /\ Begins(s, s \o r)
         /\ \A q \in Seq(S) : Begins(q, s) => Begins(q, s \o r)
<1>1. /\ Len(s) \in Nat /\ Len(s) <= Len(s \o r) /\ \A k \in 1..Len(s) : (s \o r)[k] = s[k]
  BY Joined
<1>2. Begins(s, s) /\ Begins(s, s \o r)
  BY <1>1 DEF Begins
<1>3. ASSUME NEW q \in Seq(S), Begins(q, s) PROVE Begins(q, s \o r)
  <2>1. Len(q) \in Nat /\ Len(q) <= Len(s) /\ Len(s \o r) \in Nat
    BY <1>3, Joined DEF Begins
  <2>2. \A k \in 1..Len(q) : k \in 1..Len(s)
    BY <1>1, <2>1
  <2> QED BY <1>1, <1>3, <2>1, <2>2 DEF Begins
<1> QED BY <1>2, <1>3

-----------------------------------------------------------------------------
(* What the writer goes through.                                           *)

\* A table has so many keys.
LEMMA TableLength == \A id \in DOMAIN Heap : countTableLength(Heap[id]) \in Nat
BY SlotKeys, SameValues

\* What may be written.
LEMMA WritableAre ==
  \A x : x \in Writable <=> \/ \E id \in DOMAIN Heap : x \in Entries(id) \/ x \in Keys(Heap[id])
                            \/ \E c \in Callers : x = Last(c)
<1> DEFINE A == {Entries(id) \cup Keys(Heap[id]) : id \in DOMAIN Heap}
           B == {Last(c) : c \in Callers}
<1>1. Writable = (UNION A) \cup B
  BY Zenon DEF Writable
<1>2. \A x : x \in UNION A <=> \E id \in DOMAIN Heap : x \in Entries(id) \/ x \in Keys(Heap[id])
  <2> DEFINE F(id) == Entries(id) \cup Keys(Heap[id])
  <2>1. \A x : x \in UNION {F(id) : id \in DOMAIN Heap} <=> \E id \in DOMAIN Heap : x \in F(id)
    <3> HIDE DEF F
    <3> QED OBVIOUS
  <2>2. A = {F(id) : id \in DOMAIN Heap}
    BY Zenon
  <2>3. \A x, id : x \in F(id) <=> x \in Entries(id) \/ x \in Keys(Heap[id])
    OBVIOUS
  <2> HIDE DEF A, F
  <2> QED BY <2>1, <2>2, <2>3
<1>3. \A x : x \in B <=> \E c \in Callers : x = Last(c)
  OBVIOUS
<1> HIDE DEF A, B
<1> QED BY <1>1, <1>2, <1>3

\* The entries of a table may be written, and none is nil.
LEMMA EntryOf ==
  ASSUME NEW id \in DOMAIN Heap, NEW k \in Keys(Heap[id])
  PROVE  /\ k \in Writable /\ k # Nil
         /\ rawget(Heap[id], k) \in Writable /\ rawget(Heap[id], k) # Nil
<1> DEFINE t == Heap[id]
           N == {j \in 1..Len(t.arr) : t.arr[j] # Nil}
<1>1. t.arr \in Seq(Entries(id))
  BY WriterAssumption
<1>2. k \in Writable
  BY WritableAre
<1>3. Entries(id) \subseteq Writable
  BY WritableAre
<1>4. ASSUME NEW i \in N, k = Int2Num(i) PROVE k # Nil /\ rawget(t, k) \in Writable /\ rawget(t, k) # Nil
  <2>1. k = <<"num", 2 * i>> /\ i \in 1..Len(t.arr) /\ Len(t.arr) \in Nat /\ i \in Nat
    BY <1>1, <1>4 DEF Int2Num, Num
  <2>2. (2 * i) % 2 = 0 /\ (2 * i) \div 2 = i
    BY <2>1
  <2>3. ArrayIndex(t, k) = i /\ i # 0
    BY <2>1, <2>2 DEF ArrayIndex
  <2>4. rawget(t, k) = t.arr[i]
    BY <2>3 DEF rawget
  <2>5. t.arr[i] \in Entries(id)
    BY <1>1, <2>1
  <2> QED BY <1>3, <1>4, <2>1, <2>4, <2>5 DEF Nil
<1>5. ASSUME k \in DOMAIN t.hash, t.hash[k] # Nil PROVE k # Nil /\ rawget(t, k) \in Writable /\ rawget(t, k) # Nil
  <2>1. k # Nil /\ ArrayIndex(t, k) = 0
    BY <1>5, TableAssumption
  <2>2. rawget(t, k) = t.hash[k]
    BY <1>5, <2>1 DEF rawget
  <2>3. t.hash[k] \in Entries(id)
    BY <1>5 DEF Entries, Range
  <2> QED BY <1>3, <1>5, <2>1, <2>2, <2>3
<1>6. (\E i \in N : k = Int2Num(i)) \/ (k \in DOMAIN t.hash /\ t.hash[k] # Nil)
  BY DEF Keys
<1> QED BY <1>2, <1>4, <1>5, <1>6

\* What may be written is a value.
LEMMA WritableValue == \A x \in Writable : IsValue(x)
<1> SUFFICES ASSUME NEW x \in Writable PROVE IsValue(x)
  OBVIOUS
<1>1. CASE \E id \in DOMAIN Heap : x \in Entries(id)
  BY <1>1, WriterAssumption
<1>2. CASE \E id \in DOMAIN Heap : x \in Keys(Heap[id])
  <2>1. PICK id \in DOMAIN Heap : x \in Keys(Heap[id])
    BY <1>2
  <2>2. x \in Slot
    BY <2>1, SameValues DEF Slot
  <2> QED BY <2>2, SlotValue
<1>3. CASE \E c \in Callers : x = Last(c)
  <2>1. PICK c \in Callers : x = Last(c)
    BY <1>3
  <2>2. c \in Seq(Slot) /\ Len(c) \in Nat \ {0}
    BY <2>1, SlotCaller
  <2>3. x \in Slot
    BY <2>1, <2>2 DEF Last
  <2> QED BY <2>3, SlotValue
<1> QED BY <1>1, <1>2, <1>3, WritableAre

\* What an activation is at.
LEMMA CurrentEntry ==
  ASSUME NEW fr, NEW pc, NEW made, NEW root, Nested(fr, pc, made, root), NEW k \in 1..Len(fr), fr[k].i <= fr[k].n
  PROVE  /\ fr[k].ks[fr[k].i] \in Keys(Heap[fr[k].id]) /\ fr[k].id \in DOMAIN Heap
         /\ Current(fr[k]) \in Writable /\ Current(fr[k]) # Nil
<1>1. fr[k] \in Visit /\ Visiting(fr, k, pc, made, root)
  BY DEF Nested
<1>2. fr[k].id \in DOMAIN Heap /\ fr[k].i \in Nat /\ fr[k].n \in Nat
  BY <1>1 DEF Visit
<1>3. fr[k].i \in 1..countTableLength(Heap[fr[k].id])
  BY <1>1, <1>2 DEF Visiting
<1>4. fr[k].ks[fr[k].i] \in Keys(Heap[fr[k].id])
  BY <1>1, <1>3 DEF Visiting, Lists
<1> QED BY <1>2, <1>4, EntryOf DEF Current

\* What writeValue is called for may be written.
LEMMA WantedValue ==
  ASSUME NEW c, NEW root \in Writable, Sound(c, root), c.pc # "loop"
  PROVE  /\ Wanted(c, root) \in Writable /\ IsValue(Wanted(c, root))
         /\ c.fr # <<>> => Wanted(c, root) = Current(c.fr[1]) /\ Wanted(c, root) # Nil
         /\ c.fr = <<>> => Wanted(c, root) = root
<1>1. Nested(c.fr, c.pc, c.made, root) /\ c.fr \in Seq(Visit)
  BY DEF Sound, Nested
<1>2. Len(c.fr) \in Nat /\ (c.fr = <<>> <=> Len(c.fr) = 0)
  BY <1>1, EmptySeq
<1>3. CASE c.fr = <<>>
  BY <1>2, <1>3, WritableValue DEF Wanted, Expected
<1>4. CASE c.fr # <<>>
  <2>1. 1 \in 1..Len(c.fr) /\ ~(1 > Len(c.fr))
    BY <1>2, <1>4
  <2>2. c.fr[1].i <= c.fr[1].n
    BY <1>1, <2>1 DEF Nested, Visiting
  <2>3. Current(c.fr[1]) \in Writable /\ Current(c.fr[1]) # Nil
    BY <1>1, <2>1, <2>2, CurrentEntry
  <2> QED BY <1>4, <2>1, <2>3, WritableValue DEF Wanted, Expected
<1> QED BY <1>3, <1>4

\* The innermost activation goes on.
LEMMA NestedTurned ==
  ASSUME NEW c, NEW root, Sound(c, root), c.fr # <<>>,
         NEW pc2, NEW i \in Nat, NEW key \in BOOLEAN, i \in 1..(c.fr[1].n + 1), pc2 # "loop" => i <= c.fr[1].n,
         key => c.fr[1].kind = "hash" /\ pc2 # "loop"
  PROVE  /\ Nested(Turned(c, i, key), pc2, c.made, root) /\ Turned(c, i, key) # <<>>
         /\ Len(Turned(c, i, key)) = Len(c.fr) /\ Len(c.fr) \in Nat \ {0}
         /\ Turned(c, i, key)[1] = At(c.fr[1], i, key)
         /\ \A k \in 2..Len(c.fr) : Turned(c, i, key)[k] = c.fr[k]
<1> DEFINE fr == c.fr
           pc == c.pc
           made == c.made
           g == At(fr[1], i, key)
           r == <<g>> \o Tail(fr)
<1>0. Nested(fr, pc, made, root) /\ fr # <<>> /\ r = Turned(c, i, key)
  BY DEF Sound, Turned
<1>8. /\ i \in 1..(fr[1].n + 1) /\ (pc2 # "loop" => i <= fr[1].n)
      /\ (key => fr[1].kind = "hash" /\ pc2 # "loop")
  OBVIOUS
<1> HIDE DEF fr, pc, made
<1>1. fr \in Seq(Visit) /\ Len(fr) \in Nat \ {0} /\ fr[1] \in Visit
  BY <1>0, EmptySeq DEF Nested
<1>2. /\ g.t = fr[1].t /\ g.id = fr[1].id /\ g.kind = fr[1].kind /\ g.n = fr[1].n /\ g.ks = fr[1].ks
      /\ g.i = i /\ g.key = key /\ g \in Visit
  <2> DEFINE x == fr[1]
  <2>1. x.t \in Nat /\ x.id \in DOMAIN Heap /\ x.kind \in {"array", "hash"} /\ x.n \in Nat /\ x.ks \in Seq(Writable)
    BY <1>1 DEF Visit
  <2> HIDE DEF x
  <2>2. At(x, i, key) \in Visit
    BY <2>1 DEF Visit, At
  <2> QED BY <2>2 DEF x, At
<1>3. r \in Seq(Visit) /\ Len(r) = Len(fr) /\ r[1] = g /\ \A k \in 2..Len(fr) : r[k] = fr[k]
  BY <1>1, <1>2, FirstChanged
<1> HIDE DEF r, g
<1>4. \A k \in 1..Len(fr) : /\ r[k].t = fr[k].t /\ r[k].id = fr[k].id /\ r[k].n = fr[k].n /\ r[k].kind = fr[k].kind
                            /\ r[k].ks = fr[k].ks /\ Expected(r, k + 1, root) = Expected(fr, k + 1, root)
  <2> SUFFICES ASSUME NEW k \in 1..Len(fr)
               PROVE  /\ r[k].t = fr[k].t /\ r[k].id = fr[k].id /\ r[k].n = fr[k].n /\ r[k].kind = fr[k].kind
                      /\ r[k].ks = fr[k].ks /\ Expected(r, k + 1, root) = Expected(fr, k + 1, root)
    OBVIOUS
  <2>1. k = 1 \/ k \in 2..Len(fr)
    BY <1>1
  <2>2. r[k].t = fr[k].t /\ r[k].id = fr[k].id /\ r[k].n = fr[k].n /\ r[k].kind = fr[k].kind /\ r[k].ks = fr[k].ks
    <3>1. CASE k = 1
      <4>1. r[k] = g
        BY <1>3, <3>1
      <4> QED BY <1>2, <3>1, <4>1
    <3>2. CASE k \in 2..Len(fr)
      BY <1>3, <3>2
    <3> QED BY <2>1, <3>1, <3>2
  <2>3. k + 1 > Len(fr) \/ k + 1 \in 2..Len(fr)
    BY <1>1
  <2> QED BY <1>3, <2>2, <2>3 DEF Expected
<1>5. ASSUME NEW k \in 1..Len(fr) PROVE Visiting(r, k, pc2, made, root)
  <2>1. Visiting(fr, k, pc, made, root)
    BY <1>0 DEF Nested
  <2>2. CASE k = 1
    <3>1. r[k].i = i /\ r[k].key = key
      BY <1>2, <1>3, <2>2
    <3> QED BY <1>4, <1>8, <2>1, <2>2, <3>1 DEF Visiting
  <2>3. CASE k # 1
    <3>1. k \in 2..Len(fr) /\ k > 1
      BY <1>1, <2>3
    <3>2. r[k] = fr[k]
      BY <1>3, <3>1
    <3> QED BY <1>4, <2>1, <3>1, <3>2 DEF Visiting
  <2> QED BY <2>2, <2>3
<1>6. Nested(r, pc2, made, root)
  BY <1>0, <1>3, <1>4, <1>5 DEF Nested
<1>7. r # <<>>
  BY <1>1, <1>3, EmptySeq
<1> QED BY <1>0, <1>1, <1>2, <1>3, <1>6, <1>7 DEF fr, made, g

\* An activation ends.
LEMMA NestedPopped ==
  ASSUME NEW fr, NEW made, NEW root, Nested(fr, "loop", made, root), fr # <<>>
  PROVE  /\ Nested(Tail(fr), "return", made, root) /\ Len(Tail(fr)) = Len(fr) - 1 /\ Len(fr) \in Nat \ {0}
         /\ \A k \in 1..(Len(fr) - 1) : Tail(fr)[k] = fr[k + 1]
         /\ Expected(Tail(fr), 1, root) = Tbl(fr[1].id)
<1> DEFINE r == Tail(fr)
<1>1. fr \in Seq(Visit) /\ Len(fr) \in Nat \ {0} /\ fr[1] \in Visit
  BY EmptySeq DEF Nested
<1>2. r \in Seq(Visit) /\ Len(r) = Len(fr) - 1 /\ \A k \in 1..(Len(fr) - 1) : r[k] = fr[k + 1]
  BY <1>1, PoppedFirst
<1> HIDE DEF r
<1>3. ASSUME NEW k \in 1..Len(fr) PROVE Expected(r, k, root) = Expected(fr, k + 1, root)
  <2>1. (k > Len(r) /\ k + 1 > Len(fr)) \/ (~(k > Len(r)) /\ ~(k + 1 > Len(fr)) /\ k \in 1..(Len(fr) - 1))
    BY <1>1, <1>2
  <2> QED BY <1>2, <2>1 DEF Expected
<1>4. ASSUME NEW k \in 1..(Len(fr) - 1) PROVE Visiting(r, k, "return", made, root)
  <2>1. k + 1 \in 1..Len(fr) /\ k + 1 > 1
    BY <1>1
  <2>2. Visiting(fr, k + 1, "loop", made, root)
    BY <2>1 DEF Nested
  <2>3. r[k] = fr[k + 1] /\ Expected(r, k + 1, root) = Expected(fr, (k + 1) + 1, root)
    BY <1>2, <1>3, <2>1
  <2> QED BY <2>1, <2>2, <2>3 DEF Visiting
<1>5. \A k, m \in 1..Len(r) : k < m => r[m].t < r[k].t
  <2> SUFFICES ASSUME NEW k \in 1..Len(r), NEW m \in 1..Len(r), k < m PROVE r[m].t < r[k].t
    OBVIOUS
  <2>1. k + 1 \in 1..Len(fr) /\ m + 1 \in 1..Len(fr) /\ k + 1 < m + 1 /\ r[k] = fr[k + 1] /\ r[m] = fr[m + 1]
    BY <1>1, <1>2
  <2> QED BY <2>1 DEF Nested
<1>6. Nested(r, "return", made, root)
  BY <1>2, <1>4, <1>5 DEF Nested
<1>7. Expected(r, 1, root) = Tbl(fr[1].id)
  <2>1. Visiting(fr, 1, "loop", made, root) /\ 1 \in 1..Len(fr) /\ 1 + 1 = 2
    BY <1>1 DEF Nested
  <2> QED BY <1>3, <2>1 DEF Visiting
<1> QED BY <1>1, <1>2, <1>6, <1>7 DEF r

\* More tables are entered.
LEMMA NestedGrows ==
  ASSUME NEW fr, NEW pc, NEW made \in Seq(DOMAIN Heap), NEW root, Nested(fr, pc, made, root), NEW id \in DOMAIN Heap
  PROVE  Nested(fr, pc, Append(made, id), root)
<1> DEFINE m == Append(made, id)
<1>1. Len(made) \in Nat /\ Len(m) = Len(made) + 1 /\ \A t \in 1..Len(made) : m[t] = made[t]
  OBVIOUS
<1> HIDE DEF m
<1>2. ASSUME NEW k \in 1..Len(fr) PROVE Visiting(fr, k, pc, m, root)
  <2>1. Visiting(fr, k, pc, made, root)
    BY DEF Nested
  <2>2. fr[k].t \in 1..Len(made) /\ fr[k].t \in 1..Len(m) /\ m[fr[k].t] = made[fr[k].t]
    BY <1>1, <2>1 DEF Visiting
  <2> QED BY <2>1, <2>2 DEF Visiting
<1> QED BY <1>2 DEF Nested, m

\* An activation begins.
LEMMA NestedPushed ==
  ASSUME NEW c, NEW root, Sound(c, root), c.pc = "value",
         NEW id \in DOMAIN Heap, NEW kind \in {"array", "hash"}, NEW ks \in Seq(Writable), Lists(ks, id, kind),
         Tbl(id) = Wanted(c, root)
  PROVE  LET g == Entered(c, id, kind, ks)
             r == <<g>> \o c.fr
         IN  /\ Nested(r, "loop", Append(c.made, id), root) /\ r # <<>> /\ Len(r) = Len(c.fr) + 1 /\ Len(c.fr) \in Nat
             /\ r[1] = g /\ \A k \in 1..Len(c.fr) : r[k + 1] = c.fr[k]
<1> DEFINE g == Entered(c, id, kind, ks)
           fr == c.fr
           r == <<g>> \o fr
           made == Append(c.made, id)
<1>1. /\ c.made \in Seq(DOMAIN Heap) /\ fr \in Seq(Visit) /\ Len(fr) \in Nat /\ Nested(fr, "value", made, root)
      /\ Nested(fr, "value", c.made, root)
  <2>1. c.made \in Seq(DOMAIN Heap) /\ Nested(fr, "value", c.made, root)
    BY DEF Sound
  <2>2. fr \in Seq(Visit)
    BY <2>1 DEF Nested
  <2> HIDE DEF fr
  <2>3. Nested(fr, "value", made, root)
    BY <2>1, NestedGrows
  <2> QED BY <2>1, <2>2, <2>3
<1>2. Len(made) = Len(c.made) + 1 /\ made[Len(c.made) + 1] = id /\ Len(c.made) \in Nat
  BY <1>1
<1>3. countTableLength(Heap[id]) \in Nat
  BY TableLength
<1>4. /\ g.t = Len(c.made) + 1 /\ g.id = id /\ g.kind = kind /\ g.i = 1 /\ g.n = countTableLength(Heap[id])
      /\ g.key = FALSE /\ g.ks = ks
  BY DEF Entered
<1>5. g \in Visit
  BY <1>2, <1>3 DEF Entered, Visit
<1> HIDE DEF g, fr, made
<1>6. r \in Seq(Visit) /\ Len(r) = Len(fr) + 1 /\ r[1] = g /\ \A k \in 1..Len(fr) : r[k + 1] = fr[k]
  BY <1>1, <1>5, Pushed
<1> HIDE DEF r
<1>7. ASSUME NEW k \in 1..(Len(fr) + 1) PROVE Expected(r, k + 1, root) = Expected(fr, k, root)
  <2>1. (k > Len(fr) /\ k + 1 > Len(r)) \/ (~(k > Len(fr)) /\ ~(k + 1 > Len(r)) /\ k \in 1..Len(fr))
    BY <1>1, <1>6
  <2> QED BY <1>6, <2>1 DEF Expected
<1>8. ASSUME NEW k \in 1..Len(r) PROVE Visiting(r, k, "loop", made, root)
  <2>1. CASE k = 1
    <3>1. Expected(r, k + 1, root) = Tbl(id)
      BY <1>1, <1>7, <2>1 DEF Wanted, fr
    <3>2. r[k] = g /\ g.t \in 1..Len(made) /\ made[g.t] = id
      BY <1>2, <1>4, <1>6, <2>1
    <3>3. g.i \in 1..(g.n + 1) /\ ~(k > 1)
      BY <1>3, <1>4, <2>1
    <3> QED BY <1>4, <3>1, <3>2, <3>3 DEF Visiting
  <2>2. CASE k # 1
    <3>1. k - 1 \in 1..Len(fr) /\ (k - 1) + 1 = k /\ k > 1 /\ k \in 1..(Len(fr) + 1)
      BY <1>1, <1>6, <2>2
    <3>2. Visiting(fr, k - 1, "value", made, root)
      BY <1>1, <3>1 DEF Nested
    <3>3. r[k] = fr[k - 1] /\ Expected(r, k + 1, root) = Expected(fr, k, root)
      BY <1>6, <1>7, <3>1
    <3> QED BY <3>1, <3>2, <3>3 DEF Visiting
  <2> QED BY <2>1, <2>2
<1>9. \A k, m \in 1..Len(r) : k < m => r[m].t < r[k].t
  <2> SUFFICES ASSUME NEW k \in 1..Len(r), NEW m \in 1..Len(r), k < m PROVE r[m].t < r[k].t
    OBVIOUS
  <2>1. m - 1 \in 1..Len(fr) /\ (m - 1) + 1 = m /\ r[m] = fr[m - 1]
    <3>1. m - 1 \in 1..Len(fr) /\ (m - 1) + 1 = m
      BY <1>1, <1>6
    <3> QED BY <1>6, <3>1
  <2>2. CASE k = 1
    <3>1. fr[m - 1].t \in 1..Len(c.made)
      BY <1>1, <2>1 DEF Nested, Visiting
    <3> QED BY <1>2, <1>4, <1>6, <2>1, <2>2, <3>1
  <2>3. CASE k # 1
    <3>1. k - 1 \in 1..Len(fr) /\ (k - 1) + 1 = k /\ k - 1 < m - 1
      BY <1>1, <1>6, <2>3
    <3>2. r[k] = fr[k - 1]
      BY <1>6, <3>1
    <3> QED BY <1>1, <2>1, <3>1, <3>2 DEF Nested
  <2> QED BY <2>2, <2>3
<1>10. Nested(r, "loop", made, root)
  BY <1>6, <1>8, <1>9 DEF Nested
<1>11. r # <<>>
  BY <1>1, <1>6, EmptySeq
<1> QED BY <1>1, <1>6, <1>10, <1>11 DEF r, g, fr, made

\* The activations, the innermost of which has gone on.
LEMMA TurnedAt ==
  ASSUME NEW c, c.fr \in Seq(Visit), c.fr # <<>>, NEW i, NEW key
  PROVE  /\ Turned(c, i, key) # <<>> /\ Len(Turned(c, i, key)) = Len(c.fr) /\ Len(c.fr) \in Nat \ {0}
         /\ Turned(c, i, key)[1] = At(c.fr[1], i, key)
         /\ \A k \in 2..Len(c.fr) : Turned(c, i, key)[k] = c.fr[k]
<1> DEFINE g == At(c.fr[1], i, key)
           S == Visit \cup {g}
           r == <<g>> \o Tail(c.fr)
<1>1. c.fr \in Seq(S) /\ Len(c.fr) \in Nat \ {0} /\ g \in S
  BY EmptySeq
<1> HIDE DEF S, g
<1>2. r \in Seq(S) /\ Len(r) = Len(c.fr) /\ r[1] = g /\ \A k \in 2..Len(c.fr) : r[k] = c.fr[k]
  BY <1>1, FirstChanged
<1>3. r = Turned(c, i, key)
  BY DEF Turned, g
<1> HIDE DEF r
<1>4. r # <<>>
  BY <1>1, <1>2, EmptySeq
<1> QED BY <1>1, <1>2, <1>3, <1>4 DEF g

\* The fields of a configuration.
LEMMA ConfFields ==
  \A pc, fr, bytes, names, made :
    LET c == Conf(pc, fr, bytes, names, made)
    IN  c.pc = pc /\ c.fr = fr /\ c.bytes = bytes /\ c.names = names /\ c.made = made
BY DEF Conf

\* Every move leads to what may be met.
LEMMA MovesSound ==
  ASSUME NEW c, NEW d, NEW root, Sound(c, root), Moves(c, d, root)
  PROVE  Sound(d, root) /\ Begins(c.bytes, d.bytes) /\ Begins(c.names, d.names)
<1>1. /\ c.made \in Seq(DOMAIN Heap) /\ Nested(c.fr, c.pc, c.made, root) /\ c.fr \in Seq(Visit)
      /\ c.bytes \in Seq(Byte) /\ c.names \in Seq(Name) /\ (c.pc = "loop" => c.fr # <<>>)
  BY DEF Sound, Nested
<1>2. Begins(c.bytes, c.bytes) /\ Begins(c.names, c.names)
  BY <1>1, BeginsLonger
<1>3. ASSUME NEW b \in Seq(Byte) PROVE c.bytes \o b \in Seq(Byte) /\ Begins(c.bytes, c.bytes \o b)
  BY <1>1, BeginsLonger, ConcatProperties
<1>4. ASSUME NEW made, Nested(c.fr, "value", made, root) PROVE Nested(c.fr, "return", made, root)
  BY <1>4 DEF Nested, Visiting
<1>15. ASSUME NEW pc2 \in {"value", "loop", "return"}, NEW fr2, NEW bytes2 \in Seq(Byte), NEW names2 \in Seq(Name),
              NEW made2 \in Seq(DOMAIN Heap), Nested(fr2, pc2, made2, root), pc2 = "loop" => fr2 # <<>>,
              Begins(c.bytes, bytes2), Begins(c.names, names2), d = Conf(pc2, fr2, bytes2, names2, made2)
       PROVE  Sound(d, root) /\ Begins(c.bytes, d.bytes) /\ Begins(c.names, d.names)
  BY <1>15, ConfFields DEF Sound
<1>5. CASE MScalar(c, d, root)
  <2>1. PICK b \in Seq(Byte) : d = Conf("return", c.fr, c.bytes \o b, c.names, c.made)
    BY <1>5 DEF MScalar
  <2>2. c.pc = "value"
    BY <1>5 DEF MScalar
  <2>3. Nested(c.fr, "return", c.made, root)
    BY <1>1, <1>4, <2>2
  <2> QED BY <1>1, <1>2, <1>3, <1>15, <2>1, <2>3
<1>6. CASE MString(c, d, root)
  <2>1. PICK b \in Seq(Byte), names \in Seq(Name) :
          Begins(c.names, names) /\ d = Conf("return", c.fr, c.bytes \o b, names, c.made)
    BY <1>6 DEF MString
  <2>2. c.pc = "value"
    BY <1>6 DEF MString
  <2>3. Nested(c.fr, "return", c.made, root)
    BY <1>1, <1>4, <2>2
  <2> QED BY <1>1, <1>3, <1>15, <2>1, <2>3
<1>7. CASE MEmpty(c, d, root)
  <2>1. PICK id \in DOMAIN Heap : d = Conf("return", c.fr, c.bytes \o <<20>>, c.names, Append(c.made, id))
    BY <1>7 DEF MEmpty
  <2>2. c.pc = "value"
    BY <1>7 DEF MEmpty
  <2>3. Nested(c.fr, "return", Append(c.made, id), root) /\ Append(c.made, id) \in Seq(DOMAIN Heap)
    BY <1>1, <1>4, <2>2, NestedGrows
  <2>4. <<20>> \in Seq(Byte)
    <3>1. 20 \in Byte
      BY WireAssumption DEF Byte
    <3> QED BY <3>1
  <2> QED BY <1>1, <1>2, <1>3, <1>15, <2>1, <2>3, <2>4
<1>8. CASE MOpen(c, d, root)
  <2>1. PICK b \in Seq(Byte), id \in DOMAIN Heap, kind \in {"array", "hash"}, ks \in Seq(Writable) :
          /\ Wanted(c, root) = Tbl(id) /\ Lists(ks, id, kind)
          /\ d = Conf("loop", <<Entered(c, id, kind, ks)>> \o c.fr, c.bytes \o b, c.names, Append(c.made, id))
    BY <1>8 DEF MOpen
  <2>2. c.pc = "value"
    BY <1>8 DEF MOpen
  <2> DEFINE r == <<Entered(c, id, kind, ks)>> \o c.fr
  <2>3. Nested(r, "loop", Append(c.made, id), root) /\ r # <<>> /\ Append(c.made, id) \in Seq(DOMAIN Heap)
    BY <1>1, <2>1, <2>2, NestedPushed
  <2> HIDE DEF r
  <2>4. d = Conf("loop", r, c.bytes \o b, c.names, Append(c.made, id))
    BY <2>1 DEF r
  <2> QED BY <1>1, <1>2, <1>3, <1>15, <2>3, <2>4
<1>9. ASSUME NEW pc2 \in {"value", "loop"}, NEW i \in Nat, NEW key \in BOOLEAN, c.fr # <<>>,
             d = Conf(pc2, Turned(c, i, key), c.bytes, c.names, c.made),
             i \in 1..(c.fr[1].n + 1), pc2 # "loop" => i <= c.fr[1].n, key => c.fr[1].kind = "hash" /\ pc2 # "loop"
      PROVE  Sound(d, root) /\ Begins(c.bytes, d.bytes) /\ Begins(c.names, d.names)
  <2>1. Nested(Turned(c, i, key), pc2, c.made, root) /\ Turned(c, i, key) # <<>>
    BY <1>9, NestedTurned
  <2> QED BY <1>1, <1>2, <1>9, <1>15, <2>1
<1>10. ASSUME c.fr # <<>>
       PROVE  /\ c.fr[1].i \in Nat /\ c.fr[1].n \in Nat /\ c.fr[1].i \in 1..(c.fr[1].n + 1)
              /\ (c.pc # "loop" => c.fr[1].i <= c.fr[1].n)
              /\ c.fr[1].kind \in {"array", "hash"}
  <2>1. 1 \in 1..Len(c.fr) /\ c.fr[1] \in Visit
    BY <1>1, <1>10, EmptySeq
  <2>2. Visiting(c.fr, 1, c.pc, c.made, root)
    BY <1>1, <2>1 DEF Nested
  <2> QED BY <2>1, <2>2 DEF Visit, Visiting
<1>11. CASE MEntry(c, d)
  <2>1. /\ c.pc = "loop" /\ c.fr[1].i <= c.fr[1].n
        /\ d = Conf("value", Turned(c, c.fr[1].i, c.fr[1].kind = "hash"), c.bytes, c.names, c.made)
    BY <1>11 DEF MEntry
  <2> DEFINE key == c.fr[1].kind = "hash"
  <2>2. key \in BOOLEAN /\ (key => c.fr[1].kind = "hash")
    OBVIOUS
  <2> HIDE DEF key
  <2>3. d = Conf("value", Turned(c, c.fr[1].i, key), c.bytes, c.names, c.made)
    BY <2>1 DEF key
  <2> QED BY <1>1, <1>9, <1>10, <2>1, <2>2, <2>3
<1>12. CASE MEnd(c, d)
  <2>1. c.pc = "loop" /\ d = Conf("return", Tail(c.fr), c.bytes, c.names, c.made)
    BY <1>12 DEF MEnd
  <2>2. Nested(Tail(c.fr), "return", c.made, root)
    BY <1>1, <2>1, NestedPopped
  <2> QED BY <1>1, <1>2, <2>1, <2>2, ConfFields DEF Sound
<1>13. CASE MKey(c, d)
  <2>1. /\ c.pc = "return" /\ c.fr # <<>>
        /\ d = Conf("value", Turned(c, c.fr[1].i, FALSE), c.bytes, c.names, c.made)
    BY <1>13 DEF MKey
  <2> QED BY <1>9, <1>10, <2>1
<1>14. CASE MValue(c, d)
  <2>1. /\ c.pc = "return" /\ c.fr # <<>>
        /\ d = Conf("loop", Turned(c, c.fr[1].i + 1, FALSE), c.bytes, c.names, c.made)
    BY <1>14 DEF MValue
  <2>2. c.fr[1].i + 1 \in Nat /\ c.fr[1].i + 1 \in 1..(c.fr[1].n + 1)
    BY <1>10, <2>1
  <2> QED BY <1>9, <2>1, <2>2
<1> QED BY <1>5, <1>6, <1>7, <1>8, <1>11, <1>12, <1>13, <1>14 DEF Moves

\* A run from the call of writeValue to where the writer is.
IsTrace(tr, m, root) ==
  /\ m \in Nat \ {0} /\ tr[1] = Conf("value", <<>>, <<>>, <<>>, <<>>)
  /\ \A j \in 1..m : Sound(tr[j], root) /\ Begins(tr[j].bytes, tr[m].bytes) /\ Begins(tr[j].names, tr[m].names)
  /\ \A j \in 1..(m - 1) : Moves(tr[j], tr[j + 1], root)

\* A sequence that continues one continues what that one continues.
LEMMA BeginsOn ==
  ASSUME NEW S, NEW s \in Seq(S), NEW r \in Seq(S), NEW q \in Seq(S), Begins(s, r), Begins(r, q)
  PROVE  Begins(s, q)
<1>1. Len(s) \in Nat /\ Len(r) \in Nat /\ Len(q) \in Nat /\ Len(s) <= Len(r) /\ Len(r) <= Len(q)
  BY DEF Begins
<1>2. \A k \in 1..Len(s) : k \in 1..Len(r)
  BY <1>1
<1> QED BY <1>1, <1>2 DEF Begins

\* At first.
LEMMA TraceBegins ==
  ASSUME NEW root
  PROVE  IsTrace([j \in 1..1 |-> Conf("value", <<>>, <<>>, <<>>, <<>>)], 1, root)
<1> DEFINE c == Conf("value", <<>>, <<>>, <<>>, <<>>)
           tr == [j \in 1..1 |-> c]
<1>1. c.pc = "value" /\ c.fr = <<>> /\ c.bytes = <<>> /\ c.names = <<>> /\ c.made = <<>>
  BY ConfFields
<1>2. <<>> \in Seq(Visit) /\ <<>> \in Seq(Byte) /\ <<>> \in Seq(Name) /\ <<>> \in Seq(DOMAIN Heap)
  OBVIOUS
<1> HIDE DEF c
<1>3. Nested(<<>>, "value", <<>>, root)
  BY <1>2 DEF Nested
<1>4. Sound(c, root)
  BY <1>1, <1>2, <1>3 DEF Sound
<1>5. Begins(c.bytes, c.bytes) /\ Begins(c.names, c.names)
  BY <1>1, <1>2, BeginsLonger
<1>6. tr[1] = c /\ \A j \in 1..1 : tr[j] = c
  OBVIOUS
<1> HIDE DEF tr
<1>7. IsTrace(tr, 1, root)
  BY <1>4, <1>5, <1>6 DEF IsTrace, c
<1> QED BY <1>7 DEF tr, c

\* One move more.
LEMMA TraceGoesOn ==
  ASSUME NEW tr, NEW m, NEW root, IsTrace(tr, m, root), NEW d, Moves(tr[m], d, root)
  PROVE  \E tr2 : IsTrace(tr2, m + 1, root) /\ tr2[m + 1] = d /\ Sound(d, root)
<1> DEFINE tr2 == [j \in 1..(m + 1) |-> IF j = m + 1 THEN d ELSE tr[j]]
<1>1. m \in Nat \ {0} /\ m + 1 \in Nat \ {0}
  BY DEF IsTrace
<1>2. tr2[m + 1] = d /\ \A j \in 1..m : tr2[j] = tr[j]
  BY <1>1
<1> HIDE DEF tr2
<1>3. /\ \A j \in 1..m : Sound(tr[j], root) /\ Begins(tr[j].bytes, tr[m].bytes) /\ Begins(tr[j].names, tr[m].names)
      /\ Sound(tr[m], root)
  BY <1>1 DEF IsTrace
<1>4. Sound(d, root) /\ Begins(tr[m].bytes, d.bytes) /\ Begins(tr[m].names, d.names)
  BY <1>3, MovesSound
<1>5. ASSUME NEW j \in 1..(m + 1)
      PROVE  Sound(tr2[j], root) /\ Begins(tr2[j].bytes, tr2[m + 1].bytes) /\ Begins(tr2[j].names, tr2[m + 1].names)
  <2>1. CASE j = m + 1
    <3>1. Begins(d.bytes, d.bytes) /\ Begins(d.names, d.names)
      BY <1>4, BeginsLonger DEF Sound
    <3> QED BY <1>2, <1>4, <2>1, <3>1
  <2>2. CASE j # m + 1
    <3>1. j \in 1..m /\ tr2[j] = tr[j]
      BY <1>1, <1>2, <2>2
    <3>2. /\ tr[j].bytes \in Seq(Byte) /\ tr[m].bytes \in Seq(Byte) /\ d.bytes \in Seq(Byte)
          /\ tr[j].names \in Seq(Name) /\ tr[m].names \in Seq(Name) /\ d.names \in Seq(Name)
      BY <1>3, <1>4, <3>1 DEF Sound
    <3>3. Begins(tr[j].bytes, d.bytes) /\ Begins(tr[j].names, d.names)
      BY <1>3, <1>4, <3>1, <3>2, BeginsOn
    <3> QED BY <1>2, <1>3, <3>1, <3>3
  <2> QED BY <2>1, <2>2
<1>6. ASSUME NEW j \in 1..m PROVE Moves(tr2[j], tr2[j + 1], root)
  <2>1. CASE j = m
    BY <1>1, <1>2, <2>1
  <2>2. CASE j # m
    <3>1. j \in 1..(m - 1) /\ j + 1 \in 1..m
      BY <1>1, <2>2
    <3> QED BY <1>2, <3>1 DEF IsTrace
  <2> QED BY <2>1, <2>2
<1>7. IsTrace(tr2, m + 1, root)
  <2>1. (m + 1) - 1 = m /\ 1 \in 1..m
    BY <1>1
  <2> QED BY <1>1, <1>2, <1>5, <1>6, <2>1 DEF IsTrace
<1> QED BY <1>2, <1>4, <1>7

-----------------------------------------------------------------------------
(* The writer is where its run has led it.                                 *)

\* Where writeTable has left the array of keys of a table at a stack index, n values of the
\* caller being below.
KeysSlot(n, w) == IF w.index = n THEN n + 3 ELSE w.index + 1

\* An activation of writeTable, and what it finds on the stack.
Mirrors(stack, n, w, g) ==
  /\ w.kind = g.kind /\ w.i = g.i /\ w.n = g.n /\ w.key = g.key
  /\ stack[w.index] = Tbl(g.id) /\ (w.kind = "hash" => stack[KeysSlot(n, w)] = Writer!KeyArray(g.ks))

WriterAt(c, root) ==
  /\ wpc = c.pc /\ out = c.bytes /\ wstrings = c.names /\ root = Last(caller)
  /\ Len(wframes) = Len(c.fr) /\ \A k \in 1..Len(wframes) : Mirrors(wL, Len(caller), wframes[k], c.fr[k])
  /\ wframes # <<>> /\ wpc \in {"value", "return"} => wL[Len(wL)] = Wanted(c, root)

\* What an activation uses lies below what the activations it calls use.
LEMMA Slots ==
  ASSUME WriterTypes, Layout, NEW k \in 1..Len(wframes)
  PROVE  /\ wframes[k].index \in 1..(Writer!Above(1) - 1)
         /\ wframes[k].kind = "hash" => /\ KeysSlot(Len(caller), wframes[k]) = Writer!Above(k) - 1
                                        /\ KeysSlot(Len(caller), wframes[k]) \in 1..(Writer!Above(1) - 1)
         /\ k > 1 => /\ wframes[k].index \in 1..(Writer!Above(2) - 1)
                     /\ wframes[k].kind = "hash" => KeysSlot(Len(caller), wframes[k]) \in 1..(Writer!Above(2) - 1)
<1> DEFINE n == Len(wframes)
           m == Len(caller)
<1>1. /\ n \in Nat /\ m \in Nat /\ m >= 1
      /\ \A j \in 1..(n + 1) : /\ Writer!Above(j) \in Int /\ Writer!Above(j) <= Writer!Above(1)
                               /\ Writer!Above(j) >= m + 3
  BY Places DEF Layout, Bottom
<1>2. /\ wframes[k].index = IF k = n THEN m ELSE Writer!Above(k + 1)
      /\ wframes[k].index \in 1..(Writer!Above(1) - 1)
      /\ Writer!Above(k) = (IF k = n THEN m + 2 ELSE Writer!Above(k + 1))
                              + (IF wframes[k].kind = "hash" THEN 2 ELSE 1)
      /\ Writer!Above(k) - 1 \in 1..(Writer!Above(1) - 1)
  BY Places DEF Layout, Placed
<1> HIDE DEF n, m
<1>3. Writer!Above(k) \in Int /\ (k # n => Writer!Above(k + 1) \in Int /\ Writer!Above(k + 1) >= m + 3)
  <2>1. k \in 1..(n + 1) /\ (k # n => k + 1 \in 1..(n + 1))
    BY <1>1 DEF n
  <2> QED BY <1>1, <2>1
<1>4. wframes[k].kind = "hash" => KeysSlot(m, wframes[k]) = Writer!Above(k) - 1
  <2>1. CASE k = n
    BY <1>1, <1>2, <1>3, <2>1 DEF KeysSlot
  <2>2. CASE k # n
    BY <1>1, <1>2, <1>3, <2>2 DEF KeysSlot
  <2> QED BY <2>1, <2>2
<1>5. ASSUME k > 1
      PROVE  /\ wframes[k].index \in 1..(Writer!Above(2) - 1)
             /\ wframes[k].kind = "hash" => KeysSlot(m, wframes[k]) \in 1..(Writer!Above(2) - 1)
  <2>1. 2 \in 1..(n + 1) /\ Writer!Above(2) \in Int /\ Writer!Above(k) <= Writer!Above(2)
    <3>1. 2 \in 1..(n + 1) /\ k \in 1..(n + 1) /\ (k = 2 \/ 2 < k)
      BY <1>1, <1>5 DEF n
    <3>2. k = 2 \/ Writer!Above(k) <= Writer!Above(2)
      BY <3>1 DEF Layout, Descending, n
    <3> QED BY <1>1, <3>1, <3>2
  <2>2. wframes[k].index + 1 <= Writer!Above(k)
    <3>1. CASE k = n
      BY <1>1, <1>2, <1>3, <3>1
    <3>2. CASE k # n
      BY <1>1, <1>2, <1>3, <3>2
    <3> QED BY <3>1, <3>2
  <2>3. wframes[k].index \in Int /\ wframes[k].index >= 1
    BY <1>2
  <2> QED BY <1>1, <1>2, <1>3, <1>4, <2>1, <2>2, <2>3
<1> QED BY <1>2, <1>4, <1>5 DEF n, m

\* What the activations use is where it was.
LEMMA MirrorsKept ==
  ASSUME WriterTypes, Layout, caller' = caller, NEW k \in 1..Len(wframes),
         \/ \A p \in 1..(Writer!Above(1) - 1) : wL'[p] = wL[p]
         \/ k > 1 /\ \A p \in 1..(Writer!Above(2) - 1) : wL'[p] = wL[p]
  PROVE  \A g, w, h : /\ Mirrors(wL, Len(caller), wframes[k], g)
                      /\ w.index = wframes[k].index /\ w.kind = wframes[k].kind
                      /\ h.id = g.id /\ h.ks = g.ks /\ h.kind = g.kind
                      /\ w.i = h.i /\ w.n = h.n /\ w.key = h.key
                      => Mirrors(wL', Len(caller'), w, h)
<1>1. /\ wL'[wframes[k].index] = wL[wframes[k].index]
      /\ wframes[k].kind = "hash" => wL'[KeysSlot(Len(caller), wframes[k])] = wL[KeysSlot(Len(caller), wframes[k])]
  BY Slots
<1> QED BY <1>1 DEF Mirrors, KeysSlot

\* The argument of writeValue is what is wanted.
LEMMA ArgumentWanted ==
  ASSUME StackInv, wpc = "value", NEW c, NEW root \in Writable, Sound(c, root), WriterAt(c, root)
  PROVE  /\ Running /\ Writer!v = Wanted(c, root) /\ Writer!v \in Writable /\ IsValue(Writer!v) /\ c.pc = "value"
         /\ wL[index] = Writer!v
<1>1. Running
  BY DEF Running, WriterRuns
<1>2. /\ WriterTypes /\ Layout /\ Tops /\ Len(caller) \in Nat /\ Len(caller) >= 1 /\ (wframes = <<>> <=> Len(wframes) = 0)
  BY <1>1, WhileRunning
<1>3. c.pc = "value"
  BY DEF WriterAt
<1>4. c.fr = <<>> <=> Len(wframes) = 0
  <2>1. c.fr \in Seq(Visit)
    BY DEF Sound, Nested
  <2> QED BY <2>1, EmptySeq DEF WriterAt
<1>5. wL[index] = Wanted(c, root)
  <2>1. CASE wframes = <<>>
    <3>1. index = Len(caller) /\ wL[index] = caller[Len(caller)]
      BY <1>2, <2>1 DEF Tops, Layout, Bottom
    <3>2. Wanted(c, root) = root
      BY <1>2, <1>3, <1>4, <2>1, WantedValue
    <3> QED BY <3>1, <3>2 DEF WriterAt, Last
  <2>2. CASE wframes # <<>>
    BY <1>2, <2>2 DEF Tops, WriterAt
  <2> QED BY <2>1, <2>2
<1>6. Wanted(c, root) \in Writable /\ IsValue(Wanted(c, root))
  BY <1>3, WantedValue
<1> QED BY <1>1, <1>3, <1>5, <1>6 DEF Writer!v

\* writeValue returns to where it was called.
LEMMA ValueWritten ==
  ASSUME StackInv, wpc = "value", wpc' = "return", UNCHANGED <<caller, wL, wframes>>,
         NEW c, NEW root \in Writable, Sound(c, root), WriterAt(c, root),
         NEW bytes, NEW names, NEW made, out' = bytes, wstrings' = names
  PROVE  WriterAt(Conf("return", c.fr, bytes, names, made), root)'
<1> DEFINE d == Conf("return", c.fr, bytes, names, made)
<1>1. d.pc = "return" /\ d.fr = c.fr /\ d.bytes = bytes /\ d.names = names
  BY ConfFields
<1>2. Wanted(d, root) = Wanted(c, root)
  BY <1>1 DEF Wanted
<1> HIDE DEF d
<1>3. WriterAt(d, root)'
  BY <1>1, <1>2 DEF WriterAt
<1> QED BY <1>3 DEF d

\* A number or a constant is written.
LEMMA ScalarMoves ==
  ASSUME StackInv, Storable, Writer!WriteScalar, NEW c, NEW root \in Writable, Sound(c, root), WriterAt(c, root)
  PROVE  \E d : Moves(c, d, root) /\ WriterAt(d, root)'
<1>1. /\ wpc = "value" /\ wpc' = "return" /\ UNCHANGED <<caller, wL, wframes, wstrings>>
      /\ \E b \in Writer!Scalar : out' = out \o b
  BY DEF Writer!WriteScalar, Writer!strTable
<1>2. PICK b \in Writer!Scalar : out' = out \o b
  BY <1>1
<1>3. /\ Writer!v = Wanted(c, root) /\ Writer!v \in Writable /\ IsValue(Writer!v) /\ c.pc = "value"
  BY <1>1, ArgumentWanted
<1>4. b \in Seq(Byte)
  BY <1>3, ScalarBytes
<1>5. StorableValue(Writer!v)
  BY <1>3 DEF Storable
<1>6. IsSimple(Writer!v, b) \/ IsNumeral(Writer!v, b)
  BY <1>3, <1>5, ScalarToken
<1> DEFINE bytes == c.bytes \o b
           d == Conf("return", c.fr, bytes, c.names, c.made)
<1>7. out' = bytes /\ wstrings' = c.names
  BY <1>1, <1>2 DEF WriterAt
<1> HIDE DEF bytes
<1>8. WriterAt(d, root)'
  BY <1>1, <1>7, ValueWritten
<1>9. MScalar(c, d, root)
  BY <1>3, <1>4, <1>6 DEF MScalar, bytes
<1> QED BY <1>8, <1>9 DEF Moves

\* As many as they say.
LEMMA FirstNumbers ==
  ASSUME NEW n \in Nat
  PROVE  IsFiniteSet(1..n) /\ Cardinality(1..n) = n
<1>1. 1 \in Int /\ n \in Int
  OBVIOUS
<1>2. IsFiniteSet(1..n) /\ Cardinality(1..n) = (IF 1 > n THEN 0 ELSE n - 1 + 1)
  BY ONLY <1>1, FS_Interval, Zenon
<1> DEFINE m == Cardinality(1..n)
<1> HIDE DEF m
<1>3. m = (IF 1 > n THEN 0 ELSE n - 1 + 1)
  BY <1>2 DEF m
<1>4. m = n
  BY <1>3
<1> QED BY <1>2, <1>4 DEF m

\* There are not more strings than the format can count.
LEMMA FewNames ==
  ASSUME Storable, NEW names \in Seq(Name), \A i, j \in 1..Len(names) : names[i] = names[j] => i = j
  PROVE  Len(names) < Card(32) /\ Len(names) <= Cardinality(WritableStrings)
<1> DEFINE n == Len(names)
           S == 1..n
           f == [i \in S |-> names[i]]
<1>1. n \in Nat /\ IsFiniteSet(WritableStrings) /\ Cardinality(WritableStrings) < Card(32)
  BY DEF Storable, TStringPoolLength
<1>2. IsFiniteSet(S) /\ Cardinality(S) = n
  BY <1>1, FirstNumbers
<1>3. f \in Injection(S, WritableStrings)
  <2>1. \A i \in S : names[i] \in WritableStrings
    BY DEF Name
  <2> QED BY <2>1 DEF Injection, IsInjective
<1> HIDE DEF f, S, n
<1>4. Cardinality(S) <= Cardinality(WritableStrings)
  BY <1>1, <1>3, FS_Injection
<1>5. Cardinality(WritableStrings) \in Nat
  BY <1>1, FS_CardinalityType
<1>6. Card(32) \in Nat
  BY CardPositive DEF Widths
<1> HIDE DEF Card
<1> QED BY <1>1, <1>2, <1>4, <1>5, <1>6 DEF n

\* A string is written by its number.
LEMMA StringMoves ==
  ASSUME StackInv, Storable, Interned, Interned', Writer!WriteString,
         NEW c, NEW root \in Writable, Sound(c, root), WriterAt(c, root)
  PROVE  \E d : Moves(c, d, root) /\ WriterAt(d, root)'
<1> DEFINE x == Writer!v
<1>1. /\ wpc = "value" /\ wpc' = "return" /\ UNCHANGED <<caller, wL, wframes>>
      /\ Writer!lua_type(x) = "str" /\ x # Writer!Str(<<>>)
      /\ \/ out' = out \o Writer!writeLength(12, indexOf[x]) /\ wstrings' = wstrings /\ x \in DOMAIN indexOf
         \/ out' = out \o Writer!writeLength(12, wsize + 1) /\ wstrings' = Append(wstrings, x)
  BY SameTags DEF Writer!WriteString, Writer!strTable, Writer!Known, T
<1>2. x = Wanted(c, root) /\ x \in Writable /\ c.pc = "value"
  BY <1>1, ArgumentWanted
<1>3. x \in Name
  BY <1>1, <1>2, SameValues DEF Name, WritableStrings
<1> HIDE DEF x
<1>4. /\ c.names \in Seq(Name) /\ wstrings = c.names /\ out = c.bytes /\ wsize = Len(wstrings) /\ Len(wstrings) \in Nat
      /\ \A s \in DOMAIN indexOf : indexOf[s] \in 1..wsize /\ wstrings[indexOf[s]] = s
  BY DEF Sound, WriterAt, Interned, Writer!Interned
<1>5. PICK names, k : /\ wstrings' = names /\ names \in Seq(Name) /\ k \in 1..Len(names) /\ names[k] = x
                      /\ Begins(c.names, names) /\ out' = out \o Writer!writeLength(12, k)
  <2>1. CASE out' = out \o Writer!writeLength(12, indexOf[x]) /\ wstrings' = wstrings /\ x \in DOMAIN indexOf
    <3>1. Begins(c.names, c.names)
      BY <1>4, BeginsLonger
    <3> QED BY <1>4, <2>1, <3>1
  <2>2. CASE out' = out \o Writer!writeLength(12, wsize + 1) /\ wstrings' = Append(wstrings, x)
    <3> DEFINE names == Append(wstrings, x)
    <3>1. /\ names \in Seq(Name) /\ Len(names) = Len(wstrings) + 1 /\ names[Len(wstrings) + 1] = x
          /\ \A j \in 1..Len(wstrings) : names[j] = wstrings[j]
      BY <1>3, <1>4, AppendProperties
    <3> HIDE DEF names
    <3>2. Begins(c.names, names)
      BY <1>4, <3>1 DEF Begins
    <3>3. wsize + 1 \in 1..Len(names)
      BY <1>4, <3>1
    <3>4. wstrings' = names
      BY <2>2 DEF names
    <3> QED BY <1>4, <2>2, <3>1, <3>2, <3>3, <3>4
  <2> QED BY <1>1, <2>1, <2>2
<1>6. k \in Nat \ {0} /\ k < Card(32)
  <2>1. \A i, j \in 1..Len(names) : names[i] = names[j] => i = j
    <3>1. \A i, j \in DOMAIN wstrings' : wstrings'[i] = wstrings'[j] => i = j
      BY DEF Interned, Writer!Interned, Writer!IsInjective
    <3> QED BY <1>5, <3>1
  <2>2. Len(names) < Card(32) /\ Len(names) \in Nat
    BY <1>5, <2>1, FewNames
  <2>3. Card(32) \in Nat
    BY CardPositive DEF Widths
  <2> HIDE DEF Card
  <2> QED BY <1>5, <2>2, <2>3
<1> DEFINE b == Writer!writeLength(12, k)
           bytes == c.bytes \o b
           d == Conf("return", c.fr, bytes, names, c.made)
<1>7. b \in Seq(Byte)
  BY <1>6, SizeBytes DEF T
<1>8. Carries(b, {13, 14, 15}, k)
  <2>1. Carries(Writer!writeLength(12, k), {12 + 1, 12 + 2, 12 + 3}, k)
    BY <1>6, LengthToken
  <2> QED BY <2>1
<1>9. out' = bytes
  BY <1>4, <1>5
<1> HIDE DEF b
<1>10. MString(c, d, root)
  BY <1>2, <1>5, <1>6, <1>7, <1>8 DEF MString
<1> HIDE DEF bytes
<1>11. WriterAt(d, root)'
  BY <1>1, <1>5, <1>9, ValueWritten
<1> QED BY <1>10, <1>11 DEF Moves

\* The keys in the order in which getSortedTableKeys puts them.
LEMMA KeysListed ==
  ASSUME NEW id \in DOMAIN Heap, NEW s \in Writer!Arrays(Writer!Keys(Heap[id]))
  PROVE  Lists(s, id, "hash") /\ s \in Seq(Writable)
<1> DEFINE K == Keys(Heap[id])
           n == countTableLength(Heap[id])
<1>1. IsFiniteSet(K) /\ n = Cardinality(K) /\ n \in Nat
  BY KeysFinite, SameValues, TableLength DEF countTableLength
<1>2. \A k \in K : k \in Writable
  BY EntryOf
<1>3. s \in [1..n -> K] /\ \A i, j \in 1..n : s[i] = s[j] => i = j
  BY <1>1, SameValues, SameCardinality DEF Writer!Arrays, Writer!Injection, Writer!IsInjective
<1> HIDE DEF K, n
<1>4. s \in Injection(1..n, K)
  BY <1>3 DEF Injection, IsInjective
<1>5. Cardinality(1..n) = Cardinality(K)
  BY <1>1, FirstNumbers
<1>6. s \in Surjection(1..n, K)
  BY <1>1, <1>4, <1>5, FS_Injection
<1>7. \A k \in K : \E j \in 1..n : s[j] = k
  BY <1>6 DEF Surjection
<1>8. Lists(s, id, "hash")
  BY <1>3, <1>7 DEF Lists, K, n
<1>9. s \in Seq(Writable)
  BY <1>1, <1>2, <1>3
<1> QED BY <1>8, <1>9

\* The keys of a table that is taken for an array.
LEMMA NumbersListed ==
  ASSUME NEW id \in DOMAIN Heap, Keys(Heap[id]) = {Int2Num(i) : i \in 1..countTableLength(Heap[id])}
  PROVE  \E ks \in Seq(Writable) : Lists(ks, id, "array")
<1> DEFINE K == Keys(Heap[id])
           n == countTableLength(Heap[id])
           ks == [j \in 1..n |-> Int2Num(j)]
<1>1. n \in Nat /\ K = {Int2Num(i) : i \in 1..n}
  BY TableLength
<1>2. \A k \in K : k \in Writable
  BY EntryOf
<1> HIDE DEF K, n
<1>3. \A j \in 1..n : ks[j] = Int2Num(j) /\ ks[j] \in K
  BY <1>1
<1>4. ks \in [1..n -> K] /\ ks \in Seq(Writable)
  BY <1>1, <1>2
<1>5. \A i, j \in 1..n : ks[i] = ks[j] => i = j
  <2> SUFFICES ASSUME NEW i \in 1..n, NEW j \in 1..n, ks[i] = ks[j] PROVE i = j
    OBVIOUS
  <2>1. <<"num", 2 * i>> = <<"num", 2 * j>>
    BY <1>3 DEF Int2Num, Num
  <2>2. 2 * i = 2 * j /\ i \in Nat /\ j \in Nat
    BY <2>1
  <2> QED BY <2>2
<1>6. \A k \in K : \E j \in 1..n : ks[j] = k
  BY <1>1
<1>7. Lists(ks, id, "array")
  <2> HIDE DEF ks
  <2> QED BY <1>3, <1>4, <1>5, <1>6 DEF Lists, K, n
<1> QED BY <1>4, <1>7

\* The table that is wanted.
LEMMA TableWanted ==
  ASSUME StackInv, Storable, Writer!IsTable, NEW c, NEW root \in Writable, Sound(c, root), WriterAt(c, root)
  PROVE  \E id \in DOMAIN Heap :
           /\ c.pc = "value" /\ Wanted(c, root) = Tbl(id) /\ wL[index] = Tbl(id) /\ Writer!t = Heap[id]
           /\ Writer!length = countTableLength(Heap[id]) /\ Writer!length \in Nat /\ Writer!length < Card(32)
<1>1. wpc = "value" /\ Writer!lua_type(Writer!v) = "table"
  BY DEF Writer!IsTable
<1>2. Running /\ Writer!v = Wanted(c, root) /\ Writer!v \in Writable /\ c.pc = "value" /\ wL[index] = Writer!v
  BY <1>1, ArgumentWanted
<1> DEFINE id == Writer!v[2]
<1>3. /\ id \in DOMAIN Heap /\ Writer!t = Heap[id] /\ Writer!length = Writer!countTableLength(Heap[id])
      /\ Writer!length \in Nat
  BY <1>2, Table
<1>4. Writer!v = Tbl(id)
  BY <1>1, <1>2, SameValues DEF Storable, StorableValue
<1>5. Writer!length = countTableLength(Heap[id])
  BY <1>3, SameValues
<1>6. countTableLength(Heap[id]) < Card(32)
  BY <1>3 DEF Storable
<1> QED BY <1>2, <1>3, <1>4, <1>5, <1>6

\* An empty table is written.
LEMMA EmptyMoves ==
  ASSUME StackInv, Storable, Writer!WriteEmpty, NEW c, NEW root \in Writable, Sound(c, root), WriterAt(c, root)
  PROVE  \E d : Moves(c, d, root) /\ WriterAt(d, root)'
<1>1. /\ wpc = "value" /\ wpc' = "return" /\ UNCHANGED <<caller, wL, wframes, wstrings>>
      /\ Writer!IsTable /\ Writer!length = 0 /\ out' = Append(out, 20)
  BY SameTags DEF Writer!WriteEmpty, Writer!IsTable, Writer!strTable, T
<1>2. PICK id \in DOMAIN Heap : /\ c.pc = "value" /\ Wanted(c, root) = Tbl(id)
                                /\ Writer!length = countTableLength(Heap[id])
  BY <1>1, TableWanted
<1>3. Keys(Heap[id]) = {}
  <2>1. IsFiniteSet(Keys(Heap[id])) /\ Cardinality(Keys(Heap[id])) = 0
    BY <1>1, <1>2, KeysFinite, SameValues DEF countTableLength
  <2> QED BY <2>1, FS_EmptySet
<1> DEFINE bytes == c.bytes \o <<20>>
           d == Conf("return", c.fr, bytes, c.names, Append(c.made, id))
<1>4. out' = bytes /\ wstrings' = c.names
  <2>1. c.bytes \in Seq(Byte)
    BY DEF Sound
  <2>2. Append(c.bytes, 20) = bytes
    BY <2>1
  <2> QED BY <1>1, <2>2 DEF WriterAt
<1>5. MEmpty(c, d, root)
  BY <1>2, <1>3 DEF MEmpty
<1> HIDE DEF bytes
<1>6. WriterAt(d, root)'
  BY <1>1, <1>4, ValueWritten
<1> QED BY <1>5, <1>6 DEF Moves

\* An activation of writeTable begins.
LEMMA Begun ==
  ASSUME StackInv, Storable, NEW c, NEW root \in Writable, Sound(c, root), WriterAt(c, root),
         wpc = "value", wpc' = "loop", UNCHANGED <<caller, wstrings>>,
         NEW id \in DOMAIN Heap, Wanted(c, root) = Tbl(id), wL[index] = Tbl(id), countTableLength(Heap[id]) # 0,
         NEW kind \in {"array", "hash"}, NEW ks \in Seq(Writable), Lists(ks, id, kind),
         NEW x \in Frame, x.kind = kind, x.index = index, x.i = 1, x.n = countTableLength(Heap[id]), x.key = FALSE,
         wframes' = <<x>> \o wframes,
         kind = "array" => wL' = wL,
         kind = "hash" => wL' = Append(wL, Writer!KeyArray(ks)),
         NEW b \in Seq(Byte), out' = out \o b,
         Carries(b, IF kind = "array" THEN {17, 18, 19} ELSE {21, 22, 23}, countTableLength(Heap[id]))
  PROVE  \E d : Moves(c, d, root) /\ WriterAt(d, root)'
<1> DEFINE g == Entered(c, id, kind, ks)
           r == <<g>> \o c.fr
           bytes == c.bytes \o b
           d == Conf("loop", r, bytes, c.names, Append(c.made, id))
           n == Len(wframes)
<1>1. /\ Running /\ WriterTypes /\ Layout /\ Tops /\ n \in Nat /\ Len(wL) \in Nat /\ Len(caller) \in Nat
      /\ Writer!Above(1) \in Int /\ (wframes = <<>> <=> n = 0) /\ index2string_ = Len(caller) + 2
      /\ (wframes = <<>> => Writer!Above(1) = Len(caller) + 3)
  BY WhileRunning DEF Running, WriterRuns
<1>2. c.pc = "value" /\ out' = bytes /\ wstrings' = c.names /\ root = Last(caller)'
  BY DEF WriterAt
<1>3. MOpen(c, d, root)
  BY <1>2 DEF MOpen
<1>4. /\ r # <<>> /\ Len(r) = Len(c.fr) + 1 /\ Len(c.fr) \in Nat
      /\ r[1] = g /\ \A k \in 1..Len(c.fr) : r[k + 1] = c.fr[k]
  BY <1>2, NestedPushed
<1>5. /\ g.id = id /\ g.kind = kind /\ g.i = 1 /\ g.n = countTableLength(Heap[id]) /\ g.key = FALSE /\ g.ks = ks
  BY DEF Entered
<1> HIDE DEF g, r, bytes
<1>6. /\ d.pc = "loop" /\ d.fr = r /\ d.bytes = bytes /\ d.names = c.names
  BY ConfFields
<1> HIDE DEF d
<1>7. n = Len(c.fr) /\ \A k \in 1..n : Mirrors(wL, Len(caller), wframes[k], c.fr[k])
  BY DEF WriterAt
<1>8. /\ Len(wframes') = n + 1 /\ wframes'[1] = x /\ \A k \in 1..n : wframes'[k + 1] = wframes[k]
  <2>1. wframes \in Seq(Frame)
    BY <1>1 DEF WriterTypes
  <2> QED BY <2>1, Pushed
<1>9. Len(wL) + 1 >= Writer!Above(1) /\ index \in 1..Len(wL) /\ (index = Len(caller) \/ index = Len(wL))
      /\ (index = Len(caller) => Len(wL) = Len(caller) + 2)
  <2>1. index \in 1..Len(wL)
    BY <1>1, Argument
  <2>2. CASE wframes = <<>>
    BY <1>1, <2>1, <2>2 DEF Tops
  <2>3. CASE wframes # <<>>
    <3>1. Writer!Above(1) >= Len(caller) + 3
      BY <1>1, WhileRunning
    <3> QED BY <1>1, <2>1, <2>3, <3>1 DEF Tops
  <2> QED BY <2>2, <2>3
<1>10. /\ \A p \in 1..Len(wL) : wL'[p] = wL[p]
       /\ kind = "hash" => wL'[Len(wL) + 1] = Writer!KeyArray(ks)
  <2>1. wL \in Seq(Slot)
    BY <1>1 DEF WriterTypes
  <2>2. CASE kind = "array"
    BY <2>2
  <2>3. CASE kind = "hash"
    <3> DEFINE y == Writer!KeyArray(ks)
    <3>1. wL' = Append(wL, y)
      BY <2>3
    <3> HIDE DEF y
    <3>2. \A p \in 1..Len(wL) : wL'[p] = wL[p]
      BY <1>1, <2>1, <3>1
    <3>3. wL'[Len(wL) + 1] = y
      BY <1>1, <2>1, <3>1
    <3> QED BY <3>2, <3>3 DEF y
  <2> QED BY <2>2, <2>3
<1>11. Mirrors(wL', Len(caller'), x, g)
  <2>1. kind = "hash" => KeysSlot(Len(caller), x) = Len(wL) + 1
    <3>1. CASE x.index = Len(caller)
      BY <1>1, <1>9, <3>1 DEF KeysSlot
    <3>2. CASE x.index # Len(caller)
      BY <1>1, <1>9, <3>2 DEF KeysSlot
    <3> QED BY <3>1, <3>2
  <2> QED BY <1>5, <1>9, <1>10, <2>1 DEF Mirrors
<1>12. ASSUME NEW k \in 1..n PROVE Mirrors(wL', Len(caller'), wframes[k], c.fr[k])
  <2>1. \A p \in 1..(Writer!Above(1) - 1) : wL'[p] = wL[p]
    BY <1>1, <1>9, <1>10
  <2>2. Mirrors(wL, Len(caller), wframes[k], c.fr[k])
    BY <1>7
  <2>3. wframes[k].i = c.fr[k].i /\ wframes[k].n = c.fr[k].n /\ wframes[k].key = c.fr[k].key
    BY <2>2 DEF Mirrors
  <2> QED BY <1>1, <2>1, <2>2, <2>3, MirrorsKept
<1>13. ASSUME NEW k \in 1..(n + 1) PROVE Mirrors(wL', Len(caller'), wframes'[k], r[k])
  <2>1. CASE k = 1
    BY <1>4, <1>8, <1>11, <2>1
  <2>2. CASE k # 1
    <3>1. k - 1 \in 1..n /\ (k - 1) + 1 = k
      BY <1>1, <2>2
    <3>2. wframes'[k] = wframes[k - 1] /\ r[k] = c.fr[k - 1]
      BY <1>4, <1>7, <1>8, <3>1
    <3> QED BY <1>12, <3>1, <3>2
  <2> QED BY <2>1, <2>2
<1>14. WriterAt(d, root)'
  BY <1>2, <1>4, <1>6, <1>7, <1>8, <1>13 DEF WriterAt
<1> QED BY <1>3, <1>14 DEF Moves

\* A table is written as an array.
LEMMA ArrayMoves ==
  ASSUME StackInv, Storable, Writer!BeginArray, NEW c, NEW root \in Writable, Sound(c, root), WriterAt(c, root)
  PROVE  \E d : Moves(c, d, root) /\ WriterAt(d, root)'
<1> DEFINE x == [kind |-> "array", index |-> index, i |-> 1, n |-> Writer!length, key |-> FALSE]
<1>1. /\ wpc = "value" /\ wpc' = "loop" /\ UNCHANGED <<caller, wL, wstrings>> /\ Writer!IsTable
      /\ Writer!length # 0 /\ Writer!length = Writer!luaH_getn(Writer!t)
      /\ out' = out \o Writer!writeLength(16, Writer!length) /\ wframes' = <<x>> \o wframes
  BY SameTags DEF Writer!BeginArray, Writer!IsTable, Writer!TakenAsArray, Writer!Activation, Writer!strTable, T
<1>2. PICK id \in DOMAIN Heap :
        /\ Wanted(c, root) = Tbl(id) /\ wL[index] = Tbl(id) /\ Writer!t = Heap[id]
        /\ Writer!length = countTableLength(Heap[id]) /\ Writer!length \in Nat /\ Writer!length < Card(32)
  BY <1>1, TableWanted
<1>3. Writer!luaH_getn(Heap[id]) = luaH_getn(Heap[id])
  BY DEF Writer!luaH_getn, luaH_getn, Writer!Border, Border, Writer!unbound_search, unbound_search,
         Writer!Absent, Absent, Writer!rawget, rawget, Writer!ArrayIndex, ArrayIndex, Writer!Int2Num, Int2Num,
         Writer!Num, Num, Writer!Nil, Nil
<1>4. PICK ks \in Seq(Writable) : Lists(ks, id, "array")
  <2>1. Keys(Heap[id]) = {Int2Num(i) : i \in 1..countTableLength(Heap[id])}
    BY <1>1, <1>2, <1>3 DEF Storable
  <2> QED BY <2>1, NumbersListed
<1> DEFINE n == countTableLength(Heap[id])
           b == Writer!writeLength(16, n)
<1>5. n \in Nat \ {0} /\ n < Card(32)
  BY <1>1, <1>2
<1> HIDE DEF n
<1>6. b \in Seq(Byte) /\ Carries(b, {17, 18, 19}, n)
  <2>1. Carries(Writer!writeLength(16, n), {16 + 1, 16 + 2, 16 + 3}, n)
    BY <1>5, LengthToken
  <2> QED BY <1>5, <2>1, SizeBytes DEF T
<1>7. x \in Frame /\ x.kind = "array" /\ x.index = index /\ x.i = 1 /\ x.n = n /\ x.key = FALSE
  BY <1>2 DEF n, Frame, StackInv, WriterTypes
<1>8. out' = out \o b
  BY <1>1, <1>2 DEF n
<1> HIDE DEF x, b
<1>9. /\ "array" \in {"array", "hash"} /\ ("array" = "array" => wL' = wL)
      /\ ("array" = "hash" => wL' = Append(wL, Writer!KeyArray(ks)))
      /\ Carries(b, IF "array" = "array" THEN {17, 18, 19} ELSE {21, 22, 23}, n)
  BY <1>1, <1>6
<1> QED BY <1>1, <1>2, <1>4, <1>5, <1>6, <1>7, <1>8, <1>9, Begun DEF n

\* A table is written with its keys.
LEMMA HashMoves ==
  ASSUME StackInv, Storable, Writer!BeginHash, wpc' = "loop",
         NEW c, NEW root \in Writable, Sound(c, root), WriterAt(c, root)
  PROVE  \E d : Moves(c, d, root) /\ WriterAt(d, root)'
<1> DEFINE x == [kind |-> "hash", index |-> index, i |-> 1, n |-> Writer!length, key |-> FALSE]
<1>1. /\ wpc = "value" /\ UNCHANGED <<caller, wstrings>> /\ Writer!IsTable /\ Writer!length # 0
      /\ out' = out \o Writer!writeLength(20, Writer!length) /\ wframes' = <<x>> \o wframes
      /\ \E s \in Writer!SortedKeys(Writer!Keys(Writer!t)) : wL' = Append(wL, Writer!KeyArray(s))
  BY SameTags DEF Writer!BeginHash, Writer!IsTable, Writer!Activation, Writer!strTable, T
<1>2. PICK id \in DOMAIN Heap :
        /\ Wanted(c, root) = Tbl(id) /\ wL[index] = Tbl(id) /\ Writer!t = Heap[id]
        /\ Writer!length = countTableLength(Heap[id]) /\ Writer!length \in Nat /\ Writer!length < Card(32)
  BY <1>1, TableWanted
<1>4. PICK ks \in Seq(Writable) : Lists(ks, id, "hash") /\ wL' = Append(wL, Writer!KeyArray(ks))
  <2>1. PICK s \in Writer!Arrays(Writer!Keys(Heap[id])) : wL' = Append(wL, Writer!KeyArray(s))
    BY <1>1, <1>2 DEF Writer!SortedKeys
  <2> QED BY <2>1, KeysListed
<1> DEFINE n == countTableLength(Heap[id])
           b == Writer!writeLength(20, n)
<1>5. n \in Nat \ {0} /\ n < Card(32)
  BY <1>1, <1>2
<1> HIDE DEF n
<1>6. b \in Seq(Byte) /\ Carries(b, {21, 22, 23}, n)
  <2>1. Carries(Writer!writeLength(20, n), {20 + 1, 20 + 2, 20 + 3}, n)
    BY <1>5, LengthToken
  <2> QED BY <1>5, <2>1, SizeBytes DEF T
<1>7. x \in Frame /\ x.kind = "hash" /\ x.index = index /\ x.i = 1 /\ x.n = n /\ x.key = FALSE
  BY <1>2 DEF n, Frame, StackInv, WriterTypes
<1>8. out' = out \o b
  BY <1>1, <1>2 DEF n
<1> HIDE DEF x, b
<1>9. /\ "hash" \in {"array", "hash"} /\ ("hash" = "array" => wL' = wL)
      /\ ("hash" = "hash" => wL' = Append(wL, Writer!KeyArray(ks)))
      /\ Carries(b, IF "hash" = "array" THEN {17, 18, 19} ELSE {21, 22, 23}, n)
  BY <1>4, <1>6
<1> QED BY <1>1, <1>2, <1>4, <1>5, <1>6, <1>7, <1>8, <1>9, Begun DEF n

\* The loop of writeTable, and its parts.
LEMMA WriterTurns ==
  ASSUME StackInv, NEW c, NEW root \in Writable, Sound(c, root), WriterAt(c, root), wframes # <<>>,
         wpc \in {"loop", "return"}, UNCHANGED <<caller, wstrings, out>>,
         NEW i \in Nat, NEW key \in BOOLEAN, NEW pc2 \in {"value", "loop"}, wpc' = pc2,
         i \in 1..(c.fr[1].n + 1), pc2 # "loop" => i <= c.fr[1].n,
         key => c.fr[1].kind = "hash" /\ pc2 # "loop",
         NEW x \in Frame, x.index = wframes[1].index, x.kind = wframes[1].kind, x.n = wframes[1].n, x.i = i, x.key = key,
         wframes' = <<x>> \o Tail(wframes), \A p \in 1..(Writer!Above(1) - 1) : wL'[p] = wL[p],
         pc2 = "value" => wL'[Len(wL')] = Current(At(c.fr[1], i, key))
  PROVE  WriterAt(Conf(pc2, Turned(c, i, key), c.bytes, c.names, c.made), root)'
<1> DEFINE r == Turned(c, i, key)
           d == Conf(pc2, r, c.bytes, c.names, c.made)
           g == At(c.fr[1], i, key)
           n == Len(wframes)
<1>1. /\ Running /\ WriterTypes /\ Layout /\ n \in Nat /\ (wframes = <<>> <=> n = 0)
  BY WhileRunning DEF Running, WriterRuns
<1>2. n = Len(c.fr) /\ \A k \in 1..n : Mirrors(wL, Len(caller), wframes[k], c.fr[k])
  BY DEF WriterAt
<1>3. c.fr # <<>>
  <2>1. c.fr \in Seq(Visit)
    BY DEF Sound, Nested
  <2> QED BY <1>1, <1>2, <2>1, EmptySeq
<1>4. /\ r # <<>> /\ Len(r) = n /\ r[1] = g /\ \A k \in 2..n : r[k] = c.fr[k]
  <2>1. c.fr \in Seq(Visit)
    BY DEF Sound, Nested
  <2> QED BY <1>2, <1>3, <2>1, TurnedAt
<1>5. g.id = c.fr[1].id /\ g.ks = c.fr[1].ks /\ g.kind = c.fr[1].kind /\ g.i = i /\ g.n = c.fr[1].n /\ g.key = key
  BY DEF At
<1>6. d.pc = pc2 /\ d.fr = r /\ d.bytes = c.bytes /\ d.names = c.names
  BY ConfFields
<1>7. d.pc = "value" => Wanted(d, root) = Current(g)
  <2>1. ~(1 > Len(r))
    BY <1>1, <1>4
  <2> QED BY <1>4, <1>6, <2>1 DEF Wanted, Expected
<1> HIDE DEF d, r, g
<1>8. Len(wframes') = n /\ wframes'[1] = x /\ \A k \in 2..n : wframes'[k] = wframes[k]
  <2>1. wframes \in Seq(Frame) /\ n \in Nat \ {0}
    BY <1>1 DEF WriterTypes
  <2> QED BY <2>1, FirstChanged
<1>9. ASSUME NEW k \in 1..n PROVE Mirrors(wL', Len(caller'), wframes'[k], r[k])
  <2>1. Mirrors(wL, Len(caller), wframes[k], c.fr[k])
    BY <1>2
  <2>2. CASE k = 1
    <3>1. wframes'[k] = x /\ r[k] = g /\ x.n = g.n
      BY <1>4, <1>5, <1>8, <2>1, <2>2 DEF Mirrors
    <3> QED BY <1>1, <1>5, <2>1, <2>2, <3>1, MirrorsKept
  <2>3. CASE k # 1
    <3>1. k \in 2..n
      BY <1>1, <2>3
    <3>2. wframes'[k] = wframes[k] /\ r[k] = c.fr[k]
      BY <1>4, <1>8, <3>1
    <3>3. wframes[k].i = c.fr[k].i /\ wframes[k].n = c.fr[k].n /\ wframes[k].key = c.fr[k].key
      BY <2>1 DEF Mirrors
    <3> QED BY <1>1, <2>1, <3>2, <3>3, MirrorsKept
  <2> QED BY <2>2, <2>3
<1>10. root = Last(caller)' /\ out = c.bytes /\ wstrings = c.names
  BY DEF WriterAt
<1>11. WriterAt(d, root)'
  BY <1>4, <1>6, <1>7, <1>8, <1>9, <1>10 DEF WriterAt, g
<1> QED BY <1>11 DEF d, r

\* What the innermost activation knows of its table.
LEMMA AtTable ==
  ASSUME StackInv, wpc \in {"loop", "return"}, NEW c, NEW root \in Writable, Sound(c, root), WriterAt(c, root),
         wframes # <<>>
  PROVE  /\ Running /\ Writer!f = wframes[1] /\ wframes[1] \in Frame
         /\ c.fr # <<>> /\ Nested(c.fr, c.pc, c.made, root) /\ 1 \in 1..Len(c.fr) /\ Visiting(c.fr, 1, c.pc, c.made, root)
         /\ c.fr[1] \in Visit /\ c.pc = wpc
         /\ wframes[1].kind = c.fr[1].kind /\ wframes[1].i = c.fr[1].i /\ wframes[1].n = c.fr[1].n
         /\ wframes[1].key = c.fr[1].key /\ wL[wframes[1].index] = Tbl(c.fr[1].id)
         /\ c.fr[1].id \in DOMAIN Heap /\ Writer!Own = Heap[c.fr[1].id]
         /\ c.fr[1].kind = "hash" => wL[Writer!Above(1) - 1] = Writer!KeyArray(c.fr[1].ks)
         /\ c.fr[1].i \in Nat /\ c.fr[1].n \in Nat /\ c.fr[1].i \in 1..(c.fr[1].n + 1)
         /\ (c.pc = "return" => c.fr[1].i <= c.fr[1].n)
<1>1. Running /\ WriterTypes /\ Layout /\ Len(wframes) \in Nat /\ Len(wframes) # 0
  BY WhileRunning DEF Running, WriterRuns
<1>2. Writer!f = wframes[1] /\ wframes[1] \in Frame /\ 1 \in 1..Len(wframes) /\ Writer!Own = Heap[wL[wframes[1].index][2]]
  BY <1>1, Innermost
<1>3. Len(c.fr) = Len(wframes) /\ Mirrors(wL, Len(caller), wframes[1], c.fr[1]) /\ c.pc = wpc
  BY <1>2 DEF WriterAt
<1>4. Nested(c.fr, c.pc, c.made, root) /\ c.fr \in Seq(Visit)
  BY DEF Sound, Nested
<1>5. c.fr # <<>> /\ c.fr[1] \in Visit /\ 1 \in 1..Len(c.fr)
  BY <1>2, <1>3, <1>4, EmptySeq
<1>6. Visiting(c.fr, 1, c.pc, c.made, root)
  BY <1>4, <1>5 DEF Nested
<1>7. wframes[1].kind = "hash" => KeysSlot(Len(caller), wframes[1]) = Writer!Above(1) - 1
  BY <1>1, <1>2, Slots
<1>8. wL[wframes[1].index][2] = c.fr[1].id
  BY <1>3 DEF Mirrors, Tbl
<1> QED BY <1>1, <1>2, <1>3, <1>4, <1>5, <1>6, <1>7, <1>8 DEF Mirrors, Visit, Visiting

\* The next element or key.
LEMMA EntryMoves ==
  ASSUME StackInv, Writer!LoopEntry, NEW c, NEW root \in Writable, Sound(c, root), WriterAt(c, root)
  PROVE  \E d : Moves(c, d, root) /\ WriterAt(d, root)'
<1> DEFINE y == IF Writer!f.kind = "array" THEN Writer!rawget(Writer!Own, Writer!Int2Num(Writer!f.i))
                ELSE Writer!KeysOnTop[Writer!f.i]
           x == [Writer!f EXCEPT !.key = Writer!f.kind = "hash"]
<1>1. /\ wpc = "loop" /\ wpc' = "value" /\ Writer!f.i <= Writer!f.n
      /\ wL' = Append(wL, y) /\ wframes' = <<x>> \o Tail(wframes)
      /\ UNCHANGED <<caller, wstrings, out>>
  BY DEF Writer!LoopEntry, Writer!strTable
<1>2. wL \in Seq(Slot) /\ Len(wL) \in Nat /\ Writer!Above(1) \in Int /\ wframes # <<>> /\ Len(wL) + 1 = Writer!Above(1)
  BY <1>1, WhileRunning DEF Tops, Running, WriterRuns, WriterTypes
<1> DEFINE g == c.fr[1]
           key == g.kind = "hash"
<1>3. /\ Writer!f = wframes[1] /\ wframes[1] \in Frame /\ c.fr # <<>> /\ Visiting(c.fr, 1, c.pc, c.made, root)
      /\ c.pc = "loop" /\ g \in Visit /\ wframes[1].kind = g.kind /\ wframes[1].i = g.i /\ wframes[1].n = g.n
      /\ g.id \in DOMAIN Heap /\ Writer!Own = Heap[g.id]
      /\ g.kind = "hash" => wL[Writer!Above(1) - 1] = Writer!KeyArray(g.ks)
      /\ g.i \in Nat /\ g.n \in Nat /\ g.i \in 1..(g.n + 1)
  BY <1>1, <1>2, AtTable
<1>4. g.i <= g.n /\ g.i \in 1..countTableLength(Heap[g.id]) /\ Lists(g.ks, g.id, g.kind)
  BY <1>1, <1>3 DEF Visiting
<1>5. x \in Frame /\ x.index = wframes[1].index /\ x.kind = wframes[1].kind /\ x.n = wframes[1].n /\ x.i = g.i /\ x.key = key
  BY <1>3 DEF Frame
<1>6. y = Current(At(g, g.i, key))
  <2>1. At(g, g.i, key).key = key /\ At(g, g.i, key).ks = g.ks /\ At(g, g.i, key).i = g.i /\ At(g, g.i, key).id = g.id
    BY DEF At
  <2>2. CASE g.kind = "array"
    <3>1. y = Writer!rawget(Heap[g.id], Writer!Int2Num(g.i))
      BY <1>3, <2>2
    <3>2. g.ks[g.i] = Int2Num(g.i)
      BY <1>4, <2>2 DEF Lists
    <3>3. y = rawget(Heap[g.id], g.ks[g.i])
      BY <1>3, <3>1, <3>2, SameValues
    <3> QED BY <2>1, <2>2, <3>3 DEF Current
  <2>3. CASE g.kind = "hash"
    <3>1. Writer!KeysOnTop = g.ks
      <4>1. Writer!Above(1) - 1 = Len(wL)
        BY <1>2
      <4> QED BY <1>3, <2>3, <4>1 DEF Writer!KeysOnTop, Writer!KeyArray
    <3>2. y = g.ks[g.i]
      BY <1>3, <2>3, <3>1
    <3> QED BY <2>1, <2>3, <3>2 DEF Current
  <2> QED BY <1>3, <2>2, <2>3 DEF Visit
<1> DEFINE d == Conf("value", Turned(c, g.i, key), c.bytes, c.names, c.made)
<1>7. MEntry(c, d)
  BY <1>3, <1>4 DEF MEntry
<1> HIDE DEF x, y
<1>8. wL'[Len(wL')] = y /\ \A p \in 1..(Writer!Above(1) - 1) : wL'[p] = wL[p]
  BY <1>1, <1>2
<1>9. key \in BOOLEAN /\ (key => g.kind = "hash")
  OBVIOUS
<1> HIDE DEF key
<1>10. WriterAt(d, root)'
  <2>1. wframes # <<>> /\ wpc \in {"loop", "return"} /\ wpc' = "value" /\ "value" \in {"value", "loop"}
    BY <1>1, <1>2
  <2>2. g.i \in Nat /\ g.i \in 1..(c.fr[1].n + 1) /\ ("value" # "loop" => g.i <= c.fr[1].n)
    BY <1>3, <1>4
  <2>3. key \in BOOLEAN /\ (key => c.fr[1].kind = "hash" /\ "value" # "loop")
    BY <1>9
  <2>4. UNCHANGED <<caller, wstrings, out>> /\ wframes' = <<x>> \o Tail(wframes)
    BY <1>1
  <2>5. "value" = "value" => wL'[Len(wL')] = Current(At(c.fr[1], g.i, key))
    BY <1>6, <1>8
  <2> QED BY <2>1, <2>2, <2>3, <2>4, <2>5, <1>5, <1>8, WriterTurns
<1> QED BY <1>7, <1>10 DEF Moves

\* A key is written, its value comes next.
LEMMA KeyMoves ==
  ASSUME StackInv, Writer!ReturnKey, NEW c, NEW root \in Writable, Sound(c, root), WriterAt(c, root)
  PROVE  \E d : Moves(c, d, root) /\ WriterAt(d, root)'
<1> DEFINE y == Writer!rawget(Writer!Own, wL[Len(wL)])
           x == [Writer!f EXCEPT !.key = FALSE]
           low == SubSeq(wL, 1, Len(wL) - 1)
           g == c.fr[1]
<1>1. /\ wpc = "return" /\ wframes # <<>> /\ wpc' = "value" /\ Writer!f.key
      /\ wL' = Append(low, y) /\ wframes' = <<x>> \o Tail(wframes)
      /\ UNCHANGED <<caller, wstrings, out>>
  BY DEF Writer!ReturnKey, Writer!Pop, Writer!strTable
<1>2. wL \in Seq(Slot) /\ Len(wL) \in Nat \ {0} /\ Len(wL) = Writer!Above(1)
  BY <1>1, WhileReturning
<1>3. /\ Writer!f = wframes[1] /\ wframes[1] \in Frame /\ c.fr # <<>>
      /\ c.pc = "return" /\ g \in Visit /\ wframes[1].kind = g.kind /\ wframes[1].i = g.i /\ wframes[1].n = g.n
      /\ wframes[1].key = g.key /\ g.id \in DOMAIN Heap /\ Writer!Own = Heap[g.id]
      /\ g.i \in Nat /\ g.n \in Nat /\ g.i \in 1..(g.n + 1) /\ g.i <= g.n
  BY <1>1, AtTable
<1>4. wL[Len(wL)] = g.ks[g.i]
  <2>1. wL[Len(wL)] = Wanted(c, root) /\ Wanted(c, root) = Current(g)
    BY <1>1, <1>3, WantedValue DEF WriterAt
  <2> QED BY <1>1, <1>3, <2>1 DEF Current
<1>5. x \in Frame /\ x.index = wframes[1].index /\ x.kind = wframes[1].kind /\ x.n = wframes[1].n /\ x.i = g.i /\ x.key = FALSE
  BY <1>3 DEF Frame
<1>6. y = Current(At(g, g.i, FALSE))
  <2>1. y = rawget(Heap[g.id], g.ks[g.i])
    BY <1>3, <1>4, SameValues
  <2> QED BY <2>1 DEF Current, At
<1> DEFINE d == Conf("value", Turned(c, g.i, FALSE), c.bytes, c.names, c.made)
<1>7. MKey(c, d)
  BY <1>1, <1>3 DEF MKey
<1>8. low \in Seq(Slot) /\ Len(low) = Len(wL) - 1 /\ \A p \in 1..(Len(wL) - 1) : low[p] = wL[p]
  <2>1. Len(wL) - 1 \in Nat /\ Len(wL) - 1 <= Len(wL)
    BY <1>2
  <2> QED BY <1>2, <2>1, Popped
<1> HIDE DEF x, y, low
<1>9. wL'[Len(wL')] = y /\ \A p \in 1..(Writer!Above(1) - 1) : wL'[p] = wL[p]
  <2>1. Len(wL') = Len(low) + 1 /\ wL'[Len(low) + 1] = y /\ \A p \in 1..Len(low) : wL'[p] = low[p]
    BY <1>1, <1>2, <1>8
  <2> QED BY <1>2, <1>8, <2>1
<1>10. WriterAt(d, root)'
  <2>1. wframes # <<>> /\ wpc \in {"loop", "return"} /\ wpc' = "value" /\ "value" \in {"value", "loop"}
    BY <1>1
  <2>2. g.i \in Nat /\ g.i \in 1..(c.fr[1].n + 1) /\ ("value" # "loop" => g.i <= c.fr[1].n)
    BY <1>3
  <2>3. FALSE \in BOOLEAN /\ (FALSE => c.fr[1].kind = "hash" /\ "value" # "loop")
    OBVIOUS
  <2>4. UNCHANGED <<caller, wstrings, out>> /\ wframes' = <<x>> \o Tail(wframes)
    BY <1>1
  <2>5. "value" = "value" => wL'[Len(wL')] = Current(At(c.fr[1], g.i, FALSE))
    BY <1>6, <1>9
  <2> QED BY <2>1, <2>2, <2>3, <2>4, <2>5, <1>5, <1>9, WriterTurns
<1> QED BY <1>7, <1>10 DEF Moves

\* A value is written, the loop goes on.
LEMMA ValueMoves ==
  ASSUME StackInv, Writer!ReturnValue, NEW c, NEW root \in Writable, Sound(c, root), WriterAt(c, root)
  PROVE  \E d : Moves(c, d, root) /\ WriterAt(d, root)'
<1> DEFINE x == [Writer!f EXCEPT !.i = @ + 1]
           g == c.fr[1]
<1>1. /\ wpc = "return" /\ wframes # <<>> /\ wpc' = "loop" /\ ~Writer!f.key
      /\ wL' = SubSeq(wL, 1, Len(wL) - 1) /\ wframes' = <<x>> \o Tail(wframes)
      /\ UNCHANGED <<caller, wstrings, out>>
  BY DEF Writer!ReturnValue, Writer!Pop, Writer!strTable
<1>2. wL \in Seq(Slot) /\ Len(wL) \in Nat \ {0} /\ Len(wL) = Writer!Above(1)
  BY <1>1, WhileReturning
<1>3. /\ Writer!f = wframes[1] /\ wframes[1] \in Frame /\ c.fr # <<>>
      /\ c.pc = "return" /\ g \in Visit /\ wframes[1].kind = g.kind /\ wframes[1].i = g.i /\ wframes[1].n = g.n
      /\ wframes[1].key = g.key
      /\ g.i \in Nat /\ g.n \in Nat /\ g.i \in 1..(g.n + 1) /\ g.i <= g.n
  BY <1>1, AtTable
<1>5. /\ x \in Frame /\ x.index = wframes[1].index /\ x.kind = wframes[1].kind /\ x.n = wframes[1].n
      /\ x.i = g.i + 1 /\ x.key = FALSE
  <2>1. wframes[1].i + 1 \in Nat
    BY <1>3
  <2>2. /\ x \in Frame /\ x.index = wframes[1].index /\ x.kind = wframes[1].kind /\ x.n = wframes[1].n
        /\ x.i = wframes[1].i + 1 /\ x.key = wframes[1].key
    BY <1>3, <2>1 DEF Frame
  <2>3. x.key \in BOOLEAN /\ ~wframes[1].key
    BY <1>1, <1>3, <2>2 DEF Frame
  <2> HIDE DEF x
  <2>4. x.key = FALSE
    BY <2>2, <2>3
  <2> QED BY <1>3, <2>2, <2>4
<1> DEFINE d == Conf("loop", Turned(c, g.i + 1, FALSE), c.bytes, c.names, c.made)
<1>7. MValue(c, d)
  BY <1>1, <1>3 DEF MValue
<1> HIDE DEF x
<1>9. \A p \in 1..(Writer!Above(1) - 1) : wL'[p] = wL[p]
  <2>1. Len(wL) - 1 \in Nat /\ Len(wL) - 1 <= Len(wL)
    BY <1>2
  <2> QED BY <1>1, <1>2, <2>1, Popped
<1>8. g.i + 1 \in Nat /\ g.i + 1 \in 1..(g.n + 1)
  BY <1>3
<1>10. WriterAt(d, root)'
  BY <1>1, <1>3, <1>5, <1>8, <1>9, WriterTurns
<1> QED BY <1>7, <1>10 DEF Moves

\* What the loop of writeTable leaves on the stack.
LEMMA LoopLeft ==
  ASSUME StackInv, Writer!LoopEnd
  PROVE  LET n == Len(wframes) IN
         /\ n \in Nat \ {0} /\ Len(wL') \in Nat /\ Len(wL') = (IF n = 1 THEN Len(caller) + 2 ELSE wframes[1].index)
         /\ \A p \in 1..Len(wL') : wL'[p] = wL[p]
         /\ n > 1 => Writer!Above(2) = wframes[1].index /\ Writer!Above(2) \in Nat
<1> DEFINE n == Len(wframes)
           w == IF wframes[1].kind = "hash" THEN 2 ELSE 1
           own == IF n = 1 THEN Len(caller) + 2 ELSE wframes[1].index
<1>1. wpc = "loop" /\ wL' = Writer!PopKeys
  BY DEF Writer!LoopEnd
<1>2. Running
  BY <1>1 DEF Running, WriterRuns
<1>3. /\ WriterTypes /\ Layout /\ Tops /\ n \in Nat /\ Len(wL) \in Nat /\ Len(caller) \in Nat
      /\ wframes # <<>> /\ n # 0 /\ Writer!Above(1) \in Int /\ Len(wL) + 1 = Writer!Above(1)
  BY <1>1, <1>2, WhileRunning DEF Tops
<1>4. Writer!f = wframes[1] /\ 1 \in 1..n /\ wframes[1] \in Frame
  BY <1>2, <1>3, Innermost
<1>5. /\ n > 1 => wframes[1].index = Writer!Above(2)
      /\ Writer!Above(1) = (IF n = 1 THEN Len(caller) + 2 ELSE Writer!Above(2)) + w
  <2>1. /\ 1 < n => wframes[1].index = Writer!Above(1 + 1)
        /\ Writer!Above(1) = (IF 1 = n THEN Len(caller) + 2 ELSE Writer!Above(1 + 1))
                             + (IF wframes[1].kind = "hash" THEN 2 ELSE 1)
    BY <1>3, <1>4, Places
  <2> QED BY <1>3, <2>1
<1>10. n \in Nat \ {0}
  BY <1>3
<1>6. own \in Nat /\ Len(wL) = own + w - 1 /\ w \in {1, 2} /\ (wframes[1].kind = "hash" <=> w = 2)
  <2>1. wframes[1].index \in Nat
    BY <1>4 DEF Frame
  <2>2. w \in {1, 2} /\ (wframes[1].kind = "hash" <=> w = 2)
    OBVIOUS
  <2>3. own \in Nat /\ Len(wL) = own + w - 1
    <3> HIDE DEF w
    <3>1. CASE n = 1
      <4>1. own = Len(caller) + 2 /\ Writer!Above(1) = Len(caller) + 2 + w
        BY <1>5, <3>1
      <4> HIDE DEF own
      <4> QED BY <1>3, <2>2, <4>1
    <3>2. CASE n # 1
      <4>1. own = wframes[1].index /\ Writer!Above(1) = wframes[1].index + w
        <5> HIDE DEF n, w
        <5>1. n > 1
          BY <1>10, <3>2
        <5>2. Writer!Above(1) = Writer!Above(2) + w
          BY <1>5, <3>2
        <5> QED BY <1>5, <3>2, <5>1, <5>2 DEF own
      <4> HIDE DEF own
      <4> QED BY <1>3, <2>1, <2>2, <4>1
    <3> QED BY <3>1, <3>2
  <2> QED BY <2>2, <2>3
<1> HIDE DEF w, own
<1>7. Len(wL') = own /\ \A p \in 1..own : wL'[p] = wL[p]
  <2>1. wL \in Seq(Slot)
    BY <1>3 DEF WriterTypes
  <2>2. CASE wframes[1].kind = "hash"
    <3>1. wL' = SubSeq(wL, 1, Len(wL) - 1)
      BY <1>1, <1>4, <2>2 DEF Writer!PopKeys, Writer!Pop
    <3>2. Len(wL) - 1 = own /\ own <= Len(wL)
      BY <1>6, <2>2
    <3> QED BY <1>6, <2>1, <3>1, <3>2, Popped
  <2>3. CASE wframes[1].kind # "hash"
    BY <1>1, <1>4, <1>6, <2>3 DEF Writer!PopKeys
  <2> QED BY <2>2, <2>3
<1>8. wframes[1].index \in Nat
  BY <1>4 DEF Frame
<1>9. n > 1 => Writer!Above(2) = wframes[1].index /\ Writer!Above(2) \in Nat
  BY <1>5, <1>8
<1>13. own = IF n = 1 THEN Len(caller) + 2 ELSE wframes[1].index
  BY DEF own
<1> HIDE DEF n
<1>11. Len(wL') \in Nat /\ \A p \in 1..Len(wL') : wL'[p] = wL[p]
  BY <1>6, <1>7
<1> QED BY <1>7, <1>9, <1>10, <1>11, <1>13 DEF n

\* A table is written.
LEMMA EndMoves ==
  ASSUME StackInv, Writer!LoopEnd, NEW c, NEW root \in Writable, Sound(c, root), WriterAt(c, root)
  PROVE  \E d : Moves(c, d, root) /\ WriterAt(d, root)'
<1> DEFINE n == Len(wframes)
           r == Tail(c.fr)
           d == Conf("return", r, c.bytes, c.names, c.made)
<1>1. /\ wpc = "loop" /\ wpc' = "return" /\ wframes' = Tail(wframes) /\ Writer!f.i > Writer!f.n
      /\ UNCHANGED <<caller, wstrings, out>>
  BY DEF Writer!LoopEnd, Writer!strTable
<1>2. /\ n \in Nat \ {0} /\ Len(wL') \in Nat /\ Len(wL') = (IF n = 1 THEN Len(caller) + 2 ELSE wframes[1].index)
      /\ \A p \in 1..Len(wL') : wL'[p] = wL[p]
      /\ n > 1 => Writer!Above(2) = wframes[1].index /\ Writer!Above(2) \in Nat
  BY LoopLeft
<1>3. Running /\ WriterTypes /\ Layout /\ (wframes = <<>> <=> n = 0)
  BY <1>1, WhileRunning DEF Running, WriterRuns
<1>4. /\ Writer!f = wframes[1] /\ c.fr # <<>> /\ Nested(c.fr, c.pc, c.made, root)
      /\ c.pc = "loop" /\ wframes[1].i = c.fr[1].i /\ wframes[1].n = c.fr[1].n
      /\ wL[wframes[1].index] = Tbl(c.fr[1].id)
  BY <1>1, <1>2, <1>3, AtTable
<1>5. n = Len(c.fr) /\ \A k \in 1..n : Mirrors(wL, Len(caller), wframes[k], c.fr[k])
  BY DEF WriterAt
<1>6. /\ Len(r) = n - 1 /\ \A k \in 1..(n - 1) : r[k] = c.fr[k + 1]
      /\ Expected(r, 1, root) = Tbl(c.fr[1].id)
  <2>1. /\ Nested(r, "return", c.made, root)
        /\ Len(r) = Len(c.fr) - 1 /\ \A k \in 1..(Len(c.fr) - 1) : r[k] = c.fr[k + 1]
        /\ Expected(r, 1, root) = Tbl(c.fr[1].id)
    BY <1>4, NestedPopped
  <2> HIDE DEF r
  <2> QED BY <1>5, <2>1
<1>7. MEnd(c, d)
  BY <1>1, <1>4 DEF MEnd
<1>8. d.pc = "return" /\ d.fr = r /\ d.bytes = c.bytes /\ d.names = c.names
  BY ConfFields
<1> HIDE DEF d, r
<1>9. wframes' \in Seq(Frame) /\ Len(wframes') = n - 1 /\ \A k \in 1..(n - 1) : wframes'[k] = wframes[k + 1]
  <2>1. wframes \in Seq(Frame)
    BY <1>3 DEF WriterTypes
  <2> QED BY <1>1, <1>2, <2>1, PoppedFirst
<1>15. n > 1 => wframes[1].index \in Nat \ {0}
  <2>1. 1 \in 1..n
    BY <1>2
  <2> QED BY <1>3, <2>1, Slots
<1>10. ASSUME NEW k \in 1..(n - 1) PROVE Mirrors(wL', Len(caller'), wframes'[k], r[k])
  <2>1. k + 1 \in 1..n /\ k + 1 > 1 /\ n > 1
    BY <1>2
  <2>2. \A p \in 1..(Writer!Above(2) - 1) : wL'[p] = wL[p]
    <3>0. n # 1 /\ Len(wL') = wframes[1].index
      <4> HIDE DEF n
      <4> QED BY <1>2, <2>1
    <3>1. Writer!Above(2) = Len(wL') /\ Writer!Above(2) \in Nat
      BY <1>2, <2>1, <3>0
    <3> QED BY <1>2, <3>1
  <2>3. Mirrors(wL, Len(caller), wframes[k + 1], c.fr[k + 1]) /\ wframes'[k] = wframes[k + 1] /\ r[k] = c.fr[k + 1]
    BY <1>5, <1>6, <1>9, <2>1
  <2>4. /\ wframes[k + 1].i = c.fr[k + 1].i /\ wframes[k + 1].n = c.fr[k + 1].n
        /\ wframes[k + 1].key = c.fr[k + 1].key
    BY <2>3 DEF Mirrors
  <2> QED BY <1>1, <1>3, <2>1, <2>2, <2>3, <2>4, MirrorsKept
<1>11. wframes' # <<>> => wL'[Len(wL')] = Wanted(d, root)
  <2> SUFFICES ASSUME wframes' # <<>> PROVE wL'[Len(wL')] = Wanted(d, root)
    OBVIOUS
  <2>1. n > 1
    <3>1. Len(wframes') # 0
      BY <1>9, EmptySeq
    <3> QED BY <1>2, <1>9, <3>1
  <2>2. Len(wL') = wframes[1].index /\ Len(wL') \in 1..Len(wL')
    <3>1. n # 1 /\ Len(wL') = wframes[1].index
      <4> HIDE DEF n
      <4> QED BY <1>2, <2>1
    <3>2. n > 1 /\ wframes[1].index \in Nat \ {0}
      BY <1>2, <2>1, <1>15
    <3> QED BY <3>1, <3>2
  <2>3. wL'[Len(wL')] = Tbl(c.fr[1].id)
    BY <1>2, <1>4, <2>2
  <2> QED BY <1>6, <1>8, <2>3 DEF Wanted
<1>12. root = Last(caller)' /\ out = c.bytes /\ wstrings = c.names
  BY <1>1 DEF WriterAt
<1>13. WriterAt(d, root)'
  BY <1>1, <1>6, <1>8, <1>9, <1>10, <1>11, <1>12 DEF WriterAt
<1> QED BY <1>7, <1>13 DEF Moves, d, r

-----------------------------------------------------------------------------
(* The invariant of the writer.                                            *)

\* What is written is the run tr up to its m-th configuration, and fl adds up the strings.
WrittenAs(tr, m, fl) ==
  /\ IsTrace(tr, m, Last(caller)) /\ tr[m].pc = "return" /\ tr[m].fr = <<>>
  /\ IsStream(stream, tr[m].names, fl, tr[m].bytes)
  /\ Len(tr[m].names) < Card(32) /\ Len(tr[m].names) <= Cardinality(WritableStrings)

\* The writer has come to the m-th configuration of the run tr.
WriterRun(tr, m) ==
  \E root, c : root = Last(caller) /\ c = tr[m] /\ IsTrace(tr, m, root) /\ WriterAt(c, root)

WriterInv ==
  /\ wpc # "failed" => caller \in Callers
  /\ wpc = "enter" => out = <<>> /\ wstrings = <<>>
  /\ wpc \in {"value", "loop", "return"} =>
       \E tr, m : WriterRun(tr, m)
  /\ wpc = "written" => \E tr, m, fl : WrittenAs(tr, m, fl)

\* Nothing is written at first.
LEMMA WriterInit == Init => WriterInv
<1> SUFFICES ASSUME Init PROVE WriterInv
  OBVIOUS
<1>1. (wpc = "enter" /\ caller \in Callers /\ out = <<>> /\ wstrings = <<>>) \/ wpc = "failed"
  BY DEF Init, Writer!Init, NoWriter
<1> QED BY <1>1 DEF WriterInv

\* writeBinaryTable calls writeValue for its argument.
LEMMA EnterBegins ==
  ASSUME StackInv, WriterInv, Writer!Enter
  PROVE  WriterInv'
<1> PICK root : root = Last(caller)
  OBVIOUS
<1> DEFINE c == Conf("value", <<>>, <<>>, <<>>, <<>>)
           tr == [j \in 1..1 |-> c]
<1>1. /\ wpc' = "value" /\ wpc = "enter" /\ UNCHANGED <<caller, wframes, out, wstrings>>
      /\ out = <<>> /\ wstrings = <<>> /\ wframes = <<>>
  BY DEF Writer!Enter, Writer!strTable, WriterInv, StackInv, WriterRuns
<1>2. IsTrace(tr, 1, root)
  BY TraceBegins
<1>3. tr[1] = c
  OBVIOUS
<1>4. c.pc = "value" /\ c.fr = <<>> /\ c.bytes = <<>> /\ c.names = <<>>
  BY ConfFields
<1> HIDE DEF c, tr
<1>5. Len(c.fr) = 0 /\ wframes' = <<>> /\ Len(wframes') = 0
  BY <1>1, <1>4
<1>6. WriterAt(c, root)'
  BY <1>1, <1>4, <1>5 DEF WriterAt
<1>7. caller \in Callers
  BY <1>1 DEF WriterInv
<1>8. WriterRun(tr, 1)'
  BY <1>1, <1>2, <1>3, <1>6 DEF WriterRun
<1> QED BY <1>1, <1>7, <1>8 DEF WriterInv

\* writeValue, writeTable: a step of the writer is a step of the run.
LEMMA WriterStep ==
  ASSUME StackInv, Interned, Interned', Storable, wpc \in {"value", "loop", "return"},
         Writer!Write, wpc' \in {"value", "loop", "return"},
         NEW c, NEW root \in Writable, Sound(c, root), WriterAt(c, root)
  PROVE  \E d : Moves(c, d, root) /\ WriterAt(d, root)'
<1>1. ~Writer!Enter /\ ~Writer!Refuse /\ ~Writer!Finish /\ ~Writer!Fail
  BY DEF Writer!Enter, Writer!Refuse, Writer!Finish, Writer!Fail
<1>2. \/ Writer!WriteScalar \/ Writer!WriteString \/ Writer!WriteEmpty \/ Writer!BeginArray \/ Writer!BeginHash
      \/ Writer!LoopEntry \/ Writer!LoopEnd \/ Writer!ReturnKey \/ Writer!ReturnValue
  BY <1>1 DEF Writer!Write
<1>3. CASE Writer!WriteScalar
  BY <1>3, ScalarMoves
<1>4. CASE Writer!WriteString
  BY <1>4, StringMoves
<1>5. CASE Writer!WriteEmpty
  BY <1>5, EmptyMoves
<1>6. CASE Writer!BeginArray
  BY <1>6, ArrayMoves
<1>7. CASE Writer!BeginHash
  <2>1. wpc' = "loop"
    BY <1>7 DEF Writer!BeginHash
  <2> QED BY <1>7, <2>1, HashMoves
<1>8. CASE Writer!LoopEntry
  BY <1>8, EntryMoves
<1>9. CASE Writer!LoopEnd
  BY <1>9, EndMoves
<1>10. CASE Writer!ReturnKey
  BY <1>10, KeyMoves
<1>11. CASE Writer!ReturnValue
  BY <1>11, ValueMoves
<1> QED BY <1>2, <1>3, <1>4, <1>5, <1>6, <1>7, <1>8, <1>9, <1>10, <1>11

\* The run goes on with it.
LEMMA WriterMoves ==
  ASSUME StackInv, Interned, Interned', Storable, WriterInv, wpc \in {"value", "loop", "return"},
         Writer!Write, wpc' \in {"value", "loop", "return"}
  PROVE  WriterInv'
<1>1. PICK tr, m : WriterRun(tr, m)
  BY DEF WriterInv
<1> PICK root, c : root = Last(caller) /\ c = tr[m] /\ IsTrace(tr, m, root) /\ WriterAt(c, root)
  BY <1>1 DEF WriterRun
<1>2. caller \in Callers /\ root \in Writable
  BY WritableAre DEF WriterInv
<1>3. Sound(c, root)
  BY DEF IsTrace
<1>4. PICK d : Moves(c, d, root) /\ WriterAt(d, root)'
  BY <1>1, <1>2, <1>3, WriterStep
<1>5. UNCHANGED caller
  BY DEF Writer!Write, Writer!Enter, Writer!WriteScalar, Writer!WriteString, Writer!Refuse,
         Writer!WriteEmpty, Writer!BeginArray, Writer!BeginHash, Writer!LoopEntry, Writer!LoopEnd,
         Writer!ReturnKey, Writer!ReturnValue, Writer!Finish, Writer!Fail
<1>6. PICK tr2 : IsTrace(tr2, m + 1, root) /\ tr2[m + 1] = d
  BY <1>1, <1>4, TraceGoesOn
<1>7. root = Last(caller')
  BY <1>5
<1>8. WriterRun(tr2, m + 1)'
  BY <1>4, <1>6, <1>7 DEF WriterRun
<1> QED BY <1>2, <1>5, <1>8 DEF WriterInv

\* The end of writeBinaryTable.
LEMMA FinishWrites ==
  ASSUME StackInv, Interned, WrittenBytes, Storable, WriterInv, Writer!Finish
  PROVE  WriterInv'
<1>1. wpc = "return" /\ wframes = <<>> /\ wpc' = "written" /\ UNCHANGED caller
  BY DEF Writer!Finish
<1>0. PICK tr, m : WriterRun(tr, m)
  BY <1>1 DEF WriterInv
<1>2. PICK root, c : root = Last(caller) /\ c = tr[m] /\ IsTrace(tr, m, root) /\ WriterAt(c, root)
  BY <1>0 DEF WriterRun
<1>3. Sound(c, root)
  BY <1>2 DEF IsTrace
<1>4. /\ c.pc = "return" /\ out = c.bytes /\ wstrings = c.names /\ c.names \in Seq(Name) /\ c.fr = <<>>
  <2>1. Len(wframes) = 0 /\ Len(c.fr) = 0 /\ c.fr \in Seq(Visit)
    BY <1>1, <1>2, <1>3 DEF WriterAt, Sound, Nested
  <2> QED BY <1>1, <1>2, <1>3, <2>1, EmptySeq DEF WriterAt, Sound
<1>5. PICK fl : IsStream(stream', c.names, fl, c.bytes)
  BY <1>4, Streamed
<1>6. Len(c.names) < Card(32) /\ Len(c.names) <= Cardinality(WritableStrings)
  <2>1. \A i, j \in 1..Len(c.names) : c.names[i] = c.names[j] => i = j
    <3>1. \A i, j \in DOMAIN wstrings : wstrings[i] = wstrings[j] => i = j
      BY DEF Interned, Writer!Interned, Writer!IsInjective
    <3> QED BY <1>4, <3>1
  <2> QED BY <1>4, <2>1, FewNames
<1>7. WrittenAs(tr, m, fl)'
  BY <1>1, <1>2, <1>4, <1>5, <1>6 DEF WrittenAs
<1>8. caller \in Callers
  BY <1>1 DEF WriterInv
<1> QED BY <1>1, <1>7, <1>8 DEF WriterInv

\* No step of writer or reader leads the writer astray.
LEMMA WriterNext ==
  StackInv /\ Interned /\ Interned' /\ WrittenBytes /\ Storable /\ WriterInv /\ [Next]_vars => WriterInv'
<1> SUFFICES ASSUME StackInv, Interned, Interned', WrittenBytes, Storable, WriterInv, [Next]_vars PROVE WriterInv'
  OBVIOUS
<1>1. CASE Write
  <2>1. Writer!Write /\ UNCHANGED caller
    BY <1>1 DEF Write, Writer!Write, Writer!Enter, Writer!WriteScalar, Writer!WriteString, Writer!Refuse,
         Writer!WriteEmpty, Writer!BeginArray, Writer!BeginHash, Writer!LoopEntry, Writer!LoopEnd,
         Writer!ReturnKey, Writer!ReturnValue, Writer!Finish, Writer!Fail
  <2>2. CASE Writer!Enter
    BY <2>2, EnterBegins
  <2>3. CASE Writer!Finish
    BY <2>3, FinishWrites
  <2>4. CASE Writer!Fail
    BY <2>4 DEF Writer!Fail, WriterInv
  <2>5. CASE wpc' = "fail" /\ wpc # "failed"
    BY <2>1, <2>5 DEF WriterInv
  <2>6. /\ Writer!Enter \/ Writer!Finish \/ Writer!Fail
           \/ (wpc \in {"value", "loop", "return"} /\ wpc' \in {"value", "loop", "return", "fail"})
    BY <2>1 DEF Writer!Write, Writer!WriteScalar, Writer!WriteString, Writer!Refuse,
         Writer!WriteEmpty, Writer!BeginArray, Writer!BeginHash, Writer!LoopEntry, Writer!LoopEnd,
         Writer!ReturnKey, Writer!ReturnValue, Writer!IsTable
  <2> QED BY <2>1, <2>2, <2>3, <2>4, <2>5, <2>6, WriterMoves
<1>2. CASE UNCHANGED writerVars
  <2>1. UNCHANGED <<caller, wL, wframes, wstrings, out, stream, wpc>>
    BY <1>2 DEF writerVars
  <2>2. ASSUME NEW tr, NEW m, WriterRun(tr, m) PROVE WriterRun(tr, m)'
    <3>1. PICK root, c : root = Last(caller) /\ c = tr[m] /\ IsTrace(tr, m, root) /\ WriterAt(c, root)
      BY <2>2 DEF WriterRun
    <3>2. WriterAt(c, root)'
      BY <2>1, <3>1 DEF WriterAt, Mirrors, Slots, KeysSlot
    <3> QED BY <2>1, <3>1, <3>2 DEF WriterRun
  <2>3. ASSUME NEW tr, NEW m, NEW fl, WrittenAs(tr, m, fl) PROVE WrittenAs(tr, m, fl)'
    BY <2>1, <2>3 DEF WrittenAs
  <2>4. wpc \in {"value", "loop", "return"} => \E tr, m : WriterRun(tr, m)'
    BY <2>2 DEF WriterInv
  <2>5. wpc = "written" => \E tr, m, fl : WrittenAs(tr, m, fl)'
    BY <2>3 DEF WriterInv
  <2> QED BY <2>1, <2>4, <2>5 DEF WriterInv
<1>3. Write \/ UNCHANGED writerVars
  BY DEF Next, Write, Store, Read, Ended, vars
<1> QED BY <1>1, <1>2, <1>3

\* What the writer has written is the run it has gone through.
LEMMA WriterInvariant == ASSUME Storable PROVE Spec => []WriterInv
BY WriterInit, WriterNext, StackInvariant, StringsNumbered, BytesOnly, PTL DEF Spec, BytesInv

-----------------------------------------------------------------------------
(* The parts of a file.                                                    *)

\* The bytes b are found in s behind p other ones.
Piece(s, p, b) ==
  p \in Nat /\ b \in Seq(Byte) /\ p + Len(b) <= Len(s) /\ \A k \in 1..Len(b) : s[p + k] = b[k]

\* Two sequences, one behind the other.
LEMMA PieceParts ==
  ASSUME NEW a \in Seq(Byte), NEW b \in Seq(Byte)
  PROVE  Piece(a \o b, 0, a) /\ Piece(a \o b, Len(a), b) /\ a \o b \in Seq(Byte) /\ Len(a \o b) = Len(a) + Len(b)
<1> DEFINE r == a \o b
<1>1. /\ r \in Seq(Byte) /\ Len(r) = Len(a) + Len(b) /\ Len(a) \in Nat /\ Len(b) \in Nat
      /\ \A k \in 1..Len(a) : r[k] = a[k]
      /\ \A k \in 1..Len(b) : r[Len(a) + k] = b[k]
  BY Joined
<1> HIDE DEF r
<1>2. Piece(r, 0, a)
  BY <1>1 DEF Piece
<1>3. Piece(r, Len(a), b)
  BY <1>1 DEF Piece
<1> QED BY <1>1, <1>2, <1>3 DEF r

\* A part of a part.
LEMMA PieceOfPiece ==
  ASSUME NEW s \in Seq(Byte), NEW p, NEW b, NEW q, NEW c, Piece(s, p, b), Piece(b, q, c)
  PROVE  Piece(s, p + q, c)
<1>1. p \in Nat /\ q \in Nat /\ b \in Seq(Byte) /\ c \in Seq(Byte) /\ Len(b) \in Nat /\ Len(c) \in Nat /\ Len(s) \in Nat
  BY DEF Piece
<1>2. p + Len(b) <= Len(s) /\ q + Len(c) <= Len(b)
  BY DEF Piece
<1>3. ASSUME NEW k \in 1..Len(c) PROVE s[p + q + k] = c[k]
  <2>1. q + k \in 1..Len(b) /\ p + (q + k) = p + q + k
    BY <1>1, <1>2
  <2> QED BY <2>1 DEF Piece
<1> QED BY <1>1, <1>2, <1>3 DEF Piece

\* What a sequence begins with.
LEMMA PieceBegins ==
  ASSUME NEW a \in Seq(Byte), NEW b \in Seq(Byte), Begins(a, b)
  PROVE  Piece(b, 0, a)
BY DEF Begins, Piece

\* Each of the sequences that fl adds up.
LEMMA PoolPieces ==
  ASSUME NEW seqs \in Seq(Seq(Byte)), NEW fl, IsFlat(fl, seqs, Byte)
  PROVE  /\ \A k \in 0..Len(seqs) : fl[k] \in Seq(Byte)
         /\ \A k \in 1..Len(seqs) :
              /\ Piece(fl[Len(seqs)], Len(fl[k - 1]), seqs[k]) /\ Len(fl[k]) = Len(fl[k - 1]) + Len(seqs[k])
<1> DEFINE n == Len(seqs)
<1>1. n \in Nat /\ (\A k \in 1..n : seqs[k] \in Seq(Byte)) /\ \A k \in 0..n : fl[k] \in Seq(Byte)
  <2>1. n \in Nat /\ \A k \in 1..n : seqs[k] \in Seq(Byte)
    OBVIOUS
  <2>2. \A k \in 0..n : fl[k] \in Seq(Byte)
    BY DEF IsFlat
  <2> QED BY <2>1, <2>2
<1>2. \A k \in 1..n : fl[k] = fl[k - 1] \o seqs[k]
  BY DEF IsFlat
<1>3. ASSUME NEW k \in 1..n
      PROVE  /\ Piece(fl[k], Len(fl[k - 1]), seqs[k]) /\ Piece(fl[k], 0, fl[k - 1])
             /\ Len(fl[k]) = Len(fl[k - 1]) + Len(seqs[k])
  <2>1. fl[k - 1] \in Seq(Byte) /\ seqs[k] \in Seq(Byte)
    BY <1>1
  <2> QED BY <1>2, <2>1, PieceParts
<1> HIDE DEF n
<1>4. ASSUME NEW k \in 1..n PROVE Piece(fl[n], Len(fl[k - 1]), seqs[k])
  <2> DEFINE G == {d \in Nat : k + d <= n => Piece(fl[k + d], Len(fl[k - 1]), seqs[k])}
  <2>1. 0 \in G
    <3>1. k + 0 = k
      BY <1>1
    <3> QED BY <1>3, <3>1
  <2>2. ASSUME NEW d \in Nat, d \in G PROVE d + 1 \in G
    <3> SUFFICES ASSUME k + (d + 1) <= n PROVE Piece(fl[k + (d + 1)], Len(fl[k - 1]), seqs[k])
      OBVIOUS
    <3> DEFINE m == k + (d + 1)
    <3>1. m \in 1..n /\ m - 1 = k + d /\ k + d <= n /\ m \in 0..n
      BY <1>1
    <3> HIDE DEF m
    <3>2. Piece(fl[m], 0, fl[k + d])
      BY <1>3, <3>1
    <3>3. Piece(fl[k + d], Len(fl[k - 1]), seqs[k])
      BY <2>2, <3>1
    <3>4. Piece(fl[m], 0 + Len(fl[k - 1]), seqs[k])
      BY <1>1, <3>1, <3>2, <3>3, PieceOfPiece
    <3>5. 0 + Len(fl[k - 1]) = Len(fl[k - 1])
      BY <3>3 DEF Piece
    <3> QED BY <3>4, <3>5 DEF m
  <2>3. Nat \subseteq G
    <3> HIDE DEF G
    <3> QED BY <2>1, <2>2, Induction
  <2>4. n - k \in Nat /\ k + (n - k) = n /\ n <= n
    BY <1>1
  <2>5. k + (n - k) <= n => Piece(fl[k + (n - k)], Len(fl[k - 1]), seqs[k])
    BY <2>3, <2>4
  <2> QED BY <2>4, <2>5
<1> QED BY <1>1, <1>3, <1>4 DEF n

\* The length of a string is written as two bytes.
LEMMA WrittenLength ==
  ASSUME NEW n \in Nat
  PROVE  writeNumber(16, n) \in Seq(Byte) /\ Len(writeNumber(16, n)) = Sizeof[16]
<1>1. 16 \in Widths /\ n \in Int
  BY DEF Widths
<1> QED BY <1>1, WrittenNumber

\* A string of the pool.
LEMMA NameIs ==
  ASSUME Storable, NEW x \in Name
  PROVE  x = Str(x[2]) /\ x[2] \in Seq(Byte) /\ Len(x[2]) \in Nat \ {0} /\ Len(x[2]) < Card(16)
<1>1. x \in Writable /\ lua_type(x) = "str" /\ x # Str(<<>>)
  BY DEF Name, WritableStrings
<1>2. IsValue(x) /\ StorableValue(x)
  BY <1>1, WritableValue DEF Storable
<1>3. x = Str(x[2]) /\ x[2] \in Seq(Byte) /\ Len(x[2]) < Card(16)
  BY <1>1, <1>2 DEF IsValue, StorableValue, TStringLength, Byte
<1>4. x[2] # <<>>
  BY <1>1, <1>3
<1>5. Len(x[2]) \in Nat /\ Len(x[2]) # 0
  BY <1>3, <1>4, EmptySeq
<1> QED BY <1>3, <1>5

\* Where the string behind the k-th begins, and the values behind the last of them.
PoolAt(fl, k) == 2 * Sizeof[16] + Sizeof[32] + Len(fl[k])

BodyAt(names, fl) == PoolAt(fl, Len(names))

\* The parts of a file.
LEMMA StreamPieces ==
  ASSUME Storable, NEW s, NEW names \in Seq(Name), NEW fl, NEW bytes \in Seq(Byte), IsStream(s, names, fl, bytes)
  PROVE  /\ Piece(s, 0, writeNumber(16, MAGIC_NUMBER)) /\ Piece(s, Sizeof[16], writeNumber(16, LUABT_VERSION))
         /\ Piece(s, 2 * Sizeof[16], writeNumber(32, Len(names)))
         /\ PoolAt(fl, 0) = 2 * Sizeof[16] + Sizeof[32]
         /\ \A k \in 1..Len(names) :
              /\ Piece(s, PoolAt(fl, k - 1), writeNumber(16, Len(names[k][2])))
              /\ Piece(s, PoolAt(fl, k - 1) + Sizeof[16], names[k][2])
              /\ PoolAt(fl, k) = PoolAt(fl, k - 1) + Sizeof[16] + Len(names[k][2])
         /\ Piece(s, BodyAt(names, fl), bytes) /\ Len(s) = BodyAt(names, fl) + Len(bytes)
         /\ s \in Seq(Byte) /\ BodyAt(names, fl) \in Nat
<1> DEFINE n == Len(names)
           S16 == Sizeof[16]
           S32 == Sizeof[32]
           magic == writeNumber(16, MAGIC_NUMBER)
           version == writeNumber(16, LUABT_VERSION)
           size == writeNumber(32, n)
           pool == fl[n]
           q == size \o pool
           h == FileHead \o q
<1>1. n \in Nat /\ S16 \in Nat /\ S32 \in Nat
  BY WireAssumption
<1>2. /\ magic \in Seq(Byte) /\ Len(magic) = S16 /\ version \in Seq(Byte) /\ Len(version) = S16
      /\ size \in Seq(Byte) /\ Len(size) = S32
  BY <1>1, WireAssumption, WrittenNumber DEF Widths, MAGIC_NUMBER, LUABT_VERSION
<1>3. PoolOf(names) \in Seq(Seq(Byte)) /\ Len(PoolOf(names)) = n
  <2>1. ASSUME NEW k \in 1..n PROVE writeNumber(16, Len(names[k][2])) \o names[k][2] \in Seq(Byte)
    <3>1. names[k] \in Name
      OBVIOUS
    <3>2. names[k][2] \in Seq(Byte) /\ Len(names[k][2]) \in Nat
      BY <3>1, NameIs
    <3>3. writeNumber(16, Len(names[k][2])) \in Seq(Byte)
      BY <3>2, WrittenLength
    <3> QED BY <3>2, <3>3, ConcatProperties
  <2> QED BY <1>1, <2>1 DEF PoolOf, TStringLength
<1>4. /\ \A k \in 0..n : fl[k] \in Seq(Byte)
      /\ \A k \in 1..n : Piece(pool, Len(fl[k - 1]), PoolOf(names)[k]) /\ Len(fl[k]) = Len(fl[k - 1]) + Len(PoolOf(names)[k])
  <2>1. IsFlat(fl, PoolOf(names), Byte)
    BY DEF IsStream
  <2> HIDE DEF PoolOf
  <2> QED BY <1>3, <2>1, PoolPieces
<1>5. fl[0] = <<>> /\ Len(fl[0]) = 0
  BY DEF IsStream, IsFlat
<1>6. s = h \o bytes /\ FileHead = magic \o version
  BY DEF IsStream, FileHead, TStringPoolLength
<1> HIDE DEF n, S16, S32, magic, version, size, pool, q, h, PoolOf
<1>7. pool \in Seq(Byte) /\ Len(pool) \in Nat
  BY <1>1, <1>4 DEF pool
<1>8. /\ Piece(FileHead, 0, magic) /\ Piece(FileHead, Len(magic), version) /\ FileHead \in Seq(Byte)
      /\ Len(FileHead) = Len(magic) + Len(version)
  BY <1>2, <1>6, PieceParts
<1>9. Piece(q, 0, size) /\ Piece(q, Len(size), pool) /\ q \in Seq(Byte) /\ Len(q) = Len(size) + Len(pool)
  BY <1>2, <1>7, PieceParts DEF q
<1>10. /\ Piece(h, 0, FileHead) /\ Piece(h, Len(FileHead), q) /\ h \in Seq(Byte) /\ Len(h) = Len(FileHead) + Len(q)
  BY <1>8, <1>9, PieceParts DEF h
<1>11. Piece(s, 0, h) /\ Piece(s, Len(h), bytes) /\ s \in Seq(Byte) /\ Len(s) = Len(h) + Len(bytes)
  BY <1>6, <1>10, PieceParts
<1>12. Piece(s, 0 + 0 + 0, magic) /\ Piece(s, 0 + 0 + Len(magic), version)
  BY <1>8, <1>10, <1>11, PieceOfPiece
<1>13. Piece(s, 0 + Len(FileHead), q)
  BY <1>10, <1>11, PieceOfPiece
<1>14. Piece(s, 0 + Len(FileHead) + 0, size) /\ Piece(s, 0 + Len(FileHead) + Len(size), pool)
  BY <1>9, <1>11, <1>13, PieceOfPiece
<1>15. Len(FileHead) = 2 * S16 /\ Len(size) = S32 /\ Len(h) = 2 * S16 + S32 + Len(pool)
  BY <1>1, <1>2, <1>7, <1>8, <1>9, <1>10
<1>16. Piece(s, 0, magic) /\ Piece(s, S16, version) /\ Piece(s, 2 * S16, size) /\ Piece(s, 2 * S16 + S32, pool)
  <2>1. 0 + 0 + 0 = 0 /\ 0 + 0 + Len(magic) = S16
    BY <1>1, <1>2
  <2>2. 0 + Len(FileHead) + 0 = 2 * S16 /\ 0 + Len(FileHead) + Len(size) = 2 * S16 + S32
    BY <1>1, <1>15
  <2> QED BY <1>12, <1>14, <2>1, <2>2
<1>17. ASSUME NEW k \in 1..n
       PROVE  /\ Piece(s, PoolAt(fl, k - 1), writeNumber(16, Len(names[k][2])))
              /\ Piece(s, PoolAt(fl, k - 1) + S16, names[k][2])
              /\ PoolAt(fl, k) = PoolAt(fl, k - 1) + S16 + Len(names[k][2])
  <2> DEFINE a == writeNumber(16, Len(names[k][2]))
             b == names[k][2]
             p == PoolAt(fl, k - 1)
  <2>1. names[k] \in Name
    BY DEF n
  <2>2. b \in Seq(Byte) /\ Len(b) \in Nat
    BY <2>1, NameIs
  <2>3. a \in Seq(Byte) /\ Len(a) = S16
    BY <2>2, WrittenLength DEF S16
  <2>4. PoolOf(names)[k] = a \o b
    BY DEF PoolOf, n, TStringLength
  <2> HIDE DEF a, b
  <2>5. Piece(a \o b, 0, a) /\ Piece(a \o b, Len(a), b) /\ Len(a \o b) = Len(a) + Len(b)
    BY <2>2, <2>3, PieceParts
  <2>6. Piece(s, 2 * S16 + S32 + Len(fl[k - 1]), a \o b)
    <3>1. Piece(pool, Len(fl[k - 1]), a \o b)
      BY <1>4, <2>4
    <3> QED BY <1>11, <1>16, <3>1, PieceOfPiece
  <2>7. Piece(s, p, a \o b)
    BY <2>6 DEF PoolAt, S16, S32
  <2>8. PoolAt(fl, k) = p + S16 + Len(b)
    <3>1. Len(fl[k]) = Len(fl[k - 1]) + (S16 + Len(b))
      BY <1>4, <2>3, <2>4, <2>5
    <3>2. fl[k - 1] \in Seq(Byte)
      BY <1>1, <1>4
    <3>3. Len(fl[k - 1]) \in Nat
      BY <3>2
    <3>4. 2 * S16 + S32 + Len(fl[k]) = 2 * S16 + S32 + Len(fl[k - 1]) + S16 + Len(b)
      <4> DEFINE x == Len(fl[k - 1])
                 y == Len(b)
                 z == Len(fl[k])
      <4>1. x \in Nat /\ y \in Nat /\ z = x + (S16 + y)
        BY <2>2, <3>1, <3>3
      <4> HIDE DEF x, y, z
      <4>2. 2 * S16 + S32 + z = 2 * S16 + S32 + x + S16 + y
        BY <1>1, <4>1
      <4> QED BY <4>2 DEF x, y, z
    <3> QED BY <3>4 DEF PoolAt, S16, S32
  <2> HIDE DEF p
  <2>9. p \in Nat
    BY <2>7 DEF Piece
  <2>10. Piece(s, p + 0, a) /\ Piece(s, p + Len(a), b)
    BY <1>11, <2>5, <2>7, PieceOfPiece
  <2>11. p + 0 = p
    BY <2>9
  <2> QED BY <2>3, <2>8, <2>10, <2>11 DEF a, b, p
<1>18. Len(h) = BodyAt(names, fl) /\ Len(h) \in Nat
  BY <1>1, <1>7, <1>15 DEF BodyAt, PoolAt, S16, S32, pool, n
<1>19. PoolAt(fl, 0) = 2 * S16 + S32
  BY <1>1, <1>5 DEF PoolAt, S16, S32
<1> QED BY <1>11, <1>16, <1>17, <1>18, <1>19 DEF magic, version, size, n, S16, S32

\* What the next move writes.
LEMMA TokenPiece ==
  ASSUME NEW s \in Seq(Byte), NEW p, NEW all, Piece(s, p, all),
         NEW a \in Seq(Byte), NEW b \in Seq(Byte), Begins(a \o b, all)
  PROVE  Piece(s, p + Len(a), b) /\ Len(a \o b) = Len(a) + Len(b)
<1>1. all \in Seq(Byte)
  BY DEF Piece
<1>2. Piece(a \o b, Len(a), b) /\ a \o b \in Seq(Byte) /\ Len(a \o b) = Len(a) + Len(b)
  BY PieceParts
<1>3. Piece(all, 0, a \o b)
  BY <1>1, <1>2, PieceBegins
<1>4. Piece(all, 0 + Len(a), b)
  BY <1>1, <1>2, <1>3, PieceOfPiece
<1>5. 0 + Len(a) = Len(a)
  OBVIOUS
<1> QED BY <1>2, <1>4, <1>5, PieceOfPiece

\* A tag is a number of one byte.
LEMMA TagWritten ==
  ASSUME NEW t \in Byte
  PROVE  writeNumber(8, t) = <<t>> /\ t % Card(8) = t /\ Sizeof[8] = 1 /\ <<t>> \in Seq(Byte)
<1>1. Sizeof[8] = 1 /\ Base \in Nat \ {0} /\ t \in 0..(Base - 1)
  BY WireAssumption DEF Byte
<1>2. Pow[0] = 1 /\ Pow[1] = Base
  <2>1. Pow[0] = 1 /\ Pow[0 + 1] = Base * Pow[0]
    BY PowDef
  <2> QED BY <1>1, <2>1
<1>3. Card(8) = Base
  BY <1>1, <1>2 DEF Card
<1>4. t \div 1 = t /\ t % Base = t
  BY <1>1
<1>5. writeNumber(8, t) = [k \in 1..1 |-> t]
  <2>1. \A k \in 1..1 : (t \div Pow[k - 1]) % Base = t
    <3> SUFFICES ASSUME NEW k \in 1..1 PROVE (t \div Pow[k - 1]) % Base = t
      OBVIOUS
    <3>1. k - 1 = 0
      OBVIOUS
    <3> QED BY <1>2, <1>4, <3>1
  <2> QED BY <1>1, <2>1 DEF writeNumber
<1>6. [k \in 1..1 |-> t] = <<t>>
  OBVIOUS
<1> QED BY <1>1, <1>3, <1>4, <1>5, <1>6

\* A tag and its operand.
LEMMA OperandPiece ==
  ASSUME NEW s \in Seq(Byte), NEW p, NEW t \in Byte, NEW o \in Seq(Byte), Piece(s, p, <<t>> \o o)
  PROVE  Piece(s, p, <<t>>) /\ Piece(s, p + 1, o) /\ Len(<<t>> \o o) = 1 + Len(o)
<1> DEFINE a == <<t>>
<1>1. a \in Seq(Byte) /\ Len(a) = 1
  OBVIOUS
<1> HIDE DEF a
<1>2. Piece(a \o o, 0, a) /\ Piece(a \o o, Len(a), o) /\ Len(a \o o) = Len(a) + Len(o)
  BY <1>1, PieceParts
<1>3. Piece(s, p, a \o o)
  BY DEF a
<1>4. Piece(s, p + 0, a) /\ Piece(s, p + Len(a), o)
  BY <1>2, <1>3, PieceOfPiece
<1>5. p + 0 = p
  BY <1>3 DEF Piece
<1> QED BY <1>1, <1>2, <1>4, <1>5 DEF a

-----------------------------------------------------------------------------
(* What the reader finds.                                                  *)

\* A part of the file, when it is there.
LEMMA PieceAhead ==
  ASSUME data \in Seq(Byte), NEW s \in Seq(Byte), Begins(data, s), NEW b, Piece(s, p_, b)
  PROVE  /\ p_ + Len(b) <= Len(data) => Reader!Reader!Ahead(Len(b)) = b
         /\ p_ + Len(b) > Len(data) => data # s
         /\ Len(b) \in Nat /\ Len(data) \in Nat
<1>1. b \in Seq(Byte) /\ Len(b) \in Nat /\ p_ \in Nat /\ Len(data) \in Nat /\ Len(s) \in Nat /\ p_ + Len(b) <= Len(s)
  BY DEF Piece
<1>2. ASSUME p_ + Len(b) <= Len(data) PROVE SubSeq(data, p_ + 1, p_ + Len(b)) = b
  <2> DEFINE m == p_ + 1
             n == p_ + Len(b)
             r == SubSeq(data, m, n)
  <2>1. r \in Seq(Byte) /\ Len(r) = Len(b) /\ \A k \in 1..Len(b) : r[k] = data[p_ + k]
    <3>1. m \in Int /\ n \in Int /\ n - m + 1 = Len(b) /\ (m <= n <=> Len(b) # 0)
      BY <1>1
    <3>2. \A i \in m..n : data[i] \in Byte
      <4>1. \A i \in m..n : i \in 1..Len(data)
        BY <1>1, <1>2
      <4> QED BY <4>1
    <3>3. \A i \in 1..Len(b) : m + i - 1 = p_ + i
      BY <1>1
    <3> HIDE DEF m, n
    <3>4. /\ r \in Seq(Byte) /\ Len(r) = (IF m <= n THEN n - m + 1 ELSE 0)
          /\ \A i \in 1..(n - m + 1) : r[i] = data[m + i - 1]
      BY <3>1, <3>2, SubSeqProperties
    <3> HIDE DEF r
    <3> QED BY <1>1, <3>1, <3>3, <3>4
  <2> HIDE DEF r
  <2>2. \A k \in 1..Len(b) : r[k] = b[k]
    <3> SUFFICES ASSUME NEW k \in 1..Len(b) PROVE data[p_ + k] = b[k]
      BY <2>1
    <3>1. p_ + k \in 1..Len(data)
      BY <1>1, <1>2
    <3>2. s[p_ + k] = data[p_ + k]
      BY <3>1 DEF Begins
    <3> QED BY <3>2 DEF Piece
  <2>3. r = b
    BY <1>1, <2>1, <2>2, SeqEqual
  <2> QED BY <2>3 DEF r
<1>3. p_ + Len(b) <= Len(data) => Reader!Reader!Ahead(Len(b)) = b
  BY <1>2 DEF Reader!Reader!Ahead
<1>4. p_ + Len(b) > Len(data) => data # s
  BY <1>1
<1> QED BY <1>1, <1>3, <1>4

\* A number is read as it was written, or else the file has lost its end.
LEMMA NumberFound ==
  ASSUME data \in Seq(Byte), NEW s \in Seq(Byte), Begins(data, s),
         NEW bits \in Widths, NEW v \in Int, Piece(s, p_, writeNumber(bits, v)), Reader!Reader!readNumber(bits)
  PROVE  /\ UNCHANGED data /\ p_' = p_ + Sizeof[bits] /\ p_ \in Nat /\ Len(data) \in Nat /\ p_' \in Nat
         /\ \/ p_' <= Len(data) /\ Reader!Reader!Value(bits) = v % Card(bits) /\ short' = short
            \/ p_' > Len(data) /\ Reader!Reader!Value(bits) = 0 /\ short' = TRUE /\ data # s
<1>1. Len(writeNumber(bits, v)) = Sizeof[bits] /\ Sizeof[bits] \in Nat
  BY WrittenNumber
<1>2. /\ p_ + Sizeof[bits] <= Len(data) => Reader!Reader!Ahead(Sizeof[bits]) = writeNumber(bits, v)
      /\ p_ + Sizeof[bits] > Len(data) => data # s
      /\ Len(data) \in Nat
  BY <1>1, PieceAhead
<1>3. p_ \in Nat
  BY DEF Piece
<1>4. /\ UNCHANGED data /\ p_' = p_ + Sizeof[bits]
      /\ p_ + Sizeof[bits] <= Len(data) => short' = short /\ Reader!Reader!Value(bits) = Unsigned(Reader!Reader!Ahead(Sizeof[bits]))
      /\ ~(p_ + Sizeof[bits] <= Len(data)) => short' = TRUE /\ Reader!Reader!Value(bits) = 0
  BY SameUnsigned DEF Reader!Reader!readNumber, Reader!Reader!AfterNumber, Reader!Reader!Fits, Reader!Reader!end_, Reader!Reader!Deliver,
       Reader!Reader!FallShort, Reader!Reader!Value
<1>5. Unsigned(writeNumber(bits, v)) = v % Card(bits)
  BY NumbersReadBack
<1>6. CASE p_ + Sizeof[bits] <= Len(data)
  BY <1>1, <1>2, <1>3, <1>4, <1>5, <1>6
<1>7. CASE ~(p_ + Sizeof[bits] <= Len(data))
  BY <1>1, <1>2, <1>3, <1>4, <1>7
<1> QED BY <1>6, <1>7

\* A string likewise.
LEMMA BytesFound ==
  ASSUME data \in Seq(Byte), NEW s \in Seq(Byte), Begins(data, s), NEW b, Piece(s, p_, b),
         Reader!Reader!readBytes(Len(b))
  PROVE  /\ UNCHANGED data /\ p_ \in Nat /\ Len(b) \in Nat /\ Len(data) \in Nat
         /\ \/ /\ Reader!Reader!Fits(Len(b)) /\ Reader!Reader!Ahead(Len(b)) = b
               /\ p_' = p_ + Len(b) /\ p_' <= Len(data) /\ short' = short
            \/ ~Reader!Reader!Fits(Len(b)) /\ data # s /\ short' = TRUE
<1>1. /\ p_ + Len(b) <= Len(data) => Reader!Reader!Ahead(Len(b)) = b
      /\ p_ + Len(b) > Len(data) => data # s
      /\ Len(b) \in Nat /\ Len(data) \in Nat
  BY PieceAhead
<1>2. p_ \in Nat
  BY DEF Piece
<1> QED BY <1>1, <1>2 DEF Reader!Reader!readBytes, Reader!Reader!AfterBytes, Reader!Reader!Fits, Reader!Reader!end_,
          Reader!Reader!Deliver, Reader!Reader!FallShort

-----------------------------------------------------------------------------
(* Tables that are read.                                                   *)

\* The value y of the reader stands for the value x of the writer: a table for the one
\* that was entered as the t-th, when the t-th was made.
Copy(x, y, made) ==
  IF lua_type(x) = "table" THEN \E t \in 1..Len(made) : y = Tbl(t) /\ made[t] = x[2] ELSE y = x

\* Contents c hold under y what table id holds under k.
Holds(c, made, id, k, y) == Copy(k, y, made) /\ Copy(rawget(Heap[id], k), c[y], made)

\* Contents c are those of table id for the keys D.
Sat(c, made, id, D) ==
  /\ \A k \in D : \E y \in DOMAIN c : Holds(c, made, id, k, y)
  /\ \A y \in DOMAIN c : \E k \in D : Holds(c, made, id, k, y)

\* More tables are entered.
LEMMA CopyGrows ==
  ASSUME NEW S, NEW made \in Seq(S), NEW e \in S, NEW x, NEW y, Copy(x, y, made)
  PROVE  Copy(x, y, Append(made, e))
<1>1. /\ Len(Append(made, e)) = Len(made) + 1 /\ Len(made) \in Nat
      /\ \A t \in 1..Len(made) : Append(made, e)[t] = made[t]
  OBVIOUS
<1>2. 1..Len(made) \subseteq 1..Len(Append(made, e))
  BY <1>1
<1> QED BY <1>1, <1>2 DEF Copy

LEMMA SatGrows ==
  ASSUME NEW S, NEW made \in Seq(S), NEW e \in S, NEW c, NEW id, NEW D, Sat(c, made, id, D)
  PROVE  Sat(c, Append(made, e), id, D)
<1>1. \A x, y : Copy(x, y, made) => Copy(x, y, Append(made, e))
  BY CopyGrows
<1>2. \A k, y : Holds(c, made, id, k, y) => Holds(c, Append(made, e), id, k, y)
  BY <1>1 DEF Holds
<1> QED BY <1>2 DEF Sat

\* A new table is empty.
LEMMA SatEmpty ==
  ASSUME NEW made, NEW id
  PROVE  Sat(Reader!EmptyFcn, made, id, {})
BY DEF Sat, Reader!EmptyFcn

\* Only nil stands for nil.
LEMMA CopyNotNil ==
  ASSUME NEW x, NEW y, NEW made, Copy(x, y, made), x # Nil
  PROVE  y # Nil
<1>1. \A t : Tbl(t) # Nil
  BY DEF Tbl, Nil
<1> QED BY <1>1 DEF Copy

\* The values that stand for tables, and those that do not.
LEMMA CopyType ==
  ASSUME NEW x, NEW y, NEW made, Copy(x, y, made)
  PROVE  /\ lua_type(y) = "table" <=> lua_type(x) = "table"
         /\ lua_type(x) # "table" => y = x
<1>1. \A t : lua_type(Tbl(t)) = "table"
  BY DEF Tbl, lua_type
<1> QED BY <1>1 DEF Copy

\* A key that has not been read is not there yet.
LEMMA KeyIsNew ==
  ASSUME NEW c, NEW made, NEW id, NEW D, Sat(c, made, id, D), NEW k, k \notin D, NEW y, Copy(k, y, made),
         lua_type(k) = "table" => y[2] \notin Within(c)
  PROVE  y \notin DOMAIN c
<1> SUFFICES ASSUME y \in DOMAIN c PROVE FALSE
  OBVIOUS
<1>1. CASE lua_type(k) = "table"
  <2>1. Reader!lua_type(y) = "table"
    BY <1>1, CopyType, SameValues
  <2> QED BY <1>1, <2>1 DEF Within
<1>2. CASE lua_type(k) # "table"
  <2>1. PICK k2 \in D : Copy(k2, y, made)
    BY DEF Sat, Holds
  <2>2. y = k /\ lua_type(y) # "table"
    BY <1>2, CopyType
  <2>3. y = k2
    BY <2>1, <2>2, CopyType
  <2> QED BY <2>2, <2>3
<1> QED BY <1>1, <1>2

\* An entry is set.
LEMMA SatEntered ==
  ASSUME NEW c, NEW made, NEW id, NEW D, Sat(c, made, id, D), NEW k, NEW y, Copy(k, y, made), y \notin DOMAIN c,
         NEW z, Copy(rawget(Heap[id], k), z, made), z # Nil
  PROVE  Sat(Reader!rawset(c, y, z), made, id, D \cup {k})
<1> DEFINE r == [x \in DOMAIN c \cup {y} |-> IF x = y THEN z ELSE c[x]]
<1>1. Reader!rawset(c, y, z) = r
  BY SameValues DEF Reader!rawset
<1>2. DOMAIN r = DOMAIN c \cup {y} /\ r[y] = z /\ \A x \in DOMAIN c : r[x] = c[x]
  OBVIOUS
<1> HIDE DEF r
<1>3. Holds(r, made, id, k, y)
  BY <1>2 DEF Holds
<1>4. \A k2, x : x \in DOMAIN c /\ Holds(c, made, id, k2, x) => Holds(r, made, id, k2, x)
  BY <1>2 DEF Holds
<1>5. \A k2 \in D \cup {k} : \E x \in DOMAIN r : Holds(r, made, id, k2, x)
  BY <1>2, <1>3, <1>4 DEF Sat
<1>6. \A x \in DOMAIN r : \E k2 \in D \cup {k} : Holds(r, made, id, k2, x)
  BY <1>2, <1>3, <1>4 DEF Sat
<1> QED BY <1>1, <1>5, <1>6 DEF Sat

-----------------------------------------------------------------------------
(* A file that was written, and what comes next in it.                     *)

Names(w) == w.tr[w.m].names

Bytes(w) == w.tr[w.m].bytes

Body(w) == BodyAt(Names(w), w.fl)

\* The run w.tr has written the file w.s, in which w.fl adds up the pool of strings.
IsFile(w) ==
  /\ IsTrace(w.tr, w.m, w.root) /\ w.tr[w.m].pc = "return" /\ w.tr[w.m].fr = <<>> /\ w.root \in Writable
  /\ IsStream(w.s, Names(w), w.fl, Bytes(w))
  /\ Len(Names(w)) < Card(32) /\ Len(Names(w)) <= Cardinality(WritableStrings)

\* From c the run goes on to d.
Leads(w, c, d) ==
  /\ Sound(c, w.root) /\ Moves(c, d, w.root) /\ Sound(d, w.root)
  /\ Begins(d.bytes, Bytes(w)) /\ Begins(d.names, Names(w))

\* The parts of a file.
LEMMA FileParts ==
  ASSUME Storable, NEW w, IsFile(w)
  PROVE  /\ w.s \in Seq(Byte) /\ Names(w) \in Seq(Name) /\ Bytes(w) \in Seq(Byte) /\ Len(Names(w)) \in Nat
         /\ Piece(w.s, 0, writeNumber(16, MAGIC_NUMBER)) /\ Piece(w.s, Sizeof[16], writeNumber(16, LUABT_VERSION))
         /\ Piece(w.s, 2 * Sizeof[16], writeNumber(32, Len(Names(w))))
         /\ PoolAt(w.fl, 0) = 2 * Sizeof[16] + Sizeof[32]
         /\ \A k \in 1..Len(Names(w)) :
              /\ Piece(w.s, PoolAt(w.fl, k - 1), writeNumber(16, Len(Names(w)[k][2])))
              /\ Piece(w.s, PoolAt(w.fl, k - 1) + Sizeof[16], Names(w)[k][2])
              /\ PoolAt(w.fl, k) = PoolAt(w.fl, k - 1) + Sizeof[16] + Len(Names(w)[k][2])
         /\ Body(w) = PoolAt(w.fl, Len(Names(w))) /\ Body(w) \in Nat
         /\ Piece(w.s, Body(w), Bytes(w)) /\ Len(w.s) = Body(w) + Len(Bytes(w))
<1>1. w.m \in 1..w.m
  BY DEF IsFile, IsTrace
<1>2. Sound(w.tr[w.m], w.root)
  BY <1>1 DEF IsFile, IsTrace
<1>3. Names(w) \in Seq(Name) /\ Bytes(w) \in Seq(Byte)
  BY <1>2 DEF Sound, Names, Bytes
<1>4. Len(Names(w)) \in Nat
  BY <1>3
<1>5. IsStream(w.s, Names(w), w.fl, Bytes(w))
  BY DEF IsFile
<1> DEFINE s == w.s
           names == Names(w)
           fl == w.fl
           bytes == Bytes(w)
<1> HIDE DEF s, names, fl, bytes
<1>6. names \in Seq(Name) /\ bytes \in Seq(Byte) /\ IsStream(s, names, fl, bytes)
  BY <1>3, <1>5 DEF s, names, fl, bytes
<1>7. /\ Piece(s, 0, writeNumber(16, MAGIC_NUMBER)) /\ Piece(s, Sizeof[16], writeNumber(16, LUABT_VERSION))
      /\ Piece(s, 2 * Sizeof[16], writeNumber(32, Len(names)))
      /\ PoolAt(fl, 0) = 2 * Sizeof[16] + Sizeof[32]
      /\ \A k \in 1..Len(names) :
           /\ Piece(s, PoolAt(fl, k - 1), writeNumber(16, Len(names[k][2])))
           /\ Piece(s, PoolAt(fl, k - 1) + Sizeof[16], names[k][2])
           /\ PoolAt(fl, k) = PoolAt(fl, k - 1) + Sizeof[16] + Len(names[k][2])
      /\ Piece(s, BodyAt(names, fl), bytes) /\ Len(s) = BodyAt(names, fl) + Len(bytes)
      /\ s \in Seq(Byte) /\ BodyAt(names, fl) \in Nat
  BY <1>6, StreamPieces
<1>8. Body(w) = PoolAt(w.fl, Len(Names(w))) /\ Body(w) = BodyAt(names, fl)
  BY DEF Body, BodyAt, names, fl
<1> QED BY <1>3, <1>4, <1>7, <1>8 DEF s, names, fl, bytes

\* What the next move has written lies where the last one has ended.
LEMMA TokenAt ==
  ASSUME Storable, NEW w, IsFile(w), NEW c, NEW d, Leads(w, c, d), NEW b \in Seq(Byte), d.bytes = c.bytes \o b
  PROVE  /\ Piece(w.s, Body(w) + Len(c.bytes), b) /\ Len(d.bytes) = Len(c.bytes) + Len(b)
         /\ Len(c.bytes) \in Nat /\ Len(b) \in Nat /\ Body(w) \in Nat
<1>1. c.bytes \in Seq(Byte) /\ Begins(c.bytes \o b, Bytes(w))
  BY DEF Leads, Sound
<1>2. w.s \in Seq(Byte) /\ Piece(w.s, Body(w), Bytes(w)) /\ Body(w) \in Nat
  BY FileParts
<1>3. Piece(w.s, Body(w) + Len(c.bytes), b) /\ Len(c.bytes \o b) = Len(c.bytes) + Len(b)
  BY <1>1, <1>2, TokenPiece
<1> QED BY <1>1, <1>2, <1>3

\* There is one byte at a place.
LEMMA SameByte ==
  ASSUME NEW s, NEW p, NEW x, NEW y, Piece(s, p, <<x>>), Piece(s, p, <<y>>)
  PROVE  x = y
<1>1. 1 \in 1..Len(<<x>>) /\ 1 \in 1..Len(<<y>>)
  OBVIOUS
<1>2. s[p + 1] = <<x>>[1] /\ s[p + 1] = <<y>>[1]
  BY <1>1 DEF Piece
<1> QED BY <1>2

\* A tag and an operand.
Token(t, o) == <<t>> \o writeNumber(Reader!Operand(t), o)

Big == 6..23 \ {12, 16, 20}

\* Tag t and operand o come next, and d is behind them.
OperandAt(w, c, d, t, o) ==
  /\ Piece(w.s, Body(w) + Len(c.bytes), <<t>>)
  /\ Piece(w.s, Body(w) + Len(c.bytes) + 1, writeNumber(Reader!Operand(t), o))
  /\ Len(d.bytes) = Len(c.bytes) + 1 + Sizeof[Reader!Operand(t)]
  /\ Reader!Operand(t) \in Widths /\ Sizeof[Reader!Operand(t)] \in Nat /\ Len(c.bytes) \in Nat /\ Body(w) \in Nat

LEMMA OperandFound ==
  ASSUME Storable, NEW w, IsFile(w), NEW c, NEW d, Leads(w, c, d),
         NEW t \in Big, NEW o \in Int, d.bytes = c.bytes \o Token(t, o)
  PROVE  OperandAt(w, c, d, t, o)
<1> DEFINE q == writeNumber(Reader!Operand(t), o)
<1>1. t \in Byte
  BY WireAssumption DEF Byte, Big
<1>2. Reader!Operand(t) \in Widths
  BY OperandWidth DEF Big
<1>3. q \in Seq(Byte) /\ Len(q) = Sizeof[Reader!Operand(t)] /\ Sizeof[Reader!Operand(t)] \in Nat
  BY <1>2, WrittenNumber
<1>4. Token(t, o) = <<t>> \o q
  BY DEF Token
<1> HIDE DEF q
<1>5. <<t>> \o q \in Seq(Byte)
  BY <1>1, <1>3, BytesBehind
<1>6. /\ Piece(w.s, Body(w) + Len(c.bytes), <<t>> \o q) /\ Len(d.bytes) = Len(c.bytes) + Len(<<t>> \o q)
      /\ Len(c.bytes) \in Nat /\ Body(w) \in Nat
  <2> DEFINE b == <<t>> \o q
  <2>1. b \in Seq(Byte) /\ d.bytes = c.bytes \o b
    BY <1>4, <1>5
  <2> HIDE DEF b
  <2>2. /\ Piece(w.s, Body(w) + Len(c.bytes), b) /\ Len(d.bytes) = Len(c.bytes) + Len(b)
        /\ Len(c.bytes) \in Nat /\ Body(w) \in Nat
    BY <2>1, TokenAt
  <2> QED BY <2>2 DEF b
<1>7. w.s \in Seq(Byte)
  BY FileParts
<1>8. /\ Piece(w.s, Body(w) + Len(c.bytes), <<t>>) /\ Piece(w.s, Body(w) + Len(c.bytes) + 1, q)
      /\ Len(<<t>> \o q) = 1 + Len(q)
  <2> DEFINE s == w.s
             p == Body(w) + Len(c.bytes)
  <2>1. s \in Seq(Byte) /\ Piece(s, p, <<t>> \o q)
    BY <1>6, <1>7
  <2> HIDE DEF s, p
  <2>2. Piece(s, p, <<t>>) /\ Piece(s, p + 1, q) /\ Len(<<t>> \o q) = 1 + Len(q)
    BY <1>1, <1>3, <2>1, OperandPiece
  <2> QED BY <2>2 DEF s, p
<1>9. Len(d.bytes) = Len(c.bytes) + 1 + Sizeof[Reader!Operand(t)]
  <2> DEFINE x == Len(c.bytes)
             y == Len(<<t>> \o q)
             z == Sizeof[Reader!Operand(t)]
  <2>1. x \in Nat /\ z \in Nat /\ y = 1 + z /\ Len(d.bytes) = x + y
    BY <1>3, <1>6, <1>8
  <2> HIDE DEF x, y, z
  <2>2. Len(d.bytes) = x + 1 + z
    BY <2>1
  <2> QED BY <2>2 DEF x, z
<1> QED BY <1>2, <1>3, <1>6, <1>8, <1>9 DEF OperandAt, q

\* What may come next.
SimpleNext(w, c, d, t) ==
  /\ t \in Simple /\ Wanted(c, w.root) = Reader!Constants[t]
  /\ d = Conf("return", c.fr, c.bytes \o <<t>>, c.names, c.made)

EmptyNext(w, c, d, t) ==
  /\ t = 20
  /\ \E id \in DOMAIN Heap :
       /\ Wanted(c, w.root) = Tbl(id) /\ Keys(Heap[id]) = {}
       /\ d = Conf("return", c.fr, c.bytes \o <<t>>, c.names, Append(c.made, id))

NumberNext(w, c, d, t) ==
  /\ t \in 6..11
  /\ \E o \in Int :
       /\ OperandAt(w, c, d, t, o) /\ Wanted(c, w.root) = Num(Decoded(t, o))
       /\ d = Conf("return", c.fr, c.bytes \o Token(t, o), c.names, c.made)

StringNext(w, c, d, t) ==
  /\ t \in 13..15
  /\ \E o \in Nat, names \in Seq(Name) :
       /\ OperandAt(w, c, d, t, o) /\ o < Card(Reader!Operand(t))
       /\ o \in 1..Len(names) /\ names[o] = Wanted(c, w.root)
       /\ d = Conf("return", c.fr, c.bytes \o Token(t, o), names, c.made)

TableNext(w, c, d, t) ==
  /\ t \in 17..19 \cup 21..23
  /\ \E id \in DOMAIN Heap, ks \in Seq(Writable) :
       LET n == countTableLength(Heap[id])
           kind == IF t <= 19 THEN "array" ELSE "hash"
       IN  /\ OperandAt(w, c, d, t, n) /\ n < Card(Reader!Operand(t)) /\ n \in Nat \ {0}
           /\ Wanted(c, w.root) = Tbl(id) /\ Lists(ks, id, kind)
           /\ d = Conf("loop", <<Entered(c, id, kind, ks)>> \o c.fr, c.bytes \o Token(t, n), c.names, Append(c.made, id))

\* After the call of writeValue one of them comes next.
LEMMA ValueNext ==
  ASSUME Storable, NEW w, IsFile(w), NEW c, NEW d, Leads(w, c, d), c.pc = "value"
  PROVE  \E t \in 1..23 :
           /\ Piece(w.s, Body(w) + Len(c.bytes), <<t>>) /\ t \in Byte /\ Len(c.bytes) \in Nat /\ Body(w) \in Nat
           /\ \/ SimpleNext(w, c, d, t) /\ Len(d.bytes) = Len(c.bytes) + 1
              \/ EmptyNext(w, c, d, t) /\ Len(d.bytes) = Len(c.bytes) + 1
              \/ NumberNext(w, c, d, t) \/ StringNext(w, c, d, t) \/ TableNext(w, c, d, t)
<1> DEFINE root == w.root
<1>1. MScalar(c, d, root) \/ MString(c, d, root) \/ MEmpty(c, d, root) \/ MOpen(c, d, root)
  BY DEF Leads, Moves, MEntry, MEnd, MKey, MValue
<1>2. 1..23 \subseteq Byte /\ Big \subseteq 1..23 /\ Simple \subseteq 1..23
  BY WireAssumption DEF Byte, Big, Simple
<1>3. ASSUME NEW t \in 1..23, d.bytes = c.bytes \o <<t>>
      PROVE  /\ Piece(w.s, Body(w) + Len(c.bytes), <<t>>) /\ t \in Byte /\ Len(c.bytes) \in Nat /\ Body(w) \in Nat
             /\ Len(d.bytes) = Len(c.bytes) + 1
  <2> DEFINE a == <<t>>
  <2>1. a \in Seq(Byte) /\ Len(a) = 1
    BY <1>2
  <2> HIDE DEF a
  <2>2. d.bytes = c.bytes \o a
    BY <1>3 DEF a
  <2>3. /\ Piece(w.s, Body(w) + Len(c.bytes), a) /\ Len(d.bytes) = Len(c.bytes) + Len(a)
        /\ Len(c.bytes) \in Nat /\ Body(w) \in Nat
    BY <2>1, <2>2, TokenAt
  <2> QED BY <1>2, <2>1, <2>3 DEF a
<1>4. ASSUME NEW t \in Big, NEW o \in Int, OperandAt(w, c, d, t, o)
      PROVE  /\ t \in 1..23 /\ t \in Byte
             /\ Piece(w.s, Body(w) + Len(c.bytes), <<t>>) /\ Len(c.bytes) \in Nat /\ Body(w) \in Nat
  BY <1>2, <1>4 DEF OperandAt
<1>5. CASE MScalar(c, d, root)
  <2>1. PICK b \in Seq(Byte) :
          /\ IsSimple(Wanted(c, root), b) \/ IsNumeral(Wanted(c, root), b)
          /\ d = Conf("return", c.fr, c.bytes \o b, c.names, c.made)
    BY <1>5 DEF MScalar
  <2>2. d.bytes = c.bytes \o b
    BY <2>1 DEF Conf
  <2>3. CASE IsSimple(Wanted(c, root), b)
    <3>1. PICK t \in Simple : Wanted(c, root) = Reader!Constants[t] /\ b = <<t>>
      BY <2>3 DEF IsSimple
    <3>2. SimpleNext(w, c, d, t)
      BY <2>1, <3>1 DEF SimpleNext
    <3> QED BY <1>2, <1>3, <2>2, <3>1, <3>2
  <2>4. CASE IsNumeral(Wanted(c, root), b)
    <3>1. PICK t \in 6..11, o \in Int : Wanted(c, root) = Num(Decoded(t, o)) /\ b = Token(t, o)
      BY <2>4 DEF IsNumeral, Token
    <3>2. t \in Big
      BY DEF Big
    <3>3. OperandAt(w, c, d, t, o)
      BY <2>2, <3>1, <3>2, OperandFound
    <3>4. NumberNext(w, c, d, t)
      BY <2>1, <3>1, <3>3 DEF NumberNext
    <3> QED BY <1>4, <3>2, <3>3, <3>4
  <2> QED BY <2>1, <2>3, <2>4
<1>6. CASE MString(c, d, root)
  <2>1. PICK b \in Seq(Byte), names \in Seq(Name), o \in Nat :
          /\ o \in 1..Len(names) /\ names[o] = Wanted(c, root) /\ Carries(b, {13, 14, 15}, o)
          /\ d = Conf("return", c.fr, c.bytes \o b, names, c.made)
    BY <1>6 DEF MString
  <2>2. d.bytes = c.bytes \o b
    BY <2>1 DEF Conf
  <2>3. PICK t \in {13, 14, 15} : o < Card(Reader!Operand(t)) /\ b = Token(t, o)
    BY <2>1 DEF Carries, Token
  <2>4. t \in Big /\ t \in 13..15 /\ o \in Int
    BY DEF Big
  <2>5. OperandAt(w, c, d, t, o)
    BY <2>2, <2>3, <2>4, OperandFound
  <2>6. StringNext(w, c, d, t)
    BY <2>1, <2>3, <2>4, <2>5 DEF StringNext
  <2> QED BY <1>4, <2>4, <2>5, <2>6
<1>7. CASE MEmpty(c, d, root)
  <2>1. PICK id \in DOMAIN Heap :
          /\ Wanted(c, root) = Tbl(id) /\ Keys(Heap[id]) = {}
          /\ d = Conf("return", c.fr, c.bytes \o <<20>>, c.names, Append(c.made, id))
    BY <1>7 DEF MEmpty
  <2>2. d.bytes = c.bytes \o <<20>>
    BY <2>1 DEF Conf
  <2>3. EmptyNext(w, c, d, 20)
    BY <2>1 DEF EmptyNext
  <2> QED BY <1>3, <2>2, <2>3
<1>8. CASE MOpen(c, d, root)
  <2>1. PICK b \in Seq(Byte), id \in DOMAIN Heap, kind \in {"array", "hash"}, ks \in Seq(Writable) :
          /\ Wanted(c, root) = Tbl(id) /\ countTableLength(Heap[id]) # 0 /\ Lists(ks, id, kind)
          /\ Carries(b, IF kind = "array" THEN {17, 18, 19} ELSE {21, 22, 23}, countTableLength(Heap[id]))
          /\ d = Conf("loop", <<Entered(c, id, kind, ks)>> \o c.fr, c.bytes \o b, c.names, Append(c.made, id))
    BY <1>8 DEF MOpen
  <2> DEFINE n == countTableLength(Heap[id])
  <2>2. d.bytes = c.bytes \o b
    BY <2>1 DEF Conf
  <2>3. n \in Nat \ {0} /\ n \in Int
    BY <2>1, TableLength
  <2>4. PICK t \in (IF kind = "array" THEN {17, 18, 19} ELSE {21, 22, 23}) : n < Card(Reader!Operand(t)) /\ b = Token(t, n)
    BY <2>1 DEF Carries, Token
  <2>5. t \in Big /\ t \in 17..19 \cup 21..23 /\ kind = (IF t <= 19 THEN "array" ELSE "hash")
    <3>1. CASE kind = "array"
      <4>1. t \in {17, 18, 19}
        BY <3>1
      <4> QED BY <3>1, <4>1 DEF Big
    <3>2. CASE kind = "hash"
      <4>1. t \in {21, 22, 23}
        BY <3>2
      <4> QED BY <3>2, <4>1 DEF Big
    <3> QED BY <3>1, <3>2
  <2> HIDE DEF n
  <2>6. OperandAt(w, c, d, t, n)
    BY <2>2, <2>3, <2>4, <2>5, OperandFound
  <2>7. TableNext(w, c, d, t)
    BY <2>1, <2>3, <2>4, <2>5, <2>6 DEF TableNext, n
  <2> QED BY <1>4, <2>3, <2>5, <2>6, <2>7
<1> QED BY <1>1, <1>5, <1>6, <1>7, <1>8

-----------------------------------------------------------------------------
(* The reader is where the run of the writer was.                          *)

\* The key of the entry that the k-th activation is at has been read.
Waits(k, pc, g) == g.kind = "hash" /\ ~g.key /\ (k > 1 \/ pc # "loop")

\* An activation of _parseArray or _parseTable, and what it finds on the stack.
Echoes(stack, x, k, pc, g, made) ==
  /\ x.t = g.t /\ x.kind = g.kind /\ x.n = g.n /\ x.i = g.i - 1
  /\ x.key <=> Waits(k, pc, g)
  /\ x.key => Copy(g.ks[g.i], stack[x.at + 1], made)

\* The keys of the t-th table whose entries have been read.
Reached(g, t, x) == g.t = t => \E j \in 1..(g.i - 1) : g.ks[j] = x

Filled(c, t) == {x \in Keys(Heap[c.made[t]]) : \A k \in 1..Len(c.fr) : Reached(c.fr[k], t, x)}

ReaderAt(c, root) ==
  /\ Len(heap) = Len(c.made) /\ Len(rframes) = Len(c.fr)
  /\ \A k \in 1..Len(rframes) : Echoes(rL, rframes[k], k, c.pc, c.fr[k], c.made)
  /\ \A t \in 1..Len(heap) : Sat(heap[t], c.made, c.made[t], Filled(c, t))
  /\ c.pc = "return" => Copy(Wanted(c, root), rL[Len(rL)], c.made)

\* No table gets an entry.
LEMMA FilledSame ==
  ASSUME NEW c, NEW d, NEW t, d.made[t] = c.made[t], Len(d.fr) = Len(c.fr),
         \A k \in 1..Len(c.fr) : d.fr[k].t = c.fr[k].t /\ d.fr[k].i = c.fr[k].i /\ d.fr[k].ks = c.fr[k].ks
  PROVE  Filled(d, t) = Filled(c, t)
<1>1. \A x : \A k \in 1..Len(c.fr) : Reached(d.fr[k], t, x) <=> Reached(c.fr[k], t, x)
  BY DEF Reached
<1> QED BY <1>1 DEF Filled

\* A table is entered.
LEMMA FilledPushed ==
  ASSUME NEW c, NEW root, Sound(c, root), NEW id \in DOMAIN Heap, NEW d, d.made = Append(c.made, id),
         NEW g, g.t = Len(c.made) + 1, g.i = 1,
         Len(d.fr) = Len(c.fr) + 1, d.fr[1] = g, \A k \in 1..Len(c.fr) : d.fr[k + 1] = c.fr[k]
  PROVE  /\ \A t \in 1..Len(c.made) : Filled(d, t) = Filled(c, t)
         /\ Filled(d, Len(c.made) + 1) = {}
<1>1. c.made \in Seq(DOMAIN Heap) /\ Len(c.made) \in Nat /\ c.fr \in Seq(Visit) /\ Len(c.fr) \in Nat
  BY DEF Sound, Nested
<1>2. \A t \in 1..Len(c.made) : d.made[t] = c.made[t]
  BY <1>1
<1>3. ASSUME NEW t \in 1..Len(c.made) PROVE Filled(d, t) = Filled(c, t)
  <2>1. d.fr[1].t # t
    BY <1>1
  <2>2. ASSUME NEW x
        PROVE  (\A k \in 1..Len(d.fr) : Reached(d.fr[k], t, x)) <=> (\A k \in 1..Len(c.fr) : Reached(c.fr[k], t, x))
    <3>1. \A k \in 1..Len(c.fr) : k + 1 \in 1..Len(d.fr) /\ d.fr[k + 1] = c.fr[k]
      BY <1>1
    <3>2. \A k \in 1..Len(d.fr) : k = 1 \/ (k - 1 \in 1..Len(c.fr) /\ d.fr[k] = c.fr[k - 1])
      <4> SUFFICES ASSUME NEW k \in 1..Len(d.fr), k # 1 PROVE k - 1 \in 1..Len(c.fr) /\ d.fr[k] = c.fr[k - 1]
        OBVIOUS
      <4>1. k - 1 \in 1..Len(c.fr) /\ (k - 1) + 1 = k
        BY <1>1
      <4>2. d.fr[(k - 1) + 1] = c.fr[k - 1]
        BY <4>1
      <4> QED BY <4>1, <4>2
    <3>3. Reached(d.fr[1], t, x)
      BY <2>1 DEF Reached
    <3>4. ASSUME \A k \in 1..Len(d.fr) : Reached(d.fr[k], t, x), NEW k \in 1..Len(c.fr) PROVE Reached(c.fr[k], t, x)
      <4>1. Reached(d.fr[k + 1], t, x) /\ d.fr[k + 1] = c.fr[k]
        BY <3>1, <3>4
      <4> QED BY <4>1
    <3>5. ASSUME \A k \in 1..Len(c.fr) : Reached(c.fr[k], t, x), NEW k \in 1..Len(d.fr) PROVE Reached(d.fr[k], t, x)
      BY <3>2, <3>3, <3>5
    <3> QED BY <3>4, <3>5
  <2> QED BY <1>2, <2>2 DEF Filled
<1>4. Filled(d, Len(c.made) + 1) = {}
  <2>1. 1 \in 1..Len(d.fr) /\ d.fr[1].t = Len(c.made) + 1 /\ d.fr[1].i - 1 = 0
    BY <1>1
  <2>2. \A x : ~Reached(d.fr[1], Len(c.made) + 1, x)
    BY <2>1 DEF Reached
  <2> QED BY <2>1, <2>2 DEF Filled
<1> QED BY <1>3, <1>4

\* A table without entries is made.
LEMMA FilledEmpty ==
  ASSUME NEW c, NEW root, Sound(c, root), NEW id \in DOMAIN Heap, Keys(Heap[id]) = {},
         NEW d, d.made = Append(c.made, id), d.fr = c.fr
  PROVE  /\ \A t \in 1..Len(c.made) : Filled(d, t) = Filled(c, t)
         /\ Filled(d, Len(c.made) + 1) = {}
<1>1. c.made \in Seq(DOMAIN Heap) /\ Len(c.made) \in Nat
  BY DEF Sound
<1>2. (\A t \in 1..Len(c.made) : d.made[t] = c.made[t]) /\ d.made[Len(c.made) + 1] = id
  BY <1>1
<1> QED BY <1>2 DEF Filled

\* A table is left when all its keys have been read.
LEMMA FilledPopped ==
  ASSUME NEW c, NEW root, Sound(c, root), c.fr # <<>>, c.fr[1].i > c.fr[1].n, NEW d, d.made = c.made, d.fr = Tail(c.fr),
         NEW t
  PROVE  Filled(d, t) = Filled(c, t)
<1>1. /\ c.fr \in Seq(Visit) /\ Len(c.fr) \in Nat \ {0} /\ Len(d.fr) = Len(c.fr) - 1
      /\ \A k \in 1..(Len(c.fr) - 1) : d.fr[k] = c.fr[k + 1]
  BY PoppedFirst DEF Sound, Nested
<1>2. /\ c.made[c.fr[1].t] = c.fr[1].id /\ c.fr[1].n = countTableLength(Heap[c.fr[1].id])
      /\ Lists(c.fr[1].ks, c.fr[1].id, c.fr[1].kind) /\ c.fr[1] \in Visit
  BY <1>1 DEF Sound, Nested, Visiting
<1>3. c.fr[1].n \in Nat /\ c.fr[1].i \in Nat
  BY <1>2 DEF Visit
<1>4. ASSUME c.fr[1].t = t, NEW x \in Keys(Heap[c.made[t]])
      PROVE  \E j \in 1..(c.fr[1].i - 1) : c.fr[1].ks[j] = x
  <2>1. PICK j \in 1..c.fr[1].n : c.fr[1].ks[j] = x
    BY <1>2, <1>4 DEF Lists
  <2> QED BY <1>3, <2>1
<1>5. ASSUME NEW x \in Keys(Heap[c.made[t]])
      PROVE  (\A k \in 1..Len(d.fr) : Reached(d.fr[k], t, x)) <=> (\A k \in 1..Len(c.fr) : Reached(c.fr[k], t, x))
  <2>1. \A k \in 1..Len(d.fr) : k + 1 \in 1..Len(c.fr) /\ d.fr[k] = c.fr[k + 1]
    BY <1>1
  <2>2. \A k \in 1..Len(c.fr) : k = 1 \/ (k - 1 \in 1..Len(d.fr) /\ c.fr[k] = d.fr[k - 1])
    <3> SUFFICES ASSUME NEW k \in 1..Len(c.fr), k # 1 PROVE k - 1 \in 1..Len(d.fr) /\ c.fr[k] = d.fr[k - 1]
      OBVIOUS
    <3>1. k - 1 \in 1..(Len(c.fr) - 1) /\ (k - 1) + 1 = k
      BY <1>1
    <3>2. d.fr[k - 1] = c.fr[(k - 1) + 1]
      BY <1>1, <3>1
    <3> QED BY <1>1, <3>1, <3>2
  <2>3. Reached(c.fr[1], t, x)
    BY <1>4 DEF Reached
  <2>4. ASSUME \A k \in 1..Len(c.fr) : Reached(c.fr[k], t, x), NEW k \in 1..Len(d.fr) PROVE Reached(d.fr[k], t, x)
    <3>1. Reached(c.fr[k + 1], t, x) /\ d.fr[k] = c.fr[k + 1]
      BY <2>1, <2>4
    <3> QED BY <3>1
  <2>5. ASSUME \A k \in 1..Len(d.fr) : Reached(d.fr[k], t, x), NEW k \in 1..Len(c.fr) PROVE Reached(c.fr[k], t, x)
    BY <2>2, <2>3, <2>5
  <2> QED BY <2>4, <2>5
<1> QED BY <1>5 DEF Filled

\* The innermost table gets an entry.
LEMMA FilledTurned ==
  ASSUME NEW c, NEW root, Sound(c, root), c.fr # <<>>, c.fr[1].i <= c.fr[1].n,
         NEW d, d.made = c.made, d.fr = Turned(c, c.fr[1].i + 1, FALSE)
  PROVE  LET g == c.fr[1] IN
         /\ \A t : t # g.t => Filled(d, t) = Filled(c, t)
         /\ Filled(d, g.t) = Filled(c, g.t) \cup {g.ks[g.i]} /\ g.ks[g.i] \notin Filled(c, g.t)
<1> DEFINE g == c.fr[1]
           t1 == g.t
<1>0. c.fr \in Seq(Visit) /\ Nested(c.fr, c.pc, c.made, root)
  BY DEF Sound, Nested
<1>1. /\ c.fr \in Seq(Visit) /\ Len(c.fr) \in Nat \ {0} /\ Len(d.fr) = Len(c.fr) /\ d.fr[1] = At(g, g.i + 1, FALSE)
      /\ \A k \in 2..Len(c.fr) : d.fr[k] = c.fr[k]
  <2> DEFINE i == g.i + 1
             key == FALSE
  <2>1. d.fr = Turned(c, i, key)
    OBVIOUS
  <2> HIDE DEF i, key
  <2>2. /\ Len(Turned(c, i, key)) = Len(c.fr) /\ Len(c.fr) \in Nat \ {0}
        /\ Turned(c, i, key)[1] = At(c.fr[1], i, key)
        /\ \A k \in 2..Len(c.fr) : Turned(c, i, key)[k] = c.fr[k]
    BY <1>0, TurnedAt
  <2> QED BY <1>0, <2>1, <2>2 DEF i, key
<1>2. /\ c.made[t1] = g.id /\ g.n = countTableLength(Heap[g.id]) /\ g.id \in DOMAIN Heap
      /\ Lists(g.ks, g.id, g.kind) /\ g \in Visit /\ g.i \in 1..(g.n + 1)
  <2>1. 1 \in 1..Len(c.fr) /\ g \in Visit
    BY <1>1
  <2>2. Visiting(c.fr, 1, c.pc, c.made, root)
    BY <1>0, <2>1 DEF Nested
  <2> QED BY <2>1, <2>2 DEF Visiting, Visit
<1>3. g.n \in Nat /\ g.i \in 1..g.n
  BY <1>2 DEF Visit
<1>4. d.fr[1].t = t1 /\ d.fr[1].i - 1 = g.i /\ d.fr[1].ks = g.ks
  <2> DEFINE i == g.i + 1
             h == d.fr[1]
  <2>1. h = At(g, i, FALSE)
    BY <1>1
  <2> HIDE DEF g, i, h
  <2>2. h.t = g.t /\ h.i = i /\ h.ks = g.ks
    BY <2>1 DEF At
  <2>3. i - 1 = g.i
    BY <1>3 DEF i
  <2> QED BY <2>2, <2>3 DEF h
<1>5. \A k \in 2..Len(c.fr) : c.fr[k].t # t1 /\ d.fr[k].t # t1
  <2> SUFFICES ASSUME NEW k \in 2..Len(c.fr) PROVE c.fr[k].t # t1
    BY <1>1
  <2>1. 1 \in 1..Len(c.fr) /\ k \in 1..Len(c.fr) /\ 1 < k
    BY <1>1
  <2>2. c.fr[k].t < c.fr[1].t
    BY <1>0, <2>1 DEF Nested
  <2>3. c.fr[k] \in Visit /\ c.fr[1] \in Visit
    BY <1>0, <2>1
  <2>4. c.fr[k].t \in Nat /\ c.fr[1].t \in Nat
    BY <2>3 DEF Visit
  <2> QED BY <2>2, <2>4
<1>6. g.ks[g.i] \in Keys(Heap[g.id])
  BY <1>2, <1>3 DEF Lists
<1> HIDE DEF g, t1
<1>7. ASSUME NEW t, t # t1 PROVE Filled(d, t) = Filled(c, t)
  <2>1. ASSUME NEW k \in 1..Len(c.fr), NEW x PROVE Reached(d.fr[k], t, x) <=> Reached(c.fr[k], t, x)
    <3>1. CASE k = 1
      BY <1>4, <1>7, <3>1 DEF g, t1, Reached
    <3>2. CASE k # 1
      <4>1. k \in 2..Len(c.fr)
        BY <1>1, <3>2
      <4> QED BY <1>1, <4>1
    <3> QED BY <3>1, <3>2
  <2> QED BY <1>1, <2>1 DEF Filled
<1>8. ASSUME NEW x \in Keys(Heap[g.id])
      PROVE  /\ x \in Filled(c, t1) <=> \E j \in 1..(g.i - 1) : g.ks[j] = x
             /\ x \in Filled(d, t1) <=> \E j \in 1..g.i : g.ks[j] = x
  <2>1. 1 \in 1..Len(c.fr) /\ c.fr[1] = g /\ g.t = t1
    BY <1>1 DEF g, t1
  <2>2. \A k \in 1..Len(c.fr) : k # 1 => Reached(c.fr[k], t1, x) /\ Reached(d.fr[k], t1, x)
    <3> SUFFICES ASSUME NEW k \in 1..Len(c.fr), k # 1 PROVE Reached(c.fr[k], t1, x) /\ Reached(d.fr[k], t1, x)
      OBVIOUS
    <3>1. k \in 2..Len(c.fr)
      BY <1>1
    <3> QED BY <1>5, <3>1 DEF Reached
  <2>3. /\ Reached(c.fr[1], t1, x) <=> \E j \in 1..(g.i - 1) : g.ks[j] = x
        /\ Reached(d.fr[1], t1, x) <=> \E j \in 1..g.i : g.ks[j] = x
    BY <1>4, <2>1 DEF Reached
  <2>4. x \in Filled(c, t1) <=> Reached(c.fr[1], t1, x)
    BY <1>2, <2>1, <2>2 DEF Filled
  <2>5. x \in Filled(d, t1) <=> Reached(d.fr[1], t1, x)
    BY <1>1, <1>2, <2>1, <2>2 DEF Filled
  <2> QED BY <2>3, <2>4, <2>5
<1>9. Filled(c, t1) \subseteq Keys(Heap[g.id]) /\ Filled(d, t1) \subseteq Keys(Heap[g.id])
  BY <1>2 DEF Filled
<1>10. \A x : (\E j \in 1..g.i : g.ks[j] = x) <=> (\E j \in 1..(g.i - 1) : g.ks[j] = x) \/ x = g.ks[g.i]
  <2>1. \A j \in 1..g.i : j \in 1..(g.i - 1) \/ j = g.i
    BY <1>3
  <2>2. g.i \in 1..g.i /\ \A j \in 1..(g.i - 1) : j \in 1..g.i
    BY <1>3
  <2> QED BY <2>1, <2>2
<1>11. ~\E j \in 1..(g.i - 1) : g.ks[j] = g.ks[g.i]
  <2> SUFFICES ASSUME NEW j \in 1..(g.i - 1), g.ks[j] = g.ks[g.i] PROVE FALSE
    OBVIOUS
  <2>1. j \in 1..g.n /\ g.i \in 1..g.n /\ j # g.i
    BY <1>3
  <2> QED BY <1>2, <2>1 DEF Lists
<1>12. Filled(d, t1) = Filled(c, t1) \cup {g.ks[g.i]} /\ g.ks[g.i] \notin Filled(c, t1)
  BY <1>6, <1>8, <1>9, <1>10, <1>11
<1> QED BY <1>7, <1>12 DEF g, t1

-----------------------------------------------------------------------------
(* The moves of the reader.                                                *)

\* What activations use lies below the top of the stack.
LEMMA KeysBelow ==
  ASSUME ReaderInv, rpc \in {"value", "payload", "loop", "return"}, NEW k \in 1..Len(rframes), rframes[k].key
  PROVE  /\ rframes[k].at + 1 \in 1..Len(rL) /\ rframes[k].at \in Nat
         /\ rframes[k].at + 1 < Reader!Above(1)
         /\ k > 1 => rframes[k].at + 1 < rframes[1].at
<1>1. /\ ReaderTypes /\ RLayout /\ Len(rL) \in Nat /\ rhandle \in Nat /\ Reader!Above(1) \in Int
      /\ Len(rL) + 1 = Reader!Above(1) + (IF rpc = "return" THEN 1 ELSE 0)
  BY WhileParsing
<1>2. /\ Len(rframes) \in Nat
      /\ \A j \in 1..(Len(rframes) + 1) : Reader!Above(j) \in Int /\ Reader!Above(j) <= Reader!Above(1)
      /\ \A j \in 1..Len(rframes) :
           /\ rframes[j].at = Reader!Above(j + 1) /\ rframes[j].at \in (rhandle + 1)..(Reader!Above(1) - 1)
           /\ Reader!Above(j) = rframes[j].at + (IF rframes[j].key THEN 2 ELSE 1)
  BY <1>1, RPlaces
<1>3. Reader!Above(k) = rframes[k].at + 2 /\ Reader!Above(k) <= Reader!Above(1) /\ k \in 1..(Len(rframes) + 1)
  <2>1. k \in 1..(Len(rframes) + 1)
    BY <1>2
  <2> QED BY <1>2, <2>1
<1>4. rframes[k].at \in Nat /\ rframes[k].at >= 1
  BY <1>1, <1>2
<1>5. Len(rL) + 1 >= Reader!Above(1)
  BY <1>1
<1>6. ASSUME k > 1 PROVE rframes[k].at + 1 < rframes[1].at
  <2>1. 1 \in 1..Len(rframes) /\ 2 \in 1..(Len(rframes) + 1) /\ k \in 1..(Len(rframes) + 1)
    BY <1>2, <1>6
  <2>2. rframes[1].at = Reader!Above(2)
    <3>1. rframes[1].at = Reader!Above(1 + 1)
      BY <1>2, <2>1
    <3> QED BY <3>1
  <2>3. Reader!Above(k) <= Reader!Above(2)
    <3>1. CASE k = 2
      BY <1>2, <2>1, <3>1
    <3>2. CASE k # 2
      <4>1. 2 < k
        BY <1>6, <3>2
      <4> QED BY <1>1, <2>1, <4>1 DEF RLayout, RDescending
    <3> QED BY <3>1, <3>2
  <2>4. Reader!Above(2) \in Int
    BY <1>2, <2>1
  <2> QED BY <1>3, <1>4, <2>2, <2>3, <2>4
<1> QED BY <1>1, <1>3, <1>4, <1>5, <1>6

\* A value is pushed.
LEMMA PushedEchoes ==
  ASSUME ReaderInv, rpc \in {"value", "payload"}, NEW c, NEW root, ReaderAt(c, root), c.pc = "value",
         NEW y, rL' = Append(rL, y), NEW made2, \A u, v : Copy(u, v, c.made) => Copy(u, v, made2)
  PROVE  \A k \in 1..Len(rframes) : \A k2, pc2 : k2 > 1 \/ pc2 # "loop" =>
           Echoes(rL', rframes[k], k2, pc2, c.fr[k], made2)
<1> SUFFICES ASSUME NEW k \in 1..Len(rframes), NEW k2, NEW pc2, k2 > 1 \/ pc2 # "loop"
             PROVE  Echoes(rL', rframes[k], k2, pc2, c.fr[k], made2)
  OBVIOUS
<1>1. Echoes(rL, rframes[k], k, c.pc, c.fr[k], c.made)
  BY DEF ReaderAt
<1>2. Waits(k, c.pc, c.fr[k]) <=> Waits(k2, pc2, c.fr[k])
  BY DEF Waits
<1>3. rframes[k].key => rL'[rframes[k].at + 1] = rL[rframes[k].at + 1]
  <2> SUFFICES ASSUME rframes[k].key PROVE rL'[rframes[k].at + 1] = rL[rframes[k].at + 1]
    OBVIOUS
  <2>1. rframes[k].at + 1 \in 1..Len(rL)
    BY KeysBelow
  <2>2. rL \in Seq(RSlot)
    BY DEF ReaderInv, ReaderTypes
  <2> QED BY <2>1, <2>2
<1> DEFINE x == rframes[k]
           g == c.fr[k]
           stack == rL'
<1>4. /\ Echoes(rL, x, k, c.pc, g, c.made) /\ (Waits(k, c.pc, g) <=> Waits(k2, pc2, g))
      /\ x.key => stack[x.at + 1] = rL[x.at + 1]
  BY <1>1, <1>2, <1>3
<1> HIDE DEF x, g, stack
<1>5. Echoes(stack, x, k2, pc2, g, made2)
  BY <1>4 DEF Echoes
<1> QED BY <1>5 DEF x, g, stack

\* A constant, a number or a string is read.
LEMMA ValueRead ==
  ASSUME ReaderInv, rpc \in {"value", "payload"}, NEW c, NEW root, ReaderAt(c, root), c.pc = "value",
         NEW y, Copy(Wanted(c, root), y, c.made), rL' = Append(rL, y), UNCHANGED <<heap, rframes>>,
         NEW d, d.pc = "return", d.fr = c.fr, d.made = c.made
  PROVE  ReaderAt(d, root)'
<1>1. \A k \in 1..Len(rframes) : Echoes(rL', rframes[k], k, d.pc, c.fr[k], c.made)
  <2>1. \A k \in 1..Len(rframes) : \A k2, pc2 : k2 > 1 \/ pc2 # "loop" =>
          Echoes(rL', rframes[k], k2, pc2, c.fr[k], c.made)
    BY PushedEchoes
  <2> QED BY <2>1
<1>2. \A t : Filled(d, t) = Filled(c, t)
  BY FilledSame
<1>3. rL'[Len(rL')] = y
  <2>1. rL \in Seq(RSlot)
    BY DEF ReaderInv, ReaderTypes
  <2> QED BY <2>1
<1>4. Wanted(d, root) = Wanted(c, root)
  BY DEF Wanted, Expected
<1>5. /\ Len(heap) = Len(d.made) /\ Len(rframes) = Len(d.fr)
      /\ \A t \in 1..Len(heap) : Sat(heap[t], d.made, d.made[t], Filled(d, t))
  BY <1>2 DEF ReaderAt
<1> QED BY <1>1, <1>3, <1>4, <1>5 DEF ReaderAt

\* A table is made.
LEMMA TablesGrow ==
  ASSUME ReaderInv, rpc \in {"value", "payload"}, UNCHANGED rhandle, Reader!NewTable,
         NEW c, NEW root, Sound(c, root), ReaderAt(c, root), NEW id \in DOMAIN Heap,
         NEW d, d.made = Append(c.made, id),
         \A t \in 1..Len(c.made) : Filled(d, t) = Filled(c, t), Filled(d, Len(c.made) + 1) = {}
  PROVE  /\ Len(heap') = Len(d.made) /\ Len(heap) = Len(c.made) /\ Len(heap) \in Nat
         /\ \A t \in 1..Len(heap') : Sat(heap'[t], d.made, d.made[t], Filled(d, t))
         /\ rL' = Append(rL, Tbl(Len(heap) + 1))
         /\ Len(d.made) = Len(c.made) + 1 /\ d.made[Len(c.made) + 1] = id
         /\ \A t \in 1..Len(c.made) : d.made[t] = c.made[t]
         /\ \A u, v : Copy(u, v, c.made) => Copy(u, v, d.made)
<1>1. /\ heap' \in Seq(Contained) /\ Len(heap') = Len(heap) + 1 /\ Len(heap) \in Nat
      /\ Reader!NewId = Len(heap) + 1 /\ rL' = Append(rL, Reader!Tbl(Len(heap) + 1))
  <2>1. ReaderTypes /\ RBottom /\ Growing /\ Grown
    BY WhileParsing
  <2> QED BY <2>1, NewTableGrows
<1>2. c.made \in Seq(DOMAIN Heap) /\ Len(c.made) \in Nat /\ Len(heap) = Len(c.made)
  BY DEF Sound, ReaderAt
<1>3. Len(d.made) = Len(c.made) + 1 /\ d.made[Len(c.made) + 1] = id /\ \A t \in 1..Len(c.made) : d.made[t] = c.made[t]
  BY <1>2
<1>4. heap \in Seq(Contained) /\ DOMAIN heap = 1..Len(heap)
  BY DEF ReaderInv, ReaderTypes
<1>5. /\ heap'[Len(heap) + 1] = Reader!EmptyFcn
      /\ \A t \in 1..Len(heap) : heap'[t] = heap[t]
  <2>1. heap' = [x \in DOMAIN heap \cup {Len(heap) + 1} |-> IF x = Len(heap) + 1 THEN Reader!EmptyFcn ELSE heap[x]]
    BY <1>1 DEF Reader!NewTable
  <2>2. \A t \in 1..Len(heap) : t # Len(heap) + 1
    BY <1>1
  <2> QED BY <1>4, <2>1, <2>2
<1>6. \A u, v : Copy(u, v, c.made) => Copy(u, v, d.made)
  BY <1>2, CopyGrows
<1>7. ASSUME NEW t \in 1..Len(heap') PROVE Sat(heap'[t], d.made, d.made[t], Filled(d, t))
  <2>1. CASE t \in 1..Len(heap)
    <3>1. Sat(heap[t], c.made, c.made[t], Filled(c, t))
      BY <2>1 DEF ReaderAt
    <3>2. Sat(heap[t], d.made, c.made[t], Filled(c, t))
      BY <1>2, <3>1, SatGrows
    <3> QED BY <1>2, <1>3, <1>5, <2>1, <3>2
  <2>2. CASE t = Len(heap) + 1
    <3>1. heap'[t] = Reader!EmptyFcn /\ Filled(d, t) = {}
      BY <1>2, <1>5, <2>2
    <3> QED BY <3>1, SatEmpty
  <2>3. t \in 1..Len(heap) \/ t = Len(heap) + 1
    <3> DEFINE n == Len(heap)
    <3>1. t \in 1..(n + 1) /\ n \in Nat
      BY <1>1
    <3> HIDE DEF n
    <3>2. t \in 1..n \/ t = n + 1
      BY <3>1
    <3> QED BY <3>2 DEF n
  <2> QED BY <2>1, <2>2, <2>3
<1>8. Reader!Tbl(Len(heap) + 1) = Tbl(Len(heap) + 1)
  BY SameValues
<1> QED BY <1>1, <1>2, <1>3, <1>6, <1>7, <1>8

\* An empty table is read.
LEMMA EmptyRead ==
  ASSUME ReaderInv, rpc \in {"value", "payload"}, UNCHANGED <<rhandle, rframes>>, Reader!NewTable,
         NEW c, NEW root, Sound(c, root), ReaderAt(c, root), c.pc = "value",
         NEW id \in DOMAIN Heap, Wanted(c, root) = Tbl(id), Keys(Heap[id]) = {},
         NEW d, d.pc = "return", d.fr = c.fr, d.made = Append(c.made, id)
  PROVE  ReaderAt(d, root)'
<1>1. (\A t \in 1..Len(c.made) : Filled(d, t) = Filled(c, t)) /\ Filled(d, Len(c.made) + 1) = {}
  BY FilledEmpty
<1>a. UNCHANGED rhandle
  OBVIOUS
<1>b. \A t \in 1..Len(c.made) : Filled(d, t) = Filled(c, t)
  BY <1>1
<1>c. Filled(d, Len(c.made) + 1) = {}
  BY <1>1
<1>2. /\ Len(heap') = Len(d.made) /\ Len(heap) = Len(c.made) /\ Len(heap) \in Nat
      /\ \A t \in 1..Len(heap') : Sat(heap'[t], d.made, d.made[t], Filled(d, t))
      /\ rL' = Append(rL, Tbl(Len(heap) + 1))
      /\ Len(d.made) = Len(c.made) + 1 /\ d.made[Len(c.made) + 1] = id
      /\ \A u, v : Copy(u, v, c.made) => Copy(u, v, d.made)
  <2>1. /\ Len(heap') = Len(d.made) /\ Len(heap) = Len(c.made) /\ Len(heap) \in Nat
        /\ \A t \in 1..Len(heap') : Sat(heap'[t], d.made, d.made[t], Filled(d, t))
        /\ rL' = Append(rL, Tbl(Len(heap) + 1))
        /\ Len(d.made) = Len(c.made) + 1 /\ d.made[Len(c.made) + 1] = id
        /\ \A t \in 1..Len(c.made) : d.made[t] = c.made[t]
        /\ \A u, v : Copy(u, v, c.made) => Copy(u, v, d.made)
    BY <1>a, <1>b, <1>c, TablesGrow
  <2> QED BY <2>1
<1>3. \A k \in 1..Len(rframes) : Echoes(rL', rframes[k], k, d.pc, d.fr[k], d.made)
  <2>1. \A k \in 1..Len(rframes) : \A k2, pc2 : k2 > 1 \/ pc2 # "loop" =>
          Echoes(rL', rframes[k], k2, pc2, c.fr[k], d.made)
    BY <1>2, PushedEchoes
  <2> QED BY <2>1
<1>4. rL'[Len(rL')] = Tbl(Len(heap) + 1)
  <2>1. rL \in Seq(RSlot)
    BY DEF ReaderInv, ReaderTypes
  <2> QED BY <1>2, <2>1
<1>5. Wanted(d, root) = Wanted(c, root)
  BY DEF Wanted, Expected
<1>6. Copy(Tbl(id), Tbl(Len(heap) + 1), d.made)
  <2>1. lua_type(Tbl(id)) = "table" /\ Tbl(id)[2] = id
    BY DEF lua_type, Tbl
  <2>2. Len(heap) + 1 \in 1..Len(d.made)
    BY <1>2
  <2> QED BY <1>2, <2>1, <2>2 DEF Copy
<1>7. Len(rframes) = Len(d.fr)
  BY DEF ReaderAt
<1> QED BY <1>2, <1>3, <1>4, <1>5, <1>6, <1>7 DEF ReaderAt

\* An activation begins.
LEMMA TableRead ==
  ASSUME ReaderInv, rpc \in {"value", "payload"}, UNCHANGED rhandle, Reader!NewTable,
         NEW c, NEW root, Sound(c, root), ReaderAt(c, root), c.pc = "value",
         NEW id \in DOMAIN Heap, NEW kind \in {"array", "hash"}, NEW ks, NEW n \in Nat, n = countTableLength(Heap[id]),
         NEW x, x = [t |-> Reader!NewId, at |-> Len(rL) + 1, kind |-> kind, i |-> 0, n |-> n, key |-> FALSE],
         rframes' = <<x>> \o rframes, Entered(c, id, kind, ks) \in Visit,
         NEW d, d.pc = "loop", d.fr = <<Entered(c, id, kind, ks)>> \o c.fr, d.made = Append(c.made, id)
  PROVE  ReaderAt(d, root)'
<1> DEFINE g == Entered(c, id, kind, ks)
<1>1. c.fr \in Seq(Visit) /\ Len(c.fr) \in Nat
  BY DEF Sound, Nested
<1>2. /\ d.fr \in Seq(Visit) /\ Len(d.fr) = Len(c.fr) + 1 /\ d.fr[1] = g
      /\ \A k \in 1..Len(c.fr) : d.fr[k + 1] = c.fr[k]
  BY <1>1, Pushed
<1>3. g.t = Len(c.made) + 1 /\ g.i = 1 /\ g.kind = kind /\ g.n = n /\ g.key = FALSE
  BY DEF Entered
<1>4. ReaderTypes /\ Len(rframes) \in Nat /\ Len(rL) \in Nat /\ rframes \in Seq(RFrame)
  BY WhileParsing DEF ReaderTypes
<1> HIDE DEF g
<1>5. (\A t \in 1..Len(c.made) : Filled(d, t) = Filled(c, t)) /\ Filled(d, Len(c.made) + 1) = {}
  BY <1>2, <1>3, FilledPushed
<1>a. \A t \in 1..Len(c.made) : Filled(d, t) = Filled(c, t)
  BY <1>5
<1>b. Filled(d, Len(c.made) + 1) = {}
  BY <1>5
<1>6. /\ Len(heap') = Len(d.made) /\ Len(heap) = Len(c.made) /\ Len(heap) \in Nat
      /\ \A t \in 1..Len(heap') : Sat(heap'[t], d.made, d.made[t], Filled(d, t))
      /\ rL' = Append(rL, Tbl(Len(heap) + 1))
      /\ Len(d.made) = Len(c.made) + 1 /\ d.made[Len(c.made) + 1] = id
      /\ \A t \in 1..Len(c.made) : d.made[t] = c.made[t]
      /\ \A u, v : Copy(u, v, c.made) => Copy(u, v, d.made)
  BY <1>a, <1>b, TablesGrow
<1>7. x \in RFrame /\ x.t = Len(heap) + 1 /\ x.kind = kind /\ x.i = 0 /\ x.n = n /\ x.key = FALSE
  <2>1. Reader!NewId = Len(heap) + 1
    BY DEF Reader!NewId
  <2> QED BY <1>4, <1>6, <2>1 DEF RFrame
<1>8. /\ Len(rframes') = Len(rframes) + 1 /\ rframes'[1] = x
      /\ \A k \in 1..Len(rframes) : rframes'[k + 1] = rframes[k]
  BY <1>4, <1>7, Pushed
<1>9. Len(rframes) = Len(c.fr) /\ Len(rframes') = Len(d.fr)
  BY <1>2, <1>8 DEF ReaderAt
<1>10. Echoes(rL', x, 1, "loop", g, d.made)
  <2>1. ~Waits(1, "loop", g)
    BY DEF Waits
  <2> QED BY <1>3, <1>6, <1>7, <1>9, <2>1 DEF Echoes, ReaderAt
<1>11. ASSUME NEW k \in 1..Len(rframes') PROVE Echoes(rL', rframes'[k], k, "loop", d.fr[k], d.made)
  <2>1. CASE k = 1
    BY <1>2, <1>8, <1>10, <2>1
  <2>2. CASE k # 1
    <3>1. k - 1 \in 1..Len(rframes) /\ (k - 1) + 1 = k /\ k > 1
      BY <1>4, <1>8, <2>2
    <3>2. rframes'[(k - 1) + 1] = rframes[k - 1] /\ d.fr[(k - 1) + 1] = c.fr[k - 1]
      BY <1>2, <1>8, <1>9, <3>1
    <3>3. \A m \in 1..Len(rframes) : \A k2, pc2 : k2 > 1 \/ pc2 # "loop" =>
            Echoes(rL', rframes[m], k2, pc2, c.fr[m], d.made)
      BY <1>6, PushedEchoes
    <3>4. Echoes(rL', rframes[k - 1], k, "loop", c.fr[k - 1], d.made)
      BY <3>1, <3>3
    <3> QED BY <3>1, <3>2, <3>4
  <2> QED BY <2>1, <2>2
<1> QED BY <1>6, <1>9, <1>11 DEF ReaderAt

\* The innermost activation goes on, and the others wait.
LEMMA InnermostEchoes ==
  ASSUME NEW c, NEW root, Sound(c, root), ReaderAt(c, root), c.fr # <<>>,
         Len(rframes') = Len(rframes), \A k \in 2..Len(rframes) : rframes'[k] = rframes[k],
         \A k \in 2..Len(rframes) : rframes[k].key => rL'[rframes[k].at + 1] = rL[rframes[k].at + 1],
         NEW i, NEW key, NEW d, d.fr = Turned(c, i, key), d.made = c.made,
         Echoes(rL', rframes'[1], 1, d.pc, At(c.fr[1], i, key), c.made)
  PROVE  /\ Len(rframes') = Len(d.fr)
         /\ \A k \in 1..Len(rframes') : Echoes(rL', rframes'[k], k, d.pc, d.fr[k], d.made)
<1>1. c.fr \in Seq(Visit) /\ Len(rframes) = Len(c.fr)
  BY DEF Sound, Nested, ReaderAt
<1>2. /\ Len(d.fr) = Len(c.fr) /\ Len(c.fr) \in Nat \ {0} /\ d.fr[1] = At(c.fr[1], i, key)
      /\ \A k \in 2..Len(c.fr) : d.fr[k] = c.fr[k]
  BY <1>1, TurnedAt
<1>3. ASSUME NEW k \in 2..Len(rframes) PROVE Echoes(rL', rframes'[k], k, d.pc, d.fr[k], d.made)
  <2> DEFINE x == rframes[k]
             g == c.fr[k]
             stack == rL'
  <2>1. k \in 1..Len(rframes) /\ k > 1
    BY <1>1, <1>2
  <2>2. /\ Echoes(rL, x, k, c.pc, g, c.made) /\ (Waits(k, c.pc, g) <=> Waits(k, d.pc, g))
        /\ x.key => stack[x.at + 1] = rL[x.at + 1]
    BY <2>1 DEF Waits, ReaderAt
  <2>3. rframes'[k] = x /\ d.fr[k] = g /\ d.made = c.made
    BY <1>1, <1>2
  <2> HIDE DEF x, g, stack
  <2>4. Echoes(stack, x, k, d.pc, g, c.made)
    BY <2>2 DEF Echoes
  <2> QED BY <2>3, <2>4 DEF stack
<1>4. Echoes(rL', rframes'[1], 1, d.pc, d.fr[1], d.made)
  BY <1>2
<1>5. ASSUME NEW k \in 1..Len(rframes') PROVE Echoes(rL', rframes'[k], k, d.pc, d.fr[k], d.made)
  <2>1. k = 1 \/ k \in 2..Len(rframes)
    BY <1>1, <1>2
  <2> QED BY <1>3, <1>4, <2>1
<1> QED BY <1>1, <1>2, <1>5

\* The tables are what they were.
LEMMA TurnedSame ==
  ASSUME NEW c, NEW root, Sound(c, root), c.fr # <<>>, NEW key, NEW d, d.fr = Turned(c, c.fr[1].i, key), d.made = c.made,
         NEW t
  PROVE  Filled(d, t) = Filled(c, t)
<1> DEFINE i == c.fr[1].i
           g == c.fr[1]
<1>0. c.fr \in Seq(Visit)
  BY DEF Sound, Nested
<1>1. /\ Len(d.fr) = Len(c.fr) /\ d.fr[1] = At(g, i, key)
      /\ \A k \in 2..Len(c.fr) : d.fr[k] = c.fr[k]
  <2> HIDE DEF i, g
  <2>1. d.fr = Turned(c, i, key)
    BY DEF i
  <2>2. /\ Len(Turned(c, i, key)) = Len(c.fr) /\ Turned(c, i, key)[1] = At(c.fr[1], i, key)
        /\ \A k \in 2..Len(c.fr) : Turned(c, i, key)[k] = c.fr[k]
    BY <1>0, TurnedAt
  <2> QED BY <2>1, <2>2 DEF g
<1>2. At(g, i, key).t = g.t /\ At(g, i, key).i = g.i /\ At(g, i, key).ks = g.ks
  BY DEF At
<1>3. \A k \in 1..Len(c.fr) : d.fr[k].t = c.fr[k].t /\ d.fr[k].i = c.fr[k].i /\ d.fr[k].ks = c.fr[k].ks
  <2> SUFFICES ASSUME NEW k \in 1..Len(c.fr)
               PROVE  d.fr[k].t = c.fr[k].t /\ d.fr[k].i = c.fr[k].i /\ d.fr[k].ks = c.fr[k].ks
    OBVIOUS
  <2>1. k = 1 \/ k \in 2..Len(c.fr)
    BY <1>0
  <2> HIDE DEF g, i
  <2>2. CASE k = 1
    BY <1>1, <1>2, <2>2 DEF g
  <2> QED BY <1>1, <2>1, <2>2
<1>4. Len(d.fr) = Len(c.fr) /\ d.made[t] = c.made[t]
  BY <1>1
<1> QED BY <1>3, <1>4, FilledSame

\* An entry is begun.
LEMMA EntryRead ==
  ASSUME ReaderInv, rpc = "loop", UNCHANGED <<rL, heap, rframes>>,
         NEW c, NEW root, Sound(c, root), ReaderAt(c, root), c.pc = "loop",
         NEW d, MEntry(c, d)
  PROVE  ReaderAt(d, root)'
<1> DEFINE i == c.fr[1].i
           key == c.fr[1].kind = "hash"
           g == c.fr[1]
<1>1. d.pc = "value" /\ d.fr = Turned(c, i, key) /\ d.made = c.made
  BY DEF MEntry, Conf
<1>2. c.fr # <<>> /\ 1 \in 1..Len(rframes)
  <2>1. c.fr # <<>> /\ c.fr \in Seq(Visit) /\ Len(rframes) = Len(c.fr)
    BY DEF Sound, Nested, ReaderAt
  <2>2. Len(c.fr) \in Nat \ {0}
    BY <2>1, EmptySeq
  <2> QED BY <2>1, <2>2
<1>3. Echoes(rL, rframes[1], 1, "loop", g, c.made)
  BY <1>2 DEF ReaderAt
<1>4. Echoes(rL', rframes'[1], 1, d.pc, At(g, i, key), c.made)
  <2> DEFINE h == At(g, i, key)
  <2>1. h.t = g.t /\ h.kind = g.kind /\ h.n = g.n /\ h.i = g.i /\ h.key = key /\ h.ks = g.ks
    BY DEF At
  <2>3. h.key <=> g.kind = "hash"
    BY <2>1
  <2> HIDE DEF h, g, i, key
  <2>2. ~Waits(1, "value", h) /\ ~Waits(1, "loop", g)
    BY <2>1, <2>3 DEF Waits
  <2> QED BY <1>1, <1>3, <2>1, <2>2 DEF Echoes, h
<1> HIDE DEF i, key, g
<1>5. /\ Len(rframes') = Len(d.fr)
      /\ \A k \in 1..Len(rframes') : Echoes(rL', rframes'[k], k, d.pc, d.fr[k], d.made)
  BY <1>1, <1>2, <1>4, InnermostEchoes DEF g
<1>6. ASSUME NEW t PROVE Filled(d, t) = Filled(c, t)
  BY <1>1, <1>2, TurnedSame DEF i
<1> QED BY <1>1, <1>5, <1>6 DEF ReaderAt

\* A value has been read, and the innermost activation waits for it.
LEMMA AtReturn ==
  ASSUME ReaderInv, rpc = "return", NEW c, NEW root \in Writable, Sound(c, root), ReaderAt(c, root), c.pc = "return", c.fr # <<>>
  PROVE  LET g == c.fr[1]
             x == rframes[1]
             y == rL[Len(rL)] IN
         /\ rframes # <<>> /\ 1 \in 1..Len(rframes) /\ rframes \in Seq(RFrame) /\ x \in RFrame /\ Reader!f = x
         /\ Len(rL) = x.at + (IF x.key THEN 2 ELSE 1) /\ x.at \in Nat
         /\ x.t = g.t /\ x.kind = g.kind /\ x.n = g.n /\ x.i = g.i - 1 /\ g.i \in 1..g.n /\ g.n \in Nat
         /\ g.key => g.kind = "hash"
         /\ g.kind \in {"array", "hash"} /\ g.t \in 1..Len(heap)
         /\ x.key <=> g.kind = "hash" /\ ~g.key
         /\ x.key => Copy(g.ks[g.i], rL[Len(rL) - 1], c.made)
         /\ g.key => Copy(g.ks[g.i], y, c.made)
         /\ ~g.key => Copy(rawget(Heap[g.id], g.ks[g.i]), y, c.made)
         /\ y # Nil /\ g.ks[g.i] # Nil
         /\ g.id \in DOMAIN Heap /\ c.made[g.t] = g.id /\ Lists(g.ks, g.id, g.kind) /\ g.ks[g.i] \in Writable
<1> DEFINE g == c.fr[1]
           x == rframes[1]
           y == rL[Len(rL)]
           k == g.ks[g.i]
<1>1. /\ Nested(c.fr, "return", c.made, root) /\ c.fr \in Seq(Visit) /\ Len(rframes) = Len(c.fr)
      /\ Len(heap) = Len(c.made) /\ Copy(Wanted(c, root), y, c.made)
  BY DEF Sound, Nested, ReaderAt
<1>2. Len(c.fr) \in Nat \ {0} /\ 1 \in 1..Len(c.fr) /\ g \in Visit
  <2>1. Len(c.fr) \in Nat \ {0}
    BY <1>1, EmptySeq
  <2> QED BY <1>1, <2>1
<1>3. Visiting(c.fr, 1, "return", c.made, root)
  BY <1>1, <1>2 DEF Nested
<1>4. /\ g.t \in 1..Len(c.made) /\ c.made[g.t] = g.id /\ Lists(g.ks, g.id, g.kind)
      /\ g.i \in 1..(g.n + 1) /\ g.i <= g.n /\ (g.key => g.kind = "hash")
      /\ g.id \in DOMAIN Heap /\ g.n \in Nat /\ g.i \in Nat /\ g.key \in BOOLEAN /\ g.kind \in {"array", "hash"}
  BY <1>2, <1>3 DEF Visiting, Visit
<1>5. k \in Keys(Heap[g.id]) /\ Current(g) # Nil
  BY <1>1, <1>2, <1>4, CurrentEntry
<1>6. k # Nil /\ k \in Writable
  BY <1>4, <1>5, EntryOf
<1>7. Wanted(c, root) = Current(g)
  BY <1>2 DEF Wanted, Expected
<1>8. y # Nil
  BY <1>1, <1>5, <1>7, CopyNotNil
<1>9. Echoes(rL, x, 1, "return", g, c.made)
  BY <1>1, <1>2 DEF ReaderAt
<1>10. rframes \in Seq(RFrame) /\ rframes # <<>>
  <2>1. rframes \in Seq(RFrame)
    BY DEF ReaderInv, ReaderTypes
  <2>2. Len(rframes) # 0
    BY <1>1, <1>2
  <2> QED BY <2>1, <2>2, EmptySeq
<1>11. x \in RFrame /\ Reader!f = x /\ Len(rL) = x.at + (IF x.key THEN 2 ELSE 1) /\ x.at \in Nat
  BY <1>10, RInnermost DEF RFrame
<1> HIDE DEF g, x, y
<1>12. /\ x.t = g.t /\ x.kind = g.kind /\ x.n = g.n /\ x.i = g.i - 1
       /\ x.key <=> g.kind = "hash" /\ ~g.key
       /\ x.key => Copy(k, rL[x.at + 1], c.made)
  BY <1>9 DEF Echoes, Waits
<1>13. x.key => Copy(k, rL[Len(rL) - 1], c.made)
  <2>1. x.key => x.at + 1 = Len(rL) - 1
    BY <1>11
  <2> QED BY <1>12, <2>1
<1>14. (g.key => Current(g) = k) /\ (~g.key => Current(g) = rawget(Heap[g.id], k))
  BY DEF Current
<1>15. (g.key => Copy(k, y, c.made)) /\ (~g.key => Copy(rawget(Heap[g.id], k), y, c.made))
  BY <1>1, <1>7, <1>14
<1>16. g.i \in 1..g.n /\ g.t \in 1..Len(heap) /\ 1 \in 1..Len(rframes)
  BY <1>1, <1>2, <1>4
<1> HIDE DEF k
<1>17. /\ rframes # <<>> /\ 1 \in 1..Len(rframes) /\ rframes \in Seq(RFrame) /\ x \in RFrame /\ Reader!f = x
       /\ Len(rL) = x.at + (IF x.key THEN 2 ELSE 1) /\ x.at \in Nat
       /\ x.t = g.t /\ x.kind = g.kind /\ x.n = g.n /\ x.i = g.i - 1 /\ g.i \in 1..g.n /\ g.n \in Nat
       /\ g.key => g.kind = "hash"
       /\ g.kind \in {"array", "hash"} /\ g.t \in 1..Len(heap)
       /\ x.key <=> g.kind = "hash" /\ ~g.key
       /\ x.key => Copy(k, rL[Len(rL) - 1], c.made)
       /\ g.key => Copy(k, y, c.made)
       /\ ~g.key => Copy(rawget(Heap[g.id], k), y, c.made)
       /\ y # Nil /\ k # Nil
       /\ g.id \in DOMAIN Heap /\ c.made[g.t] = g.id /\ Lists(g.ks, g.id, g.kind) /\ k \in Writable
  BY <1>4, <1>6, <1>8, <1>10, <1>11, <1>12, <1>13, <1>15, <1>16
<1> QED BY <1>17 DEF g, x, y, k

\* A key is read, and its value comes next.
LEMMA KeyRead ==
  ASSUME ReaderInv, rpc = "return", NEW c, NEW root \in Writable, Sound(c, root), ReaderAt(c, root), c.pc = "return",
         Reader!ReturnKey, NEW d, MKey(c, d)
  PROVE  ReaderAt(d, root)'
<1> DEFINE i == c.fr[1].i
           key == FALSE
           g == c.fr[1]
           x == rframes[1]
           z == [x EXCEPT !.key = TRUE]
<1>1. d.pc = "value" /\ d.fr = Turned(c, i, key) /\ d.made = c.made /\ c.fr # <<>> /\ g.key
  BY DEF MKey, Conf
<1>2. /\ rframes' = <<[Reader!f EXCEPT !.key = TRUE]>> \o Tail(rframes) /\ UNCHANGED rL /\ UNCHANGED heap
  BY DEF Reader!ReturnKey
<1>3. /\ rframes # <<>> /\ 1 \in 1..Len(rframes) /\ rframes \in Seq(RFrame) /\ x \in RFrame /\ Reader!f = x
      /\ Len(rL) = x.at + (IF x.key THEN 2 ELSE 1) /\ x.at \in Nat
      /\ x.t = g.t /\ x.kind = g.kind /\ x.n = g.n /\ x.i = g.i - 1
      /\ g.kind = "hash" /\ ~x.key /\ Copy(g.ks[g.i], rL[Len(rL)], c.made)
  BY <1>1, AtReturn
<1>4. z \in RFrame /\ z.at = x.at /\ z.t = x.t /\ z.kind = x.kind /\ z.n = x.n /\ z.key = TRUE /\ z.i = x.i
  <2> HIDE DEF x
  <2>1. z \in {[x EXCEPT !.i = @ + 1, !.key = FALSE], [x EXCEPT !.key = TRUE]}
    OBVIOUS
  <2> QED BY <1>3, <2>1, FrameAdvanced
<1> HIDE DEF z
<1>5. Len(rframes') = Len(rframes) /\ rframes'[1] = z /\ \A k \in 2..Len(rframes) : rframes'[k] = rframes[k]
  <2>1. rframes' = <<z>> \o Tail(rframes)
    BY <1>2, <1>3 DEF z
  <2> QED BY <1>3, <1>4, <2>1, FirstChanged
<1>6. Echoes(rL', rframes'[1], 1, d.pc, At(g, i, key), c.made)
  <2> DEFINE h == At(g, i, key)
  <2>1. h.t = g.t /\ h.kind = g.kind /\ h.n = g.n /\ h.i = g.i /\ h.key = FALSE /\ h.ks = g.ks
    BY DEF At
  <2> HIDE DEF h, g, i, key
  <2>2. Waits(1, "value", h)
    BY <1>3, <2>1 DEF Waits
  <2>3. rL'[z.at + 1] = rL[Len(rL)]
    BY <1>2, <1>3, <1>4
  <2>4. Echoes(rL', z, 1, "value", h, c.made)
    <3> HIDE DEF x
    <3> QED BY <1>3, <1>4, <2>1, <2>2, <2>3 DEF Echoes
  <2> QED BY <1>1, <1>5, <2>4 DEF h
<1>7. \A k \in 2..Len(rframes) : rframes[k].key => rL'[rframes[k].at + 1] = rL[rframes[k].at + 1]
  BY <1>2
<1> HIDE DEF i, key, g, x
<1>8. /\ Len(rframes') = Len(d.fr)
      /\ \A k \in 1..Len(rframes') : Echoes(rL', rframes'[k], k, d.pc, d.fr[k], d.made)
  BY <1>1, <1>5, <1>6, <1>7, InnermostEchoes DEF g
<1>9. ASSUME NEW t PROVE Filled(d, t) = Filled(c, t)
  BY <1>1, TurnedSame DEF i
<1> QED BY <1>1, <1>2, <1>8, <1>9 DEF ReaderAt

\* A value is read, and its entry is set.
LEMMA EntrySet ==
  ASSUME ReaderInv, rpc = "return", NEW c, NEW root \in Writable, Sound(c, root), ReaderAt(c, root), c.pc = "return",
         NEW d, MValue(c, d), rframes' = Reader!Advance,
         NEW y, Copy(c.fr[1].ks[c.fr[1].i], y, c.made),
         Reader!lua_type(y) = "table" => rframes[1].key /\ y = rL[Len(rL) - 1],
         heap' = [heap EXCEPT ![rframes[1].t] = Reader!rawset(@, y, rL[Len(rL)])],
         rL' = SubSeq(rL, 1, rframes[1].at)
  PROVE  ReaderAt(d, root)'
<1> DEFINE i == c.fr[1].i + 1
           key == FALSE
           g == c.fr[1]
           x == rframes[1]
           z == [x EXCEPT !.i = @ + 1, !.key = FALSE]
           k == g.ks[g.i]
           v == rL[Len(rL)]
<1>1. d.pc = "loop" /\ d.fr = Turned(c, i, key) /\ d.made = c.made /\ c.fr # <<>> /\ ~g.key
  BY DEF MValue, Conf
<1>2. /\ rframes # <<>> /\ 1 \in 1..Len(rframes) /\ rframes \in Seq(RFrame) /\ x \in RFrame /\ Reader!f = x
      /\ Len(rL) = x.at + (IF x.key THEN 2 ELSE 1) /\ x.at \in Nat
      /\ x.t = g.t /\ x.kind = g.kind /\ x.n = g.n /\ x.i = g.i - 1 /\ g.i \in 1..g.n /\ g.n \in Nat
      /\ g.t \in 1..Len(heap) /\ Copy(rawget(Heap[g.id], k), v, c.made) /\ v # Nil /\ k # Nil /\ c.made[g.t] = g.id
  BY <1>1, AtReturn
<1> HIDE DEF x, g, k, v
<1>3. z \in RFrame /\ z.at = x.at /\ z.t = x.t /\ z.kind = x.kind /\ z.n = x.n /\ z.key = FALSE /\ z.i = x.i + 1
  <2> HIDE DEF x
  <2>1. z \in {[x EXCEPT !.i = @ + 1, !.key = FALSE], [x EXCEPT !.key = TRUE]}
    OBVIOUS
  <2>2. x \in RFrame
    BY <1>2
  <2> QED BY <2>1, <2>2, FrameAdvanced
<1> HIDE DEF z
<1>a. /\ rL \in Seq(RSlot) /\ Len(rL) \in Nat /\ Len(rframes) \in Nat /\ x.at \in Nat
      /\ Len(rL) = x.at + 1 \/ Len(rL) = x.at + 2
      /\ x.key => Len(rL) = x.at + 2
  <2>1. rL \in Seq(RSlot)
    BY DEF ReaderInv, ReaderTypes
  <2>2. Len(rL) \in Nat /\ Len(rframes) \in Nat
    BY <1>2, <2>1
  <2>3. x.at \in Nat /\ Len(rL) = x.at + (IF x.key THEN 2 ELSE 1)
    BY <1>2
  <2> HIDE DEF x
  <2>4. (Len(rL) = x.at + 1 \/ Len(rL) = x.at + 2) /\ (x.key => Len(rL) = x.at + 2)
    BY <2>3
  <2> QED BY <2>1, <2>2, <2>3, <2>4
<1>b. /\ g.t \in 1..Len(heap) /\ c.made[g.t] = g.id /\ Copy(rawget(Heap[g.id], k), v, c.made) /\ v # Nil
      /\ x.t = g.t /\ c.fr # <<>>
  BY <1>1, <1>2
<1>4. Len(rframes') = Len(rframes) /\ rframes'[1] = z /\ \A m \in 2..Len(rframes) : rframes'[m] = rframes[m]
  <2>1. rframes' = <<z>> \o Tail(rframes)
    BY <1>2 DEF z, Reader!Advance
  <2> QED BY <1>2, <1>3, <2>1, FirstChanged
<1>5. Echoes(rL', rframes'[1], 1, d.pc, At(g, i, key), c.made)
  <2> DEFINE h == At(g, i, key)
  <2>1. h.t = g.t /\ h.kind = g.kind /\ h.n = g.n /\ h.i = g.i + 1 /\ h.key = FALSE /\ h.ks = g.ks
    BY DEF At, i, key, g
  <2> HIDE DEF h, g, i, key, x
  <2>2. ~Waits(1, "loop", h)
    BY DEF Waits
  <2>3. z.i = h.i - 1
    BY <1>2, <1>3, <2>1
  <2>4. Echoes(rL', z, 1, "loop", h, c.made)
    BY <1>2, <1>3, <2>1, <2>2, <2>3 DEF Echoes
  <2> QED BY <1>1, <1>4, <2>4 DEF h
<1>6. \A m \in 2..Len(rframes) : rframes[m].key => rL'[rframes[m].at + 1] = rL[rframes[m].at + 1]
  <2> SUFFICES ASSUME NEW m \in 2..Len(rframes), rframes[m].key PROVE rL'[rframes[m].at + 1] = rL[rframes[m].at + 1]
    OBVIOUS
  <2>1. m \in 1..Len(rframes) /\ m > 1
    <3>1. Len(rframes) \in Nat
      BY <1>a
    <3> QED BY <3>1
  <2>2. rframes[m].at + 1 < rframes[1].at /\ rframes[m].at \in Nat
    BY <2>1, KeysBelow
  <2>3. rL \in Seq(RSlot) /\ rframes[1].at <= Len(rL)
    <3> DEFINE a == rframes[1].at
               n == Len(rL)
    <3>1. a \in Nat /\ n \in Nat /\ (n = a + 2 \/ n = a + 1)
      BY <1>a DEF x
    <3> HIDE DEF a, n
    <3>2. a <= n
      BY <3>1
    <3> QED BY <1>a, <3>2 DEF a, n
  <2>4. \A p \in 1..rframes[1].at : SubSeq(rL, 1, rframes[1].at)[p] = rL[p]
    <3> DEFINE a == rframes[1].at
    <3>1. a \in Nat
      BY <1>a DEF x
    <3>2. a <= Len(rL) /\ rL \in Seq(RSlot)
      BY <2>3
    <3> HIDE DEF a
    <3>3. \A p \in 1..a : SubSeq(rL, 1, a)[p] = rL[p]
      BY <3>1, <3>2, Popped
    <3> QED BY <3>3 DEF a
  <2>5. rframes[m].at + 1 \in 1..rframes[1].at
    <3> DEFINE a == rframes[1].at
               b == rframes[m].at
    <3>1. a \in Nat /\ b \in Nat /\ b + 1 < a
      BY <1>a, <2>2 DEF x
    <3> HIDE DEF a, b
    <3>2. b + 1 \in 1..a
      BY <3>1
    <3> QED BY <3>2 DEF a, b
  <2> QED BY <2>4, <2>5
<1>7. /\ Len(rframes') = Len(d.fr)
      /\ \A m \in 1..Len(rframes') : Echoes(rL', rframes'[m], m, d.pc, d.fr[m], d.made)
  <2> HIDE DEF i, key, g, x
  <2>1. c.fr # <<>> /\ d.fr = Turned(c, i, key) /\ d.made = c.made
    BY <1>1
  <2>2. Len(rframes') = Len(rframes) /\ \A m \in 2..Len(rframes) : rframes'[m] = rframes[m]
    BY <1>4
  <2>3. Echoes(rL', rframes'[1], 1, d.pc, At(c.fr[1], i, key), c.made)
    BY <1>5 DEF g
  <2> QED BY <1>6, <2>1, <2>2, <2>3, InnermostEchoes
<1>8. heap \in Seq(Contained) /\ DOMAIN heap = 1..Len(heap) /\ Len(heap) = Len(c.made) /\ Len(heap) \in Nat
  BY DEF ReaderInv, ReaderTypes, ReaderAt
<1>9. /\ Len(heap') = Len(heap) /\ heap'[g.t] = Reader!rawset(heap[g.t], y, v)
      /\ \A t \in 1..Len(heap) : t # g.t => heap'[t] = heap[t]
  <2> DEFINE u == g.t
             w == Reader!rawset(heap[u], y, v)
  <2>1. u \in 1..Len(heap) /\ heap' = [heap EXCEPT ![u] = w]
    BY <1>b DEF x, v
  <2> HIDE DEF u, w
  <2>2. /\ Len(heap') = Len(heap) /\ heap'[u] = w
        /\ \A t \in 1..Len(heap) : t # u => heap'[t] = heap[t]
    BY <1>8, <2>1
  <2> QED BY <2>2 DEF u, w
<1>10. /\ \A t : t # g.t => Filled(d, t) = Filled(c, t)
       /\ Filled(d, g.t) = Filled(c, g.t) \cup {k} /\ k \notin Filled(c, g.t)
  <2>1. g.i <= g.n /\ c.fr # <<>> /\ d.made = c.made /\ d.fr = Turned(c, c.fr[1].i + 1, FALSE)
    BY <1>1, <1>2
  <2> QED BY <2>1, FilledTurned DEF g, k
<1>11. Sat(heap'[g.t], d.made, d.made[g.t], Filled(d, g.t))
  <2> DEFINE contents == heap[g.t]
             D == Filled(c, g.t)
  <2>1. Sat(contents, c.made, g.id, D)
    BY <1>b DEF ReaderAt
  <2>2. lua_type(k) = "table" => y[2] \notin Within(contents)
    <3> SUFFICES ASSUME lua_type(k) = "table" PROVE y[2] \notin Within(contents)
      OBVIOUS
    <3>1. Reader!lua_type(y) = "table"
      BY CopyType, SameValues DEF k, g
    <3>2. x.key /\ y = rL[Len(rL) - 1] /\ Len(rL) - 1 = x.at + 1
      <4>1. x.key /\ y = rL[Len(rL) - 1]
        BY <3>1 DEF x
      <4> DEFINE n == Len(rL)
                 a == x.at
      <4>2. a \in Nat /\ n = a + 2
        BY <1>a, <4>1
      <4> HIDE DEF a, n
      <4>3. n - 1 = a + 1
        BY <4>2
      <4> QED BY <4>1, <4>3 DEF a, n
    <3>3. OnStack(Len(rL) - 1)
      <4>1. rhandle \in Nat /\ x.at \in (rhandle + 1)..(Reader!Above(1) - 1)
        <5>1. 1 \in 1..Len(rframes)
          BY <1>2
        <5> QED BY <5>1, WhileParsing DEF x
      <4> DEFINE a == x.at
                 n == Len(rL)
      <4>2. a \in Nat /\ rhandle \in Nat /\ a >= rhandle + 1 /\ n = a + 2
        <5>1. a \in Nat /\ n = a + 2
          BY <1>a, <3>2
        <5> HIDE DEF a, n
        <5>2. a >= rhandle + 1
          BY <4>1, <5>1 DEF a
        <5> QED BY <4>1, <5>1, <5>2
      <4> HIDE DEF a, n
      <4>3. n - 1 \in (rhandle + 1)..n
        BY <4>2
      <4> QED BY <3>1, <3>2, <4>3 DEF OnStack, n
    <3>4. Growing /\ Len(rL) - 1 \in 1..Len(rL)
      <4>1. rhandle \in Nat /\ Len(rL) \in Nat /\ Growing
        BY WhileParsing
      <4>2. Len(rL) - 1 \in (rhandle + 1)..Len(rL)
        BY <3>3 DEF OnStack
      <4> QED BY <4>1, <4>2
    <3>5. 1 \in 1..Len(rframes)
      BY <1>2
    <3> QED BY <1>b, <3>2, <3>3, <3>4, <3>5 DEF Growing
  <2> HIDE DEF contents, D, k, v
  <2>3. y \notin DOMAIN contents
    BY <1>10, <2>1, <2>2, KeyIsNew DEF D, k, g
  <2>4. Sat(Reader!rawset(contents, y, v), c.made, g.id, D \cup {k})
    <3>1. Copy(k, y, c.made)
      BY DEF k, g
    <3>2. Copy(rawget(Heap[g.id], k), v, c.made) /\ v # Nil
      BY <1>b
    <3> QED BY <2>1, <2>3, <3>1, <3>2, SatEntered
  <2> QED BY <1>1, <1>b, <1>9, <1>10, <2>4 DEF contents, D
<1>12. ASSUME NEW t \in 1..Len(heap') PROVE Sat(heap'[t], d.made, d.made[t], Filled(d, t))
  <2>1. CASE t = g.t
    BY <1>11, <2>1
  <2>2. CASE t # g.t
    BY <1>1, <1>9, <1>10, <2>2 DEF ReaderAt
  <2> QED BY <2>1, <2>2
<1> QED BY <1>1, <1>7, <1>8, <1>9, <1>12 DEF ReaderAt

\* A table is complete.
LEMMA EndRead ==
  ASSUME ReaderInv, rpc = "loop", UNCHANGED rL, UNCHANGED heap, rframes' = Tail(rframes),
         NEW c, NEW root, Sound(c, root), ReaderAt(c, root), c.pc = "loop",
         NEW d, MEnd(c, d)
  PROVE  ReaderAt(d, root)'
<1> DEFINE g == c.fr[1]
           x == rframes[1]
<1>1. d.pc = "return" /\ d.fr = Tail(c.fr) /\ d.made = c.made /\ g.i > g.n
  BY DEF MEnd, Conf
<1>2. /\ c.fr \in Seq(Visit) /\ c.fr # <<>> /\ Nested(c.fr, "loop", c.made, root) /\ Len(rframes) = Len(c.fr)
      /\ Len(heap) = Len(c.made)
  BY DEF Sound, Nested, ReaderAt
<1>3. /\ Len(c.fr) \in Nat \ {0} /\ Len(d.fr) = Len(c.fr) - 1
      /\ \A k \in 1..(Len(c.fr) - 1) : d.fr[k] = c.fr[k + 1]
  BY <1>1, <1>2, PoppedFirst
<1>4. /\ ReaderTypes /\ RLayout /\ RTops /\ Len(rL) + 1 = Reader!Above(1) /\ Len(rL) \in Nat /\ rframes # <<>>
      /\ Reader!Above(1) = x.at + 1 /\ rframes \in Seq(RFrame)
  <2>1. /\ ReaderTypes /\ RLayout /\ RTops /\ Len(rL) + 1 = Reader!Above(1) + 0 /\ Len(rL) \in Nat
        /\ Reader!Above(1) = IF rframes = <<>> THEN rhandle + 1 ELSE x.at + (IF x.key THEN 2 ELSE 1)
        /\ Reader!Above(1) \in Int
    BY WhileParsing
  <2>2. rframes # <<>> /\ ~x.key
    BY <2>1 DEF RTops
  <2> QED BY <2>1, <2>2 DEF ReaderTypes
<1>5. /\ Len(rframes') = Len(rframes) - 1 /\ \A k \in 1..(Len(rframes) - 1) : rframes'[k] = rframes[k + 1]
  BY <1>4, PoppedFirst
<1>6. ASSUME NEW k \in 1..Len(rframes') PROVE Echoes(rL', rframes'[k], k, "return", d.fr[k], d.made)
  <2>1. k + 1 \in 1..Len(rframes) /\ k + 1 > 1 /\ k \in 1..(Len(c.fr) - 1)
    BY <1>2, <1>3, <1>5
  <2> DEFINE y == rframes[k + 1]
             h == c.fr[k + 1]
  <2>2. Echoes(rL, y, k + 1, "loop", h, c.made)
    BY <2>1 DEF ReaderAt
  <2>3. rframes'[k] = y /\ d.fr[k] = h
    BY <1>2, <1>3, <1>5, <2>1
  <2>4. Waits(k + 1, "loop", h) <=> Waits(k, "return", h)
    BY <2>1 DEF Waits
  <2> HIDE DEF y, h
  <2> QED BY <1>1, <2>2, <2>3, <2>4 DEF Echoes
<1>7. Copy(Wanted(d, root), rL[Len(rL)], c.made)
  <2>1. 1 \in 1..Len(c.fr) /\ 1 \in 1..Len(rframes)
    BY <1>2, <1>3
  <2>2. Visiting(c.fr, 1, "loop", c.made, root)
    BY <1>2, <2>1 DEF Nested
  <2>3. Tbl(g.id) = Expected(c.fr, 2, root) /\ g.t \in 1..Len(c.made) /\ c.made[g.t] = g.id
    <3>1. 1 + 1 = 2
      OBVIOUS
    <3> QED BY <2>2, <3>1 DEF Visiting
  <2>4. Wanted(d, root) = Expected(c.fr, 2, root)
    <3>1. CASE Len(c.fr) = 1
      BY <1>3, <3>1 DEF Wanted, Expected
    <3>2. CASE Len(c.fr) # 1
      <4>1. 1 \in 1..(Len(c.fr) - 1) /\ 1 + 1 = 2 /\ ~(2 > Len(c.fr)) /\ ~(1 > Len(d.fr))
        <5> DEFINE n == Len(c.fr)
                   l == Len(d.fr)
        <5>1. n \in Nat \ {0} /\ n # 1 /\ l = n - 1
          BY <1>3, <3>2
        <5> HIDE DEF n, l
        <5>2. 1 \in 1..(n - 1) /\ 1 + 1 = 2 /\ ~(2 > n) /\ ~(1 > l)
          BY <5>1
        <5> QED BY <5>2 DEF n, l
      <4>2. d.fr[1] = c.fr[2]
        BY <1>3, <4>1
      <4> QED BY <4>1, <4>2 DEF Wanted, Expected
    <3> QED BY <3>1, <3>2
  <2>5. RPlaced(1)
    BY <1>4, <2>1 DEF RLayout
  <2>6. rframes[1] \in RFrame
    BY <1>4, <2>1
  <2>7. x.at = Len(rL)
    BY <1>4, <2>6 DEF RFrame
  <2>8. rL[Len(rL)] = Tbl(x.t)
    BY <2>5, <2>7, SameValues DEF RPlaced
  <2>9. x.t = g.t
    BY <2>1 DEF ReaderAt, Echoes
  <2>10. lua_type(Tbl(g.id)) = "table" /\ Tbl(g.id)[2] = g.id
    BY DEF lua_type, Tbl
  <2> QED BY <2>3, <2>4, <2>8, <2>9, <2>10 DEF Copy
<1>8. ASSUME NEW t PROVE Filled(d, t) = Filled(c, t)
  BY <1>1, <1>2, FilledPopped
<1>9. Len(rframes') = Len(d.fr)
  BY <1>2, <1>3, <1>5
<1> QED BY <1>1, <1>2, <1>6, <1>7, <1>8, <1>9 DEF ReaderAt

-----------------------------------------------------------------------------
(* Where the reader is in a file.                                          *)

\* The strings of the pool that have been read.
Pooled(w) == rsize = Len(Names(w)) /\ \A i \in 1..Len(rstrings) : Names(w)[i] = Str(rstrings[i])

\* The reader has come to c, or to the operand of the value there.
AtPlace(w, c) == rpc = c.pc /\ p_ = Body(w) + Len(c.bytes) /\ ReaderAt(c, w.root)

AtOperand(w, c) ==
  /\ c.pc = "value" /\ p_ = Body(w) + Len(c.bytes) + 1 /\ ReaderAt(c, w.root)
  /\ Piece(w.s, Body(w) + Len(c.bytes), <<payload>>)

\* The value is read: every table holds what the table holds for which it was made.
Complete(w) ==
  /\ ret = 1 /\ p_ = Len(w.s)
  /\ \E made \in Seq(DOMAIN Heap) :
       /\ Len(heap) = Len(made) /\ Copy(w.root, rL[Len(rL)], made)
       /\ \A t \in 1..Len(heap) : Sat(heap[t], made, made[t], Keys(Heap[made[t]]))

\* All that has been read is what was written.
Following(w) ==
  /\ short = FALSE /\ p_ <= Len(data)
  /\ rpc = "magic" => p_ = 0
  /\ rpc = "version" => p_ = Sizeof[16]
  /\ rpc = "pool" => p_ = 2 * Sizeof[16]
  /\ rpc \in {"length", "bytes"} => heap = <<>>
  /\ rpc = "length" => p_ = PoolAt(w.fl, Len(rstrings))
  /\ rpc = "bytes" =>
       p_ = PoolAt(w.fl, Len(rstrings)) + Sizeof[16] /\ payload = Len(Names(w)[Len(rstrings) + 1][2])
  /\ ReaderRuns => Pooled(w)
  /\ rpc \in {"value", "loop", "return"} => \E j \in 1..w.m : AtPlace(w, w.tr[j])
  /\ rpc = "payload" => \E j \in 1..w.m : AtOperand(w, w.tr[j])
  /\ rpc = "done" => Complete(w)
  /\ rpc = "raised" => ~MemorySuffices

\* A key that waits is not nil, unless it was the last thing read.
KeysHold == \A k \in 1..Len(rframes) : rframes[k].key /\ (k > 1 \/ rpc # "value") => rL[rframes[k].at + 1] # Nil

\* The file has ended too early.
Fallen(w) ==
  /\ short = TRUE /\ data # w.s
  /\ rpc \in {"value", "loop", "return", "done"}
  /\ rpc = "done" => ret = 2 \/ p_ > Len(data)
  /\ rpc # "done" => p_ > Len(data) /\ KeysHold

\* The file is the one that was written, or its beginning.
Given(w) == IsFile(w) /\ data \in Seq(Byte) /\ Begins(data, w.s)

-----------------------------------------------------------------------------
(* A file that has ended.                                                  *)

\* The reader gives up.
LEMMA GivesUp ==
  ASSUME NEW w, short' = TRUE, UNCHANGED data, data # w.s, Reader!Fail \/ Reader!Reject(rL)
  PROVE  Fallen(w)'
BY DEF Reader!Fail, Reader!Reject, Fallen

\* Keys that wait while a value is read are not nil.
LEMMA KeysNotNil ==
  ASSUME ReaderInv, rpc \in {"value", "payload"}, NEW c, NEW root \in Writable, Sound(c, root), ReaderAt(c, root), c.pc = "value"
  PROVE  \A k \in 1..Len(rframes) : rframes[k].key => rL[rframes[k].at + 1] # Nil
<1> SUFFICES ASSUME NEW k \in 1..Len(rframes), rframes[k].key PROVE rL[rframes[k].at + 1] # Nil
  OBVIOUS
<1> DEFINE g == c.fr[k]
<1>1. Echoes(rL, rframes[k], k, "value", g, c.made)
  BY DEF ReaderAt
<1>2. Copy(g.ks[g.i], rL[rframes[k].at + 1], c.made)
  BY <1>1 DEF Echoes
<1>3. Nested(c.fr, "value", c.made, root) /\ k \in 1..Len(c.fr)
  BY DEF Sound, ReaderAt
<1>4. Visiting(c.fr, k, "value", c.made, root)
  BY <1>3 DEF Nested
<1>5. g.i <= g.n
  BY <1>4 DEF Visiting
<1>6. g.ks[g.i] \in Keys(Heap[g.id]) /\ g.id \in DOMAIN Heap
  BY <1>3, <1>5, CurrentEntry
<1>7. g.ks[g.i] # Nil
  BY <1>6, EntryOf
<1> HIDE DEF g
<1> QED BY <1>2, <1>7, CopyNotNil

\* They stay where they are when something is pushed.
LEMMA PushedKeys ==
  ASSUME ReaderInv, rpc \in {"value", "payload"}, NEW c, NEW root \in Writable, Sound(c, root), ReaderAt(c, root), c.pc = "value",
         NEW y, rL' = Append(rL, y)
  PROVE  \A k \in 1..Len(rframes) : rframes[k].key => rL'[rframes[k].at + 1] # Nil
<1> SUFFICES ASSUME NEW k \in 1..Len(rframes), rframes[k].key PROVE rL'[rframes[k].at + 1] # Nil
  OBVIOUS
<1>1. rL[rframes[k].at + 1] # Nil
  BY KeysNotNil
<1>2. rframes[k].at + 1 \in 1..Len(rL)
  BY KeysBelow
<1>3. rL \in Seq(RSlot)
  BY DEF ReaderInv, ReaderTypes
<1> QED BY <1>1, <1>2, <1>3

\* A value that is not there.
LEMMA FallsAtValue ==
  ASSUME ReaderInv, rpc \in {"value", "payload"}, NEW c, NEW w, w.root \in Writable, Sound(c, w.root), ReaderAt(c, w.root),
         c.pc = "value", UNCHANGED data, short' = TRUE, data # w.s, p_' > Len(data),
         NEW y, rL' = Append(rL, y), UNCHANGED rframes, rpc' = "return"
  PROVE  Fallen(w)'
<1>1. \A k \in 1..Len(rframes) : rframes[k].key => rL'[rframes[k].at + 1] # Nil
  <2> DEFINE root == w.root
  <2>1. root \in Writable /\ Sound(c, root) /\ ReaderAt(c, root)
    OBVIOUS
  <2> HIDE DEF root
  <2> QED BY <2>1, PushedKeys
<1>2. KeysHold'
  BY <1>1 DEF KeysHold
<1> QED BY <1>2 DEF Fallen

-----------------------------------------------------------------------------
(* The head of the file.                                                   *)

\* A number of two or more bytes holds more than one of a byte.
LEMMA CardBig ==
  \A bits \in {16, 32, 64} : Card(bits) \in Nat /\ Card(bits) > Base + 1
<1>1. Pow \in [Nat -> Nat \ {0}] /\ Pow[0] = 1 /\ \A k \in Nat : Pow[k + 1] = Base * Pow[k]
  BY PowDef DEF Positive
<1>2. Base \in Nat /\ Base > 24
  BY WireAssumption
<1> DEFINE G == {n \in Nat : Pow[n + 1] >= Base}
<1>3. Nat \subseteq G
  <2>1. 0 \in G
    <3>1. Pow[0 + 1] = Base * Pow[0] /\ 0 + 1 = 1
      BY <1>1
    <3> QED BY <1>1, <1>2, <3>1
  <2>2. ASSUME NEW n \in Nat, n \in G PROVE n + 1 \in G
    <3> DEFINE p == Pow[n + 1]
               q == Pow[(n + 1) + 1]
    <3>1. q = Base * p /\ p \in Nat /\ p >= Base
      BY <1>1, <2>2
    <3> HIDE DEF p, q
    <3>2. \A a, b \in Nat : a >= 1 => a * b >= b
      <4> SUFFICES ASSUME NEW a \in Nat, NEW b \in Nat, a >= 1 PROVE a * b >= b
        OBVIOUS
      <4>1. a * b = (a - 1) * b + b /\ (a - 1) * b \in Nat
        OBVIOUS
      <4> QED BY <4>1
    <3>3. q >= p
      BY <1>2, <3>1, <3>2
    <3>4. q >= Base
      BY <1>2, <3>1, <3>3
    <3> QED BY <3>4 DEF q
  <2> HIDE DEF G
  <2> QED BY <2>1, <2>2, Induction
<1>4. ASSUME NEW bits \in {16, 32, 64} PROVE Card(bits) \in Nat /\ Card(bits) > Base + 1
  <2> DEFINE n == Sizeof[bits]
  <2>1. n \in Nat /\ n >= 2
    <3>1. Sizeof[8] = 1 /\ Sizeof[16] \in Nat /\ Sizeof[32] \in Nat /\ Sizeof[64] \in Nat
          /\ Sizeof[8] < Sizeof[16] /\ Sizeof[16] < Sizeof[32] /\ Sizeof[32] < Sizeof[64]
      BY WireAssumption
    <3> DEFINE a == Sizeof[16]
               b == Sizeof[32]
               c == Sizeof[64]
    <3>2. a \in Nat /\ b \in Nat /\ c \in Nat /\ 1 < a /\ a < b /\ b < c /\ n \in {a, b, c}
      BY <3>1
    <3> HIDE DEF a, b, c, n
    <3> QED BY <3>2
  <2> HIDE DEF n
  <2>2. n - 2 \in Nat /\ n - 1 \in Nat /\ (n - 2) + 1 = n - 1 /\ (n - 1) + 1 = n
    BY <2>1
  <2>3. Pow[n - 1] >= Base /\ Pow[n] = Base * Pow[n - 1] /\ Pow[n - 1] \in Nat
    <3>1. n - 2 \in G
      BY <1>3, <2>2
    <3>2. Pow[(n - 1) + 1] = Base * Pow[n - 1]
      BY <1>1, <2>2
    <3> QED BY <1>1, <2>2, <3>1, <3>2
  <2> DEFINE p == Pow[n - 1]
  <2>4. p \in Nat /\ p >= Base
    BY <2>3
  <2> HIDE DEF p
  <2>5. Base * p = Base * (p - 2) + 2 * Base /\ Base * (p - 2) >= 0 /\ Base * p \in Nat
    <3>1. p - 2 \in Nat
      BY <1>2, <2>4
    <3> DEFINE r == p - 2
    <3>2. r \in Nat /\ p = r + 2
      BY <2>4, <3>1
    <3> HIDE DEF r
    <3>3. Base * (r + 2) = Base * r + 2 * Base /\ Base * r \in Nat
      BY <1>2, <3>2
    <3> QED BY <1>2, <3>2, <3>3 DEF r
  <2>6. Base * p > Base + 1
    <3> DEFINE x == Base * p
               y == Base * (p - 2)
    <3>1. x = y + 2 * Base /\ y >= 0 /\ x \in Nat /\ y \in Int
      BY <1>2, <2>4, <2>5
    <3> HIDE DEF x, y
    <3>2. x > Base + 1
      BY <1>2, <3>1
    <3> QED BY <3>2 DEF x
  <2> QED BY <2>3, <2>5, <2>6 DEF Card, n, p
<1> QED BY <1>4

\* Magic number and version are read as they were written.
LEMMA HeadFits ==
  /\ MAGIC_NUMBER \in Int /\ MAGIC_NUMBER % Card(16) = MAGIC_NUMBER /\ MAGIC_NUMBER = Reader!MAGIC_NUMBER
  /\ LUABT_VERSION \in Int /\ LUABT_VERSION % Card(16) = LUABT_VERSION /\ LUABT_VERSION = Reader!LUABT_VERSION
<1> DEFINE n == Card(16)
<1>1. n \in Nat /\ n > Base + 1 /\ Base \in Nat
  BY CardBig, WireAssumption
<1> HIDE DEF n
<1>2. (Base + 1) % n = Base + 1 /\ 1 % n = 1
  BY <1>1
<1> QED BY <1>1, <1>2 DEF n, MAGIC_NUMBER, LUABT_VERSION, Reader!MAGIC_NUMBER, Reader!LUABT_VERSION

\* The next number of the file, as it is read.
LEMMA NextNumber ==
  ASSUME Storable, NEW w, Given(w), Following(w), NEW bits \in Widths, NEW v \in Int, v % Card(bits) = v,
         Piece(w.s, p_, writeNumber(bits, v)), Reader!Reader!readNumber(bits)
  PROVE  /\ UNCHANGED data /\ p_' = p_ + Sizeof[bits]
         /\ \/ p_' <= Len(data) /\ Reader!Reader!Value(bits) = v /\ short' = FALSE
            \/ p_' > Len(data) /\ Reader!Reader!Value(bits) = 0 /\ short' = TRUE /\ data # w.s
<1>1. w.s \in Seq(Byte) /\ Begins(data, w.s) /\ data \in Seq(Byte) /\ short = FALSE
  BY FileParts DEF Given, Following
<1> DEFINE s == w.s
<1>2. Piece(s, p_, writeNumber(bits, v)) /\ s \in Seq(Byte) /\ Begins(data, s)
  BY <1>1
<1> HIDE DEF s
<1>3. /\ UNCHANGED data /\ p_' = p_ + Sizeof[bits] /\ p_ \in Nat /\ Len(data) \in Nat /\ p_' \in Nat
      /\ \/ p_' <= Len(data) /\ Reader!Reader!Value(bits) = v % Card(bits) /\ short' = short
         \/ p_' > Len(data) /\ Reader!Reader!Value(bits) = 0 /\ short' = TRUE /\ data # s
  BY <1>1, <1>2, NumberFound
<1> QED BY <1>1, <1>3 DEF s

LEMMA MagicFollows ==
  ASSUME Storable, NEW w, Given(w), Following(w), Reader!ReadMagic
  PROVE  Following(w)' \/ Fallen(w)'
<1>1. rpc = "magic" /\ Reader!Reader!readNumber(16) /\ p_ = 0 /\ 16 \in Widths
  BY DEF Reader!ReadMagic, Following, Widths
<1>2. Piece(w.s, p_, writeNumber(16, MAGIC_NUMBER))
  BY <1>1, FileParts DEF Given
<1>3. /\ UNCHANGED data /\ p_' = p_ + Sizeof[16]
      /\ \/ p_' <= Len(data) /\ Reader!Reader!Value(16) = MAGIC_NUMBER /\ short' = FALSE
         \/ p_' > Len(data) /\ Reader!Reader!Value(16) = 0 /\ short' = TRUE /\ data # w.s
  BY <1>1, <1>2, HeadFits, NextNumber
<1>4. Sizeof[16] \in Nat /\ MAGIC_NUMBER # 0
  BY WireAssumption DEF MAGIC_NUMBER
<1>5. CASE short' = TRUE
  <2>1. Reader!Reject(rL)
    BY <1>3, <1>4, <1>5, HeadFits DEF Reader!ReadMagic
  <2> QED BY <1>3, <1>5, <2>1, GivesUp
<1>6. CASE short' = FALSE
  <2>1. rpc' = "version" /\ p_' = Sizeof[16] /\ p_' <= Len(data)
    BY <1>1, <1>3, <1>4, <1>6, HeadFits DEF Reader!ReadMagic
  <2>2. Following(w)'
    BY <1>3, <1>6, <2>1 DEF Following, ReaderRuns
  <2> QED BY <2>2
<1> QED BY <1>3, <1>5, <1>6

LEMMA VersionFollows ==
  ASSUME Storable, NEW w, Given(w), Following(w), Reader!ReadVersion
  PROVE  Following(w)' \/ Fallen(w)'
<1>1. rpc = "version" /\ Reader!Reader!readNumber(16) /\ p_ = Sizeof[16] /\ 16 \in Widths
  BY DEF Reader!ReadVersion, Following, Widths
<1>2. Piece(w.s, p_, writeNumber(16, LUABT_VERSION))
  BY <1>1, FileParts DEF Given
<1>3. /\ UNCHANGED data /\ p_' = p_ + Sizeof[16]
      /\ \/ p_' <= Len(data) /\ Reader!Reader!Value(16) = LUABT_VERSION /\ short' = FALSE
         \/ p_' > Len(data) /\ Reader!Reader!Value(16) = 0 /\ short' = TRUE /\ data # w.s
  BY <1>1, <1>2, HeadFits, NextNumber
<1>4. Sizeof[16] \in Nat /\ LUABT_VERSION # 0
  BY WireAssumption DEF LUABT_VERSION
<1>5. CASE short' = TRUE
  <2>1. Reader!Reject(rL)
    BY <1>3, <1>4, <1>5, HeadFits DEF Reader!ReadVersion
  <2> QED BY <1>3, <1>5, <2>1, GivesUp
<1>6. CASE short' = FALSE
  <2>1. rpc' = "pool" /\ p_' = 2 * Sizeof[16] /\ p_' <= Len(data)
    <3>1. p_' = Sizeof[16] + Sizeof[16]
      BY <1>1, <1>3
    <3> DEFINE x == Sizeof[16]
    <3>2. x \in Nat /\ p_' = x + x
      BY <1>4, <3>1
    <3> HIDE DEF x
    <3>3. p_' = 2 * x
      BY <3>2
    <3> QED BY <1>1, <1>3, <1>6, <3>3, HeadFits DEF Reader!ReadVersion, x
  <2>2. Following(w)'
    BY <1>3, <1>6, <2>1 DEF Following, ReaderRuns
  <2> QED BY <2>2
<1> QED BY <1>3, <1>5, <1>6

\* The pool of strings is read, and the value begins behind it.
LEMMA ValueBegins ==
  ASSUME Storable, NEW w, Given(w), p_' = PoolAt(w.fl, Len(Names(w))), rpc' = "value", heap' = <<>>, rframes' = <<>>
  PROVE  \E j \in 1..w.m : AtPlace(w, w.tr[j])'
<1>1. 1 \in 1..w.m /\ w.tr[1] = Conf("value", <<>>, <<>>, <<>>, <<>>)
  BY DEF Given, IsFile, IsTrace
<1> DEFINE c == Conf("value", <<>>, <<>>, <<>>, <<>>)
<1>2. c.pc = "value" /\ c.fr = <<>> /\ c.bytes = <<>> /\ c.made = <<>>
  BY DEF Conf
<1> HIDE DEF c
<1>3. Body(w) = PoolAt(w.fl, Len(Names(w))) /\ Body(w) \in Nat
  BY FileParts DEF Given
<1>4. p_' = Body(w) + Len(c.bytes)
  BY <1>2, <1>3
<1>5. ReaderAt(c, w.root)'
  <2>1. Len(heap') = 0 /\ Len(rframes') = 0 /\ Len(c.made) = 0 /\ Len(c.fr) = 0
    BY <1>2
  <2> QED BY <1>2, <2>1 DEF ReaderAt
<1>6. AtPlace(w, c)'
  BY <1>2, <1>4, <1>5 DEF AtPlace
<1> QED BY <1>1, <1>6 DEF c

LEMMA PoolFollows ==
  ASSUME Storable, ReaderInv, NEW w, Given(w), Following(w), Reader!ReadPoolSize
  PROVE  Following(w)' \/ Fallen(w)'
<1> DEFINE n == Len(Names(w))
           v == Reader!Reader!Value(32)
<1>1. rpc = "pool" /\ Reader!Reader!readNumber(32) /\ p_ = 2 * Sizeof[16] /\ 32 \in Widths
  BY DEF Reader!ReadPoolSize, Reader!TStringPoolLength, Following, Widths
<1>2. /\ Piece(w.s, p_, writeNumber(32, n)) /\ n \in Nat /\ n < Card(32) /\ n <= Cardinality(WritableStrings)
      /\ PoolAt(w.fl, 0) = 2 * Sizeof[16] + Sizeof[32]
  BY <1>1, FileParts DEF Given, IsFile
<1>3. n % Card(32) = n /\ n \in Int
  <2>1. 32 \in {16, 32, 64}
    OBVIOUS
  <2>2. Card(32) \in Nat
    BY <2>1, CardBig
  <2> HIDE DEF n
  <2> QED BY <1>2, <2>2
<1> HIDE DEF n
<1>4. /\ UNCHANGED data /\ p_' = p_ + Sizeof[32]
      /\ \/ p_' <= Len(data) /\ v = n /\ short' = FALSE
         \/ p_' > Len(data) /\ v = 0 /\ short' = TRUE /\ data # w.s
  BY <1>1, <1>2, <1>3, NextNumber
<1>5. rframes = <<>> /\ heap = <<>> /\ rstrings = <<>>
  BY <1>1 DEF ReaderInv, ReaderWaits
<1>6. \/ v > MemLimit /\ rpc' = "raised"
      \/ /\ ~(v > MemLimit) /\ rsize' = v /\ rstrings' = <<>> /\ rpc' = (IF 0 < v THEN "length" ELSE "value")
         /\ UNCHANGED <<heap, rframes>>
  BY DEF Reader!ReadPoolSize, Reader!Raise, Reader!AfterStrings, Reader!TStringPoolLength
<1> HIDE DEF v
<1>7. CASE short' = TRUE
  <2>1. v = 0 /\ p_' > Len(data) /\ data # w.s
    BY <1>4, <1>7
  <2>2. rpc' = "value" /\ rframes' = <<>>
    BY <1>5, <1>6, <2>1, ReaderAssumption
  <2>3. KeysHold'
    BY <2>2 DEF KeysHold
  <2> QED BY <1>4, <1>7, <2>1, <2>2, <2>3 DEF Fallen
<1>8. CASE short' = FALSE
  <2>1. v = n /\ p_' <= Len(data) /\ p_' = PoolAt(w.fl, 0)
    BY <1>1, <1>2, <1>4, <1>8
  <2>2. CASE rpc' = "raised"
    <3>1. n > MemLimit
      BY <1>6, <2>1, <2>2
    <3>2. ~MemorySuffices
      <4> SUFFICES ASSUME MemorySuffices PROVE FALSE
        OBVIOUS
      <4>1. Cardinality(WritableStrings) <= MemLimit
        BY DEF MemorySuffices
      <4>2. Cardinality(WritableStrings) \in Nat /\ MemLimit \in Nat
        BY ReaderAssumption, FS_CardinalityType DEF Storable
      <4> QED BY <1>2, <3>1, <4>1, <4>2
    <3> QED BY <1>4, <1>8, <2>1, <2>2, <3>2 DEF Following, ReaderRuns
  <2>3. CASE rpc' = "length"
    <3>1. Len(rstrings') = 0 /\ rsize' = n /\ heap' = <<>>
      BY <1>5, <1>6, <2>1, <2>3
    <3>2. Pooled(w)'
      BY <3>1 DEF Pooled, n
    <3> QED BY <1>4, <1>8, <2>1, <2>3, <3>1, <3>2 DEF Following, ReaderRuns
  <2>4. CASE rpc' = "value"
    <3>1. /\ Len(rstrings') = 0 /\ rsize' = n /\ heap' = <<>> /\ rframes' = <<>> /\ n = 0
      BY <1>2, <1>5, <1>6, <2>1, <2>4
    <3>2. Pooled(w)'
      BY <3>1 DEF Pooled, n
    <3>3. \E j \in 1..w.m : AtPlace(w, w.tr[j])'
      BY <2>1, <2>4, <3>1, ValueBegins DEF n
    <3> QED BY <1>4, <1>8, <2>1, <2>4, <3>1, <3>2, <3>3 DEF Following, ReaderRuns
  <2> QED BY <1>6, <2>2, <2>3, <2>4
<1> QED BY <1>4, <1>7, <1>8

\* The string that comes next.
LEMMA NextName ==
  ASSUME Storable, ReaderInv, NEW w, Given(w), Pooled(w), rpc \in {"length", "bytes"}
  PROVE  LET k == Len(rstrings) + 1
             b == Names(w)[k][2] IN
         /\ k \in 1..Len(Names(w)) /\ k - 1 = Len(rstrings) /\ Len(rstrings) \in Nat
         /\ Names(w)[k] = Str(b) /\ b \in Seq(Byte) /\ Len(b) \in Nat \ {0} /\ Len(b) < Card(16)
         /\ Piece(w.s, PoolAt(w.fl, Len(rstrings)), writeNumber(16, Len(b)))
         /\ Piece(w.s, PoolAt(w.fl, Len(rstrings)) + Sizeof[16], b)
         /\ PoolAt(w.fl, k) = PoolAt(w.fl, Len(rstrings)) + Sizeof[16] + Len(b)
<1> DEFINE n == Len(rstrings)
           k == n + 1
           b == Names(w)[k][2]
<1>1. n \in Nat /\ n < rsize /\ rsize = Len(Names(w))
  <2>1. ReaderTypes /\ RTops
    BY DEF ReaderInv, ReaderRuns
  <2> QED BY <2>1 DEF ReaderTypes, RTops, Pooled
<1>2. Names(w) \in Seq(Name) /\ Len(Names(w)) \in Nat
  BY FileParts DEF Given
<1> HIDE DEF n
<1>3. k \in 1..Len(Names(w)) /\ k - 1 = n
  BY <1>1, <1>2
<1>4. Names(w)[k] \in Name
  BY <1>2, <1>3
<1>5. Names(w)[k] = Str(b) /\ b \in Seq(Byte) /\ Len(b) \in Nat \ {0} /\ Len(b) < Card(16)
  BY <1>4, NameIs
<1>6. /\ Piece(w.s, PoolAt(w.fl, k - 1), writeNumber(16, Len(b)))
      /\ Piece(w.s, PoolAt(w.fl, k - 1) + Sizeof[16], b)
      /\ PoolAt(w.fl, k) = PoolAt(w.fl, k - 1) + Sizeof[16] + Len(b)
  BY <1>3, FileParts DEF Given
<1> HIDE DEF k, b
<1>7. /\ k \in 1..Len(Names(w)) /\ k - 1 = n /\ n \in Nat
      /\ Names(w)[k] = Str(b) /\ b \in Seq(Byte) /\ Len(b) \in Nat \ {0} /\ Len(b) < Card(16)
      /\ Piece(w.s, PoolAt(w.fl, n), writeNumber(16, Len(b)))
      /\ Piece(w.s, PoolAt(w.fl, n) + Sizeof[16], b)
      /\ PoolAt(w.fl, k) = PoolAt(w.fl, n) + Sizeof[16] + Len(b)
  BY <1>1, <1>3, <1>5, <1>6
<1> QED BY <1>7 DEF k, b, n

LEMMA LengthFollows ==
  ASSUME Storable, ReaderInv, NEW w, Given(w), Following(w), Reader!ReadLength
  PROVE  Following(w)' \/ Fallen(w)'
<1> DEFINE k == Len(rstrings) + 1
           l == Len(Names(w)[k][2])
           v == Reader!Reader!Value(16)
<1>1. rpc = "length" /\ Reader!Reader!readNumber(16) /\ 16 \in Widths
  BY DEF Reader!ReadLength, Reader!TStringLength, Widths
<1>2. p_ = PoolAt(w.fl, Len(rstrings)) /\ Pooled(w) /\ heap = <<>>
  BY <1>1 DEF Following, ReaderRuns
<1>3. l \in Nat \ {0} /\ l < Card(16) /\ Piece(w.s, p_, writeNumber(16, l))
  BY <1>1, <1>2, NextName
<1> HIDE DEF l
<1>4. l % Card(16) = l /\ l \in Int
  <2>1. 16 \in {16, 32, 64}
    OBVIOUS
  <2>2. Card(16) \in Nat
    BY <2>1, CardBig
  <2> QED BY <1>3, <2>2
<1>5. /\ UNCHANGED data /\ p_' = p_ + Sizeof[16]
      /\ \/ p_' <= Len(data) /\ v = l /\ short' = FALSE
         \/ p_' > Len(data) /\ v = 0 /\ short' = TRUE /\ data # w.s
  BY <1>1, <1>3, <1>4, NextNumber
<1>6. \/ v = 0 /\ Reader!Fail
      \/ v # 0 /\ payload' = v /\ rpc' = "bytes" /\ UNCHANGED <<heap, rsize, rstrings>>
  BY DEF Reader!ReadLength, Reader!TStringLength, Reader!strTable
<1> HIDE DEF v
<1>7. CASE short' = TRUE
  BY <1>5, <1>6, <1>7, GivesUp
<1>8. CASE short' = FALSE
  <2>1. v = l /\ p_' <= Len(data) /\ v # 0
    BY <1>3, <1>5, <1>8
  <2>2. payload' = l /\ rpc' = "bytes" /\ UNCHANGED <<heap, rsize, rstrings>>
    BY <1>6, <2>1
  <2>3. Pooled(w)'
    BY <1>2, <2>2 DEF Pooled
  <2>4. payload' = Len(Names(w)[Len(rstrings') + 1][2]) /\ p_' = PoolAt(w.fl, Len(rstrings')) + Sizeof[16]
    BY <1>2, <1>5, <2>2 DEF l, k
  <2>5. heap' = <<>>
    BY <1>2, <2>2
  <2> HIDE DEF k
  <2> QED BY <1>5, <1>8, <2>1, <2>2, <2>3, <2>4, <2>5 DEF Following, ReaderRuns
<1> QED BY <1>5, <1>7, <1>8

LEMMA StringFollows ==
  ASSUME Storable, ReaderInv, NEW w, Given(w), Following(w), Reader!ReadString
  PROVE  Following(w)' \/ Fallen(w)'
<1> DEFINE n == Len(rstrings)
           k == n + 1
           b == Names(w)[k][2]
<1>1. rpc = "bytes" /\ Reader!Reader!readBytes(payload)
  BY DEF Reader!ReadString
<1>2. p_ = PoolAt(w.fl, n) + Sizeof[16] /\ payload = Len(b) /\ Pooled(w) /\ heap = <<>>
  BY <1>1 DEF Following, ReaderRuns
<1>3. /\ k \in 1..Len(Names(w)) /\ n \in Nat /\ Names(w)[k] = Str(b)
      /\ Piece(w.s, p_, b) /\ PoolAt(w.fl, k) = PoolAt(w.fl, n) + Sizeof[16] + Len(b)
  BY <1>1, <1>2, NextName
<1>4. w.s \in Seq(Byte) /\ Begins(data, w.s) /\ data \in Seq(Byte) /\ short = FALSE /\ Len(Names(w)) \in Nat
  BY FileParts DEF Given, Following
<1> HIDE DEF b
<1>5. /\ UNCHANGED data
      /\ \/ /\ Reader!Reader!Fits(Len(b)) /\ Reader!Reader!Ahead(Len(b)) = b
            /\ p_' = p_ + Len(b) /\ p_' <= Len(data) /\ short' = short
         \/ ~Reader!Reader!Fits(Len(b)) /\ data # w.s /\ short' = TRUE
  <2> DEFINE s == w.s
  <2>1. s \in Seq(Byte) /\ Begins(data, s) /\ Piece(s, p_, b) /\ Reader!Reader!readBytes(Len(b))
    BY <1>1, <1>2, <1>3, <1>4
  <2> HIDE DEF s
  <2>2. /\ UNCHANGED data /\ p_ \in Nat /\ Len(b) \in Nat /\ Len(data) \in Nat
        /\ \/ /\ Reader!Reader!Fits(Len(b)) /\ Reader!Reader!Ahead(Len(b)) = b
              /\ p_' = p_ + Len(b) /\ p_' <= Len(data) /\ short' = short
           \/ ~Reader!Reader!Fits(Len(b)) /\ data # s /\ short' = TRUE
    BY <1>4, <2>1, BytesFound
  <2> QED BY <2>2 DEF s
<1>6. CASE ~Reader!Reader!Fits(Len(b))
  <2>1. Reader!Fail
    BY <1>2, <1>6 DEF Reader!ReadString
  <2> QED BY <1>5, <1>6, <2>1, GivesUp
<1>7. CASE Reader!Reader!Fits(Len(b))
  <2>1. Reader!Reader!Ahead(Len(b)) = b /\ p_' = p_ + Len(b) /\ p_' <= Len(data) /\ short' = FALSE
    BY <1>4, <1>5, <1>7
  <2>2. /\ rstrings' = Append(rstrings, b) /\ rpc' = (IF n + 1 < rsize THEN "length" ELSE "value")
        /\ UNCHANGED heap /\ UNCHANGED rframes /\ UNCHANGED rsize
    BY <1>2, <1>7, <2>1 DEF Reader!ReadString, Reader!AfterStrings
  <2>3. rstrings \in Seq(Seq(Byte)) /\ rframes = <<>> /\ rsize = Len(Names(w))
    <3>1. ReaderTypes /\ RTops
      BY <1>1 DEF ReaderInv, ReaderRuns
    <3> QED BY <1>1, <1>2, <3>1 DEF ReaderTypes, RTops, Pooled
  <2>4. Len(rstrings') = k /\ rstrings'[k] = b /\ \A i \in 1..n : rstrings'[i] = rstrings[i]
    BY <2>2, <2>3
  <2>5. Pooled(w)'
    <3> SUFFICES ASSUME NEW i \in 1..k PROVE Names(w)[i] = Str(rstrings'[i])
      BY <2>2, <2>3, <2>4 DEF Pooled
    <3>1. CASE i = k
      BY <1>3, <2>4, <3>1
    <3>2. CASE i # k
      <4>1. i \in 1..n
        BY <1>3, <3>2
      <4> QED BY <1>2, <2>4, <4>1 DEF Pooled
    <3> QED BY <3>1, <3>2
  <2>6. p_' = PoolAt(w.fl, k) /\ heap' = <<>> /\ rframes' = <<>>
    BY <1>2, <1>3, <2>1, <2>2, <2>3
  <2>7. CASE rpc' = "length"
    <3>1. p_' = PoolAt(w.fl, Len(rstrings'))
      BY <2>4, <2>6
    <3> HIDE DEF k, n
    <3> QED BY <1>5, <2>1, <2>5, <2>6, <2>7, <3>1 DEF Following, ReaderRuns
  <2>8. CASE rpc' = "value"
    <3>1. k = Len(Names(w))
      <4>1. ~(n + 1 < rsize)
        BY <2>2, <2>8
      <4> QED BY <1>3, <1>4, <2>3, <4>1
    <3>2. p_' = PoolAt(w.fl, Len(Names(w)))
      BY <2>6, <3>1
    <3>3. \E j \in 1..w.m : AtPlace(w, w.tr[j])'
      BY <2>6, <2>8, <3>2, ValueBegins
    <3> HIDE DEF k, n
    <3> QED BY <1>5, <2>1, <2>5, <2>6, <2>8, <3>3 DEF Following, ReaderRuns
  <2> QED BY <2>2, <2>7, <2>8
<1> QED BY <1>6, <1>7

-----------------------------------------------------------------------------
(* Values.                                                                 *)

\* A run that has not ended goes on.
LEMMA Onward ==
  ASSUME NEW w, IsFile(w), NEW j \in 1..w.m, w.tr[j].pc # "return" \/ w.tr[j].fr # <<>>
  PROVE  j + 1 \in 1..w.m /\ Leads(w, w.tr[j], w.tr[j + 1])
<1>1. w.m \in Nat /\ j # w.m
  BY DEF IsFile, IsTrace
<1>2. j \in 1..(w.m - 1) /\ j + 1 \in 1..w.m
  BY <1>1
<1> QED BY <1>2 DEF IsFile, IsTrace, Leads, Bytes, Names

\* A configuration of the run.
LEMMA RunSound ==
  ASSUME NEW w, IsFile(w), NEW j \in 1..w.m
  PROVE  Sound(w.tr[j], w.root) /\ w.root \in Writable /\ Len(w.tr[j].bytes) \in Nat
<1>1. Sound(w.tr[j], w.root) /\ w.root \in Writable
  BY DEF IsFile, IsTrace
<1> QED BY <1>1 DEF Sound

\* The next configuration is reached.
LEMMA Reaches ==
  ASSUME NEW w, Following(w), ReaderRuns, UNCHANGED data, short' = FALSE, p_' <= Len(data),
         UNCHANGED rsize, UNCHANGED rstrings, NEW j \in 1..w.m, rpc' \in {"value", "loop", "return"}, AtPlace(w, w.tr[j])'
  PROVE  Following(w)'
<1>1. Pooled(w)'
  BY DEF Following, Pooled
<1>2. \E i \in 1..w.m : AtPlace(w, w.tr[i])'
  OBVIOUS
<1> QED BY <1>1, <1>2 DEF Following

\* No constant is a table.
LEMMA ConstantType == \A t \in Simple : lua_type(Reader!Constants[t]) # "table"
<1> SUFFICES ASSUME NEW t \in Simple PROVE lua_type(Reader!Constants[t]) # "table"
  OBVIOUS
<1>1. /\ t = 1 => Reader!Constants[t] = Reader!Nil
      /\ t = 2 => Reader!Constants[t] = Reader!True
      /\ t = 3 => Reader!Constants[t] = Reader!False
      /\ t = 4 => Reader!Constants[t] = Reader!Num(0)
      /\ t = 5 => Reader!Constants[t] = Reader!Int2Num(1)
      /\ t = 12 => Reader!Constants[t] = Reader!Str(<<>>)
  BY DEF Simple, Reader!Constants, Reader!T
<1>2. t \in {1, 2, 3, 4, 5, 12}
  BY DEF Simple
<1>3. Reader!Constants[t] \in {Reader!Nil, Reader!True, Reader!False, Reader!Num(0), Reader!Num(2), Reader!Str(<<>>)}
  BY <1>1, <1>2 DEF Reader!Int2Num
<1>4. Reader!lua_type(Reader!Constants[t]) # "table"
  <2>1. <<>> \in Seq(Byte) /\ 0 \in Int /\ 2 \in Int
    OBVIOUS
  <2> QED BY <1>3, <2>1, Values
<1> QED BY <1>4 DEF lua_type, Reader!lua_type

\* parserValue tells five kinds of tags apart.
LEMMA TagSplits ==
  ASSUME Reader!ReadTag, NEW t, t = Reader!Reader!Value(8)
  PROVE  /\ t = 0 => Reader!Fail
         /\ t \in 1..23 =>
              \/ /\ t \in Simple /\ rL' = Append(rL, Reader!Constants[t]) /\ rpc' = "return"
                 /\ UNCHANGED heap /\ UNCHANGED rframes /\ UNCHANGED rsize /\ UNCHANGED rstrings
              \/ /\ t \in {16, 20} /\ Reader!NewTable /\ rpc' = "return"
                 /\ UNCHANGED rframes /\ UNCHANGED rsize /\ UNCHANGED rstrings /\ UNCHANGED rhandle
              \/ /\ t \notin Simple \cup {16, 20} /\ payload' = t /\ rpc' = "payload"
                 /\ UNCHANGED rL /\ UNCHANGED heap /\ UNCHANGED rframes /\ UNCHANGED rsize /\ UNCHANGED rstrings
<1>1. DOMAIN Reader!Constants = Simple
  BY DEF Reader!Constants, Reader!T, Simple
<1>2. Reader!T.EOF = 0 /\ Reader!T.MAX = 24 /\ Reader!T.ARRAY0 = 16 /\ Reader!T.TABLE0 = 20
  BY DEF Reader!T
<1>3. \/ (t = 0 \/ t >= 24) /\ Reader!Fail
      \/ t \in Simple /\ Reader!Push(Reader!Constants[t]) /\ rpc' = "return"
         /\ UNCHANGED <<heap, rframes, Reader!strTable, payload, ret>>
      \/ t \in {16, 20} /\ Reader!NewTable /\ rpc' = "return"
         /\ UNCHANGED <<rframes, Reader!strTable, payload, ret>>
      \/ t \in 1..(24 - 1) \ (Simple \cup {16, 20}) /\ payload' = t /\ rpc' = "payload"
         /\ UNCHANGED <<rL, heap, rframes, Reader!strTable, ret>>
  BY <1>1, <1>2 DEF Reader!ReadTag
<1>4. t = 0 => t \notin Simple /\ t \notin {16, 20} /\ t \notin 1..23
  BY DEF Simple
<1>5. t \in 1..23 => ~(t = 0 \/ t >= 24)
  OBVIOUS
<1>6. CASE t = 0
  BY <1>3, <1>4, <1>6
<1>7. CASE t \in 1..23
  <2>1. \/ t \in Simple /\ Reader!Push(Reader!Constants[t]) /\ rpc' = "return"
           /\ UNCHANGED <<heap, rframes, Reader!strTable, payload, ret>>
        \/ t \in {16, 20} /\ Reader!NewTable /\ rpc' = "return"
           /\ UNCHANGED <<rframes, Reader!strTable, payload, ret>>
        \/ t \notin Simple \cup {16, 20} /\ payload' = t /\ rpc' = "payload"
           /\ UNCHANGED <<rL, heap, rframes, Reader!strTable, ret>>
    BY <1>3, <1>5, <1>7
  <2> QED BY <1>4, <1>7, <2>1 DEF Reader!Push, Reader!strTable
<1> QED BY <1>4, <1>6, <1>7

\* A constant, or an empty table, or the operand comes next.
LEMMA TagFollows ==
  ASSUME Storable, ReaderInv, NEW w, Given(w), Following(w), Reader!ReadTag
  PROVE  Following(w)' \/ Fallen(w)'
<1>1. rpc = "value" /\ Reader!Reader!readNumber(8) /\ 8 \in Widths /\ ReaderRuns
  BY DEF Reader!ReadTag, Widths, ReaderRuns
<1>2. PICK j \in 1..w.m : AtPlace(w, w.tr[j])
  BY <1>1 DEF Following
<1> DEFINE c == w.tr[j]
           d == w.tr[j + 1]
           p == Body(w) + Len(c.bytes)
<1>3. c.pc = "value" /\ p_ = p /\ ReaderAt(c, w.root) /\ Sound(c, w.root) /\ IsFile(w)
  BY <1>1, <1>2, RunSound DEF AtPlace, Given
<1>4. j + 1 \in 1..w.m /\ Leads(w, c, d)
  BY <1>3, Onward
<1> HIDE DEF c, d
<1>5. PICK t \in 1..23 :
        /\ Piece(w.s, p, <<t>>) /\ t \in Byte /\ Len(c.bytes) \in Nat /\ Body(w) \in Nat
        /\ \/ SimpleNext(w, c, d, t) /\ Len(d.bytes) = Len(c.bytes) + 1
           \/ EmptyNext(w, c, d, t) /\ Len(d.bytes) = Len(c.bytes) + 1
           \/ NumberNext(w, c, d, t) \/ StringNext(w, c, d, t) \/ TableNext(w, c, d, t)
  BY <1>3, <1>4, ValueNext
<1>6. writeNumber(8, t) = <<t>> /\ t % Card(8) = t /\ Sizeof[8] = 1 /\ t \in Int
  BY <1>5, TagWritten
<1>7. /\ UNCHANGED data /\ p_' = p_ + 1
      /\ \/ p_' <= Len(data) /\ Reader!Reader!Value(8) = t /\ short' = FALSE
         \/ p_' > Len(data) /\ Reader!Reader!Value(8) = 0 /\ short' = TRUE /\ data # w.s
  <2>1. Piece(w.s, p_, writeNumber(8, t))
    BY <1>3, <1>5, <1>6
  <2> QED BY <1>1, <1>6, <2>1, NextNumber
<1>8. CASE short' = TRUE
  <2>1. Reader!Reader!Value(8) = 0
    BY <1>7, <1>8
  <2>2. Reader!Fail
    BY <2>1, TagSplits
  <2> QED BY <1>7, <1>8, <2>2, GivesUp
<1>9. CASE short' = FALSE
  <2>1. p_' <= Len(data) /\ Reader!Reader!Value(8) = t
    BY <1>7, <1>9
  <2>2. \/ /\ t \in Simple /\ rL' = Append(rL, Reader!Constants[t]) /\ rpc' = "return"
           /\ UNCHANGED heap /\ UNCHANGED rframes /\ UNCHANGED rsize /\ UNCHANGED rstrings
        \/ /\ t \in {16, 20} /\ Reader!NewTable /\ rpc' = "return"
           /\ UNCHANGED rframes /\ UNCHANGED rsize /\ UNCHANGED rstrings /\ UNCHANGED rhandle
        \/ /\ t \notin Simple \cup {16, 20} /\ payload' = t /\ rpc' = "payload"
           /\ UNCHANGED rL /\ UNCHANGED heap /\ UNCHANGED rframes /\ UNCHANGED rsize /\ UNCHANGED rstrings
    BY <2>1, TagSplits
  <2>3. CASE t \in Simple
    <3>1. SimpleNext(w, c, d, t) /\ Len(d.bytes) = Len(c.bytes) + 1
      BY <1>5, <2>3 DEF Simple, EmptyNext, NumberNext, StringNext, TableNext
    <3>2. /\ Wanted(c, w.root) = Reader!Constants[t] /\ d.pc = "return" /\ d.fr = c.fr /\ d.made = c.made
      BY <3>1 DEF SimpleNext, Conf
    <3>3. lua_type(Reader!Constants[t]) # "table"
      BY <2>3, ConstantType
    <3>4. Copy(Wanted(c, w.root), Reader!Constants[t], c.made)
      BY <3>2, <3>3 DEF Copy
    <3>5. t \notin {16, 20}
      BY <2>3 DEF Simple
    <3>6. /\ rL' = Append(rL, Reader!Constants[t]) /\ rpc' = "return"
          /\ UNCHANGED heap /\ UNCHANGED rframes /\ UNCHANGED rsize /\ UNCHANGED rstrings
      BY <2>2, <2>3, <3>5
    <3>7. ReaderAt(d, w.root)'
      <4> DEFINE y == Reader!Constants[t]
                 root == w.root
      <4>1. Copy(Wanted(c, root), y, c.made) /\ rL' = Append(rL, y) /\ UNCHANGED <<heap, rframes>> /\ ReaderAt(c, root)
        BY <1>3, <3>4, <3>6
      <4> HIDE DEF y, root
      <4>2. ReaderAt(d, root)'
        BY <1>1, <1>3, <3>2, <4>1, ValueRead
      <4> QED BY <4>2 DEF root
    <3>8. AtPlace(w, d)'
      <4>1. p_' = Body(w) + Len(d.bytes)
        BY <1>3, <1>5, <1>7, <3>1
      <4> QED BY <3>2, <3>6, <3>7, <4>1 DEF AtPlace
    <3> QED BY <1>1, <1>4, <1>7, <1>9, <2>1, <3>6, <3>8, Reaches DEF d
  <2>4. CASE t \in {16, 20}
    <3>1. EmptyNext(w, c, d, t) /\ Len(d.bytes) = Len(c.bytes) + 1
      BY <1>5, <2>4 DEF Simple, SimpleNext, NumberNext, StringNext, TableNext
    <3>2. PICK id \in DOMAIN Heap :
            /\ Wanted(c, w.root) = Tbl(id) /\ Keys(Heap[id]) = {}
            /\ d.pc = "return" /\ d.fr = c.fr /\ d.made = Append(c.made, id)
      BY <3>1 DEF EmptyNext, Conf
    <3>3. t \notin Simple
      BY <2>4 DEF Simple
    <3>4. Reader!NewTable /\ rpc' = "return" /\ UNCHANGED rframes /\ UNCHANGED rsize /\ UNCHANGED rstrings /\ UNCHANGED rhandle
      BY <2>2, <2>4, <3>3
    <3>5. ReaderAt(d, w.root)'
      <4> DEFINE root == w.root
      <4>1. ReaderAt(c, root) /\ Sound(c, root) /\ Wanted(c, root) = Tbl(id) /\ UNCHANGED <<rhandle, rframes>>
        BY <1>3, <3>2, <3>4
      <4> HIDE DEF root
      <4>2. ReaderAt(d, root)'
        BY <1>1, <1>3, <3>2, <3>4, <4>1, EmptyRead
      <4> QED BY <4>2 DEF root
    <3>6. AtPlace(w, d)'
      <4>1. p_' = Body(w) + Len(d.bytes)
        BY <1>3, <1>5, <1>7, <3>1
      <4> QED BY <3>2, <3>4, <3>5, <4>1 DEF AtPlace
    <3> QED BY <1>1, <1>4, <1>7, <1>9, <2>1, <3>4, <3>6, Reaches DEF d
  <2>5. CASE t \notin Simple \cup {16, 20}
    <3>1. /\ payload' = t /\ rpc' = "payload"
          /\ UNCHANGED rL /\ UNCHANGED heap /\ UNCHANGED rframes /\ UNCHANGED rsize /\ UNCHANGED rstrings
      BY <2>2, <2>5
    <3>2. ReaderAt(c, w.root)'
      BY <1>3, <3>1 DEF ReaderAt
    <3>3. AtOperand(w, c)'
      BY <1>3, <1>5, <1>7, <3>1, <3>2 DEF AtOperand
    <3>4. \E i \in 1..w.m : AtOperand(w, w.tr[i])'
      BY <3>3 DEF c
    <3>5. Pooled(w)'
      BY <1>1, <3>1 DEF Following, Pooled
    <3> QED BY <1>7, <1>9, <2>1, <3>1, <3>4, <3>5 DEF Following
  <2> QED BY <2>3, <2>4, <2>5
<1> QED BY <1>7, <1>8, <1>9

\* The operand of the value the reader is at comes next.
LEMMA OperandNext ==
  ASSUME Storable, ReaderInv, NEW w, Given(w), Following(w), rpc = "payload"
  PROVE  \E j \in 1..w.m :
           /\ AtOperand(w, w.tr[j]) /\ w.tr[j].pc = "value" /\ ReaderAt(w.tr[j], w.root) /\ Sound(w.tr[j], w.root)
           /\ j + 1 \in 1..w.m /\ w.root \in Writable
           /\ \/ NumberNext(w, w.tr[j], w.tr[j + 1], payload) \/ StringNext(w, w.tr[j], w.tr[j + 1], payload)
              \/ TableNext(w, w.tr[j], w.tr[j + 1], payload)
<1>1. PICK j \in 1..w.m : AtOperand(w, w.tr[j])
  BY DEF Following
<1> DEFINE c == w.tr[j]
           d == w.tr[j + 1]
           p == Body(w) + Len(c.bytes)
<1>2. c.pc = "value" /\ ReaderAt(c, w.root) /\ Piece(w.s, p, <<payload>>)
  BY <1>1 DEF AtOperand
<1>3. Sound(c, w.root) /\ IsFile(w) /\ w.root \in Writable
  BY RunSound DEF Given
<1>4. j + 1 \in 1..w.m /\ Leads(w, c, d)
  BY <1>2, <1>3, Onward
<1> HIDE DEF c, d
<1>5. PICK t \in 1..23 :
        /\ Piece(w.s, p, <<t>>)
        /\ \/ SimpleNext(w, c, d, t) \/ EmptyNext(w, c, d, t)
           \/ NumberNext(w, c, d, t) \/ StringNext(w, c, d, t) \/ TableNext(w, c, d, t)
  BY <1>2, <1>3, <1>4, ValueNext
<1> HIDE DEF p
<1>6. t = payload
  <2> DEFINE s == w.s
  <2>1. Piece(s, p, <<t>>) /\ Piece(s, p, <<payload>>)
    BY <1>2, <1>5
  <2> HIDE DEF s
  <2> QED BY <2>1, SameByte
<1>7. payload \in 6..23 \ {12, 16, 20}
  <2>1. RTops
    BY WhileParsing
  <2> QED BY <2>1 DEF RTops
<1>8. NumberNext(w, c, d, payload) \/ StringNext(w, c, d, payload) \/ TableNext(w, c, d, payload)
  <2>1. payload \notin Simple /\ payload # 20
    BY <1>7 DEF Simple
  <2> QED BY <1>5, <1>6, <2>1 DEF SimpleNext, EmptyNext
<1> QED BY <1>1, <1>2, <1>3, <1>4, <1>8 DEF c, d

\* It is read, unless the file has ended.
LEMMA OperandRead ==
  ASSUME Storable, NEW w, Given(w), Following(w), NEW c, AtOperand(w, c), NEW d, NEW o \in Int,
         OperandAt(w, c, d, payload, o), NEW bits, bits = Reader!Operand(payload), Reader!Reader!readNumber(bits)
  PROVE  /\ UNCHANGED data
         /\ \/ /\ p_' = Body(w) + Len(d.bytes) /\ p_' <= Len(data)
               /\ Reader!Reader!Value(bits) = o % Card(bits) /\ short' = FALSE
            \/ p_' > Len(data) /\ Reader!Reader!Value(bits) = 0 /\ short' = TRUE /\ data # w.s
<1> DEFINE s == w.s
           p == Body(w) + Len(c.bytes) + 1
<1>1. data \in Seq(Byte) /\ s \in Seq(Byte) /\ Begins(data, s) /\ short = FALSE
  BY FileParts DEF Given, Following
<1>2. p_ = p
  BY DEF AtOperand
<1>3. bits \in Widths /\ Piece(s, p_, writeNumber(bits, o))
  BY <1>2 DEF OperandAt
<1>4. p + Sizeof[bits] = Body(w) + Len(d.bytes)
  <2> DEFINE a == Body(w)
             b == Len(c.bytes)
             z == Sizeof[bits]
  <2>1. a \in Nat /\ b \in Nat /\ z \in Nat /\ Len(d.bytes) = b + 1 + z
    BY DEF OperandAt
  <2> HIDE DEF a, b, z
  <2>2. a + b + 1 + z = a + Len(d.bytes)
    BY <2>1
  <2> QED BY <2>2 DEF a, b, z
<1> HIDE DEF s, p
<1>5. /\ UNCHANGED data /\ p_' = p_ + Sizeof[bits]
      /\ \/ p_' <= Len(data) /\ Reader!Reader!Value(bits) = o % Card(bits) /\ short' = short
         \/ p_' > Len(data) /\ Reader!Reader!Value(bits) = 0 /\ short' = TRUE /\ data # s
  BY <1>1, <1>3, NumberFound
<1> QED BY <1>1, <1>2, <1>4, <1>5 DEF s

\* A number.
LEMMA NumberFollows ==
  ASSUME Storable, ReaderInv, NEW w, Given(w), Following(w), Reader!ReadNumber
  PROVE  Following(w)' \/ Fallen(w)'
<1> DEFINE bits == Reader!Operand(payload)
           v == Reader!Reader!Value(bits)
           y == Reader!Num(Reader!PushedNumber(payload, v))
<1>1. /\ rpc = "payload" /\ payload \in 6..11 /\ Reader!Reader!readNumber(bits)
      /\ rL' = Append(rL, y) /\ rpc' = "return" /\ UNCHANGED heap /\ UNCHANGED rframes /\ UNCHANGED rsize /\ UNCHANGED rstrings
  BY DEF Reader!ReadNumber, Reader!T, Reader!strTable, Reader!Push
<1>2. PICK j \in 1..w.m :
        /\ AtOperand(w, w.tr[j]) /\ w.tr[j].pc = "value" /\ ReaderAt(w.tr[j], w.root) /\ Sound(w.tr[j], w.root)
        /\ j + 1 \in 1..w.m /\ w.root \in Writable
        /\ \/ NumberNext(w, w.tr[j], w.tr[j + 1], payload) \/ StringNext(w, w.tr[j], w.tr[j + 1], payload)
           \/ TableNext(w, w.tr[j], w.tr[j + 1], payload)
  BY <1>1, OperandNext
<1> DEFINE c == w.tr[j]
           d == w.tr[j + 1]
<1>3. NumberNext(w, c, d, payload)
  <2>1. payload \notin 13..15 /\ payload \notin 17..19 \cup 21..23
    BY <1>1
  <2> QED BY <1>2, <2>1 DEF StringNext, TableNext
<1> HIDE DEF c, d
<1>4. PICK o \in Int :
        /\ OperandAt(w, c, d, payload, o) /\ Wanted(c, w.root) = Num(Decoded(payload, o))
        /\ d.pc = "return" /\ d.fr = c.fr /\ d.made = c.made
  BY <1>3 DEF NumberNext, Conf
<1>5. /\ AtOperand(w, c) /\ c.pc = "value" /\ ReaderAt(c, w.root) /\ Sound(c, w.root) /\ w.root \in Writable
  BY <1>2 DEF c
<1> HIDE DEF bits
<1>6. /\ UNCHANGED data
      /\ \/ /\ p_' = Body(w) + Len(d.bytes) /\ p_' <= Len(data) /\ v = o % Card(bits) /\ short' = FALSE
         \/ p_' > Len(data) /\ v = 0 /\ short' = TRUE /\ data # w.s
  BY <1>1, <1>4, <1>5, OperandRead DEF bits
<1>7. CASE short' = TRUE
  <2> HIDE DEF y
  <2> QED BY <1>1, <1>5, <1>6, <1>7, FallsAtValue
<1>8. CASE short' = FALSE
  <2>1. p_' = Body(w) + Len(d.bytes) /\ p_' <= Len(data) /\ v = o % Card(bits)
    BY <1>6, <1>8
  <2>2. Wanted(c, w.root) = y
    BY <1>4, <2>1 DEF Decoded, Num, Reader!Num, bits
  <2>3. Copy(Wanted(c, w.root), y, c.made)
    <3>1. lua_type(y) # "table"
      BY DEF lua_type, Reader!Num
    <3> QED BY <2>2, <3>1 DEF Copy
  <2> HIDE DEF y, v
  <2>4. ReaderAt(d, w.root)'
    <3> DEFINE root == w.root
    <3>1. ReaderAt(c, root) /\ Copy(Wanted(c, root), y, c.made)
      BY <1>5, <2>3
    <3> HIDE DEF root
    <3>2. ReaderAt(d, root)'
      BY <1>1, <1>4, <1>5, <3>1, ValueRead
    <3> QED BY <3>2 DEF root
  <2>5. AtPlace(w, d)'
    BY <1>1, <1>4, <2>1, <2>4 DEF AtPlace
  <2>6. ReaderRuns
    BY <1>1 DEF ReaderRuns
  <2> QED BY <1>1, <1>2, <1>6, <1>8, <2>1, <2>5, <2>6, Reaches DEF d
<1> QED BY <1>6, <1>7, <1>8

\* A string, by its number.
LEMMA StringIndexFollows ==
  ASSUME Storable, ReaderInv, NEW w, Given(w), Following(w), Reader!ReadStringIndex
  PROVE  Following(w)' \/ Fallen(w)'
<1> DEFINE bits == Reader!Operand(payload)
           v == Reader!Reader!Value(bits)
           y == Reader!getString(v)
<1>1. /\ rpc = "payload" /\ payload \in 13..15 /\ Reader!Reader!readNumber(bits)
      /\ v > rsize \/ (/\ rL' = Append(rL, y) /\ rpc' = "return"
                      /\ UNCHANGED heap /\ UNCHANGED rframes /\ UNCHANGED rsize /\ UNCHANGED rstrings)
  BY DEF Reader!ReadStringIndex, Reader!T, Reader!strTable, Reader!Push
<1>2. PICK j \in 1..w.m :
        /\ AtOperand(w, w.tr[j]) /\ w.tr[j].pc = "value" /\ ReaderAt(w.tr[j], w.root) /\ Sound(w.tr[j], w.root)
        /\ j + 1 \in 1..w.m /\ w.root \in Writable
        /\ \/ NumberNext(w, w.tr[j], w.tr[j + 1], payload) \/ StringNext(w, w.tr[j], w.tr[j + 1], payload)
           \/ TableNext(w, w.tr[j], w.tr[j + 1], payload)
  BY <1>1, OperandNext
<1> DEFINE c == w.tr[j]
           d == w.tr[j + 1]
<1>3. StringNext(w, c, d, payload)
  <2>1. payload \notin 6..11 /\ payload \notin 17..19 \cup 21..23
    BY <1>1
  <2> QED BY <1>2, <2>1 DEF NumberNext, TableNext
<1>4. Leads(w, c, d)
  <2>1. IsFile(w) /\ c.pc = "value"
    BY <1>2 DEF Given
  <2> QED BY <2>1, Onward
<1> HIDE DEF c, d
<1>5. PICK o \in Nat, names \in Seq(Name) :
        /\ OperandAt(w, c, d, payload, o) /\ o < Card(bits) /\ o \in 1..Len(names) /\ names[o] = Wanted(c, w.root)
        /\ d.pc = "return" /\ d.fr = c.fr /\ d.made = c.made /\ d.names = names
  BY <1>3 DEF StringNext, Conf
<1>6. /\ AtOperand(w, c) /\ c.pc = "value" /\ ReaderAt(c, w.root) /\ Sound(c, w.root) /\ w.root \in Writable
  BY <1>2 DEF c
<1>7. Pooled(w) /\ rsize \in Nat /\ Len(rstrings) = rsize /\ ReaderRuns
  <2>1. ReaderRuns /\ ReaderTypes /\ RTops
    BY <1>1, WhileParsing
  <2> QED BY <1>1, <2>1 DEF ReaderTypes, RTops, Following
<1> HIDE DEF bits
<1>8. /\ UNCHANGED data
      /\ \/ /\ p_' = Body(w) + Len(d.bytes) /\ p_' <= Len(data) /\ v = o % Card(bits) /\ short' = FALSE
         \/ p_' > Len(data) /\ v = 0 /\ short' = TRUE /\ data # w.s
  <2>1. o \in Int
    OBVIOUS
  <2> QED BY <1>1, <1>5, <1>6, <2>1, OperandRead DEF bits
<1> HIDE DEF v
<1>9. CASE short' = TRUE
  <2>1. ~(v > rsize)
    BY <1>7, <1>8, <1>9
  <2> HIDE DEF y
  <2> QED BY <1>1, <1>6, <1>8, <1>9, <2>1, FallsAtValue
<1>10. CASE short' = FALSE
  <2>1. p_' = Body(w) + Len(d.bytes) /\ p_' <= Len(data) /\ v = o
    <3> DEFINE q == Card(bits)
    <3>1. q \in Nat \ {0} /\ o < q
      BY <1>5, CardPositive DEF OperandAt, bits
    <3> HIDE DEF q
    <3>2. o % q = o
      BY <3>1
    <3> QED BY <1>8, <1>10, <3>2 DEF q
  <2>2. o \in 1..Len(rstrings) /\ Names(w)[o] = Wanted(c, w.root)
    <3>1. Begins(names, Names(w)) /\ Len(names) \in Nat
      BY <1>4, <1>5 DEF Leads
    <3>2. Len(names) <= Len(Names(w)) /\ Names(w)[o] = names[o]
      BY <1>5, <3>1 DEF Begins
    <3> QED BY <1>5, <1>7, <3>1, <3>2 DEF Pooled
  <2>3. y = Wanted(c, w.root) /\ y = Str(rstrings[o])
    <3>1. o # 0
      BY <1>5
    <3>2. y = Reader!Str(rstrings[o])
      BY <2>1, <3>1 DEF Reader!getString
    <3>3. Names(w)[o] = Str(rstrings[o])
      BY <1>7, <2>2 DEF Pooled
    <3> QED BY <2>2, <3>2, <3>3 DEF Str, Reader!Str
  <2>4. ~(v > rsize)
    BY <1>7, <2>1, <2>2
  <2>5. Copy(Wanted(c, w.root), y, c.made)
    <3>1. lua_type(y) # "table"
      BY <2>3 DEF lua_type, Str
    <3> QED BY <2>3, <3>1 DEF Copy
  <2>6. /\ rL' = Append(rL, y) /\ rpc' = "return"
        /\ UNCHANGED heap /\ UNCHANGED rframes /\ UNCHANGED rsize /\ UNCHANGED rstrings
    BY <1>1, <2>4
  <2> HIDE DEF y
  <2>7. ReaderAt(d, w.root)'
    <3> DEFINE root == w.root
    <3>1. ReaderAt(c, root) /\ Copy(Wanted(c, root), y, c.made)
      BY <1>6, <2>5
    <3> HIDE DEF root
    <3>2. ReaderAt(d, root)'
      BY <1>1, <1>5, <1>6, <2>6, <3>1, ValueRead
    <3> QED BY <3>2 DEF root
  <2>8. AtPlace(w, d)'
    BY <1>5, <2>1, <2>6, <2>7 DEF AtPlace
  <2> QED BY <1>2, <1>7, <1>8, <1>10, <2>1, <2>6, <2>8, Reaches DEF d
<1> QED BY <1>8, <1>9, <1>10

\* The size of a table, which is made.
LEMMA SizeFollows ==
  ASSUME Storable, ReaderInv, NEW w, Given(w), Following(w), Reader!ReadSize
  PROVE  Following(w)' \/ Fallen(w)'
<1> DEFINE bits == Reader!Operand(payload)
           v == Reader!Reader!Value(bits)
           x == [t |-> Reader!NewId, at |-> Len(rL) + 1, kind |-> Reader!Kind(payload), i |-> 0, n |-> v, key |-> FALSE]
<1>1. /\ rpc = "payload" /\ payload \in 17..23 /\ Reader!Reader!readNumber(bits)
      /\ \/ v > MemLimit /\ rpc' = "raised"
         \/ /\ ~(v > MemLimit) /\ Reader!NewTable /\ rframes' = <<x>> \o rframes /\ rpc' = "loop"
            /\ UNCHANGED rhandle /\ UNCHANGED rsize /\ UNCHANGED rstrings
  BY DEF Reader!ReadSize, Reader!T, Reader!strTable, Reader!Raise
<1>2. PICK j \in 1..w.m :
        /\ AtOperand(w, w.tr[j]) /\ w.tr[j].pc = "value" /\ ReaderAt(w.tr[j], w.root) /\ Sound(w.tr[j], w.root)
        /\ j + 1 \in 1..w.m /\ w.root \in Writable
        /\ \/ NumberNext(w, w.tr[j], w.tr[j + 1], payload) \/ StringNext(w, w.tr[j], w.tr[j + 1], payload)
           \/ TableNext(w, w.tr[j], w.tr[j + 1], payload)
  BY <1>1, OperandNext
<1> DEFINE c == w.tr[j]
           d == w.tr[j + 1]
<1>3. TableNext(w, c, d, payload)
  <2>1. payload \notin 6..11 /\ payload \notin 13..15
    BY <1>1
  <2> QED BY <1>2, <2>1 DEF NumberNext, StringNext
<1>4. Leads(w, c, d)
  <2>1. IsFile(w) /\ c.pc = "value"
    BY <1>2 DEF Given
  <2> QED BY <2>1, Onward
<1> HIDE DEF c, d
<1> DEFINE kind == IF payload <= 19 THEN "array" ELSE "hash"
<1>5. PICK id \in DOMAIN Heap, ks \in Seq(Writable) :
        /\ OperandAt(w, c, d, payload, countTableLength(Heap[id])) /\ countTableLength(Heap[id]) < Card(bits)
        /\ countTableLength(Heap[id]) \in Nat \ {0}
        /\ Wanted(c, w.root) = Tbl(id) /\ Lists(ks, id, kind)
        /\ d.pc = "loop" /\ d.fr = <<Entered(c, id, kind, ks)>> \o c.fr /\ d.made = Append(c.made, id)
  <2>1. PICK id \in DOMAIN Heap, ks \in Seq(Writable) :
          /\ OperandAt(w, c, d, payload, countTableLength(Heap[id])) /\ countTableLength(Heap[id]) < Card(bits)
          /\ countTableLength(Heap[id]) \in Nat \ {0}
          /\ Wanted(c, w.root) = Tbl(id) /\ Lists(ks, id, kind)
          /\ d = Conf("loop", <<Entered(c, id, kind, ks)>> \o c.fr, c.bytes \o Token(payload, countTableLength(Heap[id])),
                      c.names, Append(c.made, id))
    BY <1>3 DEF TableNext
  <2>2. d.pc = "loop" /\ d.fr = <<Entered(c, id, kind, ks)>> \o c.fr /\ d.made = Append(c.made, id)
    BY <2>1 DEF Conf
  <2> QED BY <2>1, <2>2
<1> DEFINE n == countTableLength(Heap[id])
<1>6. /\ AtOperand(w, c) /\ c.pc = "value" /\ ReaderAt(c, w.root) /\ Sound(c, w.root) /\ w.root \in Writable
  BY <1>2 DEF c
<1>7. ReaderRuns /\ ReaderTypes /\ Pooled(w)
  <2>1. ReaderRuns /\ ReaderTypes
    BY <1>1, WhileParsing
  <2> QED BY <2>1 DEF Following
<1> HIDE DEF bits, n
<1>8. n \in Nat \ {0} /\ n < Card(bits) /\ OperandAt(w, c, d, payload, n)
  BY <1>5 DEF n
<1>9. /\ UNCHANGED data
      /\ \/ /\ p_' = Body(w) + Len(d.bytes) /\ p_' <= Len(data) /\ v = n % Card(bits) /\ short' = FALSE
         \/ p_' > Len(data) /\ v = 0 /\ short' = TRUE /\ data # w.s
  <2>1. n \in Int
    BY <1>8
  <2> QED BY <1>1, <1>6, <1>8, <2>1, OperandRead DEF bits
<1> HIDE DEF v
<1>10. CASE short' = TRUE
  <2>1. ~(v > MemLimit)
    BY <1>9, <1>10, ReaderAssumption
  <2>2. /\ rL' = Append(rL, Reader!Tbl(Reader!NewId)) /\ rframes' = <<x>> \o rframes /\ rpc' = "loop"
    BY <1>1, <2>1 DEF Reader!NewTable, Reader!Push
  <2>3. \A k \in 1..Len(rframes) : rframes[k].key => rL'[rframes[k].at + 1] # Nil
    <3> DEFINE y == Reader!Tbl(Reader!NewId)
               root == w.root
    <3>1. rL' = Append(rL, y) /\ root \in Writable /\ Sound(c, root) /\ ReaderAt(c, root)
      BY <1>6, <2>2
    <3> HIDE DEF y, root
    <3> QED BY <1>1, <1>6, <3>1, PushedKeys
  <2>4. x.key = FALSE
    OBVIOUS
  <2> HIDE DEF x
  <2>5. KeysHold'
    <3>1. rframes \in Seq(RFrame) /\ Len(rframes) \in Nat
      BY <1>7 DEF ReaderTypes
    <3>2. /\ Len(rframes') = Len(rframes) + 1 /\ rframes'[1] = x
          /\ \A k \in 1..Len(rframes) : rframes'[k + 1] = rframes[k]
      BY <2>2, <3>1
    <3> SUFFICES ASSUME NEW k \in 1..Len(rframes'), rframes'[k].key PROVE rL'[rframes'[k].at + 1] # Nil
      BY DEF KeysHold
    <3>3. k # 1
      BY <2>4, <3>2
    <3>4. k - 1 \in 1..Len(rframes) /\ (k - 1) + 1 = k
      BY <3>1, <3>2, <3>3
    <3>5. rframes'[k] = rframes[k - 1]
      BY <3>2, <3>4
    <3> QED BY <2>3, <3>4, <3>5
  <2> QED BY <1>9, <1>10, <2>2, <2>5 DEF Fallen
<1>11. CASE short' = FALSE
  <2>1. p_' = Body(w) + Len(d.bytes) /\ p_' <= Len(data) /\ v = n
    <3> DEFINE q == Card(bits)
    <3>1. q \in Nat \ {0} /\ n < q
      BY <1>8, CardPositive DEF OperandAt, bits
    <3> HIDE DEF q
    <3>2. n % q = n
      BY <1>8, <3>1
    <3> QED BY <1>9, <1>11, <3>2 DEF q
  <2>2. CASE v > MemLimit
    <3>1. ~MemorySuffices
      <4> SUFFICES ASSUME MemorySuffices PROVE FALSE
        OBVIOUS
      <4>1. n <= MemLimit
        BY DEF MemorySuffices, n
      <4> QED BY <1>8, <2>1, <2>2, <4>1, ReaderAssumption
    <3>2. rpc' = "raised" \/ rpc' = "loop"
      BY <1>1
    <3>3. rpc' = "raised"
      BY <1>1, <2>2
    <3> QED BY <1>9, <1>11, <2>1, <3>1, <3>3 DEF Following, ReaderRuns
  <2>3. CASE ~(v > MemLimit)
    <3>1. /\ Reader!NewTable /\ rframes' = <<x>> \o rframes /\ rpc' = "loop"
          /\ UNCHANGED rhandle /\ UNCHANGED rsize /\ UNCHANGED rstrings
      BY <1>1, <2>3
    <3>2. kind \in {"array", "hash"} /\ Reader!Kind(payload) = kind
      <4>1. Reader!T.ARRAY8 = 17 /\ Reader!T.ARRAY32 = 19
        BY DEF Reader!T
      <4> QED BY <1>1, <4>1 DEF Reader!Kind
    <3>3. x = [t |-> Reader!NewId, at |-> Len(rL) + 1, kind |-> kind, i |-> 0, n |-> n, key |-> FALSE]
      BY <2>1, <3>2
    <3>4. Entered(c, id, kind, ks) \in Visit
      <4>1. d.fr \in Seq(Visit)
        BY <1>4 DEF Leads, Sound, Nested
      <4>2. c.fr \in Seq(Visit)
        BY <1>6 DEF Sound, Nested
      <4>3. d.fr[1] = Entered(c, id, kind, ks) /\ 1 \in 1..Len(d.fr)
        BY <1>5, <4>2
      <4> QED BY <4>1, <4>3
    <3> HIDE DEF kind, x
    <3>5. ReaderAt(d, w.root)'
      <4> DEFINE root == w.root
      <4>1. ReaderAt(c, root) /\ Sound(c, root)
        BY <1>6
      <4>2. d.pc = "loop" /\ d.fr = <<Entered(c, id, kind, ks)>> \o c.fr /\ d.made = Append(c.made, id)
        BY <1>5
      <4>3. n = countTableLength(Heap[id]) /\ n \in Nat
        BY <1>8 DEF n
      <4> HIDE DEF root
      <4>4. ReaderAt(d, root)'
        BY <1>1, <1>6, <3>1, <3>2, <3>3, <3>4, <4>1, <4>2, <4>3, TableRead
      <4> QED BY <4>4 DEF root
    <3>6. AtPlace(w, d)'
      BY <1>5, <2>1, <3>1, <3>5 DEF AtPlace
    <3> QED BY <1>2, <1>7, <1>9, <1>11, <2>1, <3>1, <3>6, Reaches DEF d
  <2> QED BY <2>2, <2>3
<1> QED BY <1>9, <1>10, <1>11

\* A step that reads nothing.
LEMMA StepsOn ==
  ASSUME NEW w, Following(w), ReaderRuns, UNCHANGED data, UNCHANGED p_, UNCHANGED short, UNCHANGED rsize, UNCHANGED rstrings,
         NEW j \in 1..w.m, AtPlace(w, w.tr[j]), j + 1 \in 1..w.m, w.tr[j + 1].bytes = w.tr[j].bytes,
         rpc' = w.tr[j + 1].pc, rpc' \in {"value", "loop", "return"}, ReaderAt(w.tr[j + 1], w.root)'
  PROVE  Following(w)'
<1> DEFINE d == w.tr[j + 1]
           q == Body(w) + Len(d.bytes)
<1>1. short' = FALSE /\ p_' <= Len(data) /\ p_ = q
  BY DEF Following, AtPlace
<1>2. AtPlace(w, d)'
  <2>1. p_' = q
    BY <1>1
  <2> QED BY <2>1 DEF AtPlace
<1> QED BY <1>1, <1>2, Reaches

\* At the head of the loop of _parseArray or _parseTable.
LEMMA LoopAt ==
  ASSUME ReaderInv, NEW w, Given(w), Following(w), rpc = "loop"
  PROVE  \E j \in 1..w.m :
           /\ AtPlace(w, w.tr[j]) /\ w.tr[j].pc = "loop" /\ ReaderAt(w.tr[j], w.root) /\ Sound(w.tr[j], w.root)
           /\ j + 1 \in 1..w.m /\ (MEntry(w.tr[j], w.tr[j + 1]) \/ MEnd(w.tr[j], w.tr[j + 1]))
           /\ Reader!More <=> w.tr[j].fr[1].i <= w.tr[j].fr[1].n
<1>1. PICK j \in 1..w.m : AtPlace(w, w.tr[j])
  BY DEF Following
<1> DEFINE c == w.tr[j]
           d == w.tr[j + 1]
           g == c.fr[1]
           x == rframes[1]
<1>2. c.pc = "loop" /\ ReaderAt(c, w.root) /\ Sound(c, w.root) /\ IsFile(w)
  BY <1>1, RunSound DEF AtPlace, Given
<1>3. j + 1 \in 1..w.m /\ Leads(w, c, d)
  BY <1>2, Onward
<1> HIDE DEF c, d
<1>4. MEntry(c, d) \/ MEnd(c, d)
  BY <1>2, <1>3 DEF Leads, Moves, MScalar, MString, MEmpty, MOpen, MKey, MValue
<1>5. c.fr \in Seq(Visit) /\ c.fr # <<>> /\ Len(rframes) = Len(c.fr) /\ rframes # <<>>
  <2>1. c.fr \in Seq(Visit) /\ c.fr # <<>> /\ Len(rframes) = Len(c.fr)
    BY <1>2 DEF Sound, Nested, ReaderAt
  <2>2. RTops
    BY WhileParsing
  <2> QED BY <2>1, <2>2 DEF RTops
<1>6. 1 \in 1..Len(rframes) /\ g \in Visit
  BY <1>5, EmptySeq
<1>7. Echoes(rL, x, 1, c.pc, g, c.made)
  BY <1>2, <1>6 DEF ReaderAt
<1>8. x.i = g.i - 1 /\ x.n = g.n
  BY <1>7 DEF Echoes
<1>9. g.i \in Nat /\ g.n \in Nat
  BY <1>6 DEF Visit
<1>10. Reader!f = x
  BY <1>5 DEF Reader!f
<1> HIDE DEF g, x
<1>11. Reader!More <=> g.i <= g.n
  BY <1>8, <1>9, <1>10 DEF Reader!More
<1> QED BY <1>1, <1>2, <1>3, <1>4, <1>11 DEF c, d, g

\* The loop goes on.
LEMMA LoopEntryFollows ==
  ASSUME Storable, ReaderInv, NEW w, Given(w), Following(w), Reader!LoopEntry
  PROVE  Following(w)'
<1>1. /\ rpc = "loop" /\ Reader!More /\ rpc' = "value" /\ UNCHANGED <<rL, heap, rframes>>
      /\ UNCHANGED data /\ UNCHANGED p_ /\ UNCHANGED short /\ UNCHANGED rsize /\ UNCHANGED rstrings /\ ReaderRuns
  BY DEF Reader!LoopEntry, Reader!cursor, Reader!strTable, ReaderRuns
<1>2. PICK j \in 1..w.m :
        /\ AtPlace(w, w.tr[j]) /\ w.tr[j].pc = "loop" /\ ReaderAt(w.tr[j], w.root) /\ Sound(w.tr[j], w.root)
        /\ j + 1 \in 1..w.m /\ (MEntry(w.tr[j], w.tr[j + 1]) \/ MEnd(w.tr[j], w.tr[j + 1]))
        /\ Reader!More <=> w.tr[j].fr[1].i <= w.tr[j].fr[1].n
  BY <1>1, LoopAt
<1> DEFINE c == w.tr[j]
           d == w.tr[j + 1]
           root == w.root
<1>3. c.pc = "loop" /\ ReaderAt(c, root) /\ Sound(c, root) /\ MEntry(c, d)
  <2>1. c.fr[1].i \in Nat /\ c.fr[1].n \in Nat
    <3>1. c.fr \in Seq(Visit) /\ c.fr # <<>>
      BY <1>2 DEF Sound, Nested
    <3>2. c.fr[1] \in Visit
      BY <3>1, EmptySeq
    <3> QED BY <3>2 DEF Visit
  <2>2. ~(c.fr[1].i > c.fr[1].n)
    BY <1>1, <1>2, <2>1
  <2>3. ~MEnd(c, d)
    BY <2>2 DEF MEnd
  <2> QED BY <1>2, <2>3
<1>4. d.pc = "value" /\ d.bytes = c.bytes
  BY <1>3 DEF MEntry, Conf
<1>5. ReaderAt(d, root)'
  <2> HIDE DEF c, d, root
  <2> QED BY <1>1, <1>3, EntryRead
<1> QED BY <1>1, <1>2, <1>4, <1>5, StepsOn

\* It ends.
LEMMA LoopEndFollows ==
  ASSUME Storable, ReaderInv, NEW w, Given(w), Following(w), Reader!LoopEnd
  PROVE  Following(w)'
<1>1. /\ rpc = "loop" /\ ~Reader!More /\ rpc' = "return" /\ UNCHANGED rL /\ UNCHANGED heap /\ rframes' = Tail(rframes)
      /\ UNCHANGED data /\ UNCHANGED p_ /\ UNCHANGED short /\ UNCHANGED rsize /\ UNCHANGED rstrings /\ ReaderRuns
  BY DEF Reader!LoopEnd, Reader!cursor, Reader!strTable, ReaderRuns
<1>2. PICK j \in 1..w.m :
        /\ AtPlace(w, w.tr[j]) /\ w.tr[j].pc = "loop" /\ ReaderAt(w.tr[j], w.root) /\ Sound(w.tr[j], w.root)
        /\ j + 1 \in 1..w.m /\ (MEntry(w.tr[j], w.tr[j + 1]) \/ MEnd(w.tr[j], w.tr[j + 1]))
        /\ Reader!More <=> w.tr[j].fr[1].i <= w.tr[j].fr[1].n
  BY <1>1, LoopAt
<1> DEFINE c == w.tr[j]
           d == w.tr[j + 1]
           root == w.root
<1>3. c.pc = "loop" /\ ReaderAt(c, root) /\ Sound(c, root) /\ MEnd(c, d)
  <2>1. ~(c.fr[1].i <= c.fr[1].n)
    BY <1>1, <1>2
  <2>2. ~MEntry(c, d)
    BY <2>1 DEF MEntry
  <2> QED BY <1>2, <2>2
<1>4. d.pc = "return" /\ d.bytes = c.bytes
  BY <1>3 DEF MEnd, Conf
<1>5. ReaderAt(d, root)'
  <2> HIDE DEF c, d, root
  <2> QED BY <1>1, <1>3, EndRead
<1> QED BY <1>1, <1>2, <1>4, <1>5, StepsOn

\* A value has been read for an entry of a table.
LEMMA ReturnAt ==
  ASSUME ReaderInv, NEW w, Given(w), Following(w), rpc = "return", rframes # <<>>
  PROVE  \E j \in 1..w.m :
           /\ AtPlace(w, w.tr[j]) /\ w.tr[j].pc = "return" /\ ReaderAt(w.tr[j], w.root) /\ Sound(w.tr[j], w.root)
           /\ w.root \in Writable /\ w.tr[j].fr # <<>>
           /\ j + 1 \in 1..w.m /\ (MKey(w.tr[j], w.tr[j + 1]) \/ MValue(w.tr[j], w.tr[j + 1]))
<1>1. PICK j \in 1..w.m : AtPlace(w, w.tr[j])
  BY DEF Following
<1> DEFINE c == w.tr[j]
           d == w.tr[j + 1]
<1>2. c.pc = "return" /\ ReaderAt(c, w.root) /\ Sound(c, w.root) /\ IsFile(w) /\ w.root \in Writable
  BY <1>1, RunSound DEF AtPlace, Given
<1>3. c.fr # <<>>
  <2>1. Len(rframes) = Len(c.fr) /\ Len(rframes) # 0
    BY <1>2, WhileParsing DEF ReaderAt
  <2> QED BY <2>1
<1>4. j + 1 \in 1..w.m /\ Leads(w, c, d)
  BY <1>2, <1>3, Onward
<1> HIDE DEF c, d
<1>5. MKey(c, d) \/ MValue(c, d)
  BY <1>2, <1>4 DEF Leads, Moves, MScalar, MString, MEmpty, MOpen, MEntry, MEnd
<1> QED BY <1>1, <1>2, <1>3, <1>4, <1>5 DEF c, d

\* The key of an entry has been read.
LEMMA ReturnKeyFollows ==
  ASSUME Storable, ReaderInv, NEW w, Given(w), Following(w), Reader!ReturnKey
  PROVE  Following(w)'
<1>1. /\ rpc = "return" /\ rframes # <<>> /\ Reader!f.kind = "hash" /\ ~Reader!f.key /\ rpc' = "value"
      /\ UNCHANGED data /\ UNCHANGED p_ /\ UNCHANGED short /\ UNCHANGED rsize /\ UNCHANGED rstrings /\ ReaderRuns
  BY DEF Reader!ReturnKey, Reader!cursor, Reader!strTable, ReaderRuns
<1>2. PICK j \in 1..w.m :
        /\ AtPlace(w, w.tr[j]) /\ w.tr[j].pc = "return" /\ ReaderAt(w.tr[j], w.root) /\ Sound(w.tr[j], w.root)
        /\ w.root \in Writable /\ w.tr[j].fr # <<>>
        /\ j + 1 \in 1..w.m /\ (MKey(w.tr[j], w.tr[j + 1]) \/ MValue(w.tr[j], w.tr[j + 1]))
  BY <1>1, ReturnAt
<1> DEFINE c == w.tr[j]
           d == w.tr[j + 1]
           root == w.root
<1> HIDE DEF c, d, root
<1>3. /\ c.pc = "return" /\ ReaderAt(c, root) /\ Sound(c, root) /\ root \in Writable /\ c.fr # <<>>
      /\ MKey(c, d) \/ MValue(c, d)
  BY <1>2 DEF c, d, root
<1>4. MKey(c, d)
  <2>1. Reader!f = rframes[1] /\ rframes[1].kind = c.fr[1].kind /\ (rframes[1].key <=> c.fr[1].kind = "hash" /\ ~c.fr[1].key)
    BY <1>1, <1>3, AtReturn
  <2>2. c.fr[1].key
    BY <1>1, <2>1
  <2> QED BY <1>3, <2>2 DEF MValue
<1>5. ReaderAt(d, root)'
  BY <1>1, <1>3, <1>4, KeyRead
<1>6. d.pc = "value" /\ d.bytes = c.bytes
  BY <1>4 DEF MKey, Conf
<1> QED BY <1>1, <1>2, <1>5, <1>6, StepsOn DEF c, d, root

\* An entry is set.
LEMMA EntryFollows ==
  ASSUME ReaderInv, NEW w, Given(w), Following(w), rpc = "return", rframes # <<>>, rpc' = "loop",
         UNCHANGED data, UNCHANGED p_, UNCHANGED short, UNCHANGED rsize, UNCHANGED rstrings, rframes' = Reader!Advance,
         NEW y, heap' = [heap EXCEPT ![rframes[1].t] = Reader!rawset(@, y, rL[Len(rL)])], rL' = SubSeq(rL, 1, rframes[1].at),
         \/ rframes[1].kind = "array" /\ y = Int2Num(rframes[1].i + 1)
         \/ rframes[1].key /\ y = rL[Len(rL) - 1]
  PROVE  Following(w)'
<1>1. PICK j \in 1..w.m :
        /\ AtPlace(w, w.tr[j]) /\ w.tr[j].pc = "return" /\ ReaderAt(w.tr[j], w.root) /\ Sound(w.tr[j], w.root)
        /\ w.root \in Writable /\ w.tr[j].fr # <<>>
        /\ j + 1 \in 1..w.m /\ (MKey(w.tr[j], w.tr[j + 1]) \/ MValue(w.tr[j], w.tr[j + 1]))
  BY ReturnAt
<1> DEFINE c == w.tr[j]
           d == w.tr[j + 1]
           root == w.root
           g == c.fr[1]
           x == rframes[1]
<1> HIDE DEF c, d, root
<1>2. /\ c.pc = "return" /\ ReaderAt(c, root) /\ Sound(c, root) /\ root \in Writable /\ c.fr # <<>>
      /\ MKey(c, d) \/ MValue(c, d)
  BY <1>1 DEF c, d, root
<1>3. /\ x.kind = g.kind /\ x.i = g.i - 1 /\ g.i \in 1..g.n /\ g.n \in Nat /\ (g.key => g.kind = "hash")
      /\ (x.key <=> g.kind = "hash" /\ ~g.key) /\ (x.key => Copy(g.ks[g.i], rL[Len(rL) - 1], c.made))
      /\ Lists(g.ks, g.id, g.kind)
  BY <1>2, AtReturn
<1>4. g.n = countTableLength(Heap[g.id])
  <2>1. Nested(c.fr, "return", c.made, root)
    BY <1>2 DEF Sound
  <2>2. 1 \in 1..Len(c.fr)
    <3>1. c.fr \in Seq(Visit)
      BY <2>1 DEF Nested
    <3> QED BY <1>2, <3>1, EmptySeq
  <2>3. Visiting(c.fr, 1, "return", c.made, root)
    BY <2>1, <2>2 DEF Nested
  <2> QED BY <2>3 DEF Visiting
<1>5. MValue(c, d)
  <2>1. ~g.key
    <3>1. CASE x.kind = "array"
      <4>1. "array" # "hash"
        OBVIOUS
      <4> QED BY <1>3, <3>1, <4>1
    <3>2. CASE x.key
      BY <1>3, <3>2
    <3> QED BY <3>1, <3>2
  <2> QED BY <1>2, <2>1 DEF MKey
<1>6. Copy(g.ks[g.i], y, c.made) /\ (Reader!lua_type(y) = "table" => x.key /\ y = rL[Len(rL) - 1])
  <2>1. CASE x.key /\ y = rL[Len(rL) - 1]
    BY <1>3, <2>1
  <2>2. CASE x.kind = "array" /\ y = Int2Num(x.i + 1)
    <3>1. y = Int2Num(g.i)
      <4>1. x.i + 1 = g.i
        BY <1>3
      <4> QED BY <2>2, <4>1
    <3>2. g.ks[g.i] = Int2Num(g.i)
      BY <1>3, <1>4, <2>2 DEF Lists
    <3>3. lua_type(Int2Num(g.i)) # "table"
      BY DEF lua_type, Int2Num, Num
    <3>4. Reader!lua_type(y) # "table"
      BY <3>1, <3>3 DEF lua_type, Reader!lua_type
    <3> HIDE DEF g
    <3> QED BY <3>1, <3>2, <3>3, <3>4 DEF Copy
  <2> QED BY <2>1, <2>2
<1>7. ReaderAt(d, root)'
  BY <1>2, <1>5, <1>6, EntrySet
<1>8. d.pc = "loop" /\ d.bytes = c.bytes
  BY <1>5 DEF MValue, Conf
<1>9. ReaderRuns
  BY DEF ReaderRuns
<1> QED BY <1>1, <1>7, <1>8, <1>9, StepsOn DEF c, d, root

\* Where the table lies to which the entry belongs.
LEMMA EntryTable ==
  ASSUME ReaderInv, rpc = "return", rframes # <<>>
  PROVE  LET x == rframes[1] IN
         /\ Reader!f = x /\ x.at \in Nat /\ Len(rL) = x.at + (IF x.key THEN 2 ELSE 1)
         /\ rL[x.at][2] = x.t /\ (x.kind = "array" => ~x.key) /\ 1 \in 1..Len(rframes)
<1> DEFINE x == rframes[1]
<1>1. /\ RLayout /\ ReaderTypes /\ Len(rL) \in Nat /\ Len(rframes) \in Nat /\ rhandle \in Nat
      /\ Reader!Above(1) = x.at + (IF x.key THEN 2 ELSE 1) /\ Len(rL) + 1 = Reader!Above(1) + 1
      /\ Reader!Above(1) \in Int /\ \A k \in 1..Len(rframes) : rframes[k].at \in (rhandle + 1)..(Reader!Above(1) - 1)
  BY WhileParsing
<1>2. 1 \in 1..Len(rframes) /\ Reader!f = x
  BY <1>1, EmptySeq DEF ReaderTypes, Reader!f
<1>3. RPlaced(1)
  BY <1>1, <1>2 DEF RLayout
<1>4. rL[x.at][2] = x.t /\ (x.kind = "array" => ~x.key)
  BY <1>3 DEF RPlaced, Reader!Tbl
<1>5. x.at \in Nat
  BY <1>1, <1>2
<1>6. Len(rL) = x.at + (IF x.key THEN 2 ELSE 1)
  BY <1>1, <1>5
<1> QED BY <1>2, <1>4, <1>5, <1>6

LEMMA ReturnElementFollows ==
  ASSUME Storable, ReaderInv, NEW w, Given(w), Following(w), Reader!ReturnElement
  PROVE  Following(w)'
<1> DEFINE x == rframes[1]
           y == Int2Num(x.i + 1)
<1>1. /\ rpc = "return" /\ rframes # <<>> /\ Reader!f.kind = "array" /\ rpc' = "loop" /\ rframes' = Reader!Advance
      /\ heap' = [heap EXCEPT ![rL[Len(rL) + 1 - 2][2]] = Reader!rawset(@, Reader!Int2Num(Reader!f.i + 1), rL[Len(rL) + 1 - 1])]
      /\ rL' = SubSeq(rL, 1, Len(rL) - 1)
      /\ UNCHANGED data /\ UNCHANGED p_ /\ UNCHANGED short /\ UNCHANGED rsize /\ UNCHANGED rstrings
  BY DEF Reader!ReturnElement, Reader!Top, Reader!Pop, Reader!cursor, Reader!strTable
<1>2. /\ Reader!f = x /\ x.at \in Nat /\ Len(rL) = x.at + (IF x.key THEN 2 ELSE 1)
      /\ rL[x.at][2] = x.t /\ (x.kind = "array" => ~x.key) /\ 1 \in 1..Len(rframes)
  BY <1>1, EntryTable
<1>3. Len(rL) = x.at + 1 /\ Len(rL) + 1 - 2 = x.at /\ Len(rL) + 1 - 1 = Len(rL) /\ Len(rL) - 1 = x.at
  BY <1>1, <1>2
<1>4. y = Reader!Int2Num(x.i + 1)
  BY DEF Int2Num, Num, Reader!Int2Num, Reader!Num
<1>5. heap' = [heap EXCEPT ![x.t] = Reader!rawset(@, y, rL[Len(rL)])] /\ rL' = SubSeq(rL, 1, x.at) /\ x.kind = "array"
  BY <1>1, <1>2, <1>3, <1>4
<1> QED BY <1>1, <1>5, EntryFollows

LEMMA ReturnEntryFollows ==
  ASSUME Storable, ReaderInv, NEW w, Given(w), Following(w), Reader!ReturnEntry
  PROVE  Following(w)'
<1> DEFINE x == rframes[1]
           y == rL[Len(rL) - 1]
<1>1. /\ rpc = "return" /\ rframes # <<>> /\ Reader!f.key
      /\ UNCHANGED data /\ UNCHANGED p_ /\ UNCHANGED short
      /\ \/ rL[Len(rL) + 1 - 2] = Reader!Nil
         \/ /\ rpc' = "loop" /\ rframes' = Reader!Advance
            /\ heap' = [heap EXCEPT ![rL[Len(rL) + 1 - 3][2]] = Reader!rawset(@, rL[Len(rL) + 1 - 2], rL[Len(rL) + 1 - 1])]
            /\ rL' = SubSeq(rL, 1, Len(rL) - 2) /\ UNCHANGED rsize /\ UNCHANGED rstrings
  BY DEF Reader!ReturnEntry, Reader!Top, Reader!Pop, Reader!cursor, Reader!strTable
<1>2. /\ Reader!f = x /\ x.at \in Nat /\ Len(rL) = x.at + (IF x.key THEN 2 ELSE 1)
      /\ rL[x.at][2] = x.t /\ (x.kind = "array" => ~x.key) /\ 1 \in 1..Len(rframes)
  BY <1>1, EntryTable
<1>3. /\ Len(rL) = x.at + 2 /\ Len(rL) + 1 - 3 = x.at /\ Len(rL) + 1 - 1 = Len(rL) /\ Len(rL) - 2 = x.at
      /\ Len(rL) + 1 - 2 = Len(rL) - 1
  BY <1>1, <1>2
<1>4. y # Nil
  <2>1. PICK j \in 1..w.m :
        /\ AtPlace(w, w.tr[j]) /\ w.tr[j].pc = "return" /\ ReaderAt(w.tr[j], w.root) /\ Sound(w.tr[j], w.root)
        /\ w.root \in Writable /\ w.tr[j].fr # <<>>
    BY <1>1, ReturnAt
  <2> DEFINE c == w.tr[j]
             root == w.root
  <2> HIDE DEF c, root
  <2>2. c.pc = "return" /\ ReaderAt(c, root) /\ Sound(c, root) /\ root \in Writable /\ c.fr # <<>>
    BY <2>1 DEF c, root
  <2> DEFINE g == c.fr[1]
  <2>3. (x.key => Copy(g.ks[g.i], rL[Len(rL) - 1], c.made)) /\ g.ks[g.i] # Nil
    BY <1>1, <2>2, AtReturn
  <2> HIDE DEF g
  <2> QED BY <1>1, <1>2, <2>3, CopyNotNil
<1>5. Reader!Nil = Nil
  BY DEF Nil, Reader!Nil
<1>6. /\ rpc' = "loop" /\ rframes' = Reader!Advance /\ heap' = [heap EXCEPT ![x.t] = Reader!rawset(@, y, rL[Len(rL)])]
      /\ rL' = SubSeq(rL, 1, x.at) /\ UNCHANGED rsize /\ UNCHANGED rstrings /\ x.key
  BY <1>1, <1>2, <1>3, <1>4, <1>5
<1> QED BY <1>1, <1>6, EntryFollows

\* The result moves to where the string pool was.
LEMMA ResultMoves ==
  ASSUME ReaderInv, Reader!Finish
  PROVE  Len(rL') \in Nat /\ rL'[Len(rL')] = rL[Len(rL)]
<1>1. /\ rpc = "return" /\ rframes = <<>> /\ rL' = Reader!lua_remove(rL, rhandle)
  BY DEF Reader!Finish
<1>2. /\ ReaderTypes /\ rhandle \in Nat /\ Len(rL) \in Nat /\ RBottom
      /\ Len(rL) + 1 = Reader!Above(1) + 1 /\ Reader!Above(1) = rhandle + 1
  BY <1>1, WhileParsing
<1>3. rhandle \in 1..Len(rL) /\ Len(rL) = rhandle + 1 /\ rL \in Seq(RSlot)
  BY <1>2, CallerSlots DEF RBottom, ReaderTypes
<1> DEFINE r == rL'
           m == rhandle
           n == Len(rL)
<1>4. IsRemoval(rL, m, r)
  BY <1>1 DEF IsRemoval, Reader!lua_remove
<1> HIDE DEF r, m
<1>5. Len(r) = n - 1 /\ \A k \in m..(n - 1) : r[k] = rL[k + 1]
  BY <1>3, <1>4, Removed DEF m
<1>6. Len(r) = m /\ r[m] = rL[m + 1] /\ m + 1 = n /\ m \in Nat
  BY <1>2, <1>3, <1>5 DEF m
<1> QED BY <1>6 DEF r

\* The value is complete.
LEMMA FinishFollows ==
  ASSUME Storable, ReaderInv, NEW w, Given(w), Following(w), Reader!Finish
  PROVE  Following(w)'
<1>1. /\ rpc = "return" /\ rframes = <<>> /\ rpc' = "done" /\ ret' = 1 /\ UNCHANGED heap
      /\ UNCHANGED data /\ UNCHANGED p_ /\ UNCHANGED short
  BY DEF Reader!Finish, Reader!cursor
<1>2. PICK j \in 1..w.m : AtPlace(w, w.tr[j])
  BY <1>1 DEF Following
<1> DEFINE c == w.tr[j]
           made == c.made
<1>3. c.pc = "return" /\ ReaderAt(c, w.root) /\ Sound(c, w.root) /\ IsFile(w) /\ p_ = Body(w) + Len(c.bytes)
  BY <1>1, <1>2, RunSound DEF AtPlace, Given
<1>4. c.fr = <<>> /\ Len(c.fr) = 0
  <2>1. Len(rframes) = 0 /\ c.fr \in Seq(Visit) /\ Len(c.fr) = Len(rframes)
    BY <1>1, <1>3 DEF ReaderAt, Sound, Nested
  <2> QED BY <2>1, EmptySeq
<1>5. j = w.m
  <2> SUFFICES ASSUME j # w.m PROVE FALSE
    OBVIOUS
  <2>1. j \in 1..(w.m - 1)
    <3>1. w.m \in Nat
      BY <1>3 DEF IsFile, IsTrace
    <3> QED BY <3>1
  <2>2. Moves(c, w.tr[j + 1], w.root)
    BY <1>3, <2>1 DEF IsFile, IsTrace
  <2> HIDE DEF c
  <2> QED BY <1>3, <1>4, <2>2 DEF Moves, MScalar, MString, MEmpty, MOpen, MEntry, MEnd, MKey, MValue
<1>6. p_ = Len(w.s)
  BY <1>3, <1>5, FileParts DEF Bytes
<1>7. Copy(w.root, rL'[Len(rL')], made)
  <2>1. Wanted(c, w.root) = w.root
    BY <1>4 DEF Wanted, Expected
  <2>2. Copy(Wanted(c, w.root), rL[Len(rL)], made)
    BY <1>3 DEF ReaderAt
  <2> QED BY <2>1, <2>2, ResultMoves
<1>8. \A t \in 1..Len(heap) : Sat(heap[t], made, made[t], Keys(Heap[made[t]]))
  <2>1. \A t : Filled(c, t) = Keys(Heap[made[t]])
    BY <1>4 DEF Filled
  <2> HIDE DEF c
  <2> QED BY <1>3, <2>1 DEF ReaderAt
<1>9. made \in Seq(DOMAIN Heap) /\ Len(heap) = Len(made)
  BY <1>3 DEF Sound, ReaderAt
<1> HIDE DEF made, c
<1>10. Complete(w)'
  BY <1>1, <1>6, <1>7, <1>8, <1>9 DEF Complete
<1>11. short' = FALSE /\ p_' <= Len(data)
  BY <1>1 DEF Following
<1> QED BY <1>1, <1>10, <1>11 DEF Following, ReaderRuns

-----------------------------------------------------------------------------
(* Beyond the end of the file.                                             *)

\* Nothing is there.
LEMMA NothingThere ==
  ASSUME data \in Seq(Byte), p_ \in Nat, p_ > Len(data), Reader!Reader!readNumber(8)
  PROVE  Reader!Reader!Value(8) = 0 /\ short' = TRUE /\ UNCHANGED data
<1>1. Sizeof[8] = 1 /\ Len(data) \in Nat
  BY WireAssumption
<1>2. ~(p_ + Sizeof[8] <= Len(data))
  BY <1>1
<1>3. ~Reader!Reader!Fits(Sizeof[8])
  BY <1>2 DEF Reader!Reader!Fits, Reader!Reader!end_
<1> QED BY <1>3 DEF Reader!Reader!readNumber, Reader!Reader!AfterNumber, Reader!Reader!Value, Reader!Reader!FallShort

LEMMA TagFallen ==
  ASSUME ReaderInv, NEW w, Given(w), Fallen(w), Reader!ReadTag
  PROVE  Fallen(w)'
<1>1. rpc = "value" /\ Reader!Reader!readNumber(8)
  BY DEF Reader!ReadTag
<1>2. data \in Seq(Byte) /\ p_ > Len(data) /\ p_ \in Nat /\ data # w.s
  BY <1>1, WhileParsing DEF Given, Fallen, ReaderTypes, Cursor
<1>3. Reader!Reader!Value(8) = 0 /\ short' = TRUE /\ UNCHANGED data
  BY <1>1, <1>2, NothingThere
<1>4. Reader!Fail
  BY <1>3, TagSplits
<1> QED BY <1>2, <1>3, <1>4, GivesUp

\* Nothing more is read.
LEMMA FallenOn ==
  ASSUME NEW w, Fallen(w), rpc # "done", UNCHANGED data, UNCHANGED p_, UNCHANGED short,
         \/ rpc' \in {"value", "loop", "return"} /\ KeysHold'
         \/ rpc' = "done"
  PROVE  Fallen(w)'
BY DEF Fallen

\* The innermost activation goes on.
LEMMA KeysTurned ==
  ASSUME ReaderInv, rpc \in {"value", "payload", "loop", "return"}, KeysHold, Len(rframes') = Len(rframes),
         \A k \in 2..Len(rframes) : rframes'[k] = rframes[k],
         \A k \in 2..Len(rframes) : rframes[k].key => rL'[rframes[k].at + 1] = rL[rframes[k].at + 1],
         rframes'[1].key => rpc' = "value"
  PROVE  KeysHold'
<1> SUFFICES ASSUME NEW k \in 1..Len(rframes), rframes'[k].key, k > 1 \/ rpc' # "value"
             PROVE  rL'[rframes'[k].at + 1] # Nil
  BY DEF KeysHold
<1>1. k # 1
  OBVIOUS
<1>2. Len(rframes) \in Nat
  BY WhileParsing
<1>3. k \in 2..Len(rframes)
  BY <1>1, <1>2
<1>4. rframes'[k] = rframes[k]
  BY <1>3
<1>5. rL[rframes[k].at + 1] # Nil
  BY <1>3, <1>4 DEF KeysHold
<1> QED BY <1>3, <1>4, <1>5

LEMMA LoopEntryFallen ==
  ASSUME ReaderInv, NEW w, Fallen(w), Reader!LoopEntry
  PROVE  Fallen(w)'
<1>1. /\ rpc = "loop" /\ rpc' = "value" /\ UNCHANGED rL /\ UNCHANGED rframes
      /\ UNCHANGED data /\ UNCHANGED p_ /\ UNCHANGED short
  BY DEF Reader!LoopEntry, Reader!cursor
<1>2. KeysHold
  BY <1>1 DEF Fallen
<1>3. KeysHold'
  BY <1>1, <1>2, KeysTurned
<1> QED BY <1>1, <1>3, FallenOn

LEMMA LoopEndFallen ==
  ASSUME ReaderInv, NEW w, Fallen(w), Reader!LoopEnd
  PROVE  Fallen(w)'
<1>1. /\ rpc = "loop" /\ rpc' = "return" /\ UNCHANGED rL /\ rframes' = Tail(rframes)
      /\ UNCHANGED data /\ UNCHANGED p_ /\ UNCHANGED short
  BY DEF Reader!LoopEnd, Reader!cursor
<1>2. KeysHold
  BY <1>1 DEF Fallen
<1>3. rframes \in Seq(RFrame) /\ rframes # <<>>
  BY <1>1, WhileParsing DEF ReaderTypes, RTops
<1>4. /\ Len(rframes) \in Nat \ {0} /\ Len(rframes') = Len(rframes) - 1
      /\ \A k \in 1..(Len(rframes) - 1) : rframes'[k] = rframes[k + 1]
  BY <1>1, <1>3, PoppedFirst
<1>5. KeysHold'
  <2> SUFFICES ASSUME NEW k \in 1..(Len(rframes) - 1), rframes'[k].key PROVE rL'[rframes'[k].at + 1] # Nil
    BY <1>4 DEF KeysHold
  <2>1. k + 1 \in 1..Len(rframes) /\ k + 1 > 1 /\ rframes'[k] = rframes[k + 1]
    BY <1>4
  <2> QED BY <1>1, <1>2, <2>1 DEF KeysHold
<1> QED BY <1>1, <1>5, FallenOn

LEMMA ReturnKeyFallen ==
  ASSUME ReaderInv, NEW w, Fallen(w), Reader!ReturnKey
  PROVE  Fallen(w)'
<1>1. /\ rpc = "return" /\ rframes # <<>> /\ rpc' = "value" /\ UNCHANGED rL
      /\ rframes' = <<[Reader!f EXCEPT !.key = TRUE]>> \o Tail(rframes)
      /\ UNCHANGED data /\ UNCHANGED p_ /\ UNCHANGED short
  BY DEF Reader!ReturnKey, Reader!cursor
<1>2. KeysHold
  BY <1>1 DEF Fallen
<1>3. rframes \in Seq(RFrame)
  BY <1>1, WhileParsing DEF ReaderTypes
<1> DEFINE z == [Reader!f EXCEPT !.key = TRUE]
<1>4. z \in RFrame
  <2> DEFINE x == rframes[1]
  <2>1. x \in RFrame /\ Reader!f = x
    BY <1>1, <1>3, PoppedFirst DEF Reader!f
  <2>2. z \in {[x EXCEPT !.i = @ + 1, !.key = FALSE], [x EXCEPT !.key = TRUE]}
    BY <2>1
  <2> HIDE DEF x, z
  <2> QED BY <2>1, <2>2, FrameAdvanced
<1> HIDE DEF z
<1>5. Len(rframes') = Len(rframes) /\ \A k \in 2..Len(rframes) : rframes'[k] = rframes[k]
  <2>1. rframes' = <<z>> \o Tail(rframes)
    BY <1>1 DEF z
  <2> QED BY <1>1, <1>3, <1>4, <2>1, FirstChanged
<1>6. KeysHold'
  BY <1>1, <1>2, <1>5, KeysTurned
<1> QED BY <1>1, <1>6, FallenOn

\* An entry is set.
LEMMA EntryFallen ==
  ASSUME ReaderInv, NEW w, Fallen(w), rpc = "return", rframes # <<>>, rpc' = "loop", rframes' = Reader!Advance,
         rL' = SubSeq(rL, 1, rframes[1].at), UNCHANGED data, UNCHANGED p_, UNCHANGED short
  PROVE  Fallen(w)'
<1> DEFINE x == rframes[1]
           z == [Reader!f EXCEPT !.i = @ + 1, !.key = FALSE]
<1>1. KeysHold
  BY DEF Fallen
<1>2. rframes \in Seq(RFrame) /\ rL \in Seq(RSlot)
  BY WhileParsing DEF ReaderTypes
<1>3. z \in RFrame /\ z.key = FALSE
  <2>1. x \in RFrame /\ Reader!f = x
    BY <1>2, PoppedFirst DEF Reader!f
  <2>2. z \in {[x EXCEPT !.i = @ + 1, !.key = FALSE], [x EXCEPT !.key = TRUE]}
    BY <2>1
  <2>3. z.key = FALSE
    BY <2>1 DEF RFrame
  <2> HIDE DEF x, z
  <2> QED BY <2>1, <2>2, <2>3, FrameAdvanced
<1> HIDE DEF z
<1>4. Len(rframes') = Len(rframes) /\ rframes'[1] = z /\ \A k \in 2..Len(rframes) : rframes'[k] = rframes[k]
  <2>1. rframes' = <<z>> \o Tail(rframes)
    BY DEF Reader!Advance, z
  <2> QED BY <1>2, <1>3, <2>1, FirstChanged
<1>5. x.at \in Nat /\ x.at <= Len(rL) /\ \A k \in 1..x.at : rL'[k] = rL[k]
  <2>1. x.at \in Nat /\ Len(rL) = x.at + (IF x.key THEN 2 ELSE 1)
    BY EntryTable
  <2>2. x.at <= Len(rL)
    BY <2>1
  <2> QED BY <1>2, <2>1, <2>2, Popped
<1>6. \A k \in 2..Len(rframes) : rframes[k].key => rL'[rframes[k].at + 1] = rL[rframes[k].at + 1]
  <2> SUFFICES ASSUME NEW k \in 2..Len(rframes), rframes[k].key PROVE rL'[rframes[k].at + 1] = rL[rframes[k].at + 1]
    OBVIOUS
  <2>1. k \in 1..Len(rframes) /\ k > 1
    OBVIOUS
  <2>2. rframes[k].at \in Nat /\ rframes[k].at + 1 < x.at
    BY <2>1, KeysBelow
  <2>3. rframes[k].at + 1 \in 1..x.at
    BY <1>5, <2>2
  <2> QED BY <1>5, <2>3
<1>7. KeysHold'
  BY <1>1, <1>3, <1>4, <1>6, KeysTurned
<1> QED BY <1>7, FallenOn

LEMMA ReturnElementFallen ==
  ASSUME ReaderInv, NEW w, Fallen(w), Reader!ReturnElement
  PROVE  Fallen(w)'
<1> DEFINE x == rframes[1]
<1>1. /\ rpc = "return" /\ rframes # <<>> /\ Reader!f.kind = "array" /\ rpc' = "loop" /\ rframes' = Reader!Advance
      /\ rL' = SubSeq(rL, 1, Len(rL) - 1) /\ UNCHANGED data /\ UNCHANGED p_ /\ UNCHANGED short
  BY DEF Reader!ReturnElement, Reader!Pop, Reader!cursor
<1>2. /\ Reader!f = x /\ x.at \in Nat /\ Len(rL) = x.at + (IF x.key THEN 2 ELSE 1) /\ (x.kind = "array" => ~x.key)
  BY <1>1, EntryTable
<1>3. Len(rL) - 1 = x.at
  BY <1>1, <1>2
<1> QED BY <1>1, <1>3, EntryFallen

LEMMA ReturnEntryFallen ==
  ASSUME ReaderInv, NEW w, Fallen(w), Reader!ReturnEntry
  PROVE  Fallen(w)'
<1> DEFINE x == rframes[1]
<1>1. /\ rpc = "return" /\ rframes # <<>> /\ Reader!f.key /\ UNCHANGED data /\ UNCHANGED p_ /\ UNCHANGED short
      /\ \/ rL[Len(rL) + 1 - 2] = Reader!Nil
         \/ rpc' = "loop" /\ rframes' = Reader!Advance /\ rL' = SubSeq(rL, 1, Len(rL) - 2)
  BY DEF Reader!ReturnEntry, Reader!Top, Reader!Pop, Reader!cursor
<1>2. /\ Reader!f = x /\ x.at \in Nat /\ Len(rL) = x.at + (IF x.key THEN 2 ELSE 1) /\ 1 \in 1..Len(rframes)
  BY <1>1, EntryTable
<1>3. x.key /\ Len(rL) - 2 = x.at /\ Len(rL) + 1 - 2 = x.at + 1
  BY <1>1, <1>2
<1>4. rL[x.at + 1] # Nil
  <2>1. KeysHold
    BY <1>1 DEF Fallen
  <2> QED BY <1>1, <1>2, <1>3, <2>1 DEF KeysHold
<1>5. rpc' = "loop" /\ rframes' = Reader!Advance /\ rL' = SubSeq(rL, 1, x.at)
  BY <1>1, <1>3, <1>4 DEF Nil, Reader!Nil
<1> QED BY <1>1, <1>5, EntryFallen

\* A step of parseBinaryTable.
LEMMA ParseFollows ==
  ASSUME Storable, ReaderInv, NEW w, Given(w), Following(w), Reader!Parse
  PROVE  Following(w)' \/ Fallen(w)'
<1>1. CASE Reader!ReadMagic
  BY <1>1, MagicFollows
<1>2. CASE Reader!ReadVersion
  BY <1>2, VersionFollows
<1>3. CASE Reader!ReadPoolSize
  BY <1>3, PoolFollows
<1>4. CASE Reader!ReadLength
  BY <1>4, LengthFollows
<1>5. CASE Reader!ReadString
  BY <1>5, StringFollows
<1>6. CASE Reader!ReadTag
  BY <1>6, TagFollows
<1>7. CASE Reader!ReadNumber
  BY <1>7, NumberFollows
<1>8. CASE Reader!ReadStringIndex
  BY <1>8, StringIndexFollows
<1>9. CASE Reader!ReadSize
  BY <1>9, SizeFollows
<1>10. CASE Reader!LoopEntry
  BY <1>10, LoopEntryFollows
<1>11. CASE Reader!LoopEnd
  BY <1>11, LoopEndFollows
<1>12. CASE Reader!ReturnElement
  BY <1>12, ReturnElementFollows
<1>13. CASE Reader!ReturnKey
  BY <1>13, ReturnKeyFollows
<1>14. CASE Reader!ReturnEntry
  BY <1>14, ReturnEntryFollows
<1>15. CASE Reader!Finish
  BY <1>15, FinishFollows
<1> QED BY <1>1, <1>2, <1>3, <1>4, <1>5, <1>6, <1>7, <1>8, <1>9, <1>10, <1>11, <1>12, <1>13, <1>14, <1>15 DEF Reader!Parse

LEMMA ParseFalls ==
  ASSUME ReaderInv, NEW w, Given(w), Fallen(w), Reader!Parse
  PROVE  Fallen(w)'
<1>1. rpc \in {"value", "loop", "return", "done"}
  BY DEF Fallen
<1>2. CASE Reader!Finish
  <2>1. rpc = "return" /\ rpc' = "done" /\ UNCHANGED data /\ UNCHANGED p_ /\ UNCHANGED short
    BY <1>2 DEF Reader!Finish, Reader!cursor
  <2> QED BY <2>1, FallenOn
<1>3. \/ Reader!ReadTag \/ Reader!LoopEntry \/ Reader!LoopEnd \/ Reader!ReturnElement \/ Reader!ReturnKey
      \/ Reader!ReturnEntry \/ Reader!Finish
  BY <1>1 DEF Reader!Parse, Reader!ReadMagic, Reader!ReadVersion, Reader!ReadPoolSize, Reader!ReadLength, Reader!ReadString,
              Reader!ReadNumber, Reader!ReadStringIndex, Reader!ReadSize
<1> QED BY <1>2, <1>3, TagFallen, LoopEntryFallen, LoopEndFallen, ReturnElementFallen, ReturnKeyFallen, ReturnEntryFallen

-----------------------------------------------------------------------------
(* The invariant of the reader.                                            *)

\* While it reads what was written, the reader follows the run that wrote it, or the file has ended.
ReadInv ==
  /\ rpc = "idle" => p_ = 0 /\ short = FALSE
  /\ rpc # "idle" => wpc \in {"written", "failed"}
  /\ rpc # "idle" /\ wpc = "written" =>
       \E w : Given(w) /\ w.s = stream /\ w.root = Last(caller) /\ (Following(w) \/ Fallen(w))

LEMMA ReadInit == Init => ReadInv
<1> SUFFICES ASSUME Init PROVE ReadInv
  OBVIOUS
<1>1. p_ = 0 /\ short = FALSE
  BY DEF Init, Reader!Init, Reader!InitRest
<1>2. rpc = "idle" \/ wpc = "failed"
  BY DEF Init, NoWriter
<1> QED BY <1>1, <1>2 DEF ReadInv

\* The file is there.
LEMMA StoreGives ==
  ASSUME Storable, WriterInv, BytesInv, BytesInv', ReadInv, Store
  PROVE  ReadInv'
<1>1. /\ wpc = "written" /\ rpc = "idle" /\ rpc' = "magic" /\ UNCHANGED p_ /\ UNCHANGED short
      /\ UNCHANGED stream /\ UNCHANGED caller /\ UNCHANGED wpc
  BY DEF Store, writerVars, readerRest
<1>2. PICK tr, m, fl : WrittenAs(tr, m, fl)
  BY <1>1 DEF WriterInv
<1>0. PICK root, s : root = Last(caller) /\ s = stream
  OBVIOUS
<1>3. PICK w : w.tr = tr /\ w.m = m /\ w.root = root /\ w.fl = fl /\ w.s = s
  <2> DEFINE u == [tr |-> tr, m |-> m, root |-> root, fl |-> fl, s |-> s]
  <2>1. u.tr = tr /\ u.m = m /\ u.root = root /\ u.fl = fl /\ u.s = s
    OBVIOUS
  <2> HIDE DEF u
  <2> QED BY <2>1
<1>4. root \in Writable
  <2>1. caller \in Callers
    BY <1>1 DEF WriterInv
  <2> QED BY <1>0, <2>1, WritableAre
<1>5. IsFile(w)
  BY <1>0, <1>2, <1>3, <1>4 DEF IsFile, WrittenAs, Names, Bytes
<1>6. data' \in Seq(Byte) /\ stream \in Seq(Byte)
  BY DEF BytesInv, WrittenBytes
<1>7. Begins(data', stream)
  <2>1. PICK cut \in 0..Len(stream) : data' = SubSeq(stream, 1, Len(stream) - cut)
    <3>1. Len(stream) \in Nat
      BY <1>6
    <3>2. PICK cut \in IF Len(stream) > MaxCut THEN {0} ELSE 0..Len(stream) : data' = SubSeq(stream, 1, Len(stream) - cut)
      BY DEF Store
    <3> QED BY <3>1, <3>2
  <2> DEFINE n == Len(stream) - cut
  <2>2. n \in Nat /\ n <= Len(stream)
    BY <1>6
  <2>3. Len(data') = n /\ \A k \in 1..n : data'[k] = stream[k]
    BY <1>6, <2>1, <2>2, Popped
  <2> HIDE DEF n
  <2> QED BY <2>2, <2>3 DEF Begins
<1>8. Given(w)'
  BY <1>0, <1>3, <1>5, <1>6, <1>7 DEF Given
<1>9. p_' = 0 /\ short' = FALSE
  BY <1>1 DEF ReadInv
<1>10. 0 <= Len(data')
  BY <1>6
<1>11. Following(w)'
  BY <1>1, <1>9, <1>10 DEF Following, ReaderRuns
<1> DEFINE P(u) == Given(u)' /\ u.s = stream' /\ u.root = Last(caller') /\ (Following(u)' \/ Fallen(u)')
<1>12. P(w)
  BY <1>0, <1>1, <1>3, <1>8, <1>11
<1> HIDE DEF P
<1>13. \E u : P(u)
  BY <1>12
<1> QED BY <1>1, <1>13 DEF ReadInv, P

\* The file stays what it is.
LEMMA ParseKeepsFile == ASSUME Reader!Parse PROVE UNCHANGED data
BY DEF Reader!Parse, Reader!ReadMagic, Reader!ReadVersion, Reader!ReadPoolSize, Reader!ReadLength, Reader!ReadString,
       Reader!ReadTag, Reader!ReadNumber, Reader!ReadStringIndex, Reader!ReadSize, Reader!LoopEntry, Reader!LoopEnd,
       Reader!ReturnElement, Reader!ReturnKey, Reader!ReturnEntry, Reader!Finish, Reader!cursor,
       Reader!Reader!readNumber, Reader!Reader!AfterNumber, Reader!Reader!Deliver, Reader!Reader!FallShort,
       Reader!Reader!readBytes

LEMMA ReadNext ==
  Storable /\ WriterInv /\ BytesInv /\ BytesInv' /\ ReaderInv /\ ReadInv /\ [Next]_vars => ReadInv'
<1> SUFFICES ASSUME Storable, WriterInv, BytesInv, BytesInv', ReaderInv, ReadInv, [Next]_vars PROVE ReadInv'
  OBVIOUS
<1>1. CASE Write
  <2>1. UNCHANGED p_ /\ UNCHANGED short /\ UNCHANGED rpc /\ Writer!Write
    BY <1>1 DEF Write, readerVars, readerRest
  <2>2. wpc \notin {"written", "failed"}
    BY <2>1 DEF Writer!Write, Writer!Enter, Writer!WriteScalar, Writer!WriteString, Writer!Refuse,
         Writer!WriteEmpty, Writer!BeginArray, Writer!BeginHash, Writer!LoopEntry, Writer!LoopEnd,
         Writer!ReturnKey, Writer!ReturnValue, Writer!Finish, Writer!Fail, Writer!IsTable
  <2> QED BY <2>1, <2>2 DEF ReadInv
<1>2. CASE Store
  BY <1>2, StoreGives
<1>3. CASE Read
  <2>1. rpc # "idle" /\ Reader!Parse /\ UNCHANGED stream /\ UNCHANGED caller /\ UNCHANGED wpc
    BY <1>3 DEF Read, writerVars
  <2>2. UNCHANGED data
    BY <2>1, ParseKeepsFile
  <2>3. rpc' # "idle"
    <3>1. \A n : Reader!AfterStrings(n, rsize) # "idle"
      BY DEF Reader!AfterStrings
    <3>2. \A n, z : Reader!AfterStrings(n, z) # "idle"
      BY DEF Reader!AfterStrings
    <3> QED BY <2>1, <3>2 DEF Reader!Parse, Reader!ReadMagic, Reader!ReadVersion, Reader!ReadPoolSize, Reader!ReadLength, Reader!ReadString,
       Reader!ReadTag, Reader!ReadNumber, Reader!ReadStringIndex, Reader!ReadSize, Reader!LoopEntry, Reader!LoopEnd,
       Reader!ReturnElement, Reader!ReturnKey, Reader!ReturnEntry, Reader!Finish, Reader!Reject, Reader!Fail, Reader!Raise
  <2>4. ASSUME NEW w, Given(w), w.s = stream, w.root = Last(caller), Following(w) \/ Fallen(w)
        PROVE  Given(w)' /\ w.s = stream' /\ w.root = Last(caller') /\ (Following(w)' \/ Fallen(w)')
    <3>1. Given(w)'
      BY <2>2, <2>4 DEF Given
    <3>2. Following(w)' \/ Fallen(w)'
      BY <2>1, <2>4, ParseFollows, ParseFalls
    <3> QED BY <2>1, <2>4, <3>1, <3>2
  <2> DEFINE P(u) == Given(u) /\ u.s = stream /\ u.root = Last(caller) /\ (Following(u) \/ Fallen(u))
             Q(u) == Given(u)' /\ u.s = stream' /\ u.root = Last(caller') /\ (Following(u)' \/ Fallen(u)')
  <2>5. \A u : P(u) => Q(u)
    BY <2>4
  <2> HIDE DEF P, Q
  <2>6. (\E u : P(u)) => (\E u : Q(u))
    BY <2>5
  <2>7. wpc = "written" => \E u : P(u)
    BY <2>1 DEF ReadInv, P
  <2>8. wpc' = "written" => \E u : Q(u)
    BY <2>1, <2>6, <2>7
  <2> QED BY <2>1, <2>3, <2>8 DEF ReadInv, Q
<1>4. CASE UNCHANGED vars
  <2>1. /\ UNCHANGED p_ /\ UNCHANGED short /\ UNCHANGED rpc /\ UNCHANGED wpc /\ UNCHANGED stream /\ UNCHANGED caller /\ UNCHANGED data
        /\ UNCHANGED rL /\ UNCHANGED heap /\ UNCHANGED rframes /\ UNCHANGED rsize /\ UNCHANGED rstrings /\ UNCHANGED payload /\ UNCHANGED ret
    BY <1>4 DEF vars, writerVars, readerVars, readerRest
  <2>2. ASSUME NEW w PROVE /\ Given(w)' <=> Given(w)
                           /\ Following(w)' <=> Following(w)
                           /\ Fallen(w)' <=> Fallen(w)
    <3>1. Given(w)' <=> Given(w)
      BY <2>1 DEF Given
    <3>2. Fallen(w)' <=> Fallen(w)
      BY <2>1 DEF Fallen, KeysHold
    <3>3. \A c : ReaderAt(c, w.root)' <=> ReaderAt(c, w.root)
      BY <2>1 DEF ReaderAt
    <3>4. \A c : (AtPlace(w, c)' <=> AtPlace(w, c)) /\ (AtOperand(w, c)' <=> AtOperand(w, c))
      BY <2>1, <3>3 DEF AtPlace, AtOperand
    <3>5. (Pooled(w)' <=> Pooled(w)) /\ (ReaderRuns' <=> ReaderRuns) /\ (Complete(w)' <=> Complete(w))
      BY <2>1 DEF Pooled, ReaderRuns, Complete
    <3>6. Following(w)' <=> Following(w)
      BY <2>1, <3>4, <3>5 DEF Following
    <3> QED BY <3>1, <3>2, <3>6
  <2> QED BY <2>1, <2>2 DEF ReadInv
<1> QED BY <1>1, <1>2, <1>3, <1>4 DEF Next, Ended

LEMMA ReadInvariant == ASSUME Storable PROVE Spec => []ReadInv
BY ReadInit, ReadNext, WriterInvariant, BytesOnly, ReaderInvariant, PTL DEF Spec

-----------------------------------------------------------------------------
(* The trees of two heaps.                                                 *)

\* What stands for y in a tree of depth d, the trees below being those of sub.
Image(d, sub, y) ==
  IF lua_type(y) # "table" THEN y
  ELSE IF d = 0 THEN <<"deep">> ELSE <<"tree", sub[y[2]]>>

Level(h, d, sub) ==
  [id \in DOMAIN h |-> {<<Image(d, sub, k), Image(d, sub, h[id][k])>> : k \in DOMAIN h[id]}]

\* The levels of a tree up to n, and all of them.
Levels(h, n, g) == DOMAIN g = 0..n /\ \A d \in 0..n : g[d] = Level(h, d, g[d - 1])

AllLevels(h, tree) == tree = [d \in Nat |-> Level(h, d, tree[d - 1])]

\* A lowest level refers to none.
LEMMA Lowest == \A h, f, g : Level(h, 0, f) = Level(h, 0, g)
BY DEF Level, Image

LEMMA LevelsExist ==
  ASSUME NEW h
  PROVE  \A n \in Nat : \E g : Levels(h, n, g)
<1> DEFINE G == {n \in Nat : \E g : Levels(h, n, g)}
<1>1. 0 \in G
  <2> DEFINE g == [d \in 0..0 |-> Level(h, 0, <<>>)]
  <2>1. DOMAIN g = 0..0 /\ g[0] = Level(h, 0, <<>>)
    OBVIOUS
  <2>2. \A d \in 0..0 : g[d] = Level(h, d, g[d - 1])
    <3> HIDE DEF g
    <3>1. g[0] = Level(h, 0, g[0 - 1])
      BY <2>1, Lowest
    <3> QED BY <3>1
  <2>3. Levels(h, 0, g)
    <3> HIDE DEF g
    <3> QED BY <2>1, <2>2 DEF Levels
  <2> QED BY <2>3
<1>2. ASSUME NEW n \in Nat, n \in G PROVE n + 1 \in G
  <2>1. PICK f : Levels(h, n, f)
    BY <1>2
  <2> DEFINE g == [d \in 0..(n + 1) |-> IF d <= n THEN f[d] ELSE Level(h, n + 1, f[n])]
  <2>2. DOMAIN g = 0..(n + 1) /\ (\A d \in 0..n : g[d] = f[d]) /\ g[n + 1] = Level(h, n + 1, f[n])
    OBVIOUS
  <2> HIDE DEF g
  <2>3. ASSUME NEW d \in 0..(n + 1) PROVE g[d] = Level(h, d, g[d - 1])
    <3>1. CASE d = 0
      <4>1. g[0] = f[0] /\ f[0] = Level(h, 0, f[0 - 1])
        BY <2>1, <2>2 DEF Levels
      <4> QED BY <3>1, <4>1, Lowest
    <3>2. CASE d \in 1..n
      <4>1. d \in 0..n /\ d - 1 \in 0..n
        BY <3>2
      <4>2. g[d] = f[d] /\ g[d - 1] = f[d - 1] /\ f[d] = Level(h, d, f[d - 1])
        BY <2>1, <2>2, <4>1 DEF Levels
      <4> QED BY <4>2
    <3>3. CASE d = n + 1
      <4>1. d - 1 = n /\ n \in 0..n
        BY <3>3
      <4> QED BY <2>2, <3>3, <4>1
    <3> QED BY <3>1, <3>2, <3>3
  <2>4. Levels(h, n + 1, g)
    BY <2>2, <2>3 DEF Levels
  <2> QED BY <2>4
<1>3. Nat \subseteq G
  <2> HIDE DEF G
  <2> QED BY <1>1, <1>2, Induction
<1> QED BY <1>3

\* There is one choice.
LEMMA LevelsAgree ==
  ASSUME NEW h, NEW n \in Nat, NEW m \in Nat, NEW f, NEW g, Levels(h, n, f), Levels(h, m, g)
  PROVE  \A d \in Nat : d <= n /\ d <= m => f[d] = g[d]
<1> DEFINE G == {d \in Nat : d <= n /\ d <= m => f[d] = g[d]}
<1>1. 0 \in G
  <2>1. f[0] = Level(h, 0, f[0 - 1]) /\ g[0] = Level(h, 0, g[0 - 1])
    BY DEF Levels
  <2>2. f[0] = g[0]
    BY <2>1, Lowest
  <2> QED BY <2>2
<1>2. ASSUME NEW d \in Nat, d \in G, d + 1 <= n, d + 1 <= m PROVE f[d + 1] = g[d + 1]
  <2>1. d <= n /\ d <= m /\ d + 1 \in 0..n /\ d + 1 \in 0..m /\ (d + 1) - 1 = d
    BY <1>2
  <2>2. f[d] = g[d]
    BY <1>2, <2>1
  <2>3. f[d + 1] = Level(h, d + 1, f[d]) /\ g[d + 1] = Level(h, d + 1, g[d])
    BY <2>1 DEF Levels
  <2> QED BY <2>2, <2>3
<1>3. Nat \subseteq G
  <2>1. \A d \in Nat : d \in G => d + 1 \in G
    BY <1>2
  <2> HIDE DEF G
  <2> QED BY <1>1, <2>1, Induction
<1> QED BY <1>3

LEMMA AllLevelsExist ==
  ASSUME NEW h
  PROVE  \E tree : AllLevels(h, tree)
<1> DEFINE Upto(n) == CHOOSE g : Levels(h, n, g)
           tree == [d \in Nat |-> Upto(d)[d]]
<1>1. \A n \in Nat : Levels(h, n, Upto(n))
  BY LevelsExist
<1> HIDE DEF Upto
<1>2. ASSUME NEW d \in Nat PROVE tree[d] = Level(h, d, tree[d - 1])
  <2>1. tree[d] = Upto(d)[d] /\ Upto(d)[d] = Level(h, d, Upto(d)[d - 1])
    BY <1>1 DEF Levels
  <2>2. CASE d = 0
    BY <2>1, <2>2, Lowest
  <2>3. CASE d # 0
    <3>1. d - 1 \in Nat /\ d - 1 <= d
      BY <2>3
    <3>2. tree[d - 1] = Upto(d - 1)[d - 1]
      BY <3>1
    <3>3. Levels(h, d, Upto(d)) /\ Levels(h, d - 1, Upto(d - 1))
      BY <1>1, <3>1
    <3>4. Upto(d)[d - 1] = Upto(d - 1)[d - 1]
      BY <3>1, <3>3, LevelsAgree
    <3> QED BY <2>1, <3>2, <3>4
  <2> QED BY <2>2, <2>3
<1>3. tree = [d \in Nat |-> tree[d]]
  OBVIOUS
<1> HIDE DEF tree
<1>4. [d \in Nat |-> tree[d]] = [d \in Nat |-> Level(h, d, tree[d - 1])]
  BY <1>2
<1>5. AllLevels(h, tree)
  BY <1>3, <1>4 DEF AllLevels
<1> QED BY <1>5

\* What Tree computes.
LEMMA TreeLevels ==
  ASSUME NEW h
  PROVE  \E tree : /\ AllLevels(h, tree)
                   /\ \A x : Tree(h, x) = IF lua_type(x) = "table" THEN <<"tree", tree[MaxDepth][x[2]]>> ELSE x
<1> DEFINE Eq(f) == f = [d \in Nat |->
                           [id \in DOMAIN h |->
                              {<<IF lua_type(k) # "table" THEN k
                                 ELSE IF d = 0 THEN <<"deep">> ELSE <<"tree", f[d - 1][k[2]]>>,
                                 IF lua_type(h[id][k]) # "table" THEN h[id][k]
                                 ELSE IF d = 0 THEN <<"deep">> ELSE <<"tree", f[d - 1][h[id][k][2]]>> >> :
                                 k \in DOMAIN h[id]}]]
           tree == CHOOSE f : Eq(f)
<1>1. \A x : Tree(h, x) = IF lua_type(x) = "table" THEN <<"tree", tree[MaxDepth][x[2]]>> ELSE x
  BY Zenon DEF Tree
<1>2. ASSUME NEW f PROVE Eq(f) <=> AllLevels(h, f)
  BY Zenon DEF AllLevels, Level, Image
<1>3. \E f : Eq(f)
  <2> HIDE DEF Eq
  <2> QED BY <1>2, AllLevelsExist
<1>4. Eq(tree)
  <2> HIDE DEF Eq
  <2> QED BY <1>3
<1> HIDE DEF Eq, tree
<1> QED BY <1>1, <1>2, <1>4

\* The t-th table of h was made for the table made[t], and holds what that one holds.
Resembles(h, made) ==
  /\ made \in Seq(DOMAIN Heap) /\ DOMAIN h = 1..Len(made)
  /\ \A t \in 1..Len(made) : Sat(h[t], made, made[t], Keys(Heap[made[t]]))

\* Then their trees are the same.
LEMMA ImageSame ==
  ASSUME NEW made, NEW d \in Nat, NEW f, NEW g, NEW x, NEW y, Copy(x, y, made),
         d # 0 => \A t \in 1..Len(made) : g[t] = f[made[t]]
  PROVE  Image(d, g, y) = Image(d, f, x)
<1>1. CASE lua_type(x) # "table"
  BY <1>1 DEF Copy, Image
<1>2. CASE lua_type(x) = "table"
  <2>1. PICK t \in 1..Len(made) : y = Tbl(t) /\ made[t] = x[2]
    BY <1>2 DEF Copy
  <2>2. lua_type(y) = "table" /\ y[2] = t
    BY <2>1 DEF Tbl, lua_type
  <2> QED BY <1>2, <2>1, <2>2 DEF Image
<1> QED BY <1>1, <1>2

LEMMA LevelSame ==
  ASSUME NEW h, NEW made, Resembles(h, made), NEW d \in Nat, NEW f, NEW g,
         d # 0 => \A t \in 1..Len(made) : g[t] = f[made[t]]
  PROVE  \A t \in 1..Len(made) : Level(h, d, g)[t] = Level(Contents, d, f)[made[t]]
<1> SUFFICES ASSUME NEW t \in 1..Len(made) PROVE Level(h, d, g)[t] = Level(Contents, d, f)[made[t]]
  OBVIOUS
<1> DEFINE id == made[t]
           D == Keys(Heap[id])
           P(y) == <<Image(d, g, y), Image(d, g, h[t][y])>>
           Q(k) == <<Image(d, f, k), Image(d, f, rawget(Heap[id], k))>>
<1>1. id \in DOMAIN Heap /\ t \in DOMAIN h /\ Sat(h[t], made, id, D)
  BY DEF Resembles
<1>2. Contents[id] = [k \in D |-> rawget(Heap[id], k)] /\ id \in DOMAIN Contents
  BY <1>1 DEF Contents
<1>3. Level(h, d, g)[t] = {P(y) : y \in DOMAIN h[t]}
  BY <1>1 DEF Level
<1>4. Level(Contents, d, f)[id] = {<<Image(d, f, k), Image(d, f, Contents[id][k])>> : k \in DOMAIN Contents[id]}
  BY <1>2 DEF Level
<1>5. Level(Contents, d, f)[id] = {Q(k) : k \in D}
  BY <1>2, <1>4
<1>6. ASSUME NEW k, NEW y, Holds(h[t], made, id, k, y) PROVE P(y) = Q(k)
  <2>1. Image(d, g, y) = Image(d, f, k)
    BY <1>6, ImageSame DEF Holds
  <2>2. Image(d, g, h[t][y]) = Image(d, f, rawget(Heap[id], k))
    BY <1>6, ImageSame DEF Holds
  <2> QED BY <2>1, <2>2
<1>7. (\A k \in D : \E y \in DOMAIN h[t] : P(y) = Q(k)) /\ (\A y \in DOMAIN h[t] : \E k \in D : P(y) = Q(k))
  <2> HIDE DEF P, Q, D, id
  <2> QED BY <1>1, <1>6 DEF Sat
<1> HIDE DEF P, Q, D
<1> QED BY <1>3, <1>5, <1>7

LEMMA TreesSame ==
  ASSUME NEW h, NEW made, Resembles(h, made), NEW x, NEW y, Copy(x, y, made)
  PROVE  Tree(h, y) = Tree(Contents, x)
<1>1. PICK g : AllLevels(h, g) /\ \A u : Tree(h, u) = IF lua_type(u) = "table" THEN <<"tree", g[MaxDepth][u[2]]>> ELSE u
  BY TreeLevels
<1>2. PICK f : /\ AllLevels(Contents, f)
               /\ \A u : Tree(Contents, u) = IF lua_type(u) = "table" THEN <<"tree", f[MaxDepth][u[2]]>> ELSE u
  BY TreeLevels
<1>3. \A d \in Nat : g[d] = Level(h, d, g[d - 1]) /\ f[d] = Level(Contents, d, f[d - 1])
  BY <1>1, <1>2 DEF AllLevels
<1> DEFINE G == {d \in Nat : \A t \in 1..Len(made) : g[d][t] = f[d][made[t]]}
<1>4. 0 \in G
  <2>1. g[0] = Level(h, 0, g[0 - 1]) /\ f[0] = Level(Contents, 0, f[0 - 1])
    BY <1>3
  <2>2. \A t \in 1..Len(made) : Level(h, 0, g[0 - 1])[t] = Level(Contents, 0, f[0 - 1])[made[t]]
    BY LevelSame
  <2> QED BY <2>1, <2>2
<1>5. ASSUME NEW d \in Nat, d \in G PROVE d + 1 \in G
  <2>1. g[d + 1] = Level(h, d + 1, g[d]) /\ f[d + 1] = Level(Contents, d + 1, f[d])
    <3>1. d + 1 \in Nat /\ (d + 1) - 1 = d
      OBVIOUS
    <3> QED BY <1>3, <3>1
  <2>2. \A t \in 1..Len(made) : g[d][t] = f[d][made[t]]
    BY <1>5
  <2>3. \A t \in 1..Len(made) : Level(h, d + 1, g[d])[t] = Level(Contents, d + 1, f[d])[made[t]]
    BY <2>2, LevelSame
  <2> QED BY <2>1, <2>3
<1>6. MaxDepth \in G
  <2>1. Nat \subseteq G
    <3> HIDE DEF G
    <3> QED BY <1>4, <1>5, Induction
  <2> QED BY <2>1, TableAssumption
<1>7. CASE lua_type(x) # "table"
  BY <1>1, <1>2, <1>7 DEF Copy
<1>8. CASE lua_type(x) = "table"
  <2>1. PICK t \in 1..Len(made) : y = Tbl(t) /\ made[t] = x[2]
    BY <1>8 DEF Copy
  <2>2. lua_type(y) = "table" /\ y[2] = t
    BY <2>1 DEF Tbl, lua_type
  <2>3. g[MaxDepth][t] = f[MaxDepth][made[t]]
    BY <1>6
  <2> QED BY <1>1, <1>2, <1>8, <2>1, <2>2, <2>3
<1> QED BY <1>7, <1>8

-----------------------------------------------------------------------------
(* The round trip.                                                         *)

\* A file that has arrived as a whole holds what was written.
LEMMA WholeReads == ASSUME Storable, ReadInv, ReaderInv PROVE RoundTrips
<1> SUFFICES ASSUME rpc = "done", Arrived PROVE ret = 1 /\ Tree(heap, Last(rL)) = Original /\ p_ = Len(data)
  BY DEF RoundTrips
<1>1. PICK w : Given(w) /\ w.s = stream /\ w.root = Last(caller) /\ (Following(w) \/ Fallen(w))
  BY DEF ReadInv, Arrived
<1>2. data = stream /\ ~Fallen(w)
  BY <1>1 DEF Fallen, Arrived
<1>3. Complete(w)
  BY <1>1, <1>2 DEF Following
<1>4. PICK made \in Seq(DOMAIN Heap) : /\ Len(heap) = Len(made) /\ Copy(w.root, rL[Len(rL)], made)
                                       /\ \A t \in 1..Len(heap) : Sat(heap[t], made, made[t], Keys(Heap[made[t]]))
  BY <1>3 DEF Complete
<1>5. DOMAIN heap = 1..Len(heap)
  BY DEF ReaderInv, ReaderTypes
<1>6. Resembles(heap, made)
  BY <1>4, <1>5 DEF Resembles
<1>7. Tree(heap, rL[Len(rL)]) = Tree(Contents, w.root)
  BY <1>4, <1>6, TreesSame
<1>8. Last(rL) = rL[Len(rL)] /\ Original = Tree(Contents, Last(caller))
  BY DEF Last, Original
<1> QED BY <1>1, <1>2, <1>3, <1>7, <1>8 DEF Complete

\* A file that has lost its end is not taken for a whole one.
LEMMA CutShows == ASSUME Storable, MemorySuffices, ReadInv, ReaderInv, BytesInv PROVE CutShowsInCursor
<1> SUFFICES ASSUME wpc = "written"
             PROVE  rpc # "raised" /\ (rpc = "done" /\ ret = 1 => (short <=> ~Arrived) /\ (short <=> p_ > Len(data)))
  BY DEF CutShowsInCursor
<1>1. CASE rpc = "idle"
  BY <1>1
<1>2. CASE rpc # "idle"
  <2>1. PICK w : Given(w) /\ w.s = stream /\ w.root = Last(caller) /\ (Following(w) \/ Fallen(w))
    BY <1>2 DEF ReadInv
  <2>2. data \in Seq(Byte) /\ Len(data) \in Nat /\ p_ \in Nat
    BY <2>1 DEF Given, ReaderInv, ReaderTypes, Cursor
  <2>3. CASE Fallen(w)
    BY <2>1, <2>3 DEF Fallen, Arrived
  <2>4. CASE Following(w)
    <3>1. rpc # "raised"
      BY <2>4 DEF Following
    <3>2. ASSUME rpc = "done" PROVE short = FALSE /\ Arrived /\ ~(p_ > Len(data))
      <4>1. short = FALSE /\ p_ <= Len(data) /\ p_ = Len(w.s)
        BY <2>4, <3>2 DEF Following, Complete
      <4>2. Len(data) <= Len(w.s) /\ \A k \in 1..Len(data) : w.s[k] = data[k]
        BY <2>1 DEF Given, Begins
      <4>3. Len(data) = Len(w.s)
        BY <2>2, <4>1, <4>2
      <4>4. w.s \in Seq(Byte)
        BY <2>1 DEF BytesInv, WrittenBytes
      <4>5. data = w.s
        BY <2>2, <4>2, <4>3, <4>4
      <4> QED BY <2>1, <2>2, <4>1, <4>5 DEF Arrived
    <3> QED BY <3>1, <3>2
  <2> QED BY <2>1, <2>3, <2>4
<1> QED BY <1>1, <1>2

\* Whatever writeBinaryTable has written, parseBinaryTable reads it back if nothing of it is
\* lost on the way.
THEOREM WrittenReadsBack == ASSUME Storable PROVE Spec => []RoundTrips
BY WholeReads, ReadInvariant, ReaderInvariant, PTL

\* With memory for it, no loss of an end goes unnoticed.
THEOREM CutsShow == ASSUME Storable, MemorySuffices PROVE Spec => []CutShowsInCursor
BY CutShows, ReadInvariant, ReaderInvariant, BytesOnly, PTL
=============================================================================
