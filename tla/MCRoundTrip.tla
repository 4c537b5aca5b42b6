----------------------------- MODULE MCRoundTrip -----------------------------
(* Tables of every shape that writeTable tells apart, nested three deep;   *)
(* values at every boundary of the encoders; and files of other origin.    *)
EXTENDS RoundTrip

MCSizeof == [b \in {8, 16, 32, 64} |-> CASE b = 8 -> 1 [] b = 16 -> 2 [] b = 32 -> 3 [] b = 64 -> 4]

\* Strings are compared by their first byte, then by length.
LexLess(s, r) == s[1] < r[1] \/ (s[1] = r[1] /\ Len(s) < Len(r))

A == Str(<<1>>)
B == Str(<<2>>)
C == Str(<<2, 1>>)

Fcn(S, val(_)) == [k \in S |-> val(k)]

MCHeap ==
  <<MkTable(<<>>, EmptyFcn),                                                           \* 1: {}
    MkTable(<<A, True, Tbl(1), A>>, EmptyFcn),                                         \* 2: an array
    MkTable(<<>>, Fcn({A, B, C}, LAMBDA k : IF k = A THEN B ELSE Tbl(2))),             \* 3: records
    MkTable(<<Tbl(3), Nil, Tbl(3)>>, EmptyFcn),                                        \* 4: a hole
    MkTable(<<>>, Fcn({True, Int2Num(-3), Num(-1), B}, LAMBDA k : Tbl(1))),            \* 5: a boolean key
    MkTable(<<Num(3)>>, Fcn({True, False}, LAMBDA k : A)),                             \* 6: two boolean keys
    MkTable(<<B, Tbl(2), Function(1)>>, EmptyFcn),                                     \* 7: not writable
    MkTable(<<>>, Fcn({Tbl(2), Tbl(3), A}, LAMBDA k : IF k = A THEN Tbl(5) ELSE k)),   \* 8: table keys
    MkTable(<<Tbl(8)>>, Fcn({A}, LAMBDA k : Tbl(6))),                                  \* 9: fails below
    MkTable(<<Tbl(8)>>, Fcn({A}, LAMBDA k : Tbl(7))),                                  \* 10: fails below
    MkTable(<<Nil, Int2Num(5)>>, Fcn({Int2Num(4), Int2Num(3)}, LAMBDA k : Str(<<>>))), \* 11: a hole in front
    MkTable(<<A, False, Tbl(1), Int2Num(700)>>, EmptyFcn),
    MkTable(<<>>, Fcn({A, B, Int2Num(3), Num(5)}, LAMBDA k : IF k = A THEN Tbl(12) ELSE B)),
    MkTable(<<Tbl(12), Tbl(13)>>, Fcn({False, Tbl(13)}, LAMBDA k : IF k = False THEN A ELSE Num(9))),
    MkTable(<<Num(3), Nil, A>>, EmptyFcn),
    \* Lengths and string numbers on both sides of the one and two byte limits.
    MkTable([k \in 1..25 |-> True], EmptyFcn),
    MkTable([k \in 1..26 |-> Str(<<k - 1, k - 1>>)], EmptyFcn),
    MkTable([k \in 1..676 |-> Int2Num(1)], EmptyFcn)>>

Integers64 ==
  UNION {{MinInt(b) - 1, MinInt(b), MaxInt(b), MaxInt(b) + 1} : b \in {8, 16, 32}}
  \cup {-2, -1, 0, 1, 2, MinInt(64), MaxInt(64)}

Numbers == {Int2Num(n) : n \in Integers64} \cup {Num(n) : n \in {-1, 1, 3, 7, -2001, MinInt(64) + 1, MaxInt(64)}}

Values ==
  {Tbl(k) : k \in DOMAIN MCHeap} \cup Numbers
  \cup {Nil, True, False, A, Str(<<>>), Str([k \in 1..675 |-> 3]), Function(1)}

MCCallers == {<<x>> : x \in Values} \cup {<<A, Tbl(k)>> : k \in {3, 7}}

MCCaller == <<Str(<<9>>)>>

Header == writeNumber(16, MAGIC_NUMBER) \o writeNumber(16, LUABT_VERSION)

OneString == writeNumber(TStringPoolLength, 1) \o writeNumber(TStringLength, 1) \o <<5>>

Alphabet == {T.EOF, T.NIL, T.FALSE_, T.INT8, T.STRING8, T.ARRAY8, T.TABLE8, T.TABLE0, T.ARRAY32, T.MAX}

Whole == Header \o OneString \o
  <<T.TABLE8, 2, T.ONE, T.ARRAY8, 2, T.STRING8, 1, T.TABLE0, T.ARRAY8, 1, T.TRUE_, T.TABLE8, 1, T.ONE, T.ARRAY0>>

\* Every file that consists of a header, a pool of one string and up to four bytes of a
\* small alphabet, most of them malformed; every prefix of a nested file, and the nested
\* file with one byte damaged.
MCFiles ==
  {Header \o OneString \o body : body \in UNION {[1..n -> Alphabet] : n \in 0..4}}
  \cup {SubSeq(Whole, 1, n) : n \in 0..Len(Whole)}
  \cup {[Whole EXCEPT ![k] = byte] : k \in DOMAIN Whole, byte \in Alphabet}
  \cup {Header \o <<0, 1, 0>>, writeNumber(16, MAGIC_NUMBER) \o writeNumber(16, 2),
        Header \o writeNumber(32, 1) \o writeNumber(16, 0) \o <<1>>}

ASSUME StorableAssumption == Storable /\ MemorySuffices
==============================================================================
