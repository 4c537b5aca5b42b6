---------------------------- MODULE MCTableWriter ----------------------------
(* A table with a hole that has as many entries as its length says.        *)
EXTENDS TableWriter

MCSizeof == [b \in {8, 16, 32, 64} |-> CASE b = 8 -> 1 [] b = 16 -> 2 [] b = 32 -> 3 [] b = 64 -> 4]

\* The order of strings by their first byte.
LexLess(s, r) == s[1] < r[1]

A == Str(<<1>>)
B == Str(<<2>>)

\* {A, nil, A, [B] = A}: three entries, and the length operator says 3.
HoleHeap == <<MkTable(<<A, Nil, A>>, [k \in {B} |-> A])>>

RootCallers == {<<Tbl(1)>>}
==============================================================================
