------------------------------ MODULE MCKeySort ------------------------------
(* Key sets with strings, numbers on both sides of 0 and 1, booleans,      *)
(* tables and a function.                                                  *)
EXTENDS KeySort, FiniteSetsExt

\* Strings of one byte, in the order of the bytes.
LexLess(s, t) == s[1] < t[1]

Pool == {Int2Num(-2), Int2Num(-1), Num(1), Int2Num(3), False, True, Str(<<1>>), Str(<<2>>), Tbl(1), Tbl(2), Function(1)}

MCKeySets == UNION {kSubset(n, Pool) : n \in {0, 2, 3, 4}} \cup
  {{Int2Num(-3), Int2Num(-2), Int2Num(-1), False, Int2Num(4), Str(<<1>>)},
   {Int2Num(7), Int2Num(5), Num(1), Str(<<1>>), Str(<<2>>), Str(<<3>>)}}
==============================================================================
