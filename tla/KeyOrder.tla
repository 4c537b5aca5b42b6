------------------------------ MODULE KeyOrder ------------------------------
(***************************************************************************)
(* The order that getSortedTableKeys hands to table.sort, and what the     *)
(* rest of the writer may expect of the keys it gets back.                 *)
(***************************************************************************)
EXTENDS LuaValues, Functions

CONSTANT Collates(_, _) \* strcoll on the contents of two Lua strings

\* lua_lessthan raises an error for two values of one type without an order.
Raises(x, y) == lua_type(x) = lua_type(y) /\ lua_type(x) \notin {"nil", "num", "str", "table"}

\* A boolean counts as 0 or 1 when it meets a number (numbers are doubled).
AsNumber(x) == IF x = True THEN 2 ELSE IF x = False THEN 0 ELSE x[2]

\* The C expression that sortCmp returns, for operands that do not raise.
Less(x, y) ==
  LET t1 == lua_type(x)
      t2 == lua_type(y)
  IN  \/ t1 = "nil"
      \/ t1 = t2 /\ t1 \in {"num", "table"} /\ x[2] < y[2]
      \/ t1 = t2 /\ t1 = "str" /\ Collates(x[2], y[2])
      \/ {t1, t2} = {"bool", "num"} /\ AsNumber(x) < AsNumber(y)
      \/ t1 \in {"bool", "num"} /\ t2 \notin {"bool", "num", "nil"}
      \/ t1 = "str" /\ t2 \notin {"str", "bool", "num", "nil"}

\* Mutant: less-or-equal instead of less.
sortCmpOrEqual(x, y) ==
  IF Raises(x, y) THEN "error" ELSE IF x = y \/ (Less(x, y) /\ y \notin {Nil, False}) THEN "yes" ELSE "no"

\* What sort_comp makes of a call of sortCmp: the C function returns its
\* comparison as the number of its results, so the Lua result is either none
\* (false) or the second argument, which is itself false for nil and false.
sortCmp(x, y) ==
  IF Raises(x, y) THEN "error" ELSE IF Less(x, y) /\ y \notin {Nil, False} THEN "yes" ELSE "no"

\* K is ordered like a line: sorting cannot fail and has one result.
Linear(K) ==
  /\ \A x \in K : sortCmp(x, x) = "no"
  /\ \A x, y \in K : x # y => (sortCmp(x, y) = "yes") # (sortCmp(y, x) = "yes")
  /\ \A x, y, z \in K : sortCmp(x, y) = "yes" /\ sortCmp(y, z) = "yes" => sortCmp(x, z) = "yes"

\* table.sort compares every pair of two or three keys at most once; with four
\* or more it also compares the pivot with itself.
MayRaise(K) ==
  \E x, y \in K : sortCmp(x, y) = "error" /\ (x # y \/ Cardinality(K) >= 4)

Sorted(s) == \A i, j \in DOMAIN s : i < j => sortCmp(s[i], s[j]) = "yes"

\* The arrays that may hold the keys K when table.sort begins.
Arrays(K) == Injection(1..Cardinality(K), K)

\* The key arrays that getSortedTableKeys may leave for a table with keys K.
SortedKeys(K) == {s \in Arrays(K) : Linear(K) => Sorted(s)}
==============================================================================
