------------------------------ MODULE LuaValues ------------------------------
(***************************************************************************)
(* Lua values as the library sees them through the Lua 5.1 API.  A value   *)
(* is a tuple whose first element is its type.  A table is referred to by  *)
(* an identity; its contents are an array part and a hash part, because    *)
(* the length operator depends on how they are split (ltable.c).           *)
(***************************************************************************)
EXTENDS Integers, Sequences, FiniteSets

Nil == <<"nil">>
True == <<"bool", TRUE>>
False == <<"bool", FALSE>>
Num(n) == <<"num", n>>      \* the number n / 2
Int2Num(i) == Num(2 * i)
Str(s) == <<"str", s>>      \* s a sequence of bytes
Tbl(t) == <<"table", t>>
Function(x) == <<"function", x>>

lua_type(v) == v[1]

\* A table with array part arr (nil in the holes) and hash part hash.
MkTable(arr, hash) == [arr |-> arr, hash |-> hash]

EmptyFcn == [x \in {} |-> Nil]

\* The array index that key k denotes, 0 if it denotes none.
ArrayIndex(t, k) ==
  IF k[1] = "num" THEN (IF k[2] % 2 = 0 /\ k[2] \div 2 \in 1..Len(t.arr) THEN k[2] \div 2 ELSE 0) ELSE 0

\* lua_rawget, lua_rawgeti
rawget(t, k) ==
  IF ArrayIndex(t, k) # 0 THEN t.arr[ArrayIndex(t, k)]
  ELSE IF k \in DOMAIN t.hash THEN t.hash[k] ELSE Nil

\* The keys that lua_next visits.
Keys(t) ==
  {Int2Num(i) : i \in {j \in 1..Len(t.arr) : t.arr[j] # Nil}}
  \cup {k \in DOMAIN t.hash : t.hash[k] # Nil}

countTableLength(t) == Cardinality(Keys(t))

\* The values above index i move down.
lua_remove(stack, i) == SubSeq(stack, 1, i - 1) \o SubSeq(stack, i + 1, Len(stack))

-----------------------------------------------------------------------------
(* lua_objlen of a table: luaH_getn returns some border, an index that is  *)
(* present while the next one is not.                                      *)

Absent(t, i) == rawget(t, Int2Num(i)) = Nil

\* The binary search between a present i (or 0) and an absent j.
Border(t, i0, j0) ==
  LET search[i \in Nat, j \in Nat] ==
        IF j - i <= 1 THEN i
        ELSE LET m == (i + j) \div 2 IN IF Absent(t, m) THEN search[i, m] ELSE search[m, j]
  IN  search[i0, j0]

\* Doubles j until it is absent, then searches.  (The give-up for j > MAX_INT
\* is out of reach of the tables considered.)
unbound_search(t, j0) ==
  LET probe[i \in Nat, j \in Nat] ==
        IF Absent(t, j) THEN Border(t, i, j) ELSE probe[j, 2 * j]
  IN  probe[j0, j0 + 1]

luaH_getn(t) ==
  LET j == Len(t.arr) IN
  IF j > 0 /\ t.arr[j] = Nil THEN Border(t, 0, j)
  ELSE IF DOMAIN t.hash = {} THEN j
  ELSE unbound_search(t, j)
==============================================================================
