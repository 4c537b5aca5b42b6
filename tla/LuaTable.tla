------------------------------ MODULE LuaTable ------------------------------
(***************************************************************************)
(* The tables of the bundled Lua (ltable.c): an array part and a hash part *)
(* of chained scatter nodes with Brent's variation.  The binary table      *)
(* library depends on two things of them: that lua_next visits every entry *)
(* of a table that is not extended meanwhile (countTableLength,            *)
(* getSortedTableKeys), and what the length operator returns (writeTable). *)
(*                                                                         *)
(* A key is <<type, value>>.  A collectable key of an entry without a      *)
(* value may be declared dead by the collector at any time: it stays in    *)
(* its chain, and lua_next must still find it there.                       *)
(***************************************************************************)
EXTENDS Integers, Sequences, FiniteSets, SequencesExt, FiniteSetsExt

CONSTANTS
  Keys,
  ValuesOf(_), \* the values assigned to a key
  Hash(_),   \* the number hashed from a key
  ArraySizes \* the sizes a constructor asks of luaH_resizearray

ASSUME LuaTableAssumption ==
  /\ \A k \in Keys : /\ k = <<k[1], k[2]>> /\ k[1] \notin {"nil", "dead"}
                     /\ k[1] = "int" => k[2] \in Int
                     /\ Hash(k) \in Nat
  /\ ArraySizes \subseteq Nat

VARIABLES
  t,       \* the table: array, node, lastfree, and dummy: node is the dummynode
  nested,  \* history: an insertion by resize found no free node
  key,     \* the traversal: the key given to lua_next, "off" when there is none
  visited, \* history: keys returned to it so far
  stays    \* history: keys that have had a value since it began

vars == <<t, nested, key, visited, stays>>

Nil == <<"nil">>
Off == <<"off">>
Dead(k) == <<"dead", k>>

-----------------------------------------------------------------------------
(* Hashing and searching.                                                  *)

\* x | 1
Odd(x) == IF x % 2 = 0 THEN x + 1 ELSE x

sizenode(h) == Len(h.node)

\* hashstr and hashboolean take a power of two, hashnum and hashpointer an odd number.
mainposition(h, k) ==
  1 + (Hash(k) % (IF k[1] \in {"str", "bool"} THEN sizenode(h) ELSE Odd(sizenode(h) - 1)))

arrayindex(k) == IF k[1] = "int" THEN k[2] ELSE -1

InArray(h, k) == arrayindex(k) \in 1..Len(h.array)

\* The node with key k in the chain that begins at its main position, 0 if there is
\* none; a dead key counts if dead is TRUE.
Find(h, k, dead) ==
  LET search[n \in 0..sizenode(h)] ==
        IF n = 0 \/ h.node[n].key = k \/ (dead /\ h.node[n].key = Dead(k)) THEN n ELSE search[h.node[n].next]
  IN  search[mainposition(h, k)]

\* luaH_get, luaH_getnum, luaH_getstr
luaH_get(h, k) ==
  IF InArray(h, k) THEN h.array[arrayindex(k)]
  ELSE LET n == Find(h, k, FALSE) IN IF n = 0 THEN Nil ELSE h.node[n].val

-----------------------------------------------------------------------------
(* Insertion.                                                              *)

\* getfreepos: the next node below lastfree whose key was never used, 0 if none.
getfreepos(h) == Max({0} \cup {n \in 1..(h.lastfree - 1) : h.node[n].key = Nil})

Live(k) == IF k[1] = "dead" THEN k[2] ELSE k

\* The node before mp in the chain of its key.
Previous(h, mp) ==
  LET prev[n \in 0..sizenode(h)] == IF n = 0 \/ h.node[n].next = mp THEN n ELSE prev[h.node[n].next]
  IN  prev[mainposition(h, Live(h.node[mp].key))]

Put(h, n, k, v) == [h EXCEPT !.node[n] = [key |-> k, val |-> v, next |-> @.next]]

\* gnext(n) = m
Link(h, n, m) == [h EXCEPT !.node[n].next = m]

\* Mutant: the node that moves away leaves its chain as it is.
MoveAwayUnlinked(h, mp, n) == Link([h EXCEPT !.node[n] = h.node[mp]], mp, 0)

\* The colliding node goes to the free place n, with its place in the chain.
MoveAway(h, mp, n) == Link([Link(h, Previous(h, mp), n) EXCEPT !.node[n] = h.node[mp]], mp, 0)

\* newkey with a free place: Brent's variation.
newkey(h, k, v, n) ==
  LET mp == mainposition(h, k)
      h1 == [h EXCEPT !.lastfree = n]
  IN  IF mainposition(h, Live(h.node[mp].key)) # mp THEN Put(MoveAway(h1, mp, n), mp, k, v)
      ELSE Put(Link(Link(h1, n, h.node[mp].next), mp, n), n, k, v)

\* Whether a main position can be taken at once.
Vacant(h, mp) == h.node[mp].val = Nil /\ ~h.dummy

\* luaH_set without rehash; the flag tells that a free place was missing.
SetIn(r, k, v) ==
  LET h    == r.h
      n    == Find(h, k, FALSE)
      mp   == mainposition(h, k)
      free == getfreepos(h)
  IN  IF InArray(h, k) THEN [r EXCEPT !.h.array[arrayindex(k)] = v]
      ELSE IF n # 0 THEN [r EXCEPT !.h = Put(h, n, k, v)]
      ELSE IF Vacant(h, mp) THEN [r EXCEPT !.h = Put(h, mp, k, v)]
      ELSE IF free # 0 THEN [r EXCEPT !.h = newkey(h, k, v, free)]
      ELSE [r EXCEPT !.full = TRUE, !.h.lastfree = 1]

-----------------------------------------------------------------------------
(* Rehash.                                                                 *)

twoto[i \in Nat] == IF i = 0 THEN 1 ELSE 2 * twoto[i - 1]

\* Mutant: the logarithm is rounded down.
floorlog2(x) == Max({i \in 0..x : twoto[i] <= x})

\* ceil(log2(x))
ceillog2(x) == Min({i \in 0..x : twoto[i] >= x})

EmptyNode == [key |-> Nil, val |-> Nil, next |-> 0]

\* setnodevector
NodeVector(size) ==
  IF size = 0 THEN [node |-> <<EmptyNode>>, dummy |-> TRUE, lastfree |-> 1]
  ELSE LET n == twoto[ceillog2(size)] IN [node |-> [i \in 1..n |-> EmptyNode], dummy |-> FALSE, lastfree |-> n + 1]

\* The vanishing slice of the array, then the old nodes from the last to the first.
resize(h, nasize, nhsize) ==
  LET nv  == NodeVector(nhsize)
      new == [array |-> [i \in 1..nasize |-> IF i <= Len(h.array) THEN h.array[i] ELSE Nil],
              node |-> nv.node, dummy |-> nv.dummy, lastfree |-> nv.lastfree]
      slice[i \in 0..Len(h.array)] ==
        IF i = 0 THEN [h |-> new, full |-> FALSE]
        ELSE IF i <= nasize \/ h.array[i] = Nil THEN slice[i - 1]
        ELSE SetIn(slice[i - 1], <<"int", i>>, h.array[i])
      moved[i \in 0..sizenode(h)] ==
        LET n == h.node[sizenode(h) + 1 - i] IN
        IF i = 0 THEN slice[Len(h.array)]
        ELSE IF n.val = Nil THEN moved[i - 1] ELSE SetIn(moved[i - 1], n.key, n.val)
  IN  moved[sizenode(h)]

\* Integer keys in use: numusearray, numusehash and countint of the extra key.
IntKeys(h, ek) ==
  {i \in DOMAIN h.array : h.array[i] # Nil}
  \cup {arrayindex(h.node[n].key) : n \in {m \in DOMAIN h.node : h.node[m].val # Nil /\ arrayindex(h.node[m].key) > 0}}
  \cup (IF arrayindex(ek) > 0 THEN {arrayindex(ek)} ELSE {})

nums(ints, i) == Cardinality({k \in ints : ceillog2(k) = i})

Upto(ints, n) == {k \in ints : k <= n}

\* The size of the array, the greatest power of two of which more than half would be in
\* use, and the number of keys that go there.
computesizes(ints) ==
  LET narray == Cardinality(ints)
      worth == {i \in 0..narray : /\ twoto[i] \div 2 < narray /\ nums(ints, i) > 0
                                  /\ Cardinality(Upto(ints, twoto[i])) > twoto[i] \div 2}
      n == IF worth = {} THEN 0 ELSE twoto[Max(worth)]
  IN  <<n, Cardinality(Upto(ints, n))>>

InUse(h) ==
  Cardinality({i \in DOMAIN h.array : h.array[i] # Nil}) + Cardinality({n \in DOMAIN h.node : h.node[n].val # Nil})

totaluse(h) == InUse(h) + 1

rehash(h, ek) ==
  LET s == computesizes(IntKeys(h, ek)) IN resize(h, s[1], totaluse(h) - s[2])

\* luaH_set, luaH_setnum, luaH_setstr and the store that follows
luaH_set(h, k, v) ==
  LET r == SetIn([h |-> h, full |-> FALSE], k, v) IN
  IF ~r.full THEN r ELSE SetIn(rehash(h, k), k, v)

-----------------------------------------------------------------------------
(* Traversal and length.                                                   *)

\* Mutant: a dead key is not found any more.
findindexLive(h, k) ==
  IF k = Nil THEN 0
  ELSE IF InArray(h, k) THEN arrayindex(k)
  ELSE LET n == Find(h, k, FALSE) IN IF n = 0 THEN -1 ELSE Len(h.array) + n

\* findindex: position in the array, then in the nodes behind it; -1 for an
\* unknown key.
findindex(h, k) ==
  IF k = Nil THEN 0
  ELSE IF InArray(h, k) THEN arrayindex(k)
  ELSE LET n == Find(h, k, TRUE) IN IF n = 0 THEN -1 ELSE Len(h.array) + n

Slot(h, i) == IF i <= Len(h.array) THEN h.array[i] ELSE h.node[i - Len(h.array)].val

SlotKey(h, i) == IF i <= Len(h.array) THEN <<"int", i>> ELSE h.node[i - Len(h.array)].key

\* The key after k, Off at the end.
luaH_next(h, k) ==
  LET rest == {i \in (findindex(h, k) + 1)..(Len(h.array) + sizenode(h)) : Slot(h, i) # Nil}
  IN  IF rest = {} THEN Off ELSE SlotKey(h, Min(rest))

Item(h, i) == luaH_get(h, <<"int", i>>)

Middle(p) == (p[1] + p[2]) \div 2

\* The binary search between a present i (or 0) and an absent j.
Border(h, i, j) ==
  LET search[p \in Nat \X Nat] ==
        IF p[2] - p[1] <= 1 THEN p[1]
        ELSE search[IF Item(h, Middle(p)) = Nil THEN <<p[1], Middle(p)>> ELSE <<Middle(p), p[2]>>]
  IN  search[<<i, j>>]

\* Doubles j; the linear search beyond MAX_INT is out of reach.
unbound_search(h, j) ==
  LET probe[p \in Nat \X Nat] ==
        IF Item(h, p[2]) = Nil THEN Border(h, p[1], p[2]) ELSE probe[<<p[2], 2 * p[2]>>]
  IN  probe[<<j, j + 1>>]

\* Mutant: a full array ends the list.
luaH_getnArray(h) ==
  LET j == Len(h.array) IN IF j > 0 /\ h.array[j] = Nil THEN Border(h, 0, j) ELSE j

luaH_getn(h) ==
  LET j == Len(h.array) IN
  IF j > 0 /\ h.array[j] = Nil THEN Border(h, 0, j)
  ELSE IF h.dummy THEN j ELSE unbound_search(h, j)

-----------------------------------------------------------------------------
(* The program that uses the table.                                        *)

\* luaH_new(L, 0, 0)
Init ==
  /\ t = [array |-> <<>>, node |-> <<EmptyNode>>, dummy |-> TRUE, lastfree |-> 1]
  /\ nested = FALSE /\ key = Off /\ visited = <<>> /\ stays = {}

Present == {k \in Keys : luaH_get(t, k) # Nil}

\* lua_rawset and the like.  During a traversal only fields that exist are assigned.
Assign(k, v) ==
  /\ key # Off => k \in Present
  /\ LET r == luaH_set(t, k, v) IN t' = r.h /\ nested' = (nested \/ r.full)
  /\ stays' = IF v = Nil THEN stays \ {k} ELSE stays
  /\ UNCHANGED <<key, visited>>

\* OP_SETLIST: the array grows to hold the items of a constructor.
luaH_resizearray(n) ==
  /\ key = Off /\ n > Len(t.array)
  /\ LET r == resize(t, n, IF t.dummy THEN 0 ELSE sizenode(t)) IN t' = r.h /\ nested' = (nested \/ r.full)
  /\ UNCHANGED <<key, visited, stays>>

Collectable(k) == k[1] \in {"str", "table"}

removeentry(n) == IF n.val = Nil /\ Collectable(n.key) THEN [n EXCEPT !.key = Dead(@)] ELSE n

\* The collector traverses the table (traversetable in lgc.c).
Collect ==
  /\ t' = [t EXCEPT !.node = [n \in DOMAIN @ |-> removeentry(@[n])]]
  /\ UNCHANGED <<nested, key, visited, stays>>

BeginTraversal ==
  /\ key = Off
  /\ key' = Nil /\ visited' = <<>> /\ stays' = Present
  /\ UNCHANGED <<t, nested>>

\* (Without a key it knows luaH_next raises an error.)
lua_next ==
  /\ key # Off /\ findindex(t, key) # -1
  /\ key' = luaH_next(t, key)
  /\ visited' = IF key' = Off THEN <<>> ELSE Append(visited, key')
  /\ stays' = IF key' = Off THEN {} ELSE stays
  /\ UNCHANGED <<t, nested>>

Next ==
  \/ \E k \in Keys : \E v \in ValuesOf(k) \cup {Nil} : Assign(k, v)
  \/ \E n \in ArraySizes : luaH_resizearray(n)
  \/ Collect \/ BeginTraversal \/ lua_next

Spec == Init /\ [][Next]_vars
-----------------------------------------------------------------------------
Abstract == INSTANCE Dictionary WITH dict <- [k \in Keys |-> luaH_get(t, k)], Values <- UNION {ValuesOf(k) : k \in Keys}

\* Whatever collisions, moves, dead keys and rehashes happen inside, a table is a
\* dictionary: an assignment changes the value of its key and of no other, and
\* nothing else changes any.
ImplementsDictionary == Abstract!Spec

\* The head comment of ltable.c: an element that is not in its main position has been
\* displaced by one that is in its own.  And resize never runs out of nodes, which
\* would rehash a table half moved.
Brent ==
  /\ ~nested
  /\ \A n \in DOMAIN t.node :
       t.node[n].val # Nil =>
         LET mp == mainposition(t, t.node[n].key)
         IN  mp = n \/ t.node[mp].key = Nil \/ mainposition(t, Live(t.node[mp].key)) = mp

\* The length operator returns a border, however the integer keys are spread over
\* the two parts.
LengthIsBorder ==
  LET n == luaH_getn(t) IN
  /\ n = 0 \/ Item(t, n) # Nil
  /\ Item(t, n + 1) = Nil

\* A traversal during which fields are changed or cleared, keys die and nothing is
\* added meets no key twice, accepts every key it returned, and in the end has
\* visited every entry that was there all the time.
Traverses ==
  [][/\ IsInjective(visited)
     /\ key # Off => findindex(t, key) # -1
     /\ key # Off /\ key' = Off => stays \subseteq ToSet(visited)]_vars
==============================================================================
