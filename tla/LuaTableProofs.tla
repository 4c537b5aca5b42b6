---------------------------- MODULE LuaTableProofs ----------------------------
(***************************************************************************)
(* Lua tables, for all keys, hash functions and sizes: collisions, moved   *)
(* nodes, dead keys and rehashes cannot be seen from outside.              *)
(***************************************************************************)
EXTENDS LuaTable, FiniteSetTheorems, WellFoundedInduction, TLAPS

-----------------------------------------------------------------------------
(* Induction and recursion.                                                *)

LessThan == {p \in Nat \X Nat : p[1] < p[2]}

\* Less than on the natural numbers is well founded.
LEMMA LessIsWellFounded == IsWellFoundedOn(LessThan, Nat)
BY NatLessThanWellFounded DEF OpToRel, LessThan

\* Every set of natural numbers has a least one.
LEMMA LeastElement ==
  ASSUME NEW S \in SUBSET Nat, S # {}
  PROVE  \E n \in S : \A m \in S : n <= m
<1>1. S \subseteq Nat
  OBVIOUS
<1>2. \E n \in S : \A m \in S : ~(<<m, n>> \in LessThan)
  BY <1>1, LessIsWellFounded, WFMin, Zenon
<1>3. PICK n \in S : \A m \in S : ~(<<m, n>> \in LessThan)
  BY <1>2
<1>4. ASSUME NEW m \in S PROVE n <= m
  <2>1. ~(<<m, n>> \in LessThan)
    BY <1>3
  <2> QED BY <2>1 DEF LessThan
<1> QED BY <1>4

\* Induction over the natural numbers, for a set in place of a predicate.
LEMMA Induction ==
  ASSUME NEW S, 0 \in S, \A n \in Nat : n \in S => n + 1 \in S
  PROVE  Nat \subseteq S
<1> DEFINE C == {n \in Nat : n \notin S}
<1> SUFFICES ASSUME C # {} PROVE FALSE
  OBVIOUS
<1>1. PICK n \in C : \A m \in C : n <= m
  BY LeastElement
<1>2. n # 0 /\ n - 1 \in Nat /\ n - 1 \notin C
  BY <1>1
<1> QED BY <1>2

\* A function over the natural numbers may be defined by what it is at 0 and how each value
\* follows from the one before.
IsIteration(f, S, a, step) ==
  f \in [Nat -> S] /\ f[0] = a /\ \A n \in Nat : f[n + 1] = step[<<n, f[n]>>]

\* A first element and a step define a sequence without end.
LEMMA Recursion ==
  ASSUME NEW S, NEW a, NEW step, a \in S, step \in [Nat \X S -> S]
  PROVE  \E f : IsIteration(f, S, a, step)
<1> DEFINE Start(n) == {g \in [0..n -> S] : g[0] = a /\ \A k \in 0..(n - 1) : g[k + 1] = step[<<k, g[k]>>]}
           Begun == {n \in Nat : Start(n) # {}}
           Same == {k \in Nat : \A n, m \in Nat : k <= n /\ k <= m =>
                                  \A g \in Start(n), h \in Start(m) : g[k] = h[k]}
           Chosen(n) == CHOOSE g \in Start(n) : TRUE
           f == [n \in Nat |-> Chosen(n)[n]]
<1>1. Nat \subseteq Begun
  <2>1. 0 \in Begun
    <3>1. [k \in 0..0 |-> a] \in Start(0)
      OBVIOUS
    <3> QED BY <3>1
  <2>2. ASSUME NEW n \in Nat, n \in Begun PROVE n + 1 \in Begun
    <3>1. PICK g \in Start(n) : TRUE
      BY <2>2
    <3> DEFINE h == [k \in 0..(n + 1) |-> IF k = n + 1 THEN step[<<n, g[n]>>] ELSE g[k]]
    <3>2. /\ g \in [0..n -> S] /\ g[0] = a /\ \A k \in 0..(n - 1) : g[k + 1] = step[<<k, g[k]>>]
          /\ g[n] \in S /\ step[<<n, g[n]>>] \in S
      <4>1. g \in [0..n -> S] /\ g[0] = a /\ \A k \in 0..(n - 1) : g[k + 1] = step[<<k, g[k]>>]
        BY <3>1
      <4>2. g[n] \in S
        BY <4>1
      <4> QED BY <4>1, <4>2
    <3>3. h \in [0..(n + 1) -> S]
      <4> SUFFICES ASSUME NEW k \in 0..(n + 1) PROVE h[k] \in S
        OBVIOUS
      <4>1. k = n + 1 \/ k \in 0..n
        OBVIOUS
      <4> QED BY <3>2, <4>1
    <3>4. h[0] = a
      BY <3>2
    <3>5. ASSUME NEW k \in 0..n PROVE h[k + 1] = step[<<k, h[k]>>]
      <4>1. h[k] = g[k] /\ k + 1 \in 0..(n + 1)
        OBVIOUS
      <4>2. CASE k = n
        BY <4>1, <4>2
      <4>3. CASE k # n
        <5>1. k \in 0..(n - 1) /\ h[k + 1] = g[k + 1]
          BY <4>1, <4>3
        <5> QED BY <3>2, <4>1, <5>1
      <4> QED BY <4>2, <4>3
    <3> HIDE DEF h
    <3>6. h \in Start(n + 1)
      <4>1. (n + 1) - 1 = n
        OBVIOUS
      <4> QED BY <3>3, <3>4, <3>5, <4>1
    <3> QED BY <3>6
  <2> HIDE DEF Begun
  <2> QED BY <2>1, <2>2, Induction
<1>2. Nat \subseteq Same
  <2>1. 0 \in Same
    OBVIOUS
  <2>2. ASSUME NEW k \in Nat, k \in Same PROVE k + 1 \in Same
    <3>1. ASSUME NEW n \in Nat, NEW m \in Nat, k + 1 <= n, k + 1 <= m,
                 NEW g \in Start(n), NEW h \in Start(m)
          PROVE  g[k + 1] = h[k + 1]
      <4>1. g[k] = h[k]
        <5>1. k <= n /\ k <= m
          BY <3>1
        <5> HIDE DEF Start
        <5> QED BY <2>2, <3>1, <5>1
      <4>2. g[k + 1] = step[<<k, g[k]>>]
        <5>1. k \in 0..(n - 1)
          BY <3>1
        <5> QED BY <5>1
      <4>3. h[k + 1] = step[<<k, h[k]>>]
        <5>1. k \in 0..(m - 1)
          BY <3>1
        <5> QED BY <5>1
      <4> QED BY <4>1, <4>2, <4>3
    <3> HIDE DEF Start
    <3> QED BY <3>1
  <2> HIDE DEF Same
  <2> QED BY <2>1, <2>2, Induction
<1>3. ASSUME NEW n \in Nat PROVE Chosen(n) \in Start(n)
  <2>1. Start(n) # {}
    BY <1>1
  <2> HIDE DEF Start
  <2> QED BY <2>1
<1> HIDE DEF Chosen
<1>4. f \in [Nat -> S]
  <2> SUFFICES ASSUME NEW n \in Nat PROVE Chosen(n)[n] \in S
    OBVIOUS
  <2>1. Chosen(n) \in [0..n -> S] /\ n \in 0..n
    BY <1>3
  <2> QED BY <2>1
<1>5. f[0] = a
  BY <1>3
<1>6. ASSUME NEW n \in Nat PROVE f[n + 1] = step[<<n, f[n]>>]
  <2>1. Chosen(n + 1)[n + 1] = step[<<n, Chosen(n + 1)[n]>>]
    <3>1. Chosen(n + 1) \in Start(n + 1) /\ n \in 0..((n + 1) - 1)
      BY <1>3
    <3> QED BY <3>1
  <2>2. Chosen(n + 1)[n] = Chosen(n)[n]
    <3>1. n \in Same /\ n <= n /\ n <= n + 1 /\ n + 1 \in Nat
      <4> HIDE DEF Same
      <4> QED BY <1>2
    <3>2. Chosen(n) \in Start(n) /\ Chosen(n + 1) \in Start(n + 1)
      BY <1>3
    <3> HIDE DEF Start
    <3> QED BY <3>1, <3>2
  <2> QED BY <2>1, <2>2
<1>7. IsIteration(f, S, a, step)
  BY <1>4, <1>5, <1>6 DEF IsIteration
<1> QED BY <1>7

\* f follows nx from every element to the first one in stop.
Follows(f, X, stop, nx) == f = [x \in X |-> IF x \in stop THEN x ELSE f[nx[x]]]

\* A loop that moves to elements of ever smaller rank until it is to stop ends.
LEMMA TailRecursion ==
  ASSUME NEW X, NEW stop, NEW nx \in [X -> X], NEW rank \in [X -> Nat],
         \A x \in X : x \notin stop => rank[nx[x]] < rank[x]
  PROVE  \E f \in [X -> X] : Follows(f, X, stop, nx)
<1> DEFINE Step(g) == [x \in X |-> IF x \in stop THEN x ELSE g[nx[x]]]
           step == [p \in Nat \X [X -> X] |-> Step(p[2])]
           start == [x \in X |-> x]
<1>1. step \in [Nat \X [X -> X] -> [X -> X]] /\ start \in [X -> X]
  <2>1. ASSUME NEW p \in Nat \X [X -> X] PROVE Step(p[2]) \in [X -> X]
    OBVIOUS
  <2> HIDE DEF Step
  <2>2. step \in [Nat \X [X -> X] -> [X -> X]]
    BY <2>1
  <2> QED BY <2>2
<1>2. PICK F : IsIteration(F, [X -> X], start, step)
  <2> HIDE DEF step, start
  <2> QED BY <1>1, Recursion
<1>3. F \in [Nat -> [X -> X]] /\ \A n \in Nat : F[n + 1] = Step(F[n])
  <2>1. F \in [Nat -> [X -> X]] /\ \A n \in Nat : F[n + 1] = step[<<n, F[n]>>]
    BY <1>2 DEF IsIteration
  <2>2. ASSUME NEW n \in Nat PROVE step[<<n, F[n]>>] = Step(F[n])
    <3>1. <<n, F[n]>> \in Nat \X [X -> X]
      BY <2>1
    <3> HIDE DEF Step
    <3> QED BY <3>1
  <2> HIDE DEF step, Step
  <2> QED BY <2>1, <2>2
<1>4. \A n \in Nat : \A x \in X : F[n + 1][x] = IF x \in stop THEN x ELSE F[n][nx[x]]
  BY <1>3, ZenonT(60)
<1> DEFINE G == {n \in Nat : \A x \in X : rank[x] < n => F[n + 1][x] = F[n][x]}
<1>5. Nat \subseteq G
  <2>1. 0 \in G
    OBVIOUS
  <2>2. ASSUME NEW n \in Nat, n \in G PROVE n + 1 \in G
    <3>1. ASSUME NEW x \in X, rank[x] < n + 1 PROVE F[(n + 1) + 1][x] = F[n + 1][x]
      <4>1. x \notin stop => rank[nx[x]] < n /\ nx[x] \in X
        <5>1. rank[x] \in Nat /\ nx[x] \in X /\ rank[nx[x]] \in Nat
          OBVIOUS
        <5> QED BY <3>1, <5>1
      <4>2. F[(n + 1) + 1][x] = (IF x \in stop THEN x ELSE F[n + 1][nx[x]])
        <5>1. n + 1 \in Nat
          OBVIOUS
        <5> QED BY <1>4, <5>1
      <4>3. F[n + 1][x] = IF x \in stop THEN x ELSE F[n][nx[x]]
        BY <1>4
      <4>4. x \notin stop => F[n + 1][nx[x]] = F[n][nx[x]]
        BY <2>2, <4>1
      <4> QED BY <4>2, <4>3, <4>4
    <3>2. n + 1 \in Nat
      OBVIOUS
    <3> QED BY <3>1, <3>2
  <2> HIDE DEF G
  <2> QED BY <2>1, <2>2, Induction
<1> DEFINE H == {m \in Nat : \A x \in X : \A n \in Nat : rank[x] < n => F[n + m][x] = F[n][x]}
<1>6. Nat \subseteq H
  <2>1. 0 \in H
    OBVIOUS
  <2>2. ASSUME NEW m \in Nat, m \in H PROVE m + 1 \in H
    <3>1. ASSUME NEW x \in X, NEW n \in Nat, rank[x] < n PROVE F[n + (m + 1)][x] = F[n][x]
      <4>1. n + m \in G /\ rank[x] < n + m /\ n + (m + 1) = (n + m) + 1
        <5>1. n + m \in Nat /\ rank[x] \in Nat
          OBVIOUS
        <5>2. n + m \in G
          <6> HIDE DEF G
          <6> QED BY <1>5, <5>1
        <5> QED BY <3>1, <5>1, <5>2
      <4>2. F[(n + m) + 1][x] = F[n + m][x]
        BY <4>1
      <4> QED BY <2>2, <3>1, <4>1, <4>2
    <3>2. m + 1 \in Nat
      OBVIOUS
    <3> QED BY <3>1, <3>2
  <2> HIDE DEF H
  <2> QED BY <2>1, <2>2, Induction
<1> DEFINE f == [x \in X |-> F[rank[x] + 1][x]]
<1>7. f \in [X -> X]
  BY <1>3
<1>8. ASSUME NEW x \in X PROVE f[x] = IF x \in stop THEN x ELSE f[nx[x]]
  <2>1. rank[x] \in Nat /\ nx[x] \in X /\ rank[nx[x]] \in Nat
    OBVIOUS
  <2>2. f[x] = IF x \in stop THEN x ELSE F[rank[x]][nx[x]]
    BY <1>4, <2>1
  <2>3. ASSUME x \notin stop PROVE F[rank[x]][nx[x]] = f[nx[x]]
    <3> DEFINE n == rank[nx[x]] + 1
               m == rank[x] - n
    <3>1. n \in Nat /\ m \in Nat /\ n + m = rank[x] /\ rank[nx[x]] < n
      BY <2>1, <2>3
    <3>2. m \in H
      <4> HIDE DEF H
      <4> QED BY <1>6, <3>1
    <3>3. F[n + m][nx[x]] = F[n][nx[x]]
      <4> HIDE DEF n, m
      <4> QED BY <2>1, <3>1, <3>2
    <3> QED BY <2>1, <3>1, <3>3
  <2> HIDE DEF f
  <2> QED BY <2>2, <2>3
<1>9. f = [x \in X |-> IF x \in stop THEN x ELSE f[nx[x]]]
  BY <1>7, <1>8
<1> HIDE DEF f
<1> QED BY <1>7, <1>9 DEF Follows

-----------------------------------------------------------------------------
(* Keys and nodes.                                                         *)

\* No key can be taken for nil, for the end of a traversal or for a dead key.
LEMMA KeysDiffer ==
  ASSUME NEW k \in Keys
  PROVE  /\ k # Nil /\ k # Off /\ Live(k) = k /\ Live(Dead(k)) = k /\ Dead(k) # Nil
         /\ \A j \in Keys : k # Dead(j) /\ (Dead(j) = Dead(k) => j = k)
<1>1. k = <<k[1], k[2]>> /\ k[1] # "nil" /\ k[1] # "dead"
  BY LuaTableAssumption
<1>2. k # Nil /\ k # Off
  BY <1>1 DEF Nil, Off
<1> QED BY <1>1, <1>2 DEF Live, Dead, Nil

Positions(h) == 1..sizenode(h)

IsNode(n) == n = [key |-> n.key, val |-> n.val, next |-> n.next]

\* The fields of a table.
Shape(h) ==
  /\ h = [array |-> h.array, node |-> h.node, dummy |-> h.dummy, lastfree |-> h.lastfree]
  /\ sizenode(h) \in Nat \ {0} /\ h.node = [x \in Positions(h) |-> h.node[x]]
  /\ Len(h.array) \in Nat /\ h.array = [i \in 1..Len(h.array) |-> h.array[i]]
  /\ h.dummy \in BOOLEAN /\ h.lastfree \in 1..(sizenode(h) + 1)
  /\ \A x \in Positions(h) : IsNode(h.node[x]) /\ h.node[x].next \in 0..sizenode(h)

\* A function on the first n numbers is a sequence of length n.
LEMMA LengthOf ==
  ASSUME NEW n \in Nat, NEW s, s = [x \in 1..n |-> s[x]]
  PROVE  Len(s) = n /\ DOMAIN s = 1..n
<1> DEFINE S == {s[x] : x \in 1..n}
<1>1. s \in [1..n -> S]
  BY Zenon
<1>2. s \in Seq(S)
  <2> HIDE DEF S
  <2> QED BY <1>1
<1> HIDE DEF S
<1> QED BY <1>1, <1>2

\* The same table with other nodes.
WithNodes(h, f, last) == [array |-> h.array, node |-> f, dummy |-> h.dummy, lastfree |-> last]

\* r has the nodes f, and otherwise is h.
Renewed(r, h, f, last) ==
  /\ Shape(r) /\ r.array = h.array /\ r.dummy = h.dummy /\ r.lastfree = last /\ r.node = f
  /\ sizenode(r) = sizenode(h)

\* Other nodes of the same number make a table again.
LEMMA NodesRenewed ==
  ASSUME NEW h, Shape(h), NEW f, f = [x \in Positions(h) |-> f[x]],
         \A x \in Positions(h) : IsNode(f[x]) /\ f[x].next \in 0..sizenode(h),
         NEW last \in 1..(sizenode(h) + 1)
  PROVE  Renewed(WithNodes(h, f, last), h, f, last)
<1> DEFINE r == WithNodes(h, f, last)
<1>1. /\ r.array = h.array /\ r.dummy = h.dummy /\ r.lastfree = last /\ r.node = f
      /\ r = [array |-> r.array, node |-> r.node, dummy |-> r.dummy, lastfree |-> r.lastfree]
  BY DEF WithNodes
<1>2. sizenode(h) \in Nat \ {0} /\ Len(f) = sizenode(h)
  BY LengthOf DEF Shape, Positions
<1>3. sizenode(r) = sizenode(h) /\ Positions(r) = Positions(h)
  BY <1>1, <1>2 DEF sizenode, Positions
<1> HIDE DEF r
<1>4. Shape(r)
  BY <1>1, <1>3 DEF Shape
<1> QED BY <1>1, <1>3, <1>4 DEF Renewed, r

\* The node n with another key and value.
Filled(h, n, k, v) ==
  [x \in Positions(h) |-> IF x = n THEN [key |-> k, val |-> v, next |-> h.node[n].next] ELSE h.node[x]]

\* Put stores a key and a value.
LEMMA PutFills ==
  ASSUME NEW h, Shape(h), NEW n \in Positions(h), NEW k, NEW v
  PROVE  /\ Put(h, n, k, v) = WithNodes(h, Filled(h, n, k, v), h.lastfree)
         /\ Renewed(Put(h, n, k, v), h, Filled(h, n, k, v), h.lastfree)
<1> DEFINE f == Filled(h, n, k, v)
<1>1. PICK a, b, c, d : h = [array |-> a, node |-> b, dummy |-> c, lastfree |-> d]
  BY DEF Shape
<1>2. h.array = a /\ h.node = b /\ h.dummy = c /\ h.lastfree = d /\ n \in DOMAIN b
  BY <1>1 DEF Shape
<1> DEFINE new == [key |-> k, val |-> v, next |-> b[n].next]
<1>3. Put(h, n, k, v) = [h EXCEPT !.node = [b EXCEPT ![n] = new]]
  BY <1>2 DEF Put
<1>4. Put(h, n, k, v) = [array |-> a, node |-> [b EXCEPT ![n] = new], dummy |-> c, lastfree |-> d]
  <2> HIDE DEF new
  <2> QED BY <1>1, <1>3
<1>5. [b EXCEPT ![n] = new] = f
  BY <1>2 DEF Filled, Shape
<1>6. Put(h, n, k, v) = WithNodes(h, f, h.lastfree)
  BY <1>2, <1>4, <1>5 DEF WithNodes
<1>7. f = [x \in Positions(h) |-> f[x]] /\ h.lastfree \in 1..(sizenode(h) + 1)
  BY DEF Filled, Shape
<1>8. ASSUME NEW x \in Positions(h) PROVE IsNode(f[x]) /\ f[x].next \in 0..sizenode(h)
  BY DEF Filled, IsNode, Shape
<1> HIDE DEF f
<1>9. Renewed(WithNodes(h, f, h.lastfree), h, f, h.lastfree)
  BY <1>7, <1>8, NodesRenewed
<1> QED BY <1>6, <1>9 DEF f

\* One node changes.
LEMMA NodeChanged ==
  ASSUME NEW h, Shape(h), NEW n \in Positions(h), NEW w, IsNode(w), w.next \in 0..sizenode(h)
  PROVE  /\ [h EXCEPT !.node = [h.node EXCEPT ![n] = w]]
              = WithNodes(h, [x \in Positions(h) |-> IF x = n THEN w ELSE h.node[x]], h.lastfree)
         /\ Renewed([h EXCEPT !.node = [h.node EXCEPT ![n] = w]],
                    h, [x \in Positions(h) |-> IF x = n THEN w ELSE h.node[x]], h.lastfree)
<1> DEFINE f == [x \in Positions(h) |-> IF x = n THEN w ELSE h.node[x]]
<1>1. PICK a, b, c, d : h = [array |-> a, node |-> b, dummy |-> c, lastfree |-> d]
  BY DEF Shape
<1>2. h.array = a /\ h.node = b /\ h.dummy = c /\ h.lastfree = d /\ n \in DOMAIN b
  BY <1>1 DEF Shape
<1>3. [h EXCEPT !.node = [b EXCEPT ![n] = w]] = [array |-> a, node |-> [b EXCEPT ![n] = w], dummy |-> c, lastfree |-> d]
  BY <1>1
<1>4. [b EXCEPT ![n] = w] = f
  BY <1>2 DEF Shape
<1>5. [h EXCEPT !.node = [b EXCEPT ![n] = w]] = WithNodes(h, f, h.lastfree)
  BY <1>2, <1>3, <1>4 DEF WithNodes
<1>6. f = [x \in Positions(h) |-> f[x]] /\ h.lastfree \in 1..(sizenode(h) + 1)
  BY DEF Shape
<1>7. ASSUME NEW x \in Positions(h) PROVE IsNode(f[x]) /\ f[x].next \in 0..sizenode(h)
  BY DEF Shape
<1> HIDE DEF f
<1>8. Renewed(WithNodes(h, f, h.lastfree), h, f, h.lastfree)
  BY <1>6, <1>7, NodesRenewed
<1> QED BY <1>2, <1>5, <1>8 DEF f

\* The node n with another successor.
Linked(h, n, y) ==
  [x \in Positions(h) |-> IF x = n THEN [key |-> h.node[n].key, val |-> h.node[n].val, next |-> y] ELSE h.node[x]]

\* A node with another successor keeps its other fields.
LEMMA NextChanged ==
  ASSUME NEW w, IsNode(w), NEW y
  PROVE  [w EXCEPT !.next = y] = [key |-> w.key, val |-> w.val, next |-> y]
<1>1. PICK a, b, c : w = [key |-> a, val |-> b, next |-> c]
  BY DEF IsNode
<1> QED BY <1>1

\* Link sets the successor.
LEMMA LinkSets ==
  ASSUME NEW h, Shape(h), NEW n \in Positions(h), NEW y \in 0..sizenode(h)
  PROVE  Renewed(Link(h, n, y), h, Linked(h, n, y), h.lastfree)
<1> DEFINE w == [key |-> h.node[n].key, val |-> h.node[n].val, next |-> y]
<1>1. IsNode(w) /\ w.next \in 0..sizenode(h)
  BY DEF IsNode
<1>2. [h.node[n] EXCEPT !.next = y] = w
  <2>1. IsNode(h.node[n])
    BY DEF Shape
  <2> QED BY <2>1, NextChanged
<1>3. Link(h, n, y) = [h EXCEPT !.node = [h.node EXCEPT ![n] = w]]
  BY <1>2 DEF Link
<1> QED BY <1>1, <1>3, NodeChanged DEF Linked

\* The node n behind m, with the key and value of a new entry.
Inserted(h, m, n, k, v) ==
  [x \in Positions(h) |->
     IF x = n THEN [key |-> k, val |-> v, next |-> h.node[m].next]
     ELSE IF x = m THEN [key |-> h.node[m].key, val |-> h.node[m].val, next |-> n] ELSE h.node[x]]

\* The node m moved to n, behind p, to make room for a new entry.
Displaced(h, p, m, n, k, v) ==
  [x \in Positions(h) |->
     IF x = m THEN [key |-> k, val |-> v, next |-> 0]
     ELSE IF x = n THEN h.node[m]
     ELSE IF x = p THEN [key |-> h.node[p].key, val |-> h.node[p].val, next |-> n] ELSE h.node[x]]

\* A free place is taken: lastfree moves down to it.
LEMMA LastFreeSet ==
  ASSUME NEW h, Shape(h), NEW n \in Positions(h)
  PROVE  Renewed([h EXCEPT !.lastfree = n], h, h.node, n)
<1>1. [h EXCEPT !.lastfree = n] = WithNodes(h, h.node, n)
  <2>1. PICK a, b, c, d : h = [array |-> a, node |-> b, dummy |-> c, lastfree |-> d]
    BY DEF Shape
  <2> QED BY <2>1 DEF WithNodes
<1>2. n \in 1..(sizenode(h) + 1) /\ h.node = [x \in Positions(h) |-> h.node[x]]
  BY DEF Shape, Positions
<1>3. \A x \in Positions(h) : IsNode(h.node[x]) /\ h.node[x].next \in 0..sizenode(h)
  BY DEF Shape
<1> QED BY <1>1, <1>2, <1>3, NodesRenewed

\* newkey, when the colliding node is in its main position.
LEMMA NewKeyInserts ==
  ASSUME NEW h, Shape(h), NEW k, NEW v, NEW n \in Positions(h), NEW m \in Positions(h),
         m = mainposition(h, k), n # m, mainposition(h, Live(h.node[m].key)) = m
  PROVE  Renewed(newkey(h, k, v, n), h, Inserted(h, m, n, k, v), n)
<1> DEFINE h1 == [h EXCEPT !.lastfree = n]
           h2 == Link(h1, n, h.node[m].next)
           h3 == Link(h2, m, n)
           h4 == Put(h3, n, k, v)
<1>1. newkey(h, k, v, n) = h4
  BY DEF newkey
<1> HIDE DEF h1
<1>2. Renewed(h1, h, h.node, n)
  BY LastFreeSet DEF h1
<1>3. Shape(h1) /\ Positions(h1) = Positions(h) /\ h.node[m].next \in 0..sizenode(h1) /\ n \in 0..sizenode(h)
  BY <1>2 DEF Renewed, Positions, Shape
<1> HIDE DEF h2
<1>4. Renewed(h2, h1, Linked(h1, n, h.node[m].next), h1.lastfree)
  BY <1>3, LinkSets DEF h2
<1>5. Shape(h2) /\ Positions(h2) = Positions(h) /\ n \in 0..sizenode(h2)
  BY <1>2, <1>3, <1>4 DEF Renewed, Positions
<1> HIDE DEF h3
<1>6. Renewed(h3, h2, Linked(h2, m, n), h2.lastfree)
  BY <1>5, LinkSets DEF h3
<1>7. Shape(h3) /\ Positions(h3) = Positions(h)
  BY <1>5, <1>6 DEF Renewed, Positions
<1> HIDE DEF h4
<1>8. Renewed(h4, h3, Filled(h3, n, k, v), h3.lastfree)
  BY <1>7, PutFills DEF h4
<1>9. h2.node = [x \in Positions(h) |-> IF x = n THEN [key |-> h.node[n].key, val |-> h.node[n].val, next |-> h.node[m].next] ELSE h.node[x]]
  BY <1>2, <1>3, <1>4 DEF Renewed, Linked
<1>10. h3.node = [x \in Positions(h) |-> IF x = m THEN [key |-> h.node[m].key, val |-> h.node[m].val, next |-> n] ELSE h2.node[x]]
  BY <1>5, <1>6, <1>9 DEF Renewed, Linked
<1>11. h3.node[n].next = h.node[m].next
  BY <1>9, <1>10
<1>12. h4.node = [x \in Positions(h) |-> IF x = n THEN [key |-> k, val |-> v, next |-> h.node[m].next] ELSE h3.node[x]]
  BY <1>7, <1>8, <1>11 DEF Renewed, Filled
<1>13. \A x \in Positions(h) :
         h4.node[x] = IF x = n THEN [key |-> k, val |-> v, next |-> h.node[m].next]
                      ELSE IF x = m THEN [key |-> h.node[m].key, val |-> h.node[m].val, next |-> n] ELSE h.node[x]
  <2> SUFFICES ASSUME NEW x \in Positions(h)
               PROVE  h4.node[x] = IF x = n THEN [key |-> k, val |-> v, next |-> h.node[m].next]
                                   ELSE IF x = m THEN [key |-> h.node[m].key, val |-> h.node[m].val, next |-> n] ELSE h.node[x]
    OBVIOUS
  <2>1. CASE x = n
    BY <1>12, <2>1
  <2>2. CASE x # n /\ x = m
    BY <1>10, <1>12, <2>2
  <2>3. CASE x # n /\ x # m
    BY <1>9, <1>10, <1>12, <2>3
  <2> QED BY <2>1, <2>2, <2>3
<1>14. h4.node = Inserted(h, m, n, k, v)
  BY <1>12, <1>13 DEF Inserted
<1> QED BY <1>1, <1>2, <1>4, <1>6, <1>8, <1>14 DEF Renewed

\* newkey, when the colliding node is out of its main position; p is the node before it.
LEMMA NewKeyDisplaces ==
  ASSUME NEW h, Shape(h), NEW k, NEW v, NEW n \in Positions(h), NEW m \in Positions(h), NEW p \in Positions(h),
         m = mainposition(h, k), n # m, mainposition(h, Live(h.node[m].key)) # m,
         p = Previous([h EXCEPT !.lastfree = n], m), p # m, p # n
  PROVE  Renewed(newkey(h, k, v, n), h, Displaced(h, p, m, n, k, v), n)
<1> DEFINE h1 == [h EXCEPT !.lastfree = n]
           h2 == Link(h1, p, n)
           h3 == [h2 EXCEPT !.node = [h2.node EXCEPT ![n] = h1.node[m]]]
           h4 == Link(h3, m, 0)
           h5 == Put(h4, m, k, v)
<1>1. newkey(h, k, v, n) = h5
  BY DEF newkey, MoveAway
<1> HIDE DEF h1
<1>2. Renewed(h1, h, h.node, n)
  BY LastFreeSet DEF h1
<1>3. Shape(h1) /\ Positions(h1) = Positions(h) /\ n \in 0..sizenode(h1)
  BY <1>2 DEF Renewed, Positions, Shape
<1> HIDE DEF h2
<1>4. Renewed(h2, h1, Linked(h1, p, n), h1.lastfree)
  BY <1>3, LinkSets DEF h2
<1>5. Shape(h2) /\ Positions(h2) = Positions(h) /\ IsNode(h1.node[m]) /\ h1.node[m].next \in 0..sizenode(h2)
  BY <1>2, <1>3, <1>4 DEF Renewed, Positions, Shape
<1> HIDE DEF h3
<1>6. Renewed(h3, h2, [x \in Positions(h2) |-> IF x = n THEN h1.node[m] ELSE h2.node[x]], h2.lastfree)
  BY <1>5, NodeChanged, SMTT(30) DEF h3
<1>7. Shape(h3) /\ Positions(h3) = Positions(h) /\ 0 \in 0..sizenode(h3)
  BY <1>5, <1>6 DEF Renewed, Positions, Shape
<1> HIDE DEF h4
<1>8. Renewed(h4, h3, Linked(h3, m, 0), h3.lastfree)
  BY <1>7, LinkSets DEF h4
<1>9. Shape(h4) /\ Positions(h4) = Positions(h)
  BY <1>7, <1>8 DEF Renewed, Positions
<1> HIDE DEF h5
<1>10. Renewed(h5, h4, Filled(h4, m, k, v), h4.lastfree)
  BY <1>9, PutFills DEF h5
<1>11. h2.node = [x \in Positions(h) |-> IF x = p THEN [key |-> h.node[p].key, val |-> h.node[p].val, next |-> n] ELSE h.node[x]]
  BY <1>2, <1>3, <1>4 DEF Renewed, Linked
<1>12. h3.node = [x \in Positions(h) |-> IF x = n THEN h.node[m] ELSE h2.node[x]]
  BY <1>2, <1>5, <1>6 DEF Renewed
<1>13. h4.node[m].next = 0 /\ \A x \in Positions(h) : x # m => h4.node[x] = h3.node[x]
  BY <1>7, <1>8 DEF Renewed, Linked
<1>14. h5.node = [x \in Positions(h) |-> IF x = m THEN [key |-> k, val |-> v, next |-> 0] ELSE h4.node[x]]
  BY <1>9, <1>10, <1>13 DEF Renewed, Filled
<1>15. \A x \in Positions(h) :
         h5.node[x] = IF x = m THEN [key |-> k, val |-> v, next |-> 0]
                      ELSE IF x = n THEN h.node[m]
                      ELSE IF x = p THEN [key |-> h.node[p].key, val |-> h.node[p].val, next |-> n] ELSE h.node[x]
  <2> SUFFICES ASSUME NEW x \in Positions(h)
               PROVE  h5.node[x] = IF x = m THEN [key |-> k, val |-> v, next |-> 0]
                                   ELSE IF x = n THEN h.node[m]
                                   ELSE IF x = p THEN [key |-> h.node[p].key, val |-> h.node[p].val, next |-> n] ELSE h.node[x]
    OBVIOUS
  <2>1. CASE x = m
    BY <1>14, <2>1
  <2>2. CASE x # m /\ x = n
    BY <1>12, <1>13, <1>14, <2>2
  <2>3. CASE x # m /\ x # n
    BY <1>11, <1>12, <1>13, <1>14, <2>3
  <2> QED BY <2>1, <2>2, <2>3
<1>16. h5.node = Displaced(h, p, m, n, k, v)
  BY <1>14, <1>15 DEF Displaced
<1> QED BY <1>1, <1>2, <1>4, <1>6, <1>8, <1>10, <1>16 DEF Renewed

-----------------------------------------------------------------------------
(* Chains.                                                                 *)

\* The node where the search for the key of x begins.
main(h, x) == mainposition(h, Live(h.node[x].key))

\* What is hashed to a number has a main position.
LEMMA HashPosition ==
  ASSUME NEW h, sizenode(h) \in Nat \ {0}, NEW k, Hash(k) \in Nat
  PROVE  mainposition(h, k) \in Positions(h)
<1> DEFINE N == sizenode(h)
<1>1. Hash(k) \in Nat /\ N \in Nat \ {0}
  OBVIOUS
<1>2. Odd(N - 1) \in Nat \ {0} /\ Odd(N - 1) <= N
  <2>1. N - 1 \in Nat /\ (N - 1) % 2 \in {0, 1} /\ (N = 1 => (N - 1) % 2 = 0)
    BY <1>1
  <2> QED BY <1>1, <2>1 DEF Odd
<1>3. \A d \in Nat \ {0} : Hash(k) % d \in 0..(d - 1)
  BY <1>1
<1> HIDE DEF N
<1>4. Hash(k) % N \in 0..(N - 1) /\ Hash(k) % Odd(N - 1) \in 0..(N - 1)
  <2>1. Hash(k) % N \in 0..(N - 1) /\ Hash(k) % Odd(N - 1) \in 0..(Odd(N - 1) - 1)
    BY <1>1, <1>2, <1>3
  <2> QED BY <1>1, <1>2, <2>1
<1>5. mainposition(h, k) = 1 + (Hash(k) % N) \/ mainposition(h, k) = 1 + (Hash(k) % Odd(N - 1))
  BY DEF mainposition, N
<1> QED BY <1>1, <1>4, <1>5 DEF Positions, N

\* Every key has a main position.
LEMMA MainPosition ==
  ASSUME NEW h, sizenode(h) \in Nat \ {0}, NEW k \in Keys
  PROVE  mainposition(h, k) \in Positions(h)
BY HashPosition, LuaTableAssumption

\* The nodes lie on lines; along a line the successor is the next node below.
Linear(h, line, height) ==
  /\ line \in [Positions(h) -> Positions(h)] /\ height \in [Positions(h) -> Nat]
  /\ \A x, y \in Positions(h) : line[x] = line[y] /\ height[x] = height[y] => x = y
  /\ \A x \in Positions(h) : h.node[x].next = 0 =>
       \A z \in Positions(h) : line[z] = line[x] => height[z] >= height[x]
  /\ \A x \in Positions(h) : h.node[x].next # 0 =>
       /\ line[h.node[x].next] = line[x] /\ height[h.node[x].next] < height[x]
       /\ \A z \in Positions(h) : line[z] = line[x] => height[z] <= height[h.node[x].next] \/ height[z] >= height[x]

\* f follows the chains down to the first node in stop.
Walks(h, f, stop) == f = [n \in 0..sizenode(h) |-> IF n = 0 \/ n \in stop THEN n ELSE f[h.node[n].next]]

\* A walk along a chain ends.
LEMMA WalkExists ==
  ASSUME NEW h, Shape(h), NEW line, NEW height, Linear(h, line, height), NEW stop
  PROVE  \E f \in [0..sizenode(h) -> 0..sizenode(h)] : Walks(h, f, stop)
<1> DEFINE X == 0..sizenode(h)
           end == {n \in X : n = 0 \/ n \in stop}
           nx == [n \in X |-> IF n = 0 THEN 0 ELSE h.node[n].next]
           rank == [n \in X |-> IF n = 0 THEN 0 ELSE height[n] + 1]
<1>1. \A n \in X : n # 0 => n \in Positions(h) /\ h.node[n].next \in X /\ height[n] \in Nat
  BY DEF Shape, Positions, Linear
<1>2. nx \in [X -> X] /\ rank \in [X -> Nat]
  <2>1. 0 \in X
    BY DEF Shape
  <2>2. ASSUME NEW n \in X PROVE (IF n = 0 THEN 0 ELSE h.node[n].next) \in X /\ (IF n = 0 THEN 0 ELSE height[n] + 1) \in Nat
    <3>1. n # 0 => h.node[n].next \in X /\ height[n] + 1 \in Nat
      BY <1>1
    <3> HIDE DEF X
    <3> QED BY <2>1, <3>1
  <2> HIDE DEF X
  <2> QED BY <2>2
<1>3. ASSUME NEW n \in X, n \notin end PROVE rank[nx[n]] < rank[n]
  <2>1. n # 0 /\ nx[n] = h.node[n].next /\ rank[n] = height[n] + 1
    BY <1>3
  <2>2. CASE h.node[n].next = 0
    BY <1>1, <2>1, <2>2
  <2>3. CASE h.node[n].next # 0
    <3>1. height[h.node[n].next] < height[n] /\ h.node[n].next \in X
      BY <1>1, <2>1, <2>3 DEF Linear
    <3>2. rank[nx[n]] = height[h.node[n].next] + 1
      BY <2>1, <2>3, <3>1
    <3> QED BY <1>1, <2>1, <2>3, <3>1, <3>2
  <2> QED BY <2>2, <2>3
<1>4. PICK f \in [X -> X] : Follows(f, X, end, nx)
  <2> HIDE DEF X, end, nx, rank
  <2> QED BY <1>2, <1>3, TailRecursion
<1>5. f = [n \in X |-> IF n \in end THEN n ELSE f[nx[n]]]
  BY <1>4 DEF Follows
<1>6. \A n \in X : f[n] = IF n = 0 \/ n \in stop THEN n ELSE f[h.node[n].next]
  BY <1>5
<1>7. Walks(h, f, stop)
  BY <1>4, <1>6 DEF Walks
<1> QED BY <1>7

\* What a walk that begins at n and ends at r has passed.
FirstBelow(h, line, height, stop, n, r) ==
  IF r = 0 THEN \A z \in Positions(h) : line[z] = line[n] /\ height[z] <= height[n] => z \notin stop
  ELSE /\ r \in Positions(h) /\ r \in stop /\ line[r] = line[n] /\ height[r] <= height[n]
       /\ \A z \in Positions(h) : line[z] = line[n] /\ height[z] <= height[n] /\ z \in stop => height[z] <= height[r]

\* A walk ends at the first node below that is in stop, or at the end of the line.
LEMMA WalkFinds ==
  ASSUME NEW h, Shape(h), NEW line, NEW height, Linear(h, line, height), NEW stop, NEW f, Walks(h, f, stop)
  PROVE  \A n \in Positions(h) : FirstBelow(h, line, height, stop, n, f[n])
<1> DEFINE G == {m \in Nat : \A n \in Positions(h) : height[n] < m => FirstBelow(h, line, height, stop, n, f[n])}
<1>1. 0 \in G
  BY DEF Linear
<1>2. ASSUME NEW m \in Nat, m \in G PROVE m + 1 \in G
  <2>1. ASSUME NEW n \in Positions(h), height[n] < m + 1 PROVE FirstBelow(h, line, height, stop, n, f[n])
    <3>1. n \in 0..sizenode(h) /\ n # 0 /\ height[n] \in Nat /\ \A z \in Positions(h) : height[z] \in Nat
      BY DEF Positions, Linear
    <3>2. f[n] = IF n \in stop THEN n ELSE f[h.node[n].next]
      BY <3>1 DEF Walks
    <3>3. CASE n \in stop
      BY <3>1, <3>2, <3>3 DEF FirstBelow
    <3>4. CASE n \notin stop /\ h.node[n].next = 0
      <4>1. f[n] = 0
        BY <3>2, <3>4 DEF Walks, Shape
      <4>2. ASSUME NEW z \in Positions(h), line[z] = line[n], height[z] <= height[n] PROVE z \notin stop
        <5>1. height[z] >= height[n]
          BY <3>4, <4>2 DEF Linear
        <5>2. height[z] = height[n]
          BY <3>1, <4>2, <5>1
        <5>3. z = n
          BY <4>2, <5>2 DEF Linear
        <5> QED BY <3>4, <5>3
      <4> QED BY <4>1, <4>2 DEF FirstBelow
    <3>5. CASE n \notin stop /\ h.node[n].next # 0
      <4> DEFINE y == h.node[n].next
      <4>1. y \in Positions(h) /\ line[y] = line[n] /\ height[y] < height[n] /\ f[n] = f[y]
        BY <3>2, <3>5 DEF Linear, Shape, Positions
      <4>2. FirstBelow(h, line, height, stop, y, f[y])
        <5>1. height[y] \in Nat /\ height[n] \in Nat
          BY <3>1, <4>1
        <5> HIDE DEF y
        <5>2. height[y] < m
          BY <2>1, <4>1, <5>1
        <5> QED BY <1>2, <4>1, <5>2
      <4>3. \A z \in Positions(h) : line[z] = line[n] /\ height[z] <= height[n] /\ z \in stop => height[z] <= height[y]
        <5> SUFFICES ASSUME NEW z \in Positions(h), line[z] = line[n], height[z] <= height[n], z \in stop, ~(height[z] <= height[y])
                     PROVE  FALSE
          OBVIOUS
        <5>1. height[z] >= height[n]
          BY <3>5 DEF Linear
        <5>2. height[z] = height[n]
          <6>1. height[z] \in Nat /\ height[n] \in Nat /\ height[z] <= height[n]
            BY <3>1
          <6> QED BY <5>1, <6>1
        <5>3. z = n
          BY <5>2 DEF Linear
        <5> QED BY <3>5, <5>3
      <4> HIDE DEF y
      <4>4. CASE f[n] = 0
        BY <3>1, <4>1, <4>2, <4>3, <4>4 DEF FirstBelow
      <4>5. CASE f[n] # 0
        <5>1. PICK r : r = f[n]
          OBVIOUS
        <5>2. /\ r \in Positions(h) /\ r \in stop /\ line[r] = line[y] /\ height[r] <= height[y]
              /\ \A z \in Positions(h) : line[z] = line[y] /\ height[z] <= height[y] /\ z \in stop => height[z] <= height[r]
          BY <4>1, <4>2, <4>5, <5>1 DEF FirstBelow
        <5>3. height[r] <= height[n] /\ line[r] = line[n]
          BY <3>1, <4>1, <5>2
        <5>4. \A z \in Positions(h) : line[z] = line[n] /\ height[z] <= height[n] /\ z \in stop => height[z] <= height[r]
          BY <4>1, <4>3, <5>2
        <5> QED BY <4>5, <5>1, <5>2, <5>3, <5>4 DEF FirstBelow
      <4> QED BY <4>4, <4>5
    <3> QED BY <3>3, <3>4, <3>5
  <2>2. m + 1 \in Nat
    OBVIOUS
  <2> QED BY <2>1, <2>2
<1>3. Nat \subseteq G
  <2> HIDE DEF G
  <2> QED BY <1>1, <1>2, Induction
<1>4. ASSUME NEW n \in Positions(h) PROVE FirstBelow(h, line, height, stop, n, f[n])
  <2>1. height[n] + 1 \in Nat /\ height[n] < height[n] + 1
    BY DEF Linear
  <2>2. height[n] + 1 \in G
    <3> HIDE DEF G
    <3> QED BY <1>3, <2>1
  <2> QED BY <2>1, <2>2
<1> QED BY <1>4

\* The nodes that a search for k accepts.
Matches(h, k, dead) == {n \in Positions(h) : h.node[n].key = k \/ (dead /\ h.node[n].key = Dead(k))}

\* A search finds the first of them below its main position.
LEMMA FindResult ==
  ASSUME NEW h, Shape(h), NEW line, NEW height, Linear(h, line, height), NEW k, NEW dead,
         mainposition(h, k) \in Positions(h)
  PROVE  FirstBelow(h, line, height, Matches(h, k, dead), mainposition(h, k), Find(h, k, dead))
<1> DEFINE stop == Matches(h, k, dead)
           Search(f) == f = [n \in 0..sizenode(h) |->
                               IF n = 0 \/ h.node[n].key = k \/ (dead /\ h.node[n].key = Dead(k)) THEN n ELSE f[h.node[n].next]]
           search == CHOOSE f : Search(f)
<1>1. ASSUME NEW f PROVE Search(f) <=> Walks(h, f, stop)
  <2>1. \A n \in 0..sizenode(h) :
          (n = 0 \/ h.node[n].key = k \/ (dead /\ h.node[n].key = Dead(k))) <=> (n = 0 \/ n \in stop)
    <3>1. \A n \in 0..sizenode(h) : n = 0 \/ n \in Positions(h)
      BY DEF Shape, Positions
    <3> QED BY <3>1 DEF Matches
  <2>2. [n \in 0..sizenode(h) |->
          IF n = 0 \/ h.node[n].key = k \/ (dead /\ h.node[n].key = Dead(k)) THEN n ELSE f[h.node[n].next]]
        = [n \in 0..sizenode(h) |-> IF n = 0 \/ n \in stop THEN n ELSE f[h.node[n].next]]
    <3> HIDE DEF stop
    <3> QED BY <2>1
  <2> QED BY <2>2, Zenon DEF Walks
<1>2. \E f : Search(f)
  <2>1. PICK f : Walks(h, f, stop)
    <3> HIDE DEF stop
    <3> QED BY WalkExists
  <2> HIDE DEF Search, stop
  <2> QED BY <1>1, <2>1
<1>3. Search(search)
  <2> HIDE DEF Search
  <2> QED BY <1>2
<1>4. Find(h, k, dead) = search[mainposition(h, k)]
  BY DEF Find
<1> HIDE DEF Search, search, stop
<1>5. Walks(h, search, stop)
  BY <1>1, <1>3
<1>6. FirstBelow(h, line, height, stop, mainposition(h, k), search[mainposition(h, k)])
  BY <1>5, WalkFinds
<1> QED BY <1>4, <1>6 DEF stop

\* A node was never used, or holds a key of the program, alive or dead.
Kinds(h) ==
  \A x \in Positions(h) :
    \/ h.node[x].key = Nil /\ h.node[x].val = Nil /\ h.node[x].next = 0
    \/ h.node[x].key \in Keys
    \/ h.node[x].val = Nil /\ \E k \in Keys : h.node[x].key = Dead(k)

\* Every key hangs below its main position, a node that was never used is alone, and a
\* key that came back hangs above what is left of it.
Hung(h, line, height) ==
  /\ \A x \in Positions(h) : h.node[x].key # Nil => line[main(h, x)] = line[x] /\ height[main(h, x)] >= height[x]
  /\ \A x \in Positions(h) : h.node[x].key = Nil => \A z \in Positions(h) : line[z] = line[x] => z = x
  /\ \A x, y \in Positions(h) : h.node[x].key \in Keys /\ h.node[y].key = Dead(h.node[x].key) => height[x] > height[y]

Chained(h) == \E line, height : Linear(h, line, height) /\ Hung(h, line, height)

\* The node in a main position that some key has is in its own main position (Brent).
InPlace(h) ==
  \A x \in Positions(h) : h.node[x].key # Nil => h.node[main(h, x)].key # Nil /\ main(h, main(h, x)) = main(h, x)

Single(h) == \A x, y \in Positions(h) : h.node[x].key = h.node[y].key /\ h.node[x].key \in Keys => x = y

\* No key of a node belongs into the array.
Apart(h) == \A x \in Positions(h) : h.node[x].key \in Keys => ~InArray(h, h.node[x].key)

\* All nodes from lastfree on have been used.
FreeBelow(h) == ~h.dummy => \A x \in Positions(h) : x >= h.lastfree => h.node[x].key # Nil

\* The dummynode is never used.
Unused(h) == h.dummy => sizenode(h) = 1 /\ h.node[1].key = Nil /\ h.lastfree = 1

ArrayKeys(h) == \A i \in 1..Len(h.array) : h.array[i] # Nil => <<"int", i>> \in Keys

TableInv(h) ==
  Shape(h) /\ Kinds(h) /\ Chained(h) /\ InPlace(h) /\ Single(h) /\ Apart(h) /\ FreeBelow(h) /\ Unused(h) /\ ArrayKeys(h)

\* A used node has a key of the program, and a main position.
LEMMA UsedNodes ==
  ASSUME NEW h, Shape(h), Kinds(h), NEW x \in Positions(h), h.node[x].key # Nil
  PROVE  Live(h.node[x].key) \in Keys /\ main(h, x) \in Positions(h)
<1>1. Live(h.node[x].key) \in Keys
  BY KeysDiffer DEF Kinds
<1> QED BY <1>1, MainPosition DEF Shape, main

\* A key that some node has is found there, also when dead keys count.
LEMMA FindFinds ==
  ASSUME NEW h, TableInv(h), NEW x \in Positions(h), h.node[x].key \in Keys, NEW dead \in BOOLEAN
  PROVE  Find(h, h.node[x].key, dead) = x
<1> DEFINE k == h.node[x].key
           m == mainposition(h, k)
           r == Find(h, k, dead)
<1>1. Shape(h) /\ Kinds(h) /\ Single(h)
  BY DEF TableInv
<1>2. PICK line, height : Linear(h, line, height) /\ Hung(h, line, height)
  BY DEF TableInv, Chained
<1>3. k \in Keys /\ k # Nil /\ Live(k) = k /\ main(h, x) = m
  BY KeysDiffer DEF main
<1>4. m \in Positions(h)
  BY <1>1, <1>3, UsedNodes
<1>5. FirstBelow(h, line, height, Matches(h, k, dead), m, r)
  BY <1>1, <1>2, <1>4, FindResult
<1>6. line[m] = line[x] /\ height[m] >= height[x] /\ x \in Matches(h, k, dead)
  BY <1>2, <1>3 DEF Hung, Matches
<1>7. height[x] \in Nat /\ height[m] \in Nat /\ height[x] <= height[m]
  BY <1>2, <1>4, <1>6 DEF Linear
<1> HIDE DEF r, m
<1>8. r # 0
  BY <1>5, <1>6, <1>7 DEF FirstBelow
<1>9. r \in Positions(h) /\ r \in Matches(h, k, dead) /\ height[x] <= height[r]
  BY <1>5, <1>6, <1>7, <1>8 DEF FirstBelow
<1>10. h.node[r].key = k
  <2> SUFFICES ASSUME h.node[r].key = Dead(k) PROVE FALSE
    BY <1>9 DEF Matches
  <2>1. height[x] > height[r]
    BY <1>2, <1>3, <1>9 DEF Hung
  <2>2. height[r] \in Nat
    BY <1>2, <1>9 DEF Linear
  <2> QED BY <1>7, <1>9, <2>1, <2>2
<1> QED BY <1>1, <1>3, <1>9, <1>10 DEF Single, r

\* What no node has is not found.
LEMMA NotFound ==
  ASSUME NEW h, TableInv(h), NEW k, mainposition(h, k) \in Positions(h), \A x \in Positions(h) : h.node[x].key # k
  PROVE  Find(h, k, FALSE) = 0
<1>1. PICK line, height : Linear(h, line, height) /\ Hung(h, line, height)
  BY DEF TableInv, Chained
<1>2. Shape(h)
  BY DEF TableInv
<1>3. FirstBelow(h, line, height, Matches(h, k, FALSE), mainposition(h, k), Find(h, k, FALSE))
  BY <1>1, <1>2, FindResult
<1>4. \A n \in Positions(h) : n \notin Matches(h, k, FALSE)
  BY DEF Matches
<1> QED BY <1>3, <1>4 DEF FirstBelow

\* A key that no node has is not found.
LEMMA FindFails ==
  ASSUME NEW h, TableInv(h), NEW k \in Keys, \A x \in Positions(h) : h.node[x].key # k
  PROVE  Find(h, k, FALSE) = 0
<1>1. mainposition(h, k) \in Positions(h)
  BY MainPosition DEF TableInv, Shape
<1> QED BY <1>1, NotFound

\* What luaH_get returns.
LEMMA GetValue ==
  ASSUME NEW h, TableInv(h), NEW k \in Keys
  PROVE  /\ InArray(h, k) => luaH_get(h, k) = h.array[arrayindex(k)]
         /\ \A x \in Positions(h) : h.node[x].key = k => luaH_get(h, k) = h.node[x].val
         /\ ~InArray(h, k) /\ (\A x \in Positions(h) : h.node[x].key # k) => luaH_get(h, k) = Nil
<1>1. ASSUME NEW x \in Positions(h), h.node[x].key = k PROVE luaH_get(h, k) = h.node[x].val
  <2>1. ~InArray(h, k)
    BY <1>1 DEF TableInv, Apart
  <2>2. Find(h, k, FALSE) = x
    BY <1>1, FindFinds
  <2>3. x # 0
    BY DEF Positions
  <2> QED BY <2>1, <2>2, <2>3 DEF luaH_get
<1>2. ASSUME ~InArray(h, k), \A x \in Positions(h) : h.node[x].key # k PROVE luaH_get(h, k) = Nil
  BY <1>2, FindFails DEF luaH_get
<1> QED BY <1>1, <1>2 DEF luaH_get

-----------------------------------------------------------------------------
(* Insertion.                                                              *)

\* g is h with the value v for k: an assignment changes the value of its key and of no
\* other.
Stored(g, h, k, v) ==
  /\ TableInv(g) /\ Len(g.array) = Len(h.array) /\ sizenode(g) = sizenode(h) /\ g.dummy = h.dummy
  /\ \A j \in Keys : luaH_get(g, j) = IF j = k THEN v ELSE luaH_get(h, j)
  /\ \A x \in Positions(h) :
       \/ \E y \in Positions(h) : g.node[x].key = h.node[y].key
       \/ g.node[x].key = k /\ ~InArray(h, k)

\* The main positions depend on the number of nodes, the array indices on that of its items.
LEMMA SameSizes ==
  ASSUME NEW g, NEW h, sizenode(g) = sizenode(h)
  PROVE  /\ Positions(g) = Positions(h) /\ \A k : mainposition(g, k) = mainposition(h, k)
         /\ \A x : g.node[x].key = h.node[x].key => main(g, x) = main(h, x)
         /\ Len(g.array) = Len(h.array) => \A k : InArray(g, k) <=> InArray(h, k)
BY DEF Positions, mainposition, main, InArray

\* A value for a key that a node has, or for one whose main position has no value.
LEMMA PutStores ==
  ASSUME NEW h, TableInv(h), NEW k \in Keys, NEW v, NEW n \in Positions(h), ~InArray(h, k),
         \/ h.node[n].key = k
         \/ /\ n = mainposition(h, k) /\ h.node[n].val = Nil /\ ~h.dummy
            /\ \A x \in Positions(h) : h.node[x].key # k
  PROVE  Stored(Put(h, n, k, v), h, k, v)
<1> DEFINE g == Put(h, n, k, v)
<1>1. Shape(h)
  BY DEF TableInv
<1>2. Renewed(g, h, Filled(h, n, k, v), h.lastfree)
  BY <1>1, PutFills
<1> HIDE DEF g
<1>3. /\ Shape(g) /\ g.array = h.array /\ g.dummy = h.dummy /\ g.lastfree = h.lastfree /\ sizenode(g) = sizenode(h)
      /\ g.node[n].key = k /\ g.node[n].val = v /\ \A x \in Positions(h) : x # n => g.node[x] = h.node[x]
      /\ \A x \in Positions(h) : g.node[x].next = h.node[x].next
  BY <1>2 DEF Renewed, Filled
<1>4. /\ Positions(g) = Positions(h) /\ \A j : mainposition(g, j) = mainposition(h, j)
      /\ \A x : g.node[x].key = h.node[x].key => main(g, x) = main(h, x)
      /\ \A j : InArray(g, j) <=> InArray(h, j)
  BY <1>3, SameSizes
<1>5. k # Nil /\ Live(k) = k /\ \A j \in Keys : k # Dead(j) /\ j # Nil
  BY KeysDiffer
<1>6. \A x \in Positions(h) : x # n => h.node[x].key # k
  BY DEF TableInv, Single
<1>7. Kinds(g)
  BY <1>3, <1>4 DEF TableInv, Kinds
<1>8. main(g, n) = mainposition(h, k) /\ mainposition(h, k) \in Positions(h)
  BY <1>1, <1>3, <1>4, <1>5, MainPosition DEF main, Shape
<1>9. main(g, n) = n \/ (h.node[n].key = k /\ main(g, n) = main(h, n))
  BY <1>3, <1>4, <1>8
<1>10. Chained(g)
  <2>1. PICK line, height : Linear(h, line, height) /\ Hung(h, line, height)
    BY DEF TableInv, Chained
  <2>2. Linear(g, line, height)
    BY <1>3, <1>4, <2>1 DEF Linear
  <2>3. \A x \in Positions(h) : height[x] \in Nat
    BY <2>1 DEF Linear
  <2>4. ASSUME NEW x \in Positions(h), g.node[x].key # Nil
        PROVE  line[main(g, x)] = line[x] /\ height[main(g, x)] >= height[x]
    <3>1. CASE x # n
      BY <1>3, <1>4, <2>1, <2>4, <3>1 DEF Hung
    <3>2. CASE x = n /\ main(g, n) = n
      BY <2>3, <3>2
    <3>3. CASE x = n /\ h.node[n].key = k /\ main(g, n) = main(h, n)
      BY <1>5, <2>1, <3>3 DEF Hung
    <3> QED BY <1>9, <3>1, <3>2, <3>3
  <2>5. ASSUME NEW x \in Positions(h), g.node[x].key = Nil, NEW z \in Positions(h), line[z] = line[x] PROVE z = x
    BY <1>3, <1>5, <2>1, <2>5 DEF Hung
  <2>6. ASSUME NEW x \in Positions(h), NEW y \in Positions(h), g.node[x].key \in Keys, g.node[y].key = Dead(g.node[x].key)
        PROVE  height[x] > height[y]
    <3>1. y # n /\ g.node[y] = h.node[y] /\ x # y
      <4>1. \A j \in Keys : k # Dead(j) /\ j # Dead(j)
        BY KeysDiffer
      <4> QED BY <1>3, <2>6, <4>1
    <3>2. CASE x # n
      BY <1>3, <2>1, <2>6, <3>1, <3>2 DEF Hung
    <3>3. CASE x = n /\ h.node[n].key = k
      BY <1>3, <2>1, <2>6, <3>1, <3>3 DEF Hung
    <3>4. CASE x = n /\ n = mainposition(h, k)
      <4>1. h.node[y].key = Dead(k) /\ main(h, y) = n
        BY <1>3, <2>6, <3>1, <3>4, KeysDiffer DEF main
      <4>2. line[n] = line[y] /\ height[n] >= height[y]
        BY <2>1, <4>1, KeysDiffer DEF Hung
      <4>3. height[n] # height[y]
        BY <2>1, <3>1, <3>4, <4>2 DEF Linear
      <4> QED BY <2>3, <3>4, <4>2, <4>3
    <3> QED BY <3>2, <3>3, <3>4
  <2>7. Hung(g, line, height)
    BY <1>4, <2>4, <2>5, <2>6 DEF Hung
  <2> QED BY <2>2, <2>7 DEF Chained
<1>11. InPlace(g)
  <2> SUFFICES ASSUME NEW x \in Positions(h), g.node[x].key # Nil
               PROVE  g.node[main(g, x)].key # Nil /\ main(g, main(g, x)) = main(g, x)
    BY <1>4 DEF InPlace
  <2>1. CASE x = n
    <3>1. CASE main(g, n) = n
      BY <1>3, <1>5, <2>1, <3>1
    <3>2. CASE h.node[n].key = k /\ main(g, n) = main(h, n) /\ main(g, n) # n
      <4>1. h.node[main(h, n)].key # Nil /\ main(h, main(h, n)) = main(h, n)
        BY <1>5, <3>2 DEF TableInv, InPlace
      <4>2. main(h, n) \in Positions(h)
        BY <1>4, <1>8, <3>2
      <4> QED BY <1>3, <1>4, <2>1, <3>2, <4>1, <4>2
    <3> QED BY <1>9, <3>1, <3>2
  <2>2. CASE x # n
    <3>1. g.node[x] = h.node[x] /\ main(g, x) = main(h, x) /\ main(h, x) \in Positions(h)
      BY <1>1, <1>3, <1>4, <2>2, UsedNodes DEF TableInv
    <3>2. h.node[main(h, x)].key # Nil /\ main(h, main(h, x)) = main(h, x)
      BY <3>1 DEF TableInv, InPlace
    <3>3. CASE main(h, x) # n
      BY <1>3, <1>4, <3>1, <3>2, <3>3
    <3>4. CASE main(h, x) = n
      BY <1>3, <1>4, <1>5, <1>9, <3>1, <3>2, <3>4
    <3> QED BY <3>3, <3>4
  <2> QED BY <2>1, <2>2
<1>12. Single(g)
  BY <1>3, <1>4, <1>6 DEF TableInv, Single
<1>13. Apart(g)
  BY <1>3, <1>4 DEF TableInv, Apart
<1>14. FreeBelow(g) /\ Unused(g)
  <2>1. FreeBelow(g)
    BY <1>3, <1>4, <1>5 DEF TableInv, FreeBelow
  <2>2. ~h.dummy
    <3> SUFFICES ASSUME h.dummy PROVE FALSE
      OBVIOUS
    <3>1. h.node[n].key = Nil
      BY DEF TableInv, Unused, Positions
    <3> QED BY <1>5, <3>1
  <2> QED BY <1>3, <2>1, <2>2 DEF Unused
<1>15. ArrayKeys(g)
  BY <1>3 DEF TableInv, ArrayKeys
<1>16. TableInv(g)
  BY <1>3, <1>7, <1>10, <1>11, <1>12, <1>13, <1>14, <1>15 DEF TableInv
<1>17. ASSUME NEW j \in Keys PROVE luaH_get(g, j) = IF j = k THEN v ELSE luaH_get(h, j)
  <2>1. CASE j = k
    BY <1>3, <1>4, <1>16, <2>1, GetValue
  <2>2. CASE j # k /\ InArray(h, j)
    BY <1>3, <1>4, <1>16, <2>2, GetValue
  <2>3. CASE j # k /\ \E x \in Positions(h) : x # n /\ h.node[x].key = j
    BY <1>3, <1>4, <1>16, <2>3, GetValue
  <2>4. CASE j # k /\ ~InArray(h, j) /\ \A x \in Positions(h) : x # n => h.node[x].key # j
    <3>1. luaH_get(g, j) = Nil
      BY <1>3, <1>4, <1>16, <2>4, GetValue
    <3>2. luaH_get(h, j) = Nil
      <4>1. CASE h.node[n].key = j
        BY <2>4, <4>1, GetValue
      <4>2. CASE h.node[n].key # j
        BY <2>4, <4>2, GetValue
      <4> QED BY <4>1, <4>2
    <3> QED BY <2>4, <3>1, <3>2
  <2> QED BY <2>1, <2>2, <2>3, <2>4
<1> QED BY <1>3, <1>4, <1>16, <1>17 DEF Stored, g

\* An assignment to a place of the array.
LEMMA ArrayStores ==
  ASSUME NEW h, TableInv(h), NEW k \in Keys, NEW v, InArray(h, k)
  PROVE  Stored([h EXCEPT !.array[arrayindex(k)] = v], h, k, v)
<1> DEFINE g == [h EXCEPT !.array[arrayindex(k)] = v]
<1>1. PICK a, b, c, d : h = [array |-> a, node |-> b, dummy |-> c, lastfree |-> d]
  BY DEF TableInv, Shape
<1>2. PICK i : i = arrayindex(k)
  OBVIOUS
<1>3. PICK n : n = Len(h.array)
  OBVIOUS
<1>4. i \in 1..n /\ n \in Nat /\ h.array = [x \in 1..n |-> h.array[x]]
  BY <1>2, <1>3 DEF InArray, TableInv, Shape
<1>5. k = <<"int", i>>
  <2>1. k[1] = "int" /\ k[2] = i
    BY <1>2, <1>4 DEF arrayindex
  <2> QED BY <2>1, LuaTableAssumption
<1> DEFINE f == [x \in 1..n |-> IF x = i THEN v ELSE h.array[x]]
<1>6. g = [array |-> f, node |-> b, dummy |-> c, lastfree |-> d]
  <2>1. [a EXCEPT ![i] = v] = f
    BY <1>1, <1>4
  <2>2. h.array = a
    BY <1>1
  <2>3. g = [h EXCEPT !.array = f]
    BY <1>2, <2>1, <2>2
  <2> HIDE DEF f, g
  <2> QED BY <1>1, <2>3
<1>7. /\ g.array = f /\ g.node = h.node /\ g.dummy = h.dummy /\ g.lastfree = h.lastfree
      /\ g = [array |-> g.array, node |-> g.node, dummy |-> g.dummy, lastfree |-> g.lastfree]
  BY <1>1, <1>6
<1>8. Len(f) = n /\ f = [x \in 1..n |-> f[x]]
  <2>1. f = [x \in 1..n |-> f[x]]
    OBVIOUS
  <2> HIDE DEF f
  <2> QED BY <1>4, <2>1, LengthOf
<1>9. f[i] = v /\ \A x \in 1..n : x # i => f[x] = h.array[x]
  BY <1>4
<1> HIDE DEF f, g
<1>10. sizenode(g) = sizenode(h) /\ Len(g.array) = Len(h.array)
  BY <1>3, <1>7, <1>8 DEF sizenode
<1>11. /\ Positions(g) = Positions(h) /\ \A j : mainposition(g, j) = mainposition(h, j)
       /\ \A x : main(g, x) = main(h, x)
       /\ \A j : InArray(g, j) <=> InArray(h, j)
  BY <1>7, <1>10, SameSizes
<1>12. Shape(g)
  BY <1>3, <1>4, <1>7, <1>8, <1>10, <1>11 DEF TableInv, Shape
<1>13. Kinds(g) /\ Single(g) /\ FreeBelow(g) /\ Unused(g)
  BY <1>7, <1>10, <1>11 DEF TableInv, Kinds, Single, FreeBelow, Unused
<1>14. Chained(g)
  <2>1. PICK line, height : Linear(h, line, height) /\ Hung(h, line, height)
    BY DEF TableInv, Chained
  <2>2. Linear(g, line, height) /\ Hung(g, line, height)
    BY <1>7, <1>11, <2>1 DEF Linear, Hung
  <2> QED BY <2>2 DEF Chained
<1>15. InPlace(g) /\ Apart(g)
  BY <1>7, <1>11 DEF TableInv, InPlace, Apart
<1>16. ArrayKeys(g)
  BY <1>3, <1>5, <1>7, <1>9, <1>10 DEF TableInv, ArrayKeys
<1>17. TableInv(g)
  BY <1>12, <1>13, <1>14, <1>15, <1>16 DEF TableInv
<1>18. ASSUME NEW j \in Keys PROVE luaH_get(g, j) = IF j = k THEN v ELSE luaH_get(h, j)
  <2>1. CASE j = k
    BY <1>2, <1>7, <1>9, <1>11, <1>17, <2>1, GetValue
  <2>2. CASE j # k /\ InArray(h, j)
    <3>1. arrayindex(j) \in 1..n
      BY <1>3, <2>2 DEF InArray
    <3>2. arrayindex(j) # i
      <4> SUFFICES ASSUME arrayindex(j) = i PROVE FALSE
        OBVIOUS
      <4>1. j[1] = "int" /\ j[2] = i
        BY <3>1 DEF arrayindex
      <4> QED BY <1>5, <2>2, <4>1, LuaTableAssumption
    <3>3. luaH_get(g, j) = g.array[arrayindex(j)] /\ luaH_get(h, j) = h.array[arrayindex(j)]
      BY <1>11, <1>17, <2>2, GetValue
    <3> QED BY <1>7, <1>9, <2>2, <3>1, <3>2, <3>3
  <2>3. CASE j # k /\ ~InArray(h, j) /\ \E x \in Positions(h) : h.node[x].key = j
    <3>1. PICK x \in Positions(h) : h.node[x].key = j
      BY <2>3
    <3>2. luaH_get(g, j) = g.node[x].val /\ luaH_get(h, j) = h.node[x].val
      BY <1>7, <1>11, <1>17, <3>1, GetValue
    <3> QED BY <1>7, <2>3, <3>2
  <2>4. CASE j # k /\ ~InArray(h, j) /\ \A x \in Positions(h) : h.node[x].key # j
    <3>1. luaH_get(g, j) = Nil /\ luaH_get(h, j) = Nil
      BY <1>7, <1>11, <1>17, <2>4, GetValue
    <3> QED BY <2>4, <3>1
  <2> QED BY <2>1, <2>2, <2>3, <2>4
<1> QED BY <1>7, <1>10, <1>11, <1>17, <1>18 DEF Stored, g

\* A set of numbers that is not empty has a greatest one, if one number is beyond them all.
LEMMA GreatestElement ==
  ASSUME NEW n \in Nat, NEW S \in SUBSET (0..n), S # {}
  PROVE  Max(S) \in S /\ \A x \in S : Max(S) >= x
<1> DEFINE R == {n - x : x \in S}
<1>1. R \in SUBSET Nat /\ R # {}
  <2>1. \A x \in S : n - x \in Nat
    OBVIOUS
  <2> QED BY <2>1
<1> HIDE DEF R
<1>2. PICK r \in R : \A y \in R : r <= y
  BY <1>1, LeastElement
<1>3. PICK m \in S : r = n - m
  BY <1>2 DEF R
<1>4. ASSUME NEW x \in S PROVE m >= x
  <2>1. n - x \in R
    BY DEF R
  <2>2. n - m <= n - x
    BY <1>2, <1>3, <2>1
  <2> QED BY <2>2
<1> QED BY <1>3, <1>4, Zenon DEF Max

\* What getfreepos finds.
LEMMA FreePosition ==
  ASSUME NEW h, Shape(h)
  PROVE  /\ getfreepos(h) \in 0..(h.lastfree - 1)
         /\ getfreepos(h) # 0 => getfreepos(h) \in Positions(h) /\ h.node[getfreepos(h)].key = Nil
         /\ \A x \in Positions(h) : x < h.lastfree /\ x > getfreepos(h) => h.node[x].key # Nil
<1> DEFINE S == {0} \cup {n \in 1..(h.lastfree - 1) : h.node[n].key = Nil}
<1>1. h.lastfree \in Nat \ {0} /\ h.lastfree - 1 \in Nat /\ h.lastfree - 1 <= sizenode(h) /\ sizenode(h) \in Nat
  BY DEF Shape
<1>2. S \in SUBSET (0..(h.lastfree - 1)) /\ S # {}
  BY <1>1
<1>3. getfreepos(h) = Max(S)
  BY DEF getfreepos
<1>4. \A x \in Positions(h) : x < h.lastfree /\ h.node[x].key = Nil => x \in S
  BY <1>1 DEF Positions
<1>5. \A x \in S : x # 0 => x \in Positions(h) /\ h.node[x].key = Nil
  BY <1>1 DEF Positions
<1>6. Max(S) \in S /\ \A x \in S : Max(S) >= x
  <2> HIDE DEF S
  <2> QED BY <1>1, <1>2, GreatestElement
<1> HIDE DEF S
<1>7. PICK m : m = Max(S)
  OBVIOUS
<1>8. m \in 0..(h.lastfree - 1)
  BY <1>2, <1>6, <1>7
<1>9. \A x \in Positions(h) : x < h.lastfree /\ x > m => h.node[x].key # Nil
  BY <1>4, <1>6, <1>7, <1>8 DEF Positions
<1> QED BY <1>3, <1>5, <1>6, <1>7, <1>8, <1>9

\* The search for the node before m, which is not in its main position, finds it.
LEMMA PreviousFinds ==
  ASSUME NEW h, Shape(h), NEW line, NEW height, Linear(h, line, height), NEW m \in Positions(h),
         main(h, m) \in Positions(h), main(h, m) # m, line[main(h, m)] = line[m], height[main(h, m)] >= height[m]
  PROVE  /\ Previous(h, m) \in Positions(h) /\ Previous(h, m) # m
         /\ h.node[Previous(h, m)].next = m
<1> DEFINE stop == {x \in Positions(h) : h.node[x].next = m}
           Search(f) == f = [n \in 0..sizenode(h) |-> IF n = 0 \/ h.node[n].next = m THEN n ELSE f[h.node[n].next]]
           prev == CHOOSE f : Search(f)
<1>1. ASSUME NEW f PROVE Search(f) <=> Walks(h, f, stop)
  <2>1. \A n \in 0..sizenode(h) : (n = 0 \/ h.node[n].next = m) <=> (n = 0 \/ n \in stop)
    <3>1. \A n \in 0..sizenode(h) : n = 0 \/ n \in Positions(h)
      BY DEF Shape, Positions
    <3> QED BY <3>1
  <2>2. [n \in 0..sizenode(h) |-> IF n = 0 \/ h.node[n].next = m THEN n ELSE f[h.node[n].next]]
        = [n \in 0..sizenode(h) |-> IF n = 0 \/ n \in stop THEN n ELSE f[h.node[n].next]]
    <3> HIDE DEF stop
    <3> QED BY <2>1
  <2> QED BY <2>2, Zenon DEF Walks
<1>2. \E f : Search(f)
  <2>1. PICK f : Walks(h, f, stop)
    <3> HIDE DEF stop
    <3> QED BY WalkExists
  <2> HIDE DEF Search, stop
  <2> QED BY <1>1, <2>1
<1>3. Search(prev)
  <2> HIDE DEF Search
  <2> QED BY <1>2
<1>4. Previous(h, m) = prev[main(h, m)]
  BY DEF Previous, main
<1> HIDE DEF Search, prev
<1>5. Walks(h, prev, stop)
  <2> HIDE DEF stop
  <2> QED BY <1>1, <1>3
<1>6. FirstBelow(h, line, height, stop, main(h, m), prev[main(h, m)])
  <2> HIDE DEF stop
  <2> QED BY <1>5, WalkFinds
<1>7. \A x \in Positions(h) : height[x] \in Nat
  BY DEF Linear
<1>8. height[main(h, m)] > height[m]
  BY <1>7, SMTT(30) DEF Linear
<1>9. \E z \in stop : line[z] = line[m] /\ height[z] <= height[main(h, m)]
  <2> DEFINE Above == {x \in Positions(h) : line[x] = line[m] /\ height[x] > height[m]}
             H == {height[x] : x \in Above}
  <2>1. H \in SUBSET Nat /\ H # {}
    BY <1>7, <1>8
  <2>2. PICK a \in H : \A b \in H : a <= b
    <3> HIDE DEF H
    <3> QED BY <2>1, LeastElement
  <2>3. PICK z \in Above : height[z] = a
    BY <2>2
  <2>4. \A x \in Above : height[z] <= height[x]
    BY <2>2, <2>3
  <2> DEFINE y == h.node[z].next
  <2>5. y # 0
    BY <1>7, <2>3 DEF Linear
  <2>6. /\ y \in Positions(h) /\ line[y] = line[m] /\ height[y] < height[z]
        /\ height[m] <= height[y] \/ height[m] >= height[z]
    BY <2>3, <2>5, SMTT(30) DEF Linear, Shape, Positions
  <2> HIDE DEF y
  <2>7. height[y] = height[m]
    <3>1. y \notin Above
      BY <1>7, <2>3, <2>4, <2>6
    <3> QED BY <1>7, <2>3, <2>6, <3>1
  <2>8. y = m
    BY <2>6, <2>7 DEF Linear
  <2> QED BY <1>8, <2>3, <2>4, <2>8 DEF y
<1>10. PICK p : p = prev[main(h, m)]
  OBVIOUS
<1>11. p # 0
  BY <1>6, <1>9, <1>10 DEF FirstBelow
<1>12. p \in Positions(h) /\ h.node[p].next = m
  BY <1>6, <1>10, <1>11 DEF FirstBelow
<1>13. p # m
  BY <1>7, <1>12 DEF Linear, Positions
<1> QED BY <1>4, <1>10, <1>12, <1>13

\* k is a new key for which the node n is free, its main position m is occupied.
Collides(h, k, n, m) ==
  /\ TableInv(h) /\ k \in Keys /\ ~InArray(h, k) /\ \A x \in Positions(h) : h.node[x].key # k
  /\ m = mainposition(h, k) /\ m \in Positions(h) /\ h.node[m].key \in Keys
  /\ n \in Positions(h) /\ n < h.lastfree /\ h.node[n].key = Nil /\ ~h.dummy
  /\ \A x \in Positions(h) : x < h.lastfree /\ x > n => h.node[x].key # Nil

\* The entries of g are those of h, and v for the new key k.
Added(g, h, k, v) ==
  /\ \A x \in Positions(h) : h.node[x].key \in Keys =>
       \E y \in Positions(h) : g.node[y].key = h.node[x].key /\ g.node[y].val = h.node[x].val
  /\ \A y \in Positions(h) :
       \/ \E x \in Positions(h) : h.node[x].key = g.node[y].key /\ h.node[x].val = g.node[y].val
       \/ g.node[y].key = k
  /\ \E y \in Positions(h) : g.node[y].key = k /\ g.node[y].val = v

\* A new entry is an assignment.
LEMMA AddedStores ==
  ASSUME NEW h, TableInv(h), NEW g, TableInv(g), NEW k \in Keys, NEW v, ~InArray(h, k),
         \A x \in Positions(h) : h.node[x].key # k,
         g.array = h.array, g.dummy = h.dummy, sizenode(g) = sizenode(h), Added(g, h, k, v)
  PROVE  Stored(g, h, k, v)
<1>1. Positions(g) = Positions(h) /\ \A j : InArray(g, j) <=> InArray(h, j)
  BY SameSizes
<1>2. ASSUME NEW j \in Keys PROVE luaH_get(g, j) = IF j = k THEN v ELSE luaH_get(h, j)
  <2>1. CASE j = k
    <3>1. PICK y \in Positions(g) : g.node[y].key = k /\ g.node[y].val = v
      BY <1>1 DEF Added
    <3> QED BY <2>1, <3>1, GetValue
  <2>2. CASE j # k /\ InArray(h, j)
    BY <1>1, <2>2, GetValue
  <2>3. CASE j # k /\ \E x \in Positions(h) : h.node[x].key = j
    <3>1. PICK x \in Positions(h) : h.node[x].key = j
      BY <2>3
    <3>2. PICK y \in Positions(h) : g.node[y].key = h.node[x].key /\ g.node[y].val = h.node[x].val
      BY <3>1 DEF Added
    <3>3. luaH_get(h, j) = h.node[x].val
      BY <3>1, GetValue
    <3>4. luaH_get(g, j) = g.node[y].val
      BY <1>1, <3>1, <3>2, GetValue
    <3> QED BY <2>3, <3>2, <3>3, <3>4
  <2>4. CASE j # k /\ ~InArray(h, j) /\ \A x \in Positions(h) : h.node[x].key # j
    <3>1. luaH_get(h, j) = Nil
      BY <2>4, GetValue
    <3>2. \A y \in Positions(g) : g.node[y].key # j
      BY <1>1, <2>4 DEF Added
    <3>3. luaH_get(g, j) = Nil
      BY <1>1, <2>4, <3>2, GetValue
    <3> QED BY <2>4, <3>1, <3>3
  <2> QED BY <2>1, <2>2, <2>3, <2>4
<1>3. \A x \in Positions(h) : (\E y \in Positions(h) : g.node[x].key = h.node[y].key) \/ (g.node[x].key = k /\ ~InArray(h, k))
  BY DEF Added
<1> QED BY <1>2, <1>3 DEF Stored

\* What a collision means for the lines.
LEMMA CollisionFacts ==
  ASSUME NEW h, NEW k, NEW n, NEW m, Collides(h, k, n, m), NEW line, NEW height, Linear(h, line, height), Hung(h, line, height)
  PROVE  /\ n # m /\ h.node[n].next = 0 /\ \A z \in Positions(h) : line[z] = line[n] => z = n
         /\ \A x \in Positions(h) : h.node[x].key # Nil => main(h, x) # n /\ main(h, x) \in Positions(h)
         /\ k # Nil /\ Live(k) = k /\ \A j \in Keys : k # Dead(j) /\ Live(Dead(j)) = j /\ j # Dead(k) /\ j # Nil /\ Live(j) = j
         /\ \A x \in Positions(h) : height[x] \in Nat
         /\ \A x \in Positions(h) : h.node[x].next # n
<1>1. k \in Keys /\ Shape(h) /\ Kinds(h) /\ InPlace(h) /\ n \in Positions(h) /\ h.node[n].key = Nil /\ h.node[m].key \in Keys
  BY DEF Collides, TableInv
<1>2. k # Nil /\ Live(k) = k /\ \A j \in Keys : k # Dead(j) /\ Live(Dead(j)) = j /\ j # Dead(k) /\ j # Nil /\ Live(j) = j
  BY <1>1, KeysDiffer
<1>3. n # m /\ h.node[n].next = 0
  <2>1. \A j \in Keys : j # Nil /\ Dead(j) # Nil
    BY KeysDiffer
  <2> QED BY <1>1, <2>1 DEF Kinds
<1>4. \A z \in Positions(h) : line[z] = line[n] => z = n
  BY <1>1 DEF Hung
<1>5. \A x \in Positions(h) : h.node[x].key # Nil => main(h, x) # n /\ main(h, x) \in Positions(h)
  BY <1>1, UsedNodes DEF InPlace
<1>6. \A x \in Positions(h) : height[x] \in Nat
  BY DEF Linear
<1>7. ASSUME NEW x \in Positions(h), h.node[x].next = n PROVE FALSE
  <2>1. n # 0
    BY <1>1 DEF Positions
  <2>2. line[n] = line[x] /\ height[n] < height[x]
    BY <1>7, <2>1 DEF Linear
  <2>3. x = n
    BY <1>4, <2>2
  <2> QED BY <1>1, <1>6, <2>2, <2>3
<1> QED BY <1>2, <1>3, <1>4, <1>5, <1>6, <1>7

\* Below m there is a new place on the line: all from m on move up.
Raised(height, line, n, m) ==
  [x \in DOMAIN height |-> IF x = n THEN height[m] ELSE IF line[x] = line[m] /\ height[x] >= height[m] THEN height[x] + 1 ELSE height[x]]

Rerouted(line, n, m) == [x \in DOMAIN line |-> IF x = n THEN line[m] ELSE line[x]]

\* A node inserted behind the one in its main position keeps the lines.
LEMMA InsertedChained ==
  ASSUME NEW h, NEW k, NEW v, NEW n, NEW m, Collides(h, k, n, m), main(h, m) = m,
         NEW g, Renewed(g, h, Inserted(h, m, n, k, v), n)
  PROVE  Chained(g)
<1>1. /\ TableInv(h) /\ k \in Keys /\ m = mainposition(h, k) /\ m \in Positions(h) /\ h.node[m].key \in Keys /\ h.node[n].key = Nil
      /\ n \in Positions(h) /\ \A x \in Positions(h) : h.node[x].key # k
  BY DEF Collides
<1>2. PICK line, height : Linear(h, line, height) /\ Hung(h, line, height)
  BY <1>1 DEF TableInv, Chained
<1>3. /\ n # m /\ h.node[n].next = 0 /\ \A z \in Positions(h) : line[z] = line[n] => z = n
      /\ \A x \in Positions(h) : h.node[x].key # Nil => main(h, x) # n /\ main(h, x) \in Positions(h)
      /\ k # Nil /\ Live(k) = k /\ \A j \in Keys : k # Dead(j) /\ Live(Dead(j)) = j /\ j # Dead(k) /\ j # Nil
      /\ \A x \in Positions(h) : height[x] \in Nat
      /\ \A x \in Positions(h) : h.node[x].next # n
  BY <1>2, CollisionFacts
<1> DEFINE li == Rerouted(line, n, m)
           he == Raised(height, line, n, m)
<1>4. Positions(g) = Positions(h) /\ \A j : mainposition(g, j) = mainposition(h, j)
  BY SameSizes DEF Renewed
<1>5. /\ g.node[n].key = k /\ g.node[n].next = h.node[m].next
      /\ g.node[m].key = h.node[m].key /\ g.node[m].next = n
      /\ \A x \in Positions(h) : x # n => g.node[x].key = h.node[x].key /\ main(g, x) = main(h, x)
      /\ \A x \in Positions(h) : x # n /\ x # m => g.node[x] = h.node[x]
      /\ main(g, n) = m
  <2>1. /\ g.node[n].key = k /\ g.node[n].next = h.node[m].next
        /\ g.node[m].key = h.node[m].key /\ g.node[m].next = n
        /\ \A x \in Positions(h) : x # n => g.node[x].key = h.node[x].key
        /\ \A x \in Positions(h) : x # n /\ x # m => g.node[x] = h.node[x]
    BY <1>1, <1>3 DEF Renewed, Inserted
  <2> QED BY <1>1, <1>3, <1>4, <2>1 DEF main
<1>6. /\ li[n] = line[m] /\ he[n] = height[m] /\ li[m] = line[m] /\ he[m] = height[m] + 1
      /\ \A x \in Positions(h) : x # n => li[x] = line[x]
      /\ \A x \in Positions(h) : x # n /\ line[x] = line[m] /\ height[x] >= height[m] => he[x] = height[x] + 1
      /\ \A x \in Positions(h) : x # n /\ (line[x] # line[m] \/ height[x] < height[m]) => he[x] = height[x]
  <2>1. DOMAIN line = Positions(h) /\ DOMAIN height = Positions(h)
    BY <1>2 DEF Linear
  <2> QED BY <1>1, <1>3, <2>1 DEF Rerouted, Raised
<1>7. li \in [Positions(h) -> Positions(h)] /\ he \in [Positions(h) -> Nat]
  <2>1. DOMAIN line = Positions(h) /\ DOMAIN height = Positions(h) /\ \A x \in Positions(h) : line[x] \in Positions(h)
    BY <1>2 DEF Linear
  <2> QED BY <1>1, <1>3, <2>1 DEF Rerouted, Raised
<1> HIDE DEF li, he
<1>8. ASSUME NEW x \in Positions(h), NEW y \in Positions(h), x # n, y # n, line[x] = line[y]
      PROVE  (he[x] < he[y] <=> height[x] < height[y]) /\ (he[x] <= he[y] <=> height[x] <= height[y])
  <2>1. height[x] \in Nat /\ height[y] \in Nat /\ height[m] \in Nat
    BY <1>1, <1>3
  <2>2. /\ line[x] # line[m] \/ height[x] < height[m] => he[x] = height[x]
        /\ line[y] # line[m] \/ height[y] < height[m] => he[y] = height[y]
        /\ line[x] = line[m] /\ height[x] >= height[m] => he[x] = height[x] + 1
        /\ line[y] = line[m] /\ height[y] >= height[m] => he[y] = height[y] + 1
    BY <1>6, <1>8
  <2> QED BY <1>8, <2>1, <2>2
<1>9. ASSUME NEW x \in Positions(h), x # n, line[x] = line[m]
      PROVE  (height[x] >= height[m] <=> he[x] > he[n]) /\ (height[x] < height[m] <=> he[x] < he[n])
  BY <1>1, <1>3, <1>6, <1>9
<1>10. Linear(g, li, he)
  <2>1. ASSUME NEW x \in Positions(h), NEW y \in Positions(h), li[x] = li[y], he[x] = he[y] PROVE x = y
    <3>1. CASE x # n /\ y # n
      <4>1. line[x] = line[y]
        BY <1>6, <2>1, <3>1
      <4>2. height[x] = height[y]
        BY <1>3, <1>7, <1>8, <2>1, <3>1, <4>1
      <4> QED BY <1>2, <4>1, <4>2 DEF Linear
    <3>2. CASE x = n /\ y # n
      BY <1>3, <1>6, <1>7, <1>9, <2>1, <3>2
    <3>3. CASE x # n /\ y = n
      BY <1>3, <1>6, <1>7, <1>9, <2>1, <3>3
    <3> QED BY <3>1, <3>2, <3>3
  <2>2. ASSUME NEW x \in Positions(h), g.node[x].next = 0, NEW z \in Positions(h), li[z] = li[x] PROVE he[z] >= he[x]
    <3>1. CASE x = n
      <4>1. CASE z = n
        BY <1>7, <3>1, <4>1
      <4>2. CASE z # n
        <5>1. height[z] >= height[m]
          BY <1>1, <1>2, <1>5, <1>6, <2>2, <3>1, <4>2 DEF Linear
        <5> QED BY <1>3, <1>6, <1>7, <1>9, <2>2, <3>1, <4>2, <5>1
      <4> QED BY <4>1, <4>2
    <3>2. CASE x # n
      <4>1. x # m /\ h.node[x].next = 0
        BY <1>1, <1>3, <1>5, <2>2, <3>2 DEF Positions
      <4>2. CASE z # n
        <5>1. height[z] >= height[x] /\ line[z] = line[x]
          BY <1>2, <1>6, <2>2, <3>2, <4>1, <4>2 DEF Linear
        <5> QED BY <1>3, <1>7, <1>8, <3>2, <4>2, <5>1
      <4>3. CASE z = n
        <5>1. line[x] = line[m]
          BY <1>6, <2>2, <3>2, <4>3
        <5>2. height[m] >= height[x]
          BY <1>1, <1>2, <4>1, <5>1 DEF Linear
        <5>3. height[x] # height[m]
          BY <1>1, <1>2, <4>1, <5>1 DEF Linear
        <5> QED BY <1>1, <1>3, <1>7, <1>9, <3>2, <4>3, <5>1, <5>2, <5>3
      <4> QED BY <4>2, <4>3
    <3> QED BY <3>1, <3>2
  <2>3. ASSUME NEW x \in Positions(h), g.node[x].next # 0
        PROVE  /\ li[g.node[x].next] = li[x] /\ he[g.node[x].next] < he[x]
               /\ \A z \in Positions(h) : li[z] = li[x] => he[z] <= he[g.node[x].next] \/ he[z] >= he[x]
    <3>1. CASE x = m
      <4>1. ASSUME NEW z \in Positions(h), li[z] = li[m] PROVE he[z] <= he[n] \/ he[z] >= he[m]
        <5>1. CASE z = n
          BY <1>1, <1>7, <5>1
        <5>2. CASE z # n
          <6>1. line[z] = line[m]
            BY <1>1, <1>3, <1>6, <4>1, <5>2
          <6> QED BY <1>1, <1>3, <1>7, <1>8, <1>9, <5>2, <6>1
        <5> QED BY <5>1, <5>2
      <4> QED BY <1>1, <1>3, <1>5, <1>6, <3>1, <4>1
    <3> DEFINE w == IF x = n THEN m ELSE x
               y == h.node[w].next
    <3>2. CASE x # m
      <4>1. w \in Positions(h) /\ g.node[x].next = y /\ y # 0
        BY <1>1, <1>5, <2>3, <3>2
      <4>2. /\ y \in Positions(h) /\ line[y] = line[w] /\ height[y] < height[w] /\ y # n
            /\ \A z \in Positions(h) : line[z] = line[w] => height[z] <= height[y] \/ height[z] >= height[w]
        <5> HIDE DEF w
        <5>1. h.node[w].next \in Positions(h)
          BY <1>1, <4>1 DEF TableInv, Shape, Positions
        <5> QED BY <1>2, <1>3, <4>1, <5>1 DEF Linear
      <4> HIDE DEF y
      <4>3. CASE x = n
        <5>1. li[y] = li[n] /\ he[y] < he[n]
          BY <1>1, <1>3, <1>6, <1>9, <4>2, <4>3
        <5>2. ASSUME NEW z \in Positions(h), li[z] = li[n] PROVE he[z] <= he[y] \/ he[z] >= he[n]
          <6>1. CASE z = n
            BY <1>1, <1>7, <6>1
          <6>2. CASE z # n
            <7>1. line[z] = line[m] /\ (height[z] <= height[y] \/ height[z] >= height[m])
              BY <1>6, <4>2, <4>3, <5>2, <6>2
            <7>2. height[z] >= height[m] => he[z] >= he[n]
              BY <1>1, <1>7, <1>9, <6>2, <7>1
            <7>3. height[z] <= height[y] => he[z] <= he[y]
              BY <1>8, <4>2, <4>3, <6>2, <7>1
            <7> QED BY <7>1, <7>2, <7>3
          <6> QED BY <6>1, <6>2
        <5> QED BY <4>1, <4>3, <5>1, <5>2
      <4>4. CASE x # n
        <5>1. li[y] = li[x] /\ he[y] < he[x]
          BY <1>6, <1>8, <4>2, <4>4
        <5>2. ASSUME NEW z \in Positions(h), li[z] = li[x] PROVE he[z] <= he[y] \/ he[z] >= he[x]
          <6>1. CASE z = n
            <7>1. line[x] = line[m] /\ line[y] = line[m] /\ height[m] # height[x]
              BY <1>1, <1>2, <1>6, <3>2, <4>2, <4>4, <5>2, <6>1 DEF Linear
            <7>2. height[m] <= height[y] \/ height[m] >= height[x]
              BY <1>1, <4>2, <4>4, <7>1
            <7>3. height[y] >= height[m] => he[n] <= he[y]
              BY <1>1, <1>7, <1>9, <4>2, <7>1
            <7>4. height[x] < height[m] => he[x] <= he[n]
              BY <1>1, <1>7, <1>9, <4>4, <7>1
            <7> QED BY <1>1, <1>3, <4>2, <6>1, <7>1, <7>2, <7>3, <7>4
          <6>2. CASE z # n
            <7>1. line[z] = line[x] /\ (height[z] <= height[y] \/ height[z] >= height[x])
              BY <1>6, <4>2, <4>4, <5>2, <6>2
            <7>2. (height[z] <= height[y] => he[z] <= he[y]) /\ (height[x] <= height[z] => he[x] <= he[z])
              BY <1>8, <4>2, <4>4, <6>2, <7>1
            <7> QED BY <1>3, <1>7, <7>1, <7>2
          <6> QED BY <6>1, <6>2
        <5> QED BY <4>1, <5>1, <5>2
      <4> QED BY <4>3, <4>4
    <3> QED BY <3>1, <3>2
  <2> QED BY <1>4, <1>7, <2>1, <2>2, <2>3 DEF Linear
<1>11. Hung(g, li, he)
  <2>1. ASSUME NEW x \in Positions(h), g.node[x].key # Nil PROVE li[main(g, x)] = li[x] /\ he[main(g, x)] >= he[x]
    <3>1. CASE x = n
      BY <1>1, <1>3, <1>5, <1>6, <1>7, <3>1
    <3>2. CASE x # n
      <4>1. main(g, x) = main(h, x) /\ main(h, x) # n /\ main(h, x) \in Positions(h)
        BY <1>3, <1>5, <2>1, <3>2
      <4>2. line[main(h, x)] = line[x] /\ height[main(h, x)] >= height[x]
        BY <1>2, <1>5, <2>1, <3>2 DEF Hung
      <4>3. he[x] <= he[main(h, x)]
        BY <1>3, <1>8, <3>2, <4>1, <4>2
      <4> QED BY <1>6, <1>7, <3>2, <4>1, <4>2, <4>3
    <3> QED BY <3>1, <3>2
  <2>2. ASSUME NEW x \in Positions(h), g.node[x].key = Nil, NEW z \in Positions(h), li[z] = li[x] PROVE z = x
    <3>1. x # n /\ x # m /\ h.node[x].key = Nil
      BY <1>1, <1>3, <1>5, <2>2
    <3>2. \A y \in Positions(h) : line[y] = line[x] => y = x
      BY <1>2, <3>1 DEF Hung
    <3> QED BY <1>1, <1>6, <2>2, <3>1, <3>2
  <2>3. ASSUME NEW x \in Positions(h), NEW y \in Positions(h), g.node[x].key \in Keys, g.node[y].key = Dead(g.node[x].key)
        PROVE  he[x] > he[y]
    <3>1. y # n /\ h.node[y].key = Dead(g.node[x].key)
      BY <1>3, <1>5, <2>3
    <3>2. CASE x = n
      <4>1. y # m /\ Live(h.node[y].key) = k /\ h.node[y].key # Nil
        <5>1. Dead(k) # Nil
          BY <1>1, KeysDiffer
        <5> QED BY <1>1, <1>3, <1>5, <3>1, <3>2, <5>1
      <4>2. main(h, y) = m
        BY <1>1, <4>1 DEF main
      <4>3. line[y] = line[m] /\ height[m] >= height[y] /\ height[m] # height[y]
        BY <1>1, <1>2, <4>1, <4>2 DEF Hung, Linear
      <4> QED BY <1>1, <1>3, <1>9, <3>1, <3>2, <4>3
    <3>3. CASE x # n
      <4>1. height[x] > height[y]
        BY <1>2, <1>5, <2>3, <3>1, <3>3 DEF Hung
      <4>2. Live(h.node[x].key) = h.node[x].key /\ Live(h.node[y].key) = h.node[x].key /\ h.node[y].key # Nil /\ h.node[x].key # Nil
        BY <1>5, <2>3, <3>1, <3>3, KeysDiffer
      <4>3. main(h, x) = main(h, y)
        BY <4>2 DEF main
      <4>4. line[x] = line[y]
        BY <1>2, <4>2, <4>3 DEF Hung
      <4> QED BY <1>3, <1>8, <3>1, <3>3, <4>1, <4>4
    <3> QED BY <3>2, <3>3
  <2> QED BY <1>4, <2>1, <2>2, <2>3 DEF Hung
<1> QED BY <1>10, <1>11 DEF Chained

\* All nodes from n on are used once n is.
LEMMA FilledUp ==
  ASSUME NEW h, NEW k, NEW n, NEW m, Collides(h, k, n, m), NEW g, Positions(g) = Positions(h), g.lastfree = n, g.dummy = h.dummy,
         \A x \in Positions(h) : x = n \/ h.node[x].key # Nil => g.node[x].key # Nil
  PROVE  FreeBelow(g) /\ Unused(g)
<1>1. \A x \in Positions(h) : x >= h.lastfree => h.node[x].key # Nil
  BY DEF Collides, TableInv, FreeBelow
<1>2. n \in Int /\ h.lastfree \in Int /\ \A x \in Positions(h) : x \in Int
  BY DEF Collides, TableInv, Shape, Positions
<1>3. \A x \in Positions(h) : x >= n => x = n \/ h.node[x].key # Nil
  <2>1. \A x \in Positions(h) : x < h.lastfree /\ x > n => h.node[x].key # Nil
    BY DEF Collides
  <2> QED BY <1>1, <1>2, <2>1
<1>4. FreeBelow(g)
  BY <1>3 DEF FreeBelow
<1>5. Unused(g)
  BY DEF Unused, Collides
<1> QED BY <1>4, <1>5

\* A node inserted behind the one in its main position is an assignment.
LEMMA InsertedStores ==
  ASSUME NEW h, NEW k, NEW v, NEW n, NEW m, Collides(h, k, n, m), main(h, m) = m,
         NEW g, Renewed(g, h, Inserted(h, m, n, k, v), n)
  PROVE  Stored(g, h, k, v)
<1>1. /\ TableInv(h) /\ k \in Keys /\ m = mainposition(h, k) /\ m \in Positions(h) /\ h.node[m].key \in Keys /\ h.node[n].key = Nil
      /\ n \in Positions(h) /\ ~InArray(h, k) /\ \A x \in Positions(h) : h.node[x].key # k
  BY DEF Collides
<1>2. /\ n # m /\ k # Nil /\ Live(k) = k /\ \A j \in Keys : j # Nil
      /\ \A x \in Positions(h) : h.node[x].key # Nil => main(h, x) # n /\ main(h, x) \in Positions(h)
  <2>1. PICK line, height : Linear(h, line, height) /\ Hung(h, line, height)
    BY <1>1 DEF TableInv, Chained
  <2> QED BY <2>1, CollisionFacts
<1>3. /\ Shape(g) /\ g.array = h.array /\ g.dummy = h.dummy /\ g.lastfree = n /\ sizenode(g) = sizenode(h)
  BY DEF Renewed
<1>4. /\ Positions(g) = Positions(h) /\ \A j : mainposition(g, j) = mainposition(h, j)
      /\ \A j : InArray(g, j) <=> InArray(h, j)
  BY <1>3, SameSizes
<1>5. /\ g.node[n].key = k /\ g.node[n].val = v
      /\ \A x \in Positions(h) : x # n => g.node[x].key = h.node[x].key /\ g.node[x].val = h.node[x].val
      /\ \A x \in Positions(h) : x # n /\ x # m => g.node[x] = h.node[x]
  BY <1>1, <1>2 DEF Renewed, Inserted
<1>6. main(g, n) = m /\ \A x \in Positions(h) : x # n => main(g, x) = main(h, x)
  BY <1>1, <1>2, <1>4, <1>5 DEF main
<1>7. Chained(g)
  BY InsertedChained
<1>8. Kinds(g)
  <2> SUFFICES ASSUME NEW x \in Positions(h)
               PROVE  \/ g.node[x].key = Nil /\ g.node[x].val = Nil /\ g.node[x].next = 0
                      \/ g.node[x].key \in Keys
                      \/ g.node[x].val = Nil /\ \E j \in Keys : g.node[x].key = Dead(j)
    BY <1>4 DEF Kinds
  <2>1. CASE x = n \/ x = m
    BY <1>1, <1>2, <1>5, <2>1
  <2>2. CASE x # n /\ x # m
    BY <1>1, <1>5, <2>2 DEF TableInv, Kinds
  <2> QED BY <2>1, <2>2
<1>9. InPlace(g)
  <2> SUFFICES ASSUME NEW x \in Positions(h), g.node[x].key # Nil
               PROVE  g.node[main(g, x)].key # Nil /\ main(g, main(g, x)) = main(g, x)
    BY <1>4 DEF InPlace
  <2>1. CASE x = n
    BY <1>1, <1>2, <1>5, <1>6, <2>1
  <2>2. CASE x # n
    BY <1>1, <1>2, <1>5, <1>6, <2>2 DEF TableInv, InPlace
  <2> QED BY <2>1, <2>2
<1>10. Single(g) /\ Apart(g) /\ ArrayKeys(g)
  BY <1>1, <1>3, <1>4, <1>5 DEF TableInv, Single, Apart, ArrayKeys
<1>11. FreeBelow(g) /\ Unused(g)
  BY <1>2, <1>3, <1>4, <1>5, FilledUp
<1>12. TableInv(g)
  BY <1>3, <1>7, <1>8, <1>9, <1>10, <1>11 DEF TableInv
<1>13. Added(g, h, k, v)
  <2>1. ASSUME NEW x \in Positions(h), h.node[x].key \in Keys
        PROVE  \E y \in Positions(h) : g.node[y].key = h.node[x].key /\ g.node[y].val = h.node[x].val
    BY <1>1, <1>2, <1>5, <2>1
  <2> QED BY <1>1, <1>5, <2>1 DEF Added
<1> QED BY <1>1, <1>3, <1>12, <1>13, AddedStores

\* Two places exchanged.
Swap(x, n, m) == IF x = n THEN m ELSE IF x = m THEN n ELSE x

\* Exchanging two nodes keeps the lines.
LEMMA Exchanged ==
  ASSUME NEW h, NEW g, Positions(g) = Positions(h), NEW line, NEW height, Linear(h, line, height),
         NEW n \in Positions(h), NEW m \in Positions(h), 0 \notin Positions(h), Shape(h),
         \A x \in Positions(h) : g.node[x].next = Swap(h.node[Swap(x, n, m)].next, n, m)
  PROVE  Linear(g, [x \in Positions(h) |-> line[Swap(x, n, m)]], [x \in Positions(h) |-> height[Swap(x, n, m)]])
<1> DEFINE s(x) == Swap(x, n, m)
           li == [x \in Positions(h) |-> line[s(x)]]
           he == [x \in Positions(h) |-> height[s(x)]]
<1>1. \A x \in Positions(h) : s(x) \in Positions(h) /\ s(s(x)) = x
  BY DEF Swap
<1>2. s(0) = 0 /\ \A x : s(x) = 0 => x = 0
  BY DEF Swap
<1>3. \A x \in Positions(h) : h.node[x].next # 0 => h.node[x].next \in Positions(h)
  BY DEF Shape, Positions
<1>4. \A x \in Positions(h) : g.node[x].next = s(h.node[s(x)].next)
  OBVIOUS
<1> HIDE DEF s
<1>5. /\ li \in [Positions(h) -> Positions(h)] /\ he \in [Positions(h) -> Nat]
      /\ \A x \in Positions(h) : li[x] = line[s(x)] /\ he[x] = height[s(x)]
  BY <1>1 DEF Linear
<1> HIDE DEF li, he
<1>6. ASSUME NEW x \in Positions(h), NEW y \in Positions(h), li[x] = li[y], he[x] = he[y] PROVE x = y
  <2>1. s(x) = s(y)
    BY <1>1, <1>5, <1>6 DEF Linear
  <2> QED BY <1>1, <2>1
<1>7. ASSUME NEW x \in Positions(h), g.node[x].next = 0, NEW z \in Positions(h), li[z] = li[x] PROVE he[z] >= he[x]
  <2>1. h.node[s(x)].next = 0
    BY <1>2, <1>4, <1>7
  <2> QED BY <1>1, <1>5, <1>7, <2>1 DEF Linear
<1>8. ASSUME NEW x \in Positions(h), g.node[x].next # 0
      PROVE  /\ li[g.node[x].next] = li[x] /\ he[g.node[x].next] < he[x]
             /\ \A z \in Positions(h) : li[z] = li[x] => he[z] <= he[g.node[x].next] \/ he[z] >= he[x]
  <2> DEFINE w == s(x)
             y == h.node[w].next
  <2>1. w \in Positions(h) /\ y # 0 /\ g.node[x].next = s(y)
    BY <1>1, <1>2, <1>4, <1>8
  <2>2. y \in Positions(h)
    BY <1>3, <2>1
  <2>3. line[y] = line[w] /\ height[y] < height[w] /\ \A z \in Positions(h) : line[z] = line[w] => height[z] <= height[y] \/ height[z] >= height[w]
    <3> HIDE DEF w
    <3> QED BY <2>1 DEF Linear
  <2>4. li[x] = line[w] /\ he[x] = height[w] /\ li[s(y)] = line[y] /\ he[s(y)] = height[y]
    <3>1. s(y) \in Positions(h) /\ s(s(y)) = y
      <4> HIDE DEF y
      <4> QED BY <1>1, <2>2
    <3>2. li[s(y)] = line[s(s(y))] /\ he[s(y)] = height[s(s(y))]
      BY <1>5, <3>1
    <3> QED BY <1>5, <3>1, <3>2
  <2> HIDE DEF w, y
  <2>5. ASSUME NEW z \in Positions(h), li[z] = li[x] PROVE he[z] <= he[s(y)] \/ he[z] >= he[x]
    <3>1. s(z) \in Positions(h) /\ li[z] = line[s(z)] /\ he[z] = height[s(z)]
      BY <1>1, <1>5
    <3> QED BY <2>3, <2>4, <2>5, <3>1
  <2> QED BY <2>1, <2>3, <2>4, <2>5
<1>9. Linear(g, li, he)
  BY <1>5, <1>6, <1>7, <1>8 DEF Linear
<1> QED BY <1>9 DEF li, he, s

\* The node that is not in its main position moves to n: the other nodes stay on their lines.
LEMMA DisplacedChained ==
  ASSUME NEW h, NEW k, NEW v, NEW n, NEW m, Collides(h, k, n, m), main(h, m) # m,
         NEW p \in Positions(h), p # m, h.node[p].next = m,
         NEW g, Renewed(g, h, Displaced(h, p, m, n, k, v), n)
  PROVE  Chained(g)
<1>1. /\ TableInv(h) /\ k \in Keys /\ m = mainposition(h, k) /\ m \in Positions(h) /\ h.node[m].key \in Keys /\ h.node[n].key = Nil
      /\ n \in Positions(h) /\ \A x \in Positions(h) : h.node[x].key # k
  BY DEF Collides
<1>2. PICK line, height : Linear(h, line, height) /\ Hung(h, line, height)
  BY <1>1 DEF TableInv, Chained
<1>3. /\ n # m /\ h.node[n].next = 0 /\ \A z \in Positions(h) : line[z] = line[n] => z = n
      /\ \A x \in Positions(h) : h.node[x].key # Nil => main(h, x) # n /\ main(h, x) \in Positions(h)
      /\ k # Nil /\ Live(k) = k /\ \A j \in Keys : k # Dead(j) /\ Live(Dead(j)) = j /\ j # Dead(k) /\ j # Nil
      /\ \A x \in Positions(h) : height[x] \in Nat
      /\ \A x \in Positions(h) : h.node[x].next # n
  BY <1>2, CollisionFacts
<1>4. Shape(h) /\ Shape(g) /\ Positions(g) = Positions(h) /\ \A j : mainposition(g, j) = mainposition(h, j)
  BY <1>1, SameSizes DEF Renewed, TableInv
<1>5. p # n /\ 0 \notin Positions(h)
  BY <1>1, <1>3 DEF Positions
<1>6. \A x \in Positions(h) : h.node[x].key # Nil => main(h, x) # m
  BY <1>1 DEF TableInv, InPlace
<1>7. /\ g.node[m].key = k /\ g.node[m].next = 0 /\ g.node[n] = h.node[m]
      /\ g.node[p].key = h.node[p].key /\ g.node[p].next = n
      /\ \A x \in Positions(h) : x # n /\ x # m /\ x # p => g.node[x] = h.node[x]
  BY <1>1, <1>3, <1>5 DEF Renewed, Displaced
<1> DEFINE s(x) == Swap(x, n, m)
           li == [x \in Positions(h) |-> line[s(x)]]
           he == [x \in Positions(h) |-> height[s(x)]]
<1>8. ASSUME NEW x \in Positions(h) PROVE g.node[x].next = s(h.node[s(x)].next)
  <2>1. CASE x = m
    BY <1>3, <1>5, <1>7, <1>1, <2>1 DEF Swap
  <2>2. CASE x = n
    <3>1. s(n) = m /\ g.node[n].next = h.node[m].next /\ h.node[m].next # n
      BY <1>1, <1>3, <1>7 DEF Swap
    <3>2. h.node[m].next # m
      BY <1>1, <1>2, <1>3, <1>5 DEF Linear
    <3> QED BY <2>2, <3>1, <3>2 DEF Swap
  <2>3. CASE x = p
    BY <1>5, <1>7, <2>3 DEF Swap
  <2>4. CASE x # m /\ x # n /\ x # p
    <3>1. s(x) = x /\ g.node[x].next = h.node[x].next /\ h.node[x].next # n
      BY <1>3, <1>7, <2>4 DEF Swap
    <3>2. h.node[x].next # m
      <4> SUFFICES ASSUME h.node[x].next = m PROVE FALSE
        OBVIOUS
      <4>1. line[m] = line[x] /\ height[m] < height[x] /\ line[m] = line[p] /\ height[m] < height[p]
        BY <1>1, <1>2, <1>5 DEF Linear
      <4>2. /\ height[x] <= height[m] \/ height[x] >= height[p]
            /\ height[p] <= height[m] \/ height[p] >= height[x]
        BY <1>1, <1>2, <1>5, <4>1 DEF Linear
      <4>3. height[x] = height[p]
        BY <1>1, <1>3, <4>1, <4>2
      <4> QED BY <1>2, <2>4, <4>1, <4>3 DEF Linear
    <3> QED BY <3>1, <3>2 DEF Swap
  <2> QED BY <2>1, <2>2, <2>3, <2>4
<1>9. Linear(g, li, he)
  BY <1>1, <1>2, <1>4, <1>5, <1>8, Exchanged
<1>10. /\ \A x \in Positions(h) : li[x] = line[s(x)] /\ he[x] = height[s(x)] /\ he[x] \in Nat
       /\ \A x \in Positions(h) : s(x) \in Positions(h) /\ s(s(x)) = x
       /\ s(m) = n /\ s(n) = m /\ \A x : x # n /\ x # m => s(x) = x
  BY <1>1, <1>3 DEF Swap
<1>11. \A x \in Positions(h) : x # m => g.node[x].key = h.node[s(x)].key
  BY <1>7, <1>10
<1> HIDE DEF s, li, he
<1>12. ASSUME NEW x \in Positions(h), x # m PROVE main(g, x) = main(h, s(x))
  BY <1>4, <1>11, <1>12 DEF main
<1>13. ASSUME NEW x \in Positions(h), g.node[x].key # Nil PROVE li[main(g, x)] = li[x] /\ he[main(g, x)] >= he[x]
  <2>1. CASE x = m
    <3>1. main(g, m) = m
      BY <1>1, <1>3, <1>4, <1>7 DEF main
    <3> QED BY <1>10, <2>1, <3>1
  <2>2. CASE x # m
    <3> DEFINE q == main(h, s(x))
    <3>1. h.node[s(x)].key # Nil /\ s(x) \in Positions(h)
      BY <1>10, <1>11, <1>13, <2>2
    <3>2. q # n /\ q # m /\ q \in Positions(h) /\ main(g, x) = q
      BY <1>3, <1>6, <1>12, <2>2, <3>1
    <3>3. line[q] = line[s(x)] /\ height[q] >= height[s(x)]
      BY <1>2, <3>1 DEF Hung
    <3> HIDE DEF q
    <3> QED BY <1>10, <3>2, <3>3
  <2> QED BY <2>1, <2>2
<1>14. ASSUME NEW x \in Positions(h), g.node[x].key = Nil, NEW z \in Positions(h), li[z] = li[x] PROVE z = x
  <2>1. x # m /\ h.node[s(x)].key = Nil /\ line[s(z)] = line[s(x)]
    BY <1>3, <1>7, <1>10, <1>11, <1>14
  <2>2. s(z) = s(x)
    BY <1>2, <1>10, <2>1 DEF Hung
  <2> QED BY <1>10, <2>2
<1>15. ASSUME NEW x \in Positions(h), NEW y \in Positions(h), g.node[x].key \in Keys, g.node[y].key = Dead(g.node[x].key)
       PROVE  he[x] > he[y]
  <2>1. y # m /\ h.node[s(y)].key = Dead(g.node[x].key)
    BY <1>3, <1>7, <1>11, <1>15
  <2>2. x # m
    <3> SUFFICES ASSUME x = m PROVE FALSE
      OBVIOUS
    <3>1. h.node[s(y)].key = Dead(k)
      BY <1>7, <2>1
    <3>2. h.node[s(y)].key # Nil /\ main(h, s(y)) = m
      BY <1>1, <3>1, KeysDiffer DEF main
    <3> QED BY <1>6, <1>10, <3>2
  <2>3. height[s(x)] > height[s(y)]
    BY <1>2, <1>10, <1>11, <1>15, <2>1, <2>2 DEF Hung
  <2> QED BY <1>10, <2>3
<1>16. Hung(g, li, he)
  BY <1>4, <1>13, <1>14, <1>15 DEF Hung
<1> QED BY <1>9, <1>16 DEF Chained

\* A node that makes room for a key with its main position is an assignment.
LEMMA DisplacedStores ==
  ASSUME NEW h, NEW k, NEW v, NEW n, NEW m, Collides(h, k, n, m), main(h, m) # m,
         NEW p \in Positions(h), p # m, h.node[p].next = m,
         NEW g, Renewed(g, h, Displaced(h, p, m, n, k, v), n)
  PROVE  Stored(g, h, k, v)
<1>1. /\ TableInv(h) /\ k \in Keys /\ m = mainposition(h, k) /\ m \in Positions(h) /\ h.node[m].key \in Keys /\ h.node[n].key = Nil
      /\ n \in Positions(h) /\ ~InArray(h, k) /\ \A x \in Positions(h) : h.node[x].key # k
  BY DEF Collides
<1>2. /\ n # m /\ k # Nil /\ Live(k) = k /\ \A j \in Keys : j # Nil
      /\ \A x \in Positions(h) : h.node[x].key # Nil => main(h, x) # n /\ main(h, x) \in Positions(h)
      /\ p # n
  <2>1. PICK line, height : Linear(h, line, height) /\ Hung(h, line, height)
    BY <1>1 DEF TableInv, Chained
  <2>2. m # 0 /\ h.node[n].next = 0
    BY <1>1, <2>1, CollisionFacts DEF Positions
  <2> QED BY <2>1, <2>2, CollisionFacts
<1>3. /\ Shape(g) /\ g.array = h.array /\ g.dummy = h.dummy /\ g.lastfree = n /\ sizenode(g) = sizenode(h)
  BY DEF Renewed
<1>4. /\ Positions(g) = Positions(h) /\ \A j : mainposition(g, j) = mainposition(h, j)
      /\ \A j : InArray(g, j) <=> InArray(h, j)
  BY <1>3, SameSizes
<1>5. /\ g.node[m].key = k /\ g.node[m].val = v /\ g.node[n] = h.node[m]
      /\ \A x \in Positions(h) : x # n /\ x # m => g.node[x].key = h.node[x].key /\ g.node[x].val = h.node[x].val
      /\ \A x \in Positions(h) : x # n /\ x # m /\ x # p => g.node[x] = h.node[x]
  BY <1>1, <1>2 DEF Renewed, Displaced
<1>6. /\ main(g, m) = m /\ main(g, n) = main(h, m)
      /\ \A x \in Positions(h) : x # n /\ x # m => main(g, x) = main(h, x)
  BY <1>1, <1>2, <1>4, <1>5 DEF main
<1>7. Chained(g)
  BY DisplacedChained
<1>8. Kinds(g)
  <2> SUFFICES ASSUME NEW x \in Positions(h)
               PROVE  \/ g.node[x].key = Nil /\ g.node[x].val = Nil /\ g.node[x].next = 0
                      \/ g.node[x].key \in Keys
                      \/ g.node[x].val = Nil /\ \E j \in Keys : g.node[x].key = Dead(j)
    BY <1>4 DEF Kinds
  <2>1. CASE x = n \/ x = m
    BY <1>1, <1>5, <2>1
  <2>2. CASE x = p
    <3>1. h.node[p].next # 0
      BY <1>1 DEF Positions
    <3>2. h.node[p].key \in Keys \/ (h.node[p].val = Nil /\ \E j \in Keys : h.node[p].key = Dead(j))
      BY <1>1, <3>1 DEF TableInv, Kinds
    <3> QED BY <1>2, <1>5, <2>2, <3>2
  <2>3. CASE x # n /\ x # m /\ x # p
    BY <1>1, <1>5, <2>3 DEF TableInv, Kinds
  <2> QED BY <2>1, <2>2, <2>3
<1>9. \A x \in Positions(h) : h.node[x].key # Nil => main(h, x) # m /\ h.node[main(h, x)].key # Nil /\ main(h, main(h, x)) = main(h, x)
  BY <1>1 DEF TableInv, InPlace
<1>10. InPlace(g)
  <2> SUFFICES ASSUME NEW x \in Positions(h), g.node[x].key # Nil
               PROVE  g.node[main(g, x)].key # Nil /\ main(g, main(g, x)) = main(g, x)
    BY <1>4 DEF InPlace
  <2>1. CASE x = m
    BY <1>2, <1>5, <1>6, <2>1
  <2>2. CASE x # m
    <3> DEFINE w == IF x = n THEN m ELSE x
               q == main(h, w)
    <3>1. w \in Positions(h) /\ h.node[w].key # Nil /\ main(g, x) = q
      BY <1>1, <1>2, <1>5, <1>6, <2>2
    <3> HIDE DEF w
    <3>2. q # m /\ q # n /\ q \in Positions(h) /\ h.node[q].key # Nil /\ main(h, q) = q
      BY <1>2, <1>9, <3>1
    <3> HIDE DEF q
    <3> QED BY <1>5, <1>6, <3>1, <3>2
  <2> QED BY <2>1, <2>2
<1>11. \A x \in Positions(h) : x # m => \E y \in Positions(h) : y = Swap(x, n, m) /\ g.node[x].key = h.node[y].key /\ y # n
  BY <1>1, <1>2, <1>5 DEF Swap
<1>12. Single(g)
  <2> SUFFICES ASSUME NEW x \in Positions(h), NEW y \in Positions(h), g.node[x].key = g.node[y].key, g.node[x].key \in Keys
               PROVE  x = y
    BY <1>4 DEF Single
  <2>1. CASE x = m \/ y = m
    BY <1>1, <1>5, <1>11, <2>1
  <2>2. CASE x # m /\ y # m
    <3>1. Swap(x, n, m) = Swap(y, n, m)
      BY <1>1, <1>11, <2>2 DEF TableInv, Single
    <3> QED BY <2>2, <3>1 DEF Swap
  <2> QED BY <2>1, <2>2
<1>13. Apart(g) /\ ArrayKeys(g)
  BY <1>1, <1>3, <1>4, <1>5, <1>11 DEF TableInv, Apart, ArrayKeys
<1>14. FreeBelow(g) /\ Unused(g)
  BY <1>1, <1>2, <1>3, <1>4, <1>5, FilledUp
<1>15. TableInv(g)
  BY <1>3, <1>7, <1>8, <1>10, <1>12, <1>13, <1>14 DEF TableInv
<1>16. Added(g, h, k, v)
  <2>1. ASSUME NEW x \in Positions(h), h.node[x].key \in Keys
        PROVE  \E y \in Positions(h) : g.node[y].key = h.node[x].key /\ g.node[y].val = h.node[x].val
    <3>1. CASE x = m
      BY <1>1, <1>5, <3>1
    <3>2. CASE x # m
      BY <1>1, <1>2, <1>5, <2>1, <3>2
    <3> QED BY <3>1, <3>2
  <2>2. ASSUME NEW y \in Positions(h)
        PROVE  \/ \E x \in Positions(h) : h.node[x].key = g.node[y].key /\ h.node[x].val = g.node[y].val
               \/ g.node[y].key = k
    BY <1>1, <1>5
  <2> QED BY <1>1, <1>5, <2>1, <2>2 DEF Added
<1> QED BY <1>1, <1>3, <1>15, <1>16, AddedStores

\* newkey with a free place is an assignment.
LEMMA NewKeyStores ==
  ASSUME NEW h, NEW k, NEW v, NEW n, NEW m, Collides(h, k, n, m)
  PROVE  Stored(newkey(h, k, v, n), h, k, v)
<1>1. /\ TableInv(h) /\ k \in Keys /\ m = mainposition(h, k) /\ m \in Positions(h) /\ h.node[m].key \in Keys /\ h.node[n].key = Nil
      /\ n \in Positions(h)
  BY DEF Collides
<1>2. PICK line, height : Linear(h, line, height) /\ Hung(h, line, height)
  BY <1>1 DEF TableInv, Chained
<1>3. n # m /\ h.node[n].next = 0 /\ h.node[m].key # Nil /\ main(h, m) \in Positions(h) /\ m # 0
  BY <1>1, <1>2, CollisionFacts DEF Positions
<1>4. Shape(h)
  BY <1>1 DEF TableInv
<1>5. CASE main(h, m) = m
  <2>1. Renewed(newkey(h, k, v, n), h, Inserted(h, m, n, k, v), n)
    BY <1>1, <1>3, <1>4, <1>5, NewKeyInserts DEF main
  <2> QED BY <1>5, <2>1, InsertedStores
<1>6. CASE main(h, m) # m
  <2> DEFINE h1 == [h EXCEPT !.lastfree = n]
             p == Previous(h1, m)
  <2>1. Renewed(h1, h, h.node, n)
    BY <1>1, <1>4, LastFreeSet
  <2> HIDE DEF h1
  <2>2. Shape(h1) /\ h1.node = h.node /\ Positions(h1) = Positions(h) /\ main(h1, m) = main(h, m)
    BY <2>1, SameSizes DEF Renewed
  <2>3. Linear(h1, line, height)
    BY <1>2, <2>2 DEF Linear
  <2>4. line[main(h, m)] = line[m] /\ height[main(h, m)] >= height[m]
    BY <1>1, <1>2, <1>3 DEF Hung
  <2>5. p \in Positions(h) /\ p # m /\ h.node[p].next = m
    BY <1>1, <1>3, <1>6, <2>2, <2>3, <2>4, PreviousFinds
  <2>6. p # n
    <3> HIDE DEF p
    <3> QED BY <1>3, <2>5
  <2>7. Renewed(newkey(h, k, v, n), h, Displaced(h, p, m, n, k, v), n)
    <3>1. PICK q : q = p
      OBVIOUS
    <3>2. q = Previous([h EXCEPT !.lastfree = n], m)
      BY <3>1 DEF h1
    <3> HIDE DEF p
    <3> QED BY <1>1, <1>3, <1>4, <1>6, <2>5, <2>6, <3>1, <3>2, NewKeyDisplaces DEF main
  <2> HIDE DEF p
  <2> QED BY <1>6, <2>5, <2>7, DisplacedStores
<1> QED BY <1>5, <1>6

\* There is no place for the new key k.
Stuck(h, k) ==
  /\ ~InArray(h, k) /\ \A x \in Positions(h) : h.node[x].key # k
  /\ h.dummy \/ \A x \in Positions(h) : h.node[x].key # Nil

\* An assignment succeeds, or finds no place.
LEMMA SetInStores ==
  ASSUME NEW h, TableInv(h), NEW k \in Keys, NEW v, NEW b, NEW r, r = SetIn([h |-> h, full |-> b], k, v)
  PROVE  \/ r = [h |-> r.h, full |-> b] /\ Stored(r.h, h, k, v)
         \/ r.full = TRUE /\ Stuck(h, k)
<1> DEFINE s == [h |-> h, full |-> b]
           n == Find(h, k, FALSE)
           m == mainposition(h, k)
           free == getfreepos(h)
<1>1. s.h = h /\ \A g : [s EXCEPT !.h = g] = [h |-> g, full |-> b]
  OBVIOUS
<1>2. r = IF InArray(h, k) THEN [s EXCEPT !.h = [h EXCEPT !.array[arrayindex(k)] = v]]
          ELSE IF n # 0 THEN [s EXCEPT !.h = Put(h, n, k, v)]
          ELSE IF Vacant(h, m) THEN [s EXCEPT !.h = Put(h, m, k, v)]
          ELSE IF free # 0 THEN [s EXCEPT !.h = newkey(h, k, v, free)]
          ELSE [s EXCEPT !.full = TRUE, !.h.lastfree = 1]
  <2>1. r = IF InArray(s.h, k) THEN [s EXCEPT !.h.array[arrayindex(k)] = v]
          ELSE IF Find(s.h, k, FALSE) # 0 THEN [s EXCEPT !.h = Put(s.h, Find(s.h, k, FALSE), k, v)]
          ELSE IF Vacant(s.h, mainposition(s.h, k)) THEN [s EXCEPT !.h = Put(s.h, mainposition(s.h, k), k, v)]
          ELSE IF getfreepos(s.h) # 0 THEN [s EXCEPT !.h = newkey(s.h, k, v, getfreepos(s.h))]
          ELSE [s EXCEPT !.full = TRUE, !.h.lastfree = 1]
    BY Zenon DEF SetIn
  <2>2. [s EXCEPT !.h.array[arrayindex(k)] = v] = [s EXCEPT !.h = [h EXCEPT !.array[arrayindex(k)] = v]]
    OBVIOUS
  <2> HIDE DEF s
  <2> QED BY <1>1, <2>1, <2>2, Zenon
<1>3. [s EXCEPT !.full = TRUE, !.h.lastfree = 1].full = TRUE
  OBVIOUS
<1> HIDE DEF s
<1>4. Shape(h) /\ Kinds(h) /\ m \in Positions(h) /\ sizenode(h) \in Nat \ {0}
  BY MainPosition DEF TableInv, Shape
<1>5. CASE InArray(h, k)
  BY <1>1, <1>2, <1>5, ArrayStores
<1>6. CASE ~InArray(h, k) /\ \E x \in Positions(h) : h.node[x].key = k
  <2>1. PICK x \in Positions(h) : h.node[x].key = k
    BY <1>6
  <2>2. n = x /\ x # 0
    <3>1. h.node[x].key \in Keys /\ FALSE \in BOOLEAN
      BY <2>1
    <3>2. Find(h, h.node[x].key, FALSE) = x
      BY <3>1, FindFinds
    <3>3. x # 0
      BY DEF Positions
    <3>4. Find(h, k, FALSE) = x
      BY <2>1, <3>2, Zenon
    <3> QED BY <3>3, <3>4
  <2>3. Stored(Put(h, x, k, v), h, k, v)
    BY <1>6, <2>1, PutStores
  <2> HIDE DEF n
  <2> QED BY <1>1, <1>2, <1>6, <2>2, <2>3
<1>7. CASE ~InArray(h, k) /\ \A x \in Positions(h) : h.node[x].key # k
  <2>1. n = 0
    BY <1>7, FindFails
  <2> HIDE DEF n
  <2>2. CASE Vacant(h, m)
    <3>1. h.node[m].val = Nil /\ ~h.dummy
      BY <2>2 DEF Vacant
    <3>2. Stored(Put(h, m, k, v), h, k, v)
      BY <1>4, <1>7, <3>1, PutStores
    <3> HIDE DEF m
    <3> QED BY <1>1, <1>2, <1>7, <2>1, <2>2, <3>2
  <2>3. CASE ~Vacant(h, m) /\ free # 0
    <3>1. free \in 0..(h.lastfree - 1) /\ free \in Positions(h) /\ h.node[free].key = Nil
          /\ \A x \in Positions(h) : x < h.lastfree /\ x > free => h.node[x].key # Nil
      BY <1>4, <2>3, FreePosition
    <3>2. ~h.dummy /\ free < h.lastfree
      BY <1>4, <2>3, <3>1 DEF TableInv, Unused, Shape
    <3>3. h.node[m].val # Nil
      BY <2>3, <3>2 DEF Vacant
    <3>4. h.node[m].key \in Keys
      BY <1>4, <3>3 DEF Kinds
    <3>5. Collides(h, k, free, m)
      BY <1>4, <1>7, <3>1, <3>2, <3>4 DEF Collides
    <3>6. Stored(newkey(h, k, v, free), h, k, v)
      BY <3>5, NewKeyStores
    <3> HIDE DEF m, free
    <3> QED BY <1>1, <1>2, <1>7, <2>1, <2>3, <3>6
  <2>4. CASE ~Vacant(h, m) /\ free = 0
    <3>1. r.full = TRUE
      <4> HIDE DEF m, free
      <4> QED BY <1>2, <1>3, <1>7, <2>1, <2>4
    <3>2. \A x \in Positions(h) : x < h.lastfree => h.node[x].key # Nil
      BY <1>4, <2>4, FreePosition DEF Positions
    <3>3. h.dummy \/ \A x \in Positions(h) : h.node[x].key # Nil
      <4> SUFFICES ASSUME ~h.dummy, NEW x \in Positions(h) PROVE h.node[x].key # Nil
        OBVIOUS
      <4>1. x \in Int /\ h.lastfree \in Int
        BY <1>4 DEF Positions, Shape
      <4>2. x >= h.lastfree => h.node[x].key # Nil
        BY DEF TableInv, FreeBelow
      <4> QED BY <3>2, <4>1, <4>2
    <3> QED BY <1>7, <3>1, <3>3 DEF Stuck
  <2> QED BY <2>2, <2>3, <2>4
<1> QED BY <1>5, <1>6, <1>7

-----------------------------------------------------------------------------
(* Rehash.                                                                 *)

\* A set whose elements are values of f on a finite set has no more elements than that.
LEMMA Covered ==
  ASSUME NEW S, IsFiniteSet(S), NEW f, NEW T, \A y \in T : \E x \in S : f[x] = y
  PROVE  IsFiniteSet(T) /\ Cardinality(T) <= Cardinality(S) /\ Cardinality(T) \in Nat /\ Cardinality(S) \in Nat
<1> DEFINE R == {x \in S : f[x] \in T}
           g == [x \in R |-> f[x]]
<1>1. IsFiniteSet(R) /\ Cardinality(R) <= Cardinality(S) /\ R \in SUBSET S
  <2>1. R \in SUBSET S
    OBVIOUS
  <2> HIDE DEF R
  <2> QED BY <2>1, FS_Subset
<1>2. g \in Surjection(R, T)
  BY DEF Surjection
<1> HIDE DEF g, R
<1>3. IsFiniteSet(T) /\ Cardinality(T) <= Cardinality(R)
  BY <1>1, <1>2, FS_Surjection
<1>4. Cardinality(S) \in Nat /\ Cardinality(R) \in Nat /\ Cardinality(T) \in Nat
  BY <1>1, <1>3, FS_CardinalityType
<1> QED BY <1>1, <1>3, <1>4

\* The first n numbers are n.
LEMMA IntervalSize ==
  ASSUME NEW n \in Nat
  PROVE  IsFiniteSet(1..n) /\ Cardinality(1..n) = n
<1>1. IsFiniteSet(1..n) /\ Cardinality(1..n) = IF 1 > n THEN 0 ELSE n - 1 + 1
  BY FS_Interval
<1> QED BY <1>1

\* The powers of two grow faster than their exponents.
LEMMA PowersOfTwo == \A i \in Nat : twoto[i] \in Nat /\ twoto[i] > i
<1> DEFINE Power(f) == f = [i \in Nat |-> IF i = 0 THEN 1 ELSE 2 * f[i - 1]]
<1>1. \E f : Power(f)
  <2> DEFINE step == [p \in Nat \X Nat |-> 2 * p[2]]
  <2>1. step \in [Nat \X Nat -> Nat]
    OBVIOUS
  <2>2. \A n \in Nat, m \in Nat : step[<<n, m>>] = 2 * m
    OBVIOUS
  <2> HIDE DEF step
  <2>3. PICK f : IsIteration(f, Nat, 1, step)
    BY <2>1, Recursion
  <2>4. f \in [Nat -> Nat] /\ f[0] = 1 /\ \A n \in Nat : f[n + 1] = 2 * f[n]
    BY <2>2, <2>3 DEF IsIteration
  <2>5. ASSUME NEW i \in Nat PROVE f[i] = IF i = 0 THEN 1 ELSE 2 * f[i - 1]
    <3>1. CASE i = 0
      BY <2>4, <3>1
    <3>2. CASE i # 0
      <4>1. i - 1 \in Nat /\ (i - 1) + 1 = i
        BY <3>2
      <4> QED BY <2>4, <3>2, <4>1
    <3> QED BY <3>1, <3>2
  <2>6. Power(f)
    BY <2>4, <2>5
  <2> QED BY <2>6
<1>2. Power(twoto)
  <2>1. twoto = CHOOSE f : Power(f)
    BY DEF twoto
  <2> HIDE DEF Power
  <2> QED BY <1>1, <2>1
<1>3. twoto[0] = 1 /\ \A i \in Nat : twoto[i + 1] = 2 * twoto[i]
  BY <1>2
<1> DEFINE G == {i \in Nat : twoto[i] \in Nat /\ twoto[i] > i}
<1>4. 0 \in G /\ \A i \in Nat : i \in G => i + 1 \in G
  BY <1>3
<1>5. Nat \subseteq G
  <2> HIDE DEF G
  <2> QED BY <1>4, Induction
<1> QED BY <1>5

\* The least element that Min names.
LEMMA LeastIs ==
  ASSUME NEW S \in SUBSET Nat, S # {}
  PROVE  Min(S) \in S /\ \A x \in S : Min(S) <= x
<1>1. \E n \in S : \A m \in S : n <= m
  BY LeastElement
<1> QED BY <1>1, Zenon DEF Min

\* ceillog2 is large enough.
LEMMA LogIsEnough ==
  ASSUME NEW x \in Nat
  PROVE  ceillog2(x) \in Nat /\ twoto[ceillog2(x)] >= x
<1> DEFINE S == {i \in 0..x : twoto[i] >= x}
<1>1. twoto[x] \in Nat /\ twoto[x] > x
  BY PowersOfTwo
<1>2. S \in SUBSET Nat /\ x \in S
  BY <1>1
<1> HIDE DEF S
<1>3. Min(S) \in S
  BY <1>2, LeastIs
<1>4. ceillog2(x) = Min(S)
  BY DEF ceillog2, S
<1> QED BY <1>2, <1>3, <1>4 DEF S

\* Nodes that were never used form no chains.
LEMMA NoChains ==
  ASSUME NEW g, \A x \in Positions(g) : g.node[x].key = Nil /\ g.node[x].val = Nil /\ g.node[x].next = 0
  PROVE  Chained(g) /\ Kinds(g) /\ InPlace(g) /\ Single(g) /\ Apart(g)
<1>1. PICK line, height : line = [x \in Positions(g) |-> x] /\ height = [x \in Positions(g) |-> 0]
  OBVIOUS
<1>2. /\ line \in [Positions(g) -> Positions(g)] /\ height \in [Positions(g) -> Nat]
      /\ \A x \in Positions(g) : line[x] = x /\ height[x] = 0
  <2>1. PICK P : P = Positions(g)
    OBVIOUS
  <2> QED BY <1>1, <2>1
<1>3. Linear(g, line, height)
  BY <1>2 DEF Linear
<1>4. \A j \in Keys : j # Nil
  BY KeysDiffer
<1>5. Hung(g, line, height)
  BY <1>2, <1>4 DEF Hung
<1> QED BY <1>3, <1>4, <1>5 DEF Chained, Kinds, InPlace, Single, Apart

\* nv has n empty nodes, and room for size keys.
EmptyVector(nv, n, size) ==
  /\ nv.node = [x \in 1..n |-> EmptyNode] /\ Len(nv.node) = n /\ size <= n
  /\ nv.dummy = (size = 0) /\ (size = 0 => n = 1)
  /\ nv.lastfree = IF size = 0 THEN 1 ELSE n + 1

\* A node vector is empty and large enough; the dummynode stands for no nodes.
LEMMA EmptyNodes ==
  ASSUME NEW size \in Nat, NEW nv, nv = NodeVector(size)
  PROVE  \E n \in Nat \ {0} : EmptyVector(nv, n, size)
<1>1. CASE size = 0
  <2>1. nv = [node |-> <<EmptyNode>>, dummy |-> TRUE, lastfree |-> 1]
    BY <1>1 DEF NodeVector
  <2>2. <<EmptyNode>> = [x \in 1..1 |-> EmptyNode] /\ Len(<<EmptyNode>>) = 1
    OBVIOUS
  <2>3. /\ nv.node = [x \in 1..1 |-> EmptyNode] /\ Len(nv.node) = 1 /\ size <= 1
        /\ nv.lastfree = IF size = 0 THEN 1 ELSE 1 + 1
    BY <1>1, <2>1, <2>2
  <2>4. nv.dummy = TRUE
    BY <2>1
  <2>5. nv.dummy = (size = 0)
    BY <1>1, <2>4, Zenon
  <2>6. EmptyVector(nv, 1, size)
    BY <2>3, <2>5 DEF EmptyVector
  <2> QED BY <2>6
<1>2. CASE size # 0
  <2>1. PICK n : n = twoto[ceillog2(size)]
    OBVIOUS
  <2>2. n \in Nat \ {0} /\ size <= n
    <3>1. n \in Nat /\ size <= n
      BY <2>1, LogIsEnough, PowersOfTwo
    <3> QED BY <1>2, <3>1
  <2>3. nv = [node |-> [i \in 1..n |-> EmptyNode], dummy |-> FALSE, lastfree |-> n + 1]
    BY <1>2, <2>1 DEF NodeVector
  <2>4. nv.node = [x \in 1..n |-> EmptyNode] /\ nv.dummy = FALSE /\ nv.lastfree = n + 1
    BY <2>3
  <2>5. Len(nv.node) = n
    <3>1. nv.node = [x \in 1..n |-> nv.node[x]]
      BY <2>4
    <3> QED BY <2>2, <3>1, LengthOf
  <2>6. nv.dummy = (size = 0)
    BY <1>2, <2>4, Zenon
  <2>7. EmptyVector(nv, n, size)
    BY <1>2, <2>2, <2>4, <2>5, <2>6 DEF EmptyVector
  <2> QED BY <2>2, <2>7
<1> QED BY <1>1, <1>2

\* The table to which resize moves the entries.
Fresh(h, nasize, nhsize) ==
  LET nv == NodeVector(nhsize) IN
  [array |-> [i \in 1..nasize |-> IF i <= Len(h.array) THEN h.array[i] ELSE Nil],
   node |-> nv.node, dummy |-> nv.dummy, lastfree |-> nv.lastfree]

\* g is of the given sizes and holds the entries of the array of h that still fit.
Cut(g, h, nasize, nhsize) ==
  /\ TableInv(g) /\ Len(g.array) = nasize /\ nhsize <= sizenode(g) /\ sizenode(g) \in Nat /\ g.dummy = (nhsize = 0)
  /\ \A x \in Positions(g) : g.node[x].key = Nil
  /\ \A j \in Keys : luaH_get(g, j) = IF arrayindex(j) \in 1..nasize /\ arrayindex(j) <= Len(h.array)
                                       THEN h.array[arrayindex(j)] ELSE Nil

\* The entries of the array that still fit stay, all nodes are empty.
LEMMA FreshTable ==
  ASSUME NEW h, TableInv(h), NEW nasize \in Nat, NEW nhsize \in Nat, NEW g, g = Fresh(h, nasize, nhsize)
  PROVE  Cut(g, h, nasize, nhsize)
<1> DEFINE a == [i \in 1..nasize |-> IF i <= Len(h.array) THEN h.array[i] ELSE Nil]
<1>1. PICK nv : nv = NodeVector(nhsize)
  OBVIOUS
<1> PICK n \in Nat \ {0} : EmptyVector(nv, n, nhsize)
  BY <1>1, EmptyNodes
<1>2. /\ nv.node = [x \in 1..n |-> EmptyNode] /\ Len(nv.node) = n /\ nhsize <= n
      /\ nv.dummy = (nhsize = 0) /\ (nhsize = 0 => n = 1)
      /\ nv.lastfree = IF nhsize = 0 THEN 1 ELSE n + 1
  BY DEF EmptyVector
<1>3. g = [array |-> a, node |-> nv.node, dummy |-> nv.dummy, lastfree |-> nv.lastfree]
  BY <1>1 DEF Fresh
<1>4. Len(a) = nasize /\ a = [i \in 1..Len(a) |-> a[i]]
  <2>1. a = [i \in 1..nasize |-> a[i]]
    OBVIOUS
  <2> HIDE DEF a
  <2>2. Len(a) = nasize
    BY <2>1, LengthOf
  <2> QED BY <2>1, <2>2
<1>5. \A i \in 1..nasize : a[i] = IF i <= Len(h.array) THEN h.array[i] ELSE Nil
  OBVIOUS
<1> HIDE DEF a
<1>6. /\ g.array = a /\ g.node = [x \in 1..n |-> EmptyNode] /\ g.lastfree = (IF nhsize = 0 THEN 1 ELSE n + 1)
      /\ g.dummy = (nhsize = 0) /\ sizenode(g) = n /\ Positions(g) = 1..n
      /\ g = [array |-> g.array, node |-> g.node, dummy |-> g.dummy, lastfree |-> g.lastfree]
  <2>1. g.array = a /\ g.node = [x \in 1..n |-> EmptyNode] /\ g.lastfree = (IF nhsize = 0 THEN 1 ELSE n + 1) /\ g.node = nv.node
    BY <1>2, <1>3
  <2>2. g.dummy = nv.dummy /\ g = [array |-> g.array, node |-> g.node, dummy |-> g.dummy, lastfree |-> g.lastfree]
    BY <1>3
  <2>3. g.dummy = (nhsize = 0)
    BY <1>2, <2>2, Zenon
  <2>4. sizenode(g) = n
    BY <1>2, <2>1 DEF sizenode
  <2> QED BY <2>1, <2>2, <2>3, <2>4 DEF Positions
<1>7. \A x \in Positions(g) : g.node[x] = EmptyNode /\ g.node[x].key = Nil /\ g.node[x].val = Nil /\ g.node[x].next = 0
  BY <1>6 DEF EmptyNode
<1>8. Shape(g)
  <2>1. g.lastfree \in 1..(sizenode(g) + 1)
    BY <1>2, <1>6
  <2>2. \A x \in Positions(g) : IsNode(g.node[x]) /\ g.node[x].next \in 0..sizenode(g)
    BY <1>2, <1>6, <1>7 DEF IsNode, EmptyNode
  <2>3. g.dummy \in BOOLEAN
    BY <1>6, Zenon
  <2>4. g.node = [x \in Positions(g) |-> g.node[x]]
    BY <1>6
  <2>5. Len(g.array) \in Nat /\ g.array = [i \in 1..Len(g.array) |-> g.array[i]]
    BY <1>4, <1>6
  <2>6. sizenode(g) \in Nat \ {0}
    BY <1>2, <1>6
  <2> QED BY <1>6, <2>1, <2>2, <2>3, <2>4, <2>5, <2>6 DEF Shape
<1>10. Chained(g) /\ Kinds(g) /\ InPlace(g) /\ Single(g) /\ Apart(g)
  BY <1>7, NoChains
<1>11. FreeBelow(g)
  <2> SUFFICES ASSUME ~g.dummy, NEW x \in Positions(g), x >= g.lastfree PROVE FALSE
    BY DEF FreeBelow
  <2>1. nhsize # 0
    BY <1>6
  <2> QED BY <1>2, <1>6, <2>1
<1>12. Unused(g)
  <2> SUFFICES ASSUME g.dummy PROVE sizenode(g) = 1 /\ g.node[1].key = Nil /\ g.lastfree = 1
    BY DEF Unused
  <2>1. nhsize = 0
    BY <1>6
  <2> QED BY <1>2, <1>6, <1>7, <2>1
<1>13. ArrayKeys(g)
  <2> SUFFICES ASSUME NEW i \in 1..Len(g.array), g.array[i] # Nil PROVE <<"int", i>> \in Keys
    BY DEF ArrayKeys
  <2>1. i \in 1..Len(h.array) /\ h.array[i] # Nil
    BY <1>4, <1>5, <1>6 DEF TableInv, Shape
  <2> QED BY <2>1 DEF TableInv, ArrayKeys
<1>14. TableInv(g)
  BY <1>8, <1>10, <1>11, <1>12, <1>13 DEF TableInv
<1>15. ASSUME NEW j \in Keys
       PROVE  luaH_get(g, j) = IF arrayindex(j) \in 1..nasize /\ arrayindex(j) <= Len(h.array) THEN h.array[arrayindex(j)] ELSE Nil
  <2>1. CASE arrayindex(j) \in 1..nasize
    <3>1. InArray(g, j)
      BY <1>4, <1>6, <2>1 DEF InArray
    <3>2. luaH_get(g, j) = g.array[arrayindex(j)]
      BY <1>14, <3>1, GetValue
    <3> QED BY <1>5, <1>6, <2>1, <3>2
  <2>2. CASE arrayindex(j) \notin 1..nasize
    <3>1. ~InArray(g, j)
      BY <1>4, <1>6, <2>2 DEF InArray
    <3>2. j # Nil
      BY KeysDiffer
    <3>3. luaH_get(g, j) = Nil
      BY <1>7, <1>14, <3>1, <3>2, GetValue
    <3> QED BY <2>2, <3>3
  <2> QED BY <2>1, <2>2
<1> QED BY <1>2, <1>4, <1>6, <1>7, <1>14, <1>15 DEF Cut

\* g has room for all keys of K, and no others in its nodes.
Fits(g, K) ==
  /\ TableInv(g) /\ K \in SUBSET Keys /\ IsFiniteSet(K) /\ Cardinality(K) <= sizenode(g) /\ (g.dummy => K = {})
  /\ \A x \in Positions(g) : g.node[x].key = Nil \/ g.node[x].key \in K

\* Such a table has a place for a key of K.
LEMMA NotStuck ==
  ASSUME NEW g, NEW K, Fits(g, K), NEW k \in Keys, InArray(g, k) \/ k \in K
  PROVE  ~Stuck(g, k)
<1> SUFFICES ASSUME Stuck(g, k) PROVE FALSE
  OBVIOUS
<1>1. k \in K /\ ~g.dummy /\ \A x \in Positions(g) : g.node[x].key # k /\ g.node[x].key # Nil
  BY DEF Stuck, Fits
<1> DEFINE f == [x \in Positions(g) |-> g.node[x].key]
<1>2. sizenode(g) \in Nat \ {0}
  BY DEF Fits, TableInv, Shape
<1>3. IsFiniteSet(K \ {k}) /\ Cardinality(K \ {k}) = Cardinality(K) - 1 /\ Cardinality(K) \in Nat
  BY <1>1, FS_RemoveElement, FS_CardinalityType DEF Fits
<1>4. f \in [Positions(g) -> K \ {k}]
  BY <1>1 DEF Fits
<1>5. IsFiniteSet(Positions(g)) /\ Cardinality(Positions(g)) = sizenode(g)
  BY <1>2, IntervalSize DEF Positions
<1>6. Cardinality(K \ {k}) < Cardinality(Positions(g))
  BY <1>2, <1>3, <1>5 DEF Fits
<1>7. \E x, y \in Positions(g) : x # y /\ f[x] = f[y]
  <2> HIDE DEF f
  <2> QED BY <1>3, <1>4, <1>5, <1>6, FS_PigeonHole
<1>8. PICK x \in Positions(g), y \in Positions(g) : x # y /\ g.node[x].key = g.node[y].key
  BY <1>7
<1>9. g.node[x].key \in Keys
  BY <1>1 DEF Fits
<1> QED BY <1>8, <1>9 DEF Fits, TableInv, Single

\* f[i] is what is left of a after the first i assignments.
Fills(f, n, a, skip, ks, vs) ==
  f = [i \in 0..n |-> IF i = 0 THEN a ELSE IF i \in skip THEN f[i - 1] ELSE SetIn(f[i - 1], ks[i], vs[i])]

\* A finite row of assignments can be made.
LEMMA FillExists ==
  ASSUME NEW a, NEW skip, NEW ks, NEW vs
  PROVE  \A n \in Nat : \E f : Fills(f, n, a, skip, ks, vs)
<1> DEFINE G == {n \in Nat : \E f : Fills(f, n, a, skip, ks, vs)}
           Next1(x, i) == IF i \in skip THEN x ELSE SetIn(x, ks[i], vs[i])
<1>1. 0 \in G
  <2> DEFINE f == [i \in 0..0 |-> a]
  <2>1. \A i \in 0..0 : i = 0
    OBVIOUS
  <2>2. Fills(f, 0, a, skip, ks, vs)
    BY <2>1 DEF Fills
  <2> QED BY <2>2
<1>2. ASSUME NEW n \in Nat, n \in G PROVE n + 1 \in G
  <2>1. PICK f : Fills(f, n, a, skip, ks, vs)
    BY <1>2
  <2>2. f = [i \in 0..n |-> IF i = 0 THEN a ELSE Next1(f[i - 1], i)]
    BY <2>1 DEF Fills
  <2> HIDE DEF Next1
  <2> DEFINE g == [i \in 0..(n + 1) |-> IF i = n + 1 THEN Next1(f[n], n + 1) ELSE f[i]]
  <2>3. \A i \in 0..n : g[i] = f[i]
    OBVIOUS
  <2>4. g[n + 1] = Next1(f[n], n + 1)
    OBVIOUS
  <2>5. g = [i \in 0..(n + 1) |-> g[i]]
    OBVIOUS
  <2> HIDE DEF g
  <2>6. ASSUME NEW i \in 0..(n + 1) PROVE g[i] = IF i = 0 THEN a ELSE Next1(g[i - 1], i)
    <3>1. CASE i = n + 1
      <4>1. (n + 1) - 1 = n /\ n \in 0..n /\ n + 1 # 0
        OBVIOUS
      <4> QED BY <2>3, <2>4, <3>1, <4>1
    <3>2. CASE i # n + 1 /\ i # 0
      <4>1. i \in 0..n /\ i - 1 \in 0..n
        BY <3>2
      <4>2. f[i] = Next1(f[i - 1], i)
        BY <2>2, <3>2, <4>1
      <4> QED BY <2>3, <3>2, <4>1, <4>2
    <3>3. CASE i = 0
      <4>1. 0 \in 0..n
        OBVIOUS
      <4> QED BY <2>2, <2>3, <3>3, <4>1
    <3> QED BY <3>1, <3>2, <3>3
  <2>7. g = [i \in 0..(n + 1) |-> IF i = 0 THEN a ELSE Next1(g[i - 1], i)]
    BY <2>5, <2>6
  <2>8. Fills(g, n + 1, a, skip, ks, vs)
    BY <2>7 DEF Fills, Next1
  <2> QED BY <2>8
<1>3. Nat \subseteq G
  <2> HIDE DEF G
  <2> QED BY <1>1, <1>2, Induction
<1> QED BY <1>3

\* What a row of assignments leaves of g0: the keys have got their values.
FilledTo(r, g0, K, done, ks, vs) ==
  /\ r = [h |-> r.h, full |-> FALSE]
  /\ Fits(r.h, K) /\ Len(r.h.array) = Len(g0.array) /\ sizenode(r.h) = sizenode(g0) /\ r.h.dummy = g0.dummy
  /\ \A i \in done : luaH_get(r.h, ks[i]) = vs[i]
  /\ \A j \in Keys : (\A i \in done : ks[i] # j) => luaH_get(r.h, j) = luaH_get(g0, j)

\* The keys that a row of assignments gives values to.
Assignable(g0, K, todo, ks) ==
  /\ \A i \in todo : ks[i] \in Keys /\ (InArray(g0, ks[i]) \/ ks[i] \in K)
  /\ \A i, j \in todo : ks[i] = ks[j] => i = j

\* One more assignment.
LEMMA OneMore ==
  ASSUME NEW g0, NEW K, NEW done, NEW ks, NEW vs, NEW r, FilledTo(r, g0, K, done, ks, vs),
         NEW i, i \notin done, Assignable(g0, K, done \cup {i}, ks), NEW q, q = SetIn(r, ks[i], vs[i])
  PROVE  FilledTo(q, g0, K, done \cup {i}, ks, vs)
<1> DEFINE k == ks[i]
           v == vs[i]
           h == r.h
<1>1. k \in Keys /\ (InArray(g0, k) \/ k \in K) /\ \A x \in done : ks[x] # k /\ ks[x] \in Keys
  BY DEF Assignable
<1>2. Fits(h, K) /\ TableInv(h) /\ Len(h.array) = Len(g0.array) /\ sizenode(h) = sizenode(g0) /\ h.dummy = g0.dummy /\ r = [h |-> h, full |-> FALSE]
  BY DEF FilledTo, Fits
<1>3. InArray(h, k) \/ k \in K
  BY <1>1, <1>2, SameSizes
<1> HIDE DEF h, k, v
<1>4. ~Stuck(h, k)
  BY <1>1, <1>2, <1>3, NotStuck
<1>5. q = SetIn([h |-> h, full |-> FALSE], k, v)
  BY <1>2 DEF k, v
<1>6. q = [h |-> q.h, full |-> FALSE] /\ Stored(q.h, h, k, v)
  BY <1>1, <1>2, <1>4, <1>5, SetInStores
<1>7. PICK g : g = q.h
  OBVIOUS
<1>8. /\ TableInv(g) /\ Len(g.array) = Len(h.array) /\ sizenode(g) = sizenode(h) /\ g.dummy = h.dummy
      /\ \A j \in Keys : luaH_get(g, j) = IF j = k THEN v ELSE luaH_get(h, j)
      /\ \A x \in Positions(h) :
           \/ \E y \in Positions(h) : g.node[x].key = h.node[y].key
           \/ g.node[x].key = k /\ ~InArray(h, k)
  BY <1>6, <1>7 DEF Stored
<1>9. Positions(g) = Positions(h)
  BY <1>8, SameSizes
<1>10. Fits(g, K)
  <2>1. \A x \in Positions(g) : g.node[x].key = Nil \/ g.node[x].key \in K
    BY <1>2, <1>3, <1>8, <1>9 DEF Fits
  <2> QED BY <1>2, <1>8, <2>1 DEF Fits
<1>11. ASSUME NEW x \in done \cup {i} PROVE luaH_get(g, ks[x]) = vs[x]
  <2>1. CASE x = i
    BY <1>1, <1>8, <2>1 DEF k, v
  <2>2. CASE x # i
    <3>1. luaH_get(h, ks[x]) = vs[x]
      BY <2>2 DEF FilledTo, h
    <3> QED BY <1>1, <1>8, <2>2, <3>1
  <2> QED BY <2>1, <2>2
<1>12. ASSUME NEW j \in Keys, \A x \in done \cup {i} : ks[x] # j PROVE luaH_get(g, j) = luaH_get(g0, j)
  <2>1. j # k /\ \A x \in done : ks[x] # j
    BY <1>12 DEF k
  <2>2. luaH_get(h, j) = luaH_get(g0, j)
    BY <2>1 DEF FilledTo, h
  <2> QED BY <1>8, <2>1, <2>2
<1> QED BY <1>2, <1>6, <1>7, <1>8, <1>10, <1>11, <1>12 DEF FilledTo

\* A row of assignments with enough room.
LEMMA FillStores ==
  ASSUME NEW n \in Nat, NEW f, NEW a, NEW skip, NEW ks, NEW vs, Fills(f, n, a, skip, ks, vs), NEW g0, NEW K,
         a = [h |-> g0, full |-> FALSE], Fits(g0, K), Assignable(g0, K, (1..n) \ skip, ks)
  PROVE  FilledTo(f[n], g0, K, (1..n) \ skip, ks, vs)
<1> DEFINE G == {m \in Nat : m <= n => FilledTo(f[m], g0, K, (1..m) \ skip, ks, vs)}
<1>1. \A i \in 0..n : f[i] = IF i = 0 THEN a ELSE IF i \in skip THEN f[i - 1] ELSE SetIn(f[i - 1], ks[i], vs[i])
  BY DEF Fills
<1>2. 0 \in G
  <2>1. f[0] = a /\ (1..0) \ skip = {}
    <3>1. 0 \in 0..n /\ 1..0 = {}
      OBVIOUS
    <3> QED BY <1>1, <3>1, Zenon
  <2>2. FilledTo(a, g0, K, {}, ks, vs)
    BY DEF FilledTo
  <2> QED BY <2>1, <2>2
<1>3. ASSUME NEW m \in Nat, m \in G PROVE m + 1 \in G
  <2> SUFFICES ASSUME m + 1 <= n PROVE FilledTo(f[m + 1], g0, K, (1..(m + 1)) \ skip, ks, vs)
    OBVIOUS
  <2>1. FilledTo(f[m], g0, K, (1..m) \ skip, ks, vs)
    BY <1>3
  <2>2. m + 1 \in 0..n /\ m + 1 # 0 /\ (m + 1) - 1 = m
    OBVIOUS
  <2>3. CASE m + 1 \in skip
    <3>1. (1..(m + 1)) \ skip = (1..m) \ skip
      BY <2>3
    <3>2. f[m + 1] = f[m]
      BY <1>1, <2>2, <2>3
    <3> QED BY <2>1, <3>1, <3>2
  <2>4. CASE m + 1 \notin skip
    <3>1. (1..(m + 1)) \ skip = ((1..m) \ skip) \cup {m + 1} /\ m + 1 \notin (1..m) \ skip
      BY <2>4
    <3>2. f[m + 1] = SetIn(f[m], ks[m + 1], vs[m + 1])
      BY <1>1, <2>2, <2>4
    <3>3. Assignable(g0, K, ((1..m) \ skip) \cup {m + 1}, ks)
      <4>1. ((1..m) \ skip) \cup {m + 1} \subseteq (1..n) \ skip
        BY <2>4
      <4> QED BY <4>1 DEF Assignable
    <3>4. FilledTo(f[m + 1], g0, K, ((1..m) \ skip) \cup {m + 1}, ks, vs)
      BY <2>1, <3>1, <3>2, <3>3, OneMore
    <3> QED BY <3>1, <3>4
  <2> QED BY <2>3, <2>4
<1>4. Nat \subseteq G
  <2> HIDE DEF G
  <2> QED BY <1>2, <1>3, Induction
<1> QED BY <1>4

\* The keys with a value that do not belong into an array of na items.
Behind(h, na) == {j \in Keys : luaH_get(h, j) # Nil /\ arrayindex(j) \notin 1..na}

\* Where the value of a key is.
LEMMA ValueIsThere ==
  ASSUME NEW h, TableInv(h), NEW j \in Keys, luaH_get(h, j) # Nil
  PROVE  \/ InArray(h, j) /\ h.array[arrayindex(j)] = luaH_get(h, j) /\ j = <<"int", arrayindex(j)>>
         \/ \E x \in Positions(h) : h.node[x].key = j /\ h.node[x].val = luaH_get(h, j)
<1>1. CASE InArray(h, j)
  <2>1. arrayindex(j) \in Nat
    BY <1>1 DEF InArray, TableInv, Shape
  <2>2. j[1] = "int" /\ j[2] = arrayindex(j)
    BY <2>1 DEF arrayindex
  <2>3. j = <<"int", arrayindex(j)>>
    BY <2>2, LuaTableAssumption
  <2> QED BY <1>1, <2>3, GetValue
<1>2. CASE ~InArray(h, j)
  BY <1>2, GetValue
<1> QED BY <1>1, <1>2

\* There are not more of them than places.
LEMMA BehindFinite ==
  ASSUME NEW h, TableInv(h), NEW na
  PROVE  IsFiniteSet(Behind(h, na)) /\ Cardinality(Behind(h, na)) \in Nat
<1> DEFINE L == Len(h.array)
           N == sizenode(h)
           f == [x \in 1..(L + N) |-> IF x <= L THEN <<"int", x>> ELSE h.node[x - L].key]
<1>1. L \in Nat /\ N \in Nat
  BY DEF TableInv, Shape
<1>2. ASSUME NEW j \in Behind(h, na) PROVE \E x \in 1..(L + N) : f[x] = j
  <2>1. j \in Keys /\ luaH_get(h, j) # Nil
    BY DEF Behind
  <2>2. CASE InArray(h, j) /\ j = <<"int", arrayindex(j)>>
    <3>1. arrayindex(j) \in 1..(L + N) /\ arrayindex(j) <= L
      BY <1>1, <2>2 DEF InArray
    <3>2. f[arrayindex(j)] = j
      BY <2>2, <3>1
    <3> HIDE DEF f
    <3> QED BY <3>1, <3>2
  <2>3. CASE \E x \in Positions(h) : h.node[x].key = j
    <3>1. PICK x \in Positions(h) : h.node[x].key = j
      BY <2>3
    <3>2. L + x \in 1..(L + N) /\ ~(L + x <= L) /\ (L + x) - L = x
      BY <1>1 DEF Positions
    <3>3. f[L + x] = j
      BY <3>1, <3>2
    <3> HIDE DEF f
    <3> QED BY <3>2, <3>3
  <2> QED BY <2>1, <2>2, <2>3, ValueIsThere
<1>3. IsFiniteSet(1..(L + N))
  BY <1>1, FS_Interval, SMTT(30)
<1> HIDE DEF f, L, N
<1>4. PICK S, T, g : S = 1..(L + N) /\ T = Behind(h, na) /\ g = f
  OBVIOUS
<1>5. IsFiniteSet(S) /\ \A y \in T : \E x \in S : g[x] = y
  BY <1>2, <1>3, <1>4, Zenon
<1>6. IsFiniteSet(T) /\ Cardinality(T) \in Nat
  BY <1>5, Covered
<1> QED BY <1>4, <1>6

\* The two rows of assignments of resize: the vanishing slice of the array, then the nodes.
Rows(h, nasize, g0, L, N, slice, moved) ==
  /\ Fills(slice, L, [h |-> g0, full |-> FALSE],
           {i \in 1..L : i <= nasize \/ h.array[i] = Nil}, [i \in 1..L |-> <<"int", i>>], [i \in 1..L |-> h.array[i]])
  /\ Fills(moved, N, slice[L], {i \in 1..N : h.node[N + 1 - i].val = Nil},
           [i \in 1..N |-> h.node[N + 1 - i].key], [i \in 1..N |-> h.node[N + 1 - i].val])

\* resize makes the two parts from the old ones in two rows of assignments.
LEMMA ResizeRuns ==
  ASSUME NEW h, NEW nasize, NEW nhsize, NEW L, L = Len(h.array), L \in Nat, NEW N, N = sizenode(h), N \in Nat,
         NEW g0, g0 = Fresh(h, nasize, nhsize)
  PROVE  \E slice, moved : Rows(h, nasize, g0, L, N, slice, moved) /\ resize(h, nasize, nhsize) = moved[N]
<1> DEFINE a == [h |-> g0, full |-> FALSE]
           skip1 == {i \in 1..L : i <= nasize \/ h.array[i] = Nil}
           ks1 == [i \in 1..L |-> <<"int", i>>]
           vs1 == [i \in 1..L |-> h.array[i]]
           skip2 == {i \in 1..N : h.node[N + 1 - i].val = Nil}
           ks2 == [i \in 1..N |-> h.node[N + 1 - i].key]
           vs2 == [i \in 1..N |-> h.node[N + 1 - i].val]
           Slice(f) == f = [i \in 0..L |->
             IF i = 0 THEN a
             ELSE IF i <= nasize \/ h.array[i] = Nil THEN f[i - 1]
             ELSE SetIn(f[i - 1], <<"int", i>>, h.array[i])]
           slice == CHOOSE f : Slice(f)
           Moved(f) == f = [i \in 0..N |->
             IF i = 0 THEN slice[L]
             ELSE IF h.node[N + 1 - i].val = Nil THEN f[i - 1]
             ELSE SetIn(f[i - 1], h.node[N + 1 - i].key, h.node[N + 1 - i].val)]
           moved == CHOOSE f : Moved(f)
<1>1. resize(h, nasize, nhsize) = moved[N]
  BY DEF resize, Fresh
<1> HIDE DEF a
<1>2. ASSUME NEW f PROVE Slice(f) <=> Fills(f, L, a, skip1, ks1, vs1)
  <2>1. ASSUME NEW i \in 0..L
        PROVE  (IF i = 0 THEN a
                ELSE IF i <= nasize \/ h.array[i] = Nil THEN f[i - 1]
                ELSE SetIn(f[i - 1], <<"int", i>>, h.array[i]))
               = (IF i = 0 THEN a ELSE IF i \in skip1 THEN f[i - 1] ELSE SetIn(f[i - 1], ks1[i], vs1[i]))
    <3>1. CASE i = 0
      BY <3>1
    <3>2. CASE i # 0
      <4>1. i \in 1..L
        BY <3>2
      <4>2. ks1[i] = <<"int", i>> /\ vs1[i] = h.array[i] /\ (i \in skip1 <=> i <= nasize \/ h.array[i] = Nil)
        BY <4>1
      <4> HIDE DEF ks1, vs1, skip1
      <4> QED BY <3>2, <4>2
    <3> QED BY <3>1, <3>2
  <2> HIDE DEF ks1, vs1, skip1
  <2> QED BY <2>1, Zenon DEF Fills
<1>3. \E f : Slice(f)
  <2>1. PICK f : Fills(f, L, a, skip1, ks1, vs1)
    <3> HIDE DEF ks1, vs1, skip1
    <3> QED BY FillExists
  <2> HIDE DEF Slice, ks1, vs1, skip1
  <2> QED BY <1>2, <2>1
<1>4. Slice(slice)
  <2> HIDE DEF Slice
  <2> QED BY <1>3
<1>5. Fills(slice, L, a, skip1, ks1, vs1)
  <2> HIDE DEF Slice, slice, ks1, vs1, skip1
  <2> QED BY <1>2, <1>4
<1> HIDE DEF Slice, slice
<1>6. ASSUME NEW f PROVE Moved(f) <=> Fills(f, N, slice[L], skip2, ks2, vs2)
  <2>1. ASSUME NEW i \in 0..N
        PROVE  (IF i = 0 THEN slice[L]
                ELSE IF h.node[N + 1 - i].val = Nil THEN f[i - 1]
                ELSE SetIn(f[i - 1], h.node[N + 1 - i].key, h.node[N + 1 - i].val))
               = (IF i = 0 THEN slice[L] ELSE IF i \in skip2 THEN f[i - 1] ELSE SetIn(f[i - 1], ks2[i], vs2[i]))
    <3>1. CASE i = 0
      BY <3>1
    <3>2. CASE i # 0
      <4>1. i \in 1..N
        BY <3>2
      <4>2. ks2[i] = h.node[N + 1 - i].key /\ vs2[i] = h.node[N + 1 - i].val /\ (i \in skip2 <=> h.node[N + 1 - i].val = Nil)
        BY <4>1
      <4> HIDE DEF ks2, vs2, skip2
      <4> QED BY <3>2, <4>2
    <3> QED BY <3>1, <3>2
  <2> HIDE DEF ks2, vs2, skip2
  <2> QED BY <2>1, Zenon DEF Fills
<1>7. \E f : Moved(f)
  <2>1. PICK f : Fills(f, N, slice[L], skip2, ks2, vs2)
    <3> HIDE DEF ks2, vs2, skip2
    <3> QED BY FillExists
  <2> HIDE DEF Moved, ks2, vs2, skip2
  <2> QED BY <1>6, <2>1
<1>8. Moved(moved)
  <2> HIDE DEF Moved
  <2> QED BY <1>7
<1>9. Fills(moved, N, slice[L], skip2, ks2, vs2)
  <2> HIDE DEF Moved, moved, ks2, vs2, skip2
  <2> QED BY <1>6, <1>8
<1> HIDE DEF Moved, moved
<1>10. Rows(h, nasize, g0, L, N, slice, moved)
  BY <1>5, <1>9, Zenon DEF Rows, a
<1> QED BY <1>1, <1>10

\* r holds the entries of h in parts of the given sizes.
Resized(r, h, nasize, nhsize) ==
  /\ r = [h |-> r.h, full |-> FALSE] /\ Fits(r.h, Behind(h, nasize)) /\ Len(r.h.array) = nasize
  /\ nhsize <= sizenode(r.h) /\ r.h.dummy = (nhsize = 0)
  /\ \A j \in Keys : luaH_get(r.h, j) = luaH_get(h, j)

\* resize keeps every entry, and finds a place for each, if it is told how many need a node.
LEMMA ResizeKeeps ==
  ASSUME NEW h, TableInv(h), NEW nasize \in Nat, NEW nhsize \in Nat, Cardinality(Behind(h, nasize)) <= nhsize,
         NEW r, r = resize(h, nasize, nhsize)
  PROVE  Resized(r, h, nasize, nhsize)
<1>1. PICK L, N, K, g0 : L = Len(h.array) /\ N = sizenode(h) /\ K = Behind(h, nasize) /\ g0 = Fresh(h, nasize, nhsize)
  OBVIOUS
<1>2. L \in Nat /\ N \in Nat /\ Shape(h) /\ Kinds(h) /\ Positions(h) = 1..N
  BY <1>1 DEF TableInv, Shape, Positions
<1>3. PICK slice, moved : Rows(h, nasize, g0, L, N, slice, moved) /\ r = moved[N]
  BY <1>1, <1>2, ResizeRuns, ZenonT(60)
<1> DEFINE skip1 == {i \in 1..L : i <= nasize \/ h.array[i] = Nil}
           ks1 == [i \in 1..L |-> <<"int", i>>]
           vs1 == [i \in 1..L |-> h.array[i]]
           skip2 == {i \in 1..N : h.node[N + 1 - i].val = Nil}
           ks2 == [i \in 1..N |-> h.node[N + 1 - i].key]
           vs2 == [i \in 1..N |-> h.node[N + 1 - i].val]
           todo1 == (1..L) \ skip1
           todo2 == (1..N) \ skip2
<1>4. \A i \in 1..L : ks1[i] = <<"int", i>> /\ vs1[i] = h.array[i] /\ (i \in todo1 <=> i > nasize /\ h.array[i] # Nil)
  BY <1>2
<1>5. \A i \in 1..N : /\ N + 1 - i \in Positions(h) /\ ks2[i] = h.node[N + 1 - i].key /\ vs2[i] = h.node[N + 1 - i].val
                      /\ (i \in todo2 <=> h.node[N + 1 - i].val # Nil)
  BY <1>2
<1>6. todo1 \subseteq 1..L /\ todo2 \subseteq 1..N
  OBVIOUS
<1> HIDE DEF skip1, ks1, vs1, skip2, ks2, vs2
<1>7. /\ TableInv(g0) /\ Len(g0.array) = nasize /\ nhsize <= sizenode(g0) /\ sizenode(g0) \in Nat /\ g0.dummy = (nhsize = 0)
      /\ \A x \in Positions(g0) : g0.node[x].key = Nil
      /\ \A j \in Keys : luaH_get(g0, j) = IF arrayindex(j) \in 1..nasize /\ arrayindex(j) <= L THEN h.array[arrayindex(j)] ELSE Nil
  <2>1. Cut(g0, h, nasize, nhsize)
    BY <1>1, FreshTable
  <2> QED BY <1>1, <2>1 DEF Cut
<1>8. /\ K \in SUBSET Keys /\ IsFiniteSet(K) /\ Cardinality(K) \in Nat /\ Cardinality(K) <= nhsize
      /\ \A j \in Keys : luaH_get(h, j) # Nil /\ arrayindex(j) \notin 1..nasize => j \in K
  BY <1>1, BehindFinite DEF Behind
<1>9. Fits(g0, K)
  <2>1. g0.dummy => K = {}
    <3> SUFFICES ASSUME g0.dummy PROVE K = {}
      OBVIOUS
    <3>1. nhsize = 0
      BY <1>7
    <3>2. Cardinality(K) = 0
      BY <1>8, <3>1
    <3> QED BY <1>8, <3>2, FS_EmptySet
  <2>2. Cardinality(K) <= sizenode(g0)
    BY <1>7, <1>8
  <2> QED BY <1>7, <1>8, <2>1, <2>2 DEF Fits
<1>10. Assignable(g0, K, todo1, ks1)
  <2>1. ASSUME NEW i \in todo1 PROVE ks1[i] \in Keys /\ ks1[i] \in K
    <3>1. i \in 1..L /\ ks1[i] = <<"int", i>> /\ i > nasize /\ h.array[i] # Nil
      BY <1>4, <1>6
    <3>2. <<"int", i>> \in Keys
      BY <1>1, <3>1 DEF TableInv, ArrayKeys
    <3>3. arrayindex(<<"int", i>>) = i
      BY DEF arrayindex
    <3>4. InArray(h, <<"int", i>>) /\ i \notin 1..nasize
      BY <1>1, <3>1, <3>3 DEF InArray
    <3>5. luaH_get(h, <<"int", i>>) = h.array[i]
      BY <3>2, <3>3, <3>4, GetValue
    <3> QED BY <1>8, <3>1, <3>2, <3>3, <3>4, <3>5
  <2>2. ASSUME NEW i \in todo1, NEW j \in todo1, ks1[i] = ks1[j] PROVE i = j
    BY <1>4, <1>6, <2>2
  <2> HIDE DEF todo1
  <2> QED BY <2>1, <2>2 DEF Assignable
<1>11. FilledTo(slice[L], g0, K, todo1, ks1, vs1)
  <2>1. Fills(slice, L, [h |-> g0, full |-> FALSE], skip1, ks1, vs1)
    BY <1>3 DEF Rows, skip1, ks1, vs1
  <2> QED BY <1>2, <1>9, <1>10, <2>1, FillStores
<1> HIDE DEF todo1
<1>12. PICK g1 : g1 = slice[L].h
  OBVIOUS
<1>13. /\ slice[L] = [h |-> g1, full |-> FALSE] /\ Fits(g1, K) /\ Len(g1.array) = nasize
       /\ sizenode(g1) = sizenode(g0) /\ g1.dummy = g0.dummy
       /\ \A i \in todo1 : luaH_get(g1, ks1[i]) = vs1[i]
       /\ \A j \in Keys : (\A i \in todo1 : ks1[i] # j) => luaH_get(g1, j) = luaH_get(g0, j)
  BY <1>7, <1>11, <1>12 DEF FilledTo
<1>14. \A i \in todo2 : /\ i \in 1..N /\ N + 1 - i \in Positions(h) /\ ks2[i] = h.node[N + 1 - i].key /\ vs2[i] = h.node[N + 1 - i].val
                        /\ vs2[i] # Nil /\ ks2[i] \in Keys
  <2> SUFFICES ASSUME NEW i \in todo2
               PROVE  /\ i \in 1..N /\ N + 1 - i \in Positions(h) /\ ks2[i] = h.node[N + 1 - i].key /\ vs2[i] = h.node[N + 1 - i].val
                      /\ vs2[i] # Nil /\ ks2[i] \in Keys
    OBVIOUS
  <2>1. i \in 1..N /\ N + 1 - i \in Positions(h) /\ ks2[i] = h.node[N + 1 - i].key /\ vs2[i] = h.node[N + 1 - i].val /\ vs2[i] # Nil
    BY <1>5, <1>6
  <2> QED BY <1>2, <2>1 DEF Kinds
<1>15. Assignable(g1, K, todo2, ks2)
  <2>1. ASSUME NEW i \in todo2 PROVE InArray(g1, ks2[i]) \/ ks2[i] \in K
    <3>1. luaH_get(h, ks2[i]) # Nil /\ ks2[i] \in Keys
      BY <1>14, GetValue
    <3>2. arrayindex(ks2[i]) \in 1..nasize => InArray(g1, ks2[i])
      BY <1>13 DEF InArray
    <3> QED BY <1>8, <3>1, <3>2
  <2>2. ASSUME NEW i \in todo2, NEW j \in todo2, ks2[i] = ks2[j] PROVE i = j
    <3>1. N + 1 - i = N + 1 - j
      BY <1>14, <2>2 DEF TableInv, Single
    <3>2. i \in 1..N /\ j \in 1..N
      BY <1>14
    <3> QED BY <1>2, <3>1, <3>2
  <2> HIDE DEF todo2
  <2> QED BY <1>14, <2>1, <2>2 DEF Assignable
<1>16. FilledTo(r, g1, K, todo2, ks2, vs2)
  <2>1. Fills(moved, N, slice[L], skip2, ks2, vs2)
    BY <1>3 DEF Rows, skip2, ks2, vs2
  <2> QED BY <1>2, <1>3, <1>13, <1>15, <2>1, FillStores
<1>17. ASSUME NEW j \in Keys PROVE luaH_get(r.h, j) = luaH_get(h, j)
  <2>1. CASE \E x \in Positions(h) : h.node[x].key = j /\ h.node[x].val # Nil
    <3>1. PICK x \in Positions(h) : h.node[x].key = j /\ h.node[x].val # Nil
      BY <2>1
    <3>2. N + 1 - x \in 1..N /\ N + 1 - (N + 1 - x) = x
      BY <1>2
    <3>3. N + 1 - x \in todo2 /\ ks2[N + 1 - x] = j /\ vs2[N + 1 - x] = h.node[x].val
      BY <1>5, <3>1, <3>2
    <3>4. luaH_get(r.h, j) = h.node[x].val
      <4> HIDE DEF todo2
      <4> QED BY <1>16, <3>3 DEF FilledTo
    <3>5. luaH_get(h, j) = h.node[x].val
      BY <3>1, GetValue
    <3> QED BY <3>4, <3>5
  <2>2. CASE \A x \in Positions(h) : h.node[x].key = j => h.node[x].val = Nil
    <3>1. \A i \in todo2 : ks2[i] # j
      BY <1>14, <2>2
    <3>2. luaH_get(r.h, j) = luaH_get(g1, j)
      <4> HIDE DEF todo2
      <4> QED BY <1>16, <3>1 DEF FilledTo
    <3>3. CASE \E i \in todo1 : ks1[i] = j
      <4>1. PICK i \in todo1 : ks1[i] = j
        BY <3>3
      <4>2. i \in 1..L /\ j = <<"int", i>> /\ vs1[i] = h.array[i]
        BY <1>4, <1>6, <4>1 DEF todo1
      <4>3. InArray(h, j) /\ arrayindex(j) = i
        BY <1>1, <4>2 DEF InArray, arrayindex
      <4>4. luaH_get(h, j) = h.array[i]
        BY <4>3, GetValue
      <4> QED BY <1>13, <3>2, <4>1, <4>2, <4>4
    <3>4. CASE \A i \in todo1 : ks1[i] # j
      <4>1. luaH_get(r.h, j) = IF arrayindex(j) \in 1..nasize /\ arrayindex(j) <= L THEN h.array[arrayindex(j)] ELSE Nil
        BY <1>7, <1>13, <3>2, <3>4
      <4>2. CASE luaH_get(h, j) # Nil
        <5>1. InArray(h, j) /\ h.array[arrayindex(j)] = luaH_get(h, j) /\ j = <<"int", arrayindex(j)>>
          BY <2>2, <4>2, ValueIsThere
        <5>2. arrayindex(j) \in 1..L
          BY <1>1, <5>1 DEF InArray
        <5>3. arrayindex(j) <= nasize
          BY <1>4, <3>4, <4>2, <5>1, <5>2
        <5> QED BY <4>1, <5>1, <5>2, <5>3
      <4>3. CASE luaH_get(h, j) = Nil
        <5>1. CASE arrayindex(j) \in 1..nasize /\ arrayindex(j) <= L
          <6>1. InArray(h, j)
            BY <1>1, <1>2, <5>1 DEF InArray
          <6>2. luaH_get(h, j) = h.array[arrayindex(j)]
            BY <6>1, GetValue
          <6> QED BY <4>1, <5>1, <6>2
        <5>2. CASE ~(arrayindex(j) \in 1..nasize /\ arrayindex(j) <= L)
          BY <4>1, <4>3, <5>2
        <5> QED BY <5>1, <5>2
      <4> QED BY <4>2, <4>3
    <3> QED BY <3>3, <3>4
  <2> QED BY <2>1, <2>2
<1>18. /\ r = [h |-> r.h, full |-> FALSE] /\ Fits(r.h, K) /\ Len(r.h.array) = Len(g1.array)
       /\ sizenode(r.h) = sizenode(g1) /\ r.h.dummy = g1.dummy
  BY <1>16 DEF FilledTo
<1>19. nhsize <= sizenode(r.h) /\ Len(r.h.array) = nasize
  BY <1>7, <1>13, <1>18
<1>20. r.h.dummy = (nhsize = 0)
  BY <1>7, <1>13, <1>18
<1> QED BY <1>1, <1>17, <1>18, <1>19, <1>20 DEF Resized

\* The keys with a value.
Entries(h) == {j \in Keys : luaH_get(h, j) # Nil}

\* A set split in two.
LEMMA SplitInTwo ==
  ASSUME NEW S, NEW T, IsFiniteSet(S), IsFiniteSet(T), S \cap T = {}
  PROVE  /\ IsFiniteSet(S \cup T) /\ Cardinality(S \cup T) = Cardinality(S) + Cardinality(T)
         /\ Cardinality(S) \in Nat /\ Cardinality(T) \in Nat
<1>1. IsFiniteSet(S \cup T) /\ Cardinality(S \cup T) = Cardinality(S) + Cardinality(T) - Cardinality(S \cap T)
  BY FS_Union
<1>2. Cardinality(S \cap T) = 0 /\ Cardinality(S) \in Nat /\ Cardinality(T) \in Nat
  BY FS_EmptySet, FS_CardinalityType
<1> QED BY <1>1, <1>2

\* There are not more of them than InUse counts.
LEMMA InUseCounts ==
  ASSUME NEW h, TableInv(h)
  PROVE  IsFiniteSet(Entries(h)) /\ Cardinality(Entries(h)) <= InUse(h) /\ InUse(h) \in Nat /\ Cardinality(Entries(h)) \in Nat
<1>1. PICK L, N : L = Len(h.array) /\ N = sizenode(h)
  OBVIOUS
<1>2. L \in Nat /\ N \in Nat /\ DOMAIN h.array = 1..L /\ DOMAIN h.node = 1..N /\ Positions(h) = 1..N
  BY <1>1 DEF TableInv, Shape, Positions
<1> DEFINE A == {i \in DOMAIN h.array : h.array[i] # Nil}
           B == {n \in DOMAIN h.node : h.node[n].val # Nil}
           P1 == {j \in Entries(h) : \E i \in A : j = <<"int", i>>}
           P2 == Entries(h) \ P1
           f == [i \in A |-> <<"int", i>>]
           g == [n \in B |-> h.node[n].key]
<1>3. IsFiniteSet(A) /\ IsFiniteSet(B)
  <2>1. IsFiniteSet(1..L) /\ IsFiniteSet(1..N)
    BY <1>2, FS_Interval
  <2>2. A \in SUBSET (1..L) /\ B \in SUBSET (1..N)
    BY <1>2
  <2> HIDE DEF A, B
  <2> QED BY <2>1, <2>2, FS_Subset
<1>4. \A y \in P1 : \E x \in A : f[x] = y
  OBVIOUS
<1>5. \A y \in P2 : \E x \in B : g[x] = y
  <2> SUFFICES ASSUME NEW j \in P2 PROVE \E x \in B : g[x] = j
    OBVIOUS
  <2>1. j \in Keys /\ luaH_get(h, j) # Nil /\ ~\E i \in A : j = <<"int", i>>
    BY DEF Entries
  <2>2. CASE InArray(h, j) /\ h.array[arrayindex(j)] = luaH_get(h, j) /\ j = <<"int", arrayindex(j)>>
    <3>1. arrayindex(j) \in A
      BY <1>1, <1>2, <2>1, <2>2 DEF InArray
    <3> HIDE DEF A
    <3> QED BY <2>1, <2>2, <3>1
  <2>3. CASE \E x \in Positions(h) : h.node[x].key = j /\ h.node[x].val = luaH_get(h, j)
    <3>1. PICK x \in Positions(h) : h.node[x].key = j /\ h.node[x].val = luaH_get(h, j)
      BY <2>3
    <3>2. x \in B
      BY <1>2, <2>1, <3>1
    <3> QED BY <3>1, <3>2
  <2> QED BY <2>1, <2>2, <2>3, ValueIsThere
<1>6. P1 \cup P2 = Entries(h) /\ P1 \cap P2 = {}
  OBVIOUS
<1>7. InUse(h) = Cardinality(A) + Cardinality(B)
  BY DEF InUse
<1> HIDE DEF A, B, P1, P2, f, g
<1>8. /\ IsFiniteSet(P1) /\ Cardinality(P1) <= Cardinality(A) /\ Cardinality(A) \in Nat
      /\ IsFiniteSet(P2) /\ Cardinality(P2) <= Cardinality(B) /\ Cardinality(B) \in Nat
  <2>1. IsFiniteSet(P1) /\ Cardinality(P1) <= Cardinality(A) /\ Cardinality(A) \in Nat
    BY <1>3, <1>4, Covered
  <2>2. IsFiniteSet(P2) /\ Cardinality(P2) <= Cardinality(B) /\ Cardinality(B) \in Nat
    BY <1>3, <1>5, Covered
  <2> QED BY <2>1, <2>2
<1>9. /\ IsFiniteSet(P1 \cup P2) /\ Cardinality(P1 \cup P2) = Cardinality(P1) + Cardinality(P2)
      /\ Cardinality(P1) \in Nat /\ Cardinality(P2) \in Nat
  BY <1>6, <1>8, SplitInTwo
<1>10. IsFiniteSet(Entries(h)) /\ Cardinality(Entries(h)) = Cardinality(P1) + Cardinality(P2)
  BY <1>6, <1>9
<1> QED BY <1>7, <1>8, <1>9, <1>10

\* The sizes that rehash computes are numbers.
LEMMA SizesAreNumbers ==
  ASSUME NEW ints, ints \subseteq Nat \ {0}, IsFiniteSet(ints), NEW s, s = computesizes(ints)
  PROVE  s[1] \in Nat /\ s[2] = Cardinality(Upto(ints, s[1])) /\ s = <<s[1], s[2]>>
<1> DEFINE narray == Cardinality(ints)
           worth == {i \in 0..narray : /\ twoto[i] \div 2 < narray /\ nums(ints, i) > 0
                                       /\ Cardinality(Upto(ints, twoto[i])) > twoto[i] \div 2}
           n == IF worth = {} THEN 0 ELSE twoto[Max(worth)]
<1>1. s = <<n, Cardinality(Upto(ints, n))>>
  BY DEF computesizes
<1>2. narray \in Nat /\ worth \in SUBSET (0..narray)
  BY FS_CardinalityType
<1> HIDE DEF narray, worth
<1>3. worth # {} => Max(worth) \in 0..narray
  BY <1>2, GreatestElement
<1>4. n \in Nat
  BY <1>2, <1>3, PowersOfTwo
<1> HIDE DEF n
<1> QED BY <1>1, <1>4

\* rehash provides for every key that has a value, and for the new one.
LEMMA RehashProvides ==
  ASSUME NEW h, TableInv(h), NEW ek \in Keys, luaH_get(h, ek) = Nil, NEW s, s = computesizes(IntKeys(h, ek))
  PROVE  /\ s[1] \in Nat /\ totaluse(h) - s[2] \in Nat
         /\ \E K \in SUBSET Keys :
              /\ IsFiniteSet(K) /\ Behind(h, s[1]) \subseteq K /\ (arrayindex(ek) \in 1..s[1] \/ ek \in K)
              /\ Cardinality(K) \in Nat /\ Cardinality(K) <= totaluse(h) - s[2]
<1>1. PICK ints, P, c : ints = IntKeys(h, ek) /\ P = Entries(h) /\ c = InUse(h)
  OBVIOUS
<1>2. IsFiniteSet(P) /\ Cardinality(P) <= c /\ c \in Nat /\ Cardinality(P) \in Nat /\ totaluse(h) = c + 1
  BY <1>1, InUseCounts DEF totaluse
<1>3. PICK Q : Q = P \cup {ek}
  OBVIOUS
<1>4. IsFiniteSet(Q) /\ Cardinality(Q) \in Nat /\ Cardinality(Q) <= c + 1 /\ Q \subseteq Keys
  <2>1. IsFiniteSet(Q) /\ Cardinality(Q) = IF ek \in P THEN Cardinality(P) ELSE Cardinality(P) + 1
    BY <1>2, <1>3, FS_AddElement
  <2>2. Q \subseteq Keys
    BY <1>1, <1>3 DEF Entries
  <2> QED BY <1>2, <2>1, <2>2
<1>5. ASSUME NEW i \in ints PROVE i \in Nat \ {0} /\ \E j \in Q : arrayindex(j) = i
  <2>1. Shape(h) /\ Kinds(h) /\ ArrayKeys(h)
    BY DEF TableInv
  <2>2. CASE i \in DOMAIN h.array /\ h.array[i] # Nil
    <3>1. i \in 1..Len(h.array) /\ Len(h.array) \in Nat
      BY <2>1, <2>2 DEF Shape
    <3>2. <<"int", i>> \in Keys /\ arrayindex(<<"int", i>>) = i
      BY <2>1, <2>2, <3>1 DEF ArrayKeys, arrayindex
    <3>3. luaH_get(h, <<"int", i>>) = h.array[i]
      BY <3>1, <3>2, GetValue DEF InArray
    <3>4. <<"int", i>> \in Q
      BY <1>1, <1>3, <2>2, <3>2, <3>3 DEF Entries
    <3> QED BY <3>1, <3>2, <3>4
  <2>3. CASE \E m \in DOMAIN h.node : h.node[m].val # Nil /\ arrayindex(h.node[m].key) > 0 /\ i = arrayindex(h.node[m].key)
    <3>1. PICK m \in DOMAIN h.node : h.node[m].val # Nil /\ arrayindex(h.node[m].key) > 0 /\ i = arrayindex(h.node[m].key)
      BY <2>3
    <3>2. m \in Positions(h)
      BY <2>1 DEF Shape
    <3>3. h.node[m].key \in Keys
      BY <2>1, <3>1, <3>2 DEF Kinds
    <3>4. luaH_get(h, h.node[m].key) = h.node[m].val
      BY <3>2, <3>3, GetValue
    <3>5. h.node[m].key \in Q
      BY <1>1, <1>3, <3>1, <3>3, <3>4 DEF Entries
    <3>6. arrayindex(h.node[m].key) \in Int
      BY <3>3, LuaTableAssumption DEF arrayindex
    <3> QED BY <3>1, <3>5, <3>6
  <2>4. CASE arrayindex(ek) > 0 /\ i = arrayindex(ek)
    <3>1. arrayindex(ek) \in Int
      BY LuaTableAssumption DEF arrayindex
    <3> QED BY <1>3, <2>4, <3>1
  <2> QED BY <1>1, <1>5, <2>2, <2>3, <2>4 DEF IntKeys
<1> DEFINE f == [j \in Q |-> arrayindex(j)]
<1>6. \A i \in ints : \E j \in Q : f[j] = i
  BY <1>5
<1>7. ints \subseteq Nat \ {0} /\ IsFiniteSet(ints)
  <2>1. IsFiniteSet(ints)
    <3> HIDE DEF f
    <3> QED BY <1>4, <1>6, Covered
  <2> QED BY <1>5, <2>1
<1>8. s[1] \in Nat /\ s[2] = Cardinality(Upto(ints, s[1]))
  BY <1>1, <1>7, SizesAreNumbers
<1>9. PICK n : n = s[1]
  OBVIOUS
<1> DEFINE Q1 == {j \in Q : arrayindex(j) \in 1..n}
           K == Q \ Q1
<1>10. Q1 \subseteq Q /\ K \subseteq Q /\ Q1 \cup K = Q /\ Q1 \cap K = {}
  OBVIOUS
<1>11. \A i \in Upto(ints, n) : \E j \in Q1 : f[j] = i
  <2> SUFFICES ASSUME NEW i \in Upto(ints, n) PROVE \E j \in Q1 : f[j] = i
    OBVIOUS
  <2>1. i \in ints /\ i <= n
    BY DEF Upto
  <2>2. PICK j \in Q : arrayindex(j) = i
    BY <1>5, <2>1
  <2>3. j \in Q1
    BY <1>5, <1>8, <1>9, <2>1, <2>2
  <2> QED BY <2>2, <2>3
<1>12. Behind(h, n) \subseteq K /\ (arrayindex(ek) \in 1..n \/ ek \in K)
  BY <1>1, <1>3 DEF Behind, Entries
<1> HIDE DEF f, Q1, K
<1>13. IsFiniteSet(Q1) /\ IsFiniteSet(K)
  BY <1>4, <1>10, FS_Subset
<1>14. Cardinality(Q) = Cardinality(Q1) + Cardinality(K) /\ Cardinality(Q1) \in Nat /\ Cardinality(K) \in Nat
  BY <1>10, <1>13, SplitInTwo
<1>15. Cardinality(Upto(ints, n)) <= Cardinality(Q1) /\ Cardinality(Upto(ints, n)) \in Nat
  <2>1. PICK T : T = Upto(ints, n)
    OBVIOUS
  <2>2. \A i \in T : \E j \in Q1 : f[j] = i
    BY <1>11, <2>1
  <2>3. Cardinality(T) <= Cardinality(Q1) /\ Cardinality(T) \in Nat
    BY <1>13, <2>2, Covered
  <2> QED BY <2>1, <2>3
<1>16. PICK u : u = s[2]
  OBVIOUS
<1>17. u \in Nat /\ Cardinality(K) <= c + 1 - u
  BY <1>2, <1>4, <1>8, <1>9, <1>14, <1>15, <1>16
<1>18. c + 1 - u \in Nat
  BY <1>2, <1>14, <1>17
<1>19. K \in SUBSET Keys
  BY <1>4, <1>10
<1> QED BY <1>2, <1>8, <1>9, <1>12, <1>13, <1>14, <1>16, <1>17, <1>18, <1>19

\* After rehash every entry is there, and there is a place for the key that had none.
LEMMA RehashKeeps ==
  ASSUME NEW h, TableInv(h), NEW ek \in Keys, luaH_get(h, ek) = Nil, NEW r, r = rehash(h, ek)
  PROVE  /\ r = [h |-> r.h, full |-> FALSE] /\ TableInv(r.h) /\ ~Stuck(r.h, ek)
         /\ \A j \in Keys : luaH_get(r.h, j) = luaH_get(h, j)
<1>1. PICK s : s = computesizes(IntKeys(h, ek))
  OBVIOUS
<1>2. PICK na, nh : na = s[1] /\ nh = totaluse(h) - s[2]
  OBVIOUS
<1>3. PICK K \in SUBSET Keys :
        /\ IsFiniteSet(K) /\ Behind(h, na) \subseteq K /\ (arrayindex(ek) \in 1..na \/ ek \in K)
        /\ Cardinality(K) \in Nat /\ Cardinality(K) <= nh
  BY <1>1, <1>2, RehashProvides
<1>4. na \in Nat /\ nh \in Nat
  BY <1>1, <1>2, RehashProvides
<1>5. r = resize(h, na, nh)
  BY <1>1, <1>2 DEF rehash
<1>6. Cardinality(Behind(h, na)) <= nh
  <2>1. Cardinality(Behind(h, na)) <= Cardinality(K)
    BY <1>3, FS_Subset
  <2>2. Cardinality(Behind(h, na)) \in Nat
    BY BehindFinite
  <2> QED BY <1>3, <1>4, <2>1, <2>2
<1>7. Resized(r, h, na, nh)
  BY <1>4, <1>5, <1>6, ResizeKeeps
<1>8. PICK g : g = r.h
  OBVIOUS
<1>9. Fits(g, Behind(h, na)) /\ Len(g.array) = na /\ nh <= sizenode(g) /\ (g.dummy => nh = 0) /\ sizenode(g) \in Nat
  <2>1. Fits(g, Behind(h, na)) /\ Len(g.array) = na /\ nh <= sizenode(g) /\ (g.dummy => nh = 0)
    BY <1>7, <1>8 DEF Resized
  <2> QED BY <2>1 DEF Fits, TableInv, Shape
<1>10. Fits(g, K)
  <2>1. g.dummy => K = {}
    <3> SUFFICES ASSUME g.dummy PROVE K = {}
      OBVIOUS
    <3>1. Cardinality(K) = 0
      BY <1>3, <1>9
    <3> QED BY <1>3, <3>1, FS_EmptySet
  <2>2. Cardinality(K) <= sizenode(g)
    BY <1>3, <1>4, <1>9
  <2>3. \A x \in Positions(g) : g.node[x].key = Nil \/ g.node[x].key \in K
    BY <1>3, <1>9 DEF Fits
  <2>4. TableInv(g)
    BY <1>9 DEF Fits
  <2> QED BY <1>3, <2>1, <2>2, <2>3, <2>4 DEF Fits
<1>11. ~Stuck(g, ek)
  <2>1. InArray(g, ek) \/ ek \in K
    BY <1>3, <1>9 DEF InArray
  <2> QED BY <1>10, <2>1, NotStuck
<1>12. r = [h |-> r.h, full |-> FALSE] /\ \A j \in Keys : luaH_get(r.h, j) = luaH_get(h, j)
  BY <1>7 DEF Resized
<1> QED BY <1>8, <1>10, <1>11, <1>12 DEF Fits

\* r is the result of an assignment that found its nodes.
Assigned(r, h, k, v) ==
  /\ r.full = FALSE /\ TableInv(r.h)
  /\ \A j \in Keys : luaH_get(r.h, j) = IF j = k THEN v ELSE luaH_get(h, j)

\* An assignment changes the value of its key and of no other, and never lacks a node in
\* the middle of a rehash.
LEMMA SetAssigns ==
  ASSUME NEW h, TableInv(h), NEW k \in Keys, NEW v
  PROVE  Assigned(luaH_set(h, k, v), h, k, v)
<1> SUFFICES ASSUME NEW r, r = luaH_set(h, k, v) PROVE Assigned(r, h, k, v)
  OBVIOUS
<1>1. PICK s : s = SetIn([h |-> h, full |-> FALSE], k, v)
  OBVIOUS
<1>2. r = IF ~s.full THEN s ELSE SetIn(rehash(h, k), k, v)
  BY <1>1 DEF luaH_set
<1>3. CASE s = [h |-> s.h, full |-> FALSE] /\ Stored(s.h, h, k, v)
  <2>1. s.full = FALSE
    BY <1>3
  <2>2. r = s
    BY <1>2, <2>1
  <2> QED BY <1>3, <2>1, <2>2 DEF Stored, Assigned
<1>4. CASE s.full = TRUE /\ Stuck(h, k)
  <2>1. r = SetIn(rehash(h, k), k, v)
    BY <1>2, <1>4
  <2>2. luaH_get(h, k) = Nil
    BY <1>4, GetValue DEF Stuck
  <2>3. PICK q : q = rehash(h, k)
    OBVIOUS
  <2>4. /\ q = [h |-> q.h, full |-> FALSE] /\ TableInv(q.h) /\ ~Stuck(q.h, k)
        /\ \A j \in Keys : luaH_get(q.h, j) = luaH_get(h, j)
    BY <2>2, <2>3, RehashKeeps
  <2>5. PICK g : g = q.h
    OBVIOUS
  <2>6. r = SetIn([h |-> g, full |-> FALSE], k, v)
    BY <2>1, <2>3, <2>4, <2>5
  <2>7. r = [h |-> r.h, full |-> FALSE] /\ Stored(r.h, g, k, v)
    BY <2>4, <2>5, <2>6, SetInStores
  <2>8. r.full = FALSE
    BY <2>7
  <2>9. TableInv(r.h) /\ \A j \in Keys : luaH_get(r.h, j) = IF j = k THEN v ELSE luaH_get(g, j)
    BY <2>7 DEF Stored
  <2> QED BY <2>4, <2>5, <2>8, <2>9 DEF Assigned
<1> QED BY <1>1, <1>3, <1>4, SetInStores

\* A larger array for the items of a constructor changes no entry.
LEMMA GrowsArray ==
  ASSUME NEW h, TableInv(h), NEW n \in Nat, n > Len(h.array), NEW r, r = resize(h, n, IF h.dummy THEN 0 ELSE sizenode(h))
  PROVE  r.full = FALSE /\ TableInv(r.h) /\ \A j \in Keys : luaH_get(r.h, j) = luaH_get(h, j)
<1>1. PICK nh : nh = IF h.dummy THEN 0 ELSE sizenode(h)
  OBVIOUS
<1>2. sizenode(h) \in Nat /\ nh \in Nat /\ Positions(h) = 1..sizenode(h) /\ Len(h.array) \in Nat
  BY <1>1 DEF TableInv, Shape, Positions
<1> DEFINE S == IF h.dummy THEN {} ELSE Positions(h)
           f == [x \in S |-> h.node[x].key]
           K == Behind(h, n)
<1>3. IsFiniteSet(S) /\ Cardinality(S) = nh
  <2>1. CASE h.dummy
    BY <1>1, <2>1, FS_EmptySet
  <2>2. CASE ~h.dummy
    BY <1>1, <1>2, <2>2, IntervalSize
  <2> QED BY <2>1, <2>2
<1>4. \A j \in K : \E x \in S : f[x] = j
  <2> SUFFICES ASSUME NEW j \in K PROVE \E x \in S : f[x] = j
    OBVIOUS
  <2>1. j \in Keys /\ luaH_get(h, j) # Nil /\ arrayindex(j) \notin 1..n
    BY DEF Behind
  <2>2. ~InArray(h, j)
    BY <1>2, <2>1 DEF InArray
  <2>3. PICK x \in Positions(h) : h.node[x].key = j
    BY <2>1, <2>2, ValueIsThere
  <2>4. ~h.dummy
    <3> SUFFICES ASSUME h.dummy PROVE FALSE
      OBVIOUS
    <3>1. h.node[x].key = Nil
      BY <1>2 DEF TableInv, Unused
    <3> QED BY <2>1, <2>3, <3>1, KeysDiffer
  <2> QED BY <2>3, <2>4
<1> HIDE DEF S, f, K
<1>5. Cardinality(K) <= nh
  BY <1>3, <1>4, Covered
<1>6. Resized(r, h, n, nh)
  BY <1>1, <1>2, <1>5, ResizeKeeps DEF K
<1>7. r = [h |-> r.h, full |-> FALSE] /\ TableInv(r.h) /\ \A j \in Keys : luaH_get(r.h, j) = luaH_get(h, j)
  BY <1>6 DEF Resized, Fits
<1>8. r.full = FALSE
  BY <1>7
<1> QED BY <1>7, <1>8

-----------------------------------------------------------------------------
(* The program that uses the table.                                        *)

\* luaH_new makes a table without entries.
LEMMA NewTable ==
  ASSUME NEW h, h = [array |-> <<>>, node |-> <<EmptyNode>>, dummy |-> TRUE, lastfree |-> 1]
  PROVE  TableInv(h) /\ \A j \in Keys : luaH_get(h, j) = Nil
<1>1. /\ h.array = <<>> /\ h.node = <<EmptyNode>> /\ h.lastfree = 1
      /\ h = [array |-> h.array, node |-> h.node, dummy |-> h.dummy, lastfree |-> h.lastfree]
  OBVIOUS
<1>2. h.dummy = TRUE
  OBVIOUS
<1>3. sizenode(h) = 1 /\ Len(h.array) = 0 /\ Positions(h) = {1} /\ h.node = [x \in Positions(h) |-> h.node[x]]
  <2>1. sizenode(h) = 1 /\ Len(h.array) = 0
    BY <1>1 DEF sizenode
  <2>2. Positions(h) = {1}
    BY <2>1 DEF Positions
  <2>3. h.node = [x \in {1} |-> h.node[x]]
    BY <1>1
  <2> QED BY <2>1, <2>2, <2>3
<1>4. \A x \in Positions(h) : h.node[x] = EmptyNode /\ h.node[x].key = Nil /\ h.node[x].val = Nil /\ h.node[x].next = 0
  BY <1>1, <1>3 DEF EmptyNode
<1>5. Shape(h)
  <2>1. \A x \in Positions(h) : IsNode(h.node[x]) /\ h.node[x].next \in 0..sizenode(h)
    BY <1>3, <1>4 DEF IsNode, EmptyNode
  <2>2. h.dummy \in BOOLEAN
    BY <1>2, Zenon
  <2>3. h.array = [i \in 1..Len(h.array) |-> h.array[i]] /\ Len(h.array) \in Nat
    <3>1. <<>> = [i \in 1..0 |-> <<>>[i]]
      OBVIOUS
    <3> QED BY <1>1, <1>3, <3>1
  <2>4. sizenode(h) \in Nat \ {0} /\ h.lastfree \in 1..(sizenode(h) + 1)
    BY <1>1, <1>3
  <2> HIDE DEF Positions
  <2> QED BY <1>1, <1>3, <2>1, <2>2, <2>3, <2>4 DEF Shape
<1>7. Chained(h) /\ Kinds(h) /\ InPlace(h) /\ Single(h) /\ Apart(h)
  BY <1>4, NoChains
<1>8. FreeBelow(h) /\ ArrayKeys(h)
  BY <1>2, <1>3 DEF FreeBelow, ArrayKeys
<1>9. Unused(h)
  BY <1>1, <1>3, <1>4 DEF Unused
<1>10. TableInv(h)
  BY <1>5, <1>7, <1>8, <1>9 DEF TableInv
<1>11. ASSUME NEW j \in Keys PROVE luaH_get(h, j) = Nil
  <2>1. j # Nil
    BY KeysDiffer
  <2>2. ~InArray(h, j)
    BY <1>3 DEF InArray
  <2> QED BY <1>4, <1>10, <2>1, <2>2, GetValue
<1> QED BY <1>10, <1>11

\* Declaring keys dead changes no entry.
LEMMA CollectKeeps ==
  ASSUME NEW h, TableInv(h), NEW g, g = WithNodes(h, [n \in Positions(h) |-> removeentry(h.node[n])], h.lastfree)
  PROVE  TableInv(g) /\ \A j \in Keys : luaH_get(g, j) = luaH_get(h, j)
<1> DEFINE f == [n \in Positions(h) |-> removeentry(h.node[n])]
<1>1. Shape(h) /\ Kinds(h)
  BY DEF TableInv
<1>2. ASSUME NEW x \in Positions(h)
      PROVE  /\ IsNode(f[x]) /\ f[x].val = h.node[x].val /\ f[x].next = h.node[x].next
             /\ \/ f[x].key = h.node[x].key
                \/ f[x].key = Dead(h.node[x].key) /\ h.node[x].val = Nil /\ h.node[x].key \in Keys
  <2>1. PICK a, b, c : h.node[x] = [key |-> a, val |-> b, next |-> c]
    <3>1. IsNode(h.node[x])
      BY <1>1 DEF Shape
    <3> QED BY <3>1, Zenon DEF IsNode
  <2>2. CASE ~(h.node[x].val = Nil /\ Collectable(h.node[x].key))
    <3>1. f[x] = h.node[x]
      BY <2>2 DEF removeentry
    <3> QED BY <1>1, <3>1 DEF Shape
  <2>3. CASE h.node[x].val = Nil /\ Collectable(h.node[x].key)
    <3>1. f[x] = [key |-> Dead(a), val |-> b, next |-> c]
      <4>1. f[x] = [h.node[x] EXCEPT !.key = Dead(h.node[x].key)]
        BY <2>3 DEF removeentry
      <4> QED BY <2>1, <4>1
    <3>2. h.node[x].key # Nil /\ \A j \in Keys : h.node[x].key # Dead(j)
      BY <2>3 DEF Collectable, Nil, Dead
    <3>3. h.node[x].key \in Keys
      BY <1>1, <3>2 DEF Kinds
    <3> QED BY <2>1, <2>3, <3>1, <3>3 DEF IsNode
  <2> QED BY <2>2, <2>3
<1>3. f = [x \in Positions(h) |-> f[x]] /\ h.lastfree \in 1..(sizenode(h) + 1)
  BY <1>1 DEF Shape
<1> HIDE DEF f
<1>4. \A x \in Positions(h) : IsNode(f[x]) /\ f[x].next \in 0..sizenode(h)
  BY <1>1, <1>2 DEF Shape
<1>5. Renewed(g, h, f, h.lastfree)
  <2>1. Renewed(WithNodes(h, f, h.lastfree), h, f, h.lastfree)
    BY <1>1, <1>3, <1>4, NodesRenewed
  <2> QED BY <2>1 DEF f
<1>6. Shape(g) /\ g.array = h.array /\ g.dummy = h.dummy /\ g.lastfree = h.lastfree /\ g.node = f /\ sizenode(g) = sizenode(h)
  BY <1>5 DEF Renewed
<1>7. /\ Positions(g) = Positions(h) /\ \A j : mainposition(g, j) = mainposition(h, j)
      /\ \A j : InArray(g, j) <=> InArray(h, j)
  BY <1>6, SameSizes
<1>8. \A j \in Keys : j # Nil /\ Live(j) = j /\ Live(Dead(j)) = j /\ Dead(j) # Nil /\ \A i \in Keys : j # Dead(i) /\ (Dead(i) = Dead(j) => i = j)
  BY KeysDiffer
<1>9. ASSUME NEW x \in Positions(h)
      PROVE  /\ main(g, x) = main(h, x) /\ (g.node[x].key = Nil <=> h.node[x].key = Nil)
             /\ (g.node[x].key \in Keys => g.node[x].key = h.node[x].key)
             /\ g.node[x].val = h.node[x].val /\ g.node[x].next = h.node[x].next
  BY <1>2, <1>6, <1>7, <1>8 DEF main
<1>10. Kinds(g)
  BY <1>1, <1>2, <1>6, <1>7, <1>9, SMTT(30) DEF Kinds
<1>11. Chained(g)
  <2>1. PICK line, height : Linear(h, line, height) /\ Hung(h, line, height)
    BY DEF TableInv, Chained
  <2>2. Linear(g, line, height)
    BY <1>7, <1>9, <2>1, SMTT(30) DEF Linear
  <2>3. ASSUME NEW x \in Positions(h), NEW y \in Positions(h), g.node[x].key \in Keys, g.node[y].key = Dead(g.node[x].key)
        PROVE  height[x] > height[y]
    <3>1. g.node[x].key = h.node[x].key
      BY <1>9, <2>3
    <3>2. CASE g.node[y].key = h.node[y].key
      BY <2>1, <2>3, <3>1, <3>2 DEF Hung
    <3>3. CASE g.node[y].key = Dead(h.node[y].key) /\ h.node[y].key \in Keys
      <4>1. h.node[y].key = h.node[x].key
        BY <1>8, <2>3, <3>1, <3>3
      <4>2. x = y
        BY <3>3, <4>1 DEF TableInv, Single
      <4> QED BY <1>8, <2>3, <3>3, <4>2
    <3> QED BY <1>2, <1>6, <3>2, <3>3
  <2>4. Hung(g, line, height)
    BY <1>7, <1>9, <2>1, <2>3 DEF Hung
  <2> QED BY <2>2, <2>4 DEF Chained
<1>12. InPlace(g)
  <2> SUFFICES ASSUME NEW x \in Positions(h), g.node[x].key # Nil
               PROVE  g.node[main(g, x)].key # Nil /\ main(g, main(g, x)) = main(g, x)
    BY <1>7 DEF InPlace
  <2>1. h.node[x].key # Nil /\ main(g, x) = main(h, x)
    BY <1>9
  <2>2. main(h, x) \in Positions(h) /\ h.node[main(h, x)].key # Nil /\ main(h, main(h, x)) = main(h, x)
    BY <1>1, <2>1, UsedNodes DEF TableInv, InPlace
  <2> QED BY <1>9, <2>1, <2>2
<1>13. Single(g) /\ Apart(g)
  BY <1>7, <1>9 DEF TableInv, Single, Apart
<1>14. FreeBelow(g) /\ Unused(g) /\ ArrayKeys(g)
  <2>1. FreeBelow(g) /\ ArrayKeys(g)
    BY <1>6, <1>7, <1>9 DEF TableInv, FreeBelow, ArrayKeys
  <2>2. Unused(g)
    <3> SUFFICES ASSUME g.dummy PROVE sizenode(g) = 1 /\ g.node[1].key = Nil /\ g.lastfree = 1
      BY DEF Unused
    <3>1. sizenode(h) = 1 /\ h.node[1].key = Nil /\ h.lastfree = 1
      BY <1>6 DEF TableInv, Unused
    <3>2. 1 \in Positions(h)
      BY <3>1 DEF Positions
    <3> QED BY <1>6, <1>9, <3>1, <3>2
  <2> QED BY <2>1, <2>2
<1>15. TableInv(g)
  BY <1>6, <1>10, <1>11, <1>12, <1>13, <1>14 DEF TableInv
<1>16. ASSUME NEW j \in Keys PROVE luaH_get(g, j) = luaH_get(h, j)
  <2>1. CASE InArray(h, j)
    BY <1>6, <1>7, <1>15, <2>1, GetValue
  <2>2. CASE \E x \in Positions(h) : h.node[x].key = j /\ g.node[x].key = j
    <3>1. PICK x \in Positions(h) : h.node[x].key = j /\ g.node[x].key = j
      BY <2>2
    <3>2. luaH_get(h, j) = h.node[x].val
      BY <3>1, GetValue
    <3>3. luaH_get(g, j) = g.node[x].val
      BY <1>7, <1>15, <3>1, GetValue
    <3> QED BY <1>9, <3>2, <3>3
  <2>3. CASE ~InArray(h, j) /\ \A x \in Positions(h) : ~(h.node[x].key = j /\ g.node[x].key = j)
    <3>1. \A x \in Positions(g) : g.node[x].key # j
      BY <1>7, <1>9, <2>3
    <3>2. luaH_get(g, j) = Nil
      BY <1>7, <1>15, <2>3, <3>1, GetValue
    <3>3. luaH_get(h, j) = Nil
      <4>1. CASE \E x \in Positions(h) : h.node[x].key = j
        <5>1. PICK x \in Positions(h) : h.node[x].key = j
          BY <4>1
        <5>2. h.node[x].val = Nil
          BY <1>2, <1>6, <2>3, <5>1
        <5> QED BY <5>1, <5>2, GetValue
      <4>2. CASE \A x \in Positions(h) : h.node[x].key # j
        BY <2>3, <4>2, GetValue
      <4> QED BY <4>1, <4>2
    <3> QED BY <3>2, <3>3
  <2> QED BY <2>1, <2>2, <2>3
<1> QED BY <1>15, <1>16

\* The table keeps its structure, and no rehash ever lacks a node.
TableOK == TableInv(t) /\ nested = FALSE

\* A new table has that structure.
LEMMA InitOK ==
  Init => TableOK /\ \A j \in Keys : luaH_get(t, j) = Nil
<1> SUFFICES ASSUME Init PROVE TableOK /\ \A j \in Keys : luaH_get(t, j) = Nil
  OBVIOUS
<1>1. TableInv(t) /\ \A j \in Keys : luaH_get(t, j) = Nil
  BY NewTable DEF Init
<1> QED BY <1>1 DEF TableOK, Init

\* Assign
LEMMA AssignKeeps ==
  ASSUME TableOK, NEW k \in Keys, NEW v, Assign(k, v)
  PROVE  TableOK' /\ \A j \in Keys : luaH_get(t, j)' = IF j = k THEN v ELSE luaH_get(t, j)
<1>1. PICK r : r = luaH_set(t, k, v)
  OBVIOUS
<1>2. t' = r.h /\ nested' = (nested \/ r.full)
  BY <1>1 DEF Assign
<1>3. r.full = FALSE /\ TableInv(r.h) /\ \A j \in Keys : luaH_get(r.h, j) = IF j = k THEN v ELSE luaH_get(t, j)
  <2>1. TableInv(t)
    BY DEF TableOK
  <2>2. Assigned(r, t, k, v)
    BY <1>1, <2>1, SetAssigns
  <2> QED BY <2>2 DEF Assigned
<1>4. nested' = FALSE
  BY <1>2, <1>3, Zenon DEF TableOK
<1>5. TableInv(t') /\ \A j \in Keys : luaH_get(t', j) = IF j = k THEN v ELSE luaH_get(t, j)
  BY <1>2, <1>3
<1>6. TableInv(t)' /\ \A j \in Keys : luaH_get(t, j)' = luaH_get(t', j)
  <2>1. TableInv(t)' <=> TableInv(t')
    OBVIOUS
  <2> QED BY <1>5, <2>1
<1> QED BY <1>4, <1>5, <1>6 DEF TableOK

\* luaH_resizearray
LEMMA ResizeArrayKeeps ==
  ASSUME TableOK, NEW n \in ArraySizes, luaH_resizearray(n)
  PROVE  TableOK' /\ \A j \in Keys : luaH_get(t, j)' = luaH_get(t, j)
<1>1. PICK r : r = resize(t, n, IF t.dummy THEN 0 ELSE sizenode(t))
  OBVIOUS
<1>2. t' = r.h /\ nested' = (nested \/ r.full) /\ n > Len(t.array)
  BY <1>1 DEF luaH_resizearray
<1>3. r.full = FALSE /\ TableInv(r.h) /\ \A j \in Keys : luaH_get(r.h, j) = luaH_get(t, j)
  BY <1>1, <1>2, GrowsArray, LuaTableAssumption, ZenonT(60) DEF TableOK
<1>4. nested' = FALSE
  BY <1>2, <1>3, Zenon DEF TableOK
<1>5. TableInv(t') /\ \A j \in Keys : luaH_get(t', j) = luaH_get(t, j)
  BY <1>2, <1>3
<1> QED BY <1>4, <1>5 DEF TableOK

\* What the collector makes of the nodes.
LEMMA CollectClears ==
  ASSUME TableOK, Collect
  PROVE  t' = WithNodes(t, [n \in Positions(t) |-> removeentry(t.node[n])], t.lastfree)
<1>1. DOMAIN t.node = Positions(t)
  BY LengthOf DEF TableOK, TableInv, Shape, Positions
<1>2. PICK a, b, c, d : t = [array |-> a, node |-> b, dummy |-> c, lastfree |-> d]
  BY DEF TableOK, TableInv, Shape
<1>3. t.node = b
  BY <1>2
<1>6. PICK f : f = [n \in Positions(t) |-> removeentry(b[n])]
  OBVIOUS
<1>7. t' = [t EXCEPT !.node = f]
  BY <1>1, <1>3, <1>6 DEF Collect
<1>8. t' = [array |-> a, node |-> f, dummy |-> c, lastfree |-> d]
  BY <1>2, <1>7
<1>9. t.array = a /\ t.dummy = c /\ t.lastfree = d
  BY <1>2
<1> QED BY <1>3, <1>6, <1>8, <1>9 DEF WithNodes

\* Collect
LEMMA CollectionKeeps ==
  ASSUME TableOK, Collect
  PROVE  TableOK' /\ \A j \in Keys : luaH_get(t, j)' = luaH_get(t, j)
<1>1. t' = WithNodes(t, [n \in Positions(t) |-> removeentry(t.node[n])], t.lastfree)
  BY CollectClears
<1>2. TableInv(t') /\ \A j \in Keys : luaH_get(t', j) = luaH_get(t, j)
  BY <1>1, CollectKeeps DEF TableOK
<1>3. nested' = FALSE
  BY DEF Collect, TableOK
<1> QED BY <1>2, <1>3 DEF TableOK

\* Every step keeps the structure; an assignment changes the value of its key, nothing
\* else changes any.
LEMMA StepKeeps ==
  ASSUME TableOK, [Next]_vars
  PROVE  /\ TableOK'
         /\ \/ \E k \in Keys : \E v \in ValuesOf(k) \cup {Nil} :
                 \A j \in Keys : luaH_get(t, j)' = IF j = k THEN v ELSE luaH_get(t, j)
            \/ \A j \in Keys : luaH_get(t, j)' = luaH_get(t, j)
<1>1. ASSUME NEW k \in Keys, NEW v \in ValuesOf(k) \cup {Nil}, Assign(k, v)
      PROVE  TableOK' /\ \A j \in Keys : luaH_get(t, j)' = IF j = k THEN v ELSE luaH_get(t, j)
  BY <1>1, AssignKeeps
<1>2. CASE \E k \in Keys : \E v \in ValuesOf(k) \cup {Nil} : Assign(k, v)
  BY <1>1, <1>2
<1>3. CASE \E n \in ArraySizes : luaH_resizearray(n)
  BY <1>3, ResizeArrayKeeps
<1>4. CASE Collect
  BY <1>4, CollectionKeeps
<1>5. CASE BeginTraversal \/ lua_next \/ UNCHANGED vars
  <2>1. t' = t /\ nested' = nested
    BY <1>5 DEF BeginTraversal, lua_next, vars
  <2> QED BY <2>1 DEF TableOK
<1> QED BY <1>2, <1>3, <1>4, <1>5 DEF Next

\* A table keeps its structure.
THEOREM StructureKept == Spec => []TableOK
<1>1. Init => TableOK
  BY InitOK
<1>2. TableOK /\ [Next]_vars => TableOK'
  BY StepKeeps
<1> QED BY <1>1, <1>2, PTL DEF Spec

\* An element that is not in its main position has been displaced by one that is in its
\* own, and resize never rehashes a table half moved (Brent).
THEOREM Displacement == Spec => []Brent
<1>1. TableOK => Brent
  <2> SUFFICES ASSUME TableOK, NEW n \in DOMAIN t.node, t.node[n].val # Nil
               PROVE  ~nested /\ LET mp == mainposition(t, t.node[n].key)
                                 IN  mp = n \/ t.node[mp].key = Nil \/ mainposition(t, Live(t.node[mp].key)) = mp
    <3>1. TableOK => ~nested
      BY Zenon DEF TableOK
    <3> QED BY <3>1 DEF Brent
  <2>1. ~nested
    BY Zenon DEF TableOK
  <2>2. n \in Positions(t)
    BY LengthOf DEF TableOK, TableInv, Shape, Positions
  <2>3. t.node[n].key \in Keys
    BY <2>2 DEF TableOK, TableInv, Kinds
  <2>4. t.node[n].key # Nil /\ Live(t.node[n].key) = t.node[n].key
    BY <2>3, KeysDiffer
  <2>5. main(t, main(t, n)) = main(t, n) /\ main(t, n) = mainposition(t, t.node[n].key)
    BY <2>2, <2>4 DEF TableOK, TableInv, InPlace, main
  <2> QED BY <2>1, <2>5 DEF main
<1> QED BY <1>1, StructureKept, PTL

\* Whatever collisions, moves, dead keys and rehashes happen inside, a table is a
\* dictionary (ImplementsDictionary).
THEOREM IsDictionary == Spec => ImplementsDictionary
<1> DEFINE dict == [k \in Keys |-> luaH_get(t, k)]
           Values == UNION {ValuesOf(k) : k \in Keys}
<1>1. Init => Abstract!Init
  BY InitOK DEF Abstract!Init
<1>2. TableOK /\ [Next]_vars => [Abstract!Next]_dict
  <2> SUFFICES ASSUME TableOK, [Next]_vars PROVE Abstract!Next \/ dict' = dict
    OBVIOUS
  <2>1. CASE \E k \in Keys : \E v \in ValuesOf(k) \cup {Nil} :
               \A j \in Keys : luaH_get(t, j)' = IF j = k THEN v ELSE luaH_get(t, j)
    <3>1. PICK k \in Keys : \E v \in ValuesOf(k) \cup {Nil} :
                 \A j \in Keys : luaH_get(t, j)' = IF j = k THEN v ELSE luaH_get(t, j)
      BY <2>1
    <3>2. PICK v \in ValuesOf(k) \cup {Nil} : \A j \in Keys : luaH_get(t, j)' = IF j = k THEN v ELSE luaH_get(t, j)
      BY <3>1
    <3>3. v \in Values \cup {Nil}
      BY <3>2
    <3>4. dict' = [dict EXCEPT ![k] = v]
      BY <3>2
    <3> QED BY <3>3, <3>4 DEF Abstract!Next, Abstract!Assign
  <2>2. CASE \A j \in Keys : luaH_get(t, j)' = luaH_get(t, j)
    BY <2>2
  <2> QED BY <2>1, <2>2, StepKeeps
<1> HIDE DEF dict
<1> QED BY <1>1, <1>2, StructureKept, PTL DEF Spec, ImplementsDictionary, Abstract!Spec, dict

-----------------------------------------------------------------------------
(* Traversal.                                                              *)

\* g has its keys, alive or dead, where h has them.
SamePlaces(g, h) ==
  /\ Len(g.array) = Len(h.array) /\ sizenode(g) = sizenode(h)
  /\ \A x \in Positions(h) : g.node[x].next = h.node[x].next /\ Live(g.node[x].key) = Live(h.node[x].key)

\* A search that counts dead keys finds the node that has the key, alive or dead.
LEMMA MatchesLive ==
  ASSUME NEW h, Kinds(h), NEW k \in Keys
  PROVE  Matches(h, k, TRUE) = {x \in Positions(h) : Live(h.node[x].key) = k}
<1> SUFFICES ASSUME NEW x \in Positions(h)
             PROVE  (h.node[x].key = k \/ h.node[x].key = Dead(k)) <=> Live(h.node[x].key) = k
  BY DEF Matches
<1>1. CASE h.node[x].key = Nil
  <2>1. Live(Nil) = Nil /\ k # Nil /\ Dead(k) # Nil
    BY KeysDiffer DEF Live, Nil
  <2> QED BY <1>1, <2>1
<1>2. CASE h.node[x].key \in Keys
  BY <1>2, KeysDiffer
<1>3. CASE \E j \in Keys : h.node[x].key = Dead(j)
  BY <1>3, KeysDiffer
<1> QED BY <1>1, <1>2, <1>3 DEF Kinds

\* There is one first node below.
LEMMA OneFirst ==
  ASSUME NEW h, Shape(h), NEW line, NEW height, Linear(h, line, height), NEW stop, NEW n \in Positions(h),
         NEW r, FirstBelow(h, line, height, stop, n, r), NEW s, FirstBelow(h, line, height, stop, n, s)
  PROVE  r = s
<1>1. 0 \notin Positions(h)
  BY DEF Positions
<1>2. r = 0 <=> s = 0
  BY <1>1 DEF FirstBelow
<1>3. CASE r # 0
  <2>1. s # 0
    BY <1>2, <1>3
  <2>2. r \in Positions(h) /\ s \in Positions(h) /\ line[r] = line[s] /\ height[r] <= height[s] /\ height[s] <= height[r]
    BY <1>3, <2>1 DEF FirstBelow
  <2>3. height[r] \in Nat /\ height[s] \in Nat
    BY <2>2 DEF Linear
  <2>4. height[r] = height[s]
    BY <2>2, <2>3
  <2> QED BY <2>2, <2>4 DEF Linear
<1> QED BY <1>2, <1>3

\* lua_next begins for a key where it began before.
LEMMA SameIndex ==
  ASSUME NEW g, NEW h, TableInv(g), TableInv(h), SamePlaces(g, h), NEW k \in Keys
  PROVE  findindex(g, k) = findindex(h, k)
<1>1. Shape(g) /\ Shape(h) /\ Kinds(g) /\ Kinds(h) /\ k # Nil
  BY KeysDiffer DEF TableInv
<1>2. /\ Positions(g) = Positions(h) /\ mainposition(g, k) = mainposition(h, k) /\ (InArray(g, k) <=> InArray(h, k))
      /\ Len(g.array) = Len(h.array)
  BY SameSizes DEF SamePlaces
<1>3. mainposition(h, k) \in Positions(h)
  BY <1>1, MainPosition DEF Shape
<1>4. PICK line, height : Linear(h, line, height)
  BY DEF TableInv, Chained
<1>5. Linear(g, line, height)
  BY <1>2, <1>4 DEF Linear, SamePlaces
<1>6. Matches(g, k, TRUE) = Matches(h, k, TRUE)
  <2>1. Matches(g, k, TRUE) = {x \in Positions(g) : Live(g.node[x].key) = k}
    BY <1>1, MatchesLive
  <2>2. Matches(h, k, TRUE) = {x \in Positions(h) : Live(h.node[x].key) = k}
    BY <1>1, MatchesLive
  <2> QED BY <1>2, <2>1, <2>2 DEF SamePlaces
<1>7. PICK stop : stop = Matches(h, k, TRUE)
  OBVIOUS
<1>8. FirstBelow(h, line, height, stop, mainposition(h, k), Find(h, k, TRUE))
  BY <1>1, <1>3, <1>4, <1>7, FindResult
<1>9. FirstBelow(g, line, height, stop, mainposition(g, k), Find(g, k, TRUE))
  BY <1>1, <1>2, <1>3, <1>5, <1>6, <1>7, FindResult
<1>10. FirstBelow(h, line, height, stop, mainposition(h, k), Find(g, k, TRUE))
  BY <1>2, <1>9 DEF FirstBelow
<1>11. Find(g, k, TRUE) = Find(h, k, TRUE)
  BY <1>1, <1>3, <1>4, <1>8, <1>10, OneFirst
<1> QED BY <1>1, <1>2, <1>11 DEF findindex

\* A position holds the key that findindex finds there.
LEMMA SlotFound ==
  ASSUME NEW h, TableInv(h), NEW i \in 1..(Len(h.array) + sizenode(h)), Slot(h, i) # Nil
  PROVE  SlotKey(h, i) \in Keys /\ findindex(h, SlotKey(h, i)) = i
<1>1. Shape(h) /\ Kinds(h) /\ Len(h.array) \in Nat /\ sizenode(h) \in Nat
  BY DEF TableInv, Shape
<1>2. CASE i <= Len(h.array)
  <2>1. PICK k : k = <<"int", i>>
    OBVIOUS
  <2>2. h.array[i] # Nil /\ i \in 1..Len(h.array)
    BY <1>1, <1>2 DEF Slot
  <2>3. k \in Keys
    BY <2>1, <2>2 DEF TableInv, ArrayKeys
  <2>4. arrayindex(k) = i
    BY <2>1 DEF arrayindex
  <2>5. SlotKey(h, i) = k
    BY <1>2, <2>1 DEF SlotKey
  <2>6. k # Nil
    BY <2>3, KeysDiffer
  <2>7. findindex(h, k) = i
    BY <2>2, <2>4, <2>6 DEF findindex, InArray
  <2> QED BY <2>3, <2>5, <2>7
<1>3. CASE i > Len(h.array)
  <2>1. PICK x : x = i - Len(h.array)
    OBVIOUS
  <2>2. x \in Positions(h) /\ i = Len(h.array) + x
    BY <1>1, <1>3, <2>1 DEF Positions
  <2>3. h.node[x].val # Nil /\ SlotKey(h, i) = h.node[x].key
    BY <1>1, <1>3, <2>1 DEF Slot, SlotKey
  <2>4. PICK k \in Keys : k = h.node[x].key
    BY <1>1, <2>2, <2>3 DEF Kinds
  <2>5. k # Nil /\ ~InArray(h, k)
    BY <2>2, <2>4, KeysDiffer DEF TableInv, Apart
  <2>6. Find(h, k, TRUE) = x
    <3>1. TRUE \in BOOLEAN
      OBVIOUS
    <3>2. Find(h, h.node[x].key, TRUE) = x
      BY <2>2, <2>4, <3>1, FindFinds
    <3> QED BY <2>4, <3>2, Zenon
  <2>7. x # 0
    BY <2>2 DEF Positions
  <2>8. findindex(h, k) = i
    BY <2>2, <2>5, <2>6, <2>7 DEF findindex
  <2> QED BY <2>3, <2>4, <2>8
<1> QED BY <1>1, <1>2, <1>3

\* findindex finds every entry.
LEMMA EntryFound ==
  ASSUME NEW h, TableInv(h), NEW k \in Keys, luaH_get(h, k) # Nil
  PROVE  /\ findindex(h, k) \in 1..(Len(h.array) + sizenode(h)) /\ SlotKey(h, findindex(h, k)) = k
         /\ Slot(h, findindex(h, k)) # Nil
<1>1. Shape(h) /\ Len(h.array) \in Nat /\ sizenode(h) \in Nat /\ k # Nil
  BY KeysDiffer DEF TableInv, Shape
<1>2. PICK i \in 1..(Len(h.array) + sizenode(h)) : Slot(h, i) # Nil /\ SlotKey(h, i) = k
  <2>1. CASE InArray(h, k) /\ h.array[arrayindex(k)] = luaH_get(h, k) /\ k = <<"int", arrayindex(k)>>
    <3>1. PICK i : i = arrayindex(k)
      OBVIOUS
    <3>2. i \in 1..Len(h.array) /\ h.array[i] # Nil /\ k = <<"int", i>>
      BY <2>1, <3>1 DEF InArray
    <3>3. i \in 1..(Len(h.array) + sizenode(h)) /\ i <= Len(h.array)
      BY <1>1, <3>2
    <3>4. Slot(h, i) # Nil /\ SlotKey(h, i) = k
      BY <3>2, <3>3 DEF Slot, SlotKey
    <3> QED BY <3>3, <3>4
  <2>2. CASE \E x \in Positions(h) : h.node[x].key = k /\ h.node[x].val = luaH_get(h, k)
    <3>1. PICK x \in Positions(h) : h.node[x].key = k /\ h.node[x].val = luaH_get(h, k)
      BY <2>2
    <3>2. PICK i : i = Len(h.array) + x
      OBVIOUS
    <3>3. i \in 1..(Len(h.array) + sizenode(h)) /\ ~(i <= Len(h.array)) /\ i - Len(h.array) = x
      BY <1>1, <3>2 DEF Positions
    <3>4. Slot(h, i) # Nil /\ SlotKey(h, i) = k
      BY <3>1, <3>3 DEF Slot, SlotKey
    <3> QED BY <3>3, <3>4
  <2> QED BY <2>1, <2>2, ValueIsThere
<1>3. findindex(h, k) = i
  BY <1>2, SlotFound
<1> QED BY <1>2, <1>3

\* Assigning to a field that exists moves no key.
LEMMA AssignMovesNothing ==
  ASSUME NEW h, TableInv(h), NEW k \in Keys, luaH_get(h, k) # Nil, NEW v, NEW r, r = luaH_set(h, k, v)
  PROVE  SamePlaces(r.h, h)
<1>1. Shape(h)
  BY DEF TableInv
<1>2. PICK b : b = FALSE
  OBVIOUS
<1>3. PICK s : s = SetIn([h |-> h, full |-> b], k, v)
  OBVIOUS
<1>4. s.full = FALSE => r = s
  BY <1>2, <1>3 DEF luaH_set
<1>5. /\ [h |-> h, full |-> b].h = h
      /\ \A g : [[h |-> h, full |-> b] EXCEPT !.h = g] = [h |-> g, full |-> b]
  OBVIOUS
<1>6. CASE InArray(h, k)
  <2>1. PICK g : g = [h EXCEPT !.array[arrayindex(k)] = v]
    OBVIOUS
  <2>2. Stored(g, h, k, v)
    BY <1>6, <2>1, ArrayStores
  <2>3. g.node = h.node
    BY <1>1, <2>1 DEF Shape
  <2>4. s = [h |-> g, full |-> b]
    <3>1. s = [[h |-> h, full |-> b] EXCEPT !.h.array[arrayindex(k)] = v]
      BY <1>3, <1>5, <1>6, Zenon DEF SetIn
    <3> QED BY <2>1, <3>1
  <2>5. r.h = g
    BY <1>2, <1>4, <2>4
  <2> QED BY <2>2, <2>3, <2>5 DEF Stored, SamePlaces
<1>7. CASE ~InArray(h, k)
  <2>1. PICK x \in Positions(h) : h.node[x].key = k
    BY <1>7, ValueIsThere
  <2>2. Find(h, k, FALSE) = x /\ x # 0
    <3>1. h.node[x].key \in Keys /\ FALSE \in BOOLEAN
      BY <2>1
    <3>2. Find(h, h.node[x].key, FALSE) = x
      BY <3>1, FindFinds
    <3>3. x # 0
      BY DEF Positions
    <3>4. Find(h, k, FALSE) = x
      BY <2>1, <3>2, Zenon
    <3> QED BY <3>3, <3>4
  <2>3. PICK g : g = Put(h, x, k, v)
    OBVIOUS
  <2>4. Renewed(g, h, Filled(h, x, k, v), h.lastfree)
    BY <1>1, <2>3, PutFills
  <2>5. g.array = h.array /\ sizenode(g) = sizenode(h) /\ g.node = Filled(h, x, k, v)
    BY <2>4 DEF Renewed
  <2>6. \A y \in Positions(h) : g.node[y].next = h.node[y].next /\ g.node[y].key = h.node[y].key
    BY <2>1, <2>5 DEF Filled
  <2>7. s = [h |-> g, full |-> b]
    <3>1. s = [[h |-> h, full |-> b] EXCEPT !.h = Put(h, x, k, v)]
      BY <1>3, <1>5, <1>7, <2>2, Zenon DEF SetIn
    <3> QED BY <2>3, <3>1
  <2>8. r.h = g
    BY <1>2, <1>4, <2>7
  <2> QED BY <2>5, <2>6, <2>8 DEF SamePlaces
<1> QED BY <1>6, <1>7

\* Declaring keys dead moves none.
LEMMA CollectMovesNothing ==
  ASSUME TableOK, Collect
  PROVE  SamePlaces(t', t)
<1> DEFINE f == [n \in Positions(t) |-> removeentry(t.node[n])]
<1>1. t' = WithNodes(t, f, t.lastfree)
  BY CollectClears
<1>2. Shape(t) /\ Kinds(t)
  BY DEF TableOK, TableInv
<1>3. sizenode(t) \in Nat \ {0} /\ f = [n \in 1..sizenode(t) |-> f[n]]
  BY <1>2 DEF Shape, Positions
<1>4. ASSUME NEW x \in Positions(t)
      PROVE  f[x].next = t.node[x].next /\ Live(f[x].key) = Live(t.node[x].key)
  <2>1. PICK a, b, c : t.node[x] = [key |-> a, val |-> b, next |-> c]
    <3>1. IsNode(t.node[x])
      BY <1>2 DEF Shape
    <3> QED BY <3>1, Zenon DEF IsNode
  <2>2. CASE ~(t.node[x].val = Nil /\ Collectable(t.node[x].key))
    BY <2>2 DEF removeentry
  <2>3. CASE t.node[x].val = Nil /\ Collectable(t.node[x].key)
    <3>1. f[x] = [t.node[x] EXCEPT !.key = Dead(t.node[x].key)]
      BY <2>3 DEF removeentry
    <3>2. f[x] = [key |-> Dead(a), val |-> b, next |-> c]
      BY <2>1, <3>1
    <3>3. Live(Dead(a)) = Live(a)
      BY <2>1, <2>3 DEF Collectable, Live, Dead
    <3> QED BY <2>1, <3>2, <3>3
  <2> QED BY <2>2, <2>3
<1> HIDE DEF f
<1>5. t'.array = t.array /\ t'.node = f
  BY <1>1 DEF WithNodes
<1>6. sizenode(t') = sizenode(t)
  BY <1>3, <1>5, LengthOf DEF sizenode
<1> QED BY <1>4, <1>5, <1>6 DEF SamePlaces

\* A traversal meets the positions from the first to the last, knows where it is, and has
\* the entries that stay behind it or before it.
Visiting ==
  IF key = Off THEN visited = <<>> /\ stays = {}
  ELSE /\ key = Nil \/ key \in Keys
       /\ findindex(t, key) \in Nat
       /\ visited \in Seq(Keys)
       /\ \A i \in DOMAIN visited : findindex(t, visited[i]) \in 1..findindex(t, key)
       /\ \A i, j \in DOMAIN visited : i < j => findindex(t, visited[i]) < findindex(t, visited[j])
       /\ stays \subseteq Keys
       /\ \A k \in stays : luaH_get(t, k) # Nil /\ (k \in ToSet(visited) \/ findindex(t, k) > findindex(t, key))

\* A traversal is not disturbed by what moves no key.
LEMMA StaysAtItsPlace ==
  ASSUME TableOK, TableOK', Visiting, SamePlaces(t', t), key' = key, visited' = visited,
         key = Off => stays' = stays,
         stays' \subseteq stays, \A k \in stays' : luaH_get(t', k) # Nil
  PROVE  Visiting'
<1>1. CASE key = Off
  BY <1>1 DEF Visiting
<1>2. CASE key # Off
  <2>1. ASSUME NEW k \in Keys PROVE findindex(t', k) = findindex(t, k)
    BY <2>1, SameIndex DEF TableOK
  <2>2. findindex(t', Nil) = findindex(t, Nil)
    BY DEF findindex
  <2>3. visited \in Seq(Keys) /\ (key = Nil \/ key \in Keys) /\ stays \subseteq Keys
    BY <1>2 DEF Visiting
  <2>4. \A i \in DOMAIN visited : visited[i] \in Keys
    BY <2>3
  <2>5. findindex(t', key) = findindex(t, key)
    BY <2>1, <2>2, <2>3
  <2>6. \A i \in DOMAIN visited : findindex(t', visited[i]) = findindex(t, visited[i])
    BY <2>1, <2>4
  <2>7. \A k \in stays' : k \in Keys /\ k \in stays /\ findindex(t', k) = findindex(t, k)
    BY <2>1, <2>3
  <2> QED BY <1>2, <2>3, <2>5, <2>6, <2>7 DEF Visiting
<1> QED BY <1>1, <1>2

\* BeginTraversal
LEMMA BeginKeeps ==
  ASSUME TableOK, Visiting, BeginTraversal
  PROVE  Visiting'
<1>1. key' = Nil /\ visited' = <<>> /\ stays' = Present /\ t' = t
  BY DEF BeginTraversal
<1>2. findindex(t, Nil) = 0 /\ Nil # Off
  BY DEF findindex, Nil, Off
<1>3. ASSUME NEW k \in Present PROVE k \in Keys /\ luaH_get(t, k) # Nil /\ findindex(t, k) > 0
  <2>1. k \in Keys /\ luaH_get(t, k) # Nil
    BY DEF Present
  <2>2. findindex(t, k) \in 1..(Len(t.array) + sizenode(t))
    BY <2>1, EntryFound DEF TableOK
  <2> QED BY <2>1, <2>2
<1>4. <<>> \in Seq(Keys) /\ DOMAIN <<>> = {}
  OBVIOUS
<1> QED BY <1>1, <1>2, <1>3, <1>4 DEF Visiting

\* The elements of a longer sequence.
LEMMA AppendedSet ==
  ASSUME NEW S, NEW s \in Seq(S), NEW x
  PROVE  /\ Append(s, x) \in Seq(S \cup {x}) /\ DOMAIN Append(s, x) = 1..(Len(s) + 1) /\ Len(s) \in Nat /\ DOMAIN s = 1..Len(s)
         /\ Append(s, x)[Len(s) + 1] = x /\ \A i \in 1..Len(s) : Append(s, x)[i] = s[i]
         /\ ToSet(Append(s, x)) = ToSet(s) \cup {x}
<1>1. /\ Append(s, x) \in Seq(S \cup {x}) /\ DOMAIN Append(s, x) = 1..(Len(s) + 1) /\ Len(s) \in Nat /\ DOMAIN s = 1..Len(s)
      /\ Append(s, x)[Len(s) + 1] = x /\ \A i \in 1..Len(s) : Append(s, x)[i] = s[i]
  OBVIOUS
<1>2. ToSet(Append(s, x)) = ToSet(s) \cup {x}
  BY <1>1 DEF ToSet
<1> QED BY <1>1, <1>2

\* lua_next
LEMMA NextKeeps ==
  ASSUME TableOK, Visiting, lua_next
  PROVE  Visiting' /\ (key' = Off => stays \subseteq ToSet(visited))
<1>1. key # Off /\ key' = luaH_next(t, key) /\ t' = t
  BY DEF lua_next
<1> DEFINE last == Len(t.array) + sizenode(t)
           rest == {i \in (findindex(t, key) + 1)..last : Slot(t, i) # Nil}
<1>2. last \in Nat /\ TableInv(t)
  BY DEF TableOK, TableInv, Shape
<1>3. PICK p \in Nat : p = findindex(t, key)
  BY <1>1 DEF Visiting
<1>4. /\ visited \in Seq(Keys) /\ stays \subseteq Keys
      /\ \A i \in DOMAIN visited : findindex(t, visited[i]) \in 1..p
      /\ \A i, j \in DOMAIN visited : i < j => findindex(t, visited[i]) < findindex(t, visited[j])
      /\ \A k \in stays : luaH_get(t, k) # Nil /\ (k \in ToSet(visited) \/ findindex(t, k) > p)
  BY <1>1, <1>3 DEF Visiting
<1>5. luaH_next(t, key) = IF rest = {} THEN Off ELSE SlotKey(t, Min(rest))
  BY DEF luaH_next
<1>6. rest = {i \in (p + 1)..last : Slot(t, i) # Nil}
  BY <1>3
<1>7. ASSUME NEW k \in stays, k \notin ToSet(visited)
      PROVE  findindex(t, k) \in rest /\ SlotKey(t, findindex(t, k)) = k
  <2>1. k \in Keys /\ luaH_get(t, k) # Nil /\ findindex(t, k) > p
    BY <1>4, <1>7
  <2>2. /\ findindex(t, k) \in 1..last /\ Slot(t, findindex(t, k)) # Nil /\ SlotKey(t, findindex(t, k)) = k
    BY <1>2, <2>1, EntryFound
  <2>3. findindex(t, k) \in (p + 1)..last
    <3> HIDE DEF last
    <3> QED BY <1>2, <2>1, <2>2
  <2> QED BY <1>6, <2>2, <2>3
<1> HIDE DEF rest, last
<1>8. CASE rest = {}
  <2>1. key' = Off
    BY <1>1, <1>5, <1>8
  <2>2. visited' = <<>> /\ stays' = {}
    BY <2>1 DEF lua_next
  <2>3. stays \subseteq ToSet(visited)
    BY <1>7, <1>8
  <2> QED BY <2>1, <2>2, <2>3 DEF Visiting
<1>9. CASE rest # {}
  <2>1. PICK i : i = Min(rest)
    OBVIOUS
  <2>2. i \in rest /\ \A j \in rest : i <= j
    <3>1. rest \subseteq Nat
      BY <1>2, <1>6
    <3> QED BY <1>9, <2>1, <3>1, LeastIs
  <2>3. i \in (p + 1)..last /\ Slot(t, i) # Nil /\ i \in 1..last
    BY <1>2, <1>6, <2>2
  <2>4. key' = SlotKey(t, i)
    BY <1>1, <1>5, <1>9, <2>1
  <2>5. PICK k : k = SlotKey(t, i)
    OBVIOUS
  <2>6. k \in Keys /\ findindex(t, k) = i
    <3>1. i \in 1..(Len(t.array) + sizenode(t))
      BY <2>3 DEF last
    <3> QED BY <1>2, <2>3, <2>5, <3>1, SlotFound
  <2>7. k # Off
    BY <2>6, KeysDiffer
  <2>8. key' = k /\ visited' = Append(visited, k) /\ stays' = stays
    BY <2>4, <2>5, <2>7 DEF lua_next
  <2>9. PICK w : w = Append(visited, k)
    OBVIOUS
  <2>10. PICK n \in Nat : n = Len(visited)
    BY <1>4, AppendedSet
  <2>11. /\ w \in Seq(Keys) /\ DOMAIN w = 1..(n + 1) /\ DOMAIN visited = 1..n
         /\ w[n + 1] = k /\ (\A j \in 1..n : w[j] = visited[j]) /\ ToSet(w) = ToSet(visited) \cup {k}
    <3>1. Keys \cup {k} = Keys
      BY <2>6
    <3> QED BY <1>4, <2>9, <2>10, <3>1, AppendedSet
  <2>12. \A j \in 1..n : findindex(t, visited[j]) \in 1..p
    BY <1>4, <2>11
  <2>13. \A j \in DOMAIN w : findindex(t, w[j]) \in 1..i
    <3> SUFFICES ASSUME NEW j \in 1..(n + 1) PROVE findindex(t, w[j]) \in 1..i
      BY <2>11
    <3>1. CASE j \in 1..n
      BY <2>3, <2>11, <2>12, <3>1
    <3>2. CASE j = n + 1
      BY <2>3, <2>6, <2>11, <3>2
    <3> QED BY <3>1, <3>2
  <2>14. \A j, m \in DOMAIN w : j < m => findindex(t, w[j]) < findindex(t, w[m])
    <3> SUFFICES ASSUME NEW j \in 1..(n + 1), NEW m \in 1..(n + 1), j < m PROVE findindex(t, w[j]) < findindex(t, w[m])
      BY <2>11
    <3>1. j \in 1..n /\ w[j] = visited[j]
      BY <2>11
    <3>2. CASE m \in 1..n
      BY <1>4, <2>11, <3>1, <3>2
    <3>3. CASE m = n + 1
      BY <2>3, <2>6, <2>11, <2>12, <3>1, <3>3
    <3> QED BY <3>2, <3>3
  <2>15. ASSUME NEW j \in stays PROVE luaH_get(t, j) # Nil /\ (j \in ToSet(w) \/ findindex(t, j) > i)
    <3>1. luaH_get(t, j) # Nil
      BY <1>4
    <3>2. CASE j \in ToSet(visited)
      BY <2>11, <3>1, <3>2
    <3>3. CASE j \notin ToSet(visited)
      <4>1. PICK m : m = findindex(t, j)
        OBVIOUS
      <4>2. m \in rest /\ SlotKey(t, m) = j
        BY <1>7, <3>3, <4>1
      <4>3. i <= m /\ m \in Int /\ i \in Int
        BY <1>2, <1>6, <2>2, <2>3, <4>2
      <4>4. CASE m = i
        BY <2>5, <2>11, <3>1, <4>2, <4>4
      <4>5. CASE m # i
        BY <3>1, <4>1, <4>3, <4>5
      <4> QED BY <4>4, <4>5
    <3> QED BY <3>2, <3>3
  <2>16. i \in Nat
    BY <2>3
  <2>17. Visiting'
    BY <1>1, <1>4, <2>6, <2>7, <2>8, <2>9, <2>11, <2>13, <2>14, <2>15, <2>16 DEF Visiting
  <2> QED BY <2>7, <2>8, <2>17
<1> QED BY <1>8, <1>9

\* Assign
LEMMA AssignContinues ==
  ASSUME TableOK, Visiting, NEW k \in Keys, NEW v, Assign(k, v)
  PROVE  Visiting'
<1>1. TableOK' /\ \A j \in Keys : luaH_get(t', j) = IF j = k THEN v ELSE luaH_get(t, j)
  BY AssignKeeps
<1>2. key' = key /\ visited' = visited /\ stays' = IF v = Nil THEN stays \ {k} ELSE stays
  BY DEF Assign
<1>3. CASE key = Off
  BY <1>2, <1>3 DEF Visiting
<1>4. CASE key # Off
  <2>1. luaH_get(t, k) # Nil
    BY <1>4 DEF Assign, Present
  <2>2. PICK r : r = luaH_set(t, k, v)
    OBVIOUS
  <2>3. SamePlaces(r.h, t)
    BY <2>1, <2>2, AssignMovesNothing DEF TableOK
  <2>4. SamePlaces(t', t)
    BY <2>2, <2>3 DEF Assign
  <2>5. stays \subseteq Keys /\ \A j \in stays : luaH_get(t, j) # Nil
    BY <1>4 DEF Visiting
  <2>6. stays' \subseteq stays /\ \A j \in stays' : luaH_get(t', j) # Nil
    <3>1. \A j \in stays' : j \in stays /\ (j = k => v # Nil)
      BY <1>2
    <3> QED BY <1>1, <2>5, <3>1
  <2> QED BY <1>1, <1>2, <1>4, <2>4, <2>6, StaysAtItsPlace
<1> QED BY <1>3, <1>4

\* Collect
LEMMA CollectContinues ==
  ASSUME TableOK, Visiting, Collect
  PROVE  Visiting'
<1>1. TableOK' /\ \A j \in Keys : luaH_get(t', j) = luaH_get(t, j)
  BY CollectionKeeps
<1>2. key' = key /\ visited' = visited /\ stays' = stays
  BY DEF Collect
<1>3. stays \subseteq Keys /\ \A j \in stays : luaH_get(t, j) # Nil
  BY DEF Visiting
<1>4. SamePlaces(t', t)
  BY CollectMovesNothing
<1> QED BY <1>1, <1>2, <1>3, <1>4, StaysAtItsPlace

\* Every step keeps the traversal at its place, and it ends when it has seen everything.
LEMMA StepVisits ==
  ASSUME TableOK, Visiting, [Next]_vars
  PROVE  Visiting' /\ (key # Off /\ key' = Off => stays \subseteq ToSet(visited))
<1>1. CASE \E k \in Keys : \E v \in ValuesOf(k) \cup {Nil} : Assign(k, v)
  BY <1>1, AssignContinues DEF Assign
<1>2. CASE \E n \in ArraySizes : luaH_resizearray(n)
  BY <1>2 DEF luaH_resizearray, Visiting
<1>3. CASE Collect
  BY <1>3, CollectContinues DEF Collect
<1>4. CASE BeginTraversal
  BY <1>4, BeginKeeps DEF BeginTraversal
<1>5. CASE lua_next
  BY <1>5, NextKeeps
<1>6. CASE UNCHANGED vars
  BY <1>6 DEF vars, Visiting
<1> QED BY <1>1, <1>2, <1>3, <1>4, <1>5, <1>6 DEF Next

\* No key is met twice and every key it returned is accepted.
LEMMA VisitsOnce ==
  ASSUME Visiting
  PROVE  IsInjective(visited) /\ (key # Off => findindex(t, key) # -1)
<1>1. CASE key = Off
  BY <1>1 DEF Visiting, IsInjective
<1>2. CASE key # Off
  <2>1. findindex(t, key) # -1
    <3>1. findindex(t, key) \in Nat
      BY <1>2 DEF Visiting
    <3> QED BY <3>1
  <2>2. ASSUME NEW i \in DOMAIN visited, NEW j \in DOMAIN visited, visited[i] = visited[j] PROVE i = j
    <3>1. i \in Int /\ j \in Int
      BY <1>2 DEF Visiting
    <3>2. findindex(t, visited[i]) \in Int /\ findindex(t, visited[j]) = findindex(t, visited[i])
      BY <1>2, <2>2 DEF Visiting
    <3>3. ~(i < j) /\ ~(j < i)
      BY <1>2, <3>2 DEF Visiting
    <3> QED BY <3>1, <3>3
  <2> QED BY <2>1, <2>2 DEF IsInjective
<1> QED BY <1>1, <1>2

\* A traversal during which fields are changed or cleared and keys die meets no key twice,
\* accepts every key it returned, and visits every entry that stays (Traverses).
THEOREM Traversal == Spec => Traverses
<1>1. Init => Visiting
  BY DEF Init, Visiting
<1>2. TableOK /\ Visiting /\ [Next]_vars => Visiting'
  BY StepVisits
<1>3. TableOK /\ Visiting /\ [Next]_vars
      => [/\ IsInjective(visited)
          /\ key # Off => findindex(t, key) # -1
          /\ key # Off /\ key' = Off => stays \subseteq ToSet(visited)]_vars
  BY StepVisits, VisitsOnce
<1> QED BY <1>1, <1>2, <1>3, StructureKept, PTL DEF Spec, Traverses

-----------------------------------------------------------------------------
(* Length.                                                                 *)

IsBorder(h, n) == n \in Nat /\ (n = 0 \/ Item(h, n) # Nil) /\ Item(h, n + 1) = Nil

\* The binary search has an item or 0 at its lower end and none at its upper end.
Between(h, p) == p[1] < p[2] /\ (p[1] = 0 \/ Item(h, p[1]) # Nil) /\ Item(h, p[2]) = Nil

\* The half in which the search goes on.
Half(h, p) == IF Item(h, Middle(p)) = Nil THEN <<p[1], Middle(p)>> ELSE <<Middle(p), p[2]>>

\* It is a smaller interval with the same ends.
LEMMA HalfSmaller ==
  ASSUME NEW h, NEW p \in Nat \X Nat
  PROVE  /\ Half(h, p) \in Nat \X Nat
         /\ p[2] - p[1] > 1 => /\ Half(h, p)[2] - Half(h, p)[1] < p[2] - p[1] /\ Half(h, p)[1] < Half(h, p)[2]
                               /\ Between(h, p) => Between(h, Half(h, p))
<1>1. PICK a \in Nat, b \in Nat : p = <<a, b>>
  OBVIOUS
<1>2. PICK m : m = Middle(p)
  OBVIOUS
<1>3. m = (a + b) \div 2 /\ p[1] = a /\ p[2] = b
  BY <1>1, <1>2 DEF Middle
<1>4. m \in Nat /\ (b - a > 1 => a < m /\ m < b)
  BY <1>3
<1>5. CASE Item(h, m) = Nil
  <2>1. Half(h, p) = <<a, m>>
    BY <1>2, <1>3, <1>5 DEF Half
  <2>2. Half(h, p) \in Nat \X Nat /\ Half(h, p)[1] = a /\ Half(h, p)[2] = m
    BY <1>4, <2>1
  <2> QED BY <1>3, <1>4, <1>5, <2>2 DEF Between
<1>6. CASE Item(h, m) # Nil
  <2>1. Half(h, p) = <<m, b>>
    BY <1>2, <1>3, <1>6 DEF Half
  <2>2. Half(h, p) \in Nat \X Nat /\ Half(h, p)[1] = m /\ Half(h, p)[2] = b
    BY <1>4, <2>1
  <2> QED BY <1>3, <1>4, <1>6, <2>2 DEF Between
<1> QED BY <1>5, <1>6

\* search is what the binary search computes.
Searches(h, search) ==
  search = [p \in Nat \X Nat |-> IF p[2] - p[1] <= 1 THEN p[1] ELSE search[Half(h, p)]]

\* The binary search ends.
LEMMA SearchExists ==
  ASSUME NEW h
  PROVE  \E search : Searches(h, search)
<1> DEFINE X == Nat \X Nat
           end == {p \in X : p[2] - p[1] <= 1}
           nx == [p \in X |-> Half(h, p)]
           rank == [p \in X |-> IF p[1] < p[2] THEN p[2] - p[1] ELSE 0]
<1>1. nx \in [X -> X]
  BY HalfSmaller
<1>2. rank \in [X -> Nat]
  OBVIOUS
<1>3. ASSUME NEW p \in X, p \notin end PROVE rank[nx[p]] < rank[p]
  <2>1. PICK q : q = Half(h, p)
    OBVIOUS
  <2>2. p[2] - p[1] > 1 /\ p[1] \in Nat /\ p[2] \in Nat
    BY <1>3
  <2>3. q \in X /\ q[2] - q[1] < p[2] - p[1] /\ q[1] < q[2]
    BY <2>1, <2>2, HalfSmaller
  <2>4. rank[q] = q[2] - q[1] /\ rank[p] = p[2] - p[1] /\ nx[p] = q
    BY <2>1, <2>2, <2>3
  <2> QED BY <2>3, <2>4
<1>4. PICK f \in [X -> X] : Follows(f, X, end, nx)
  <2> HIDE DEF X, end, nx, rank
  <2> QED BY <1>1, <1>2, <1>3, TailRecursion
<1>5. PICK search : search = [p \in X |-> f[p][1]]
  OBVIOUS
<1>6. ASSUME NEW p \in X PROVE search[p] = IF p[2] - p[1] <= 1 THEN p[1] ELSE search[Half(h, p)]
  <2>1. f[p] = IF p \in end THEN p ELSE f[nx[p]]
    BY <1>4 DEF Follows
  <2>2. CASE p[2] - p[1] <= 1
    <3>1. f[p] = p
      BY <2>1, <2>2
    <3> QED BY <1>5, <2>2, <3>1
  <2>3. CASE ~(p[2] - p[1] <= 1)
    <3>1. Half(h, p) \in X
      BY HalfSmaller
    <3>2. f[p] = f[Half(h, p)]
      BY <2>1, <2>3
    <3> QED BY <1>5, <2>3, <3>1, <3>2
  <2> QED BY <2>2, <2>3
<1>7. search = [p \in X |-> IF p[2] - p[1] <= 1 THEN p[1] ELSE search[Half(h, p)]]
  <2> HIDE DEF X
  <2> QED BY <1>5, <1>6
<1> QED BY <1>7 DEF Searches

\* The binary search finds a border.
LEMMA SearchFinds ==
  ASSUME NEW h, NEW search, Searches(h, search), NEW p \in Nat \X Nat, Between(h, p)
  PROVE  IsBorder(h, search[p])
<1> DEFINE G == {m \in Nat : \A q \in Nat \X Nat : q[2] - q[1] <= m /\ Between(h, q) => IsBorder(h, search[q])}
<1>1. 0 \in G
  <2>1. ASSUME NEW q \in Nat \X Nat, q[2] - q[1] <= 0, Between(h, q) PROVE FALSE
    BY <2>1 DEF Between
  <2> QED BY <2>1
<1>2. ASSUME NEW m \in Nat, m \in G PROVE m + 1 \in G
  <2>1. ASSUME NEW q \in Nat \X Nat, q[2] - q[1] <= m + 1, Between(h, q) PROVE IsBorder(h, search[q])
    <3>1. search[q] = IF q[2] - q[1] <= 1 THEN q[1] ELSE search[Half(h, q)]
      BY DEF Searches
    <3>2. q[1] \in Nat /\ q[2] \in Nat
      OBVIOUS
    <3>3. CASE q[2] - q[1] <= 1
      <4>1. q[2] = q[1] + 1
        BY <2>1, <3>2, <3>3 DEF Between
      <4> QED BY <2>1, <3>1, <3>2, <3>3, <4>1 DEF Between, IsBorder
    <3>4. CASE ~(q[2] - q[1] <= 1)
      <4>1. PICK r : r = Half(h, q)
        OBVIOUS
      <4>2. q[2] - q[1] > 1
        BY <3>2, <3>4
      <4>3. r \in Nat \X Nat /\ r[2] - r[1] < q[2] - q[1] /\ Between(h, r)
        BY <2>1, <4>1, <4>2, HalfSmaller
      <4>4. r[2] - r[1] <= m
        BY <2>1, <3>2, <4>3
      <4>5. IsBorder(h, search[r])
        BY <1>2, <4>3, <4>4
      <4> QED BY <3>1, <3>4, <4>1, <4>5
    <3> QED BY <3>3, <3>4
  <2> QED BY <2>1
<1>3. Nat \subseteq G
  <2> HIDE DEF G
  <2> QED BY <1>1, <1>2, Induction
<1>4. p[2] - p[1] \in Nat /\ p[2] - p[1] <= p[2] - p[1]
  BY DEF Between
<1>5. p[2] - p[1] \in G
  <2> HIDE DEF G
  <2> QED BY <1>3, <1>4
<1> QED BY <1>4, <1>5

\* The binary search of luaH_getn.
LEMMA BorderFound ==
  ASSUME NEW h, NEW i \in Nat, NEW j \in Nat, Between(h, <<i, j>>)
  PROVE  IsBorder(h, Border(h, i, j))
<1> DEFINE Search(f) == f = [p \in Nat \X Nat |->
                               IF p[2] - p[1] <= 1 THEN p[1]
                               ELSE f[IF Item(h, Middle(p)) = Nil THEN <<p[1], Middle(p)>> ELSE <<Middle(p), p[2]>>]]
           search == CHOOSE f : Search(f)
<1>1. ASSUME NEW f PROVE Search(f) <=> Searches(h, f)
  BY Zenon DEF Searches, Half
<1>2. Border(h, i, j) = search[<<i, j>>]
  BY DEF Border
<1>3. \E f : Search(f)
  <2> HIDE DEF Search
  <2> QED BY <1>1, SearchExists
<1>4. Search(search)
  <2> HIDE DEF Search
  <2> QED BY <1>3
<1> HIDE DEF Search, search
<1>5. Searches(h, search)
  BY <1>1, <1>4
<1>6. <<i, j>> \in Nat \X Nat
  OBVIOUS
<1> QED BY <1>2, <1>5, <1>6, SearchFinds

\* probe is what the search behind the array computes.
Probes(h, probe) ==
  probe = [p \in Nat \X Nat |->
             IF Item(h, p[2]) = Nil THEN Border(h, p[1], p[2]) ELSE probe[<<p[2], 2 * p[2]>>]]

\* No item is behind the number last.
Ends(h, last) == last \in Nat /\ \A i \in Nat : i >= last => Item(h, i) = Nil

\* It ends when the items do.
LEMMA ProbeExists ==
  ASSUME NEW h, NEW last, Ends(h, last)
  PROVE  \E probe : Probes(h, probe)
<1> DEFINE X == Nat \X Nat
           end == {p \in X : Item(h, p[2]) = Nil \/ p[2] = 0}
           nx == [p \in X |-> <<p[2], 2 * p[2]>>]
           rank == [p \in X |-> IF p[2] < last THEN last - p[2] ELSE 0]
<1>1. last \in Nat /\ \A i \in Nat : i >= last => Item(h, i) = Nil
  BY DEF Ends
<1>2. nx \in [X -> X] /\ rank \in [X -> Nat]
  BY <1>1
<1>3. ASSUME NEW p \in X, p \notin end PROVE rank[nx[p]] < rank[p]
  <2>1. PICK b \in Nat : b = p[2]
    OBVIOUS
  <2>2. Item(h, b) # Nil /\ b # 0
    BY <1>3, <2>1
  <2>3. b < last
    BY <1>1, <2>1, <2>2
  <2>4. nx[p] = <<b, 2 * b>> /\ nx[p] \in X /\ nx[p][2] = 2 * b
    BY <2>1
  <2>5. rank[p] = last - b /\ rank[nx[p]] = IF 2 * b < last THEN last - 2 * b ELSE 0
    BY <2>1, <2>3, <2>4
  <2> HIDE DEF nx, rank
  <2> QED BY <1>1, <2>1, <2>2, <2>3, <2>5
<1>4. PICK f \in [X -> X] : Follows(f, X, end, nx)
  <2> HIDE DEF X, end, nx, rank
  <2> QED BY <1>2, <1>3, TailRecursion
<1> DEFINE Found(q) == IF Item(h, q[2]) = Nil THEN Border(h, q[1], q[2]) ELSE 0
<1>5. PICK probe : probe = [p \in X |-> Found(f[p])]
  OBVIOUS
<1>6. ASSUME NEW p \in X PROVE probe[p] = IF Item(h, p[2]) = Nil THEN Border(h, p[1], p[2]) ELSE probe[<<p[2], 2 * p[2]>>]
  <2>1. f[p] = IF p \in end THEN p ELSE f[nx[p]]
    BY <1>4 DEF Follows
  <2>2. <<p[2], 2 * p[2]>> \in X /\ nx[p] = <<p[2], 2 * p[2]>>
    OBVIOUS
  <2>3. probe[p] = Found(f[p]) /\ probe[<<p[2], 2 * p[2]>>] = Found(f[<<p[2], 2 * p[2]>>])
    BY <1>5, <2>2
  <2>4. CASE Item(h, p[2]) = Nil
    <3>1. f[p] = p
      BY <2>1, <2>4
    <3> QED BY <2>3, <2>4, <3>1
  <2>5. CASE Item(h, p[2]) # Nil /\ p[2] = 0
    <3>1. f[p] = p
      BY <2>1, <2>5
    <3>2. PICK q : q = <<p[2], 2 * p[2]>>
      OBVIOUS
    <3>3. q \in X /\ q[2] = 0
      BY <2>5, <3>2
    <3>4. f[q] = q
      <4>1. q \in end
        BY <3>3
      <4>2. f[q] = IF q \in end THEN q ELSE f[nx[q]]
        BY <1>4, <3>3 DEF Follows
      <4> QED BY <4>1, <4>2
    <3>5. Found(p) = 0 /\ Found(q) = 0
      BY <2>5, <3>3
    <3>6. probe[p] = 0 /\ probe[q] = 0
      BY <2>3, <3>1, <3>2, <3>4, <3>5
    <3> QED BY <2>5, <3>2, <3>6
  <2>6. CASE Item(h, p[2]) # Nil /\ p[2] # 0
    <3>1. f[p] = f[<<p[2], 2 * p[2]>>]
      BY <2>1, <2>2, <2>6
    <3> HIDE DEF Found
    <3> QED BY <2>3, <2>6, <3>1
  <2> QED BY <2>4, <2>5, <2>6
<1> HIDE DEF Found
<1>7. probe = [p \in X |-> IF Item(h, p[2]) = Nil THEN Border(h, p[1], p[2]) ELSE probe[<<p[2], 2 * p[2]>>]]
  <2> HIDE DEF X
  <2> QED BY <1>5, <1>6
<1> QED BY <1>7 DEF Probes

\* It finds a border.
LEMMA ProbeFinds ==
  ASSUME NEW h, NEW last, Ends(h, last), NEW probe, Probes(h, probe), NEW p \in Nat \X Nat,
         p[1] < p[2], p[1] = 0 \/ Item(h, p[1]) # Nil
  PROVE  IsBorder(h, probe[p])
<1> DEFINE Starts(q) == q[1] < q[2] /\ (q[1] = 0 \/ Item(h, q[1]) # Nil)
           G == {m \in Nat : \A q \in Nat \X Nat : last - q[2] <= m /\ Starts(q) => IsBorder(h, probe[q])}
<1>1. last \in Nat /\ \A i \in Nat : i >= last => Item(h, i) = Nil
  BY DEF Ends
<1>2. ASSUME NEW q \in Nat \X Nat
      PROVE  probe[q] = IF Item(h, q[2]) = Nil THEN Border(h, q[1], q[2]) ELSE probe[<<q[2], 2 * q[2]>>]
  BY DEF Probes
<1>3. ASSUME NEW q \in Nat \X Nat, Starts(q), Item(h, q[2]) = Nil PROVE IsBorder(h, probe[q])
  <2>1. PICK a \in Nat, b \in Nat : q = <<a, b>>
    OBVIOUS
  <2>2. Between(h, <<a, b>>)
    BY <1>3, <2>1 DEF Between
  <2>3. probe[q] = Border(h, a, b)
    BY <1>2, <1>3, <2>1
  <2> QED BY <2>2, <2>3, BorderFound
<1>4. 0 \in G
  <2>1. ASSUME NEW q \in Nat \X Nat, last - q[2] <= 0, Starts(q) PROVE IsBorder(h, probe[q])
    <3>1. Item(h, q[2]) = Nil
      <4>1. q[2] \in Nat /\ q[2] >= last
        BY <1>1, <2>1
      <4> QED BY <1>1, <4>1
    <3> QED BY <1>3, <2>1, <3>1
  <2> HIDE DEF Starts
  <2> QED BY <2>1
<1>5. ASSUME NEW m \in Nat, m \in G PROVE m + 1 \in G
  <2>1. ASSUME NEW q \in Nat \X Nat, last - q[2] <= m + 1, Starts(q) PROVE IsBorder(h, probe[q])
    <3>1. CASE Item(h, q[2]) = Nil
      BY <1>3, <2>1, <3>1
    <3>2. CASE Item(h, q[2]) # Nil
      <4>1. PICK r : r = <<q[2], 2 * q[2]>>
        OBVIOUS
      <4>2. q[1] \in Nat /\ q[2] \in Nat /\ q[1] < q[2]
        BY <2>1
      <4>3. r \in Nat \X Nat /\ r[1] = q[2] /\ r[2] = 2 * q[2]
        BY <4>1, <4>2
      <4>4. Starts(r)
        BY <3>2, <4>2, <4>3
      <4>5. last - r[2] <= m
        BY <1>1, <2>1, <4>2, <4>3
      <4>6. IsBorder(h, probe[r])
        <5> HIDE DEF Starts
        <5> QED BY <1>5, <4>3, <4>4, <4>5
      <4> QED BY <1>2, <3>2, <4>1, <4>6
    <3> QED BY <3>1, <3>2
  <2> HIDE DEF Starts
  <2> QED BY <2>1
<1>6. Nat \subseteq G
  <2> HIDE DEF G
  <2> QED BY <1>4, <1>5, Induction
<1>7. PICK m \in Nat : last - p[2] <= m
  <2>1. last - p[2] <= last
    BY <1>1
  <2> QED BY <1>1, <2>1
<1>8. m \in G
  <2> HIDE DEF G
  <2> QED BY <1>6
<1>9. Starts(p)
  OBVIOUS
<1> HIDE DEF Starts
<1> QED BY <1>7, <1>8, <1>9

\* The search behind the array finds a border.
LEMMA UnboundFound ==
  ASSUME NEW h, NEW last, Ends(h, last), NEW j \in Nat, j = 0 \/ Item(h, j) # Nil
  PROVE  IsBorder(h, unbound_search(h, j))
<1> DEFINE Probe(f) == f = [p \in Nat \X Nat |->
                              IF Item(h, p[2]) = Nil THEN Border(h, p[1], p[2]) ELSE f[<<p[2], 2 * p[2]>>]]
           probe == CHOOSE f : Probe(f)
<1>1. ASSUME NEW f PROVE Probe(f) <=> Probes(h, f)
  BY Zenon DEF Probes
<1>2. unbound_search(h, j) = probe[<<j, j + 1>>]
  BY DEF unbound_search
<1>3. \E f : Probe(f)
  <2> HIDE DEF Probe
  <2> QED BY <1>1, ProbeExists
<1>4. Probe(probe)
  <2> HIDE DEF Probe
  <2> QED BY <1>3
<1> HIDE DEF Probe, probe
<1>5. Probes(h, probe)
  BY <1>1, <1>4
<1>6. PICK p : p = <<j, j + 1>>
  OBVIOUS
<1>7. p \in Nat \X Nat /\ p[1] = j /\ p[2] = j + 1
  BY <1>6
<1>8. IsBorder(h, probe[p])
  BY <1>5, <1>7, ProbeFinds
<1> QED BY <1>2, <1>6, <1>8

\* An item is in the array, or a node has its number as key.
LEMMA ItemIsThere ==
  ASSUME NEW h, TableInv(h), NEW i \in Nat, Hash(<<"int", i>>) \in Nat, Item(h, i) # Nil
  PROVE  i \in 1..Len(h.array) \/ \E x \in Positions(h) : h.node[x].key = <<"int", i>>
<1> SUFFICES ASSUME i \notin 1..Len(h.array), \A x \in Positions(h) : h.node[x].key # <<"int", i>> PROVE FALSE
  OBVIOUS
<1>1. PICK k : k = <<"int", i>>
  OBVIOUS
<1>2. arrayindex(k) = i
  BY <1>1 DEF arrayindex
<1>3. ~InArray(h, k)
  BY <1>2 DEF InArray
<1>4. mainposition(h, k) \in Positions(h)
  BY <1>1, HashPosition DEF TableInv, Shape
<1>5. Find(h, k, FALSE) = 0
  BY <1>1, <1>4, NotFound
<1>6. luaH_get(h, k) = Nil
  BY <1>3, <1>5 DEF luaH_get
<1> QED BY <1>1, <1>6 DEF Item

\* A table has a last item.
LEMMA ItemsEnd ==
  ASSUME NEW h, TableInv(h), \A i \in Nat : Hash(<<"int", i>>) \in Nat
  PROVE  \E last : Ends(h, last)
<1> DEFINE G == {n \in Nat : \E b \in Nat : \A x \in Positions(h) : \A i \in Nat : x <= n /\ h.node[x].key = <<"int", i>> => i < b}
<1>1. sizenode(h) \in Nat /\ Len(h.array) \in Nat /\ Positions(h) = 1..sizenode(h)
  BY DEF TableInv, Shape, Positions
<1>2. 0 \in G
  <2>1. 0 \in Nat /\ \A x \in Positions(h) : ~(x <= 0)
    BY <1>1
  <2> QED BY <2>1
<1>3. ASSUME NEW n \in Nat, n \in G PROVE n + 1 \in G
  <2>1. PICK b \in Nat : \A x \in Positions(h) : \A i \in Nat : x <= n /\ h.node[x].key = <<"int", i>> => i < b
    BY <1>3
  <2>2. CASE \E j \in Nat : h.node[n + 1].key = <<"int", j>>
    <3>1. PICK j \in Nat : h.node[n + 1].key = <<"int", j>>
      BY <2>2
    <3>2. ASSUME NEW x \in Positions(h), NEW i \in Nat, x <= n + 1, h.node[x].key = <<"int", i>> PROVE i < b + j + 1
      <4>1. CASE x <= n
        <5>1. i < b
          BY <2>1, <3>2, <4>1
        <5> QED BY <5>1
      <4>2. CASE x = n + 1
        <5>1. i = j
          BY <3>1, <3>2, <4>2
        <5> QED BY <5>1
      <4>3. x <= n \/ x = n + 1
        BY <1>1, <3>2
      <4> QED BY <4>1, <4>2, <4>3
    <3>3. b + j + 1 \in Nat /\ n + 1 \in Nat
      OBVIOUS
    <3> QED BY <3>2, <3>3
  <2>3. CASE \A j \in Nat : h.node[n + 1].key # <<"int", j>>
    <3>1. ASSUME NEW x \in Positions(h), NEW i \in Nat, x <= n + 1, h.node[x].key = <<"int", i>> PROVE i < b
      <4>1. x # n + 1
        BY <2>3, <3>1
      <4>2. x <= n
        BY <1>1, <3>1, <4>1
      <4> QED BY <2>1, <3>1, <4>2
    <3>2. n + 1 \in Nat
      OBVIOUS
    <3> QED BY <3>1, <3>2
  <2> QED BY <2>2, <2>3
<1>4. Nat \subseteq G
  <2> HIDE DEF G
  <2> QED BY <1>2, <1>3, Induction
<1>5. PICK b \in Nat : \A x \in Positions(h) : \A i \in Nat : x <= sizenode(h) /\ h.node[x].key = <<"int", i>> => i < b
  <2>1. sizenode(h) \in G
    <3> HIDE DEF G
    <3> QED BY <1>1, <1>4
  <2> QED BY <2>1
<1>6. PICK last \in Nat : last = b + Len(h.array) + 1
  BY <1>1
<1>7. ASSUME NEW i \in Nat, i >= last PROVE Item(h, i) = Nil
  <2>1. i \notin 1..Len(h.array) /\ ~(i < b)
    BY <1>1, <1>6, <1>7
  <2>2. \A x \in Positions(h) : h.node[x].key # <<"int", i>>
    <3>1. \A x \in Positions(h) : x <= sizenode(h)
      BY <1>1
    <3> QED BY <1>5, <2>1, <3>1
  <2> QED BY <2>1, <2>2, ItemIsThere
<1>8. Ends(h, last)
  BY <1>7 DEF Ends
<1> QED BY <1>8

\* What the array holds.
LEMMA ArrayItem ==
  ASSUME NEW h, NEW j \in Nat, Len(h.array) = j, j > 0
  PROVE  Item(h, j) = h.array[j]
<1>1. PICK k : k = <<"int", j>>
  OBVIOUS
<1>2. arrayindex(k) = j
  BY <1>1 DEF arrayindex
<1>3. InArray(h, k)
  BY <1>2 DEF InArray
<1>4. luaH_get(h, k) = h.array[j]
  BY <1>2, <1>3 DEF luaH_get
<1> QED BY <1>1, <1>4 DEF Item

\* luaH_getn returns a border of every table.
LEMMA LengthFound ==
  ASSUME NEW h, TableInv(h), \A i \in Nat : Hash(<<"int", i>>) \in Nat
  PROVE  IsBorder(h, luaH_getn(h))
<1>1. PICK j \in Nat : j = Len(h.array)
  BY DEF TableInv, Shape
<1>2. luaH_getn(h) = IF j > 0 /\ h.array[j] = Nil THEN Border(h, 0, j) ELSE IF h.dummy THEN j ELSE unbound_search(h, j)
  BY <1>1 DEF luaH_getn
<1>3. j > 0 => Item(h, j) = h.array[j]
  BY <1>1, ArrayItem
<1>4. CASE j > 0 /\ h.array[j] = Nil
  <2>1. 0 \in Nat /\ Between(h, <<0, j>>)
    BY <1>3, <1>4 DEF Between
  <2> QED BY <1>2, <1>4, <2>1, BorderFound
<1>5. CASE ~(j > 0 /\ h.array[j] = Nil) /\ h.dummy
  <2>1. j = 0 \/ Item(h, j) # Nil
    BY <1>3, <1>5
  <2>2. Item(h, j + 1) = Nil
    <3> SUFFICES ASSUME Item(h, j + 1) # Nil PROVE FALSE
      OBVIOUS
    <3>1. j + 1 \in Nat /\ j + 1 \notin 1..Len(h.array)
      BY <1>1
    <3>2. PICK x \in Positions(h) : h.node[x].key = <<"int", j + 1>>
      BY <3>1, ItemIsThere
    <3>3. h.node[x].key = Nil
      BY <1>5 DEF TableInv, Unused, Positions
    <3> QED BY <3>2, <3>3 DEF Nil
  <2> QED BY <1>2, <1>5, <2>1, <2>2 DEF IsBorder
<1>6. CASE ~(j > 0 /\ h.array[j] = Nil) /\ ~h.dummy
  <2>1. j = 0 \/ Item(h, j) # Nil
    BY <1>3, <1>6
  <2>2. PICK last : Ends(h, last)
    BY ItemsEnd
  <2>3. IsBorder(h, unbound_search(h, j))
    BY <2>1, <2>2, UnboundFound
  <2> QED BY <1>2, <1>6, <2>3
<1> QED BY <1>4, <1>5, <1>6

\* The length operator returns a border, if every integer is hashed to a number
\* (LengthIsBorder).
THEOREM LengthReturned ==
  ASSUME \A i \in Nat : Hash(<<"int", i>>) \in Nat
  PROVE  Spec => []LengthIsBorder
<1>1. TableOK => LengthIsBorder
  BY LengthFound DEF TableOK, LengthIsBorder, IsBorder
<1> QED BY <1>1, StructureKept, PTL
==============================================================================
