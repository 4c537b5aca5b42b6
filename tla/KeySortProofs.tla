---------------------------- MODULE KeySortProofs ----------------------------
(***************************************************************************)
(* table.sort, driven by sortCmp, keeps what the writer expects of it for  *)
(* every set of keys: no key is lost, no scan leaves its range, and keys   *)
(* that are linearly ordered come out in order.  The argument needs of     *)
(* sortCmp only that no key is less than itself and no two keys are less   *)
(* than each other, except for the last claim.                             *)
(***************************************************************************)
EXTENDS KeySort, FiniteSetTheorems, FunctionTheorems, SequenceTheorems, TLAPS

Lt(x, y) == sortCmp(x, y) = "yes"

\* A range: its first and its last position.
Slice == Int \X Int

\* Position p lies in range r.
In(p, r) == r[1] <= p /\ p <= r[2]

-----------------------------------------------------------------------------
(* The inductive invariant.                                                *)

\* The array holds every key once.
ArrayOK == a \in Seq(Range(a)) /\ Range(a) \in KeySets /\ IsInjective(a)

\* The ranges that remain to be sorted lie in the array and do not overlap.
Apart(t, n) ==
  /\ t \in Seq(Slice)
  /\ \A k \in 1..Len(t) : 1 <= t[k][1] /\ t[k][2] <= n
  /\ \A k, m \in 1..Len(t) : k # m => \A p \in 1..n : ~(In(p, t[k]) /\ In(p, t[m]))

RangesOK == Apart(todo, Len(a))

\* Two keys that no remaining range contains both are in order.
OrderedApart ==
  Linear(Range(a)) =>
    \A p, q \in 1..Len(a) : p < q =>
      Lt(a[p], a[q]) \/ \E k \in 1..Len(todo) : In(p, todo[k]) /\ In(q, todo[k])

\* While a range is partitioned: the pivot is parked at u - 1, what the upward scan has
\* passed is not above it, what the downward scan has passed is not below it.
Partitioned ==
  /\ pc \in {"middle", "up", "down"} => todo # <<>>
  /\ pc = "middle" => u - l >= 2 /\ ~Lt(a[u], a[l])
  /\ pc \in {"up", "down"} =>
       /\ u - l >= 3 /\ l < j /\ j <= u - 1
       /\ \A p \in j..u : ~Lt(a[p], P)
  /\ pc = "up" =>
       /\ l <= i /\ i < u - 1
       /\ \A p \in l..i : ~Lt(P, a[p])
  /\ pc = "down" =>
       /\ l < i /\ i <= u - 1 /\ ~Lt(a[i], P)
       /\ \A p \in l..(i - 1) : ~Lt(P, a[p])

\* The scans, and how the sort ends.
ControlOK ==
  /\ i \in Int /\ j \in Int
  /\ pc \in {"range", "middle", "up", "down", "done", "error"}
  /\ pc = "done" => todo = <<>>
  /\ pc = "error" => MayRaise(Range(a))

IInv == ArrayOK /\ RangesOK /\ OrderedApart /\ Partitioned /\ ControlOK

-----------------------------------------------------------------------------
(* The order function.                                                     *)

\* sortCmp never answers yes for both x, y and y, x; in particular not for x, x.
LEMMA NeverBoth ==
  ASSUME NEW K \in KeySets, NEW x \in K, NEW y \in K
  PROVE  ~(Lt(x, y) /\ Lt(y, x))
<1> SUFFICES ASSUME Lt(x, y), Lt(y, x) PROVE FALSE
  OBVIOUS
<1>1. IsKey(x) /\ IsKey(y)
  BY KeySetsAssumption
<1>2. /\ ~Raises(x, y) /\ ~Raises(y, x)
      /\ Less(x, y) /\ Less(y, x)
  BY DEF Lt, sortCmp
<1>3. lua_type(True) = "bool" /\ lua_type(False) = "bool"
  BY DEF lua_type, True, False
<1>4. /\ lua_type(x) \in {"bool", "num", "table", "str", "function"}
      /\ lua_type(y) \in {"bool", "num", "table", "str", "function"}
      /\ lua_type(x) \in {"num", "table"} => x[2] \in Int
      /\ lua_type(y) \in {"num", "table"} => y[2] \in Int
  BY <1>1, <1>3 DEF IsKey
<1>5. CASE lua_type(x) = "str" /\ lua_type(y) = "str"
  BY <1>2, <1>5, CollatesAssumption DEF Less
<1>6. CASE lua_type(x) = lua_type(y) /\ lua_type(x) # "str"
  BY <1>2, <1>4, <1>6 DEF Less, Raises
<1>7. CASE {lua_type(x), lua_type(y)} = {"bool", "num"}
  <2>1. AsNumber(x) \in Int /\ AsNumber(y) \in Int
    BY <1>1, <1>3, <1>4, <1>7 DEF AsNumber, IsKey
  <2> QED BY <1>2, <1>7, <2>1 DEF Less
<1>8. CASE lua_type(x) # lua_type(y) /\ {lua_type(x), lua_type(y)} # {"bool", "num"}
  BY <1>2, <1>4, <1>8 DEF Less
<1> QED BY <1>5, <1>6, <1>7, <1>8

\* On keys in a line, of two different keys one is less than the other.
LEMMA LinearDecides ==
  ASSUME NEW K, Linear(K), NEW x \in K, NEW y \in K, x # y, ~Lt(x, y)
  PROVE  Lt(y, x)
BY DEF Linear, Lt

-----------------------------------------------------------------------------
(* The array and the ranges.                                               *)

\* A function on 1..n is a sequence.
LEMMA FunctionIsSeq ==
  ASSUME NEW S, NEW n \in Nat, NEW f \in [1..n -> S]
  PROVE  f \in Seq(S) /\ Len(f) = n
OBVIOUS

Exchanged(b, p, q) == [b EXCEPT ![p] = b[q], ![q] = b[p]]

\* Exchanging two elements keeps every element once.
LEMMA Exchange ==
  ASSUME NEW b, b \in Seq(Range(b)), IsInjective(b),
         NEW p \in 1..Len(b), NEW q \in 1..Len(b)
  PROVE  LET c == Exchanged(b, p, q) IN
         /\ c \in Seq(Range(c)) /\ IsInjective(c)
         /\ Range(c) = Range(b) /\ Len(c) = Len(b)
         /\ \A k \in 1..Len(b) : c[k] = IF k = q THEN b[p] ELSE IF k = p THEN b[q] ELSE b[k]
<1> DEFINE c == Exchanged(b, p, q)
<1>1. /\ b \in [1..Len(b) -> Range(b)] /\ Len(b) \in Nat /\ DOMAIN b = 1..Len(b)
  BY LenProperties
<1>2. /\ DOMAIN c = 1..Len(b)
      /\ c \in [1..Len(b) -> Range(b)]
      /\ \A k \in 1..Len(b) : c[k] = IF k = q THEN b[p] ELSE IF k = p THEN b[q] ELSE b[k]
  BY <1>1 DEF Exchanged
<1> HIDE DEF c
<1>3. Range(c) = Range(b)
  <2>1. ASSUME NEW y \in Range(c) PROVE y \in Range(b)
    BY <2>1, <1>1, <1>2 DEF Range
  <2>2. ASSUME NEW y \in Range(b) PROVE y \in Range(c)
    <3>1. PICK k \in 1..Len(b) : y = b[k]
      BY <1>1 DEF Range
    <3>2. \E m \in 1..Len(b) : y = c[m]
      BY <3>1, <1>1, <1>2
    <3> QED BY <3>2, <1>2 DEF Range
  <2> QED BY <2>1, <2>2
<1>4. c \in Seq(Range(c)) /\ Len(c) = Len(b)
  BY <1>1, <1>2, <1>3, FunctionIsSeq
<1>5. IsInjective(c)
  BY <1>1, <1>2 DEF IsInjective
<1>6. /\ c \in Seq(Range(c)) /\ IsInjective(c)
      /\ Range(c) = Range(b) /\ Len(c) = Len(b)
      /\ \A k \in 1..Len(b) : c[k] = IF k = q THEN b[p] ELSE IF k = p THEN b[q] ELSE b[k]
  BY <1>2, <1>3, <1>4, <1>5
<1> QED BY <1>6 DEF c

\* b holds the elements of the array, those in lo..hi possibly in another order.
Rearranges(b, lo, hi) ==
  /\ b \in Seq(Range(b)) /\ IsInjective(b) /\ Range(b) = Range(a) /\ Len(b) = Len(a)
  /\ \A p \in 1..Len(a) : p < lo \/ p > hi => b[p] = a[p]
  /\ \A p \in 1..Len(a) : lo <= p /\ p <= hi => \E q \in 1..Len(a) : lo <= q /\ q <= hi /\ b[p] = a[q]

\* Exchanging elements of one range rearranges it.
LEMMA ExchangeRearranges ==
  ASSUME Len(a) \in Nat, NEW lo \in Int, NEW hi \in Int, NEW b, Rearranges(b, lo, hi),
         NEW p \in 1..Len(a), NEW q \in 1..Len(a), lo <= p, p <= hi, lo <= q, q <= hi
  PROVE  /\ Rearranges(Exchanged(b, p, q), lo, hi)
         /\ \A k \in 1..Len(a) :
              Exchanged(b, p, q)[k] = IF k = q THEN b[p] ELSE IF k = p THEN b[q] ELSE b[k]
<1> DEFINE c == Exchanged(b, p, q)
<1>1. /\ b \in Seq(Range(b)) /\ IsInjective(b) /\ Range(b) = Range(a) /\ Len(b) = Len(a)
      /\ p \in 1..Len(b) /\ q \in 1..Len(b)
  BY DEF Rearranges
<1>2. /\ c \in Seq(Range(c)) /\ IsInjective(c)
      /\ Range(c) = Range(b) /\ Len(c) = Len(b)
      /\ \A k \in 1..Len(b) : c[k] = IF k = q THEN b[p] ELSE IF k = p THEN b[q] ELSE b[k]
  BY <1>1, Exchange
<1> HIDE DEF c
<1>3. ASSUME NEW k \in 1..Len(a), k < lo \/ k > hi PROVE c[k] = a[k]
  <2>1. k # p /\ k # q
    BY <1>3
  <2>2. c[k] = b[k]
    BY <2>1, <1>1, <1>2
  <2> QED BY <2>2, <1>3 DEF Rearranges
<1>4. \A k \in 1..Len(a) : lo <= k /\ k <= hi => \E m \in 1..Len(a) : lo <= m /\ m <= hi /\ c[k] = a[m]
  BY <1>1, <1>2 DEF Rearranges
<1>5. Rearranges(c, lo, hi)
  BY <1>1, <1>2, <1>3, <1>4 DEF Rearranges
<1> QED BY <1>1, <1>2, <1>5 DEF c

\* The array rearranges itself.
LEMMA SameRearranges ==
  ASSUME ArrayOK, NEW lo, NEW hi
  PROVE  Rearranges(a, lo, hi)
BY DEF ArrayOK, Rearranges

\* The ends of a slice that auxsort recurses into are integers.
LEMMA SliceBounds == \A x \in Slice : x[1] \in Int /\ x[2] \in Int
BY DEF Slice

\* The current range.
LEMMA FirstRange ==
  ASSUME RangesOK, Len(a) \in Nat, todo # <<>>
  PROVE  /\ l \in Int /\ u \in Int /\ 1 <= l /\ u <= Len(a)
         /\ Head(todo) = todo[1] /\ Len(todo) \in Nat \ {0}
         /\ Tail(todo) \in Seq(Slice) /\ Len(Tail(todo)) = Len(todo) - 1
         /\ \A k \in 1..Len(Tail(todo)) : Tail(todo)[k] = todo[k + 1]
<1>1. todo \in Seq(Slice)
  BY DEF RangesOK, Apart
<1>2. /\ Tail(todo) \in Seq(Slice) /\ Len(Tail(todo)) = Len(todo) - 1
      /\ \A k \in 1..Len(Tail(todo)) : Tail(todo)[k] = todo[k + 1]
      /\ Head(todo) \in Slice
  BY <1>1, HeadTailProperties
<1>3. Len(todo) \in Nat \ {0} /\ Head(todo) = todo[1]
  BY <1>1, EmptySeq
<1>4. 1 <= todo[1][1] /\ todo[1][2] <= Len(a)
  BY <1>3 DEF RangesOK, Apart
<1> QED BY <1>2, <1>3, <1>4, SliceBounds DEF l, u

\* A key outside the current range keeps its place among all others when that range is
\* rearranged.
LEMMA RestStaysOrdered ==
  ASSUME ArrayOK, RangesOK, OrderedApart, todo # <<>>, Linear(Range(a)),
         NEW b, Rearranges(b, l, u),
         NEW p \in 1..Len(a), NEW q \in 1..Len(a), p < q,
         ~(In(p, Head(todo)) /\ In(q, Head(todo)))
  PROVE  Lt(b[p], b[q]) \/ \E k \in 1..Len(Tail(todo)) : In(p, Tail(todo)[k]) /\ In(q, Tail(todo)[k])
<1>0. Len(a) \in Nat
  BY DEF ArrayOK
<1>1. /\ l \in Int /\ u \in Int /\ 1 <= l /\ u <= Len(a)
      /\ Head(todo) = todo[1] /\ Len(todo) \in Nat \ {0}
      /\ Tail(todo) \in Seq(Slice) /\ Len(Tail(todo)) = Len(todo) - 1
      /\ \A k \in 1..Len(Tail(todo)) : Tail(todo)[k] = todo[k + 1]
  BY <1>0, FirstRange
<1>2. \A x \in 1..Len(a) : In(x, Head(todo)) <=> l <= x /\ x <= u
  BY DEF In, l, u
<1>3. SUFFICES ASSUME ~\E k \in 1..Len(Tail(todo)) : In(p, Tail(todo)[k]) /\ In(q, Tail(todo)[k])
               PROVE  Lt(b[p], b[q])
  OBVIOUS
\* A position of the current range lies in no other one.
<1>4. \A x, y \in 1..Len(a) : x < y /\ ~(In(x, Head(todo)) <=> In(y, Head(todo))) => Lt(a[x], a[y])
  <2> SUFFICES ASSUME NEW x \in 1..Len(a), NEW y \in 1..Len(a), x < y,
                      ~(In(x, Head(todo)) <=> In(y, Head(todo))),
                      NEW k \in 1..Len(todo), In(x, todo[k]), In(y, todo[k])
               PROVE  FALSE
    BY DEF OrderedApart
  <2>1. k # 1
    BY <1>1
  <2>2. ~(In(x, todo[1]) /\ In(x, todo[k])) /\ ~(In(y, todo[1]) /\ In(y, todo[k]))
    BY <1>1, <2>1 DEF RangesOK, Apart
  <2> QED BY <2>2, <1>1
<1>5. CASE ~In(p, Head(todo)) /\ ~In(q, Head(todo))
  <2>1. b[p] = a[p] /\ b[q] = a[q]
    BY <1>5, <1>2, <1>1 DEF Rearranges
  <2>2. ASSUME NEW k \in 1..Len(todo), In(p, todo[k]), In(q, todo[k]) PROVE FALSE
    <3>1. k # 1
      BY <2>2, <1>1, <1>5
    <3>2. k - 1 \in 1..Len(Tail(todo)) /\ Tail(todo)[k - 1] = todo[k]
      BY <3>1, <1>1
    <3> QED BY <3>2, <2>2, <1>3
  <2> QED BY <2>1, <2>2 DEF OrderedApart
<1>6. CASE In(p, Head(todo)) /\ ~In(q, Head(todo))
  <2>1. b[q] = a[q] /\ q > u
    BY <1>6, <1>2, <1>1 DEF Rearranges
  <2>2. PICK x \in 1..Len(a) : l <= x /\ x <= u /\ b[p] = a[x]
    BY <1>6, <1>2 DEF Rearranges
  <2> QED BY <2>1, <2>2, <1>1, <1>2, <1>4, <1>6
<1>7. CASE ~In(p, Head(todo)) /\ In(q, Head(todo))
  <2>1. b[p] = a[p] /\ p < l
    BY <1>7, <1>2, <1>1 DEF Rearranges
  <2>2. PICK x \in 1..Len(a) : l <= x /\ x <= u /\ b[q] = a[x]
    BY <1>7, <1>2 DEF Rearranges
  <2> QED BY <2>1, <2>2, <1>1, <1>2, <1>4, <1>7
<1> QED BY <1>5, <1>6, <1>7

\* The array has as many elements as there are keys.
LEMMA ArrayLength ==
  ASSUME ArrayOK
  PROVE  /\ Len(a) \in Nat /\ DOMAIN a = 1..Len(a) /\ a \in [1..Len(a) -> Range(a)]
         /\ Len(a) = Cardinality(Range(a))
         /\ \A k \in 1..Len(a) : a[k] \in Range(a)
<1>1. /\ Len(a) \in Nat /\ DOMAIN a = 1..Len(a) /\ a \in [1..Len(a) -> Range(a)]
      /\ \A k \in 1..Len(a) : a[k] \in Range(a)
  BY DEF ArrayOK
<1>2. a \in Bijection(1..Len(a), Range(a))
  BY <1>1 DEF ArrayOK, IsInjective, Bijection, Injection, Surjection, Range
<1>3. ExistsBijection(1..Len(a), Range(a))
  BY <1>2 DEF ExistsBijection
<1>4. IsFiniteSet(1..Len(a)) /\ Cardinality(1..Len(a)) = Len(a)
  BY <1>1, FS_Interval
<1> QED BY <1>1, <1>3, <1>4, FS_Bijection

\* A comparison that raises an error is one that may.
LEMMA RaiseIsAllowed ==
  ASSUME ArrayOK, NEW p \in 1..Len(a), NEW q \in 1..Len(a),
         sortCmp(a[p], a[q]) = "error", p # q \/ Len(a) >= 4
  PROVE  MayRaise(Range(a))
<1>1. a[p] \in Range(a) /\ a[q] \in Range(a) /\ (p # q => a[p] # a[q])
  BY ArrayLength DEF ArrayOK, IsInjective
<1> QED BY <1>1, ArrayLength DEF MayRaise

\* Ranges that do not overlap.
Disjoint(t, n) ==
  \A k, m \in 1..Len(t) : k # m => \A p \in 1..n : ~(In(p, t[k]) /\ In(p, t[m]))

Within(t, x) == \A k \in 1..Len(t) : x[1] <= t[k][1] /\ t[k][2] <= x[2]

\* In r, the ranges t stand in the place of the first one of s.
Replaces(r, t, s) ==
  /\ Len(r) = Len(t) + Len(s) - 1
  /\ \A k \in 1..Len(r) : k <= Len(t) => r[k] = t[k]
  /\ \A k \in 1..Len(r) : k > Len(t) => r[k] = s[k - Len(t) + 1]

\* Where an element of the second part of a concatenation comes from.
LEMMA Beyond ==
  ASSUME NEW x \in Nat, NEW y \in Nat \ {0}, NEW k \in 1..(x + y - 1)
  PROVE  k \in Int /\ (k > x => k - x + 1 \in 1..y /\ k - x + 1 # 1)
OBVIOUS

\* A part of a range.
LEMMA PartIn ==
  ASSUME NEW x \in Slice, NEW y \in Slice, y[1] <= x[1], x[2] <= y[2], NEW n \in Nat,
         1 <= y[1], y[2] <= n
  PROVE  1 <= x[1] /\ x[2] <= n /\ \A p \in 1..n : In(p, x) => In(p, y)
BY SliceBounds DEF In

\* Ranges within the first one take its place.
LEMMA FirstReplaced ==
  ASSUME NEW n \in Nat, NEW s, Apart(s, n), s # <<>>,
         NEW t \in Seq(Slice), Within(t, s[1]), Disjoint(t, n),
         NEW r \in Seq(Slice), Replaces(r, t, s)
  PROVE  Apart(r, n)
<1>0. Len(t) \in Nat /\ Len(s) \in Nat \ {0} /\ Len(r) \in Nat
  BY EmptySeq DEF Apart
<1>1. /\ \A k \in 1..Len(s) : s[k] \in Slice
      /\ \A k \in 1..Len(s) : 1 <= s[k][1] /\ s[k][2] <= n
      /\ Disjoint(s, n)
  BY DEF Apart, Disjoint
<1>2. \A k \in 1..Len(t) : t[k] \in Slice
  OBVIOUS
\* A range of t lies in the first one.
<1>3. ASSUME NEW k \in 1..Len(t)
      PROVE  /\ 1 <= t[k][1] /\ t[k][2] <= n
             /\ \A p \in 1..n : In(p, t[k]) => In(p, s[1])
  <2>1. t[k] \in Slice /\ s[1] \in Slice /\ 1 <= s[1][1] /\ s[1][2] <= n
    BY <1>0, <1>1, <1>2
  <2>2. s[1][1] <= t[k][1] /\ t[k][2] <= s[1][2]
    BY DEF Within
  <2> QED BY <2>1, <2>2, PartIn
\* A range of r is one of t or a later one of s.
<1>4. ASSUME NEW k \in 1..Len(r)
      PROVE  \/ k \in 1..Len(t) /\ r[k] = t[k]
             \/ /\ k > Len(t) /\ r[k] = s[k - Len(t) + 1]
                /\ k - Len(t) + 1 \in 1..Len(s) /\ k - Len(t) + 1 # 1
  <2>1. k \in 1..(Len(t) + Len(s) - 1)
    BY DEF Replaces
  <2>2. k \in Int /\ (k > Len(t) => k - Len(t) + 1 \in 1..Len(s) /\ k - Len(t) + 1 # 1)
    BY <2>1, <1>0, Beyond
  <2>3. CASE k <= Len(t)
    BY <2>3, <1>0 DEF Replaces
  <2>4. CASE k > Len(t)
    BY <2>4, <2>2 DEF Replaces
  <2> QED BY <2>2, <2>3, <2>4, <1>0
<1>5. ASSUME NEW k \in 1..Len(r) PROVE 1 <= r[k][1] /\ r[k][2] <= n
  BY <1>1, <1>3, <1>4
<1>6. ASSUME NEW k \in 1..Len(r), NEW m \in 1..Len(r), k < m,
             NEW p \in 1..n, In(p, r[k]), In(p, r[m])
      PROVE  FALSE
  <2>0. k \in Int /\ m \in Int /\ k # m
    BY <1>0, <1>6
  <2>1. CASE m \in 1..Len(t) /\ r[m] = t[m]
    <3>1. k \in 1..Len(t) /\ r[k] = t[k]
      BY <2>0, <2>1, <1>0, <1>4, <1>6
    <3> QED BY <3>1, <2>0, <2>1, <1>6 DEF Disjoint
  <2>2. CASE /\ m > Len(t) /\ r[m] = s[m - Len(t) + 1]
             /\ m - Len(t) + 1 \in 1..Len(s) /\ m - Len(t) + 1 # 1
    <3>1. CASE k \in 1..Len(t) /\ r[k] = t[k]
      <4>1. In(p, s[1]) /\ 1 \in 1..Len(s)
        BY <3>1, <1>3, <1>6, <1>0
      <4> QED BY <4>1, <2>2, <1>1, <1>6 DEF Disjoint
    <3>2. CASE k > Len(t) /\ r[k] = s[k - Len(t) + 1] /\ k - Len(t) + 1 \in 1..Len(s)
      <4>1. k - Len(t) + 1 # m - Len(t) + 1
        BY <1>0, <2>0
      <4> QED BY <4>1, <3>2, <2>2, <1>1, <1>6 DEF Disjoint
    <3> QED BY <3>1, <3>2, <1>4
  <2> QED BY <2>1, <2>2, <1>4
<1>7. ASSUME NEW k \in 1..Len(r), NEW m \in 1..Len(r), k # m,
             NEW p \in 1..n, In(p, r[k]), In(p, r[m])
      PROVE  FALSE
  <2>1. k < m \/ m < k
    BY <1>0, <1>7
  <2> QED BY <1>6, <1>7, <2>1
<1> QED BY <1>5, <1>7 DEF Apart

\* The current range has been rearranged, and the ranges t in it are left to be sorted.
LEMMA RangeReplaced ==
  ASSUME ArrayOK, RangesOK, OrderedApart, todo # <<>>, Rearranges(a', l, u),
         NEW t \in Seq(Slice), todo' = t \o Tail(todo),
         Within(t, Head(todo)), Disjoint(t, Len(a)),
         Linear(Range(a)) =>
           \A p, q \in 1..Len(a) : l <= p /\ p < q /\ q <= u =>
             Lt(a'[p], a'[q]) \/ \E k \in 1..Len(t) : In(p, t[k]) /\ In(q, t[k])
  PROVE  ArrayOK' /\ RangesOK' /\ OrderedApart'
<1>0. Len(a) \in Nat /\ Len(t) \in Nat
  BY ArrayLength
<1>1. /\ Head(todo) = todo[1] /\ Len(todo) \in Nat \ {0}
      /\ Tail(todo) \in Seq(Slice) /\ Len(Tail(todo)) = Len(todo) - 1
      /\ \A k \in 1..Len(Tail(todo)) : Tail(todo)[k] = todo[k + 1]
  BY <1>0, FirstRange
<1>2. Len(a') = Len(a) /\ Range(a') = Range(a)
  BY DEF Rearranges
<1>3. ArrayOK'
  BY DEF Rearranges, ArrayOK
<1>4. /\ todo' \in Seq(Slice)
      /\ Len(todo') = Len(t) + Len(Tail(todo))
      /\ \A k \in 1..Len(t) + Len(Tail(todo)) :
           todo'[k] = IF k <= Len(t) THEN t[k] ELSE Tail(todo)[k - Len(t)]
  BY <1>1, ConcatProperties
<1>5. Replaces(todo', t, todo)
  <2>1. Len(todo') = Len(t) + Len(todo) - 1
    BY <1>0, <1>1, <1>4
  <2>2. ASSUME NEW k \in 1..Len(todo'), k > Len(t) PROVE todo'[k] = todo[k - Len(t) + 1]
    <3>1. k - Len(t) \in 1..Len(Tail(todo))
      BY <2>2, <1>4, <1>1, <1>0
    <3>2. todo'[k] = Tail(todo)[k - Len(t)]
      BY <2>2, <1>4, <1>0
    <3>3. Tail(todo)[k - Len(t)] = todo[k - Len(t) + 1]
      BY <3>1, <1>1
    <3> QED BY <3>2, <3>3
  <2> QED BY <2>1, <2>2, <1>4 DEF Replaces
<1>6. RangesOK'
  BY <1>0, <1>1, <1>2, <1>4, <1>5, FirstReplaced DEF RangesOK
<1>7. OrderedApart'
  <2> SUFFICES ASSUME Linear(Range(a)), NEW p \in 1..Len(a), NEW q \in 1..Len(a), p < q
               PROVE  Lt(a'[p], a'[q]) \/ \E k \in 1..Len(todo') : In(p, todo'[k]) /\ In(q, todo'[k])
    BY <1>2 DEF OrderedApart
  <2>1. CASE In(p, Head(todo)) /\ In(q, Head(todo))
    <3>1. l <= p /\ p < q /\ q <= u
      BY <2>1 DEF In, l, u
    <3>2. CASE \E k \in 1..Len(t) : In(p, t[k]) /\ In(q, t[k])
      <4>1. PICK k \in 1..Len(t) : In(p, t[k]) /\ In(q, t[k])
        BY <3>2
      <4>2. k \in 1..Len(todo') /\ todo'[k] = t[k]
        BY <1>0, <1>1, <1>4
      <4> QED BY <4>1, <4>2
    <3> QED BY <3>1, <3>2
  <2>2. CASE ~(In(p, Head(todo)) /\ In(q, Head(todo)))
    <3>1. Lt(a'[p], a'[q]) \/ \E k \in 1..Len(Tail(todo)) : In(p, Tail(todo)[k]) /\ In(q, Tail(todo)[k])
      BY <2>2, RestStaysOrdered
    <3>2. CASE \E k \in 1..Len(Tail(todo)) : In(p, Tail(todo)[k]) /\ In(q, Tail(todo)[k])
      <4>1. PICK k \in 1..Len(Tail(todo)) : In(p, Tail(todo)[k]) /\ In(q, Tail(todo)[k])
        BY <3>2
      <4>2. k + Len(t) \in 1..Len(todo') /\ todo'[k + Len(t)] = Tail(todo)[k]
        BY <1>0, <1>1, <1>4
      <4> QED BY <4>1, <4>2
    <3> QED BY <3>1, <3>2
  <2> QED BY <2>1, <2>2
<1> QED BY <1>3, <1>6, <1>7

-----------------------------------------------------------------------------
(* The invariant holds initially, and every comparison keeps it.           *)

\* sortArrayKeys and table.sort start with the range of the whole array.
LEMMA InitIInv == Init => IInv
<1> SUFFICES ASSUME Init PROVE IInv
  OBVIOUS
<1>1. PICK K \in KeySets : a \in Arrays(K)
  BY DEF Init
<1> DEFINE n == Cardinality(K)
<1>2. IsFiniteSet(K) /\ n \in Nat
  BY KeySetsAssumption, FS_CardinalityType
<1>3. a \in [1..n -> K] /\ \A p, q \in 1..n : p # q => a[p] # a[q]
  BY <1>1 DEF Arrays, Injection, IsInjective
<1>4. Range(a) = K
  <2>1. a \in Injection(1..n, K)
    BY <1>3 DEF Injection, IsInjective
  <2>2. Cardinality(1..n) = n
    BY <1>2, FS_Interval
  <2>3. a \in Surjection(1..n, K)
    BY <1>2, <2>1, <2>2, FS_Injection
  <2> QED BY <2>3, <1>3 DEF Surjection, Range
<1> HIDE DEF n
<1>5. a \in Seq(K) /\ Len(a) = n
  BY <1>2, <1>3, FunctionIsSeq
<1>6. ArrayOK
  BY <1>3, <1>4, <1>5 DEF ArrayOK, IsInjective
<1>7. todo = <<<<1, n>>>> /\ i = 0 /\ j = 0 /\ pc = "range"
  BY <1>5 DEF Init
<1>8. /\ todo \in Seq(Slice) /\ Len(todo) = 1 /\ todo[1] = <<1, n>>
      /\ todo[1][1] = 1 /\ todo[1][2] = n
  BY <1>2, <1>7 DEF Slice
<1>9. RangesOK
  BY <1>2, <1>5, <1>8 DEF RangesOK, Apart
<1>10. OrderedApart
  BY <1>2, <1>5, <1>8 DEF OrderedApart, In
<1> QED BY <1>6, <1>7, <1>9, <1>10 DEF IInv, Partitioned, ControlOK

\* Nothing is left to do in the current range.
LEMMA RangeDone ==
  ASSUME IInv, todo # <<>>, Rearranges(a', l, u), todo' = Tail(todo),
         Linear(Range(a)) => \A p, q \in 1..Len(a) : l <= p /\ p < q /\ q <= u => Lt(a'[p], a'[q])
  PROVE  ArrayOK' /\ RangesOK' /\ OrderedApart'
<1> DEFINE t == <<>>
<1>1. t \in Seq(Slice) /\ Len(t) = 0
  OBVIOUS
<1>2. Tail(todo) \in Seq(Slice)
  BY ArrayLength, FirstRange DEF IInv
<1>3. t \o Tail(todo) = Tail(todo)
  BY <1>2, ConcatEmptySeq
<1>4. Within(t, Head(todo)) /\ Disjoint(t, Len(a))
  BY <1>1 DEF Within, Disjoint
<1> HIDE DEF t
<1> QED BY <1>1, <1>3, <1>4, RangeReplaced DEF IInv

\* The current range goes on being sorted.
LEMMA RangeGoesOn ==
  ASSUME IInv, todo # <<>>, Rearranges(a', l, u), todo' = todo
  PROVE  ArrayOK' /\ RangesOK' /\ OrderedApart'
<1>1. /\ Len(a) \in Nat
      /\ Head(todo) = todo[1] /\ Len(todo) \in Nat \ {0} /\ todo \in Seq(Slice)
      /\ l \in Int /\ u \in Int
  BY ArrayLength, FirstRange DEF IInv, RangesOK, Apart
<1>2. Len(a') = Len(a) /\ Range(a') = Range(a)
  BY DEF Rearranges
<1>3. ArrayOK'
  BY DEF IInv, Rearranges, ArrayOK
<1>4. RangesOK'
  BY <1>2 DEF IInv, RangesOK
<1>5. ASSUME Linear(Range(a)), NEW p \in 1..Len(a), NEW q \in 1..Len(a), p < q
      PROVE  Lt(a'[p], a'[q]) \/ \E k \in 1..Len(todo) : In(p, todo[k]) /\ In(q, todo[k])
  <2>1. CASE In(p, Head(todo)) /\ In(q, Head(todo))
    BY <2>1, <1>1
  <2>2. CASE ~(In(p, Head(todo)) /\ In(q, Head(todo)))
    <3>1. Lt(a'[p], a'[q]) \/ \E k \in 1..Len(Tail(todo)) : In(p, Tail(todo)[k]) /\ In(q, Tail(todo)[k])
      BY <2>2, <1>5, RestStaysOrdered DEF IInv
    <3>2. /\ Len(Tail(todo)) = Len(todo) - 1
          /\ \A k \in 1..Len(Tail(todo)) : Tail(todo)[k] = todo[k + 1]
      BY <1>1, FirstRange DEF IInv
    <3> QED BY <3>1, <3>2, <1>1
  <2> QED BY <2>1, <2>2
<1> QED BY <1>2, <1>3, <1>4, <1>5 DEF OrderedApart

\* A step that ends the sort with an error.
LEMMA StopsWithError ==
  ASSUME IInv, Stop("error"), MayRaise(Range(a))
  PROVE  IInv'
BY DEF IInv, Stop, ArrayOK, RangesOK, OrderedApart, Partitioned, ControlOK, l, u, P

\* A comparison raises an error, or answers yes or no.
LEMMA Answers == \A x, y : sortCmp(x, y) \in {"error", "yes", "no"}
BY DEF sortCmp

\* A range of fewer than two keys is done with.
LEMMA ReturnRangeStep == IInv /\ ReturnRange => IInv'
<1> SUFFICES ASSUME IInv, ReturnRange PROVE IInv'
  OBVIOUS
<1>1. /\ todo # <<>> /\ l >= u /\ todo' = Tail(todo)
      /\ a' = a /\ i' = i /\ j' = j /\ pc' = pc /\ pc = "range"
  BY DEF ReturnRange
<1>2. l \in Int /\ u \in Int /\ Len(a) \in Nat
  BY <1>1, ArrayLength, FirstRange DEF IInv
<1>3. Rearranges(a', l, u)
  BY <1>1, SameRearranges DEF IInv
<1>4. ArrayOK' /\ RangesOK' /\ OrderedApart'
  <2>1. \A p, q \in 1..Len(a) : ~(l <= p /\ p < q /\ q <= u)
    BY <1>1, <1>2
  <2> QED BY <1>1, <1>3, <2>1, RangeDone
<1>5. Partitioned' /\ ControlOK'
  BY <1>1 DEF IInv, Partitioned, ControlOK
<1> QED BY <1>4, <1>5 DEF IInv

\* The sort returns when no range is left.
LEMMA ReturnSortStep == IInv /\ ReturnSort => IInv'
BY DEF IInv, ReturnSort, Stop, ArrayOK, RangesOK, OrderedApart, Partitioned, ControlOK, l, u, P

\* The bounds of the current range, and what its elements answer.
LEMMA Current ==
  ASSUME IInv, todo # <<>>
  PROVE  /\ Len(a) \in Nat /\ l \in Int /\ u \in Int /\ 1 <= l /\ u <= Len(a)
         /\ Head(todo) \in Slice /\ Head(todo)[1] = l /\ Head(todo)[2] = u
         /\ DOMAIN a = 1..Len(a)
         /\ \A p, q \in 1..Len(a) : ~(Lt(a[p], a[q]) /\ Lt(a[q], a[p]))
         /\ \A p, q \in 1..Len(a) : sortCmp(a[p], a[q]) = "no" => ~Lt(a[p], a[q])
         /\ \A p, q \in 1..Len(a) :
              Linear(Range(a)) /\ p # q /\ ~Lt(a[p], a[q]) => Lt(a[q], a[p])
<1>1. Len(a) \in Nat /\ DOMAIN a = 1..Len(a) /\ \A k \in 1..Len(a) : a[k] \in Range(a)
  BY ArrayLength DEF IInv
<1>2. l \in Int /\ u \in Int /\ 1 <= l /\ u <= Len(a) /\ Head(todo) = todo[1] /\ Len(todo) \in Nat \ {0}
  BY <1>1, FirstRange DEF IInv
<1>3. Head(todo) \in Slice
  BY <1>2 DEF IInv, RangesOK, Apart
<1>4. \A p, q \in 1..Len(a) : ~(Lt(a[p], a[q]) /\ Lt(a[q], a[p]))
  BY <1>1, NeverBoth DEF IInv, ArrayOK
<1>5. \A p, q \in 1..Len(a) : p # q => a[p] # a[q]
  BY <1>1 DEF IInv, ArrayOK, IsInjective
<1>6. \A p, q \in 1..Len(a) : Linear(Range(a)) /\ p # q /\ ~Lt(a[p], a[q]) => Lt(a[q], a[p])
  BY <1>1, <1>5, LinearDecides
<1> QED BY <1>1, <1>2, <1>3, <1>4, <1>6 DEF l, u, Lt

\* What the elements of the rearranged array answer.
LEMMA RearrangedAnswers ==
  ASSUME IInv, NEW b, NEW lo, NEW hi, Rearranges(b, lo, hi)
  PROVE  /\ \A p, q \in 1..Len(a) : ~(Lt(b[p], b[q]) /\ Lt(b[q], b[p]))
         /\ Linear(Range(a)) =>
              /\ \A p, q \in 1..Len(a) : p # q /\ ~Lt(b[p], b[q]) => Lt(b[q], b[p])
              /\ \A p, q, r \in 1..Len(a) : Lt(b[p], b[q]) /\ Lt(b[q], b[r]) => Lt(b[p], b[r])
<1>1. b \in Seq(Range(b)) /\ IsInjective(b) /\ Range(b) = Range(a) /\ Len(b) = Len(a)
  BY DEF Rearranges
<1>2. DOMAIN b = 1..Len(a) /\ \A k \in 1..Len(a) : b[k] \in Range(a)
  BY <1>1
<1>3. \A p, q \in 1..Len(a) : p # q => b[p] # b[q]
  BY <1>1, <1>2 DEF IsInjective
<1>4. \A p, q \in 1..Len(a) : ~(Lt(b[p], b[q]) /\ Lt(b[q], b[p]))
  BY <1>2, NeverBoth DEF IInv, ArrayOK
<1>5. ASSUME Linear(Range(a)), NEW p \in 1..Len(a), NEW q \in 1..Len(a), p # q, ~Lt(b[p], b[q])
      PROVE  Lt(b[q], b[p])
  BY <1>2, <1>3, <1>5, LinearDecides
<1>6. ASSUME Linear(Range(a)), NEW p \in 1..Len(a), NEW q \in 1..Len(a), NEW r \in 1..Len(a),
             Lt(b[p], b[q]), Lt(b[q], b[r])
      PROVE  Lt(b[p], b[r])
  BY <1>2, <1>6 DEF Linear, Lt
<1> QED BY <1>4, <1>5, <1>6

\* set2 on the current range.
LEMMA SwapInRange ==
  ASSUME IInv, todo # <<>>, NEW p \in Int, NEW q \in Int, l <= p, p <= u, l <= q, q <= u
  PROVE  /\ Rearranges(Swapped(p, q), l, u)
         /\ \A k \in 1..Len(a) :
              Swapped(p, q)[k] = IF k = q THEN a[p] ELSE IF k = p THEN a[q] ELSE a[k]
<1>1. Len(a) \in Nat /\ l \in Int /\ u \in Int /\ 1 <= l /\ u <= Len(a)
  BY Current
<1>2. p \in 1..Len(a) /\ q \in 1..Len(a)
  BY <1>1
<1>3. Rearranges(a, l, u)
  BY SameRearranges DEF IInv
<1>4. Swapped(p, q) = Exchanged(a, p, q)
  BY DEF Swapped, Exchanged
<1> QED BY <1>1, <1>2, <1>3, <1>4, ExchangeRearranges

\* auxsort puts the two ends of its range in order.
LEMMA CompareEndsStep == IInv /\ CompareEnds => IInv'
<1> SUFFICES ASSUME IInv, CompareEnds PROVE IInv'
  OBVIOUS
<1> DEFINE c == sortCmp(a[u], a[l])
<1>1. pc = "range" /\ todo # <<>> /\ l < u
  BY DEF CompareEnds
<1>2. Len(a) \in Nat /\ l \in Int /\ u \in Int /\ 1 <= l /\ u <= Len(a)
  BY <1>1, Current
<1>3. l \in 1..Len(a) /\ u \in 1..Len(a)
  BY <1>1, <1>2
<1>4. CASE c = "error" /\ Stop("error")
  <2>1. MayRaise(Range(a))
    BY <1>1, <1>2, <1>3, <1>4, RaiseIsAllowed DEF IInv
  <2> QED BY <1>4, <2>1, StopsWithError
<1>5. CASE /\ c # "error"
           /\ a' = IF c = "yes" THEN Swapped(l, u) ELSE a
           /\ todo' = IF u - l = 1 THEN Tail(todo) ELSE todo
           /\ pc' = IF u - l = 1 THEN "range" ELSE "middle"
           /\ UNCHANGED <<i, j>>
  <2>1. Rearranges(a', l, u)
    <3>1. Rearranges(a, l, u)
      BY SameRearranges DEF IInv
    <3>2. Rearranges(Swapped(l, u), l, u)
      BY <1>1, <1>2, SwapInRange
    <3> QED BY <1>5, <3>1, <3>2
  <2>2. ~Lt(a'[u], a'[l])
    <3>1. CASE c = "yes"
      <4>1. a'[l] = a[u] /\ a'[u] = a[l]
        BY <1>1, <1>2, <1>3, <1>5, <3>1, SwapInRange
      <4>2. Lt(a[u], a[l])
        BY <3>1 DEF Lt
      <4> QED BY <1>1, <1>3, <4>1, <4>2, Current
    <3>2. CASE c # "yes"
      BY <1>5, <3>2 DEF Lt
    <3> QED BY <3>1, <3>2
  <2>3. i' \in Int /\ j' \in Int
    BY <1>5 DEF IInv, ControlOK
  <2>4. CASE u - l = 1
    <3>1. todo' = Tail(todo) /\ pc' = "range"
      BY <1>5, <2>4
    <3>2. ASSUME Linear(Range(a)), NEW p \in 1..Len(a), NEW q \in 1..Len(a), l <= p, p < q, q <= u
          PROVE  Lt(a'[p], a'[q])
      <4>1. p = l /\ q = u
        BY <1>2, <2>4, <3>2
      <4> QED BY <1>1, <1>2, <1>3, <2>1, <2>2, <3>2, <4>1, RearrangedAnswers
    <3>3. ArrayOK' /\ RangesOK' /\ OrderedApart'
      BY <1>1, <2>1, <3>1, <3>2, RangeDone
    <3>4. Partitioned' /\ ControlOK'
      BY <2>3, <3>1 DEF Partitioned, ControlOK
    <3> QED BY <3>3, <3>4 DEF IInv
  <2>5. CASE u - l # 1
    <3>1. todo' = todo /\ pc' = "middle" /\ l' = l /\ u' = u
      BY <1>5, <2>5 DEF l, u
    <3>2. ArrayOK' /\ RangesOK' /\ OrderedApart'
      BY <1>1, <2>1, <3>1, RangeGoesOn
    <3>3. Partitioned'
      BY <1>1, <1>2, <2>2, <2>5, <3>1 DEF Partitioned
    <3>4. ControlOK'
      BY <2>3, <3>1 DEF ControlOK
    <3> QED BY <3>2, <3>3, <3>4 DEF IInv
  <2> QED BY <2>4, <2>5
<1> QED BY <1>4, <1>5 DEF CompareEnds

\* The middle of a range lies between its ends.
LEMMA Middle ==
  ASSUME NEW x \in Int, NEW y \in Int, y - x >= 2
  PROVE  LET m == (x + y) \div 2 IN m \in Int /\ x < m /\ m < y /\ (y - x # 2 => m < y - 1)
OBVIOUS

\* The median of the three ends up in the middle.
LEMMA MedianInMiddle ==
  ASSUME IInv, todo # <<>>, ~Lt(a[u], a[l]), NEW m \in Int, l < m, m < u, ~MedianRaises(m)
  PROVE  /\ Rearranges(MedianOf3(m), l, u)
         /\ ~Lt(MedianOf3(m)[m], MedianOf3(m)[l])
         /\ ~Lt(MedianOf3(m)[u], MedianOf3(m)[m])
<1>1. Len(a) \in Nat /\ l \in Int /\ u \in Int /\ 1 <= l /\ u <= Len(a)
  BY Current
<1>2. l \in 1..Len(a) /\ u \in 1..Len(a) /\ m \in 1..Len(a)
  BY <1>1
<1>3. CASE sortCmp(a[m], a[l]) = "yes"
  <2>1. MedianOf3(m) = Swapped(m, l)
    BY <1>3 DEF MedianOf3
  <2>2. /\ Rearranges(Swapped(m, l), l, u)
        /\ Swapped(m, l)[l] = a[m] /\ Swapped(m, l)[m] = a[l] /\ Swapped(m, l)[u] = a[u]
    BY <1>1, <1>2, SwapInRange
  <2>3. ~Lt(a[l], a[m])
    BY <1>2, <1>3, Current DEF Lt
  <2> QED BY <2>1, <2>2, <2>3
<1>4. CASE sortCmp(a[m], a[l]) # "yes" /\ sortCmp(a[u], a[m]) = "yes"
  <2>1. MedianOf3(m) = Swapped(m, u)
    BY <1>4 DEF MedianOf3
  <2>2. /\ Rearranges(Swapped(m, u), l, u)
        /\ Swapped(m, u)[l] = a[l] /\ Swapped(m, u)[m] = a[u] /\ Swapped(m, u)[u] = a[m]
    BY <1>1, <1>2, SwapInRange
  <2>3. ~Lt(a[m], a[u])
    BY <1>2, <1>4, Current DEF Lt
  <2> QED BY <2>1, <2>2, <2>3
<1>5. CASE sortCmp(a[m], a[l]) # "yes" /\ sortCmp(a[u], a[m]) # "yes"
  <2>1. MedianOf3(m) = a
    BY <1>5 DEF MedianOf3
  <2>2. Rearranges(a, l, u)
    BY SameRearranges DEF IInv
  <2> QED BY <1>5, <2>1, <2>2 DEF Lt
<1> QED BY <1>3, <1>4, <1>5

\* The pivot is parked at u - 1.
LEMMA ParkPivot ==
  ASSUME IInv, todo # <<>>, NEW b, Rearranges(b, l, u), NEW m \in Int, l < m, m < u - 1
  PROVE  /\ Rearranges(Exchanged(b, m, u - 1), l, u)
         /\ Exchanged(b, m, u - 1)[l] = b[l]
         /\ Exchanged(b, m, u - 1)[u] = b[u]
         /\ Exchanged(b, m, u - 1)[u - 1] = b[m]
<1>1. Len(a) \in Nat /\ l \in Int /\ u \in Int /\ 1 <= l /\ u <= Len(a)
  BY Current
<1>2. PICK q \in 1..Len(a) : q = u - 1 /\ l < q /\ q < u /\ m < q
  BY <1>1
<1>3. m \in 1..Len(a) /\ l \in 1..Len(a) /\ u \in 1..Len(a) /\ l <= m /\ m <= u /\ l <= q /\ q <= u
  BY <1>1, <1>2
<1>4. /\ Rearranges(Exchanged(b, m, q), l, u)
      /\ \A k \in 1..Len(a) :
           Exchanged(b, m, q)[k] = IF k = q THEN b[m] ELSE IF k = m THEN b[q] ELSE b[k]
  BY <1>1, <1>3, ExchangeRearranges
<1>5. l # q /\ l # m /\ u # q /\ u # m
  BY <1>1, <1>2
<1> QED BY <1>2, <1>3, <1>4, <1>5

\* auxsort orders the middle with the ends and makes it the pivot, next to the end.
LEMMA CompareMiddleStep == IInv /\ CompareMiddle => IInv'
<1> SUFFICES ASSUME IInv, CompareMiddle PROVE IInv'
  OBVIOUS
<1> DEFINE m == (l + u) \div 2
           b == MedianOf3(m)
<1>1. pc = "middle" /\ todo # <<>> /\ u - l >= 2 /\ ~Lt(a[u], a[l])
  BY DEF CompareMiddle, IInv, Partitioned
<1>2. Len(a) \in Nat /\ l \in Int /\ u \in Int /\ 1 <= l /\ u <= Len(a)
  BY <1>1, Current
<1>3. m \in Int /\ l < m /\ m < u /\ (u - l # 2 => m < u - 1)
  BY <1>1, <1>2, Middle
<1>4. l \in 1..Len(a) /\ m \in 1..Len(a) /\ u \in 1..Len(a)
  BY <1>2, <1>3
<1>5. \/ MedianRaises(m) /\ Stop("error")
      \/ /\ ~MedianRaises(m) /\ u - l = 2
         /\ a' = b /\ todo' = Tail(todo) /\ pc' = "range"
         /\ UNCHANGED <<i, j>>
      \/ /\ ~MedianRaises(m) /\ u - l # 2
         /\ a' = [b EXCEPT ![m] = b[u - 1], ![u - 1] = b[m]]
         /\ i' = l /\ j' = u - 1 /\ pc' = "up"
         /\ UNCHANGED todo
  BY DEF CompareMiddle
<1> HIDE DEF m
<1>6. CASE MedianRaises(m) /\ Stop("error")
  <2>1. MayRaise(Range(a))
    BY <1>2, <1>3, <1>4, <1>6, RaiseIsAllowed DEF IInv, MedianRaises
  <2> QED BY <1>6, <2>1, StopsWithError
<1>7. ASSUME ~MedianRaises(m)
      PROVE  Rearranges(b, l, u) /\ ~Lt(b[m], b[l]) /\ ~Lt(b[u], b[m])
  BY <1>1, <1>3, <1>7, MedianInMiddle
<1> HIDE DEF b
<1>8. CASE /\ ~MedianRaises(m) /\ u - l = 2
           /\ a' = b /\ todo' = Tail(todo) /\ pc' = "range"
           /\ UNCHANGED <<i, j>>
  <2>1. ASSUME Linear(Range(a)), NEW p \in 1..Len(a), NEW q \in 1..Len(a), l <= p, p < q, q <= u
        PROVE  Lt(b[p], b[q])
    <3>1. Lt(b[l], b[m]) /\ Lt(b[m], b[u])
      BY <1>3, <1>2, <1>4, <1>7, <1>8, <2>1, RearrangedAnswers
    <3>2. Lt(b[l], b[u])
      BY <1>4, <1>7, <1>8, <2>1, <3>1, RearrangedAnswers
    <3>3. \/ p = l /\ q = m
          \/ p = l /\ q = u
          \/ p = m /\ q = u
      BY <1>2, <1>3, <1>8, <2>1
    <3> QED BY <3>1, <3>2, <3>3
  <2>2. ArrayOK' /\ RangesOK' /\ OrderedApart'
    BY <1>1, <1>7, <1>8, <2>1, RangeDone
  <2>3. Partitioned' /\ ControlOK'
    BY <1>8 DEF IInv, Partitioned, ControlOK
  <2> QED BY <2>2, <2>3 DEF IInv
<1>9. CASE /\ ~MedianRaises(m) /\ u - l # 2
           /\ a' = [b EXCEPT ![m] = b[u - 1], ![u - 1] = b[m]]
           /\ i' = l /\ j' = u - 1 /\ pc' = "up"
           /\ UNCHANGED todo
  <2>0. /\ u - l >= 3 /\ i' = l /\ j' = u - 1 /\ pc' = "up" /\ todo' = todo
        /\ Rearranges(b, l, u) /\ ~Lt(b[m], b[l]) /\ ~Lt(b[u], b[m])
    BY <1>1, <1>2, <1>7, <1>9
  <2>1. u - 1 \in 1..Len(a) /\ l <= u - 1 /\ u - 1 <= u
    BY <1>1, <1>2
  <2>2. a' = Exchanged(b, m, u - 1)
    BY <1>9 DEF Exchanged
  <2>3. Rearranges(a', l, u)
    BY <1>1, <1>3, <2>0, <2>2, ParkPivot
  <2>4. /\ a'[l] = b[l] /\ a'[u] = b[u] /\ a'[u - 1] = b[m]
    BY <1>1, <1>3, <2>0, <2>2, ParkPivot
  <2>5. l' = l /\ u' = u /\ P' = b[m] /\ todo' = todo
    BY <2>0, <2>4 DEF l, u, P
  <2>6. ArrayOK' /\ RangesOK' /\ OrderedApart'
    BY <1>1, <2>3, <2>5, RangeGoesOn
  <2>7. ~Lt(b[m], b[m])
    BY <1>4, <2>0, RearrangedAnswers
  <2>8. /\ \A p \in (u - 1)..u : ~Lt(a'[p], P')
        /\ \A p \in l..l : ~Lt(P', a'[p])
    <3>1. /\ \A p \in (u - 1)..u : p = u - 1 \/ p = u
          /\ \A p \in l..l : p = l
      BY <1>2
    <3> QED BY <2>0, <2>4, <2>5, <2>7, <3>1
  <2>9. Partitioned'
    BY <1>1, <1>2, <2>0, <2>5, <2>8 DEF Partitioned
  <2>10. ControlOK'
    BY <1>2, <2>0 DEF ControlOK
  <2> QED BY <2>6, <2>9, <2>10 DEF IInv
<1> QED BY <1>5, <1>6, <1>8, <1>9

\* The scans stay in the current range, and the pivot is one of its elements.
LEMMA Scanning ==
  ASSUME IInv, pc \in {"up", "down"}
  PROVE  /\ todo # <<>> /\ u - l >= 3 /\ Len(a) >= 4
         /\ i \in Int /\ j \in Int /\ l < j /\ j <= u - 1
         /\ Len(a) \in Nat /\ l \in Int /\ u \in Int /\ 1 <= l /\ u <= Len(a)
         /\ u - 1 \in 1..Len(a)
         /\ \A p \in 1..Len(a) : At(p) = a[p]
         /\ \A p \in 1..Len(a) : ~(Lt(a[p], P) /\ Lt(P, a[p]))
<1>1. /\ todo # <<>> /\ u - l >= 3 /\ i \in Int /\ j \in Int /\ l < j /\ j <= u - 1
  BY DEF IInv, Partitioned, ControlOK
<1>2. Len(a) \in Nat /\ l \in Int /\ u \in Int /\ 1 <= l /\ u <= Len(a) /\ DOMAIN a = 1..Len(a)
  BY <1>1, Current
<1>3. u - 1 \in 1..Len(a) /\ Len(a) >= 4
  BY <1>1, <1>2
<1>4. \A p \in 1..Len(a) : ~(Lt(a[p], P) /\ Lt(P, a[p]))
  BY <1>1, <1>3, Current DEF P
<1>5. \A p \in 1..Len(a) : At(p) = a[p]
  BY <1>2 DEF At
<1> QED BY <1>1, <1>2, <1>3, <1>4, <1>5

\* The scan from below stops at a key not less than the pivot.
LEMMA ScanUpStep == IInv /\ ScanUp => IInv'
<1> SUFFICES ASSUME IInv, ScanUp PROVE IInv'
  OBVIOUS
<1> DEFINE c == sortCmp(At(i + 1), P)
<1>1. pc = "up"
  BY DEF ScanUp
<1>2. /\ todo # <<>> /\ u - l >= 3 /\ Len(a) >= 4
      /\ i \in Int /\ j \in Int /\ l < j /\ j <= u - 1
      /\ Len(a) \in Nat /\ l \in Int /\ u \in Int /\ 1 <= l /\ u <= Len(a)
      /\ u - 1 \in 1..Len(a)
  BY <1>1, Scanning
<1>3. l <= i /\ i < u - 1 /\ (\A p \in l..i : ~Lt(P, a[p])) /\ (\A p \in j..u : ~Lt(a[p], P))
  BY <1>1 DEF IInv, Partitioned
<1>4. i + 1 \in 1..Len(a)
  BY <1>2, <1>3
<1>5. At(i + 1) = a[i + 1] /\ ~(Lt(a[i + 1], P) /\ Lt(P, a[i + 1])) /\ ~Lt(P, P)
  BY <1>1, <1>2, <1>4, Scanning DEF P
<1>6. ASSUME a' = a, todo' = todo
      PROVE  /\ ArrayOK' /\ RangesOK' /\ OrderedApart'
             /\ l' = l /\ u' = u /\ P' = P
  BY <1>6 DEF IInv, ArrayOK, RangesOK, OrderedApart, l, u, P
<1>7. CASE c = "error" /\ Stop("error")
  <2>1. MayRaise(Range(a))
    BY <1>2, <1>4, <1>5, <1>7, RaiseIsAllowed DEF IInv, P
  <2> QED BY <1>7, <2>1, StopsWithError
<1>8. CASE /\ c = "yes"
           /\ i' = i + 1 /\ pc' = IF i + 1 > u THEN "invalid" ELSE pc
           /\ UNCHANGED <<a, todo, j>>
  <2>1. Lt(a[i + 1], P)
    BY <1>5, <1>8 DEF Lt
  \* The pivot stops the scan.
  <2>2. i + 1 # u - 1
    BY <1>5, <2>1 DEF P
  <2>3. i' < u - 1 /\ i' = i + 1 /\ pc' = "up"
    BY <1>1, <1>2, <1>3, <1>8, <2>2
  <2>4. \A p \in l..(i + 1) : ~Lt(P, a[p])
    <3>1. \A p \in l..(i + 1) : p \in l..i \/ p = i + 1
      BY <1>2
    <3> QED BY <1>3, <1>5, <2>1, <3>1
  <2>5. Partitioned'
    BY <1>2, <1>3, <1>6, <1>8, <2>3, <2>4 DEF Partitioned
  <2>6. ControlOK'
    BY <1>2, <1>8, <2>3 DEF ControlOK
  <2> QED BY <1>6, <1>8, <2>5, <2>6 DEF IInv
<1>9. CASE /\ c = "no"
           /\ i' = i + 1 /\ pc' = "down" /\ UNCHANGED <<a, todo, j>>
  <2>1. ~Lt(a[i + 1], P)
    BY <1>5, <1>9 DEF Lt
  <2>2. i' = i + 1 /\ l < i + 1 /\ i + 1 <= u - 1 /\ (i + 1) - 1 = i
    BY <1>2, <1>3, <1>9
  <2>3. Partitioned'
    BY <1>2, <1>3, <1>6, <1>9, <2>1, <2>2 DEF Partitioned
  <2>4. ControlOK'
    BY <1>2, <1>9 DEF ControlOK
  <2> QED BY <1>6, <1>9, <2>3, <2>4 DEF IInv
<1> QED BY <1>1, <1>7, <1>8, <1>9, Answers DEF ScanUp

\* A pair is a sequence.
LEMMA PairIsSeq ==
  ASSUME NEW S, NEW x \in S, NEW y \in S
  PROVE  <<x, y>> \in Seq(S) /\ Len(<<x, y>>) = 2 /\ <<x, y>>[1] = x /\ <<x, y>>[2] = y
OBVIOUS

\* The two halves lie on either side of the pivot.
LEMMA HalvesApart ==
  ASSUME l \in Int, u \in Int, i \in Int, l <= i, i <= u, NEW n \in Nat
  PROVE  /\ Halves \in Seq(Slice)
         /\ \A x \in Slice : x[1] = l /\ x[2] = u => Within(Halves, x)
         /\ Disjoint(Halves, n)
         /\ \A p, q \in Int : l <= p /\ q <= u /\ p < q /\ (q < i \/ p > i) =>
              \E k \in 1..Len(Halves) : In(p, Halves[k]) /\ In(q, Halves[k])
<1> DEFINE L == <<l, i - 1>>
           R == <<i + 1, u>>
<1>0. Halves = <<L, R>> \/ Halves = <<R, L>>
  BY DEF Halves
<1>2. L \in Slice /\ R \in Slice /\ L[1] = l /\ L[2] = i - 1 /\ R[1] = i + 1 /\ R[2] = u
  BY DEF Slice
<1> HIDE DEF L, R
<1> HIDE DEF Slice
<1>3. /\ Halves \in Seq(Slice) /\ Len(Halves) = 2
      /\ \/ Halves[1] = L /\ Halves[2] = R
         \/ Halves[1] = R /\ Halves[2] = L
  <2>1. CASE Halves = <<L, R>>
    BY <2>1, <1>2, PairIsSeq
  <2>2. CASE Halves = <<R, L>>
    BY <2>2, <1>2, PairIsSeq
  <2> QED BY <1>0, <2>1, <2>2
<1>4. \A k \in 1..Len(Halves) : k = 1 \/ k = 2
  BY <1>3
<1>5. ASSUME NEW z \in Slice, z[1] = l, z[2] = u PROVE Within(Halves, z)
  <2>1. l <= L[1] /\ L[2] <= u /\ l <= R[1] /\ R[2] <= u
    BY <1>2
  <2> QED BY <1>3, <1>4, <1>5, <2>1 DEF Within
<1>6. Disjoint(Halves, n)
  <2>1. ASSUME NEW p \in 1..n PROVE ~(In(p, L) /\ In(p, R))
    BY <1>2 DEF In
  <2> QED BY <1>3, <1>4, <2>1 DEF Disjoint
<1>7. ASSUME NEW p \in Int, NEW q \in Int, l <= p, q <= u, p < q, q < i \/ p > i
      PROVE  \E k \in 1..Len(Halves) : In(p, Halves[k]) /\ In(q, Halves[k])
  <2>1. CASE q < i
    <3>1. L[1] <= p /\ p <= L[2] /\ L[1] <= q /\ q <= L[2]
      BY <1>2, <1>7, <2>1
    <3>2. In(p, L) /\ In(q, L)
      BY <3>1 DEF In
    <3> QED BY <1>3, <3>2
  <2>2. CASE p > i
    <3>1. R[1] <= p /\ p <= R[2] /\ R[1] <= q /\ q <= R[2]
      BY <1>2, <1>7, <2>2
    <3>2. In(p, R) /\ In(q, R)
      BY <3>1 DEF In
    <3> QED BY <1>3, <3>2
  <2> QED BY <1>7, <2>1, <2>2
<1> QED BY <1>3, <1>5, <1>6, <1>7

\* The pivot has reached its place: the halves remain.
LEMMA PartitionEnds ==
  ASSUME IInv, pc = "down", j - 1 < i, a' = Swapped(u - 1, i), todo' = Halves \o Tail(todo)
  PROVE  ArrayOK' /\ RangesOK' /\ OrderedApart'
<1>1. /\ todo # <<>> /\ i \in Int /\ j \in Int /\ u - l >= 3
      /\ Len(a) \in Nat /\ l \in Int /\ u \in Int /\ 1 <= l /\ u <= Len(a)
      /\ u - 1 \in 1..Len(a)
  BY Scanning
<1>2. /\ l < i /\ i <= u - 1 /\ j <= i /\ ~Lt(a[i], P)
      /\ \A p \in l..(i - 1) : ~Lt(P, a[p])
      /\ \A p \in j..u : ~Lt(a[p], P)
  BY <1>1 DEF IInv, Partitioned
<1>3. i \in 1..Len(a) /\ l <= u - 1 /\ u - 1 <= u /\ u - 1 \in Int /\ i <= u
  BY <1>1, <1>2
<1>4. /\ Rearranges(a', l, u)
      /\ \A k \in 1..Len(a) : a'[k] = IF k = i THEN P ELSE IF k = u - 1 THEN a[i] ELSE a[k]
  <2>1. IInv /\ todo # <<>> /\ u - 1 \in Int /\ i \in Int /\ l <= u - 1 /\ u - 1 <= u /\ l <= i /\ i <= u
    BY <1>1, <1>2, <1>3
  <2>2. /\ Rearranges(Swapped(u - 1, i), l, u)
        /\ \A k \in 1..Len(a) :
             Swapped(u - 1, i)[k] = IF k = i THEN a[u - 1] ELSE IF k = u - 1 THEN a[i] ELSE a[k]
    BY ONLY <2>1, SwapInRange
  <2>3. P = a[u - 1]
    BY DEF P
  <2>4. a' = Swapped(u - 1, i)
    OBVIOUS
  <2> QED BY ONLY <2>2, <2>3, <2>4
<1>5. \A p \in 1..Len(a) : l <= p /\ p < i => ~Lt(a'[i], a'[p])
  <2> SUFFICES ASSUME NEW p \in 1..Len(a), l <= p, p < i PROVE ~Lt(a'[i], a'[p])
    OBVIOUS
  <2>1. p \in l..(i - 1) /\ p # i /\ p # u - 1
    BY <1>1, <1>2
  <2> QED BY <1>2, <1>3, <1>4, <2>1
<1>6. \A q \in 1..Len(a) : i < q /\ q <= u => ~Lt(a'[q], a'[i])
  <2> SUFFICES ASSUME NEW q \in 1..Len(a), i < q, q <= u PROVE ~Lt(a'[q], a'[i])
    OBVIOUS
  <2>1. q \in j..u /\ q # i
    BY <1>1, <1>2
  <2> QED BY <1>2, <1>3, <1>4, <2>1
<1>7. ASSUME Linear(Range(a)), NEW p \in 1..Len(a), NEW q \in 1..Len(a), l <= p, p < q, q <= u
      PROVE  Lt(a'[p], a'[q]) \/ \E k \in 1..Len(Halves) : In(p, Halves[k]) /\ In(q, Halves[k])
  <2>1. CASE q < i \/ p > i
    <3>1. p \in Int /\ q \in Int /\ l <= i /\ Len(a) \in Nat
      BY <1>1, <1>2
    <3> QED BY <1>1, <1>3, <1>7, <2>1, <3>1, HalvesApart
  <2>2. CASE p <= i /\ i <= q
    <3>1. p < i => Lt(a'[p], a'[i])
      BY <1>3, <1>4, <1>5, <1>7, RearrangedAnswers
    <3>2. i < q => Lt(a'[i], a'[q])
      BY <1>3, <1>4, <1>6, <1>7, RearrangedAnswers
    <3>3. CASE p < i /\ i < q
      BY <1>3, <1>4, <1>7, <3>1, <3>2, <3>3, RearrangedAnswers
    <3>4. CASE p = i
      BY <1>7, <3>2, <3>4
    <3>5. CASE q = i
      BY <1>7, <3>1, <3>5
    <3> QED BY <1>3, <2>2, <3>3, <3>4, <3>5
  <2> QED BY <1>3, <2>1, <2>2
<1>8. Head(todo) \in Slice /\ Head(todo)[1] = l /\ Head(todo)[2] = u
  BY <1>1, Current
<1>9. Halves \in Seq(Slice) /\ Within(Halves, Head(todo)) /\ Disjoint(Halves, Len(a))
  BY <1>1, <1>2, <1>3, <1>8, HalvesApart
<1> QED BY <1>1, <1>4, <1>7, <1>9, RangeReplaced DEF IInv

\* The scan from above stops, the pair is exchanged, or the range is split at the pivot.
LEMMA ScanDownStep == IInv /\ ScanDown => IInv'
<1> SUFFICES ASSUME IInv, ScanDown PROVE IInv'
  OBVIOUS
<1> DEFINE c == sortCmp(P, At(j - 1))
<1>1. pc = "down"
  BY DEF ScanDown
<1>2. /\ todo # <<>> /\ u - l >= 3 /\ Len(a) >= 4
      /\ i \in Int /\ j \in Int /\ l < j /\ j <= u - 1
      /\ Len(a) \in Nat /\ l \in Int /\ u \in Int /\ 1 <= l /\ u <= Len(a)
      /\ u - 1 \in 1..Len(a)
  BY <1>1, Scanning
<1>3. /\ l < i /\ i <= u - 1 /\ ~Lt(a[i], P)
      /\ \A p \in l..(i - 1) : ~Lt(P, a[p])
      /\ \A p \in j..u : ~Lt(a[p], P)
  BY <1>1 DEF IInv, Partitioned
<1>4. j - 1 \in 1..Len(a) /\ j - 1 # u - 1 /\ l \in l..(i - 1)
  BY <1>2, <1>3
<1>5. At(j - 1) = a[j - 1] /\ ~(Lt(a[j - 1], P) /\ Lt(P, a[j - 1]))
  BY <1>1, <1>4, Scanning
<1>6. ASSUME a' = a, todo' = todo
      PROVE  /\ ArrayOK' /\ RangesOK' /\ OrderedApart'
             /\ l' = l /\ u' = u /\ P' = P
  BY <1>6 DEF IInv, ArrayOK, RangesOK, OrderedApart, l, u, P
<1>7. CASE c = "error" /\ Stop("error")
  <2>1. MayRaise(Range(a))
    BY <1>2, <1>4, <1>5, <1>7, RaiseIsAllowed DEF IInv, P
  <2> QED BY <1>7, <2>1, StopsWithError
<1>8. CASE /\ c = "yes"
           /\ j' = j - 1 /\ pc' = IF j - 1 < l THEN "invalid" ELSE pc
           /\ UNCHANGED <<a, todo, i>>
  <2>1. Lt(P, a[j - 1])
    BY <1>5, <1>8 DEF Lt
  \* The first element of the range stops the scan.
  <2>2. j - 1 # l
    BY <1>3, <1>4, <2>1
  <2>3. l < j' /\ j' <= u - 1 /\ j' = j - 1 /\ pc' = "down"
    BY <1>1, <1>2, <1>8, <2>2
  <2>4. \A p \in (j - 1)..u : ~Lt(a[p], P)
    <3>1. \A p \in (j - 1)..u : p \in j..u \/ p = j - 1
      BY <1>2
    <3> QED BY <1>3, <1>5, <2>1, <3>1
  <2>5. Partitioned'
    BY <1>2, <1>3, <1>6, <1>8, <2>3, <2>4 DEF Partitioned
  <2>6. ControlOK'
    BY <1>2, <1>8, <2>3 DEF ControlOK
  <2> QED BY <1>6, <1>8, <2>5, <2>6 DEF IInv
<1>9. CASE /\ c = "no" /\ j - 1 >= i
           /\ a' = Swapped(i, j - 1) /\ j' = j - 1 /\ pc' = "up"
           /\ UNCHANGED <<todo, i>>
  <2>1. l <= i /\ i <= u /\ l <= j - 1 /\ j - 1 <= u /\ j - 1 \in Int /\ i \in 1..Len(a) /\ i < u - 1
    BY <1>2, <1>3, <1>9
  <2>2. /\ Rearranges(a', l, u)
        /\ \A k \in 1..Len(a) : a'[k] = IF k = j - 1 THEN a[i] ELSE IF k = i THEN a[j - 1] ELSE a[k]
    BY <1>2, <1>9, <2>1, SwapInRange
  <2>3. l' = l /\ u' = u /\ P' = P /\ todo' = todo
    <3>1. u - 1 # i
      BY <2>1
    <3> QED BY <1>2, <1>4, <1>9, <2>2, <3>1 DEF l, u, P
  <2>4. ArrayOK' /\ RangesOK' /\ OrderedApart'
    BY <1>2, <2>2, <2>3, RangeGoesOn
  <2>5. ASSUME NEW p \in (j - 1)..u PROVE ~Lt(a'[p], P)
    <3>1. p \in 1..Len(a) /\ (p = j - 1 \/ (p \in j..u /\ p # j - 1 /\ p # i))
      BY <1>2, <1>9, <2>1
    <3> QED BY <1>3, <2>2, <3>1
  <2>6. ASSUME NEW p \in l..i PROVE ~Lt(P, a'[p])
    <3>1. p \in 1..Len(a) /\ i \in 1..Len(a)
      BY <1>2, <2>1
    <3>2. CASE p = i
      <4>1. a'[p] = a[j - 1]
        BY <2>2, <3>1, <3>2
      <4> QED BY <1>5, <1>9, <4>1 DEF Lt
    <3>3. CASE p # i
      <4>1. p \in l..(i - 1) /\ p # j - 1
        BY <1>2, <1>9, <3>3
      <4> QED BY <1>3, <2>2, <3>1, <3>3, <4>1
    <3> QED BY <3>2, <3>3
  <2>7. pc' = "up" /\ i' = i /\ j' = j - 1 /\ l < j - 1 /\ j - 1 <= u - 1
    BY <1>2, <1>3, <1>9
  <2>8. Partitioned'
    BY <1>2, <2>1, <2>3, <2>5, <2>6, <2>7 DEF Partitioned
  <2>9. ControlOK'
    BY <1>2, <2>7 DEF ControlOK
  <2> QED BY <2>4, <2>8, <2>9 DEF IInv
<1>10. CASE /\ c = "no" /\ j - 1 < i
            /\ a' = Swapped(u - 1, i)
            /\ todo' = Halves \o Tail(todo)
            /\ j' = j - 1 /\ pc' = "range" /\ UNCHANGED i
  <2>1. ArrayOK' /\ RangesOK' /\ OrderedApart'
    BY <1>1, <1>10, PartitionEnds
  <2>2. Partitioned' /\ ControlOK'
    BY <1>2, <1>10 DEF Partitioned, ControlOK
  <2> QED BY <2>1, <2>2 DEF IInv
<1> QED BY <1>1, <1>7, <1>8, <1>9, <1>10, Answers DEF ScanDown

\* Every step of the sort keeps the invariant.
LEMMA NextIInv == IInv /\ [Next]_vars => IInv'
<1> SUFFICES ASSUME IInv, [Next]_vars PROVE IInv'
  OBVIOUS
<1>1. CASE ReturnRange
  BY <1>1, ReturnRangeStep
<1>2. CASE ReturnSort
  BY <1>2, ReturnSortStep
<1>3. CASE CompareEnds
  BY <1>3, CompareEndsStep
<1>4. CASE CompareMiddle
  BY <1>4, CompareMiddleStep
<1>5. CASE ScanUp
  BY <1>5, ScanUpStep
<1>6. CASE ScanDown
  BY <1>6, ScanDownStep
<1>7. CASE UNCHANGED vars
  BY <1>7 DEF IInv, vars, ArrayOK, RangesOK, OrderedApart, Partitioned, ControlOK, l, u, P
<1> QED BY <1>1, <1>2, <1>3, <1>4, <1>5, <1>6, <1>7 DEF Next, Sort, Terminated

\* The invariant holds of every sort, with any answers of the comparison.
LEMMA Invariant == Spec => []IInv
<1>1. Init => IInv
  BY InitIInv
<1>2. IInv /\ [Next]_vars => IInv'
  BY NextIInv
<1> QED BY <1>1, <1>2, PTL DEF Spec

-----------------------------------------------------------------------------
(* What the writer relies on.                                              *)

\* auxsort keeps a well-formed array, well-formed ranges and a known state.
THEOREM Typed == Spec => []TypeOK
<1>1. IInv => TypeOK
  <2> SUFFICES ASSUME IInv PROVE TypeOK
    OBVIOUS
  <2>1. a \in [1..Cardinality(Range(a)) -> Range(a)] /\ Range(a) \in KeySets
    BY ArrayLength DEF IInv, ArrayOK
  <2>2. todo \in Seq(Int \X Int)
    BY DEF IInv, RangesOK, Apart, Slice
  <2>3. /\ i \in Int /\ j \in Int
        /\ pc \in {"range", "middle", "up", "down", "done", "error", "invalid"}
    BY DEF IInv, ControlOK
  <2> QED BY <2>1, <2>2, <2>3 DEF TypeOK
<1> QED BY <1>1, Invariant, PTL

\* Whatever sortCmp answers, set2 never loses or doubles a key: every entry of the
\* table reaches the file once.
THEOREM KeysKept == Spec => []NoKeyLost
<1>1. IInv => NoKeyLost
  BY DEF IInv, ArrayOK, NoKeyLost
<1> QED BY <1>1, Invariant, PTL

\* The two inner loops of auxsort stop before they leave the range, on the pivot above
\* and on the first element below, so "invalid order function" is never raised.
THEOREM ScansStay == Spec => []ScansInBounds
<1>1. IInv => ScansInBounds
  BY DEF IInv, Partitioned, ControlOK, ScansInBounds
<1> QED BY <1>1, Invariant, PTL

\* table.sort with sortCmp leaves linearly ordered keys in their order, and raises an
\* error only for keys that have two without one.
THEOREM PromiseKept == Spec => []KeepsPromise
<1>1. IInv => KeepsPromise
  <2> SUFFICES ASSUME IInv PROVE KeepsPromise
    OBVIOUS
  <2>1. ASSUME pc = "done" PROVE a \in SortedKeys(Range(a))
    <3>1. /\ Len(a) \in Nat /\ DOMAIN a = 1..Len(a) /\ a \in [1..Len(a) -> Range(a)]
          /\ Len(a) = Cardinality(Range(a))
      BY ArrayLength DEF IInv
    <3>2. a \in Arrays(Range(a))
      BY <3>1 DEF Arrays, Injection, IInv, ArrayOK, IsInjective
    <3>3. todo = <<>>
      BY <2>1 DEF IInv, ControlOK
    <3>4. Linear(Range(a)) => \A p, q \in 1..Len(a) : p < q => Lt(a[p], a[q])
      BY <3>3 DEF IInv, OrderedApart
    <3> QED BY <3>1, <3>2, <3>4 DEF SortedKeys, Sorted, Lt
  <2>2. pc = "error" => MayRaise(Range(a))
    BY DEF IInv, ControlOK
  <2> QED BY <2>1, <2>2 DEF KeepsPromise
<1> QED BY <1>1, Invariant, PTL
==============================================================================
