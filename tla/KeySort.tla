------------------------------- MODULE KeySort -------------------------------
(***************************************************************************)
(* getSortedTableKeys: the keys of a table, in the order in which lua_next *)
(* happens to visit them, are collected in an array and sorted by Lua's    *)
(* table.sort, a quicksort that trusts its order function.  sortCmp is not *)
(* an order on all keys, so what matters is how the quicksort behaves when *)
(* it is lied to.  One action is one comparison of auxsort with what       *)
(* follows from it.                                                        *)
(***************************************************************************)
EXTENDS KeyOrder

CONSTANT KeySets \* the key sets of the tables to be sorted

\* What a key of a table may be.  Numbers, and addresses of tables, are compared by their size.
IsKey(x) ==
  \/ x \in {True, False}
  \/ lua_type(x) \in {"num", "table"} /\ x[2] \in Int
  \/ lua_type(x) \in {"str", "function"}

ASSUME KeySetsAssumption == \A K \in KeySets : IsFiniteSet(K) /\ \A x \in K : IsKey(x)

\* strcoll never puts each of two strings before the other.
ASSUME CollatesAssumption ==
  \A K \in KeySets : \A x, y \in K :
    lua_type(x) = "str" /\ lua_type(y) = "str" => ~(Collates(x[2], y[2]) /\ Collates(y[2], x[2]))

VARIABLES
  a,    \* the array of keys
  todo, \* the ranges auxsort still has to sort, innermost call first
  i, j, \* its scanning indices
  pc    \* "range", "middle", "up", "down", "done", "error", "invalid"

vars == <<a, todo, i, j, pc>>

l == Head(todo)[1]

u == Head(todo)[2]

\* lua_rawgeti on the array of keys.
At(k) == IF k \in DOMAIN a THEN a[k] ELSE Nil

\* Mutant: only one of the two stores.
SwappedHalf(p, q) == [a EXCEPT ![p] = a[q]]

\* set2: a[p] and a[q] exchanged.
Swapped(p, q) == [a EXCEPT ![p] = a[q], ![q] = a[p]]

P == a[u - 1] \* the pivot, once it is parked

Init ==
  /\ \E K \in KeySets : a \in Arrays(K)
  /\ todo = <<<<1, Len(a)>>>>
  /\ i = 0 /\ j = 0
  /\ pc = "range"

Stop(how) == pc' = how /\ UNCHANGED <<a, todo, i, j>>

\* A call of auxsort, or an iteration of its loop, with nothing to do.
ReturnRange ==
  /\ pc = "range" /\ todo # <<>> /\ l >= u
  /\ todo' = Tail(todo)
  /\ UNCHANGED <<a, i, j, pc>>

ReturnSort == pc = "range" /\ todo = <<>> /\ Stop("done")

\* a[u] < a[l]?
CompareEnds ==
  /\ pc = "range" /\ todo # <<>> /\ l < u
  /\ LET c == sortCmp(a[u], a[l]) IN
     \/ c = "error" /\ Stop("error")
     \/ /\ c # "error"
        /\ a' = IF c = "yes" THEN Swapped(l, u) ELSE a
        /\ todo' = IF u - l = 1 THEN Tail(todo) ELSE todo
        /\ pc' = IF u - l = 1 THEN "range" ELSE "middle"
        /\ UNCHANGED <<i, j>>

\* The array after a[m] has been compared with a[l], then with a[u].
MedianOf3(m) ==
  IF sortCmp(a[m], a[l]) = "yes" THEN Swapped(m, l)
  ELSE IF sortCmp(a[u], a[m]) = "yes" THEN Swapped(m, u) ELSE a

MedianRaises(m) ==
  \/ sortCmp(a[m], a[l]) = "error"
  \/ sortCmp(a[m], a[l]) = "no" /\ sortCmp(a[u], a[m]) = "error"

\* a[(l+u)/2] < a[l]?  a[u] < a[(l+u)/2]?  Then the pivot is parked at u - 1.
CompareMiddle ==
  /\ pc = "middle"
  /\ LET m == (l + u) \div 2
         b == MedianOf3(m)
     IN
     \/ MedianRaises(m) /\ Stop("error")
     \/ /\ ~MedianRaises(m) /\ u - l = 2
        /\ a' = b /\ todo' = Tail(todo) /\ pc' = "range"
        /\ UNCHANGED <<i, j>>
     \/ /\ ~MedianRaises(m) /\ u - l # 2
        /\ a' = [b EXCEPT ![m] = b[u - 1], ![u - 1] = b[m]]
        /\ i' = l /\ j' = u - 1 /\ pc' = "up"
        /\ UNCHANGED todo

\* a[++i] < P?
ScanUp ==
  /\ pc = "up"
  /\ LET c == sortCmp(At(i + 1), P) IN
     \/ c = "error" /\ Stop("error")
     \/ /\ c = "yes"
        /\ i' = i + 1 /\ pc' = IF i + 1 > u THEN "invalid" ELSE pc
        /\ UNCHANGED <<a, todo, j>>
     \/ /\ c = "no"
        /\ i' = i + 1 /\ pc' = "down" /\ UNCHANGED <<a, todo, j>>

\* Mutant: the right half starts one element too late.
HalvesGap == IF i - l < u - i THEN <<<<l, i - 1>>, <<i + 2, u>>>> ELSE <<<<i + 2, u>>, <<l, i - 1>>>>

\* Mutant: the bounds of the loop are not narrowed.
HalvesWhole == IF i - l < u - i THEN <<<<l, i - 1>>, <<l, u>>>> ELSE <<<<i + 1, u>>, <<l, u>>>>

\* The ranges left of and right of the pivot, the smaller one first.
Halves == IF i - l < u - i THEN <<<<l, i - 1>>, <<i + 1, u>>>> ELSE <<<<i + 1, u>>, <<l, i - 1>>>>

\* P < a[--j]?  If not, either a[i] and a[j] change places or the partition ends.
ScanDown ==
  /\ pc = "down"
  /\ LET c == sortCmp(P, At(j - 1)) IN
     \/ c = "error" /\ Stop("error")
     \/ /\ c = "yes"
        /\ j' = j - 1 /\ pc' = IF j - 1 < l THEN "invalid" ELSE pc
        /\ UNCHANGED <<a, todo, i>>
     \/ /\ c = "no" /\ j - 1 >= i
        /\ a' = Swapped(i, j - 1) /\ j' = j - 1 /\ pc' = "up"
        /\ UNCHANGED <<todo, i>>
     \/ /\ c = "no" /\ j - 1 < i
        /\ a' = Swapped(u - 1, i)
        /\ todo' = Halves \o Tail(todo)
        /\ j' = j - 1 /\ pc' = "range" /\ UNCHANGED i

Terminated == pc \in {"done", "error", "invalid"} /\ UNCHANGED vars

Sort == ReturnRange \/ ReturnSort \/ CompareEnds \/ CompareMiddle \/ ScanUp \/ ScanDown

Next == Sort \/ Terminated

Spec == Init /\ [][Next]_vars /\ WF_vars(Sort)
------------------------------------------------------------------------------
TypeOK ==
  /\ \E K \in KeySets : a \in [1..Cardinality(K) -> K]
  /\ todo \in Seq(Int \X Int)
  /\ i \in Int /\ j \in Int
  /\ pc \in {"range", "middle", "up", "down", "done", "error", "invalid"}

\* Whatever sortCmp answers, no key is lost or duplicated: a swap in progress
\* never reads a slot outside the array, where it would pick up nil.  A lost key
\* would be a lost entry of the file.  (auxsort, set2)
NoKeyLost == Range(a) \in KeySets /\ IsInjective(a)

\* Lua's "invalid order function" error, its detector of inconsistent orders, is
\* never raised, and the scans stay between l and u - 1.  sortCmp is not
\* transitive when false meets negative numbers, but never says x < x or both
\* x < y and y < x, and the quicksort needs no more to stay in bounds.
ScansInBounds ==
  /\ pc # "invalid"
  /\ pc = "up"   => l <= i /\ i < u - 1 /\ l < j
  /\ pc = "down" => l < i /\ i <= u - 1 /\ l < j

\* table.sort fulfils what the writer expects of it: one result whatever the
\* order of lua_next when the keys are linearly ordered, an error only where
\* MayRaise allows one.
KeepsPromise ==
  /\ pc = "done" => a \in SortedKeys(Range(a))
  /\ pc = "error" => MayRaise(Range(a))

\* The sort ends.
Terminates == <>(pc \in {"done", "error", "invalid"})
==============================================================================
