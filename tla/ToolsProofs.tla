----------------------------- MODULE ToolsProofs -----------------------------
(***************************************************************************)
(* What the programs leave behind, for all programs, values, disks and     *)
(* orders of steps: on the disk, of their memory and files, and of the Lua *)
(* stack when dumpValue goes on after sorts that failed.                   *)
(***************************************************************************)
EXTENDS Tools, SequenceTheorems, WellFoundedInduction, TLAPS

-----------------------------------------------------------------------------
(* Sequences as stacks.                                                    *)

\* <<x>> \o s: a new innermost activation.
LEMMA Pushed ==
  ASSUME NEW S, NEW s \in Seq(S), NEW x \in S
  PROVE  /\ <<x>> \o s \in Seq(S) /\ Len(<<x>> \o s) = Len(s) + 1 /\ Len(s) \in Nat
         /\ (<<x>> \o s)[1] = x
         /\ \A k \in 1..Len(s) : (<<x>> \o s)[k + 1] = s[k]
<1>1. <<x>> \in Seq(S) /\ Len(<<x>>) = 1 /\ <<x>>[1] = x
  OBVIOUS
<1>2. Len(s) \in Nat
  OBVIOUS
<1>3. /\ <<x>> \o s \in Seq(S) /\ Len(<<x>> \o s) = 1 + Len(s)
      /\ \A k \in 1..(1 + Len(s)) : (<<x>> \o s)[k] = IF k <= 1 THEN <<x>>[k] ELSE s[k - 1]
  BY <1>1, ConcatProperties
<1>4. \A k \in 1..Len(s) : (<<x>> \o s)[k + 1] = s[k]
  <2> SUFFICES ASSUME NEW k \in 1..Len(s) PROVE (<<x>> \o s)[k + 1] = s[k]
    OBVIOUS
  <2>1. k + 1 \in 1..(1 + Len(s)) /\ ~(k + 1 <= 1) /\ (k + 1) - 1 = k
    BY <1>2
  <2> QED BY <1>3, <2>1
<1>5. (<<x>> \o s)[1] = x
  BY <1>1, <1>2, <1>3
<1> QED BY <1>2, <1>3, <1>4, <1>5

\* Tail(s): the innermost activation is left.
LEMMA PoppedFirst ==
  ASSUME NEW S, NEW s \in Seq(S), s # <<>>
  PROVE  /\ Head(s) = s[1] /\ Head(s) \in S
         /\ Len(s) \in Nat \ {0} /\ Tail(s) \in Seq(S) /\ Len(Tail(s)) = Len(s) - 1
         /\ \A k \in 1..(Len(s) - 1) : Tail(s)[k] = s[k + 1]
BY HeadTailProperties, EmptySeq

\* SubSeq(s, 1, m): what lies above slot m is popped.
LEMMA Popped ==
  ASSUME NEW S, NEW s \in Seq(S), NEW m \in Nat, m <= Len(s)
  PROVE  /\ SubSeq(s, 1, m) \in Seq(S) /\ Len(SubSeq(s, 1, m)) = m /\ Len(s) \in Nat
         /\ \A k \in 1..m : SubSeq(s, 1, m)[k] = s[k]
<1>1. Len(s) \in Nat /\ \A k \in 1..m : s[k] \in S
  OBVIOUS
<1>2. /\ SubSeq(s, 1, m) \in Seq(S)
      /\ Len(SubSeq(s, 1, m)) = IF 1 <= m THEN m - 1 + 1 ELSE 0
      /\ \A k \in 1..(m - 1 + 1) : SubSeq(s, 1, m)[k] = s[1 + k - 1]
  BY <1>1, SubSeqProperties
<1>3. ASSUME NEW k \in 1..m PROVE SubSeq(s, 1, m)[k] = s[k]
  <2>1. k \in 1..(m - 1 + 1) /\ 1 + k - 1 = k
    OBVIOUS
  <2> QED BY <1>2, <2>1
<1> QED BY <1>1, <1>2, <1>3

\* A sequence whose elements are those of a shorter one, up to its length.
LEMMA SamePrefix ==
  ASSUME NEW S, NEW s \in Seq(S), NEW c \in Seq(S), Len(c) <= Len(s), \A k \in 1..Len(c) : s[k] = c[k]
  PROVE  SubSeq(s, 1, Len(c)) = c
<1>1. Len(c) \in Nat
  OBVIOUS
<1>2. /\ SubSeq(s, 1, Len(c)) \in Seq(S) /\ Len(SubSeq(s, 1, Len(c))) = Len(c)
      /\ \A k \in 1..Len(c) : SubSeq(s, 1, Len(c))[k] = s[k]
  BY <1>1, Popped
<1> QED BY <1>2, SeqEqual

\* One sequence behind the other.
LEMMA Joined ==
  ASSUME NEW S, NEW s \in Seq(S), NEW r \in Seq(S)
  PROVE  /\ s \o r \in Seq(S) /\ Len(s \o r) = Len(s) + Len(r) /\ Len(s) \in Nat /\ Len(r) \in Nat
         /\ \A k \in 1..Len(s) : (s \o r)[k] = s[k]
         /\ \A k \in 1..Len(r) : (s \o r)[Len(s) + k] = r[k]
<1>1. /\ s \o r \in Seq(S) /\ Len(s \o r) = Len(s) + Len(r) /\ Len(s) \in Nat /\ Len(r) \in Nat
      /\ \A i \in 1..(Len(s) + Len(r)) : (s \o r)[i] = IF i <= Len(s) THEN s[i] ELSE r[i - Len(s)]
  BY ConcatProperties
<1>2. ASSUME NEW k \in 1..Len(s) PROVE (s \o r)[k] = s[k]
  BY <1>1
<1>3. ASSUME NEW k \in 1..Len(r) PROVE (s \o r)[Len(s) + k] = r[k]
  <2>1. Len(s) + k \in 1..(Len(s) + Len(r)) /\ ~(Len(s) + k <= Len(s)) /\ (Len(s) + k) - Len(s) = k
    BY <1>1
  <2> QED BY <1>1, <2>1
<1> QED BY <1>1, <1>2, <1>3

-----------------------------------------------------------------------------
(* Induction.                                                              *)

LessThan == {p \in Nat \X Nat : p[1] < p[2]}

\* Less than on the natural numbers is well founded.
LEMMA LessIsWellFounded == IsWellFoundedOn(LessThan, Nat)
BY NatLessThanWellFounded DEF OpToRel, LessThan

\* Every set of natural numbers has a least one.
LEMMA LeastElement ==
  ASSUME NEW S \in SUBSET Nat, S # {}
  PROVE  \E n \in S : \A m \in S : n <= m
<1>1. S \subseteq Nat
  OBVIOUS
<1>2. \E n \in S : \A m \in S : ~(<<m, n>> \in LessThan)
  BY <1>1, LessIsWellFounded, WFMin, Zenon
<1>3. PICK n \in S : \A m \in S : ~(<<m, n>> \in LessThan)
  BY <1>2
<1>4. ASSUME NEW m \in S PROVE n <= m
  <2>1. ~(<<m, n>> \in LessThan)
    BY <1>3
  <2> QED BY <2>1 DEF LessThan
<1> QED BY <1>4

\* Induction over the natural numbers, for a set in place of a predicate.
LEMMA Induction ==
  ASSUME NEW S, 0 \in S, \A n \in Nat : n \in S => n + 1 \in S
  PROVE  Nat \subseteq S
<1> DEFINE C == {n \in Nat : n \notin S}
<1> SUFFICES ASSUME C # {} PROVE FALSE
  OBVIOUS
<1>1. PICK n \in C : \A m \in C : n <= m
  BY LeastElement
<1>2. n # 0 /\ n - 1 \in Nat /\ n - 1 \notin C
  BY <1>1
<1> QED BY <1>2

-----------------------------------------------------------------------------
(* Stacks of any values.                                                   *)

IsStack(s) == \E S : s \in Seq(S)

\* A value is pushed.
LEMMA StackAppended ==
  ASSUME NEW s, NEW v, IsStack(s)
  PROVE  /\ IsStack(Append(s, v)) /\ Len(s) \in Nat /\ Len(Append(s, v)) = Len(s) + 1
         /\ \A k \in 1..Len(s) : Append(s, v)[k] = s[k]
         /\ Append(s, v)[Len(s) + 1] = v
<1>1. PICK S : s \in Seq(S)
  BY DEF IsStack
<1>2. s \in Seq(S \cup {v}) /\ v \in S \cup {v}
  BY <1>1, SeqMonotonic
<1>3. Append(s, v) \in Seq(S \cup {v})
  BY <1>2
<1> QED BY <1>2, <1>3 DEF IsStack

\* The top value is removed.
LEMMA StackFront ==
  ASSUME NEW s, IsStack(s), Len(s) >= 1
  PROVE  /\ IsStack(Front(s)) /\ Len(s) \in Nat /\ Len(Front(s)) = Len(s) - 1
         /\ \A k \in 1..(Len(s) - 1) : Front(s)[k] = s[k]
<1>1. PICK S : s \in Seq(S)
  BY DEF IsStack
<1>2. Len(s) \in Nat /\ Len(s) - 1 \in Nat /\ Len(s) - 1 <= Len(s)
  BY <1>1
<1>3. /\ SubSeq(s, 1, Len(s) - 1) \in Seq(S) /\ Len(SubSeq(s, 1, Len(s) - 1)) = Len(s) - 1
      /\ \A k \in 1..(Len(s) - 1) : SubSeq(s, 1, Len(s) - 1)[k] = s[k]
  BY <1>1, <1>2, Popped
<1> QED BY <1>2, <1>3 DEF IsStack, Front

\* Two values are pushed.
LEMMA StackJoined ==
  ASSUME NEW s, NEW v, NEW w, IsStack(s)
  PROVE  /\ IsStack(s \o <<v, w>>) /\ Len(s) \in Nat /\ Len(s \o <<v, w>>) = Len(s) + 2
         /\ \A k \in 1..Len(s) : (s \o <<v, w>>)[k] = s[k]
         /\ (s \o <<v, w>>)[Len(s) + 1] = v /\ (s \o <<v, w>>)[Len(s) + 2] = w
<1>1. PICK S : s \in Seq(S)
  BY DEF IsStack
<1> DEFINE T == S \cup {v, w}
<1>2. s \in Seq(T) /\ <<v, w>> \in Seq(T) /\ Len(<<v, w>>) = 2
  BY <1>1, SeqMonotonic
<1>3. /\ s \o <<v, w>> \in Seq(T) /\ Len(s \o <<v, w>>) = Len(s) + 2 /\ Len(s) \in Nat
      /\ \A k \in 1..Len(s) : (s \o <<v, w>>)[k] = s[k]
      /\ \A k \in 1..2 : (s \o <<v, w>>)[Len(s) + k] = <<v, w>>[k]
  <2> HIDE DEF T
  <2> QED BY <1>2, Joined
<1> QED BY <1>3 DEF IsStack

\* A stack is entered above.
LEMMA StackPushed ==
  ASSUME NEW s, NEW x, IsStack(s)
  PROVE  /\ IsStack(<<x>> \o s) /\ Len(s) \in Nat /\ Len(<<x>> \o s) = Len(s) + 1 /\ <<x>> \o s # <<>>
         /\ (<<x>> \o s)[1] = x /\ \A k \in 1..Len(s) : (<<x>> \o s)[k + 1] = s[k]
<1>1. PICK S : s \in Seq(S)
  BY DEF IsStack
<1>2. s \in Seq(S \cup {x}) /\ x \in S \cup {x}
  BY <1>1, SeqMonotonic
<1>3. /\ <<x>> \o s \in Seq(S \cup {x}) /\ Len(<<x>> \o s) = Len(s) + 1 /\ Len(s) \in Nat
      /\ (<<x>> \o s)[1] = x /\ \A k \in 1..Len(s) : (<<x>> \o s)[k + 1] = s[k]
  BY <1>2, Pushed
<1>4. <<x>> \o s # <<>>
  BY <1>3, EmptySeq
<1> QED BY <1>3, <1>4 DEF IsStack

\* The innermost entry is left.
LEMMA StackTail ==
  ASSUME NEW s, IsStack(s), s # <<>>
  PROVE  /\ IsStack(Tail(s)) /\ Len(s) \in Nat \ {0} /\ Len(Tail(s)) = Len(s) - 1 /\ Head(s) = s[1]
         /\ \A k \in 1..(Len(s) - 1) : Tail(s)[k] = s[k + 1]
<1>1. PICK S : s \in Seq(S)
  BY DEF IsStack
<1> QED BY <1>1, PoppedFirst DEF IsStack

\* The innermost entry changes.
LEMMA StackFirst ==
  ASSUME NEW s, NEW x, IsStack(s), s # <<>>
  PROVE  /\ IsStack([s EXCEPT ![1] = x]) /\ Len([s EXCEPT ![1] = x]) = Len(s) /\ [s EXCEPT ![1] = x] # <<>>
         /\ [s EXCEPT ![1] = x][1] = x /\ \A k \in 2..Len(s) : [s EXCEPT ![1] = x][k] = s[k]
<1>1. PICK S : s \in Seq(S)
  BY DEF IsStack
<1>2. s \in Seq(S \cup {x}) /\ x \in S \cup {x} /\ Len(s) \in Nat \ {0}
  BY <1>1, SeqMonotonic, EmptySeq
<1>3. /\ [s EXCEPT ![1] = x] \in Seq(S \cup {x}) /\ Len([s EXCEPT ![1] = x]) = Len(s)
      /\ \A k \in 1..Len(s) : [s EXCEPT ![1] = x][k] = IF k = 1 THEN x ELSE s[k]
  BY <1>2, ExceptSeq
<1>4. [s EXCEPT ![1] = x] # <<>>
  BY <1>2, <1>3, EmptySeq
<1> QED BY <1>2, <1>3, <1>4 DEF IsStack

-----------------------------------------------------------------------------
(* The stack of dumpValue.                                                 *)

Activated == {"table", "keys", "library"}

\* An activation has all its fields; it found its table at idx.
IsActivation(a) ==
  /\ a = [idx |-> a.idx, i |-> a.i, length |-> a.length, indent |-> a.indent, max |-> a.max, key |-> a.key]
  /\ a.idx \in Nat

\* What the stack would hold above the caller's values if no sort had failed: a table (a
\* key or a value of another) and its array of keys for each activation.
Expected == IF pc = "loop" THEN Len(caller) + 2 * Len(frames) - 1 ELSE Len(caller) + 2 * Len(frames)

\* Above the table of an activation lies its array of keys and, while an entry is
\* printed, the key or the value.
Room == IF frames = <<>> THEN Len(L) >= Len(caller)
        ELSE Len(L) >= frames[1].idx + (IF pc = "loop" THEN 1 ELSE 2)

Placed ==
  /\ frames # <<>> => frames[Len(frames)].idx = Len(caller)
  /\ \A k \in 1..(Len(frames) - 1) : frames[k].idx >= frames[k + 1].idx + 2

\* Everything above the caller's values, but for the key or value printed on top, can be
\* indexed.
Indexable ==
  \A k \in (Len(caller) + 1)..(IF pc = "loop" THEN Len(L) ELSE Len(L) - 1) : lua_type(L[k]) \in Activated

DumperInv ==
  /\ IsStack(L) /\ IsStack(caller) /\ Len(caller) >= 1
  /\ IsStack(frames) /\ \A k \in 1..Len(frames) : IsActivation(frames[k])
  /\ pc \in {"idle", "value", "loop", "return", "done"} /\ failed \in BOOLEAN
  /\ \A k \in 1..Len(caller) : L[k] = caller[k]
  /\ pc = "value" => arg.idx = Len(L) /\ (frames = <<>> => ~failed)
  /\ pc = "loop" => frames # <<>>
  /\ pc = "done" => frames = <<>>
  /\ Placed /\ Room /\ Indexable
  /\ Len(L) >= Expected /\ (Len(L) = Expected <=> ~failed)

\* The lengths are numbers; the table of every activation lies on the caller's top or above.
LEMMA DumperTypes ==
  ASSUME DumperInv
  PROVE  /\ Len(L) \in Nat /\ Len(caller) \in Nat \ {0} /\ Len(frames) \in Nat /\ (frames = <<>> <=> Len(frames) = 0)
         /\ \A k \in 1..Len(frames) : frames[k].idx \in Nat /\ frames[k].idx >= Len(caller)
         /\ Len(L) >= Len(caller) /\ (pc = "loop" => Len(L) > Len(caller))
<1>1. /\ Len(L) \in Nat /\ Len(caller) \in Nat \ {0} /\ Len(frames) \in Nat /\ (frames = <<>> <=> Len(frames) = 0)
  <2>1. Len(L) \in Nat /\ Len(caller) \in Nat /\ Len(frames) \in Nat
    BY DEF DumperInv, IsStack
  <2>2. frames = <<>> <=> Len(frames) = 0
    BY EmptySeq DEF DumperInv, IsStack
  <2> QED BY <2>1, <2>2 DEF DumperInv
<1>2. \A k \in 1..Len(frames) : frames[k].idx \in Nat
  BY DEF DumperInv, IsActivation
<1> DEFINE n == Len(frames)
           G == {m \in Nat : m < n => frames[n - m].idx >= Len(caller)}
<1>3. 0 \in G
  <2>1. 0 < n => frames[n].idx >= Len(caller)
    BY <1>1 DEF DumperInv, Placed
  <2>2. n - 0 = n
    BY <1>1
  <2> QED BY <2>1, <2>2
<1>4. ASSUME NEW m \in Nat, m \in G PROVE m + 1 \in G
  <2>1. ASSUME m + 1 < n PROVE frames[n - (m + 1)].idx >= Len(caller)
    <3>1. /\ n - (m + 1) \in 1..(n - 1) /\ (n - (m + 1)) + 1 = n - m /\ m < n
          /\ n - (m + 1) \in 1..n /\ n - m \in 1..n
      BY <1>1, <2>1
    <3>2. frames[n - (m + 1)].idx >= frames[(n - (m + 1)) + 1].idx + 2
      BY <3>1 DEF DumperInv, Placed
    <3>3. frames[n - m].idx >= Len(caller)
      BY <1>4, <3>1
    <3> DEFINE lower == frames[n - m].idx
               upper == frames[n - (m + 1)].idx
    <3>4. upper >= lower + 2 /\ lower \in Nat /\ upper \in Nat /\ Len(caller) \in Nat
      BY <1>1, <1>2, <3>1, <3>2
    <3> HIDE DEF lower, upper
    <3>5. upper >= Len(caller)
      BY <3>3, <3>4 DEF lower
    <3> QED BY <3>5 DEF upper
  <2>2. m + 1 \in Nat
    OBVIOUS
  <2> QED BY <2>1, <2>2
<1>5. Nat \subseteq G
  <2> HIDE DEF G
  <2> QED BY <1>3, <1>4, Induction
<1>6. \A k \in 1..n : frames[k].idx >= Len(caller)
  <2> SUFFICES ASSUME NEW k \in 1..n PROVE frames[k].idx >= Len(caller)
    OBVIOUS
  <2>1. n - k \in Nat /\ n - k < n /\ n - (n - k) = k
    BY <1>1
  <2>2. n - k \in G
    BY <1>5, <2>1
  <2> QED BY <2>1, <2>2
<1>7. Len(L) >= Len(caller) /\ (pc = "loop" => Len(L) > Len(caller))
  <2>1. CASE frames = <<>>
    BY <1>1, <2>1 DEF DumperInv, Room
  <2>2. CASE frames # <<>>
    <3>1. 1 \in 1..n /\ frames[1].idx \in Nat /\ frames[1].idx >= Len(caller)
      BY <1>1, <1>2, <1>6, <2>2
    <3> QED BY <1>1, <2>2, <3>1 DEF DumperInv, Room
  <2> QED BY <2>1, <2>2
<1> QED BY <1>1, <1>2, <1>6, <1>7

\* An activation whose place in the loop changes.
LEMMA ActivationChanged ==
  ASSUME NEW b, IsActivation(b), NEW x
  PROVE  /\ IsActivation([b EXCEPT !.key = x]) /\ [b EXCEPT !.key = x].idx = b.idx
         /\ IsActivation([b EXCEPT !.i = x]) /\ [b EXCEPT !.i = x].idx = b.idx
<1>1. PICK a1, a2, a3, a4, a5, a6 :
        b = [idx |-> a1, i |-> a2, length |-> a3, indent |-> a4, max |-> a5, key |-> a6] /\ a1 \in Nat
  BY DEF IsActivation
<1>2. [b EXCEPT !.key = x] = [idx |-> a1, i |-> a2, length |-> a3, indent |-> a4, max |-> a5, key |-> x]
  BY <1>1
<1>3. [b EXCEPT !.i = x] = [idx |-> a1, i |-> x, length |-> a3, indent |-> a4, max |-> a5, key |-> a6]
  BY <1>1
<1> QED BY <1>1, <1>2, <1>3 DEF IsActivation

\* The innermost activation changes, but not its table.
LEMMA SameActivations ==
  ASSUME DumperInv, NEW a, IsActivation(a), a.idx = frames[1].idx, caller' = caller, frames # <<>>,
         Len(frames') = Len(frames), frames'[1] = a, \A k \in 2..Len(frames) : frames'[k] = frames[k]
  PROVE  Placed' /\ (\A k \in 1..Len(frames) : IsActivation(frames[k]))'
<1>1. Len(frames) \in Nat \ {0} /\ Len(caller) \in Nat
  BY DumperTypes
<1>2. \A k \in 1..Len(frames) : frames'[k].idx = frames[k].idx
  <2> SUFFICES ASSUME NEW k \in 1..Len(frames) PROVE frames'[k].idx = frames[k].idx
    OBVIOUS
  <2>1. k = 1 \/ k \in 2..Len(frames)
    BY <1>1
  <2> QED BY <2>1
<1>3. Placed'
  <2>1. frames'[Len(frames)].idx = Len(caller)
    BY <1>1, <1>2 DEF DumperInv, Placed
  <2>2. ASSUME NEW k \in 1..(Len(frames) - 1) PROVE frames'[k].idx >= frames'[k + 1].idx + 2
    <3>1. k \in 1..Len(frames) /\ k + 1 \in 1..Len(frames)
      BY <1>1
    <3> QED BY <1>2, <2>2, <3>1 DEF DumperInv, Placed
  <2> QED BY <2>1, <2>2 DEF Placed
<1>4. ASSUME NEW k \in 1..Len(frames) PROVE IsActivation(frames'[k])
  <2>1. k = 1 \/ k \in 2..Len(frames)
    BY <1>1
  <2> QED BY <2>1 DEF DumperInv
<1>5. (\A k \in 1..Len(frames) : IsActivation(frames[k]))'
  BY <1>4 DEF IsActivation
<1> QED BY <1>3, <1>5

\* dumpTable begins with the value on top of a stack.
LEMMA StartKeepsInv ==
  ASSUME NEW stack, IsStack(stack), Len(stack) >= 1,
         caller' = stack, L' = stack, frames' = <<>>, failed' = FALSE, pc' = "value", arg'.idx = Len(stack)
  PROVE  DumperInv'
<1>1. Len(stack) \in Nat /\ Len(<<>>) = 0 /\ IsStack(<<>>)
  <2>1. <<>> \in Seq({})
    OBVIOUS
  <2> QED BY <2>1 DEF IsStack
<1>2. /\ caller' = stack /\ L' = stack /\ frames' = <<>> /\ failed' = FALSE /\ pc' = "value"
      /\ arg'.idx = Len(stack)
  OBVIOUS
<1>3. IsStack(L)' /\ IsStack(caller)' /\ IsStack(frames)'
  BY <1>1, <1>2 DEF IsStack
<1>4. Placed' /\ Room' /\ Indexable'
  BY <1>1, <1>2 DEF Placed, Room, Indexable
<1>5. Expected' = Len(L') /\ Len(L') \in Nat
  BY <1>1, <1>2 DEF Expected
<1>6. (\A k \in 1..Len(frames) : IsActivation(frames[k]))'
  BY <1>1, <1>2
<1>7. (\A k \in 1..Len(caller) : L[k] = caller[k])'
  BY <1>2
<1>8. (Len(L) >= Expected /\ (Len(L) = Expected <=> ~failed))'
  BY <1>2, <1>5
<1>9. (pc = "value" => arg.idx = Len(L) /\ (frames = <<>> => ~failed))'
  BY <1>2
<1> QED BY <1>2, <1>3, <1>4, <1>6, <1>7, <1>8, <1>9 DEF DumperInv

\* A scalar is printed.
LEMMA DumpScalarKeepsInv == DumperInv /\ DumpScalar => DumperInv'
<1> SUFFICES ASSUME DumperInv, DumpScalar PROVE DumperInv'
  OBVIOUS
<1>1. /\ pc = "value" /\ pc' = "return"
      /\ caller' = caller /\ L' = L /\ frames' = frames /\ failed' = failed
  BY DEF DumpScalar
<1>2. Expected' = Expected
  BY <1>1 DEF Expected
<1>3. Placed' /\ Room' /\ Indexable'
  BY <1>1 DEF DumperInv, Placed, Room, Indexable
<1>4. IsStack(L)' /\ IsStack(caller)' /\ IsStack(frames)'
  BY <1>1 DEF DumperInv, IsStack
<1>5. \A k \in 1..Len(frames') : IsActivation(frames[k])'
  BY <1>1 DEF DumperInv, IsActivation
<1> QED BY <1>1, <1>2, <1>3, <1>4, <1>5 DEF DumperInv

\* All values printed: the call returns.
LEMMA FinishKeepsInv == DumperInv /\ Finish => DumperInv'
<1> SUFFICES ASSUME DumperInv, Finish PROVE DumperInv'
  OBVIOUS
<1>1. /\ pc = "return" /\ pc' = "done" /\ frames = <<>>
      /\ caller' = caller /\ L' = L /\ frames' = frames /\ failed' = failed
  BY DEF Finish
<1>2. Expected' = Expected
  BY <1>1 DEF Expected
<1>3. Placed' /\ Room' /\ Indexable'
  BY <1>1 DEF DumperInv, Placed, Room, Indexable
<1>4. IsStack(L)' /\ IsStack(caller)' /\ IsStack(frames)'
  BY <1>1 DEF DumperInv, IsStack
<1>5. \A k \in 1..Len(frames') : IsActivation(frames[k])'
  BY <1>1 DEF DumperInv, IsActivation
<1> QED BY <1>1, <1>2, <1>3, <1>4, <1>5 DEF DumperInv

\* A table is begun: its keys are sorted, or sorting fails.
LEMMA DumpTableKeepsInv == DumperInv /\ DumpTable => DumperInv'
<1> SUFFICES ASSUME DumperInv, DumpTable PROVE DumperInv'
  OBVIOUS
<1>1. /\ Len(L) \in Nat /\ Len(caller) \in Nat \ {0} /\ Len(frames) \in Nat /\ (frames = <<>> <=> Len(frames) = 0)
      /\ Len(L) >= Len(caller) /\ IsStack(L) /\ IsStack(caller) /\ IsStack(frames)
  BY DumperTypes DEF DumperInv
<1>2. /\ pc = "value" /\ pc' = "loop" /\ caller' = caller /\ arg.idx = Len(L) /\ lua_type(L[Len(L)]) = "table"
      /\ failed \in BOOLEAN /\ (frames = <<>> => Len(L) = Len(caller))
  <2>1. pc = "value" /\ pc' = "loop" /\ caller' = caller /\ lua_type(L[arg.idx]) = "table"
    BY DEF DumpTable
  <2>2. /\ arg.idx = Len(L) /\ (frames = <<>> => ~failed) /\ failed \in BOOLEAN
        /\ (Len(L) = Expected <=> ~failed)
    BY <2>1 DEF DumperInv
  <2>3. frames = <<>> => Expected = Len(caller)
    BY <1>1, <2>1 DEF Expected
  <2> QED BY <2>1, <2>2, <2>3
<1>3. PICK a : IsActivation(a) /\ a.idx = Len(L) /\ frames' = <<a>> \o frames
  BY <1>1, <1>2 DEF DumpTable, IsActivation
<1>4. /\ IsStack(frames)' /\ Len(frames') = Len(frames) + 1 /\ frames' # <<>>
      /\ frames'[1] = a /\ \A k \in 1..Len(frames) : frames'[k + 1] = frames[k]
  BY <1>1, <1>3, StackPushed DEF IsStack
<1> DEFINE Longer(d) ==
      /\ IsStack(L)' /\ Len(L') = Len(L) + d /\ \A k \in 1..Len(L) : L'[k] = L[k]
      /\ \A k \in (Len(L) + 1)..(Len(L) + d) : lua_type(L'[k]) \in Activated
<1>5. \/ Longer(1) /\ failed' = failed
      \/ Longer(2) /\ failed' = TRUE
  <2>1. \/ \E s : L' = Append(L, KeyArray(s)) /\ failed' = failed
        \/ \E s : L' = L \o <<KeyArray(s), Library>> /\ failed' = TRUE
    BY DEF DumpTable, FailedSort
  <2>2. ASSUME NEW s, L' = Append(L, KeyArray(s)) PROVE Longer(1)
    <3>1. /\ IsStack(Append(L, KeyArray(s))) /\ Len(Append(L, KeyArray(s))) = Len(L) + 1
          /\ \A k \in 1..Len(L) : Append(L, KeyArray(s))[k] = L[k]
          /\ Append(L, KeyArray(s))[Len(L) + 1] = KeyArray(s)
      BY <1>1, StackAppended
    <3>2. IsStack(L)'
      BY <2>2, <3>1 DEF IsStack
    <3> QED BY <1>1, <2>2, <3>1, <3>2 DEF KeyArray, lua_type, Activated
  <2>3. ASSUME NEW s, L' = L \o <<KeyArray(s), Library>> PROVE Longer(2)
    <3> DEFINE r == L \o <<KeyArray(s), Library>>
    <3>1. /\ IsStack(r) /\ Len(r) = Len(L) + 2 /\ \A k \in 1..Len(L) : r[k] = L[k]
          /\ r[Len(L) + 1] = KeyArray(s) /\ r[Len(L) + 2] = Library
      BY <1>1, StackJoined
    <3>2. L' = r
      BY <2>3
    <3> HIDE DEF r
    <3>3. IsStack(L)'
      BY <3>1, <3>2 DEF IsStack
    <3> QED BY <1>1, <3>1, <3>2, <3>3 DEF KeyArray, Library, lua_type, Activated
  <2> QED BY <2>1, <2>2, <2>3
<1>6. PICK d \in {1, 2} : Longer(d) /\ ((d = 1 /\ failed' = failed) \/ (d = 2 /\ failed' = TRUE))
  BY <1>5
<1> HIDE DEF Longer
<1>7. /\ IsStack(L)' /\ Len(L') = Len(L) + d /\ \A k \in 1..Len(L) : L'[k] = L[k]
      /\ \A k \in (Len(L) + 1)..(Len(L) + d) : lua_type(L'[k]) \in Activated
  BY <1>6 DEF Longer
<1>8. Placed'
  <2>1. frames'[Len(frames')].idx = Len(caller')
    <3>1. CASE frames = <<>>
      BY <1>1, <1>2, <1>3, <1>4, <3>1
    <3>2. CASE frames # <<>>
      <4>1. Len(frames) \in 1..Len(frames) /\ frames'[Len(frames')] = frames[Len(frames)]
        BY <1>1, <1>4, <3>2
      <4> QED BY <1>2, <3>2, <4>1 DEF DumperInv, Placed
    <3> QED BY <3>1, <3>2
  <2>2. ASSUME NEW k \in 1..(Len(frames') - 1) PROVE frames'[k].idx >= frames'[k + 1].idx + 2
    <3>1. k \in 1..Len(frames) /\ frames'[k + 1] = frames[k]
      BY <1>1, <1>4
    <3>2. CASE k = 1
      <4>1. frames # <<>>
        BY <1>1, <3>1
      <4> QED BY <1>2, <1>3, <1>4, <3>1, <3>2, <4>1 DEF DumperInv, Room
    <3>3. CASE k # 1
      <4>1. k - 1 \in 1..(Len(frames) - 1) /\ k - 1 \in 1..Len(frames) /\ (k - 1) + 1 = k
        BY <1>1, <3>1, <3>3
      <4>2. frames'[(k - 1) + 1] = frames[k - 1] /\ frames[k - 1].idx >= frames[(k - 1) + 1].idx + 2
        BY <1>4, <4>1 DEF DumperInv, Placed
      <4> QED BY <3>1, <4>1, <4>2
    <3> QED BY <3>2, <3>3
  <2> QED BY <2>1, <2>2 DEF Placed
<1>9. Room'
  BY <1>1, <1>2, <1>3, <1>4, <1>6, <1>7 DEF Room
<1>10. Indexable'
  <2> SUFFICES ASSUME NEW k \in (Len(caller) + 1)..Len(L') PROVE lua_type(L'[k]) \in Activated
    BY <1>1, <1>2 DEF Indexable, lua_type
  <2>1. CASE k \in (Len(caller) + 1)..(Len(L) - 1)
    <3>1. k \in 1..Len(L)
      BY <1>1, <2>1
    <3> QED BY <1>2, <1>7, <2>1, <3>1 DEF DumperInv, Indexable
  <2>2. CASE k = Len(L)
    BY <1>1, <1>2, <1>7, <2>2 DEF Activated
  <2>3. CASE k \in (Len(L) + 1)..(Len(L) + d)
    BY <1>7, <2>3
  <2> QED BY <1>1, <1>6, <1>7, <2>1, <2>2, <2>3
<1>11. Expected' = Expected + 1 /\ Expected \in Int
  BY <1>1, <1>2, <1>4 DEF Expected
<1>12. Len(L') >= Expected' /\ (Len(L') = Expected' <=> ~failed') /\ failed' \in BOOLEAN
  <2>1. Len(L) >= Expected /\ (Len(L) = Expected <=> ~failed)
    BY DEF DumperInv
  <2>2. CASE d = 1 /\ failed' = failed
    BY <1>1, <1>2, <1>7, <1>11, <2>1, <2>2
  <2>3. CASE d = 2 /\ failed' = TRUE
    BY <1>1, <1>7, <1>11, <2>1, <2>3
  <2> QED BY <1>6, <2>2, <2>3
<1>13. ASSUME NEW k \in 1..Len(frames') PROVE IsActivation(frames'[k])
  <2>1. k = 1 \/ (k - 1 \in 1..Len(frames) /\ (k - 1) + 1 = k)
    BY <1>1, <1>4
  <2> QED BY <1>3, <1>4, <2>1 DEF DumperInv
<1>14. ASSUME NEW k \in 1..Len(caller') PROVE L'[k] = caller'[k]
  <2>1. k \in 1..Len(caller) /\ k \in 1..Len(L)
    BY <1>1, <1>2
  <2> QED BY <1>2, <1>7, <2>1 DEF DumperInv
<1>15. IsStack(caller)' /\ Len(caller') >= 1
  BY <1>1, <1>2 DEF IsStack
<1>16. (\A k \in 1..Len(frames) : IsActivation(frames[k]))'
  BY <1>13 DEF IsActivation
<1> QED BY <1>2, <1>4, <1>7, <1>8, <1>9, <1>10, <1>12, <1>14, <1>15, <1>16 DEF DumperInv

\* The next key is printed, or the loop ends for want of one: the array of keys is on top.
LEMMA LoopEntryKeepsInv == DumperInv /\ LoopEntry => DumperInv'
<1> SUFFICES ASSUME DumperInv, LoopEntry PROVE DumperInv'
  OBVIOUS
<1>1. /\ Len(L) \in Nat /\ Len(caller) \in Nat \ {0} /\ Len(frames) \in Nat /\ (frames = <<>> <=> Len(frames) = 0)
      /\ Len(L) > Len(caller) /\ IsStack(L) /\ IsStack(caller) /\ IsStack(frames) /\ frames # <<>>
      /\ failed \in BOOLEAN /\ pc = "loop" /\ pc' = "value" /\ caller' = caller /\ failed' = failed
  BY DumperTypes DEF DumperInv, LoopEntry, Begin
<1>2. 1 \in 1..Len(frames) /\ IsActivation(frames[1])
  BY <1>1 DEF DumperInv
<1>3. PICK v : L' = Append(L, v) /\ arg'.idx = Len(L) + 1
  BY DEF LoopEntry, Begin
<1>4. PICK a : IsActivation(a) /\ a.idx = frames[1].idx /\ frames' = [frames EXCEPT ![1] = a]
  <2>1. frames' = [frames EXCEPT ![1] = [frames[1] EXCEPT !.key = TRUE]]
    BY DEF LoopEntry
  <2>2. IsActivation([frames[1] EXCEPT !.key = TRUE]) /\ [frames[1] EXCEPT !.key = TRUE].idx = frames[1].idx
    BY <1>2, ActivationChanged
  <2> QED BY <2>1, <2>2
<1>5. /\ IsStack(Append(L, v)) /\ Len(L') = Len(L) + 1 /\ \A k \in 1..Len(L) : L'[k] = L[k]
  BY <1>1, <1>3, StackAppended
<1>6. /\ IsStack([frames EXCEPT ![1] = a]) /\ Len(frames') = Len(frames) /\ frames' # <<>>
      /\ frames'[1] = a /\ \A k \in 2..Len(frames) : frames'[k] = frames[k]
  <2> DEFINE r == [frames EXCEPT ![1] = a]
  <2>1. IsStack(r) /\ Len(r) = Len(frames) /\ r # <<>> /\ r[1] = a /\ \A k \in 2..Len(frames) : r[k] = frames[k]
    BY <1>1, StackFirst, ZenonT(60)
  <2>2. frames' = r
    BY <1>4
  <2> HIDE DEF r
  <2>3. Len(frames') = Len(frames) /\ frames' # <<>> /\ frames'[1] = a /\ \A k \in 2..Len(frames) : frames'[k] = frames[k]
    BY <2>1, <2>2
  <2> QED BY <2>1, <2>3 DEF r
<1>7. Placed' /\ (\A k \in 1..Len(frames) : IsActivation(frames[k]))'
  BY <1>1, <1>4, <1>6, SameActivations
<1>8. Room'
  BY <1>1, <1>2, <1>4, <1>5, <1>6 DEF DumperInv, Room, IsActivation
<1>9. Indexable'
  <2> SUFFICES ASSUME NEW k \in (Len(caller) + 1)..(Len(L') - 1) PROVE lua_type(L'[k]) \in Activated
    BY <1>1 DEF Indexable, lua_type
  <2>1. k \in (Len(caller) + 1)..Len(L) /\ k \in 1..Len(L)
    BY <1>1, <1>5
  <2> QED BY <1>1, <1>5, <2>1 DEF DumperInv, Indexable
<1>10. (Len(L) >= Expected /\ (Len(L) = Expected <=> ~failed))'
  <2>1. Expected' = Expected + 1 /\ Expected \in Int
    BY <1>1, <1>6 DEF Expected
  <2> QED BY <1>1, <1>5, <2>1 DEF DumperInv
<1>11. (\A k \in 1..Len(caller) : L[k] = caller[k])'
  <2>1. ASSUME NEW k \in 1..Len(caller) PROVE L'[k] = caller[k]
    BY <1>1, <1>5 DEF DumperInv
  <2> QED BY <1>1, <2>1
<1>12. IsStack(caller)' /\ Len(caller') >= 1 /\ IsStack(L)' /\ IsStack(frames)'
  BY <1>1, <1>3, <1>4, <1>5, <1>6 DEF IsStack
<1>13. (pc = "value" => arg.idx = Len(L) /\ (frames = <<>> => ~failed))'
  BY <1>3, <1>5, <1>6
<1> QED BY <1>1, <1>6, <1>7, <1>8, <1>9, <1>10, <1>11, <1>12, <1>13 DEF DumperInv

\* The key of the entry has been printed: it gives way to its value.
LEMMA ReturnKeyKeepsInv == DumperInv /\ ReturnKey => DumperInv'
<1> SUFFICES ASSUME DumperInv, ReturnKey PROVE DumperInv'
  OBVIOUS
<1>1. /\ Len(L) \in Nat /\ Len(caller) \in Nat \ {0} /\ Len(frames) \in Nat /\ (frames = <<>> <=> Len(frames) = 0)
      /\ IsStack(L) /\ IsStack(caller) /\ IsStack(frames) /\ frames # <<>>
      /\ failed \in BOOLEAN /\ pc = "return" /\ pc' = "value" /\ caller' = caller /\ failed' = failed
  BY DumperTypes DEF DumperInv, ReturnKey, Begin
<1>2. 1 \in 1..Len(frames) /\ IsActivation(frames[1]) /\ frames[1].idx \in Nat /\ frames[1].idx >= Len(caller)
  BY <1>1, DumperTypes DEF DumperInv
<1>3. Len(L) >= frames[1].idx + 2
  BY <1>1 DEF DumperInv, Room
<1>4. PICK v : L' = Append(Front(L), v) /\ arg'.idx = Len(L)
  BY DEF ReturnKey, Begin
<1>5. PICK a : IsActivation(a) /\ a.idx = frames[1].idx /\ frames' = [frames EXCEPT ![1] = a]
  <2>1. frames' = [frames EXCEPT ![1] = [frames[1] EXCEPT !.key = FALSE]]
    BY DEF ReturnKey
  <2>2. IsActivation([frames[1] EXCEPT !.key = FALSE]) /\ [frames[1] EXCEPT !.key = FALSE].idx = frames[1].idx
    BY <1>2, ActivationChanged
  <2> QED BY <2>1, <2>2
<1>6. IsStack(Append(Front(L), v)) /\ Len(L') = Len(L) /\ \A k \in 1..(Len(L) - 1) : L'[k] = L[k]
  <2>1. /\ IsStack(Front(L)) /\ Len(Front(L)) = Len(L) - 1 /\ \A k \in 1..(Len(L) - 1) : Front(L)[k] = L[k]
    BY <1>1, <1>2, <1>3, StackFront
  <2> HIDE DEF Front
  <2>2. /\ IsStack(Append(Front(L), v)) /\ Len(Append(Front(L), v)) = Len(Front(L)) + 1
        /\ \A k \in 1..Len(Front(L)) : Append(Front(L), v)[k] = Front(L)[k]
    BY <2>1, StackAppended
  <2> QED BY <1>1, <1>4, <2>1, <2>2
<1>7. /\ IsStack([frames EXCEPT ![1] = a]) /\ Len(frames') = Len(frames) /\ frames' # <<>>
      /\ frames'[1] = a /\ \A k \in 2..Len(frames) : frames'[k] = frames[k]
  <2> DEFINE r == [frames EXCEPT ![1] = a]
  <2>1. IsStack(r) /\ Len(r) = Len(frames) /\ r # <<>> /\ r[1] = a /\ \A k \in 2..Len(frames) : r[k] = frames[k]
    BY <1>1, StackFirst, ZenonT(60)
  <2>2. frames' = r
    BY <1>5
  <2> HIDE DEF r
  <2>3. Len(frames') = Len(frames) /\ frames' # <<>> /\ frames'[1] = a /\ \A k \in 2..Len(frames) : frames'[k] = frames[k]
    BY <2>1, <2>2
  <2> QED BY <2>1, <2>3 DEF r
<1>8. Placed' /\ (\A k \in 1..Len(frames) : IsActivation(frames[k]))'
  BY <1>1, <1>5, <1>7, SameActivations
<1>9. Room'
  BY <1>1, <1>2, <1>3, <1>5, <1>6, <1>7 DEF Room
<1>10. Indexable'
  <2> SUFFICES ASSUME NEW k \in (Len(caller) + 1)..(Len(L') - 1) PROVE lua_type(L'[k]) \in Activated
    BY <1>1 DEF Indexable, lua_type
  <2>1. k \in (Len(caller) + 1)..(Len(L) - 1) /\ k \in 1..(Len(L) - 1)
    BY <1>1, <1>6
  <2> QED BY <1>1, <1>6, <2>1 DEF DumperInv, Indexable
<1>11. (Len(L) >= Expected /\ (Len(L) = Expected <=> ~failed))'
  <2>1. Expected' = Expected
    BY <1>1, <1>7 DEF Expected
  <2> QED BY <1>1, <1>6, <2>1 DEF DumperInv
<1>12. (\A k \in 1..Len(caller) : L[k] = caller[k])'
  <2>1. ASSUME NEW k \in 1..Len(caller) PROVE L'[k] = caller[k]
    <3>1. k \in 1..(Len(L) - 1)
      BY <1>1, <1>2, <1>3
    <3> QED BY <1>6, <3>1 DEF DumperInv
  <2> QED BY <1>1, <2>1
<1>13. IsStack(caller)' /\ Len(caller') >= 1 /\ IsStack(L)' /\ IsStack(frames)'
  BY <1>1, <1>4, <1>5, <1>6, <1>7 DEF IsStack
<1>14. (pc = "value" => arg.idx = Len(L) /\ (frames = <<>> => ~failed))'
  BY <1>4, <1>6, <1>7
<1> QED BY <1>1, <1>7, <1>8, <1>9, <1>10, <1>11, <1>12, <1>13, <1>14 DEF DumperInv

\* The value of the entry has been printed and is removed.
LEMMA ReturnValueKeepsInv == DumperInv /\ ReturnValue => DumperInv'
<1> SUFFICES ASSUME DumperInv, ReturnValue PROVE DumperInv'
  OBVIOUS
<1>1. /\ Len(L) \in Nat /\ Len(caller) \in Nat \ {0} /\ Len(frames) \in Nat /\ (frames = <<>> <=> Len(frames) = 0)
      /\ IsStack(L) /\ IsStack(caller) /\ IsStack(frames) /\ frames # <<>>
      /\ failed \in BOOLEAN /\ pc = "return" /\ pc' = "loop" /\ caller' = caller /\ failed' = failed
      /\ L' = Front(L)
  BY DumperTypes DEF DumperInv, ReturnValue, AfterValue
<1>2. 1 \in 1..Len(frames) /\ IsActivation(frames[1]) /\ frames[1].idx \in Nat /\ frames[1].idx >= Len(caller)
  BY <1>1, DumperTypes DEF DumperInv
<1>3. Len(L) >= frames[1].idx + 2
  BY <1>1 DEF DumperInv, Room
<1>4. PICK a : IsActivation(a) /\ a.idx = frames[1].idx /\ frames' = [frames EXCEPT ![1] = a]
  <2>1. frames' = [frames EXCEPT ![1] = [frames[1] EXCEPT !.i = frames[1].i + 1]]
    BY DEF ReturnValue
  <2>2. /\ IsActivation([frames[1] EXCEPT !.i = frames[1].i + 1])
        /\ [frames[1] EXCEPT !.i = frames[1].i + 1].idx = frames[1].idx
    BY <1>2, ActivationChanged
  <2> QED BY <2>1, <2>2
<1>5. IsStack(Front(L)) /\ Len(L') = Len(L) - 1 /\ \A k \in 1..(Len(L) - 1) : L'[k] = L[k]
  <2>1. IsStack(Front(L)) /\ Len(Front(L)) = Len(L) - 1 /\ \A k \in 1..(Len(L) - 1) : Front(L)[k] = L[k]
    BY <1>1, <1>2, <1>3, StackFront
  <2> QED BY <1>1, <2>1
<1>6. /\ IsStack([frames EXCEPT ![1] = a]) /\ Len(frames') = Len(frames) /\ frames' # <<>>
      /\ frames'[1] = a /\ \A k \in 2..Len(frames) : frames'[k] = frames[k]
  <2> DEFINE r == [frames EXCEPT ![1] = a]
  <2>1. IsStack(r) /\ Len(r) = Len(frames) /\ r # <<>> /\ r[1] = a /\ \A k \in 2..Len(frames) : r[k] = frames[k]
    BY <1>1, StackFirst
  <2>2. frames' = r
    BY <1>4
  <2> HIDE DEF r
  <2>3. Len(frames') = Len(frames) /\ frames' # <<>> /\ frames'[1] = a /\ \A k \in 2..Len(frames) : frames'[k] = frames[k]
    BY <2>1, <2>2
  <2> QED BY <2>1, <2>3 DEF r
<1>7. Placed' /\ (\A k \in 1..Len(frames) : IsActivation(frames[k]))'
  BY <1>1, <1>4, <1>6, SameActivations
<1>8. Room'
  BY <1>1, <1>2, <1>3, <1>4, <1>5, <1>6 DEF Room
<1>9. Indexable'
  <2> SUFFICES ASSUME NEW k \in (Len(caller) + 1)..Len(L') PROVE lua_type(L'[k]) \in Activated
    BY <1>1 DEF Indexable, lua_type
  <2>1. k \in (Len(caller) + 1)..(Len(L) - 1) /\ k \in 1..(Len(L) - 1)
    BY <1>1, <1>5
  <2> QED BY <1>1, <1>5, <2>1 DEF DumperInv, Indexable
<1>10. (Len(L) >= Expected /\ (Len(L) = Expected <=> ~failed))'
  <2>1. Expected' = Expected - 1 /\ Expected \in Int
    BY <1>1, <1>6 DEF Expected
  <2> QED BY <1>1, <1>5, <2>1 DEF DumperInv
<1>11. (\A k \in 1..Len(caller) : L[k] = caller[k])'
  <2>1. ASSUME NEW k \in 1..Len(caller) PROVE L'[k] = caller[k]
    <3>1. k \in 1..(Len(L) - 1)
      BY <1>1, <1>2, <1>3
    <3> QED BY <1>5, <3>1 DEF DumperInv
  <2> QED BY <1>1, <2>1
<1>12. IsStack(caller)' /\ Len(caller') >= 1 /\ IsStack(L)' /\ IsStack(frames)'
  BY <1>1, <1>4, <1>5, <1>6 DEF IsStack
<1> QED BY <1>1, <1>6, <1>7, <1>8, <1>9, <1>10, <1>11, <1>12 DEF DumperInv

\* All entries of a table have been printed: its array of keys is removed.
LEMMA LoopEndKeepsInv == DumperInv /\ LoopEnd => DumperInv'
<1> SUFFICES ASSUME DumperInv, LoopEnd PROVE DumperInv'
  OBVIOUS
<1>1. /\ Len(L) \in Nat /\ Len(caller) \in Nat \ {0} /\ Len(frames) \in Nat /\ (frames = <<>> <=> Len(frames) = 0)
      /\ IsStack(L) /\ IsStack(caller) /\ IsStack(frames) /\ frames # <<>>
      /\ failed \in BOOLEAN /\ pc = "loop" /\ pc' = "return" /\ caller' = caller /\ failed' = failed
      /\ L' = Front(L) /\ frames' = Tail(frames)
  BY DumperTypes DEF DumperInv, LoopEnd
<1>2. 1 \in 1..Len(frames) /\ frames[1].idx \in Nat /\ frames[1].idx >= Len(caller)
  BY <1>1, DumperTypes
<1>3. Len(L) >= frames[1].idx + 1
  BY <1>1 DEF DumperInv, Room
<1>4. IsStack(Front(L)) /\ Len(L') = Len(L) - 1 /\ \A k \in 1..(Len(L) - 1) : L'[k] = L[k]
  <2>1. IsStack(Front(L)) /\ Len(Front(L)) = Len(L) - 1 /\ \A k \in 1..(Len(L) - 1) : Front(L)[k] = L[k]
    BY <1>1, <1>2, <1>3, StackFront
  <2> QED BY <1>1, <2>1
<1>5. /\ IsStack(Tail(frames)) /\ Len(frames') = Len(frames) - 1
      /\ \A k \in 1..(Len(frames) - 1) : frames'[k] = frames[k + 1]
  <2>1. /\ IsStack(Tail(frames)) /\ Len(Tail(frames)) = Len(frames) - 1
        /\ \A k \in 1..(Len(frames) - 1) : Tail(frames)[k] = frames[k + 1]
    BY <1>1, StackTail
  <2> QED BY <1>1, <2>1
<1>6. frames' = <<>> <=> Len(frames') = 0
  BY <1>1, <1>5, EmptySeq DEF IsStack
<1>7. Placed'
  <2>1. frames' # <<>> => frames'[Len(frames')].idx = Len(caller)
    <3> SUFFICES ASSUME frames' # <<>> PROVE frames'[Len(frames')].idx = Len(caller)
      OBVIOUS
    <3>1. Len(frames) - 1 \in 1..(Len(frames) - 1) /\ (Len(frames) - 1) + 1 = Len(frames)
      BY <1>1, <1>5, <1>6
    <3>2. frames'[Len(frames')] = frames[Len(frames)]
      BY <1>5, <3>1
    <3> QED BY <1>1, <3>2 DEF DumperInv, Placed
  <2>2. ASSUME NEW k \in 1..(Len(frames') - 1) PROVE frames'[k].idx >= frames'[k + 1].idx + 2
    <3>1. k \in 1..(Len(frames) - 1) /\ k + 1 \in 1..(Len(frames) - 1)
      BY <1>1, <1>5
    <3>2. frames'[k] = frames[k + 1] /\ frames'[k + 1] = frames[(k + 1) + 1]
      BY <1>5, <3>1
    <3>3. frames[k + 1].idx >= frames[(k + 1) + 1].idx + 2
      BY <3>1 DEF DumperInv, Placed
    <3> QED BY <3>2, <3>3
  <2> QED BY <1>1, <2>1, <2>2 DEF Placed
<1>8. Room'
  <2>1. CASE frames' = <<>>
    BY <1>1, <1>2, <1>3, <1>4, <2>1 DEF Room
  <2>2. CASE frames' # <<>>
    <3>1. 1 \in 1..(Len(frames) - 1) /\ 2 \in 1..Len(frames)
      BY <1>1, <1>5, <1>6, <2>2
    <3>2. frames'[1] = frames[2] /\ frames[1].idx >= frames[2].idx + 2 /\ frames[2].idx \in Nat
      BY <1>5, <3>1, DumperTypes DEF DumperInv, Placed
    <3>3. Len(L') >= frames'[1].idx + 2
      <4>1. Len(L) \in Nat /\ Len(L') = Len(L) - 1 /\ Len(L) >= frames[1].idx + 1 /\ frames[1].idx \in Nat
        BY <1>1, <1>2, <1>3, <1>4
      <4> QED BY <3>2, <4>1
    <3> QED BY <1>1, <2>2, <3>3 DEF Room
  <2> QED BY <2>1, <2>2
<1>9. Indexable'
  <2> SUFFICES ASSUME NEW k \in (Len(caller) + 1)..(Len(L') - 1) PROVE lua_type(L'[k]) \in Activated
    BY <1>1 DEF Indexable, lua_type
  <2>1. k \in (Len(caller) + 1)..Len(L) /\ k \in 1..(Len(L) - 1)
    BY <1>1, <1>4
  <2> QED BY <1>1, <1>4, <2>1 DEF DumperInv, Indexable
<1>10. (Len(L) >= Expected /\ (Len(L) = Expected <=> ~failed))'
  <2>1. Expected' = Expected - 1 /\ Expected \in Int
    BY <1>1, <1>5 DEF Expected
  <2> QED BY <1>1, <1>4, <2>1 DEF DumperInv
<1>11. (\A k \in 1..Len(caller) : L[k] = caller[k])'
  <2>1. ASSUME NEW k \in 1..Len(caller) PROVE L'[k] = caller[k]
    <3>1. k \in 1..(Len(L) - 1)
      BY <1>1, <1>2, <1>3
    <3> QED BY <1>4, <3>1 DEF DumperInv
  <2> QED BY <1>1, <2>1
<1>12. (\A k \in 1..Len(frames) : IsActivation(frames[k]))'
  <2>1. ASSUME NEW k \in 1..Len(frames') PROVE IsActivation(frames'[k])
    <3>1. k \in 1..(Len(frames) - 1) /\ k + 1 \in 1..Len(frames)
      BY <1>1, <1>5
    <3> QED BY <1>5, <3>1 DEF DumperInv
  <2> QED BY <2>1 DEF IsActivation
<1>13. IsStack(caller)' /\ Len(caller') >= 1 /\ IsStack(L)' /\ IsStack(frames)'
  BY <1>1, <1>4, <1>5 DEF IsStack
<1> QED BY <1>1, <1>7, <1>8, <1>9, <1>10, <1>11, <1>12, <1>13 DEF DumperInv

\* The dumper does not move.
LEMMA StillKeepsInv == DumperInv /\ UNCHANGED dumper => DumperInv'
<1> SUFFICES ASSUME DumperInv, UNCHANGED dumper PROVE DumperInv'
  OBVIOUS
<1>1. caller' = caller /\ L' = L /\ frames' = frames /\ arg' = arg /\ failed' = failed /\ pc' = pc
  BY DEF dumper
<1>2. Expected' = Expected /\ (Placed <=> Placed') /\ (Room <=> Room') /\ (Indexable <=> Indexable')
  BY <1>1 DEF Expected, Placed, Room, Indexable
<1>3. IsStack(L)' /\ IsStack(caller)' /\ IsStack(frames)'
  BY <1>1 DEF DumperInv, IsStack
<1>4. (\A k \in 1..Len(frames) : IsActivation(frames[k]))'
  BY <1>1 DEF DumperInv, IsActivation
<1> QED BY <1>1, <1>2, <1>3, <1>4 DEF DumperInv

\* Every step of the dumper keeps its stack in order.
LEMMA DumpKeepsInv == DumperInv /\ Dump => DumperInv'
BY DumpScalarKeepsInv, DumpTableKeepsInv, LoopEntryKeepsInv, ReturnKeyKeepsInv, ReturnValueKeepsInv, LoopEndKeepsInv,
   FinishKeepsInv DEF Dump

\* StackUsable holds wherever the stack is in order.
LEMMA InvImpliesStackUsable == DumperInv => StackUsable
<1> SUFFICES ASSUME DumperInv PROVE StackUsable
  OBVIOUS
<1>1. Len(L) \in Nat /\ Len(caller) \in Nat \ {0} /\ Len(L) >= Len(caller) /\ (pc = "loop" => Len(L) > Len(caller))
  BY DumperTypes
<1>2. pc = "loop" => Last(L)[1] \in {"table", "keys", "library"}
  <2> SUFFICES ASSUME pc = "loop" PROVE L[Len(L)][1] \in {"table", "keys", "library"}
    BY DEF Last
  <2>1. Len(L) \in (Len(caller) + 1)..Len(L)
    BY <1>1
  <2> QED BY <2>1 DEF DumperInv, Indexable, lua_type, Activated
<1>3. ASSUME pc = "done" PROVE IsPrefix(caller, L) /\ (Len(L) = Len(caller) <=> ~failed)
  <2>1. frames = <<>> /\ Len(frames) = 0
    BY <1>3, DumperTypes DEF DumperInv
  <2>2. Len(L) = Len(caller) <=> ~failed
    BY <1>1, <1>3, <2>1 DEF DumperInv, Expected
  <2>3. PICK S, T : L \in Seq(S) /\ caller \in Seq(T)
    BY DEF DumperInv, IsStack
  <2>4. L \in Seq(S \cup T) /\ caller \in Seq(S \cup T)
    BY <2>3, SeqMonotonic
  <2>5. SubSeq(L, 1, Len(caller)) = caller /\ SubSeq(caller, 1, Len(caller)) = caller
    BY <1>1, <2>4, SamePrefix DEF DumperInv
  <2> QED BY <1>1, <2>2, <2>5 DEF IsPrefix
<1> QED BY <1>2, <1>3 DEF StackUsable

-----------------------------------------------------------------------------
(* The disk and the memory of the programs.                                *)

\* What a program does, and where it stands.
StepOfRun ==
  /\ step \in {"idle", "load", "serialize", "openWrite", "write", "openRead", "parse", "dump", "dumping", "ended"}
  /\ step = "load" => prog.run = "compress"
  /\ step = "serialize" => prog.run \in {"writeToFile", "write", "compress"}
  /\ step \in {"openWrite", "write"} => prog.run \in Writes
  /\ step = "openRead" => prog.run \in {"decompress", "parseFromFile"}
  /\ step = "parse" => prog.run \in {"parse", "parseFromFile", "decompress"}
  /\ step \in {"dump", "dumping"} => prog.run \in {"decompress", "dump", "dumpToFile"}
  /\ prog.run \in Writes => prog.dst \in Paths

\* The disk is the one the program found until it opens its output.
DiskInv ==
  /\ disk = [p \in Paths |-> disk[p]]
  /\ step \notin {"write", "ended"} => disk = before
  /\ \A p \in Paths : disk[p] # before[p] => prog.run \in Writes /\ p = prog.dst
  /\ step = "ended" /\ results = <<False, Message>> => disk = before
  /\ step = "ended" /\ prog.run \in Writes /\ results = <<True>> /\ ~fault => disk[prog.dst] = value

\* What is open and allocated at each step.
FilesInv ==
  /\ step \in {"load", "serialize", "openRead", "dump", "dumping"} => fp = <<>> /\ bufs = {}
  /\ step = "openWrite" => fp = <<>> /\ bufs = {"data"}
  /\ step = "write" => bufs = {"data"}
  /\ step = "parse" /\ prog.run = "parse" => fp = <<>> /\ bufs = {}
  /\ NothingLeft

ToolsInv == DumperInv /\ StepOfRun /\ DiskInv /\ FilesInv

\* No result of a function can be taken for another.
LEMMA ResultsDiffer ==
  /\ <<False, Message>> # <<True>> /\ <<>> # <<True>> /\ <<>> # <<False, Message>>
  /\ <<Raised>> # <<True>> /\ <<<<"killed">>>> # <<True>> /\ <<<<"killed">>>> # <<Raised>>
  /\ \A r : <<r>> # <<False, Message>>
  /\ \A r : <<Nil, r>> # <<False, Message>> /\ <<Nil, r>> # <<True>>
BY DEF False, True, Message, Raised, Nil, Str

\* A program begins.
LEMMA StartProgramKeepsInv == ToolsInv /\ StartProgram => ToolsInv'
<1> SUFFICES ASSUME ToolsInv, StartProgram PROVE ToolsInv'
  OBVIOUS
<1>1. PICK p \in Programs : prog' = Command(p) /\ step' = FirstStep(Command(p).run)
  BY DEF StartProgram
<1>2. /\ before' = disk /\ disk' = disk /\ fp' = <<>> /\ bufs' = {} /\ results' = <<>>
      /\ Start(<<Nil>>, 99)
  BY DEF StartProgram
<1>3. DumperInv'
  <2>1. <<Nil>> \in Seq({Nil}) /\ Len(<<Nil>>) = 1
    OBVIOUS
  <2>2. IsStack(<<Nil>>)
    BY <2>1 DEF IsStack
  <2>3. PICK stack : stack = <<Nil>>
    OBVIOUS
  <2>4. /\ caller' = stack /\ L' = stack /\ frames' = <<>> /\ failed' = FALSE /\ pc' = "value"
        /\ arg'.idx = Len(stack)
    BY <1>2, <2>3 DEF Start, Begin
  <2>5. IsStack(stack) /\ Len(stack) >= 1
    BY <2>1, <2>2, <2>3
  <2> QED BY <2>4, <2>5, StartKeepsInv
<1>4. Command(p).run \in Runs /\ (Command(p).run \in Writes => Command(p).dst \in Paths)
  BY ToolsAssumption
<1>5. StepOfRun'
  BY <1>1, <1>4 DEF StepOfRun, FirstStep, Runs, Writes
<1>6. DiskInv'
  BY <1>2, ResultsDiffer DEF ToolsInv, DiskInv
<1>7. FilesInv'
  <2>1. step' # "openWrite" /\ step' # "write"
    BY <1>1, <1>4 DEF FirstStep, Runs
  <2> QED BY <1>2, <2>1 DEF FilesInv, NothingLeft
<1> QED BY <1>3, <1>5, <1>6, <1>7 DEF ToolsInv

\* luabt -c runs its source file.
LEMMA LoadSourceKeepsInv == ToolsInv /\ LoadSource => ToolsInv'
<1> SUFFICES ASSUME ToolsInv, LoadSource PROVE ToolsInv'
  OBVIOUS
<1>1. prog' = prog /\ before' = before /\ UNCHANGED dumper
  BY DEF LoadSource, Quiet
<1>2. DumperInv'
  BY <1>1, StillKeepsInv DEF ToolsInv
<1>3. /\ step = "load" /\ disk' = disk /\ fp' = fp /\ bufs' = bufs /\ fault' = fault
      /\ \/ step' = "serialize" /\ results' = results
         \/ step' = "ended" /\ results' = <<False, Message>>
  BY DEF LoadSource, End
<1>4. StepOfRun'
  BY <1>1, <1>3 DEF ToolsInv, StepOfRun
<1>5. DiskInv'
  BY <1>1, <1>3, ResultsDiffer DEF ToolsInv, DiskInv, StepOfRun
<1>6. FilesInv'
  BY <1>1, <1>3, ResultsDiffer DEF ToolsInv, FilesInv, NothingLeft, StepOfRun
<1> QED BY <1>2, <1>4, <1>5, <1>6 DEF ToolsInv

\* The value becomes binary data, or is refused.
LEMMA SerializeKeepsInv == ToolsInv /\ Serialize => ToolsInv'
<1> SUFFICES ASSUME ToolsInv, Serialize PROVE ToolsInv'
  OBVIOUS
<1>1. prog' = prog /\ before' = before /\ UNCHANGED dumper
  BY DEF Serialize, Quiet
<1>2. DumperInv'
  BY <1>1, StillKeepsInv DEF ToolsInv
<1>3. /\ step = "serialize" /\ disk' = disk /\ fp' = fp /\ fault' = fault
      /\ \/ step' = "ended" /\ results' \in {<<>>, <<False, Message>>} /\ bufs' = bufs
         \/ step' = "ended" /\ (\E r : results' = <<r>>) /\ prog.run = "write" /\ bufs' = bufs
         \/ step' = "openWrite" /\ prog.run # "write" /\ bufs' = {"data"}
  BY DEF Serialize, End
<1>4. StepOfRun'
  BY <1>1, <1>3 DEF ToolsInv, StepOfRun, Writes
<1>5. DiskInv'
  BY <1>1, <1>3, ResultsDiffer DEF ToolsInv, DiskInv, StepOfRun, Writes
<1>6. FilesInv'
  BY <1>1, <1>3, ResultsDiffer DEF ToolsInv, FilesInv, NothingLeft, StepOfRun
<1> QED BY <1>2, <1>4, <1>5, <1>6 DEF ToolsInv

\* The output is opened, and its contents are gone, or the disk refuses.
LEMMA OpenWriteKeepsInv == ToolsInv /\ OpenWrite => ToolsInv'
<1> SUFFICES ASSUME ToolsInv, OpenWrite PROVE ToolsInv'
  OBVIOUS
<1>1. prog' = prog /\ before' = before /\ UNCHANGED dumper
  BY DEF OpenWrite, Quiet
<1>2. DumperInv'
  BY <1>1, StillKeepsInv DEF ToolsInv
<1>3. /\ step = "openWrite" /\ fault' = fault
      /\ \/ disk' = [disk EXCEPT ![prog.dst] = Empty] /\ step' = "write" /\ bufs' = bufs
         \/ disk' = disk /\ fp' = fp /\ step' = "ended" /\ bufs' = bufs \ {"data"} /\ results' = <<False, Message>>
  BY DEF OpenWrite, End, Released
<1>4. StepOfRun'
  BY <1>1, <1>3 DEF ToolsInv, StepOfRun
<1>5. DiskInv'
  BY <1>1, <1>3, ResultsDiffer DEF ToolsInv, DiskInv, StepOfRun
<1>6. FilesInv'
  BY <1>1, <1>3, ResultsDiffer DEF ToolsInv, FilesInv, NothingLeft, StepOfRun
<1> QED BY <1>2, <1>4, <1>5, <1>6 DEF ToolsInv

\* The data is written, all of it or not.
LEMMA WriteFileKeepsInv == ToolsInv /\ WriteFile => ToolsInv'
<1> SUFFICES ASSUME ToolsInv, WriteFile PROVE ToolsInv'
  OBVIOUS
<1>1. prog' = prog /\ before' = before /\ UNCHANGED dumper
  BY DEF WriteFile, Quiet
<1>2. DumperInv'
  BY <1>1, StillKeepsInv DEF ToolsInv
<1>3. /\ step = "write" /\ step' = "ended" /\ fp' = <<>> /\ bufs' = bufs \ {"data"} /\ results' = <<True>> /\ value' = value
      /\ \/ disk' = [disk EXCEPT ![prog.dst] = value] /\ fault' = fault
         \/ (\E c : disk' = [disk EXCEPT ![prog.dst] = c]) /\ fault' = TRUE
  BY DEF WriteFile, End, Released
<1>4. StepOfRun'
  BY <1>1, <1>3 DEF ToolsInv, StepOfRun
<1>5. DiskInv'
  BY <1>1, <1>3, ResultsDiffer DEF ToolsInv, DiskInv, StepOfRun
<1>6. FilesInv'
  BY <1>1, <1>3, ResultsDiffer DEF ToolsInv, FilesInv, NothingLeft, StepOfRun
<1> QED BY <1>2, <1>4, <1>5, <1>6 DEF ToolsInv

\* The input is opened and read, or the disk refuses.
LEMMA OpenReadKeepsInv == ToolsInv /\ OpenRead => ToolsInv'
<1> SUFFICES ASSUME ToolsInv, OpenRead PROVE ToolsInv'
  OBVIOUS
<1>1. prog' = prog /\ before' = before /\ UNCHANGED dumper
  BY DEF OpenRead, Quiet
<1>2. DumperInv'
  BY <1>1, StillKeepsInv DEF ToolsInv
<1>3. /\ step = "openRead" /\ disk' = disk
      /\ \/ step' = "parse"
         \/ step' = "dump" /\ prog.run = "decompress" /\ fp' = fp /\ bufs' = bufs
         \/ step' = "ended" /\ results' = <<Nil, Message>> /\ fp' = fp /\ bufs' = bufs
  BY DEF OpenRead, End, Decompressing
<1>4. StepOfRun'
  BY <1>1, <1>3 DEF ToolsInv, StepOfRun
<1>5. DiskInv'
  BY <1>1, <1>3, ResultsDiffer DEF ToolsInv, DiskInv, StepOfRun
<1>6. FilesInv'
  BY <1>1, <1>3, ResultsDiffer DEF ToolsInv, FilesInv, NothingLeft, StepOfRun
<1> QED BY <1>2, <1>4, <1>5, <1>6 DEF ToolsInv

\* The binary data is read, refused, or a memory error is raised.
LEMMA ParseKeepsInv == ToolsInv /\ Parse => ToolsInv'
<1> SUFFICES ASSUME ToolsInv, Parse PROVE ToolsInv'
  OBVIOUS
<1>1. prog' = prog /\ before' = before /\ UNCHANGED dumper
  BY DEF Parse, Quiet
<1>2. DumperInv'
  BY <1>1, StillKeepsInv DEF ToolsInv
<1>3. /\ step = "parse" /\ disk' = disk /\ fault' = fault
      /\ \/ step' = "ended" /\ results' = <<Raised>> /\ fp' = fp /\ bufs' = bufs
         \/ step' = "dump" /\ prog.run = "decompress" /\ fp' = <<>> /\ bufs' = {}
         \/ /\ step' = "ended" /\ (\E r : results' = <<Nil, r>> \/ results' = <<r>>) /\ fp' = <<>> /\ bufs' = {}
            /\ prog.run # "decompress"
  BY DEF Parse, End, Decompressing
<1>4. StepOfRun'
  BY <1>1, <1>3 DEF ToolsInv, StepOfRun
<1>5. DiskInv'
  BY <1>1, <1>3, ResultsDiffer DEF ToolsInv, DiskInv, StepOfRun, Writes
<1>6. FilesInv'
  BY <1>1, <1>3, ResultsDiffer DEF ToolsInv, FilesInv, NothingLeft, StepOfRun
<1> QED BY <1>2, <1>4, <1>5, <1>6 DEF ToolsInv

\* The text is returned, or goes to a file.
LEMMA EndDumpKeepsInv == ToolsInv /\ EndDump => ToolsInv'
<1> SUFFICES ASSUME ToolsInv, EndDump PROVE ToolsInv'
  OBVIOUS
<1>1. prog' = prog /\ before' = before /\ UNCHANGED dumper
  BY DEF EndDump, Quiet
<1>2. DumperInv'
  BY <1>1, StillKeepsInv DEF ToolsInv
<1>3. /\ step = "dumping" /\ disk' = disk /\ fault' = fault /\ fp' = fp
      /\ \/ step' = "ended" /\ (\E r : results' = <<r>>) /\ prog.run = "dump" /\ bufs' = bufs
         \/ step' = "openWrite" /\ prog.run # "dump" /\ bufs' = {"data"}
  BY DEF EndDump, End
<1>4. StepOfRun'
  BY <1>1, <1>3 DEF ToolsInv, StepOfRun, Writes
<1>5. DiskInv'
  BY <1>1, <1>3, ResultsDiffer DEF ToolsInv, DiskInv, StepOfRun, Writes
<1>6. FilesInv'
  BY <1>1, <1>3, ResultsDiffer DEF ToolsInv, FilesInv, NothingLeft, StepOfRun
<1> QED BY <1>2, <1>4, <1>5, <1>6 DEF ToolsInv

\* The process dies.
LEMMA KillKeepsInv == ToolsInv /\ Kill => ToolsInv'
<1> SUFFICES ASSUME ToolsInv, Kill PROVE ToolsInv'
  OBVIOUS
<1>1. prog' = prog /\ before' = before /\ UNCHANGED dumper
  BY DEF Kill, Quiet
<1>2. DumperInv'
  BY <1>1, StillKeepsInv DEF ToolsInv
<1>3. disk' = disk /\ step' = "ended" /\ results' = <<<<"killed">>>> /\ fp' = <<>> /\ bufs' = {}
  BY DEF Kill, End
<1>4. StepOfRun'
  BY <1>1, <1>3 DEF ToolsInv, StepOfRun
<1>5. DiskInv'
  BY <1>1, <1>3, ResultsDiffer DEF ToolsInv, DiskInv, StepOfRun
<1>6. FilesInv'
  BY <1>1, <1>3, ResultsDiffer DEF ToolsInv, FilesInv, NothingLeft, StepOfRun
<1> QED BY <1>2, <1>4, <1>5, <1>6 DEF ToolsInv

\* dumpTable is called.
LEMMA StartDumpKeepsInv == ToolsInv /\ StartDump => ToolsInv'
<1> SUFFICES ASSUME ToolsInv, StartDump PROVE ToolsInv'
  OBVIOUS
<1>1. /\ step = "dump" /\ step' = "dumping" /\ Start(<<value>>, prog.max)
      /\ prog' = prog /\ before' = before /\ disk' = disk /\ fp' = fp /\ bufs' = bufs
  BY DEF StartDump
<1>2. DumperInv'
  <2>1. <<value>> \in Seq({value}) /\ Len(<<value>>) = 1
    OBVIOUS
  <2>2. IsStack(<<value>>)
    BY <2>1 DEF IsStack
  <2>3. PICK stack : stack = <<value>>
    OBVIOUS
  <2>4. /\ caller' = stack /\ L' = stack /\ frames' = <<>> /\ failed' = FALSE /\ pc' = "value"
        /\ arg'.idx = Len(stack)
    BY <1>1, <2>3 DEF Start, Begin
  <2>5. IsStack(stack) /\ Len(stack) >= 1
    BY <2>1, <2>2, <2>3
  <2> QED BY <2>4, <2>5, StartKeepsInv
<1>3. StepOfRun'
  BY <1>1 DEF ToolsInv, StepOfRun
<1>4. DiskInv'
  BY <1>1 DEF ToolsInv, DiskInv
<1>5. FilesInv'
  BY <1>1 DEF ToolsInv, FilesInv, NothingLeft
<1> QED BY <1>2, <1>3, <1>4, <1>5 DEF ToolsInv

\* No program moves, but the dumper may.
LEMMA DumpingKeepsInv == ToolsInv /\ UNCHANGED tool /\ (Dump \/ UNCHANGED dumper) => ToolsInv'
<1> SUFFICES ASSUME ToolsInv, UNCHANGED tool, Dump \/ UNCHANGED dumper PROVE ToolsInv'
  OBVIOUS
<1>1. /\ disk' = disk /\ prog' = prog /\ before' = before /\ fp' = fp /\ bufs' = bufs /\ value' = value
      /\ fault' = fault /\ results' = results /\ step' = step
  BY DEF tool
<1>2. DumperInv'
  BY DumpKeepsInv, StillKeepsInv DEF ToolsInv
<1>3. StepOfRun'
  BY <1>1 DEF ToolsInv, StepOfRun
<1>4. DiskInv'
  BY <1>1 DEF ToolsInv, DiskInv
<1>5. FilesInv'
  BY <1>1 DEF ToolsInv, FilesInv, NothingLeft
<1> QED BY <1>2, <1>3, <1>4, <1>5 DEF ToolsInv

\* The invariant holds at the start and is kept by every step.
LEMMA InitToolsInv == Init => ToolsInv
<1> SUFFICES ASSUME Init PROVE ToolsInv
  OBVIOUS
<1>1. /\ disk \in Disks /\ before = disk /\ prog = [run |-> "none"] /\ fp = <<>> /\ bufs = {} /\ step = "idle"
      /\ caller = <<Nil>> /\ L = <<Nil>> /\ frames = <<>> /\ failed = FALSE /\ pc = "idle"
  BY DEF Init
<1>2. DumperInv
  <2>1. /\ <<Nil>> \in Seq({Nil}) /\ Len(<<Nil>>) = 1 /\ <<>> \in Seq({}) /\ Len(<<>>) = 0
    OBVIOUS
  <2>2. IsStack(<<Nil>>) /\ IsStack(<<>>)
    BY <2>1 DEF IsStack
  <2>3. Expected = 1 /\ Placed /\ Room /\ Indexable
    BY <1>1, <2>1 DEF Expected, Placed, Room, Indexable
  <2>4. IsStack(L) /\ IsStack(caller) /\ IsStack(frames) /\ Len(L) = 1 /\ Len(caller) = 1 /\ Len(frames) = 0
    BY <1>1, <2>1, <2>2
  <2>5. (\A k \in 1..Len(frames) : IsActivation(frames[k])) /\ \A k \in 1..Len(caller) : L[k] = caller[k]
    BY <1>1, <2>4
  <2>6. Len(L) >= Expected /\ (Len(L) = Expected <=> ~failed) /\ failed \in BOOLEAN
    <3>1. ~failed /\ failed \in BOOLEAN
      BY <1>1, Zenon
    <3>2. Len(L) = 1 /\ Expected = 1
      BY <2>3, <2>4
    <3> QED BY <3>1, <3>2
  <2>7. pc \in {"idle", "value", "loop", "return", "done"} /\ pc \notin {"value", "loop", "done"}
    BY <1>1
  <2> QED BY <2>3, <2>4, <2>5, <2>6, <2>7 DEF DumperInv
<1>3. StepOfRun
  BY <1>1 DEF StepOfRun, Writes
<1>4. DiskInv
  BY <1>1, ToolsAssumption DEF DiskInv
<1>5. FilesInv
  BY <1>1 DEF FilesInv, NothingLeft
<1> QED BY <1>2, <1>3, <1>4, <1>5 DEF ToolsInv

\* Every step keeps it.
LEMMA StepKeepsToolsInv == ToolsInv /\ [Next]_<<tool, dumper>> => ToolsInv'
<1> SUFFICES ASSUME ToolsInv, [Next]_<<tool, dumper>> PROVE ToolsInv'
  OBVIOUS
<1>1. CASE StartProgram
  BY <1>1, StartProgramKeepsInv
<1>2. CASE LoadSource
  BY <1>2, LoadSourceKeepsInv
<1>3. CASE Serialize
  BY <1>3, SerializeKeepsInv
<1>4. CASE OpenWrite
  BY <1>4, OpenWriteKeepsInv
<1>5. CASE WriteFile
  BY <1>5, WriteFileKeepsInv
<1>6. CASE OpenRead
  BY <1>6, OpenReadKeepsInv
<1>7. CASE Parse
  BY <1>7, ParseKeepsInv
<1>8. CASE StartDump
  BY <1>8, StartDumpKeepsInv
<1>9. CASE Dumping
  BY <1>9, DumpingKeepsInv DEF Dumping
<1>10. CASE EndDump
  BY <1>10, EndDumpKeepsInv
<1>11. CASE Kill
  BY <1>11, KillKeepsInv
<1>12. CASE Ended \/ UNCHANGED <<tool, dumper>>
  <2>1. UNCHANGED tool /\ UNCHANGED dumper
    BY <1>12 DEF Ended
  <2> QED BY <2>1, DumpingKeepsInv
<1> QED BY <1>1, <1>2, <1>3, <1>4, <1>5, <1>6, <1>7, <1>8, <1>9, <1>10, <1>11, <1>12 DEF Next

\* It holds in every state that the programs reach.
LEMMA ToolsInvariant == Spec => []ToolsInv
<1>1. Init => ToolsInv
  BY InitToolsInv
<1>2. ToolsInv /\ [Next]_<<tool, dumper>> => ToolsInv'
  BY StepKeepsToolsInv
<1> QED BY <1>1, <1>2, PTL DEF Spec

\* However many sorts fail below a value that is dumped, and in whatever order, the loop
\* of dumpValue never hands lua_rawgeti anything but a table, no value of the caller is
\* removed, and values are left on the stack just when a sort has failed.  (dumpTable)
THEOREM StackLeft == Spec => []StackUsable
<1>1. ToolsInv => StackUsable
  BY InvImpliesStackUsable DEF ToolsInv
<1> QED BY <1>1, ToolsInvariant, PTL

\* Whatever the programs, the values and the disk: a function or luabt changes no file but
\* its output, leaves that as it was whenever it reports a failure, and has written what it
\* says it has unless the disk failed.  (writeToFile, dumpToFile, luabt)
THEOREM OutputKept == Spec => []DiskKept
<1>1. ToolsInv => DiskKept
  BY DEF ToolsInv, DiskInv, DiskKept
<1> QED BY <1>1, ToolsInvariant, PTL

\* No file is left open and no block allocated by a function that has returned, unless a
\* Lua error left parseBinaryTable by longjmp.  (parseFromFile, freeBinaryData)
THEOREM FilesClosed == Spec => []NothingLeft
<1>1. ToolsInv => NothingLeft
  BY DEF ToolsInv, FilesInv
<1> QED BY <1>1, ToolsInvariant, PTL
==============================================================================
