----------------------------- MODULE CallsProofs -----------------------------
(***************************************************************************)
(* The counters, handlers and hooks of every thread agree with the C stack *)
(* and costatus tells the truth, for every limit and any number of         *)
(* coroutines.                                                             *)
(*                                                                         *)
(* The argument follows the C stack.  Every activation is tied to the one  *)
(* below it: by its kind, by the functions that are active in its thread,  *)
(* by what luaD_pcall has saved.  A thread that has resumed another is as  *)
(* it was when it did, one that is on no C stack is at rest.  The state of *)
(* the running thread fits the innermost activation and what comes next.   *)
(***************************************************************************)
EXTENDS Calls, FiniteSetTheorems, SequenceTheorems, WellFoundedInduction, TLAPS

-----------------------------------------------------------------------------
(* Stacks that are cut, least numbers.                                     *)

\* SubSeq(s, 1, m): what lies above slot m is popped.
LEMMA Popped ==
  ASSUME NEW S, NEW s \in Seq(S), NEW m \in Nat, m <= Len(s)
  PROVE  /\ SubSeq(s, 1, m) \in Seq(S) /\ Len(SubSeq(s, 1, m)) = m /\ Len(s) \in Nat
         /\ \A k \in 1..m : SubSeq(s, 1, m)[k] = s[k]
<1>1. Len(s) \in Nat /\ \A k \in 1..m : s[k] \in S
  OBVIOUS
<1>2. /\ SubSeq(s, 1, m) \in Seq(S)
      /\ Len(SubSeq(s, 1, m)) = IF 1 <= m THEN m - 1 + 1 ELSE 0
      /\ \A k \in 1..(m - 1 + 1) : SubSeq(s, 1, m)[k] = s[1 + k - 1]
  BY <1>1, SubSeqProperties
<1>3. ASSUME NEW k \in 1..m PROVE SubSeq(s, 1, m)[k] = s[k]
  <2>1. k \in 1..(m - 1 + 1) /\ 1 + k - 1 = k
    OBVIOUS
  <2> QED BY <1>2, <2>1
<1> QED BY <1>1, <1>2, <1>3

LessThan == {p \in Nat \X Nat : p[1] < p[2]}

\* Less than on the natural numbers is well founded.
LEMMA LessIsWellFounded == IsWellFoundedOn(LessThan, Nat)
BY NatLessThanWellFounded DEF OpToRel, LessThan

\* Every set of natural numbers has a least one.
LEMMA LeastElement ==
  ASSUME NEW S \in SUBSET Nat, S # {}
  PROVE  \E n \in S : \A m \in S : n <= m
<1>1. S \subseteq Nat
  OBVIOUS
<1>2. \E n \in S : \A m \in S : ~(<<m, n>> \in LessThan)
  BY <1>1, LessIsWellFounded, WFMin, Zenon
<1>3. PICK n \in S : \A m \in S : ~(<<m, n>> \in LessThan)
  BY <1>2
<1>4. ASSUME NEW m \in S PROVE n <= m
  <2>1. ~(<<m, n>> \in LessThan)
    BY <1>3
  <2> QED BY <2>1 DEF LessThan
<1> QED BY <1>4

-----------------------------------------------------------------------------
(* The invariant.                                                          *)

\* No more C calls than this are ever active.
Limit == LUAI_MAXCCALLS + CCallsSlack

Errors == {"ERRRUN", "ERRMEM", "ERRERR"}
Frame == {"base", "done"} \cup Functions

Plain == [k : {"call", "error", "hook", "resume"}, t : Threads, ci : Nat \ {0}]
Execute == [k : {"execute"}, t : Threads, nexeccalls : Nat \ {0}, ci : Nat \ {0}]
Guard == [k : {"pcall"}, t : Threads, nCcalls : Nat, ci : Nat \ {0}, allowhook : BOOLEAN, errfunc : Nat]
Acts == Plain \cup Execute \cup Guard

LState == [ci : Seq(Frame), size_ci : Nat, nCcalls : Nat, baseCcalls : Nat,
           status : {"OK", "YIELD"} \cup Errors, errfunc : Nat, allowhook : BOOLEAN, top : Nat,
           life : {"absent", "created", "started", "ended", "left"}]

\* The CallInfo array of a thread.
RoomIn(l) ==
  /\ l.size_ci \in 2..(2 * LUAI_MAXCALLS) /\ Len(l.ci) \in 1..l.size_ci
  /\ l.ci[1] = "base"

\* So many functions of its thread are active under what activation a calls.
Reach(a) == IF a.k = "execute" THEN a.ci + a.nexeccalls ELSE a.ci

\* Of the first n activations of c: the C calls, and whether thread t is there or runs a hook.
Depth(c, n) == Cardinality({j \in 1..n : c[j].k \in {"call", "resume"}})
Hooked(c, n, t) == \E j \in 1..n : c[j].t = t /\ c[j].k = "hook"
Runs(c, n, t) == \E j \in 1..n : c[j].t = t

\* Function number e of thread t has called luaD_pcall.
Handler(c, n, t, e) == \E j \in 1..n : c[j].t = t /\ c[j].k = "pcall" /\ c[j].ci = e

\* What lies directly under activation i, by its kind.
Based(c, i) ==
  /\ i = 1 => c[i].k = "pcall" /\ c[i].t = Main /\ c[i].ci = 1 /\ c[i].errfunc = 0
  /\ c[i].k = "execute" => c[i - 1].k \in {"call", "resume"} /\ c[i].ci = c[i - 1].ci
  /\ c[i].k = "resume" => c[i - 1].k \in {"execute", "call"} /\ c[i].ci = 1 /\ Depth(c, i) < Limit
  /\ c[i].k = "call" => c[i - 1].k \in {"pcall", "error", "hook", "execute"} /\ c[i].ci = Reach(c[i - 1])
  /\ c[i].k = "hook" => c[i - 1].k = "execute" /\ c[i].ci = Reach(c[i - 1]) /\ ~Hooked(c, i - 1, c[i].t)
  /\ c[i].k = "pcall" =>
       /\ c[i].nCcalls = Depth(c, i) /\ Depth(c, i) < Limit /\ c[i].allowhook = ~Hooked(c, i, c[i].t)
       /\ i > 1 => /\ c[i - 1].k \in {"execute", "call"} /\ c[i].ci = Reach(c[i - 1]) + 1
                   /\ c[i].errfunc # 0 => /\ Handler(c, i - 1, c[i].t, c[i].errfunc)
                                          /\ c[i].errfunc <= c[i - 1].ci

\* Two activations are of one thread when no lua_resume lies between them.
Threaded(c, n) ==
  \A i, j \in 1..n : i <= j => (c[i].t = c[j].t <=> \A m \in (i + 1)..j : c[m].k # "resume")

\* The functions of a thread are active from the outer activation to the inner one.
Rising(c, n) == \A i, j \in 1..n : i < j /\ c[i].t = c[j].t => Reach(c[i]) <= c[j].ci

Nested(c, n) == (\A i \in 1..n : Based(c, i)) /\ Threaded(c, n) /\ Rising(c, n)

\* The frames that activation a relies on are in the CallInfo array ci of its thread.
FramesOf(a, ci) ==
  /\ Reach(a) <= Len(ci)
  /\ a.k = "execute" => \A p \in (a.ci + 1)..Reach(a) : ci[p] = "lua"
  /\ a.k = "pcall" /\ a.errfunc # 0 => ci[a.errfunc] = "xpcall"
Framed(c, n, h) == \A i \in 1..n : FramesOf(c[i], h[c[i].t].ci)

\* The state of thread t when activation n is its innermost.
Attached(l, c, n, t) ==
  /\ l.nCcalls = Depth(c, n) /\ l.allowhook = ~Hooked(c, n, t)
  /\ l.errfunc # 0 => Handler(c, n, t, l.errfunc) /\ l.errfunc <= Len(l.ci) /\ l.ci[l.errfunc] = "xpcall"

\* Activation i - 1 is the innermost of a thread that has resumed another.
Resuming(c, i, h) ==
  LET l == h[c[i - 1].t] IN
  /\ l.status = "OK" /\ Last(l.ci) \in {"resume", "wrap"} /\ Len(l.ci) = Reach(c[i - 1]) + 1
  /\ Attached(l, c, i - 1, c[i - 1].t)
Frozen(c, n, h) ==
  \A i \in 2..n : c[i].k = "resume" => Resuming(c, i, h) /\ h[c[i].t].baseCcalls = Depth(c, i)

\* A coroutine that waits in coroutine.yield, called by nothing but Lua functions.
Waits(l) ==
  /\ l.status = "YIELD" /\ l.life = "started" /\ l.top = 0 /\ l.errfunc = 0 /\ l.allowhook = TRUE
  /\ Len(l.ci) >= 3 /\ Last(l.ci) = "yield" /\ \A p \in 2..(Len(l.ci) - 1) : l.ci[p] = "lua"

Created == [NewState EXCEPT !.top = 1, !.life = "created"]

\* A coroutine whose body has ended, but whose results nobody took.
Unserved(l) ==
  l.status = "OK" /\ l.life = "left" /\ l.top = 1 /\ l.errfunc = 0 /\ l.allowhook = TRUE /\ l.ci = <<"base">>

AtRest(l) ==
  \/ l = NewState \/ l = Created \/ Unserved(l)
  \/ \E status \in {"OK"} \cup Errors : l = Ended(status)
  \/ Waits(l)

\* A coroutine has been started if it is on the C stack, and otherwise is at rest.
Lives(c, n, h) ==
  /\ h[Main].status = "OK" /\ h[Main].life = "started" /\ h[Main].baseCcalls = 0
  /\ \A co \in Coroutines :
       IF Runs(c, n, co) THEN h[co].life = "started" /\ h[co].top = 0 ELSE AtRest(h[co])

\* The running thread.
Thread(c) == IF c = <<>> THEN Main ELSE c[Len(c)].t

\* The threads h with the C stack c, but for the counters of the running one, ...
Standing(c, h) ==
  /\ c \in Seq(Acts) /\ h \in [Threads -> LState] /\ \A t \in Threads : RoomIn(h[t])
  /\ Nested(c, Len(c)) /\ Framed(c, Len(c), h) /\ Frozen(c, Len(c), h)
  /\ Lives(c, Len(c), h)

\* ... and with them.
Whole(c, h) == Standing(c, h) /\ Attached(h[Thread(c)], c, Len(c), Thread(c))

\* The running thread, by what comes next.
AtRun ==
  /\ L.status = "OK"
  /\ cstack = <<>> => Len(L.ci) = 1
  /\ cstack # <<>> =>
       /\ Top.k \in {"execute", "call"}
       /\ \/ Top.k = "execute" /\ Len(L.ci) = Reach(Top)
          \/ Len(L.ci) = Reach(Top) + 1 /\ Last(L.ci) # "lua"
AtBack ==
  /\ cstack # <<>> /\ Top.k # "execute"
  /\ \/ L.status = "OK" /\ Len(L.ci) = Top.ci
     \/ Top.k = "resume" /\ Waits(L)
AtCall ==
  /\ L.status = "OK" /\ cstack # <<>> /\ Top.k \in {"pcall", "error", "hook", "execute"}
  /\ Len(L.ci) = Reach(Top)
AtError == L.status = "OK" /\ cstack # <<>>
Expects ==
  \/ todo = Run /\ AtRun
  \/ todo = Back /\ AtBack
  \/ todo \in {Call(f) : f \in {"lua", "yield", "resume"}} /\ AtCall
  \/ todo = Raise /\ AtError
  \/ todo \in {Throw(e) : e \in Errors} /\ AtError

CallsInv ==
  /\ Whole(cstack, th) /\ Expects
  /\ Depth(cstack, Len(cstack)) <= Limit
  /\ todo[1] # "luaD_throw" => Depth(cstack, Len(cstack)) < Limit

-----------------------------------------------------------------------------
(* Activations and the C calls among them.                                 *)

\* The limits of luaconf.h in the form in which the proofs use them.
LEMMA LimitsHold == Limit \in Nat /\ LUAI_MAXCCALLS \in Nat /\ LUAI_MAXCCALLS < Limit /\ LUAI_MAXCALLS \in Nat
                    /\ LUAI_MAXCALLS >= 2 /\ BASIC_CI_SIZE \in 2..LUAI_MAXCALLS /\ Main \notin Coroutines
BY Limits DEF Limit

\* What is known of an activation by its kind.
LEMMA ActFacts ==
  ASSUME NEW a \in Acts
  PROVE  /\ a.k \in {"call", "error", "hook", "resume", "execute", "pcall"}
         /\ a.t \in Threads /\ a.ci \in Nat \ {0}
         /\ Reach(a) \in Nat /\ a.ci <= Reach(a)
         /\ a.k = "execute" => a.nexeccalls \in Nat \ {0} /\ Reach(a) = a.ci + a.nexeccalls
         /\ a.k # "execute" => Reach(a) = a.ci
         /\ a.k = "pcall" => a.nCcalls \in Nat /\ a.errfunc \in Nat /\ a.allowhook \in BOOLEAN
<1>1. CASE a \in Plain
  BY <1>1 DEF Plain, Reach
<1>2. CASE a \in Execute
  BY <1>2 DEF Execute, Reach
<1>3. CASE a \in Guard
  BY <1>3 DEF Guard, Reach
<1> QED BY <1>1, <1>2, <1>3 DEF Acts

\* The number of C calls is a number, ...
LEMMA DepthNat == ASSUME NEW c, NEW n \in Nat PROVE Depth(c, n) \in Nat
<1>1. IsFiniteSet(1..n)
  BY FS_Interval
<1>2. IsFiniteSet({j \in 1..n : c[j].k \in {"call", "resume"}})
  BY <1>1, FS_Subset
<1> QED BY <1>2, FS_CardinalityType DEF Depth

\* ... which is zero for an empty C stack, ...
LEMMA DepthNone == ASSUME NEW c PROVE Depth(c, 0) = 0
<1>1. {j \in 1..0 : c[j].k \in {"call", "resume"}} = {}
  OBVIOUS
<1> QED BY <1>1, FS_EmptySet DEF Depth

\* ... and one more for each activation of luaD_call and lua_resume.
LEMMA DepthStep ==
  ASSUME NEW c, NEW n \in Nat \ {0}
  PROVE  /\ c[n].k \in {"call", "resume"} => Depth(c, n) = Depth(c, n - 1) + 1
         /\ c[n].k \notin {"call", "resume"} => Depth(c, n) = Depth(c, n - 1)
<1> DEFINE A == {j \in 1..(n - 1) : c[j].k \in {"call", "resume"}}
           B == {j \in 1..n : c[j].k \in {"call", "resume"}}
<1>1. IsFiniteSet(A)
  <2>1. IsFiniteSet(1..(n - 1))
    BY FS_Interval
  <2> QED BY <2>1, FS_Subset
<1>2. CASE c[n].k \in {"call", "resume"}
  <2>1. B = A \cup {n} /\ n \notin A
    BY <1>2
  <2>2. Cardinality(A \cup {n}) = Cardinality(A) + 1
    BY <1>1, <2>1, FS_AddElement
  <2> QED BY <1>2, <2>1, <2>2 DEF Depth
<1>3. CASE c[n].k \notin {"call", "resume"}
  <2>1. B = A
    BY <1>3
  <2> QED BY <1>3, <2>1 DEF Depth
<1> QED BY <1>2, <1>3

\* The first m activations of c are those of d.
Agree(c, d, m) == \A i \in 1..m : d[i] = c[i]

\* What is counted and looked for on the C stack depends on the activations alone.
LEMMA DepthSame ==
  ASSUME NEW c, NEW d, NEW m \in Nat, Agree(c, d, m)
  PROVE  /\ Depth(d, m) = Depth(c, m)
         /\ \A t : Hooked(d, m, t) <=> Hooked(c, m, t)
         /\ \A t, e : Handler(d, m, t, e) <=> Handler(c, m, t, e)
<1>1. {j \in 1..m : d[j].k \in {"call", "resume"}} = {j \in 1..m : c[j].k \in {"call", "resume"}}
  BY DEF Agree
<1>2. \A t : Hooked(d, m, t) <=> Hooked(c, m, t)
  BY DEF Agree, Hooked
<1>3. \A t, e : Handler(d, m, t, e) <=> Handler(c, m, t, e)
  BY DEF Agree, Handler
<1> QED BY <1>1, <1>2, <1>3 DEF Depth

\* Two C stacks that agree also agree further down.
LEMMA AgreeLess ==
  ASSUME NEW c, NEW d, NEW m \in Nat, Agree(c, d, m), NEW i \in 0..m
  PROVE  Agree(c, d, i)
BY DEF Agree

\* Whether an activation fits depends on those below it alone.
LEMMA BasedSame ==
  ASSUME NEW c, NEW d, NEW m \in Nat, Agree(c, d, m), NEW i \in 1..m, Based(c, i)
  PROVE  Based(d, i)
<1>1. d[i] = c[i] /\ (i # 1 => d[i - 1] = c[i - 1])
  BY DEF Agree
<1>2. Agree(c, d, i) /\ Agree(c, d, i - 1) /\ i \in Nat /\ i - 1 \in Nat
  BY AgreeLess
<1>3. /\ Depth(d, i) = Depth(c, i) /\ \A t : Hooked(d, i, t) <=> Hooked(c, i, t)
      /\ \A t : Hooked(d, i - 1, t) <=> Hooked(c, i - 1, t)
      /\ \A t, e : Handler(d, i - 1, t, e) <=> Handler(c, i - 1, t, e)
  BY <1>2, DepthSame
<1> HIDE DEF Depth, Hooked, Handler
<1>4. CASE i = 1
  BY <1>1, <1>3, <1>4 DEF Based
<1>5. CASE i # 1
  BY <1>1, <1>3, <1>5 DEF Based
<1> QED BY <1>4, <1>5

\* Cutting the C stack leaves what remains nested.
LEMMA NestedBelow ==
  ASSUME NEW c, NEW d, NEW n \in Nat, NEW m \in Nat, m <= n, Agree(c, d, m), Nested(c, n)
  PROVE  Nested(d, m)
<1>1. ASSUME NEW i \in 1..m PROVE Based(d, i)
  <2>1. Based(c, i)
    BY DEF Nested
  <2> QED BY <2>1, BasedSame
<1>2. Threaded(d, m)
  <2> SUFFICES ASSUME NEW i \in 1..m, NEW j \in 1..m, i <= j
               PROVE  d[i].t = d[j].t <=> \A k \in (i + 1)..j : d[k].k # "resume"
    BY DEF Threaded
  <2>1. d[i] = c[i] /\ d[j] = c[j] /\ \A k \in (i + 1)..j : d[k] = c[k]
    BY DEF Agree
  <2>2. c[i].t = c[j].t <=> \A k \in (i + 1)..j : c[k].k # "resume"
    <3>1. i \in 1..n /\ j \in 1..n
      OBVIOUS
    <3> QED BY <3>1 DEF Nested, Threaded
  <2> QED BY <2>1, <2>2
<1>3. Rising(d, m)
  BY DEF Agree, Nested, Rising
<1> QED BY <1>1, <1>2, <1>3 DEF Nested

\* Cutting the C stack leaves the threads that remain outer ones as they were.
LEMMA FrozenBelow ==
  ASSUME NEW c, NEW d, NEW n \in Nat, NEW m \in Nat, m <= n, Agree(c, d, m),
         NEW h, NEW g, Frozen(c, n, h),
         \A i \in 2..m : c[i].k = "resume" =>
           g[c[i - 1].t] = h[c[i - 1].t] /\ g[c[i].t].baseCcalls = h[c[i].t].baseCcalls
  PROVE  Frozen(d, m, g)
<1> SUFFICES ASSUME NEW i \in 2..m, d[i].k = "resume"
             PROVE  Resuming(d, i, g) /\ g[d[i].t].baseCcalls = Depth(d, i)
  BY DEF Frozen
<1>1. d[i] = c[i] /\ d[i - 1] = c[i - 1]
  BY DEF Agree
<1>2. Agree(c, d, i) /\ Agree(c, d, i - 1) /\ i \in Nat /\ i - 1 \in Nat
  BY AgreeLess
<1>3. /\ Depth(d, i) = Depth(c, i) /\ Depth(d, i - 1) = Depth(c, i - 1)
      /\ \A t : Hooked(d, i - 1, t) <=> Hooked(c, i - 1, t)
      /\ \A t, e : Handler(d, i - 1, t, e) <=> Handler(c, i - 1, t, e)
  BY <1>2, DepthSame
<1>4. Resuming(c, i, h) /\ h[c[i].t].baseCcalls = Depth(c, i)
  BY <1>1 DEF Frozen
<1>5. g[d[i - 1].t] = h[c[i - 1].t] /\ g[d[i].t].baseCcalls = h[c[i].t].baseCcalls
  BY <1>1
<1> HIDE DEF Depth, Hooked, Handler
<1> QED BY <1>1, <1>3, <1>4, <1>5 DEF Resuming, Attached

\* ci2 has the first r frames of ci1.
Keeps(ci1, ci2, r) == r <= Len(ci2) /\ \A p \in 1..r : ci2[p] = ci1[p]

\* An activation still has its frames when the array of its thread keeps that many.
LEMMA FramesKept ==
  ASSUME NEW c, NEW i \in Nat \ {0}, c[i] \in Acts, i > 1 => c[i - 1] \in Acts, Based(c, i),
         NEW ci1, NEW ci2, FramesOf(c[i], ci1), NEW r \in Nat, Reach(c[i]) <= r, Keeps(ci1, ci2, r),
         Len(ci2) \in Nat
  PROVE  FramesOf(c[i], ci2)
<1> DEFINE a == c[i]
<1>1. /\ a.ci \in Nat \ {0} /\ Reach(a) \in Nat /\ a.ci <= Reach(a)
      /\ a.k = "pcall" => a.errfunc \in Nat
  BY ActFacts
<1>2. Reach(a) <= Len(ci2)
  BY <1>1 DEF Keeps
<1>3. ASSUME a.k = "execute", NEW p \in (a.ci + 1)..Reach(a) PROVE ci2[p] = "lua"
  <2>1. p \in 1..r
    BY <1>1
  <2> QED BY <1>3, <2>1 DEF Keeps, FramesOf
<1>4. ASSUME a.k = "pcall", a.errfunc # 0 PROVE ci2[a.errfunc] = "xpcall"
  <2>1. i # 1 /\ a.errfunc <= c[i - 1].ci /\ a.ci = Reach(c[i - 1]) + 1
    BY <1>4 DEF Based
  <2>2. c[i - 1].ci \in Nat /\ Reach(c[i - 1]) \in Nat /\ c[i - 1].ci <= Reach(c[i - 1])
    BY <2>1, ActFacts
  <2>3. a.errfunc \in 1..r
    BY <1>1, <1>4, <2>1, <2>2
  <2> QED BY <1>4, <2>3 DEF Keeps, FramesOf
<1> QED BY <1>2, <1>3, <1>4 DEF FramesOf

-----------------------------------------------------------------------------
(* How the C stack and the threads change together.                        *)

\* The types of the C stack and of the threads.
LEMMA StandingFacts ==
  ASSUME NEW c, NEW h, Standing(c, h)
  PROVE  /\ c \in Seq(Acts) /\ Len(c) \in Nat /\ \A i \in 1..Len(c) : c[i] \in Acts
         /\ c = <<>> <=> Len(c) = 0
         /\ Thread(c) \in Threads
         /\ \A t \in Threads : h[t] \in LState /\ Len(h[t].ci) \in Nat
<1>1. c \in Seq(Acts) /\ h \in [Threads -> LState]
  BY DEF Standing
<1>2. Len(c) \in Nat /\ \A i \in 1..Len(c) : c[i] \in Acts
  BY <1>1
<1>3. c = <<>> <=> Len(c) = 0
  BY <1>1, EmptySeq
<1>4. Thread(c) \in Threads
  <2>1. CASE c = <<>>
    BY <2>1 DEF Thread, Threads
  <2>2. CASE c # <<>>
    <3>1. c[Len(c)] \in Acts
      BY <1>2, <1>3, <2>2
    <3> QED BY <2>2, <3>1, ActFacts DEF Thread
  <2> QED BY <2>1, <2>2
<1>5. \A t \in Threads : h[t] \in LState /\ Len(h[t].ci) \in Nat
  BY <1>1 DEF LState
<1> QED BY <1>1, <1>2, <1>3, <1>4, <1>5

\* Between two activations of a thread all are of that thread.
LEMMA SameThread ==
  ASSUME NEW c, NEW n \in Nat, Nested(c, n), NEW m \in 1..n, c[m].t = c[n].t
  PROVE  \A j \in m..n : c[j].t = c[n].t
<1> SUFFICES ASSUME NEW j \in m..n PROVE c[j].t = c[n].t
  OBVIOUS
<1>1. \A k \in (m + 1)..n : c[k].k # "resume"
  BY DEF Nested, Threaded
<1>2. \A k \in (m + 1)..j : c[k].k # "resume"
  BY <1>1
<1>3. j \in 1..n /\ m <= j
  OBVIOUS
<1> QED BY <1>2, <1>3 DEF Nested, Threaded

\* A thread that has resumed another is not the running one.
LEMMA ResumerWaits ==
  ASSUME NEW c, NEW n \in Nat, Nested(c, n), NEW i \in 2..n, c[i].k = "resume"
  PROVE  c[i - 1].t # c[n].t /\ c[i - 1].t # c[i].t
<1>1. i - 1 \in 1..n /\ n \in 1..n /\ i \in 1..n /\ i \in ((i - 1) + 1)..n /\ i \in ((i - 1) + 1)..i
  OBVIOUS
<1> QED BY <1>1 DEF Nested, Threaded

\* The threads that run are those that ran before the calls of the running one.
LEMMA RunsBelow ==
  ASSUME NEW c, NEW h, Standing(c, h), NEW d, NEW m \in Nat, m <= Len(c), Agree(c, d, m),
         (IF m = 0 THEN Main ELSE d[m].t) = Thread(c)
  PROVE  \A co \in Coroutines : Runs(d, m, co) <=> Runs(c, Len(c), co)
<1> SUFFICES ASSUME NEW co \in Coroutines PROVE Runs(d, m, co) <=> Runs(c, Len(c), co)
  OBVIOUS
<1> DEFINE n == Len(c)
<1>1. n \in Nat /\ Nested(c, n) /\ (c = <<>> <=> n = 0)
  BY StandingFacts DEF Standing
<1>2. ASSUME Runs(d, m, co) PROVE Runs(c, n, co)
  BY <1>1, <1>2 DEF Runs, Agree
<1>3. ASSUME NEW j \in 1..n, c[j].t = co PROVE Runs(d, m, co)
  <2>1. Thread(c) = c[n].t /\ n >= 1
    BY <1>1 DEF Thread
  <2>2. CASE m = 0
    <3>1. c[1].t = Main /\ c[n].t = Main /\ 1 \in 1..n
      BY <1>1, <2>1, <2>2 DEF Nested, Based
    <3>2. c[j].t = Main
      BY <1>1, <3>1, SameThread
    <3> QED BY <1>3, <3>2, LimitsHold
  <2>3. CASE m # 0
    <3>1. m \in 1..n /\ c[m].t = c[n].t
      BY <1>1, <2>1, <2>3 DEF Agree
    <3>2. CASE j <= m
      BY <1>3, <3>2 DEF Runs, Agree
    <3>3. CASE j > m
      <4>1. j \in m..n
        BY <1>1, <3>3
      <4>2. c[j].t = c[n].t
        BY <1>1, <3>1, <4>1, SameThread
      <4> QED BY <1>3, <3>1, <4>2 DEF Runs, Agree
    <3> QED BY <3>2, <3>3, <1>1
  <2> QED BY <2>2, <2>3
<1> QED BY <1>2, <1>3 DEF Runs

\* What no call and no return changes in a thread.
Steady(l1, l2) == l2.baseCcalls = l1.baseCcalls /\ l2.life = l1.life /\ l2.top = l1.top

\* The running thread x goes back to activation Len(d), or just changes its state.
LEMMA CutStanding ==
  ASSUME NEW c, NEW h, Standing(c, h),
         NEW d \in Seq(Acts), Len(d) <= Len(c), Agree(c, d, Len(d)), Thread(d) = Thread(c),
         NEW g \in [Threads -> LState], \A t \in Threads \ {Thread(c)} : g[t] = h[t],
         RoomIn(g[Thread(c)]), Steady(h[Thread(c)], g[Thread(c)]), Thread(c) = Main => g[Main].status = "OK",
         d # <<>> => Keeps(h[Thread(c)].ci, g[Thread(c)].ci, Reach(d[Len(d)]))
  PROVE  Standing(d, g)
<1> DEFINE n == Len(c)
           m == Len(d)
           x == Thread(c)
<1>1. /\ n \in Nat /\ m \in Nat /\ m <= n /\ x \in Threads /\ (d = <<>> <=> m = 0) /\ (c = <<>> <=> n = 0)
      /\ \A i \in 1..n : c[i] \in Acts /\ c[i].t \in Threads
      /\ \A t \in Threads : Len(h[t].ci) \in Nat /\ Len(g[t].ci) \in Nat
  <2>1. \A t \in Threads : Len(g[t].ci) \in Nat
    BY DEF LState
  <2>2. d = <<>> <=> m = 0
    BY EmptySeq
  <2> QED BY <2>1, <2>2, StandingFacts, ActFacts
<1>2. /\ Nested(c, n) /\ Framed(c, n, h) /\ Frozen(c, n, h) /\ Lives(c, n, h) /\ \A t \in Threads : RoomIn(h[t])
  BY DEF Standing
<1>3. Agree(c, d, m) /\ \A i \in 1..m : d[i] = c[i]
  BY DEF Agree
<1>4. m # 0 => x = d[m].t /\ x = c[m].t /\ x = c[n].t
  BY <1>1, <1>3 DEF Thread
<1>5. (IF m = 0 THEN Main ELSE d[m].t) = x
  BY <1>1 DEF Thread
<1> HIDE DEF n, m, x
<1>6. Nested(d, m)
  BY <1>1, <1>2, <1>3, NestedBelow
<1>7. Frozen(d, m, g)
  <2>1. ASSUME NEW i \in 2..m, c[i].k = "resume"
        PROVE  g[c[i - 1].t] = h[c[i - 1].t] /\ g[c[i].t].baseCcalls = h[c[i].t].baseCcalls
    <3>1. i \in 2..n /\ i \in 1..n /\ i - 1 \in 1..n
      BY <1>1
    <3>2. c[i - 1].t # c[n].t
      BY <1>1, <1>2, <2>1, <3>1, ResumerWaits
    <3>3. c[i - 1].t \in Threads \ {x} /\ c[i].t \in Threads
      BY <1>1, <1>4, <3>1, <3>2
    <3>4. g[c[i - 1].t] = h[c[i - 1].t]
      BY <3>3 DEF x
    <3>5. g[c[i].t].baseCcalls = h[c[i].t].baseCcalls
      BY <3>3 DEF x, Steady
    <3> QED BY <3>4, <3>5
  <2> QED BY <1>1, <1>2, <1>3, <2>1, FrozenBelow
<1>8. ASSUME NEW i \in 1..m PROVE FramesOf(d[i], g[d[i].t].ci)
  <2>1. i \in 1..n /\ d[i] = c[i] /\ c[i] \in Acts /\ c[i].t \in Threads
    BY <1>1, <1>3
  <2>2. FramesOf(c[i], h[c[i].t].ci)
    BY <1>2, <2>1 DEF Framed
  <2>3. CASE c[i].t # x
    <3>1. g[c[i].t] = h[c[i].t]
      BY <2>1, <2>3 DEF x
    <3> QED BY <2>1, <2>2, <3>1
  <2>4. CASE c[i].t = x
    <3>1. m # 0 /\ m \in 1..n /\ c[m] \in Acts /\ d[m] = c[m]
      BY <1>1, <1>3
    <3>2. Reach(c[m]) \in Nat /\ c[m].ci \in Nat /\ c[m].ci <= Reach(c[m]) /\ Reach(c[i]) \in Nat
      BY <2>1, <3>1, ActFacts
    <3>3. Reach(c[i]) <= Reach(c[m])
      <4>1. CASE i = m
        BY <3>2, <4>1
      <4>2. CASE i # m
        <5>1. i < m /\ c[i].t = c[m].t
          BY <1>1, <1>4, <2>4, <3>1, <4>2
        <5>2. Reach(c[i]) <= c[m].ci
          BY <1>2, <2>1, <3>1, <5>1 DEF Nested, Rising
        <5> QED BY <3>2, <5>2
      <4> QED BY <4>1, <4>2
    <3>4. Keeps(h[x].ci, g[x].ci, Reach(c[m]))
      BY <1>1, <3>1 DEF x, m
    <3>5. i \in Nat \ {0} /\ (i > 1 => c[i - 1] \in Acts) /\ Based(c, i)
      BY <1>1, <1>2, <2>1 DEF Nested
    <3>6. FramesOf(c[i], g[x].ci)
      BY <1>1, <2>1, <2>2, <2>4, <3>2, <3>3, <3>4, <3>5, FramesKept
    <3> QED BY <2>1, <2>4, <3>6
  <2> QED BY <2>3, <2>4
<1>9. Framed(d, m, g)
  BY <1>8 DEF Framed
<1>10. Lives(d, m, g)
  <2>1. \A co \in Coroutines : Runs(d, m, co) <=> Runs(c, n, co)
    BY <1>1, <1>3, <1>5, RunsBelow DEF n, m, x
  <2>2. g[Main].status = "OK" /\ g[Main].life = "started" /\ g[Main].baseCcalls = 0
    <3>1. CASE x = Main
      BY <1>2, <3>1 DEF x, Steady, Lives
    <3>2. CASE x # Main
      <4>1. g[Main] = h[Main]
        BY <3>2 DEF x, Threads
      <4> QED BY <1>2, <4>1 DEF Lives
    <3> QED BY <3>1, <3>2
  <2>3. ASSUME NEW co \in Coroutines
        PROVE  IF Runs(d, m, co) THEN g[co].life = "started" /\ g[co].top = 0 ELSE AtRest(g[co])
    <3>1. IF Runs(c, n, co) THEN h[co].life = "started" /\ h[co].top = 0 ELSE AtRest(h[co])
      BY <1>2 DEF Lives
    <3>2. CASE co # x
      <4>1. g[co] = h[co]
        BY <3>2 DEF x, Threads
      <4> QED BY <2>1, <3>1, <4>1
    <3>3. CASE co = x
      <4>1. Runs(c, n, co)
        <5>1. c # <<>> /\ n \in 1..n /\ x = c[n].t
          BY <1>1, <3>3, LimitsHold DEF x, Thread, n
        <5> QED BY <3>3, <5>1 DEF Runs
      <4>2. g[co].life = h[co].life /\ g[co].top = h[co].top
        BY <3>3 DEF x, Steady
      <4> QED BY <2>1, <3>1, <4>1, <4>2
    <3> QED BY <3>2, <3>3
  <2> QED BY <2>2, <2>3 DEF Lives
<1>11. \A t \in Threads : RoomIn(g[t])
  <2> SUFFICES ASSUME NEW t \in Threads PROVE RoomIn(g[t])
    OBVIOUS
  <2>1. CASE t = x
    BY <2>1 DEF x
  <2>2. CASE t # x
    BY <1>2, <2>2 DEF x
  <2> QED BY <2>1, <2>2
<1> QED BY <1>6, <1>7, <1>9, <1>10, <1>11 DEF Standing, m

\* The running thread goes back to activation Len(d), and its counters match again.
LEMMA CutWhole ==
  ASSUME NEW c, NEW h, Whole(c, h),
         NEW d \in Seq(Acts), Len(d) <= Len(c), Agree(c, d, Len(d)), Thread(d) = Thread(c),
         NEW g \in [Threads -> LState], \A t \in Threads \ {Thread(c)} : g[t] = h[t],
         RoomIn(g[Thread(c)]), Steady(h[Thread(c)], g[Thread(c)]), Thread(c) = Main => g[Main].status = "OK",
         d # <<>> => Keeps(h[Thread(c)].ci, g[Thread(c)].ci, Reach(d[Len(d)])),
         Attached(g[Thread(c)], d, Len(d), Thread(c))
  PROVE  Whole(d, g)
<1>1. Standing(c, h)
  BY DEF Whole
<1>2. Standing(d, g)
  BY <1>1, CutStanding
<1> QED BY <1>2 DEF Whole

\* A call in thread x adds an activation.
LEMMA PushedWhole ==
  ASSUME NEW c, NEW h, Whole(c, h),
         NEW d \in Seq(Acts), Len(d) = Len(c) + 1, Agree(c, d, Len(c)), Thread(d) = Thread(c),
         d[Len(d)].k # "resume", Based(d, Len(d)), c # <<>> => Reach(c[Len(c)]) <= d[Len(d)].ci,
         NEW g \in [Threads -> LState], \A t \in Threads \ {Thread(c)} : g[t] = h[t],
         RoomIn(g[Thread(c)]), Steady(h[Thread(c)], g[Thread(c)]), Thread(c) = Main => g[Main].status = "OK",
         c # <<>> => Keeps(h[Thread(c)].ci, g[Thread(c)].ci, Reach(c[Len(c)])),
         FramesOf(d[Len(d)], g[Thread(c)].ci),
         Attached(g[Thread(c)], d, Len(d), Thread(c))
  PROVE  Whole(d, g)
<1> DEFINE n == Len(c)
           x == Thread(c)
<1>1. /\ n \in Nat /\ x \in Threads /\ c \in Seq(Acts) /\ (c = <<>> <=> n = 0) /\ Standing(c, h)
      /\ \A i \in 1..n : c[i] \in Acts
  BY StandingFacts DEF Whole
<1>2. Len(d) = n + 1 /\ \A i \in 1..n : d[i] = c[i]
  BY DEF Agree
<1>3. d # <<>> /\ x = d[n + 1].t
  <2>1. d # <<>>
    BY ONLY <1>1, <1>2
  <2>2. x = d[Len(d)].t
    BY <2>1 DEF Thread
  <2> QED BY ONLY <1>2, <2>1, <2>2
<1>4. Standing(c, g)
  <2>1. Agree(c, c, n) /\ n <= n
    BY <1>1 DEF Agree
  <2> QED BY <1>1, <2>1, CutStanding
<1>5. /\ Nested(c, n) /\ Framed(c, n, g) /\ Frozen(c, n, g) /\ Lives(c, n, g) /\ \A t \in Threads : RoomIn(g[t])
      /\ g \in [Threads -> LState]
  BY <1>4 DEF Standing
<1>6. c # <<>> => x = c[n].t
  BY DEF Thread
<1>7. /\ d[n + 1].k # "resume" /\ Based(d, n + 1) /\ (n # 0 => Reach(c[n]) <= d[n + 1].ci) /\ d[n + 1] \in Acts
      /\ FramesOf(d[n + 1], g[x].ci)
  BY <1>1, <1>2
<1> HIDE DEF n, x
<1>8. ASSUME NEW i \in 1..(n + 1) PROVE Based(d, i)
  <2>1. CASE i = n + 1
    BY <1>7, <2>1
  <2>2. CASE i # n + 1
    <3>1. i \in 1..n /\ Based(c, i)
      BY <1>1, <1>5, <2>2 DEF Nested
    <3> QED BY <1>1, <3>1, BasedSame DEF n
  <2> QED BY <2>1, <2>2
<1>9. Threaded(d, n + 1)
  <2> SUFFICES ASSUME NEW i \in 1..(n + 1), NEW j \in 1..(n + 1), i <= j
               PROVE  d[i].t = d[j].t <=> \A k \in (i + 1)..j : d[k].k # "resume"
    BY DEF Threaded
  <2>1. CASE j # n + 1
    <3>1. i \in 1..n /\ j \in 1..n /\ (i + 1)..j \subseteq 1..n
      BY <1>1, <2>1
    <3>2. c[i].t = c[j].t <=> \A k \in (i + 1)..j : c[k].k # "resume"
      BY <1>5, <3>1 DEF Nested, Threaded
    <3> QED BY <1>2, <3>1, <3>2
  <2>2. CASE j = n + 1 /\ i = n + 1
    BY <1>1, <2>2
  <2>3. CASE j = n + 1 /\ i # n + 1
    <3>1. i \in 1..n /\ n \in 1..n /\ i <= n /\ n # 0 /\ c # <<>>
      BY <1>1, <2>3
    <3>2. c[i].t = c[n].t <=> \A k \in (i + 1)..n : c[k].k # "resume"
      BY <1>5, <3>1 DEF Nested, Threaded
    <3>3. d[i].t = c[i].t /\ d[j].t = c[n].t
      BY <1>2, <1>3, <1>6, <2>3, <3>1
    <3>4. (\A k \in (i + 1)..j : d[k].k # "resume") <=> \A k \in (i + 1)..n : c[k].k # "resume"
      <4>1. \A k \in (i + 1)..j : k = n + 1 \/ k \in (i + 1)..n
        BY <2>3, <3>1
      <4>2. \A k \in (i + 1)..n : k \in (i + 1)..j /\ k \in 1..n
        BY <2>3, <3>1
      <4> QED BY <1>2, <1>7, <4>1, <4>2
    <3> QED BY <3>2, <3>3, <3>4
  <2> QED BY <2>1, <2>2, <2>3
<1>10. Rising(d, n + 1)
  <2> SUFFICES ASSUME NEW i \in 1..(n + 1), NEW j \in 1..(n + 1), i < j, d[i].t = d[j].t
               PROVE  Reach(d[i]) <= d[j].ci
    BY DEF Rising
  <2>1. i \in 1..n /\ d[i] = c[i]
    BY <1>1, <1>2
  <2>2. CASE j # n + 1
    <3>1. j \in 1..n /\ d[j] = c[j]
      BY <1>1, <1>2, <2>2
    <3> QED BY <1>5, <2>1, <3>1 DEF Nested, Rising
  <2>3. CASE j = n + 1
    <3>1. n # 0 /\ n \in 1..n /\ c # <<>>
      BY <1>1, <2>1
    <3>2. c[i].t = c[n].t
      BY <1>3, <1>6, <2>1, <2>3, <3>1
    <3>3. /\ c[i] \in Acts /\ c[n] \in Acts /\ Reach(c[i]) \in Nat /\ Reach(c[n]) \in Nat
          /\ c[n].ci \in Nat /\ c[n].ci <= Reach(c[n]) /\ d[j].ci \in Nat
      BY <1>1, <1>7, <2>1, <2>3, <3>1, ActFacts
    <3>4. Reach(c[i]) <= Reach(c[n])
      <4>1. CASE i = n
        BY <3>3, <4>1
      <4>2. CASE i # n
        <5>1. i < n
          BY <1>1, <2>1, <4>2
        <5>2. Reach(c[i]) <= c[n].ci
          BY <1>5, <2>1, <3>1, <3>2, <5>1 DEF Nested, Rising
        <5> QED BY <3>3, <5>2
      <4> QED BY <4>1, <4>2
    <3>5. Reach(c[n]) <= d[j].ci
      BY <1>7, <2>3, <3>1
    <3> QED BY <2>1, <3>3, <3>4, <3>5
  <2> QED BY <2>2, <2>3
<1>11. Framed(d, n + 1, g)
  <2> SUFFICES ASSUME NEW i \in 1..(n + 1) PROVE FramesOf(d[i], g[d[i].t].ci)
    BY DEF Framed
  <2>1. CASE i = n + 1
    BY <1>3, <1>7, <2>1
  <2>2. CASE i # n + 1
    <3>1. i \in 1..n /\ d[i] = c[i]
      BY <1>1, <1>2, <2>2
    <3> QED BY <1>5, <3>1 DEF Framed
  <2> QED BY <2>1, <2>2
<1>12. Frozen(d, n + 1, g)
  <2>1. Frozen(d, n, g)
    BY <1>1, <1>5, FrozenBelow DEF n
  <2>2. \A i \in 2..(n + 1) : d[i].k = "resume" => i \in 2..n
    BY <1>1, <1>7
  <2> QED BY <2>1, <2>2 DEF Frozen
<1>13. Lives(d, n + 1, g)
  <2>1. ASSUME NEW co \in Coroutines PROVE Runs(d, n + 1, co) <=> Runs(c, n, co)
    <3>1. ASSUME NEW j \in 1..(n + 1), d[j].t = co PROVE Runs(c, n, co)
      <4>1. CASE j # n + 1
        <5>1. j \in 1..n /\ c[j].t = co
          BY <1>1, <1>2, <3>1, <4>1
        <5> QED BY <5>1 DEF Runs
      <4>2. CASE j = n + 1
        <5>1. co = x
          BY <1>3, <3>1, <4>2
        <5>2. c # <<>>
          BY <5>1, LimitsHold DEF Thread, x
        <5>3. n \in 1..n /\ c[n].t = co
          BY <1>1, <1>6, <5>1, <5>2
        <5> QED BY <5>3 DEF Runs
      <4> QED BY <4>1, <4>2
    <3>2. ASSUME NEW j \in 1..n, c[j].t = co PROVE Runs(d, n + 1, co)
      <4>1. j \in 1..(n + 1) /\ d[j].t = co
        BY <1>1, <1>2, <3>2
      <4> QED BY <4>1 DEF Runs
    <3> QED BY <3>1, <3>2 DEF Runs
  <2> QED BY <1>5, <2>1 DEF Lives
<1> QED BY <1>2, <1>5, <1>8, <1>9, <1>10, <1>11, <1>12, <1>13 DEF Whole, Standing, Nested, n

\* A coroutine comes to rest: it is not on the C stack any more, or was not.
LEMMA RestedWhole ==
  ASSUME NEW c, NEW h, Standing(c, h),
         NEW d \in Seq(Acts), Len(d) <= Len(c), Agree(c, d, Len(d)),
         NEW co \in Coroutines, ~Runs(d, Len(d), co),
         \A o \in Coroutines \ {co} : Runs(d, Len(d), o) <=> Runs(c, Len(c), o),
         NEW g \in [Threads -> LState], \A t \in Threads \ {co} : g[t] = h[t],
         RoomIn(g[co]), AtRest(g[co]),
         Attached(h[Thread(d)], d, Len(d), Thread(d))
  PROVE  Whole(d, g)
<1> DEFINE n == Len(c)
           m == Len(d)
<1>1. /\ n \in Nat /\ m \in Nat /\ m <= n /\ (d = <<>> <=> m = 0)
      /\ \A i \in 1..n : c[i] \in Acts /\ c[i].t \in Threads
  <2>1. d = <<>> <=> m = 0
    BY EmptySeq
  <2> QED BY <2>1, StandingFacts, ActFacts
<1>2. /\ Nested(c, n) /\ Framed(c, n, h) /\ Frozen(c, n, h) /\ Lives(c, n, h) /\ \A t \in Threads : RoomIn(h[t])
  BY DEF Standing
<1>3. Agree(c, d, m) /\ \A i \in 1..m : d[i] = c[i] /\ i \in 1..n
  BY <1>1 DEF Agree
<1>4. \A i \in 1..m : c[i].t \in Threads \ {co}
  BY <1>1, <1>3 DEF Runs
<1>5. co # Main /\ Main \in Threads
  BY LimitsHold DEF Threads
<1> HIDE DEF n, m
<1>6. Nested(d, m)
  BY <1>1, <1>2, <1>3, NestedBelow
<1>7. Frozen(d, m, g)
  <2>1. ASSUME NEW i \in 2..m, c[i].k = "resume"
        PROVE  g[c[i - 1].t] = h[c[i - 1].t] /\ g[c[i].t].baseCcalls = h[c[i].t].baseCcalls
    <3>1. i \in 1..m /\ i - 1 \in 1..m
      BY <1>1
    <3> QED BY <1>4, <3>1
  <2> QED BY <1>1, <1>2, <1>3, <2>1, FrozenBelow
<1>8. Framed(d, m, g)
  BY <1>2, <1>3, <1>4 DEF Framed
<1>9. Lives(d, m, g)
  <2>1. g[Main] = h[Main]
    BY <1>5
  <2>2. ASSUME NEW o \in Coroutines
        PROVE  IF Runs(d, m, o) THEN g[o].life = "started" /\ g[o].top = 0 ELSE AtRest(g[o])
    <3>1. CASE o = co
      BY <3>1 DEF m
    <3>2. CASE o # co
      <4>1. g[o] = h[o]
        BY <3>2 DEF Threads
      <4>2. Runs(d, m, o) <=> Runs(c, n, o)
        BY <3>2 DEF m, n
      <4> QED BY <1>2, <4>1, <4>2 DEF Lives
    <3> QED BY <3>1, <3>2
  <2> QED BY <1>2, <2>1, <2>2 DEF Lives
<1>10. \A t \in Threads : RoomIn(g[t])
  BY <1>2
<1>11. Attached(g[Thread(d)], d, m, Thread(d))
  <2>1. Thread(d) \in Threads \ {co}
    <3>1. CASE d = <<>>
      BY <1>5, <3>1 DEF Thread
    <3>2. CASE d # <<>>
      <4>1. m \in 1..m
        BY <1>1, <3>2
      <4> QED BY <1>3, <1>4, <3>2, <4>1 DEF Thread, m
    <3> QED BY <3>1, <3>2
  <2> QED BY <2>1 DEF m
<1> QED BY <1>6, <1>7, <1>8, <1>9, <1>10, <1>11 DEF Whole, Standing, m

\* lua_resume gives the C stack to coroutine co.
LEMMA ResumedWhole ==
  ASSUME NEW c, NEW h, Whole(c, h), c # <<>>,
         NEW co \in Coroutines, ~Runs(c, Len(c), co),
         NEW d \in Seq(Acts), Len(d) = Len(c) + 1, Agree(c, d, Len(c)),
         d[Len(d)].k = "resume", d[Len(d)].t = co, Based(d, Len(d)),
         h[Thread(c)].status = "OK", Last(h[Thread(c)].ci) \in {"resume", "wrap"},
         Len(h[Thread(c)].ci) = Reach(c[Len(c)]) + 1,
         NEW g \in [Threads -> LState], \A t \in Threads \ {co} : g[t] = h[t],
         RoomIn(g[co]), g[co].life = "started", g[co].top = 0, g[co].baseCcalls = Depth(d, Len(d)),
         FramesOf(d[Len(d)], g[co].ci), Attached(g[co], d, Len(d), co)
  PROVE  Whole(d, g)
<1> DEFINE n == Len(c)
           x == Thread(c)
<1>1. /\ n \in Nat /\ n # 0 /\ x \in Threads /\ c \in Seq(Acts) /\ Standing(c, h)
      /\ \A i \in 1..n : c[i] \in Acts /\ c[i].t \in Threads
  BY StandingFacts, ActFacts DEF Whole
<1>2. Len(d) = n + 1 /\ \A i \in 1..n : d[i] = c[i]
  BY DEF Agree
<1>3. /\ Nested(c, n) /\ Framed(c, n, h) /\ Frozen(c, n, h) /\ Lives(c, n, h) /\ \A t \in Threads : RoomIn(h[t])
      /\ Attached(h[x], c, n, x) /\ x = c[n].t
  BY DEF Standing, Whole, Thread
<1>4. \A i \in 1..n : c[i].t \in Threads \ {co} /\ g[c[i].t] = h[c[i].t]
  BY <1>1 DEF Runs
<1>5. /\ d[n + 1].k = "resume" /\ d[n + 1].t = co /\ Based(d, n + 1) /\ d[n + 1] \in Acts
      /\ FramesOf(d[n + 1], g[co].ci) /\ g[co].baseCcalls = Depth(d, n + 1)
      /\ Attached(g[co], d, n + 1, co)
  BY <1>1, <1>2
<1>6. /\ h[x].status = "OK" /\ Last(h[x].ci) \in {"resume", "wrap"} /\ Len(h[x].ci) = Reach(c[n]) + 1
  OBVIOUS
<1>7. Thread(d) = co
  <2>1. d # <<>>
    BY <1>1, <1>2
  <2> QED BY <1>2, <1>5, <2>1 DEF Thread
<1> HIDE DEF n, x
<1>8. ASSUME NEW i \in 1..(n + 1) PROVE Based(d, i)
  <2>1. CASE i = n + 1
    BY <1>5, <2>1
  <2>2. CASE i # n + 1
    <3>1. i \in 1..n /\ Based(c, i)
      BY <1>1, <1>3, <2>2 DEF Nested
    <3> QED BY <1>1, <3>1, BasedSame DEF n
  <2> QED BY <2>1, <2>2
<1>9. Threaded(d, n + 1)
  <2> SUFFICES ASSUME NEW i \in 1..(n + 1), NEW j \in 1..(n + 1), i <= j
               PROVE  d[i].t = d[j].t <=> \A k \in (i + 1)..j : d[k].k # "resume"
    BY DEF Threaded
  <2>1. CASE j # n + 1
    <3>1. i \in 1..n /\ j \in 1..n /\ (i + 1)..j \subseteq 1..n
      BY <1>1, <2>1
    <3>2. c[i].t = c[j].t <=> \A k \in (i + 1)..j : c[k].k # "resume"
      BY <1>3, <3>1 DEF Nested, Threaded
    <3> QED BY <1>2, <3>1, <3>2
  <2>2. CASE j = n + 1 /\ i = n + 1
    BY <1>1, <2>2
  <2>3. CASE j = n + 1 /\ i # n + 1
    <3>1. i \in 1..n /\ j \in (i + 1)..j
      BY <1>1, <2>3
    <3>2. d[i].t # d[j].t
      BY <1>2, <1>4, <1>5, <2>3, <3>1
    <3> QED BY <1>5, <2>3, <3>1, <3>2
  <2> QED BY <2>1, <2>2, <2>3
<1>10. Rising(d, n + 1)
  <2> SUFFICES ASSUME NEW i \in 1..(n + 1), NEW j \in 1..(n + 1), i < j, d[i].t = d[j].t
               PROVE  Reach(d[i]) <= d[j].ci
    BY DEF Rising
  <2>1. i \in 1..n /\ d[i] = c[i]
    BY <1>1, <1>2
  <2>2. j # n + 1
    BY <1>4, <1>5, <2>1
  <2>3. j \in 1..n /\ d[j] = c[j]
    BY <1>1, <1>2, <2>2
  <2> QED BY <1>3, <2>1, <2>3 DEF Nested, Rising
<1>11. Framed(d, n + 1, g)
  <2> SUFFICES ASSUME NEW i \in 1..(n + 1) PROVE FramesOf(d[i], g[d[i].t].ci)
    BY DEF Framed
  <2>1. CASE i = n + 1
    BY <1>5, <2>1
  <2>2. CASE i # n + 1
    <3>1. i \in 1..n /\ d[i] = c[i]
      BY <1>1, <1>2, <2>2
    <3> QED BY <1>3, <1>4, <3>1 DEF Framed
  <2> QED BY <2>1, <2>2
<1>12. Frozen(d, n + 1, g)
  <2>1. Frozen(d, n, g)
    <3>1. \A i \in 2..n : i \in 1..n /\ i - 1 \in 1..n
      BY <1>1
    <3> QED BY <1>1, <1>3, <1>4, <3>1, FrozenBelow DEF n
  <2>2. Resuming(d, n + 1, g)
    <3>1. (n + 1) - 1 = n /\ n \in 1..n /\ d[n] = c[n] /\ g[c[n].t] = h[x]
      BY <1>1, <1>2, <1>3, <1>4
    <3>2. /\ Depth(d, n) = Depth(c, n) /\ \A t : Hooked(d, n, t) <=> Hooked(c, n, t)
          /\ \A t, e : Handler(d, n, t, e) <=> Handler(c, n, t, e)
      BY <1>1, DepthSame DEF n
    <3>3. Attached(h[x], d, n, d[n].t)
      BY <1>3, <3>1, <3>2 DEF Attached
    <3> QED BY <1>6, <3>1, <3>3 DEF Resuming
  <2>3. ASSUME NEW i \in 2..(n + 1), d[i].k = "resume"
        PROVE  Resuming(d, i, g) /\ g[d[i].t].baseCcalls = Depth(d, i)
    <3>1. CASE i = n + 1
      BY <1>5, <2>2, <3>1
    <3>2. CASE i # n + 1
      <4>1. i \in 2..n
        BY <1>1, <3>2
      <4> QED BY <2>1, <2>3, <4>1 DEF Frozen
    <3> QED BY <3>1, <3>2
  <2> QED BY <2>3 DEF Frozen
<1>13. Lives(d, n + 1, g)
  <2>1. ASSUME NEW o \in Coroutines PROVE Runs(d, n + 1, o) <=> Runs(c, n, o) \/ o = co
    <3>1. ASSUME NEW j \in 1..(n + 1), d[j].t = o
          PROVE  Runs(c, n, o) \/ o = co
      <4>1. CASE j = n + 1
        BY <1>5, <3>1, <4>1
      <4>2. CASE j # n + 1
        <5>1. j \in 1..n
          BY <1>1, <4>2
        <5>2. c[j].t = o
          BY <1>2, <3>1, <5>1
        <5> QED BY ONLY <5>1, <5>2 DEF Runs
      <4> QED BY <4>1, <4>2
    <3>2. ASSUME NEW j \in 1..n, c[j].t = o
          PROVE  Runs(d, n + 1, o)
      <4>1. j \in 1..(n + 1) /\ d[j].t = o
        BY <1>1, <1>2, <3>2
      <4> QED BY ONLY <4>1 DEF Runs
    <3>3. ASSUME o = co PROVE Runs(d, n + 1, o)
      <4>1. n + 1 \in 1..(n + 1) /\ d[n + 1].t = o
        BY <1>1, <1>5, <3>3
      <4> QED BY ONLY <4>1 DEF Runs
    <3>4. Runs(d, n + 1, o) => Runs(c, n, o) \/ o = co
      BY ONLY <3>1 DEF Runs
    <3>5. Runs(c, n, o) => Runs(d, n + 1, o)
      BY ONLY <3>2 DEF Runs
    <3> QED BY ONLY <3>3, <3>4, <3>5
  <2>2. g[Main] = h[Main]
    BY LimitsHold DEF Threads
  <2>3. ASSUME NEW o \in Coroutines
        PROVE  IF Runs(d, n + 1, o) THEN g[o].life = "started" /\ g[o].top = 0 ELSE AtRest(g[o])
    <3>1. CASE o = co
      BY <2>1, <3>1
    <3>2. CASE o # co
      <4>1. g[o] = h[o]
        BY <3>2 DEF Threads
      <4> QED BY <1>3, <2>1, <3>2, <4>1 DEF Lives
    <3> QED BY <3>1, <3>2
  <2> QED BY <1>3, <2>2, <2>3 DEF Lives
<1>14. \A t \in Threads : RoomIn(g[t])
  BY <1>3
<1> QED BY <1>2, <1>5, <1>7, <1>8, <1>9, <1>10, <1>11, <1>12, <1>13, <1>14 DEF Whole, Standing, Nested

\* lua_resume returns, or is jumped over: its coroutine comes to rest, and the thread that
\* called it runs again, as it was.
LEMMA DroppedWhole ==
  ASSUME NEW c, NEW h, Whole(c, h), NEW m \in 1..(Len(c) - 1),
         c[m + 1].k = "resume", \A k \in (m + 2)..Len(c) : c[k].k # "resume",
         NEW d \in Seq(Acts), Len(d) = m, Agree(c, d, m),
         NEW g \in [Threads -> LState], \A t \in Threads \ {Thread(c)} : g[t] = h[t],
         RoomIn(g[Thread(c)]), AtRest(g[Thread(c)])
  PROVE  /\ Whole(d, g) /\ Resuming(c, m + 1, h)
         /\ Thread(c) \in Coroutines /\ Thread(d) = c[m].t /\ Thread(d) # Thread(c)
<1> DEFINE n == Len(c)
           x == Thread(c)
<1>1. /\ n \in Nat /\ n # 0 /\ x \in Threads /\ Standing(c, h) /\ Nested(c, n) /\ Frozen(c, n, h)
      /\ \A i \in 1..n : c[i] \in Acts /\ c[i].t \in Threads
  <2>1. Standing(c, h)
    BY DEF Whole
  <2>2. n \in Nat /\ x \in Threads /\ \A i \in 1..n : c[i] \in Acts
    BY <2>1, StandingFacts
  <2>3. n # 0
    BY <2>2
  <2>4. \A i \in 1..n : c[i].t \in Threads
    BY <2>2, ActFacts
  <2> QED BY <2>1, <2>2, <2>3, <2>4 DEF Standing
<1>2. m \in 1..n /\ m + 1 \in 2..n /\ m + 1 \in 1..n /\ m \in Nat /\ n \in 1..n /\ m + 1 <= n
  BY <1>1
<1>3. x = c[n].t
  BY <1>1 DEF Thread
<1>4. c[m + 1].k = "resume" /\ \A k \in (m + 2)..n : c[k].k # "resume"
  OBVIOUS
<1>5. Thread(d) = c[m].t /\ d # <<>>
  <2>1. d # <<>> /\ d[m] = c[m]
    BY <1>2 DEF Agree
  <2> QED BY <2>1 DEF Thread
<1> HIDE DEF n, x
<1>6. c[m + 1].t = x
  <2>1. \A k \in ((m + 1) + 1)..n : c[k].k # "resume"
    BY <1>2, <1>4
  <2> QED BY <1>1, <1>2, <1>3, <2>1 DEF Nested, Threaded
<1>7. \A j \in (m + 1)..n : c[j].t = x
  BY <1>1, <1>2, <1>3, <1>6, SameThread
<1>8. ASSUME NEW i \in 1..m PROVE c[i].t # x
  <2>1. i \in 1..n /\ i <= m + 1 /\ m + 1 \in (i + 1)..(m + 1)
    BY <1>2
  <2>2. c[i].t # c[m + 1].t
    BY <1>1, <1>2, <1>4, <2>1 DEF Nested, Threaded
  <2> QED BY <1>6, <2>2
<1>9. x \in Coroutines
  <2>1. 1 \in 1..m /\ 1 \in 1..n
    BY <1>2
  <2>2. c[1].t = Main
    BY <1>1, <2>1 DEF Nested, Based
  <2>3. x # Main
    BY <1>8, <2>1, <2>2
  <2> QED BY <1>1, <2>3 DEF Threads
<1>10. ~Runs(d, m, x)
  BY <1>8 DEF Runs, Agree
<1>11. ASSUME NEW o \in Coroutines \ {x} PROVE Runs(d, m, o) <=> Runs(c, n, o)
  <2>1. ASSUME NEW j \in 1..n, c[j].t = o PROVE Runs(d, m, o)
    <3>1. ~(j \in (m + 1)..n)
      BY <1>7, <2>1
    <3>2. j \in 1..m /\ d[j].t = o
      BY <1>1, <1>2, <2>1, <3>1 DEF Agree
    <3> QED BY <3>2 DEF Runs
  <2>2. ASSUME NEW j \in 1..m, d[j].t = o PROVE Runs(c, n, o)
    <3>1. j \in 1..n /\ c[j].t = o
      BY <1>2, <2>2 DEF Agree
    <3> QED BY <3>1 DEF Runs
  <2> QED BY <2>1, <2>2 DEF Runs
<1>12. Resuming(c, m + 1, h)
  BY <1>1, <1>2, <1>4 DEF Frozen
<1>13. Attached(h[Thread(d)], d, m, Thread(d))
  <2>1. Attached(h[c[m].t], c, m, c[m].t)
    <3>1. (m + 1) - 1 = m
      BY <1>2
    <3> QED BY <1>12, <3>1 DEF Resuming
  <2>2. /\ Depth(d, m) = Depth(c, m) /\ \A t : Hooked(d, m, t) <=> Hooked(c, m, t)
        /\ \A t, e : Handler(d, m, t, e) <=> Handler(c, m, t, e)
    BY <1>2, DepthSame
  <2>3. d[m] = c[m]
    BY <1>2 DEF Agree
  <2> QED BY <1>5, <2>1, <2>2, <2>3 DEF Attached
<1>14. Whole(d, g)
  <2>1. ~Runs(d, Len(d), x) /\ Len(d) <= Len(c) /\ Agree(c, d, Len(d))
        /\ Attached(h[Thread(d)], d, Len(d), Thread(d))
    BY <1>2, <1>10, <1>13 DEF n
  <2>2. \A o \in Coroutines \ {x} : Runs(d, Len(d), o) <=> Runs(c, Len(c), o)
    BY <1>11 DEF n
  <2>3. (\A t \in Threads \ {x} : g[t] = h[t]) /\ RoomIn(g[x]) /\ AtRest(g[x])
    BY DEF x
  <2> QED BY <1>1, <1>9, <2>1, <2>2, <2>3, RestedWhole
<1>15. Thread(d) # x
  BY <1>2, <1>5, <1>8
<1> QED BY <1>5, <1>9, <1>12, <1>14, <1>15 DEF x

-----------------------------------------------------------------------------
(* The running thread.                                                     *)

\* What the invariant says of the running thread and its innermost activation.
LEMMA Current ==
  ASSUME CallsInv
  PROVE  /\ Whole(cstack, th) /\ Cur = Thread(cstack) /\ Cur \in Threads /\ L \in LState /\ RoomIn(L)
         /\ th \in [Threads -> LState] /\ Len(L.ci) \in Nat \ {0} /\ L.ci \in Seq(Frame)
         /\ cstack \in Seq(Acts) /\ Len(cstack) \in Nat /\ (cstack = <<>> <=> Len(cstack) = 0)
         /\ Attached(L, cstack, Len(cstack), Cur)
         /\ cstack # <<>> => /\ Top = cstack[Len(cstack)] /\ Top \in Acts /\ Top.t = Cur
                             /\ FramesOf(Top, L.ci) /\ Based(cstack, Len(cstack))
<1>1. Whole(cstack, th) /\ Standing(cstack, th)
  BY DEF CallsInv, Whole
<1>2. /\ cstack \in Seq(Acts) /\ Len(cstack) \in Nat /\ \A i \in 1..Len(cstack) : cstack[i] \in Acts
      /\ cstack = <<>> <=> Len(cstack) = 0
      /\ Thread(cstack) \in Threads /\ th \in [Threads -> LState]
  BY <1>1, StandingFacts DEF Standing
<1>3. Cur = Thread(cstack) /\ (cstack # <<>> => Top = cstack[Len(cstack)] /\ Top.t = Cur)
  BY DEF Cur, Thread, Top, Last
<1>4. L \in LState /\ RoomIn(L) /\ Attached(L, cstack, Len(cstack), Cur)
  BY <1>1, <1>2, <1>3 DEF L, Whole, Standing
<1>5. L.ci \in Seq(Frame) /\ Len(L.ci) \in Nat \ {0}
  BY <1>4 DEF LState, RoomIn
<1>6. ASSUME cstack # <<>> PROVE Top \in Acts /\ FramesOf(Top, L.ci) /\ Based(cstack, Len(cstack))
  <2>1. Len(cstack) \in 1..Len(cstack)
    BY <1>2, <1>6
  <2> QED BY <1>1, <1>2, <1>3, <1>6, <2>1 DEF Standing, Framed, Nested, L
<1> QED BY <1>1, <1>2, <1>3, <1>4, <1>5, <1>6

\* Nothing but the array of functions changes.
Alike(l1, l2) ==
  /\ l2.nCcalls = l1.nCcalls /\ l2.baseCcalls = l1.baseCcalls /\ l2.status = l1.status
  /\ l2.errfunc = l1.errfunc /\ l2.allowhook = l1.allowhook /\ l2.top = l1.top /\ l2.life = l1.life

\* The handler in force belongs to a function outside the innermost activation.
LEMMA HandlerBelow ==
  ASSUME NEW c, NEW n \in Nat, Nested(c, n), \A i \in 1..n : c[i] \in Acts, NEW e, NEW t,
         Handler(c, n, t, e)
  PROVE  n > 0 /\ (c[n].t = t => e \in Nat \ {0} /\ e <= c[n].ci)
<1>1. PICK j \in 1..n : c[j].t = t /\ c[j].k = "pcall" /\ c[j].ci = e
  BY DEF Handler
<1>2. /\ n \in 1..n /\ c[j].ci \in Nat \ {0} /\ c[n].ci \in Nat /\ Reach(c[j]) \in Nat /\ c[j].ci <= Reach(c[j])
  BY ActFacts
<1>3. ASSUME c[n].t = t PROVE e <= c[n].ci
  <2>1. CASE j = n
    BY <1>1, <1>2, <2>1
  <2>2. CASE j # n
    <3>1. Reach(c[j]) <= c[n].ci
      BY <1>1, <1>2, <1>3, <2>2 DEF Nested, Rising
    <3> QED BY <1>1, <1>2, <3>1
  <2> QED BY <2>1, <2>2
<1> QED BY <1>1, <1>2, <1>3

\* The C stack stays; the running thread keeps the functions that it was called by.
LEMMA Stays ==
  ASSUME CallsInv, NEW l \in LState, th' = [th EXCEPT ![Cur] = l], cstack' = cstack,
         RoomIn(l), Steady(L, l), l.nCcalls = L.nCcalls, l.errfunc = L.errfunc, l.allowhook = L.allowhook,
         Cur = Main => l.status = "OK",
         cstack # <<>> => Keeps(L.ci, l.ci, Reach(Top))
  PROVE  Whole(cstack', th') /\ L' = l /\ Cur' = Cur /\ (cstack # <<>> => Top' = Top)
<1>1. /\ Whole(cstack, th) /\ Cur = Thread(cstack) /\ Cur \in Threads /\ th \in [Threads -> LState]
      /\ cstack \in Seq(Acts) /\ Len(cstack) \in Nat /\ (cstack = <<>> <=> Len(cstack) = 0)
      /\ Attached(L, cstack, Len(cstack), Cur)
      /\ cstack # <<>> => Top = cstack[Len(cstack)] /\ Top \in Acts
  BY Current
<1> DEFINE g == [th EXCEPT ![Cur] = l]
<1>2. g \in [Threads -> LState] /\ g[Cur] = l /\ \A t \in Threads \ {Cur} : g[t] = th[t]
  BY <1>1
<1>3. th[Cur] = L
  BY DEF L
<1> HIDE DEF g
<1>4. Attached(l, cstack, Len(cstack), Cur)
  <2>1. l.nCcalls = Depth(cstack, Len(cstack)) /\ l.allowhook = ~Hooked(cstack, Len(cstack), Cur)
    BY <1>1 DEF Attached
  <2>2. ASSUME l.errfunc # 0
        PROVE  /\ Handler(cstack, Len(cstack), Cur, l.errfunc) /\ l.errfunc <= Len(l.ci)
               /\ l.ci[l.errfunc] = "xpcall"
    <3>0. Handler(cstack, Len(cstack), Cur, L.errfunc) /\ L.ci[L.errfunc] = "xpcall" /\ L.errfunc = l.errfunc
      BY <1>1, <2>2 DEF Attached
    <3>1. Len(cstack) > 0 /\ L.errfunc <= cstack[Len(cstack)].ci
      <4>1. /\ Nested(cstack, Len(cstack)) /\ \A i \in 1..Len(cstack) : cstack[i] \in Acts
            /\ cstack # <<>> => cstack[Len(cstack)].t = Cur
        BY <1>1 DEF Whole, Standing, Thread
      <4> QED BY <1>1, <3>0, <4>1, HandlerBelow
    <3>2. Top \in Acts /\ Top = cstack[Len(cstack)] /\ Keeps(L.ci, l.ci, Reach(Top)) /\ l.errfunc \in Nat
      <4>1. cstack # <<>>
        BY ONLY <1>1, <3>1
      <4>2. Keeps(L.ci, l.ci, Reach(Top))
        BY <4>1
      <4>3. l.errfunc \in Nat
        BY DEF LState
      <4> QED BY ONLY <1>1, <4>1, <4>2, <4>3
    <3>3. Top.ci \in Nat /\ Reach(Top) \in Nat /\ Top.ci <= Reach(Top) /\ Len(l.ci) \in Nat
      BY <3>2, ActFacts DEF LState
    <3>4. l.errfunc \in 1..Reach(Top) /\ Reach(Top) <= Len(l.ci)
      BY <2>2, <3>0, <3>1, <3>2, <3>3 DEF Keeps
    <3> QED BY <3>0, <3>2, <3>3, <3>4 DEF Keeps
  <2> QED BY <2>1, <2>2 DEF Attached
<1>5. Agree(cstack, cstack, Len(cstack)) /\ Len(cstack) <= Len(cstack)
  BY <1>1 DEF Agree
<1>6. Whole(cstack, g)
  <2>1. /\ Thread(cstack) = Cur /\ th[Thread(cstack)] = L /\ g[Thread(cstack)] = l
        /\ \A t \in Threads \ {Thread(cstack)} : g[t] = th[t]
    BY ONLY <1>1, <1>2, <1>3
  <2>2. RoomIn(g[Thread(cstack)]) /\ Steady(th[Thread(cstack)], g[Thread(cstack)])
    BY <2>1
  <2>3. Thread(cstack) = Main => g[Main].status = "OK"
    BY <2>1
  <2>4. cstack # <<>> =>
          Keeps(th[Thread(cstack)].ci, g[Thread(cstack)].ci, Reach(cstack[Len(cstack)]))
    BY <1>1, <2>1
  <2>5. Attached(g[Thread(cstack)], cstack, Len(cstack), Thread(cstack))
    BY ONLY <1>4, <2>1
  <2> QED BY ONLY <1>1, <1>2, <1>5, <2>1, <2>2, <2>3, <2>4, <2>5, CutWhole
<1>7. th' = g
  BY DEF g
<1>8. Cur' = Cur /\ (cstack # <<>> => Top' = Top)
  BY DEF Cur, Top
<1> QED BY <1>2, <1>6, <1>7, <1>8 DEF L

\* luaD_precall either fails or adds the entry of the function.
LEMMA Precalls ==
  ASSUME NEW l \in LState, RoomIn(l), NEW f \in Functions, NEW c, NEW r, luaD_precall(l, f, c, r)
  PROVE  \E l2 \in LState :
           /\ RoomIn(l2) /\ Alike(l, l2) /\ th' = [th EXCEPT ![Cur] = l2]
           /\ \/ l2.ci = l.ci /\ cstack' = c /\ todo' \in {Raise, Throw("ERRERR")}
              \/ l2.ci = Append(l.ci, f) /\ cstack' = r /\ todo' = Run
<1> DEFINE bigger == [l EXCEPT !.size_ci = 2 * l.size_ci]
           l3 == [l EXCEPT !.ci = Append(l.ci, f)]
           l4 == [bigger EXCEPT !.ci = Append(l.ci, f)]
<1>1. /\ l.ci \in Seq(Frame) /\ l.size_ci \in Nat /\ Len(l.ci) \in Nat /\ l.size_ci >= 2 /\ Len(l.ci) >= 1
      /\ Len(l.ci) <= l.size_ci /\ l.size_ci <= 2 * LUAI_MAXCALLS /\ l.ci[1] = "base" /\ LUAI_MAXCALLS \in Nat
  BY LimitsHold DEF LState, RoomIn
<1>2. /\ Append(l.ci, f) \in Seq(Frame) /\ Len(Append(l.ci, f)) = Len(l.ci) + 1 /\ Append(l.ci, f)[1] = "base"
  BY <1>1 DEF Frame
<1>3. l3 \in LState /\ Alike(l, l3) /\ l3.ci = Append(l.ci, f) /\ l3.size_ci = l.size_ci
  BY <1>2 DEF LState, Alike
<1>4. bigger \in LState /\ Alike(l, bigger) /\ bigger.ci = l.ci /\ bigger.size_ci = 2 * l.size_ci
  <2> DEFINE twice == 2 * l.size_ci
  <2>1. twice \in Nat
    BY ONLY <1>1
  <2> HIDE DEF twice
  <2>2. [l EXCEPT !.size_ci = twice] \in LState
    BY ONLY l \in LState, <2>1 DEF LState
  <2>3. /\ Alike(l, [l EXCEPT !.size_ci = twice]) /\ [l EXCEPT !.size_ci = twice].ci = l.ci
        /\ [l EXCEPT !.size_ci = twice].size_ci = twice
    BY ONLY l \in LState DEF LState, Alike
  <2> QED BY ONLY <2>2, <2>3 DEF twice
<1>5. l4 \in LState /\ Alike(l, l4) /\ l4.ci = Append(l.ci, f) /\ l4.size_ci = 2 * l.size_ci
  <2> HIDE DEF bigger
  <2>1. l4 \in LState /\ Alike(bigger, l4) /\ l4.ci = Append(l.ci, f) /\ l4.size_ci = bigger.size_ci
    BY <1>2, <1>4 DEF LState, Alike
  <2> QED BY <1>4, <2>1 DEF Alike
<1>6. Alike(l, l)
  BY DEF Alike
<1>7. CASE Len(l.ci) < l.size_ci /\ Does(Entered(l, f), r, Run)
  <2>1. th' = [th EXCEPT ![Cur] = l3] /\ cstack' = r /\ todo' = Run
    BY <1>7 DEF Does, Entered
  <2>2. RoomIn(l3)
    BY <1>1, <1>2, <1>3, <1>7 DEF RoomIn
  <2> QED BY <1>3, <2>1, <2>2
<1>8. CASE Len(l.ci) = l.size_ci /\ growCI(l, f, c, r)
  <2>1. CASE l.size_ci > LUAI_MAXCALLS
    <3>1. th' = [th EXCEPT ![Cur] = l] /\ cstack' = c /\ todo' = Throw("ERRERR")
      BY <1>8, <2>1 DEF growCI, Does
    <3> QED BY <1>6, <3>1
  <2>2. CASE ~(l.size_ci > LUAI_MAXCALLS) /\ bigger.size_ci > LUAI_MAXCALLS
    <3>1. th' = [th EXCEPT ![Cur] = bigger] /\ cstack' = c /\ todo' = Raise
      BY <1>8, <2>2 DEF growCI, Does, luaD_reallocCI
    <3>2. RoomIn(bigger)
      BY <1>1, <1>4, <2>2 DEF RoomIn
    <3> QED BY <1>4, <3>1, <3>2
  <2>3. CASE ~(l.size_ci > LUAI_MAXCALLS) /\ ~(bigger.size_ci > LUAI_MAXCALLS)
    <3>1. th' = [th EXCEPT ![Cur] = l4] /\ cstack' = r /\ todo' = Run
      BY <1>8, <2>3 DEF growCI, Does, luaD_reallocCI, Entered
    <3>2. RoomIn(l4)
      BY <1>1, <1>2, <1>5, <1>8, <2>3 DEF RoomIn
    <3> QED BY <1>5, <3>1, <3>2
  <2> QED BY <2>1, <2>2, <2>3
<1> QED BY <1>7, <1>8 DEF luaD_precall

-----------------------------------------------------------------------------
(* One activation more, or fewer.                                          *)

\* The C calls below an activation are among those below a later one.
LEMMA DepthGrows ==
  ASSUME NEW c, NEW m \in Nat, NEW n \in Nat, m <= n
  PROVE  Depth(c, m) <= Depth(c, n) /\ Depth(c, m) \in Nat /\ Depth(c, n) \in Nat
<1> DEFINE A == {j \in 1..m : c[j].k \in {"call", "resume"}}
           B == {j \in 1..n : c[j].k \in {"call", "resume"}}
<1>1. IsFiniteSet(B)
  <2>1. IsFiniteSet(1..n)
    BY FS_Interval
  <2> QED BY <2>1, FS_Subset
<1>2. A \subseteq B
  OBVIOUS
<1>3. Cardinality(A) <= Cardinality(B)
  BY <1>1, <1>2, FS_Subset
<1> QED BY <1>3, DepthNat DEF Depth

\* Activation a is added to c; c is cut to m activations.
IsPush(c, a, d) == d = Append(c, a)
IsCut(c, m, d) == d = SubSeq(c, 1, m)

\* The C stack with one more activation.
LEMMA Appended ==
  ASSUME NEW c \in Seq(Acts), NEW a \in Acts, NEW d, IsPush(c, a, d)
  PROVE  /\ d \in Seq(Acts) /\ Len(d) = Len(c) + 1 /\ Len(c) \in Nat /\ d # <<>>
         /\ Agree(c, d, Len(c)) /\ d[Len(c) + 1] = a /\ Thread(d) = a.t
         /\ Depth(d, Len(d)) = Depth(c, Len(c)) + (IF a.k \in {"call", "resume"} THEN 1 ELSE 0)
         /\ \A t : Hooked(d, Len(d), t) <=> Hooked(c, Len(c), t) \/ (a.t = t /\ a.k = "hook")
         /\ \A t, e : Handler(d, Len(d), t, e) <=>
                        Handler(c, Len(c), t, e) \/ (a.t = t /\ a.k = "pcall" /\ a.ci = e)
<1> DEFINE n == Len(c)
<1>1. /\ d \in Seq(Acts) /\ Len(d) = n + 1 /\ n \in Nat /\ d # <<>>
      /\ (\A i \in 1..n : d[i] = c[i]) /\ d[n + 1] = a
  BY DEF IsPush
<1>2. Agree(c, d, n)
  BY <1>1 DEF Agree
<1>3. Thread(d) = a.t
  BY <1>1 DEF Thread
<1>4. /\ Depth(d, n) = Depth(c, n)
      /\ \A t : Hooked(d, n, t) <=> Hooked(c, n, t)
      /\ \A t, e : Handler(d, n, t, e) <=> Handler(c, n, t, e)
  BY <1>1, <1>2, DepthSame
<1>5. Depth(d, n + 1) = Depth(c, n) + (IF a.k \in {"call", "resume"} THEN 1 ELSE 0)
  <2>1. n + 1 \in Nat \ {0} /\ (n + 1) - 1 = n /\ Depth(c, n) \in Nat
    BY <1>1, DepthNat
  <2>2. /\ d[n + 1].k \in {"call", "resume"} => Depth(d, n + 1) = Depth(d, n) + 1
        /\ d[n + 1].k \notin {"call", "resume"} => Depth(d, n + 1) = Depth(d, n)
    BY <2>1, DepthStep
  <2> QED BY <1>1, <1>4, <2>1, <2>2
<1>6. \A j : j \in 1..(n + 1) <=> j \in 1..n \/ j = n + 1
  BY <1>1
<1>7. \A t : Hooked(d, n + 1, t) <=> Hooked(c, n, t) \/ (a.t = t /\ a.k = "hook")
  BY <1>1, <1>4, <1>6 DEF Hooked
<1>8. \A t, e : Handler(d, n + 1, t, e) <=>
                  Handler(c, n, t, e) \/ (a.t = t /\ a.k = "pcall" /\ a.ci = e)
  BY <1>1, <1>4, <1>6 DEF Handler
<1> QED BY <1>1, <1>2, <1>3, <1>5, <1>7, <1>8

\* The C stack cut to m activations.
LEMMA Shortened ==
  ASSUME NEW c \in Seq(Acts), NEW m \in 0..Len(c), NEW d, IsCut(c, m, d)
  PROVE  /\ d \in Seq(Acts) /\ Len(d) = m /\ Len(c) \in Nat /\ Agree(c, d, m) /\ (d = <<>> <=> m = 0)
         /\ m # 0 => d[m] = c[m] /\ c[m] \in Acts /\ Thread(d) = c[m].t
         /\ m = 0 => Thread(d) = Main
         /\ Depth(d, m) = Depth(c, m)
         /\ \A t : Hooked(d, m, t) <=> Hooked(c, m, t)
         /\ \A t, e : Handler(d, m, t, e) <=> Handler(c, m, t, e)
<1>1. m \in Nat /\ m <= Len(c) /\ Len(c) \in Nat /\ \A i \in 1..Len(c) : c[i] \in Acts
  OBVIOUS
<1>2. d \in Seq(Acts) /\ Len(d) = m /\ \A i \in 1..m : d[i] = c[i]
  BY <1>1, Popped DEF IsCut
<1>3. Agree(c, d, m) /\ (d = <<>> <=> m = 0)
  BY <1>2, EmptySeq DEF Agree
<1>4. ASSUME m # 0 PROVE d[m] = c[m] /\ c[m] \in Acts /\ Thread(d) = c[m].t
  BY <1>1, <1>2, <1>3, <1>4 DEF Thread
<1>5. m = 0 => Thread(d) = Main
  BY <1>3 DEF Thread
<1>6. /\ Depth(d, m) = Depth(c, m)
      /\ \A t : Hooked(d, m, t) <=> Hooked(c, m, t)
      /\ \A t, e : Handler(d, m, t, e) <=> Handler(c, m, t, e)
  BY <1>1, <1>3, DepthSame
<1> QED BY <1>1, <1>2, <1>3, <1>4, <1>5, <1>6

\* A sequence without its last element.
LEMMA Fronted ==
  ASSUME NEW S, NEW s \in Seq(S), s # <<>>
  PROVE  /\ Front(s) = SubSeq(s, 1, Len(s) - 1) /\ Last(s) = s[Len(s)]
         /\ Len(s) \in Nat \ {0} /\ Len(s) - 1 \in 0..Len(s)
         /\ Front(s) \in Seq(S) /\ Len(Front(s)) = Len(s) - 1
         /\ \A p \in 1..(Len(s) - 1) : Front(s)[p] = s[p]
<1>1. Len(s) \in Nat \ {0} /\ Len(s) - 1 \in Nat /\ Len(s) - 1 <= Len(s)
  BY EmptySeq
<1>2. Front(s) = SubSeq(s, 1, Len(s) - 1) /\ Last(s) = s[Len(s)]
  BY DEF Front, Last
<1>3. /\ SubSeq(s, 1, Len(s) - 1) \in Seq(S) /\ Len(SubSeq(s, 1, Len(s) - 1)) = Len(s) - 1
      /\ \A p \in 1..(Len(s) - 1) : SubSeq(s, 1, Len(s) - 1)[p] = s[p]
  BY <1>1, Popped
<1> QED BY <1>1, <1>2, <1>3

\* What activation a needs to find on the C stack c when it is added.
OnTop(c, n, a) ==
  /\ n = 0 => a.k = "pcall" /\ a.t = Main /\ a.ci = 1 /\ a.errfunc = 0
  /\ a.k = "execute" => c[n].k \in {"call", "resume"} /\ a.ci = c[n].ci
  /\ a.k = "resume" => c[n].k \in {"execute", "call"} /\ a.ci = 1 /\ Depth(c, n) + 1 < Limit
  /\ a.k = "call" => c[n].k \in {"pcall", "error", "hook", "execute"} /\ a.ci = Reach(c[n])
  /\ a.k = "hook" => c[n].k = "execute" /\ a.ci = Reach(c[n]) /\ ~Hooked(c, n, a.t)
  /\ a.k = "pcall" =>
       /\ a.nCcalls = Depth(c, n) /\ Depth(c, n) < Limit /\ a.allowhook = ~Hooked(c, n, a.t)
       /\ n > 0 => /\ c[n].k \in {"execute", "call"} /\ a.ci = Reach(c[n]) + 1
                   /\ a.errfunc # 0 => Handler(c, n, a.t, a.errfunc) /\ a.errfunc <= c[n].ci

\* An activation that finds what it needs fits.
LEMMA OnTopBased ==
  ASSUME NEW c \in Seq(Acts), NEW a \in Acts, NEW d, IsPush(c, a, d), OnTop(c, Len(c), a)
  PROVE  Based(d, Len(d))
<1> DEFINE n == Len(c)
<1>1. /\ Len(d) = n + 1 /\ n \in Nat /\ d[n + 1] = a /\ Agree(c, d, n)
      /\ Depth(d, n + 1) = Depth(c, n) + (IF a.k \in {"call", "resume"} THEN 1 ELSE 0)
      /\ \A t : Hooked(d, n + 1, t) <=> Hooked(c, n, t) \/ (a.t = t /\ a.k = "hook")
  <2> HIDE DEF Depth, Hooked, Handler
  <2> QED BY Appended
<1>2. (\A t : Hooked(d, n, t) <=> Hooked(c, n, t)) /\ \A t, e : Handler(d, n, t, e) <=> Handler(c, n, t, e)
  BY <1>1, DepthSame
<1>3. (n + 1) - 1 = n /\ (n # 0 => d[n] = c[n]) /\ Depth(c, n) \in Nat
  BY <1>1, DepthNat DEF Agree
<1>4. OnTop(c, n, a)
  OBVIOUS
<1> HIDE DEF n
<1>5. CASE n = 0
  <2>1. Based(d, 1)
    BY <1>1, <1>2, <1>3, <1>4, <1>5 DEF Based, OnTop
  <2> QED BY <1>1, <1>5, <2>1
<1>6. CASE n # 0
  <2>1. n + 1 # 1 /\ (n + 1 > 1) /\ n > 0 /\ d[(n + 1) - 1] = c[n]
    BY <1>1, <1>3, <1>6
  <2>2. Based(d, n + 1)
    BY <1>1, <1>2, <1>3, <1>4, <2>1 DEF Based, OnTop
  <2> QED BY <1>1, <2>2
<1> QED BY <1>5, <1>6

\* The state of the running thread once activation a is on top of c.
AttachedOn(l, c, a) ==
  /\ l.nCcalls = Depth(c, Len(c)) + (IF a.k \in {"call", "resume"} THEN 1 ELSE 0)
  /\ l.allowhook = (~Hooked(c, Len(c), a.t) /\ a.k # "hook")
  /\ l.errfunc # 0 => /\ Handler(c, Len(c), a.t, l.errfunc) \/ (a.k = "pcall" /\ l.errfunc = a.ci)
                      /\ l.errfunc <= Len(l.ci) /\ l.ci[l.errfunc] = "xpcall"

\* The counters of a thread match once it has added an activation.
LEMMA AttachedNow ==
  ASSUME NEW c \in Seq(Acts), NEW a \in Acts, NEW d, IsPush(c, a, d), NEW l, AttachedOn(l, c, a)
  PROVE  Attached(l, d, Len(d), a.t)
<1>1. /\ Depth(d, Len(d)) = Depth(c, Len(c)) + (IF a.k \in {"call", "resume"} THEN 1 ELSE 0)
      /\ \A t : Hooked(d, Len(d), t) <=> Hooked(c, Len(c), t) \/ (a.t = t /\ a.k = "hook")
      /\ \A t, e : Handler(d, Len(d), t, e) <=>
                     Handler(c, Len(c), t, e) \/ (a.t = t /\ a.k = "pcall" /\ a.ci = e)
  BY Appended
<1>2. l.nCcalls = Depth(d, Len(d))
  BY <1>1 DEF AttachedOn
<1>3. l.allowhook = ~Hooked(d, Len(d), a.t)
  <2>1. Hooked(d, Len(d), a.t) <=> Hooked(c, Len(c), a.t) \/ a.k = "hook"
    BY <1>1
  <2>2. l.allowhook = (~Hooked(c, Len(c), a.t) /\ a.k # "hook")
    BY DEF AttachedOn
  <2> QED BY <2>1, <2>2
<1>4. l.errfunc # 0 => Handler(d, Len(d), a.t, l.errfunc) /\ l.errfunc <= Len(l.ci) /\ l.ci[l.errfunc] = "xpcall"
  BY <1>1 DEF AttachedOn
<1> QED BY <1>2, <1>3, <1>4 DEF Attached

\* The running thread adds activation a.
LEMMA Adds ==
  ASSUME NEW c, NEW h, Whole(c, h), NEW a \in Acts, a.t = Thread(c), a.k # "resume", OnTop(c, Len(c), a),
         NEW d, IsPush(c, a, d), c # <<>> => Reach(c[Len(c)]) <= a.ci,
         NEW g \in [Threads -> LState], \A t \in Threads \ {Thread(c)} : g[t] = h[t],
         RoomIn(g[Thread(c)]), Steady(h[Thread(c)], g[Thread(c)]), Thread(c) = Main => g[Main].status = "OK",
         c # <<>> => Keeps(h[Thread(c)].ci, g[Thread(c)].ci, Reach(c[Len(c)])),
         FramesOf(a, g[Thread(c)].ci), AttachedOn(g[Thread(c)], c, a)
  PROVE  Whole(d, g)
<1>1. c \in Seq(Acts)
  BY DEF Whole, Standing
<1>2. /\ d \in Seq(Acts) /\ Len(d) = Len(c) + 1 /\ Agree(c, d, Len(c)) /\ d[Len(c) + 1] = a
      /\ Thread(d) = a.t
  BY <1>1, Appended
<1>3. Based(d, Len(d))
  BY <1>1, OnTopBased
<1>4. Attached(g[Thread(c)], d, Len(d), Thread(c))
  BY <1>1, AttachedNow
<1>5. d[Len(d)] = a /\ Thread(d) = Thread(c)
  BY <1>2
<1> QED BY <1>2, <1>3, <1>4, <1>5, PushedWhole

-----------------------------------------------------------------------------
(* What comes next.                                                        *)

\* What the invariant says while a function runs, ...
LEMMA WhenRun ==
  ASSUME CallsInv, todo = Run
  PROVE  AtRun /\ Depth(cstack, Len(cstack)) < Limit
<1>1. todo[1] = "run"
  BY DEF Run
<1> QED BY <1>1 DEF CallsInv, Expects, Run, Back, Call, Raise, Throw

\* ... when an activation returns to the one below, ...
LEMMA WhenBack ==
  ASSUME CallsInv, todo = Back
  PROVE  AtBack /\ Depth(cstack, Len(cstack)) < Limit
<1>1. todo[1] = "back"
  BY DEF Back
<1> QED BY <1>1 DEF CallsInv, Expects, Run, Back, Call, Raise, Throw

\* ... when luaD_call is entered, ...
LEMMA WhenCall ==
  ASSUME CallsInv, todo[1] = "luaD_call"
  PROVE  AtCall /\ Depth(cstack, Len(cstack)) < Limit /\ todo[2] \in {"lua", "yield", "resume"}
<1>1. Depth(cstack, Len(cstack)) < Limit
  BY DEF CallsInv
<1>2. AtCall /\ todo \in {Call(f) : f \in {"lua", "yield", "resume"}}
  BY DEF CallsInv, Expects, Run, Back, Raise, Throw
<1>3. todo[2] \in {"lua", "yield", "resume"}
  BY <1>2 DEF Call
<1> QED BY <1>1, <1>2, <1>3

\* ... when luaG_errormsg is entered, ...
LEMMA WhenRaise ==
  ASSUME CallsInv, todo = Raise
  PROVE  AtError /\ Depth(cstack, Len(cstack)) < Limit
<1>1. todo[1] = "luaG_errormsg"
  BY DEF Raise
<1> QED BY <1>1 DEF CallsInv, Expects, Run, Back, Call, Raise, Throw

\* ... and when luaD_throw is.
LEMMA WhenThrow ==
  ASSUME CallsInv, todo[1] = "luaD_throw"
  PROVE  AtError /\ todo[2] \in Errors
<1>1. AtError /\ todo \in {Throw(e) : e \in Errors}
  BY DEF CallsInv, Expects, Run, Back, Call, Raise
<1> QED BY <1>1 DEF Throw

\* The state that a step ends in, with the C stack d and the threads g.
LEMMA NowRunning ==
  ASSUME NEW d, NEW g, cstack' = d, th' = g
  PROVE  /\ Cur' = Thread(d) /\ L' = g[Thread(d)] /\ (d # <<>> => Top' = d[Len(d)])
         /\ (Whole(d, g) => Whole(cstack, th)')
         /\ Depth(cstack, Len(cstack))' = Depth(d, Len(d))
<1>1. Cur' = Thread(d) /\ (d # <<>> => Top' = d[Len(d)])
  BY DEF Cur, Thread, Top, Last
<1>2. L' = g[Thread(d)]
  BY <1>1 DEF L
<1> QED BY <1>1, <1>2

\* A step after which a function runs keeps the invariant, ...
LEMMA EndsInRun ==
  ASSUME NEW d, NEW g, cstack' = d, th' = g, todo' = Run, Whole(d, g), Depth(d, Len(d)) < Limit,
         g[Thread(d)].status = "OK",
         IF d = <<>> THEN Len(g[Thread(d)].ci) = 1
         ELSE /\ d[Len(d)].k \in {"execute", "call"}
              /\ \/ d[Len(d)].k = "execute" /\ Len(g[Thread(d)].ci) = Reach(d[Len(d)])
                 \/ Len(g[Thread(d)].ci) = Reach(d[Len(d)]) + 1 /\ Last(g[Thread(d)].ci) # "lua"
  PROVE  CallsInv'
<1>1. /\ L' = g[Thread(d)] /\ (d # <<>> => Top' = d[Len(d)]) /\ Whole(cstack, th)'
      /\ Depth(cstack, Len(cstack))' = Depth(d, Len(d))
  BY NowRunning
<1>2. AtRun'
  BY <1>1 DEF AtRun
<1>3. Depth(d, Len(d)) <= Limit
  BY <1>1, LimitsHold, DepthNat, StandingFacts DEF Whole
<1> QED BY <1>1, <1>2, <1>3 DEF CallsInv, Expects

\* ... so does one after which an activation returns, ...
LEMMA EndsInBack ==
  ASSUME NEW d, NEW g, cstack' = d, th' = g, todo' = Back, Whole(d, g), Depth(d, Len(d)) < Limit,
         d # <<>>, d[Len(d)].k # "execute",
         \/ g[Thread(d)].status = "OK" /\ Len(g[Thread(d)].ci) = d[Len(d)].ci
         \/ d[Len(d)].k = "resume" /\ Waits(g[Thread(d)])
  PROVE  CallsInv'
<1>1. /\ L' = g[Thread(d)] /\ Top' = d[Len(d)] /\ Whole(cstack, th)'
      /\ Depth(cstack, Len(cstack))' = Depth(d, Len(d))
  BY NowRunning
<1>2. AtBack'
  BY <1>1 DEF AtBack
<1>3. Depth(d, Len(d)) <= Limit
  BY <1>1, LimitsHold, DepthNat, StandingFacts DEF Whole
<1> QED BY <1>1, <1>2, <1>3 DEF CallsInv, Expects

\* ... one after which luaD_call is entered, ...
LEMMA EndsInCall ==
  ASSUME NEW d, NEW g, cstack' = d, th' = g, NEW f \in {"lua", "yield", "resume"}, todo' = Call(f),
         Whole(d, g), Depth(d, Len(d)) < Limit,
         d # <<>>, d[Len(d)].k \in {"pcall", "error", "hook", "execute"},
         g[Thread(d)].status = "OK", Len(g[Thread(d)].ci) = Reach(d[Len(d)])
  PROVE  CallsInv'
<1>1. /\ L' = g[Thread(d)] /\ Top' = d[Len(d)] /\ Whole(cstack, th)'
      /\ Depth(cstack, Len(cstack))' = Depth(d, Len(d))
  BY NowRunning
<1>2. AtCall'
  BY <1>1 DEF AtCall
<1>3. Depth(d, Len(d)) <= Limit
  BY <1>1, LimitsHold, DepthNat, StandingFacts DEF Whole
<1> QED BY <1>1, <1>2, <1>3 DEF CallsInv, Expects

\* ... and one that raises or throws an error.
LEMMA EndsInError ==
  ASSUME NEW d, NEW g, cstack' = d, th' = g, Whole(d, g), d # <<>>, g[Thread(d)].status = "OK",
         \/ todo' = Raise /\ Depth(d, Len(d)) < Limit
         \/ todo' \in {Throw(e) : e \in Errors} /\ Depth(d, Len(d)) <= Limit
  PROVE  CallsInv'
<1>1. /\ L' = g[Thread(d)] /\ Whole(cstack, th)' /\ Depth(cstack, Len(cstack))' = Depth(d, Len(d))
  BY NowRunning
<1>2. AtError'
  BY <1>1 DEF AtError
<1>3. Depth(d, Len(d)) <= Limit
  BY <1>1, LimitsHold, DepthNat, StandingFacts DEF Whole
<1>4. CASE todo' = Raise
  <2>1. todo'[1] # "luaD_throw" /\ Depth(d, Len(d)) < Limit
    BY <1>4 DEF Raise, Throw
  <2> QED BY <1>1, <1>2, <1>3, <1>4, <2>1 DEF CallsInv, Expects
<1>5. CASE todo' \in {Throw(e) : e \in Errors}
  <2>1. todo'[1] = "luaD_throw"
    BY <1>5 DEF Throw
  <2> QED BY <1>1, <1>2, <1>3, <1>5, <2>1 DEF CallsInv, Expects
<1> QED BY <1>4, <1>5

-----------------------------------------------------------------------------
(* Steps of the running thread.                                            *)

\* The running thread is in state l and nothing else has changed.
IsStep(l, g) == g = [th EXCEPT ![Cur] = l]

\* The C stack without its innermost activation.
IsFront(c, d) == d = Front(c)

\* Only the running thread changes.
LEMMA Stepped ==
  ASSUME CallsInv, NEW l \in LState, NEW g, IsStep(l, g)
  PROVE  g \in [Threads -> LState] /\ g[Cur] = l /\ (\A t \in Threads \ {Cur} : g[t] = th[t]) /\ th[Cur] = L
<1>1. Cur \in Threads /\ th \in [Threads -> LState]
  BY Current
<1> QED BY <1>1 DEF IsStep, L

\* What is left when an activation ends that is not of lua_resume.
LEMMA Pops ==
  ASSUME CallsInv, cstack # <<>>, Top.k # "resume", NEW d, IsFront(cstack, d)
  PROVE  /\ d \in Seq(Acts) /\ Len(d) \in Nat /\ Len(cstack) = Len(d) + 1 /\ Agree(cstack, d, Len(d))
         /\ (d = <<>> <=> Len(d) = 0) /\ Thread(d) = Cur /\ IsPush(d, Top, cstack)
         /\ d # <<>> => d[Len(d)] = cstack[Len(d)] /\ d[Len(d)] \in Acts /\ Reach(d[Len(d)]) <= Top.ci
         /\ Nested(d, Len(d)) /\ OnTop(d, Len(d), Top)
<1> DEFINE n == Len(cstack)
           m == Len(cstack) - 1
<1>1. /\ cstack \in Seq(Acts) /\ n \in Nat \ {0} /\ Whole(cstack, th) /\ Top = cstack[n] /\ Top \in Acts
      /\ Top.t = Cur /\ Based(cstack, n) /\ Nested(cstack, n) /\ \A i \in 1..n : cstack[i] \in Acts
  <2>1. Standing(cstack, th) /\ Nested(cstack, n)
    BY Current DEF Whole, Standing
  <2>2. \A i \in 1..n : cstack[i] \in Acts
    BY <2>1, StandingFacts
  <2>3. n \in Nat \ {0}
    BY Current
  <2> QED BY <2>1, <2>2, <2>3, Current
<1>2. /\ d = SubSeq(cstack, 1, m) /\ m \in 0..n /\ d \in Seq(Acts) /\ Len(d) = m
      /\ \A p \in 1..m : d[p] = cstack[p]
  BY <1>1, Fronted DEF IsFront
<1>3. m \in Nat /\ n = m + 1 /\ m <= n
  BY <1>1
<1>4. Agree(cstack, d, m)
  BY <1>2 DEF Agree
<1>5. d = <<>> <=> m = 0
  BY <1>2, EmptySeq
<1>6. IsPush(d, Top, cstack)
  <2>1. Append(d, Top) \in Seq(Acts) /\ Len(Append(d, Top)) = n
    BY <1>1, <1>2, <1>3
  <2>2. ASSUME NEW i \in 1..n PROVE Append(d, Top)[i] = cstack[i]
    <3>1. CASE i = n
      <4>1. Append(d, Top)[Len(d) + 1] = Top
        BY <1>1, <1>2
      <4> QED BY <1>1, <1>2, <1>3, <3>1, <4>1
    <3>2. CASE i # n
      <4>1. i \in 1..Len(d) /\ i \in 1..m
        BY <1>1, <1>2, <3>2
      <4>2. Append(d, Top)[i] = d[i]
        BY <1>1, <1>2, <4>1
      <4> QED BY <1>2, <4>1, <4>2
    <3> QED BY <3>1, <3>2
  <2>3. Append(d, Top) = cstack
    BY <1>1, <2>1, <2>2, SeqEqual
  <2> QED BY <2>3 DEF IsPush
<1> HIDE DEF n, m
<1>7. Nested(d, m)
  BY <1>1, <1>3, <1>4, NestedBelow
<1>8. Thread(d) = Cur
  <2>1. CASE m = 0
    <3>1. cstack[1].t = Main /\ n = 1
      BY <1>1, <1>3, <2>1 DEF Based
    <3> QED BY <1>1, <1>5, <2>1, <3>1 DEF Thread
  <2>2. CASE m # 0
    <3>1. m \in 1..n /\ n \in 1..n /\ m <= n /\ \A k \in (m + 1)..n : k = n
      BY <1>1, <1>3, <2>2
    <3>2. cstack[m].t = cstack[n].t
      BY <1>1, <3>1 DEF Nested, Threaded
    <3>3. Thread(d) = d[m].t /\ m \in 1..m
      BY <1>2, <1>3, <1>5, <2>2 DEF Thread, m
    <3> QED BY <1>1, <1>2, <3>2, <3>3
  <2> QED BY <2>1, <2>2
<1>9. ASSUME m # 0 PROVE d[m] = cstack[m] /\ d[m] \in Acts /\ Reach(d[m]) <= Top.ci
  <2>1. m \in 1..n /\ n \in 1..n /\ m < n /\ m \in 1..m
    BY <1>1, <1>3, <1>9
  <2>2. d[m] = cstack[m] /\ d[m] \in Acts
    BY <1>1, <1>2, <2>1
  <2>3. cstack[m].t = cstack[n].t
    BY <1>1, <1>2, <1>5, <1>8, <1>9, <2>2 DEF Thread, m
  <2> QED BY <1>1, <2>1, <2>2, <2>3 DEF Nested, Rising
<1>10. OnTop(d, m, Top)
  <2>1. /\ Depth(cstack, n) = Depth(d, m) + (IF Top.k \in {"call", "resume"} THEN 1 ELSE 0)
        /\ \A t : Hooked(cstack, n, t) <=> Hooked(d, m, t) \/ (Top.t = t /\ Top.k = "hook")
    <3>1. d \in Seq(Acts) /\ Top \in Acts /\ Len(d) = m /\ Len(cstack) = n
      BY <1>1, <1>2 DEF n, m
    <3>2. /\ Depth(cstack, Len(cstack)) = Depth(d, Len(d)) + (IF Top.k \in {"call", "resume"} THEN 1 ELSE 0)
          /\ \A t : Hooked(cstack, Len(cstack), t) <=> Hooked(d, Len(d), t) \/ (Top.t = t /\ Top.k = "hook")
      BY <1>6, <3>1, Appended
    <3> QED BY <3>1, <3>2
  <2>2. /\ \A t : Hooked(d, m, t) <=> Hooked(cstack, m, t)
        /\ \A t, e : Handler(d, m, t, e) <=> Handler(cstack, m, t, e)
    BY <1>3, <1>4, DepthSame
  <2>3. /\ n - 1 = m /\ (n = 1 <=> m = 0) /\ (n > 1 <=> m > 0) /\ Depth(d, m) \in Nat
        /\ m # 0 => d[m] = cstack[n - 1]
    BY <1>3, <1>9, DepthNat
  <2> HIDE DEF Depth, Hooked, Handler
  <2>4. m = 0 => Top.k = "pcall" /\ Top.t = Main /\ Top.ci = 1 /\ Top.errfunc = 0
    BY <1>1, <2>3 DEF Based
  <2>5. CASE m = 0
    BY <1>1, <2>1, <2>3, <2>4, <2>5 DEF Based, OnTop
  <2>6. CASE m # 0
    <3>1. m > 0 /\ n > 1
      BY <1>3, <2>6
    <3> QED BY <1>1, <2>1, <2>2, <2>3, <3>1 DEF Based, OnTop
  <2> QED BY <2>5, <2>6
<1>11. Len(d) = m /\ n = Len(cstack)
  BY <1>2 DEF n, m
<1> QED BY <1>1, <1>2, <1>3, <1>4, <1>5, <1>6, <1>7, <1>8, <1>9, <1>10, <1>11

\* An activation ends, and the running thread goes on below it.
LEMMA Returns ==
  ASSUME CallsInv, cstack # <<>>, Top.k # "resume", NEW d, IsFront(cstack, d),
         NEW l \in LState, NEW g, IsStep(l, g),
         RoomIn(l), Steady(L, l), Cur = Main => l.status = "OK",
         d # <<>> => Keeps(L.ci, l.ci, Reach(d[Len(d)])),
         l.nCcalls = Depth(d, Len(d)), l.allowhook = ~Hooked(d, Len(d), Cur),
         l.errfunc # 0 => Handler(d, Len(d), Cur, l.errfunc) /\ L.ci[l.errfunc] = "xpcall"
  PROVE  Whole(d, g) /\ g[Thread(d)] = l /\ Thread(d) = Cur
<1>1. /\ Whole(cstack, th) /\ Cur = Thread(cstack) /\ Cur \in Threads
      /\ g \in [Threads -> LState] /\ g[Cur] = l /\ (\A t \in Threads \ {Cur} : g[t] = th[t]) /\ th[Cur] = L
  BY Current, Stepped
<1>2. /\ d \in Seq(Acts) /\ Len(d) \in Nat /\ Len(cstack) = Len(d) + 1 /\ Agree(cstack, d, Len(d))
      /\ (d = <<>> <=> Len(d) = 0) /\ Thread(d) = Cur /\ Nested(d, Len(d))
  BY Pops
<1>3. Attached(l, d, Len(d), Cur)
  <2>1. ASSUME l.errfunc # 0 PROVE l.errfunc <= Len(l.ci) /\ l.ci[l.errfunc] = "xpcall"
    <3>1. Handler(d, Len(d), Cur, l.errfunc) /\ L.ci[l.errfunc] = "xpcall"
      BY <2>1
    <3>2. (\A i \in 1..Len(d) : d[i] \in Acts) /\ Len(l.ci) \in Nat
      BY <1>2 DEF LState
    <3>3. d # <<>>
      BY <1>2, <3>1 DEF Handler
    <3>4. d[Len(d)].t = Cur /\ Keeps(L.ci, l.ci, Reach(d[Len(d)]))
      BY <1>2, <3>3 DEF Thread
    <3>5. l.errfunc \in Nat \ {0} /\ l.errfunc <= d[Len(d)].ci
      BY <1>2, <3>1, <3>2, <3>4, HandlerBelow
    <3>6. d[Len(d)].ci \in Nat /\ Reach(d[Len(d)]) \in Nat /\ d[Len(d)].ci <= Reach(d[Len(d)])
      BY <1>2, <3>2, <3>3, ActFacts
    <3>7. l.errfunc \in 1..Reach(d[Len(d)]) /\ Reach(d[Len(d)]) <= Len(l.ci)
      BY <3>2, <3>4, <3>5, <3>6 DEF Keeps
    <3> QED BY <3>1, <3>2, <3>4, <3>6, <3>7 DEF Keeps
  <2> QED BY <2>1 DEF Attached
<1>4. Len(d) <= Len(cstack)
  BY <1>2
<1>5. Whole(d, g)
  BY <1>1, <1>2, <1>3, <1>4, CutWhole
<1> QED BY <1>1, <1>2, <1>5

\* The running thread makes a call.
LEMMA Enters ==
  ASSUME CallsInv, NEW a \in Acts, a.t = Cur, a.k # "resume", OnTop(cstack, Len(cstack), a),
         NEW d, IsPush(cstack, a, d), NEW l \in LState, NEW g, IsStep(l, g),
         RoomIn(l), Steady(L, l), Cur = Main => l.status = "OK",
         cstack # <<>> => Reach(Top) <= a.ci /\ Keeps(L.ci, l.ci, Reach(Top)),
         FramesOf(a, l.ci), AttachedOn(l, cstack, a)
  PROVE  Whole(d, g) /\ g[Thread(d)] = l /\ Thread(d) = Cur
<1>1. /\ Whole(cstack, th) /\ Cur = Thread(cstack) /\ Cur \in Threads /\ cstack \in Seq(Acts)
      /\ g \in [Threads -> LState] /\ g[Cur] = l /\ (\A t \in Threads \ {Cur} : g[t] = th[t]) /\ th[Cur] = L
      /\ cstack # <<>> => Top = cstack[Len(cstack)]
  BY Current, Stepped
<1>2. Thread(d) = Cur
  BY <1>1, Appended
<1>3. Whole(d, g)
  BY <1>1, Adds
<1> QED BY <1>1, <1>2, <1>3

\* What the running thread has counted belongs to the activations below, too.
LEMMA Survives ==
  ASSUME CallsInv, cstack # <<>>, Top.k # "resume", NEW d, IsFront(cstack, d)
  PROVE  /\ L.nCcalls = Depth(d, Len(d)) + (IF Top.k = "call" THEN 1 ELSE 0)
         /\ L.allowhook = (~Hooked(d, Len(d), Cur) /\ Top.k # "hook")
         /\ Top.k # "pcall" /\ L.errfunc # 0 => Handler(d, Len(d), Cur, L.errfunc) /\ L.ci[L.errfunc] = "xpcall"
         /\ Depth(d, Len(d)) \in Nat /\ L.nCcalls = Depth(cstack, Len(cstack))
<1>1. Attached(L, cstack, Len(cstack), Cur) /\ Top \in Acts /\ Top.t = Cur
  BY Current
<1>2. d \in Seq(Acts) /\ IsPush(d, Top, cstack) /\ Len(d) \in Nat
  BY Pops
<1>3. /\ Depth(cstack, Len(cstack)) = Depth(d, Len(d)) + (IF Top.k \in {"call", "resume"} THEN 1 ELSE 0)
      /\ \A t : Hooked(cstack, Len(cstack), t) <=> Hooked(d, Len(d), t) \/ (Top.t = t /\ Top.k = "hook")
      /\ \A t, e : Handler(cstack, Len(cstack), t, e) <=>
                     Handler(d, Len(d), t, e) \/ (Top.t = t /\ Top.k = "pcall" /\ Top.ci = e)
  BY <1>1, <1>2, Appended
<1>4. Depth(d, Len(d)) \in Nat
  BY <1>2, DepthNat
<1> HIDE DEF Depth, Hooked, Handler
<1>5. L.nCcalls = Depth(d, Len(d)) + (IF Top.k = "call" THEN 1 ELSE 0)
  BY <1>1, <1>3, <1>4 DEF Attached
<1>6. L.allowhook = (~Hooked(d, Len(d), Cur) /\ Top.k # "hook")
  <2>1. L.allowhook = ~Hooked(cstack, Len(cstack), Cur)
    BY <1>1 DEF Attached
  <2>2. Hooked(cstack, Len(cstack), Cur) <=> Hooked(d, Len(d), Cur) \/ Top.k = "hook"
    BY <1>1, <1>3
  <2> QED BY <2>1, <2>2
<1>7. Top.k # "pcall" /\ L.errfunc # 0 => Handler(d, Len(d), Cur, L.errfunc) /\ L.ci[L.errfunc] = "xpcall"
  BY <1>1, <1>3 DEF Attached
<1> QED BY <1>1, <1>4, <1>5, <1>6, <1>7 DEF Attached

\* A frame goes, or has its work done.
LEMMA Poscalled ==
  ASSUME NEW l \in LState, RoomIn(l), Len(l.ci) >= 2
  PROVE  /\ luaD_poscall(l) \in LState /\ RoomIn(luaD_poscall(l)) /\ Alike(l, luaD_poscall(l))
         /\ Len(luaD_poscall(l).ci) = Len(l.ci) - 1 /\ Keeps(l.ci, luaD_poscall(l).ci, Len(l.ci) - 1)
<1> DEFINE s == Front(l.ci)
<1>1. l.ci \in Seq(Frame) /\ l.ci # <<>> /\ Len(l.ci) \in Nat /\ l.size_ci \in Nat
  <2>1. l.ci \in Seq(Frame) /\ Len(l.ci) \in Nat /\ l.size_ci \in Nat
    BY DEF LState
  <2> QED BY <2>1, EmptySeq
<1>2. s \in Seq(Frame) /\ Len(s) = Len(l.ci) - 1 /\ \A p \in 1..(Len(l.ci) - 1) : s[p] = l.ci[p]
  BY <1>1, Fronted
<1>3. luaD_poscall(l) = [l EXCEPT !.ci = s]
  BY DEF luaD_poscall
<1> HIDE DEF s
<1>4. luaD_poscall(l) \in LState /\ Alike(l, luaD_poscall(l)) /\ luaD_poscall(l).ci = s
      /\ luaD_poscall(l).size_ci = l.size_ci
  BY <1>2, <1>3 DEF LState, Alike
<1>5. RoomIn(luaD_poscall(l))
  BY <1>1, <1>2, <1>4 DEF RoomIn
<1>6. Keeps(l.ci, s, Len(l.ci) - 1)
  BY <1>1, <1>2 DEF Keeps
<1> QED BY <1>2, <1>4, <1>5, <1>6

\* A C function that has done its work is replaced by its results.
LEMMA Serves ==
  ASSUME NEW l \in LState, RoomIn(l)
  PROVE  /\ Served(l) \in LState /\ RoomIn(Served(l)) /\ Alike(l, Served(l))
         /\ Len(Served(l).ci) = Len(l.ci) /\ Keeps(l.ci, Served(l).ci, Len(l.ci) - 1)
         /\ Len(l.ci) = 1 => Served(l) = l
         /\ Len(l.ci) # 1 => Last(Served(l).ci) = "done"
<1>1. l.ci \in Seq(Frame) /\ Len(l.ci) \in Nat \ {0} /\ l.size_ci \in Nat /\ l.ci # <<>>
  <2>1. l.ci \in Seq(Frame) /\ Len(l.ci) \in Nat \ {0} /\ l.size_ci \in Nat
    BY DEF LState, RoomIn
  <2> QED BY <2>1, EmptySeq
<1>2. CASE Len(l.ci) = 1
  <2>1. Served(l) = l
    BY <1>2 DEF Served
  <2>2. Keeps(l.ci, l.ci, Len(l.ci) - 1)
    BY <1>1, <1>2 DEF Keeps
  <2> QED BY <1>2, <2>1, <2>2 DEF Alike
<1>3. CASE Len(l.ci) # 1
  <2> DEFINE s == Front(l.ci)
             e == Append(s, "done")
  <2>1. s \in Seq(Frame) /\ Len(s) = Len(l.ci) - 1 /\ \A p \in 1..(Len(l.ci) - 1) : s[p] = l.ci[p]
    BY <1>1, Fronted
  <2> HIDE DEF s
  <2>2. e \in Seq(Frame) /\ Len(e) = Len(s) + 1 /\ e[Len(s) + 1] = "done" /\ \A p \in 1..Len(s) : e[p] = s[p]
    BY <2>1 DEF Frame
  <2> HIDE DEF e
  <2>3. Served(l) = [l EXCEPT !.ci = e]
    BY <1>3 DEF Served, e, s
  <2>4. Served(l) \in LState /\ Alike(l, Served(l)) /\ Served(l).ci = e /\ Served(l).size_ci = l.size_ci
    BY <2>2, <2>3 DEF LState, Alike
  <2>5. Len(e) = Len(l.ci) /\ 1 \in 1..Len(s) /\ e[1] = l.ci[1]
    <3>1. Len(l.ci) \in Nat /\ Len(l.ci) > 1 /\ Len(s) = Len(l.ci) - 1 /\ Len(e) = Len(s) + 1
      <4>1. Len(l.ci) \in Nat /\ Len(l.ci) # 0
        BY <1>1
      <4> DEFINE N == Len(l.ci)
      <4>2. Len(l.ci) > 1
        <5>1. N \in Nat /\ N # 0 /\ N # 1
          BY <1>3, <4>1
        <5> HIDE DEF N
        <5>2. N > 1
          BY <5>1
        <5> QED BY <5>2 DEF N
      <4>3. Len(s) = Len(l.ci) - 1
        BY <2>1
      <4>4. Len(e) = Len(s) + 1
        BY <2>2
      <4> QED BY <4>1, <4>2, <4>3, <4>4
    <3>2. Len(e) = Len(l.ci) /\ 1 \in 1..Len(s) /\ 1 \in 1..(Len(l.ci) - 1)
      BY <3>1
    <3> QED BY <2>1, <2>2, <3>2
  <2>6. RoomIn(Served(l))
    BY <2>4, <2>5 DEF RoomIn
  <2>7. Keeps(l.ci, e, Len(l.ci) - 1)
    BY <1>1, <2>1, <2>2 DEF Keeps
  <2>8. Last(e) = "done"
    BY <1>1, <2>1, <2>2 DEF Last
  <2> QED BY <1>3, <2>4, <2>5, <2>6, <2>7, <2>8
<1> QED BY <1>2, <1>3

\* luaV_execute goes on with more functions or fewer.
IsAgain(x, d) == d = [cstack EXCEPT ![Len(cstack)].nexeccalls = x]

\* luaV_execute goes on with x functions in its activation.
LEMMA Executes ==
  ASSUME CallsInv, cstack # <<>>, Top.k = "execute", NEW x \in Nat \ {0}, NEW d, IsAgain(x, d),
         NEW l \in LState, NEW g, IsStep(l, g), RoomIn(l), Alike(L, l), Cur = Main => l.status = "OK",
         Keeps(L.ci, l.ci, Top.ci), Top.ci + x <= Len(l.ci),
         \A p \in (Top.ci + 1)..(Top.ci + x) : l.ci[p] = "lua"
  PROVE  /\ Whole(d, g) /\ g[Thread(d)] = l /\ Thread(d) = Cur /\ d # <<>>
         /\ d[Len(d)].k = "execute" /\ Reach(d[Len(d)]) = Top.ci + x
         /\ Depth(d, Len(d)) = Depth(cstack, Len(cstack))
<1> DEFINE f == Front(cstack)
           a == luaV_execute(Cur, x, Top.ci)
           n == Len(cstack)
<1>1. /\ cstack \in Seq(Acts) /\ n \in Nat \ {0} /\ Top = cstack[n] /\ Top \in Acts /\ Top.t = Cur /\ Cur \in Threads
  BY Current
<1>2. Top.ci \in Nat \ {0} /\ Top \in Execute
  BY <1>1 DEF Acts, Plain, Guard, Execute
<1>3. IsFront(cstack, f) /\ Top.k # "resume"
  BY DEF IsFront
<1> HIDE DEF f
<1>4. /\ f \in Seq(Acts) /\ Len(f) \in Nat /\ n = Len(f) + 1 /\ Agree(cstack, f, Len(f))
      /\ (f = <<>> <=> Len(f) = 0) /\ Thread(f) = Cur /\ IsPush(f, Top, cstack)
      /\ OnTop(f, Len(f), Top)
  BY <1>3, Pops
<1>5. /\ L.nCcalls = Depth(f, Len(f)) /\ L.nCcalls = Depth(cstack, Len(cstack))
      /\ L.allowhook = ~Hooked(f, Len(f), Cur)
      /\ L.errfunc # 0 => Handler(f, Len(f), Cur, L.errfunc) /\ L.ci[L.errfunc] = "xpcall"
  BY <1>3, Survives
<1>6. a \in Acts /\ a.k = "execute" /\ a.t = Cur /\ a.ci = Top.ci /\ a.nexeccalls = x /\ Reach(a) = Top.ci + x
  BY <1>1, <1>2 DEF luaV_execute, Acts, Execute, Reach
<1>7. f # <<>> /\ f[Len(f)].k \in {"call", "resume"} /\ f[Len(f)].ci = Top.ci /\ Reach(f[Len(f)]) = Top.ci
  BY <1>4 DEF OnTop, Reach
<1>8. Steady(L, l) /\ l.nCcalls = L.nCcalls /\ l.allowhook = L.allowhook /\ l.errfunc = L.errfunc
  BY DEF Alike, Steady
<1>9. Whole(f, g) /\ g[Cur] = l
  <2>1. l.nCcalls = Depth(f, Len(f)) /\ l.allowhook = ~Hooked(f, Len(f), Cur)
        /\ (l.errfunc # 0 => Handler(f, Len(f), Cur, l.errfunc) /\ L.ci[l.errfunc] = "xpcall")
    BY <1>5, <1>8
  <2>2. Steady(L, l) /\ (f # <<>> => Keeps(L.ci, l.ci, Reach(f[Len(f)])))
    BY <1>7, <1>8
  <2>3. Whole(f, g) /\ g[Thread(f)] = l /\ Thread(f) = Cur
    BY <1>3, <2>1, <2>2, Returns
  <2> QED BY <2>3
<1>10. g \in [Threads -> LState]
  BY Stepped
<1>11. OnTop(f, Len(f), a)
  BY <1>6, <1>7, <1>4 DEF OnTop
<1>12. IsPush(f, a, d)
  <2>1. a = [Top EXCEPT !.nexeccalls = x]
    BY <1>2, <1>1 DEF a, luaV_execute, Execute
  <2>2. d = [cstack EXCEPT ![n] = a]
    <3>1. n \in DOMAIN cstack
      BY <1>1
    <3> QED BY <1>1, <2>1, <3>1 DEF IsAgain
  <2>3. d \in Seq(Acts) /\ Len(d) = n /\ d[n] = a /\ \A i \in 1..Len(f) : d[i] = cstack[i]
    BY <1>1, <1>4, <1>6, <2>2
  <2>4. Append(f, a) \in Seq(Acts) /\ Len(Append(f, a)) = n /\ Append(f, a)[n] = a
        /\ \A i \in 1..Len(f) : Append(f, a)[i] = f[i]
    BY <1>4, <1>6
  <2>5. \A i \in 1..n : d[i] = Append(f, a)[i]
    <3>1. \A i \in 1..n : i = n \/ i \in 1..Len(f)
      BY <1>4
    <3> QED BY <1>4, <2>3, <2>4, <3>1 DEF Agree
  <2> QED BY <2>3, <2>4, <2>5, SeqEqual DEF IsPush
<1>13. FramesOf(a, l.ci)
  BY <1>6 DEF FramesOf
<1>14. AttachedOn(l, f, a)
  <2>1. Attached(l, f, Len(f), Cur)
    BY <1>4, <1>9 DEF Whole
  <2>2. l.nCcalls = Depth(f, Len(f)) + (IF a.k \in {"call", "resume"} THEN 1 ELSE 0)
    BY <1>4, <1>6, <2>1, DepthNat DEF Attached
  <2>3. l.allowhook = (~Hooked(f, Len(f), a.t) /\ a.k # "hook")
    <3>1. l.allowhook = ~Hooked(f, Len(f), Cur) /\ a.t = Cur /\ a.k # "hook"
      BY <1>6, <2>1 DEF Attached
    <3>2. (~Hooked(f, Len(f), a.t) /\ a.k # "hook") = ~Hooked(f, Len(f), Cur)
      BY <3>1
    <3> QED BY <3>1, <3>2
  <2>4. l.errfunc # 0 => Handler(f, Len(f), a.t, l.errfunc) /\ l.errfunc <= Len(l.ci) /\ l.ci[l.errfunc] = "xpcall"
    BY <1>6, <2>1 DEF Attached
  <2> QED BY <2>2, <2>3, <2>4 DEF AttachedOn
<1>15. Keeps(l.ci, l.ci, Top.ci)
  BY DEF Keeps
<1>16. Whole(d, g)
  <2>1. Thread(f) = Cur /\ Steady(g[Cur], g[Cur]) /\ a.k # "resume" /\ (Cur = Main => g[Main].status = "OK")
    BY <1>4, <1>6, <1>9 DEF Steady
  <2>2. RoomIn(g[Cur]) /\ (f # <<>> => Reach(f[Len(f)]) <= a.ci) /\ FramesOf(a, g[Cur].ci)
        /\ AttachedOn(g[Cur], f, a) /\ (f # <<>> => Keeps(g[Cur].ci, g[Cur].ci, Reach(f[Len(f)])))
    BY <1>2, <1>6, <1>7, <1>9, <1>13, <1>14, <1>15
  <2> QED BY <1>4, <1>6, <1>9, <1>10, <1>11, <1>12, <2>1, <2>2, Adds
<1>17. /\ Thread(d) = Cur /\ d # <<>> /\ d[Len(d)] = a /\ Depth(d, Len(d)) = Depth(f, Len(f))
  <2>1. /\ Len(d) = Len(f) + 1 /\ d # <<>> /\ d[Len(f) + 1] = a /\ Thread(d) = a.t
        /\ Depth(d, Len(d)) = Depth(f, Len(f)) + (IF a.k \in {"call", "resume"} THEN 1 ELSE 0)
    BY <1>4, <1>6, <1>12, Appended
  <2> QED BY <1>4, <1>6, <2>1, DepthNat
<1> QED BY <1>5, <1>6, <1>9, <1>16, <1>17

-----------------------------------------------------------------------------
(* Functions call and return.                                              *)

\* A Lua function runs in luaV_execute; a C function above the innermost activation.
LEMMA LuaRuns ==
  ASSUME CallsInv, todo = Run, cstack # <<>>, f_isLua
  PROVE  /\ Top.k = "execute" /\ L.status = "OK" /\ Len(L.ci) = Reach(Top)
         /\ Top.nexeccalls \in Nat \ {0} /\ Top.ci \in Nat \ {0} /\ Reach(Top) = Top.ci + Top.nexeccalls
         /\ \A p \in (Top.ci + 1)..Reach(Top) : L.ci[p] = "lua"
<1>1. AtRun
  BY WhenRun
<1>2. L.status = "OK" /\ Top.k = "execute" /\ Len(L.ci) = Reach(Top)
  BY <1>1 DEF AtRun, f_isLua
<1>3. Top \in Acts /\ FramesOf(Top, L.ci)
  BY Current
<1> QED BY <1>2, <1>3, ActFacts DEF FramesOf

\* A C function runs above what its innermost activation has called.
LEMMA CRuns ==
  ASSUME CallsInv, todo = Run, cstack # <<>>, Last(L.ci) # "lua"
  PROVE  /\ Top.k \in {"execute", "call"} /\ L.status = "OK" /\ Len(L.ci) = Reach(Top) + 1
         /\ Reach(Top) \in Nat \ {0}
<1>1. AtRun
  BY WhenRun
<1>2. Top \in Acts /\ FramesOf(Top, L.ci)
  BY Current
<1>3. /\ Reach(Top) \in Nat /\ Top.ci \in Nat \ {0} /\ Top.ci <= Reach(Top)
      /\ Top.k = "execute" => Top.nexeccalls \in Nat \ {0} /\ Reach(Top) = Top.ci + Top.nexeccalls
  BY <1>2, ActFacts
<1>4. ~(Top.k = "execute" /\ Len(L.ci) = Reach(Top))
  <2> SUFFICES ASSUME Top.k = "execute", Len(L.ci) = Reach(Top) PROVE FALSE
    OBVIOUS
  <2>1. Len(L.ci) \in (Top.ci + 1)..Reach(Top)
    BY <1>3
  <2>2. L.ci[Len(L.ci)] = "lua"
    BY <1>2, <2>1 DEF FramesOf
  <2> QED BY <2>2 DEF Last
<1> QED BY <1>1, <1>3, <1>4 DEF AtRun

\* OP_RETURN leaves luaV_execute, or goes on with the calling Lua function in it.
LEMMA OpReturnKeeps == CallsInv /\ OpReturn => CallsInv'
<1> SUFFICES ASSUME CallsInv, OpReturn PROVE CallsInv'
  OBVIOUS
<1> DEFINE l == luaD_poscall(L)
<1>1. /\ todo = Run /\ cstack # <<>> /\ f_isLua
      /\ IF Top.nexeccalls = 1 THEN Does(l, Front(cstack), Back)
         ELSE Does(l, [cstack EXCEPT ![Len(cstack)].nexeccalls = @ - 1], Run)
  BY DEF OpReturn
<1>2. /\ Top.k = "execute" /\ L.status = "OK" /\ Len(L.ci) = Reach(Top)
      /\ Top.nexeccalls \in Nat \ {0} /\ Top.ci \in Nat \ {0} /\ Reach(Top) = Top.ci + Top.nexeccalls
      /\ \A p \in (Top.ci + 1)..Reach(Top) : L.ci[p] = "lua"
  BY <1>1, LuaRuns
<1>3. L \in LState /\ RoomIn(L) /\ Len(L.ci) >= 2 /\ Top = cstack[Len(cstack)] /\ Depth(cstack, Len(cstack)) < Limit
  BY <1>1, <1>2, Current, WhenRun
<1>4. /\ l \in LState /\ RoomIn(l) /\ Alike(L, l)
      /\ Len(l.ci) = Len(L.ci) - 1 /\ Keeps(L.ci, l.ci, Len(L.ci) - 1)
  BY <1>3, Poscalled
<1> HIDE DEF l
<1>5. l.status = "OK" /\ Steady(L, l) /\ l.nCcalls = L.nCcalls /\ l.allowhook = L.allowhook /\ l.errfunc = L.errfunc
  BY <1>2, <1>4 DEF Alike, Steady
<1>6. IsStep(l, th')
  BY <1>1 DEF Does, IsStep
<1>7. CASE Top.nexeccalls = 1
  <2> DEFINE d == cstack'
  <2>1. cstack' = d /\ IsFront(cstack, d) /\ todo' = Back
    BY <1>1, <1>7 DEF Does, IsFront
  <2> HIDE DEF d
  <2>2. OnTop(d, Len(d), Top) /\ d \in Seq(Acts) /\ (d = <<>> <=> Len(d) = 0) /\ Thread(d) = Cur
    BY <1>1, <1>2, <2>1, Pops
  <2>3. d # <<>> /\ d[Len(d)].k \in {"call", "resume"} /\ d[Len(d)].ci = Top.ci /\ Reach(d[Len(d)]) = Top.ci
    BY <1>2, <2>2 DEF OnTop, Reach
  <2>4. /\ L.nCcalls = Depth(d, Len(d)) /\ L.nCcalls = Depth(cstack, Len(cstack))
        /\ L.allowhook = ~Hooked(d, Len(d), Cur)
        /\ L.errfunc # 0 => Handler(d, Len(d), Cur, L.errfunc) /\ L.ci[L.errfunc] = "xpcall"
    BY <1>1, <1>2, <2>1, Survives
  <2>5. Len(L.ci) - 1 = Top.ci
    BY <1>2, <1>7
  <2>6. Whole(d, th') /\ th'[Thread(d)] = l
    <3>1. l.nCcalls = Depth(d, Len(d)) /\ l.allowhook = ~Hooked(d, Len(d), Cur)
      BY <1>5, <2>4
    <3>2. l.errfunc # 0 => Handler(d, Len(d), Cur, l.errfunc) /\ L.ci[l.errfunc] = "xpcall"
      BY <1>5, <2>4
    <3>3. Keeps(L.ci, l.ci, Reach(d[Len(d)])) /\ Top.k # "resume" /\ (Cur = Main => l.status = "OK")
      BY <1>2, <1>4, <1>5, <2>3, <2>5
    <3> QED BY <1>1, <1>4, <1>5, <1>6, <2>1, <3>1, <3>2, <3>3, Returns
  <2>7. Depth(d, Len(d)) < Limit /\ d[Len(d)].k # "execute" /\ Len(l.ci) = d[Len(d)].ci
    BY <1>3, <1>4, <2>3, <2>4, <2>5
  <2> QED BY <1>5, <2>1, <2>3, <2>6, <2>7, EndsInBack
<1>8. CASE Top.nexeccalls # 1
  <2> DEFINE d == cstack'
             x == Top.nexeccalls - 1
  <2>1. cstack' = d /\ IsAgain(x, d) /\ todo' = Run
    BY <1>1, <1>3, <1>8 DEF Does, IsAgain
  <2>2. x \in Nat \ {0} /\ Reach(Top) = Top.ci + x + 1 /\ Len(l.ci) = Top.ci + x
    BY <1>2, <1>4, <1>8
  <2> HIDE DEF d, x
  <2>3. Keeps(L.ci, l.ci, Top.ci) /\ \A p \in (Top.ci + 1)..(Top.ci + x) : l.ci[p] = "lua"
    <3>1. Len(L.ci) - 1 = Top.ci + x /\ Top.ci \in Nat /\ x \in Nat
      BY <1>2, <2>2
    <3>2. \A p \in 1..(Top.ci + x) : l.ci[p] = L.ci[p]
      BY <1>4, <3>1 DEF Keeps
    <3>3. \A p \in 1..Top.ci : p \in 1..(Top.ci + x)
      BY <3>1
    <3>4. Top.ci <= Len(l.ci)
      BY <2>2, <3>1
    <3>5. \A p \in (Top.ci + 1)..(Top.ci + x) : p \in 1..(Top.ci + x) /\ p \in (Top.ci + 1)..Reach(Top)
      BY <2>2, <3>1
    <3> QED BY <1>2, <3>2, <3>3, <3>4, <3>5 DEF Keeps
  <2>4. Top.ci + x <= Len(l.ci)
    BY <1>2, <2>2
  <2>5. /\ Whole(d, th') /\ th'[Thread(d)] = l /\ d # <<>>
        /\ d[Len(d)].k = "execute" /\ Reach(d[Len(d)]) = Top.ci + x
        /\ Depth(d, Len(d)) = Depth(cstack, Len(cstack))
    <3>1. /\ CallsInv /\ cstack # <<>> /\ Top.k = "execute" /\ IsStep(l, th') /\ RoomIn(l) /\ Alike(L, l)
          /\ l \in LState /\ (Cur = Main => l.status = "OK")
      BY <1>1, <1>2, <1>4, <1>5, <1>6
    <3>2. x \in Nat \ {0} /\ IsAgain(x, d) /\ Keeps(L.ci, l.ci, Top.ci) /\ Top.ci + x <= Len(l.ci)
      BY <2>1, <2>2, <2>3, <2>4
    <3>3. \A p \in (Top.ci + 1)..(Top.ci + x) : l.ci[p] = "lua"
      BY <2>3
    <3> QED BY ONLY <3>1, <3>2, <3>3, Executes
  <2> QED BY <1>3, <1>5, <2>1, <2>2, <2>5, EndsInRun
<1> QED BY <1>7, <1>8

\* luaD_precall gets the results of a C function.
LEMMA CReturnKeeps == CallsInv /\ CReturn => CallsInv'
<1> SUFFICES ASSUME CallsInv, CReturn PROVE CallsInv'
  OBVIOUS
<1> DEFINE l == luaD_poscall(L)
<1>1. /\ todo = Run /\ cstack # <<>> /\ Last(L.ci) = "done" /\ IsStep(l, th')
      /\ th' = [th EXCEPT ![Cur] = l] /\ cstack' = cstack /\ todo' = IF Top.k = "execute" THEN Run ELSE Back
  BY DEF CReturn, Does, IsStep
<1>2. Top.k \in {"execute", "call"} /\ L.status = "OK" /\ Len(L.ci) = Reach(Top) + 1 /\ Reach(Top) \in Nat \ {0}
  BY <1>1, CRuns
<1>3. /\ L \in LState /\ RoomIn(L) /\ Len(L.ci) >= 2 /\ Top = cstack[Len(cstack)] /\ Depth(cstack, Len(cstack)) < Limit
      /\ Cur = Thread(cstack) /\ Top \in Acts
  BY <1>1, <1>2, Current, WhenRun
<1>4. /\ l \in LState /\ RoomIn(l) /\ Alike(L, l)
      /\ Len(l.ci) = Len(L.ci) - 1 /\ Keeps(L.ci, l.ci, Len(L.ci) - 1)
  BY <1>3, Poscalled
<1> HIDE DEF l
<1>5. /\ l.status = "OK" /\ Steady(L, l) /\ l.nCcalls = L.nCcalls /\ l.allowhook = L.allowhook
      /\ l.errfunc = L.errfunc /\ Keeps(L.ci, l.ci, Reach(Top)) /\ Len(l.ci) = Reach(Top)
  BY <1>2, <1>4 DEF Alike, Steady
<1>6. Whole(cstack', th')
  BY <1>1, <1>4, <1>5, Stays
<1>7. th'[Thread(cstack)] = l
  <2>1. IsStep(l, th') /\ l \in LState
    BY <1>1, <1>4
  <2>2. th'[Cur] = l
    BY <2>1, Stepped
  <2> QED BY <1>3, <2>2
<1>8. CASE Top.k = "execute"
  BY <1>1, <1>3, <1>5, <1>6, <1>7, <1>8, EndsInRun
<1>9. CASE Top.k = "call"
  <2>1. Len(l.ci) = Top.ci
    BY <1>3, <1>5, <1>9, ActFacts
  <2> QED BY <1>1, <1>3, <1>5, <1>6, <1>7, <1>9, <2>1, EndsInBack
<1> QED BY <1>2, <1>8, <1>9

\* luaD_call counts down and returns to its caller.
LEMMA ReturnFromCallKeeps == CallsInv /\ ReturnFromCall => CallsInv'
<1> SUFFICES ASSUME CallsInv, ReturnFromCall PROVE CallsInv'
  OBVIOUS
<1> DEFINE l == [L EXCEPT !.nCcalls = @ - 1]
           d == Front(cstack)
<1>1. /\ todo = Back /\ Top.k = "call" /\ IsStep(l, th') /\ IsFront(cstack, d) /\ cstack' = d
      /\ todo' = IF Last(d).k \in {"pcall", "error", "hook"} THEN Back ELSE Run
  BY DEF ReturnFromCall, Does, IsStep, IsFront
<1>2. cstack # <<>> /\ L.status = "OK" /\ Len(L.ci) = Top.ci /\ Depth(cstack, Len(cstack)) < Limit
  BY <1>1, WhenBack DEF AtBack
<1>3. L \in LState /\ RoomIn(L) /\ Top \in Acts
  BY <1>2, Current
<1> HIDE DEF d
<1>4. OnTop(d, Len(d), Top) /\ d \in Seq(Acts) /\ (d = <<>> <=> Len(d) = 0) /\ Len(d) \in Nat
  BY <1>1, <1>2, Pops
<1>5. d # <<>> /\ d[Len(d)].k \in {"pcall", "error", "hook", "execute"} /\ Reach(d[Len(d)]) = Top.ci
  BY <1>1, <1>4 DEF OnTop
<1>6. /\ L.nCcalls = Depth(d, Len(d)) + 1 /\ L.nCcalls = Depth(cstack, Len(cstack)) /\ Depth(d, Len(d)) \in Nat
      /\ L.allowhook = (~Hooked(d, Len(d), Cur) /\ TRUE)
      /\ L.errfunc # 0 => Handler(d, Len(d), Cur, L.errfunc) /\ L.ci[L.errfunc] = "xpcall"
  BY <1>1, <1>2, Survives
<1>7. /\ l \in LState /\ l.ci = L.ci /\ l.status = "OK" /\ Steady(L, l) /\ l.nCcalls = Depth(d, Len(d))
      /\ l.allowhook = L.allowhook /\ l.errfunc = L.errfunc /\ l.size_ci = L.size_ci
  <2>1. L.nCcalls - 1 = Depth(d, Len(d)) /\ L.nCcalls - 1 \in Nat
    BY <1>6
  <2> QED BY <1>2, <1>3, <2>1 DEF LState, Steady
<1> HIDE DEF l
<1>8. RoomIn(l)
  BY <1>3, <1>7 DEF RoomIn
<1>9. Keeps(L.ci, l.ci, Reach(d[Len(d)])) /\ Len(l.ci) = Reach(d[Len(d)])
  BY <1>2, <1>3, <1>5, <1>7, ActFacts DEF Keeps
<1>10. Whole(d, th') /\ th'[Thread(d)] = l
  <2>1. l.allowhook = ~Hooked(d, Len(d), Cur)
    BY <1>6, <1>7
  <2>2. l.errfunc # 0 => Handler(d, Len(d), Cur, l.errfunc) /\ L.ci[l.errfunc] = "xpcall"
    BY <1>6, <1>7
  <2>3. Top.k # "resume"
    BY <1>1
  <2> QED BY <1>1, <1>2, <1>7, <1>8, <1>9, <2>1, <2>2, <2>3, Returns
<1>11. Depth(d, Len(d)) < Limit
  BY <1>2, <1>6, LimitsHold
<1>12. CASE d[Len(d)].k = "execute"
  <2>1. todo' = Run
    BY <1>1, <1>12 DEF Last
  <2> QED BY <1>1, <1>5, <1>7, <1>9, <1>10, <1>11, <1>12, <2>1, EndsInRun
<1>13. CASE d[Len(d)].k \in {"pcall", "error", "hook"}
  <2>1. todo' = Back
    BY <1>1, <1>13 DEF Last
  <2>2. Len(l.ci) = d[Len(d)].ci /\ d[Len(d)].k # "execute"
    BY <1>9, <1>13 DEF Reach
  <2> QED BY <1>1, <1>5, <1>7, <1>10, <1>11, <2>1, <2>2, EndsInBack
<1> QED BY <1>5, <1>12, <1>13

\* callTMres calls a metamethod.
LEMMA callTMresKeeps == CallsInv /\ callTMres => CallsInv'
<1> SUFFICES ASSUME CallsInv, callTMres PROVE CallsInv'
  OBVIOUS
<1>1. PICK f \in {"lua", "yield"} : todo = Run /\ cstack # <<>> /\ f_isLua /\ Does(L, cstack, Call(f))
  BY DEF callTMres
<1>2. Top.k = "execute" /\ L.status = "OK" /\ Len(L.ci) = Reach(Top)
  BY <1>1, LuaRuns
<1>3. /\ Whole(cstack, th) /\ Top = cstack[Len(cstack)] /\ Depth(cstack, Len(cstack)) < Limit
      /\ Cur = Thread(cstack) /\ th \in [Threads -> LState] /\ Cur \in Threads
  BY <1>1, Current, WhenRun
<1>4. th' = th /\ cstack' = cstack /\ todo' = Call(f) /\ th[Thread(cstack)] = L
  BY <1>1, <1>3 DEF Does, L
<1> QED BY <1>1, <1>2, <1>3, <1>4, EndsInCall

-----------------------------------------------------------------------------
(* Errors and hooks.                                                       *)

\* A function raises an error, or memory runs out.
LEMMA FailKeeps == CallsInv /\ Fail => CallsInv'
<1> SUFFICES ASSUME CallsInv, Fail PROVE CallsInv'
  OBVIOUS
<1>1. PICK next \in {Raise, Throw("ERRMEM")} : todo = Run /\ cstack # <<>> /\ Does(L, cstack, next)
  BY DEF Fail
<1>2. /\ Whole(cstack, th) /\ Depth(cstack, Len(cstack)) < Limit
      /\ Cur = Thread(cstack) /\ th \in [Threads -> LState] /\ Cur \in Threads /\ Len(cstack) \in Nat
  BY <1>1, Current, WhenRun
<1>3. L.status = "OK"
  BY <1>1, WhenRun DEF AtRun
<1>4. th' = th /\ cstack' = cstack /\ todo' = next /\ th[Thread(cstack)] = L
  BY <1>1, <1>2 DEF Does, L
<1>5. Depth(cstack, Len(cstack)) <= Limit
  BY <1>2, LimitsHold, DepthNat
<1>6. todo' = Raise \/ todo' \in {Throw(e) : e \in Errors}
  BY <1>1, <1>4 DEF Errors
<1> QED BY <1>1, <1>2, <1>3, <1>4, <1>5, <1>6, EndsInError

\* luaG_errormsg calls the handler in force, or throws.
LEMMA luaG_errormsgKeeps == CallsInv /\ luaG_errormsg => CallsInv'
<1> SUFFICES ASSUME CallsInv, luaG_errormsg PROVE CallsInv'
  OBVIOUS
<1>1. todo = Raise /\ cstack # <<>> /\ L.status = "OK" /\ Depth(cstack, Len(cstack)) < Limit
  BY WhenRaise DEF luaG_errormsg, AtError
<1>2. /\ Whole(cstack, th) /\ Cur = Thread(cstack) /\ th \in [Threads -> LState] /\ Cur \in Threads
      /\ Len(cstack) \in Nat \ {0} /\ cstack \in Seq(Acts) /\ L \in LState /\ RoomIn(L) /\ Len(L.ci) \in Nat \ {0}
      /\ Attached(L, cstack, Len(cstack), Cur) /\ FramesOf(Top, L.ci) /\ Top \in Acts
  BY <1>1, Current
<1>3. CASE \E e \in {"ERRERR", "ERRRUN"} : Does(L, cstack, Throw(e))
  <2>1. PICK e \in {"ERRERR", "ERRRUN"} : Does(L, cstack, Throw(e))
    BY <1>3
  <2>2. th' = th /\ cstack' = cstack /\ todo' = Throw(e) /\ th[Thread(cstack)] = L
    BY <1>2, <2>1 DEF Does, L
  <2>3. Depth(cstack, Len(cstack)) <= Limit
    BY <1>1, <1>2, LimitsHold, DepthNat
  <2>4. todo' \in {Throw(x) : x \in Errors}
    BY <2>2 DEF Errors
  <2> QED BY <1>1, <1>2, <2>2, <2>3, <2>4, EndsInError
<1>4. CASE L.errfunc # 0 /\ Does(L, Activated("error"), Call("lua"))
  <2> DEFINE a == Activation("error", Cur, Len(L.ci))
             d == cstack'
  <2>1. IsStep(L, th') /\ cstack' = d /\ todo' = Call("lua") /\ IsPush(cstack, a, d)
    BY <1>4 DEF Does, IsStep, IsPush, Activated
  <2>2. a \in Acts /\ a.k = "error" /\ a.t = Cur /\ a.ci = Len(L.ci) /\ Reach(a) = Len(L.ci)
    BY <1>2 DEF Activation, Acts, Plain, Reach
  <2> HIDE DEF a, d
  <2>3. OnTop(cstack, Len(cstack), a)
    BY <1>2, <2>2 DEF OnTop
  <2>4. Reach(Top) <= a.ci /\ Keeps(L.ci, L.ci, Reach(Top)) /\ FramesOf(a, L.ci) /\ Steady(L, L)
    BY <1>2, <2>2 DEF FramesOf, Keeps, Steady
  <2>5. AttachedOn(L, cstack, a)
    <3>1. L.nCcalls = Depth(cstack, Len(cstack)) + (IF a.k \in {"call", "resume"} THEN 1 ELSE 0)
      BY <1>2, <2>2, DepthNat DEF Attached
    <3>2. L.allowhook = (~Hooked(cstack, Len(cstack), a.t) /\ a.k # "hook")
      <4>1. L.allowhook = ~Hooked(cstack, Len(cstack), Cur) /\ a.t = Cur /\ a.k # "hook"
        BY <1>2, <2>2 DEF Attached
      <4>2. (~Hooked(cstack, Len(cstack), a.t) /\ a.k # "hook") = ~Hooked(cstack, Len(cstack), Cur)
        BY <4>1
      <4> QED BY <4>1, <4>2
    <3>3. L.errfunc # 0 => Handler(cstack, Len(cstack), a.t, L.errfunc) /\ L.errfunc <= Len(L.ci)
                           /\ L.ci[L.errfunc] = "xpcall"
      BY <1>2, <2>2 DEF Attached
    <3> QED BY <3>1, <3>2, <3>3 DEF AttachedOn
  <2>6. Whole(d, th') /\ th'[Thread(d)] = L
    BY <1>1, <1>2, <2>1, <2>2, <2>3, <2>4, <2>5, Enters
  <2>7. /\ Len(d) = Len(cstack) + 1 /\ d # <<>> /\ d[Len(d)] = a /\ Depth(d, Len(d)) = Depth(cstack, Len(cstack))
    <3>1. /\ Len(d) = Len(cstack) + 1 /\ d # <<>> /\ d[Len(cstack) + 1] = a
          /\ Depth(d, Len(d)) = Depth(cstack, Len(cstack)) + (IF a.k \in {"call", "resume"} THEN 1 ELSE 0)
      BY <1>2, <2>1, <2>2, Appended
    <3> QED BY <1>2, <2>2, <3>1, DepthNat
  <2> QED BY <1>1, <2>1, <2>2, <2>6, <2>7, EndsInCall
<1> QED BY <1>3, <1>4 DEF luaG_errormsg

\* The handler returns and the error is thrown.
LEMMA HandlerReturnsKeeps == CallsInv /\ HandlerReturns => CallsInv'
<1> SUFFICES ASSUME CallsInv, HandlerReturns PROVE CallsInv'
  OBVIOUS
<1> DEFINE d == cstack'
<1>1. /\ todo = Back /\ Top.k = "error" /\ IsStep(L, th') /\ cstack' = d /\ IsFront(cstack, d)
      /\ todo' = Throw("ERRRUN")
  BY DEF HandlerReturns, Does, IsStep, IsFront
<1>2. cstack # <<>> /\ L.status = "OK" /\ Len(L.ci) = Top.ci /\ Depth(cstack, Len(cstack)) < Limit
  BY <1>1, WhenBack DEF AtBack
<1>3. L \in LState /\ RoomIn(L) /\ Top \in Acts /\ Len(L.ci) \in Nat
  BY <1>2, Current
<1> HIDE DEF d
<1>4. /\ OnTop(d, Len(d), Top) /\ d \in Seq(Acts) /\ (d = <<>> <=> Len(d) = 0) /\ Len(d) \in Nat
      /\ d # <<>> => d[Len(d)] \in Acts /\ Reach(d[Len(d)]) <= Top.ci
  BY <1>1, <1>2, Pops
<1>5. d # <<>>
  BY <1>1, <1>4 DEF OnTop
<1>6. /\ L.nCcalls = Depth(d, Len(d)) /\ L.nCcalls = Depth(cstack, Len(cstack)) /\ Depth(d, Len(d)) \in Nat
      /\ L.allowhook = (~Hooked(d, Len(d), Cur) /\ TRUE)
      /\ L.errfunc # 0 => Handler(d, Len(d), Cur, L.errfunc) /\ L.ci[L.errfunc] = "xpcall"
  BY <1>1, <1>2, Survives
<1>7. Keeps(L.ci, L.ci, Reach(d[Len(d)])) /\ Steady(L, L)
  BY <1>2, <1>3, <1>4, <1>5 DEF Keeps, Steady
<1>8. Whole(d, th') /\ th'[Thread(d)] = L
  <2>1. L.allowhook = ~Hooked(d, Len(d), Cur) /\ Top.k # "resume"
    BY <1>1, <1>6
  <2> QED BY <1>1, <1>2, <1>3, <1>6, <1>7, <2>1, Returns
<1>9. Depth(d, Len(d)) <= Limit /\ todo' \in {Throw(e) : e \in Errors}
  BY <1>1, <1>2, <1>6, LimitsHold DEF Errors
<1> QED BY <1>1, <1>2, <1>5, <1>8, <1>9, EndsInError

\* luaD_callhook allows hooks again.
LEMMA HookReturnsKeeps == CallsInv /\ HookReturns => CallsInv'
<1> SUFFICES ASSUME CallsInv, HookReturns PROVE CallsInv'
  OBVIOUS
<1> DEFINE l == [L EXCEPT !.allowhook = TRUE]
           d == cstack'
<1>1. /\ todo = Back /\ Top.k = "hook" /\ IsStep(l, th') /\ cstack' = d /\ IsFront(cstack, d) /\ todo' = Run
  BY DEF HookReturns, Does, IsStep, IsFront
<1>2. cstack # <<>> /\ L.status = "OK" /\ Len(L.ci) = Top.ci /\ Depth(cstack, Len(cstack)) < Limit
  BY <1>1, WhenBack DEF AtBack
<1>3. L \in LState /\ RoomIn(L) /\ Top \in Acts /\ Len(L.ci) \in Nat /\ Top.t = Cur
  BY <1>2, Current
<1> HIDE DEF d
<1>4. OnTop(d, Len(d), Top) /\ d \in Seq(Acts) /\ (d = <<>> <=> Len(d) = 0) /\ Len(d) \in Nat
  BY <1>1, <1>2, Pops
<1>5. /\ d # <<>> /\ d[Len(d)].k = "execute" /\ Reach(d[Len(d)]) = Top.ci /\ ~Hooked(d, Len(d), Cur)
  BY <1>1, <1>3, <1>4 DEF OnTop
<1>6. /\ L.nCcalls = Depth(d, Len(d)) /\ L.nCcalls = Depth(cstack, Len(cstack))
      /\ L.errfunc # 0 => Handler(d, Len(d), Cur, L.errfunc) /\ L.ci[L.errfunc] = "xpcall"
  BY <1>1, <1>2, Survives
<1>7. /\ l \in LState /\ l.ci = L.ci /\ l.status = "OK" /\ Steady(L, l) /\ l.nCcalls = L.nCcalls
      /\ l.allowhook = TRUE /\ l.errfunc = L.errfunc /\ l.size_ci = L.size_ci
  BY <1>2, <1>3 DEF LState, Steady
<1> HIDE DEF l
<1>8. RoomIn(l) /\ Keeps(L.ci, l.ci, Reach(d[Len(d)])) /\ Len(l.ci) = Reach(d[Len(d)])
  BY <1>2, <1>3, <1>5, <1>7 DEF RoomIn, Keeps
<1>9. Whole(d, th') /\ th'[Thread(d)] = l
  <2>1. l.allowhook = ~Hooked(d, Len(d), Cur)
    BY <1>5, <1>7
  <2>2. l.nCcalls = Depth(d, Len(d)) /\ (l.errfunc # 0 => Handler(d, Len(d), Cur, l.errfunc) /\ L.ci[l.errfunc] = "xpcall")
    BY <1>6, <1>7
  <2>3. Top.k # "resume"
    BY <1>1
  <2> QED BY <1>1, <1>2, <1>7, <1>8, <2>1, <2>2, <2>3, Returns
<1> QED BY <1>1, <1>2, <1>5, <1>6, <1>7, <1>8, <1>9, EndsInRun

\* luaD_callhook forbids hooks and calls the hook.
LEMMA luaD_callhookKeeps == CallsInv /\ luaD_callhook => CallsInv'
<1> SUFFICES ASSUME CallsInv, luaD_callhook PROVE CallsInv'
  OBVIOUS
<1> DEFINE a == Activation("hook", Cur, Len(L.ci))
           l == [L EXCEPT !.allowhook = FALSE]
           d == cstack'
<1>1. /\ todo = Run /\ cstack # <<>> /\ f_isLua /\ L.allowhook /\ IsStep(l, th') /\ cstack' = d
      /\ todo' = Call("lua") /\ IsPush(cstack, a, d)
  BY DEF luaD_callhook, Does, IsStep, IsPush, Activated
<1>2. Top.k = "execute" /\ L.status = "OK" /\ Len(L.ci) = Reach(Top)
  BY <1>1, LuaRuns
<1>3. /\ Cur \in Threads /\ Len(cstack) \in Nat \ {0} /\ cstack \in Seq(Acts) /\ L \in LState /\ RoomIn(L)
      /\ Len(L.ci) \in Nat \ {0} /\ Attached(L, cstack, Len(cstack), Cur) /\ Top = cstack[Len(cstack)]
      /\ Depth(cstack, Len(cstack)) < Limit
  BY <1>1, Current, WhenRun
<1>4. a \in Acts /\ a.k = "hook" /\ a.t = Cur /\ a.ci = Len(L.ci) /\ Reach(a) = Len(L.ci)
  BY <1>3 DEF Activation, Acts, Plain, Reach
<1>5. /\ l \in LState /\ l.ci = L.ci /\ l.status = "OK" /\ Steady(L, l) /\ l.nCcalls = L.nCcalls
      /\ l.allowhook = FALSE /\ l.errfunc = L.errfunc /\ l.size_ci = L.size_ci
  BY <1>2, <1>3 DEF LState, Steady
<1> HIDE DEF a, d, l
<1>6. RoomIn(l) /\ Keeps(L.ci, l.ci, Reach(Top)) /\ FramesOf(a, l.ci) /\ Reach(Top) <= a.ci
  BY <1>2, <1>3, <1>4, <1>5 DEF RoomIn, Keeps, FramesOf
<1>7. OnTop(cstack, Len(cstack), a)
  <2>1. ~Hooked(cstack, Len(cstack), Cur)
    BY <1>1, <1>3 DEF Attached
  <2> QED BY <1>2, <1>3, <1>4, <2>1 DEF OnTop
<1>8. AttachedOn(l, cstack, a)
  <2>1. l.nCcalls = Depth(cstack, Len(cstack)) + (IF a.k \in {"call", "resume"} THEN 1 ELSE 0)
    BY <1>3, <1>4, <1>5, DepthNat DEF Attached
  <2>2. l.allowhook = (~Hooked(cstack, Len(cstack), a.t) /\ a.k # "hook")
    <3>1. (~Hooked(cstack, Len(cstack), a.t) /\ a.k # "hook") = FALSE
      BY <1>4
    <3> QED BY <1>5, <3>1
  <2>3. l.errfunc # 0 => Handler(cstack, Len(cstack), a.t, l.errfunc) /\ l.errfunc <= Len(l.ci)
                         /\ l.ci[l.errfunc] = "xpcall"
    BY <1>3, <1>4, <1>5 DEF Attached
  <2> QED BY <2>1, <2>2, <2>3 DEF AttachedOn
<1>9. Whole(d, th') /\ th'[Thread(d)] = l
  BY <1>1, <1>4, <1>5, <1>6, <1>7, <1>8, Enters
<1>10. /\ Len(d) = Len(cstack) + 1 /\ d # <<>> /\ d[Len(d)] = a /\ Depth(d, Len(d)) = Depth(cstack, Len(cstack))
  <2>1. /\ Len(d) = Len(cstack) + 1 /\ d # <<>> /\ d[Len(cstack) + 1] = a
        /\ Depth(d, Len(d)) = Depth(cstack, Len(cstack)) + (IF a.k \in {"call", "resume"} THEN 1 ELSE 0)
    BY <1>1, <1>3, <1>4, Appended
  <2> QED BY <1>3, <1>4, <2>1, DepthNat
<1> QED BY <1>1, <1>3, <1>4, <1>5, <1>9, <1>10, EndsInCall

-----------------------------------------------------------------------------
(* luaD_precall and luaD_call.                                             *)

\* OP_CALL calls a function from luaV_execute.
LEMMA OpCallKeeps == ASSUME NEW f \in Functions PROVE CallsInv /\ OpCall(f) => CallsInv'
<1> SUFFICES ASSUME CallsInv, OpCall(f) PROVE CallsInv'
  OBVIOUS
<1> DEFINE r == IF f = "lua" THEN [cstack EXCEPT ![Len(cstack)].nexeccalls = @ + 1] ELSE cstack
<1>1. todo = Run /\ cstack # <<>> /\ f_isLua /\ luaD_precall(L, f, cstack, r)
  BY DEF OpCall
<1>2. /\ Top.k = "execute" /\ L.status = "OK" /\ Len(L.ci) = Reach(Top)
      /\ Top.nexeccalls \in Nat \ {0} /\ Top.ci \in Nat \ {0} /\ Reach(Top) = Top.ci + Top.nexeccalls
      /\ \A p \in (Top.ci + 1)..Reach(Top) : L.ci[p] = "lua"
  BY <1>1, LuaRuns
<1>3. /\ L \in LState /\ RoomIn(L) /\ L.ci \in Seq(Frame) /\ Top = cstack[Len(cstack)] /\ Cur = Thread(cstack)
      /\ Depth(cstack, Len(cstack)) < Limit /\ Len(cstack) \in Nat /\ Len(L.ci) \in Nat
  BY <1>1, Current, WhenRun
<1>r. (f # "lua" => r = cstack) /\ (f = "lua" => IsAgain(Top.nexeccalls + 1, r))
  BY <1>3 DEF IsAgain
<1> HIDE DEF r
<1>4. PICK l \in LState :
        /\ RoomIn(l) /\ Alike(L, l) /\ th' = [th EXCEPT ![Cur] = l]
        /\ \/ l.ci = L.ci /\ cstack' = cstack /\ todo' \in {Raise, Throw("ERRERR")}
           \/ l.ci = Append(L.ci, f) /\ cstack' = r /\ todo' = Run
  BY <1>1, <1>3, Precalls
<1>5. /\ IsStep(l, th') /\ Steady(L, l) /\ l.status = "OK" /\ l.nCcalls = L.nCcalls /\ l.allowhook = L.allowhook
      /\ l.errfunc = L.errfunc
  BY <1>2, <1>4 DEF IsStep, Alike, Steady
<1>6. th'[Thread(cstack)] = l
  <2>1. th'[Cur] = l
    BY <1>5, Stepped
  <2> QED BY <1>3, <2>1
<1>7. CASE l.ci = L.ci /\ cstack' = cstack /\ todo' \in {Raise, Throw("ERRERR")}
  <2>1. Keeps(L.ci, l.ci, Reach(Top))
    BY <1>2, <1>3, <1>7 DEF Keeps
  <2>2. Whole(cstack', th')
    BY <1>4, <1>5, <1>7, <2>1, Stays
  <2>3. Depth(cstack, Len(cstack)) <= Limit /\ (todo' = Raise \/ todo' \in {Throw(e) : e \in Errors})
    BY <1>3, <1>7, LimitsHold, DepthNat DEF Errors
  <2> QED BY <1>1, <1>3, <1>5, <1>6, <1>7, <2>2, <2>3, EndsInError
<1>8. CASE l.ci = Append(L.ci, f) /\ cstack' = r /\ todo' = Run
  <2>1. /\ Len(l.ci) = Len(L.ci) + 1 /\ Last(l.ci) = f /\ l.ci[Len(L.ci) + 1] = f
        /\ \A p \in 1..Len(L.ci) : l.ci[p] = L.ci[p]
    BY <1>3, <1>8 DEF Last
  <2>2. CASE f # "lua"
    <3>1. cstack' = cstack
      BY <1>r, <1>8, <2>2
    <3>2. Keeps(L.ci, l.ci, Reach(Top))
      <4>1. Reach(Top) = Len(L.ci) /\ Len(L.ci) <= Len(l.ci)
        BY ONLY <1>2, <1>3, <2>1
      <4> QED BY ONLY <2>1, <4>1 DEF Keeps
    <3>3. Whole(cstack', th')
      BY <1>4, <1>5, <3>1, <3>2, Stays
    <3>4. Len(l.ci) = Reach(Top) + 1 /\ Last(l.ci) # "lua"
      BY <1>2, <2>1, <2>2
    <3> QED BY <1>1, <1>2, <1>3, <1>5, <1>6, <1>8, <3>1, <3>3, <3>4, EndsInRun
  <2>3. CASE f = "lua"
    <3> DEFINE x == Top.nexeccalls + 1
    <3>1. IsAgain(x, r) /\ x \in Nat \ {0} /\ Top.ci + x = Len(l.ci)
      <4>1. IsAgain(Top.nexeccalls + 1, r)
        BY <1>r, <2>3
      <4>2. Top.ci \in Nat /\ Top.nexeccalls \in Nat /\ Len(l.ci) = Top.ci + Top.nexeccalls + 1
        BY <1>2, <2>1
      <4> QED BY <4>1, <4>2
    <3>2. \A p \in (Top.ci + 1)..(Top.ci + x) : p \in (Top.ci + 1)..Reach(Top) \/ p = Len(L.ci) + 1
      <4>1. Top.ci \in Nat /\ Top.nexeccalls \in Nat /\ Reach(Top) = Top.ci + Top.nexeccalls /\ Len(L.ci) = Reach(Top)
        BY <1>2
      <4> QED BY <4>1
    <3> HIDE DEF x
    <3>3. \A p \in (Top.ci + 1)..(Top.ci + x) : l.ci[p] = "lua"
      <4> SUFFICES ASSUME NEW p \in (Top.ci + 1)..(Top.ci + x) PROVE l.ci[p] = "lua"
        OBVIOUS
      <4>1. CASE p = Len(L.ci) + 1
        BY <2>1, <2>3, <4>1
      <4>2. CASE p \in (Top.ci + 1)..Reach(Top)
        <5>1. p \in 1..Len(L.ci)
          BY <1>2, <4>2
        <5> QED BY <1>2, <2>1, <4>2, <5>1
      <4> QED BY <3>2, <4>1, <4>2
    <3>4. Keeps(L.ci, l.ci, Top.ci) /\ Top.ci + x <= Len(l.ci)
      <4>1. Top.ci <= Len(L.ci) /\ Top.ci <= Len(l.ci) /\ Len(l.ci) \in Nat
        <5>1. Top.ci \in Nat /\ Top.nexeccalls \in Nat /\ Len(L.ci) = Top.ci + Top.nexeccalls
          BY ONLY <1>2
        <5> QED BY ONLY <1>3, <2>1, <5>1
      <4>2. \A p \in 1..Top.ci : p \in 1..Len(L.ci)
        BY <1>2, <1>3, <4>1
      <4> QED BY <2>1, <3>1, <4>1, <4>2 DEF Keeps
    <3>5. /\ Whole(r, th') /\ th'[Thread(r)] = l /\ r # <<>>
          /\ r[Len(r)].k = "execute" /\ Reach(r[Len(r)]) = Top.ci + x
          /\ Depth(r, Len(r)) = Depth(cstack, Len(cstack))
      <4>1. /\ cstack # <<>> /\ Top.k = "execute" /\ IsStep(l, th') /\ RoomIn(l) /\ Alike(L, l)
            /\ Cur = Main => l.status = "OK"
        BY <1>1, <1>2, <1>4, <1>5
      <4> QED BY <3>1, <3>3, <3>4, <4>1, Executes
    <3> QED BY <1>3, <1>5, <1>8, <3>1, <3>5, EndsInRun
  <2> QED BY <2>2, <2>3
<1> QED BY <1>4, <1>7, <1>8

\* luaD_call gets its activation; the running thread is in state l.
LEMMA CallEnters ==
  ASSUME CallsInv, cstack # <<>>, Top.k \in {"pcall", "error", "hook", "execute"}, Len(L.ci) = Reach(Top),
         NEW l \in LState, NEW g, IsStep(l, g), RoomIn(l), l.status = "OK",
         l.nCcalls = L.nCcalls + 1, Steady(L, l), l.errfunc = L.errfunc, l.allowhook = L.allowhook,
         Keeps(L.ci, l.ci, Len(L.ci)),
         NEW a, a = Activation("call", Cur, Len(L.ci)), NEW d, IsPush(cstack, a, d)
  PROVE  /\ Whole(d, g) /\ g[Thread(d)] = l /\ Thread(d) = Cur /\ d # <<>> /\ d[Len(d)] = a
         /\ a \in Acts /\ a.k = "call" /\ a.t = Cur /\ a.ci = Len(L.ci) /\ Reach(a) = Len(L.ci)
         /\ Depth(d, Len(d)) = Depth(cstack, Len(cstack)) + 1 /\ Depth(d, Len(d)) = L.nCcalls + 1
<1>1. /\ Cur \in Threads /\ Len(cstack) \in Nat \ {0} /\ cstack \in Seq(Acts) /\ L \in LState
      /\ Len(L.ci) \in Nat \ {0} /\ Attached(L, cstack, Len(cstack), Cur) /\ Top = cstack[Len(cstack)]
  BY Current
<1>2. a \in Acts /\ a.k = "call" /\ a.t = Cur /\ a.ci = Len(L.ci) /\ Reach(a) = Len(L.ci)
  BY <1>1 DEF Activation, Acts, Plain, Reach
<1>3. OnTop(cstack, Len(cstack), a)
  BY <1>1, <1>2 DEF OnTop
<1>4. /\ Reach(Top) <= a.ci /\ Keeps(L.ci, l.ci, Reach(Top)) /\ FramesOf(a, l.ci)
      /\ Cur = Main => l.status = "OK"
  BY <1>1, <1>2 DEF Keeps, FramesOf
<1>5. AttachedOn(l, cstack, a)
  <2>1. l.nCcalls = Depth(cstack, Len(cstack)) + (IF a.k \in {"call", "resume"} THEN 1 ELSE 0)
    BY <1>1, <1>2, DepthNat DEF Attached
  <2>2. l.allowhook = (~Hooked(cstack, Len(cstack), a.t) /\ a.k # "hook")
    <3>1. l.allowhook = ~Hooked(cstack, Len(cstack), Cur) /\ a.t = Cur /\ a.k # "hook"
      BY <1>1, <1>2 DEF Attached
    <3>2. (~Hooked(cstack, Len(cstack), a.t) /\ a.k # "hook") = ~Hooked(cstack, Len(cstack), Cur)
      BY <3>1
    <3> QED BY <3>1, <3>2
  <2>3. ASSUME l.errfunc # 0
        PROVE  Handler(cstack, Len(cstack), a.t, l.errfunc) /\ l.errfunc <= Len(l.ci) /\ l.ci[l.errfunc] = "xpcall"
    <3>1. Handler(cstack, Len(cstack), Cur, l.errfunc) /\ l.errfunc <= Len(L.ci) /\ L.ci[l.errfunc] = "xpcall"
      BY <1>1, <2>3 DEF Attached
    <3>2. l.errfunc \in Nat /\ l.errfunc \in 1..Len(L.ci) /\ Len(l.ci) \in Nat
      <4>1. l.errfunc \in Nat /\ Len(l.ci) \in Nat
        BY DEF LState
      <4> QED BY <1>1, <2>3, <3>1, <4>1
    <3> QED BY <1>1, <1>2, <3>1, <3>2 DEF Keeps
  <2> QED BY <2>1, <2>2, <2>3 DEF AttachedOn
<1>6. Whole(d, g) /\ g[Thread(d)] = l /\ Thread(d) = Cur
  <2>1. cstack # <<>> => Reach(Top) <= a.ci /\ Keeps(L.ci, l.ci, Reach(Top))
    BY <1>4
  <2>2. a.k # "resume" /\ a.t = Cur /\ a \in Acts
    BY <1>2
  <2> QED BY <1>3, <1>4, <1>5, <2>1, <2>2, Enters
<1>7. /\ Len(d) = Len(cstack) + 1 /\ d # <<>> /\ d[Len(cstack) + 1] = a
      /\ Depth(d, Len(d)) = Depth(cstack, Len(cstack)) + (IF a.k \in {"call", "resume"} THEN 1 ELSE 0)
  BY <1>1, <1>2, Appended
<1>8. L.nCcalls = Depth(cstack, Len(cstack))
  BY <1>1 DEF Attached
<1> QED BY <1>2, <1>6, <1>7, <1>8

\* luaD_call counts up, notices an overflow, and calls its function.
LEMMA luaD_callKeeps == CallsInv /\ luaD_call => CallsInv'
<1> SUFFICES ASSUME CallsInv, luaD_call PROVE CallsInv'
  OBVIOUS
<1> DEFINE l == [L EXCEPT !.nCcalls = @ + 1]
           a == Activation("call", Cur, Len(L.ci))
           c == Activated("call")
           f == todo[2]
           e == luaV_execute(Cur, 1, Len(L.ci))
           r == IF f = "lua" THEN Append(c, e) ELSE c
<1>1. /\ todo[1] = "luaD_call"
      /\ \/ l.nCcalls = LUAI_MAXCCALLS /\ Does(l, c, Raise)
         \/ Exhausted(l) /\ Does(l, c, Throw("ERRERR"))
         \/ l.nCcalls # LUAI_MAXCCALLS /\ ~Exhausted(l) /\ luaD_precall(l, f, c, r)
  BY DEF luaD_call
<1>2. /\ L.status = "OK" /\ cstack # <<>> /\ Top.k \in {"pcall", "error", "hook", "execute"}
      /\ Len(L.ci) = Reach(Top) /\ Depth(cstack, Len(cstack)) < Limit /\ f \in {"lua", "yield", "resume"}
  BY <1>1, WhenCall DEF AtCall
<1>3. /\ L \in LState /\ RoomIn(L) /\ L.ci \in Seq(Frame) /\ Cur \in Threads /\ cstack \in Seq(Acts)
      /\ Len(L.ci) \in Nat \ {0} /\ Len(cstack) \in Nat /\ Attached(L, cstack, Len(cstack), Cur)
  BY <1>2, Current
<1>4. /\ l \in LState /\ l.ci = L.ci /\ l.status = "OK" /\ Steady(L, l) /\ l.nCcalls = L.nCcalls + 1
      /\ l.errfunc = L.errfunc /\ l.allowhook = L.allowhook /\ l.size_ci = L.size_ci
  <2>1. L.nCcalls \in Nat /\ L.nCcalls + 1 \in Nat
    BY <1>3 DEF LState
  <2> QED BY <1>2, <1>3, <2>1 DEF LState, Steady
<1>5. IsPush(cstack, a, c) /\ (f # "lua" => r = c) /\ (f = "lua" => IsPush(c, e, r))
  BY DEF IsPush, Activated
<1>6. L.nCcalls = Depth(cstack, Len(cstack)) /\ L.nCcalls \in Nat
  BY <1>3, DepthNat DEF Attached
<1>7. RoomIn(l)
  BY <1>3, <1>4 DEF RoomIn
<1>8. Exhausted(l) <=> L.nCcalls + 1 >= Limit
  BY <1>4 DEF Exhausted, Limit
<1>9. f \in Functions
  BY <1>2 DEF Functions, CFunctions
<1> HIDE DEF l, c, f, r
<1>10. ASSUME NEW l2 \in LState, RoomIn(l2), IsStep(l2, th'), Alike(l, l2), Keeps(L.ci, l2.ci, Len(L.ci))
       PROVE  /\ Whole(c, th') /\ th'[Thread(c)] = l2 /\ Thread(c) = Cur /\ c # <<>> /\ c[Len(c)] = a
              /\ a \in Acts /\ a.k = "call" /\ a.t = Cur /\ a.ci = Len(L.ci) /\ Reach(a) = Len(L.ci)
              /\ Depth(c, Len(c)) = L.nCcalls + 1
  <2>1. /\ l2.status = "OK" /\ l2.nCcalls = L.nCcalls + 1 /\ Steady(L, l2) /\ l2.errfunc = L.errfunc
        /\ l2.allowhook = L.allowhook
    BY <1>4, <1>10 DEF Alike, Steady
  <2>2. a = Activation("call", Cur, Len(L.ci))
    OBVIOUS
  <2> HIDE DEF a
  <2> QED BY <1>2, <1>5, <1>10, <2>1, <2>2, CallEnters
<1>11. Alike(l, l) /\ Keeps(L.ci, l.ci, Len(L.ci))
  BY <1>3, <1>4 DEF Alike, Keeps
<1> HIDE DEF a, e
<1>12. CASE l.nCcalls = LUAI_MAXCCALLS /\ Does(l, c, Raise)
  <2>1. IsStep(l, th') /\ cstack' = c /\ todo' = Raise
    BY <1>12 DEF Does, IsStep
  <2>2. /\ Whole(c, th') /\ th'[Thread(c)] = l /\ c # <<>> /\ Depth(c, Len(c)) = L.nCcalls + 1
    BY <1>4, <1>7, <1>10, <1>11, <2>1
  <2>3. Depth(c, Len(c)) < Limit
    BY <1>4, <1>12, <2>2, LimitsHold
  <2> QED BY <1>4, <2>1, <2>2, <2>3, EndsInError
<1>13. CASE Exhausted(l) /\ Does(l, c, Throw("ERRERR"))
  <2>1. IsStep(l, th') /\ cstack' = c /\ todo' = Throw("ERRERR")
    BY <1>13 DEF Does, IsStep
  <2>2. /\ Whole(c, th') /\ th'[Thread(c)] = l /\ c # <<>> /\ Depth(c, Len(c)) = L.nCcalls + 1
    BY <1>4, <1>7, <1>10, <1>11, <2>1
  <2>3. Depth(c, Len(c)) <= Limit
    BY <1>2, <1>6, <2>2, LimitsHold
  <2>4. todo' \in {Throw(x) : x \in Errors}
    BY <2>1 DEF Errors
  <2> QED BY <1>4, <2>1, <2>2, <2>3, <2>4, EndsInError
<1>14. CASE l.nCcalls # LUAI_MAXCCALLS /\ ~Exhausted(l) /\ luaD_precall(l, f, c, r)
  <2>1. PICK l2 \in LState :
          /\ RoomIn(l2) /\ Alike(l, l2) /\ th' = [th EXCEPT ![Cur] = l2]
          /\ \/ l2.ci = l.ci /\ cstack' = c /\ todo' \in {Raise, Throw("ERRERR")}
             \/ l2.ci = Append(l.ci, f) /\ cstack' = r /\ todo' = Run
    BY <1>4, <1>7, <1>9, <1>14, Precalls
  <2>2. IsStep(l2, th') /\ l2.status = "OK"
    BY <1>4, <2>1 DEF IsStep, Alike
  <2>3. L.nCcalls + 1 < Limit
    BY <1>6, <1>8, <1>14, LimitsHold
  <2>4. CASE l2.ci = l.ci /\ cstack' = c /\ todo' \in {Raise, Throw("ERRERR")}
    <3>1. Keeps(L.ci, l2.ci, Len(L.ci))
      BY <1>4, <1>11, <2>4
    <3>2. /\ Whole(c, th') /\ th'[Thread(c)] = l2 /\ c # <<>> /\ Depth(c, Len(c)) = L.nCcalls + 1
      BY <1>10, <2>1, <2>2, <3>1
    <3>3. Depth(c, Len(c)) < Limit /\ Depth(c, Len(c)) <= Limit
      BY <1>6, <2>3, <3>2, LimitsHold
    <3>4. todo' = Raise \/ todo' \in {Throw(x) : x \in Errors}
      BY <2>4 DEF Errors
    <3> QED BY <2>2, <2>4, <3>2, <3>3, <3>4, EndsInError
  <2>5. CASE l2.ci = Append(l.ci, f) /\ cstack' = r /\ todo' = Run
    <3>1. /\ Len(l2.ci) = Len(L.ci) + 1 /\ Last(l2.ci) = f /\ l2.ci[Len(L.ci) + 1] = f
          /\ \A p \in 1..Len(L.ci) : l2.ci[p] = L.ci[p]
      BY <1>3, <1>4, <2>5 DEF Last
    <3>2. Keeps(L.ci, l2.ci, Len(L.ci))
      BY <1>3, <3>1 DEF Keeps
    <3>3. /\ Whole(c, th') /\ th'[Thread(c)] = l2 /\ Thread(c) = Cur /\ c # <<>> /\ c[Len(c)] = a
          /\ a \in Acts /\ a.k = "call" /\ a.t = Cur /\ a.ci = Len(L.ci) /\ Reach(a) = Len(L.ci)
          /\ Depth(c, Len(c)) = L.nCcalls + 1
      BY <1>10, <2>1, <2>2, <3>2
    <3>4. Depth(c, Len(c)) < Limit
      BY <2>3, <3>3
    <3>5. CASE f # "lua"
      <4>1. cstack' = c
        BY <1>5, <2>5, <3>5
      <4>2. Len(l2.ci) = Reach(a) + 1 /\ Last(l2.ci) # "lua"
        BY <3>1, <3>3, <3>5
      <4> QED BY <2>2, <2>5, <3>3, <3>4, <4>1, <4>2, EndsInRun
    <3>6. CASE f = "lua"
      <4>1. cstack' = r /\ IsPush(c, e, r)
        BY <1>5, <2>5, <3>6
      <4>2. e \in Acts /\ e.k = "execute" /\ e.t = Cur /\ e.ci = Len(L.ci) /\ Reach(e) = Len(L.ci) + 1
        BY <1>3 DEF e, luaV_execute, Acts, Execute, Reach
      <4>3. c \in Seq(Acts) /\ Len(c) \in Nat \ {0} /\ th' \in [Threads -> LState]
        <5>1. c \in Seq(Acts) /\ th' \in [Threads -> LState]
          BY <3>3 DEF Whole, Standing
        <5> QED BY <3>3, <5>1, EmptySeq
      <4>4. OnTop(c, Len(c), e)
        BY <3>3, <4>2, <4>3 DEF OnTop
      <4>5. FramesOf(e, l2.ci)
        <5>1. \A p \in (Len(L.ci) + 1)..(Len(L.ci) + 1) : l2.ci[p] = "lua"
          BY <1>3, <3>1, <3>6
        <5> QED BY <1>3, <3>1, <4>2, <5>1 DEF FramesOf
      <4>6. AttachedOn(l2, c, e)
        <5>1. Attached(l2, c, Len(c), Cur)
          BY <3>3 DEF Whole
        <5>2. l2.nCcalls = Depth(c, Len(c)) + (IF e.k \in {"call", "resume"} THEN 1 ELSE 0)
          BY <4>2, <4>3, <5>1, DepthNat DEF Attached
        <5>3. l2.allowhook = (~Hooked(c, Len(c), e.t) /\ e.k # "hook")
          <6>1. l2.allowhook = ~Hooked(c, Len(c), Cur) /\ e.t = Cur /\ e.k # "hook"
            BY <4>2, <5>1 DEF Attached
          <6>2. (~Hooked(c, Len(c), e.t) /\ e.k # "hook") = ~Hooked(c, Len(c), Cur)
            BY <6>1
          <6> QED BY <6>1, <6>2
        <5>4. l2.errfunc # 0 => Handler(c, Len(c), e.t, l2.errfunc) /\ l2.errfunc <= Len(l2.ci)
                                /\ l2.ci[l2.errfunc] = "xpcall"
          BY <4>2, <5>1 DEF Attached
        <5> QED BY <5>2, <5>3, <5>4 DEF AttachedOn
      <4>7. Whole(r, th')
        <5>1. /\ Steady(th'[Thread(c)], th'[Thread(c)]) /\ RoomIn(th'[Thread(c)])
              /\ Thread(c) = Main => th'[Main].status = "OK"
          BY <2>1, <2>2, <3>3 DEF Steady
        <5>2. Reach(c[Len(c)]) <= e.ci /\ Keeps(th'[Thread(c)].ci, th'[Thread(c)].ci, Reach(c[Len(c)]))
          BY <1>3, <3>1, <3>3, <4>2 DEF Keeps
        <5>3. e.t = Thread(c) /\ e.k # "resume" /\ FramesOf(e, th'[Thread(c)].ci) /\ AttachedOn(th'[Thread(c)], c, e)
          BY <3>3, <4>2, <4>5, <4>6
        <5> QED BY <3>3, <4>1, <4>2, <4>3, <4>4, <5>1, <5>2, <5>3, Adds
      <4>8. /\ Len(r) = Len(c) + 1 /\ r # <<>> /\ r[Len(r)] = e /\ Thread(r) = Cur
            /\ Depth(r, Len(r)) = Depth(c, Len(c))
        <5>1. /\ Len(r) = Len(c) + 1 /\ r # <<>> /\ r[Len(c) + 1] = e /\ Thread(r) = e.t
              /\ Depth(r, Len(r)) = Depth(c, Len(c)) + (IF e.k \in {"call", "resume"} THEN 1 ELSE 0)
          BY <4>1, <4>2, <4>3, Appended
        <5> QED BY <4>2, <4>3, <5>1, DepthNat
      <4>9. th'[Thread(r)] = l2 /\ Len(l2.ci) = Reach(r[Len(r)]) /\ r[Len(r)].k = "execute"
        BY <3>1, <3>3, <4>2, <4>8
      <4> QED BY <2>2, <2>5, <3>4, <4>1, <4>7, <4>8, <4>9, EndsInRun
    <3> QED BY <3>5, <3>6
  <2> QED BY <2>1, <2>4, <2>5
<1> QED BY <1>1, <1>12, <1>13, <1>14

\* luaD_pcall is called: by the host, or by a function that may name itself as the holder of
\* the handler.
LEMMA ProtectedKeeps ==
  ASSUME CallsInv, todo = Run, NEW f \in {"lua", "yield", "resume"}, NEW ef \in Nat,
         ef # 0 => ef = Len(L.ci) /\ Last(L.ci) = "xpcall",
         cstack # <<>> => Last(L.ci) # "lua", cstack = <<>> => ef = 0,
         Protected(L, ef, f)
  PROVE  CallsInv'
<1> DEFINE l == [L EXCEPT !.errfunc = ef]
           a == [k |-> "pcall", t |-> Cur, nCcalls |-> L.nCcalls, ci |-> Len(L.ci),
                 allowhook |-> L.allowhook, errfunc |-> L.errfunc]
           d == cstack'
           n == Len(cstack)
<1>1. IsStep(l, th') /\ cstack' = d /\ IsPush(cstack, a, d) /\ todo' = Call(f)
  BY DEF Protected, Does, IsStep, IsPush
<1>2. /\ L \in LState /\ RoomIn(L) /\ L.ci \in Seq(Frame) /\ Cur \in Threads /\ cstack \in Seq(Acts)
      /\ Len(L.ci) \in Nat \ {0} /\ n \in Nat /\ Attached(L, cstack, n, Cur) /\ (cstack = <<>> <=> n = 0)
      /\ Cur = Thread(cstack) /\ Nested(cstack, n) /\ \A i \in 1..n : cstack[i] \in Acts
  BY Current, StandingFacts DEF Whole, Standing
<1>3. L.status = "OK" /\ Depth(cstack, n) < Limit
  BY WhenRun DEF AtRun
<1>4. /\ L.nCcalls \in Nat /\ L.allowhook \in BOOLEAN /\ L.errfunc \in Nat
  BY <1>2 DEF LState
<1>5. a \in Acts /\ a.k = "pcall" /\ a.t = Cur /\ a.ci = Len(L.ci) /\ Reach(a) = Len(L.ci)
      /\ a.nCcalls = L.nCcalls /\ a.allowhook = L.allowhook /\ a.errfunc = L.errfunc
  <2>1. a \in Guard
    BY <1>2, <1>4 DEF Guard
  <2> QED BY <2>1 DEF Acts, Reach
<1>6. /\ l \in LState /\ l.ci = L.ci /\ l.status = "OK" /\ Steady(L, l) /\ l.nCcalls = L.nCcalls
      /\ l.errfunc = ef /\ l.allowhook = L.allowhook /\ l.size_ci = L.size_ci
  BY <1>2, <1>3 DEF LState, Steady
<1> HIDE DEF a, d, l, n
<1>7. RoomIn(l)
  BY <1>2, <1>6 DEF RoomIn
<1>8. cstack # <<>> =>
        /\ Top.k \in {"execute", "call"} /\ Len(L.ci) = Reach(Top) + 1 /\ Reach(Top) \in Nat \ {0}
        /\ Top = cstack[n] /\ Top.t = Cur
  BY CRuns, Current DEF n
<1>9. L.nCcalls = Depth(cstack, n) /\ L.allowhook = ~Hooked(cstack, n, Cur)
      /\ (L.errfunc # 0 => Handler(cstack, n, Cur, L.errfunc) /\ L.errfunc <= Len(L.ci) /\ L.ci[L.errfunc] = "xpcall")
  BY <1>2 DEF Attached
<1>10. OnTop(cstack, n, a)
  <2>1. CASE cstack = <<>>
    <3>1. n = 0 /\ Cur = Main /\ Len(L.ci) = 1
      BY <1>2, <2>1, WhenRun DEF AtRun, Thread
    <3>2. L.errfunc = 0
      BY <1>9, <3>1 DEF Handler
    <3> QED BY <1>3, <1>5, <1>9, <3>1, <3>2 DEF OnTop
  <2>2. CASE cstack # <<>>
    <3>1. L.errfunc # 0 => Handler(cstack, n, Cur, L.errfunc) /\ L.errfunc <= cstack[n].ci
      BY <1>2, <1>8, <1>9, <2>2, HandlerBelow
    <3>2. n # 0
      BY <1>2, <2>2
    <3> QED BY <1>3, <1>5, <1>8, <1>9, <2>2, <3>1, <3>2 DEF OnTop
  <2> QED BY <2>1, <2>2
<1>11. cstack # <<>> => Reach(Top) <= a.ci /\ Keeps(L.ci, l.ci, Reach(Top))
  BY <1>2, <1>5, <1>6, <1>8 DEF Keeps
<1>12. FramesOf(a, l.ci)
  BY <1>2, <1>5, <1>6, <1>9 DEF FramesOf
<1>13. AttachedOn(l, cstack, a)
  <2>1. l.nCcalls = Depth(cstack, n) + (IF a.k \in {"call", "resume"} THEN 1 ELSE 0)
    BY <1>2, <1>5, <1>6, <1>9, DepthNat
  <2>2. l.allowhook = (~Hooked(cstack, n, a.t) /\ a.k # "hook")
    <3>1. l.allowhook = ~Hooked(cstack, n, Cur) /\ a.t = Cur /\ a.k # "hook"
      BY <1>5, <1>6, <1>9
    <3>2. (~Hooked(cstack, n, a.t) /\ a.k # "hook") = ~Hooked(cstack, n, Cur)
      BY <3>1
    <3> QED BY <3>1, <3>2
  <2>3. l.errfunc # 0 => a.k = "pcall" /\ l.errfunc = a.ci /\ l.errfunc <= Len(l.ci) /\ l.ci[l.errfunc] = "xpcall"
    BY <1>2, <1>5, <1>6 DEF Last
  <2> QED BY <2>1, <2>2, <2>3 DEF AttachedOn, n
<1>14. Whole(d, th') /\ th'[Thread(d)] = l
  <2>1. OnTop(cstack, Len(cstack), a) /\ a.k # "resume" /\ (Cur = Main => l.status = "OK")
    BY <1>5, <1>6, <1>10 DEF n
  <2> QED BY <1>1, <1>5, <1>6, <1>7, <1>11, <1>12, <1>13, <2>1, Enters
<1>15. d # <<>> /\ d[Len(d)] = a /\ Depth(d, Len(d)) = Depth(cstack, n)
  <2>1. /\ Len(d) = Len(cstack) + 1 /\ d # <<>> /\ d[Len(cstack) + 1] = a
        /\ Depth(d, Len(d)) = Depth(cstack, Len(cstack)) + (IF a.k \in {"call", "resume"} THEN 1 ELSE 0)
    <3>1. cstack \in Seq(Acts) /\ a \in Acts /\ IsPush(cstack, a, d)
      BY <1>1, <1>2, <1>5
    <3> QED BY ONLY <3>1, Appended
  <2> QED BY <1>2, <1>5, <2>1, DepthNat DEF n
<1>16. Depth(d, Len(d)) < Limit /\ Len(l.ci) = Reach(a)
  BY <1>3, <1>5, <1>6, <1>15
<1> QED BY <1>1, <1>5, <1>6, <1>14, <1>15, <1>16, EndsInCall

\* The host, pcall and xpcall make a protected call.
LEMMA ProtectedCallsKeep == CallsInv /\ (Host \/ luaB_pcall \/ luaB_xpcall) => CallsInv'
<1> SUFFICES ASSUME CallsInv, Host \/ luaB_pcall \/ luaB_xpcall PROVE CallsInv'
  OBVIOUS
<1>1. CASE Host
  BY <1>1, ProtectedKeeps DEF Host
<1>2. CASE luaB_pcall
  <2>1. PICK f \in {"lua", "resume", "yield"} : Protected(L, 0, f)
    BY <1>2 DEF luaB_pcall
  <2>2. todo = Run /\ cstack # <<>> /\ Last(L.ci) # "lua" /\ f \in {"lua", "yield", "resume"} /\ 0 \in Nat
    BY <1>2 DEF luaB_pcall
  <2> QED BY <2>1, <2>2, ProtectedKeeps
<1>3. CASE luaB_xpcall
  <2>1. /\ todo = Run /\ cstack # <<>> /\ Last(L.ci) = "xpcall" /\ Last(L.ci) # "lua"
        /\ Protected(L, Len(L.ci), "lua")
    BY <1>3 DEF luaB_xpcall
  <2>2. Len(L.ci) \in Nat
    BY Current
  <2> QED BY <2>1, <2>2, ProtectedKeeps
<1> QED BY <1>1, <1>2, <1>3

-----------------------------------------------------------------------------
(* What was protected ends.                                                *)

\* A set of positions on the C stack has a last one.
LEMMA GreatestElement ==
  ASSUME NEW n \in Nat, NEW S \in SUBSET (1..n), S # {}
  PROVE  Max(S) \in S /\ \A y \in S : y <= Max(S)
<1> DEFINE R == {n - y : y \in S}
<1>0. \A y \in S : y \in 1..n /\ y \in Nat
  <2>1. \A y \in S : y \in 1..n
    OBVIOUS
  <2> QED BY <2>1
<1>1. R \in SUBSET Nat /\ R # {}
  <2>1. \A y \in S : n - y \in Nat
    BY <1>0
  <2>2. PICK y \in S : TRUE
    OBVIOUS
  <2>3. n - y \in R
    OBVIOUS
  <2> QED BY <2>1, <2>3
<1>2. PICK r \in R : \A q \in R : r <= q
  BY <1>1, LeastElement
<1>3. PICK x \in S : r = n - x
  BY <1>2
<1>4. \A y \in S : x >= y
  <2> SUFFICES ASSUME NEW y \in S PROVE x >= y
    OBVIOUS
  <2>1. n - y \in R /\ r <= n - y
    BY <1>2
  <2> HIDE DEF R
  <2>2. x \in Nat /\ y \in Nat
    BY <1>0
  <2> QED BY <1>3, <2>1, <2>2
<1>5. \E z \in S : \A y \in S : z >= y
  BY <1>4
<1>6. Max(S) \in S /\ \A y \in S : Max(S) >= y
  BY <1>5 DEF Max
<1>7. Max(S) \in Nat
  BY <1>0, <1>6
<1> QED BY <1>0, <1>6, <1>7

\* An error goes to the last luaD_pcall or lua_resume, which is of the running thread.
LEMMA Jumps ==
  ASSUME CallsInv, cstack # <<>>
  PROVE  /\ errorJmp \in 1..Len(cstack) /\ cstack[errorJmp].k \in {"pcall", "resume"}
         /\ \A i \in (errorJmp + 1)..Len(cstack) : cstack[i].k \notin {"pcall", "resume"}
         /\ cstack[errorJmp].t = Cur
<1> DEFINE n == Len(cstack)
           S == {i \in DOMAIN cstack : cstack[i].k \in {"pcall", "resume"}}
<1>1. n \in Nat \ {0} /\ Nested(cstack, n) /\ DOMAIN cstack = 1..n /\ cstack[n].t = Cur
  BY Current DEF Whole, Standing
<1>2. 1 \in S
  <2>1. 1 \in 1..n
    BY <1>1
  <2>2. Based(cstack, 1)
    BY <1>1, <2>1 DEF Nested
  <2> QED BY <1>1, <2>1, <2>2 DEF Based
<1>3. S \in SUBSET (1..n) /\ S # {}
  BY <1>1, <1>2
<1>4. errorJmp \in S /\ \A y \in S : y <= errorJmp
  <2>1. errorJmp = Max(S)
    BY DEF errorJmp
  <2> HIDE DEF S
  <2> QED BY <1>1, <1>3, <2>1, GreatestElement
<1>5. errorJmp \in 1..n /\ cstack[errorJmp].k \in {"pcall", "resume"}
  BY <1>3, <1>4
<1>6. ASSUME NEW i \in (errorJmp + 1)..n PROVE cstack[i].k \notin {"pcall", "resume"}
  <2>1. i \in 1..n /\ ~(i <= errorJmp)
    BY <1>1, <1>5
  <2>2. i \notin S
    BY <1>4, <2>1
  <2> QED BY <1>1, <2>1, <2>2
<1>7. cstack[errorJmp].t = cstack[n].t
  <2>1. n \in 1..n /\ errorJmp <= n /\ \A k \in (errorJmp + 1)..n : cstack[k].k # "resume"
    BY <1>1, <1>5, <1>6
  <2> QED BY <1>1, <1>5, <2>1 DEF Nested, Threaded
<1> QED BY <1>1, <1>5, <1>6, <1>7

\* luaD_pcall returns in the running thread, which has state l.
LEMMA PcallLeaves ==
  ASSUME CallsInv, NEW m \in 1..Len(cstack), cstack[m].k = "pcall", cstack[m].t = Cur,
         NEW d, IsCut(cstack, m - 1, d), cstack' = d, todo' = Run,
         NEW l \in LState, IsStep(l, th'), RoomIn(l), Steady(L, l), l.status = "OK",
         l.nCcalls = cstack[m].nCcalls, l.allowhook = cstack[m].allowhook, l.errfunc = cstack[m].errfunc,
         Len(l.ci) = cstack[m].ci, Keeps(L.ci, l.ci, cstack[m].ci - 1),
         cstack[m].ci # 1 => Last(l.ci) = "done"
  PROVE  CallsInv'
<1> DEFINE n == Len(cstack)
           p == cstack[m]
<1>1. /\ n \in Nat \ {0} /\ cstack \in Seq(Acts) /\ Whole(cstack, th) /\ Cur = Thread(cstack)
      /\ Nested(cstack, n) /\ Framed(cstack, n, th) /\ (\A i \in 1..n : cstack[i] \in Acts) /\ Len(L.ci) \in Nat
  <2>1. n \in Nat \ {0}
    BY Current
  <2> QED BY <2>1, Current, StandingFacts DEF Whole, Standing
<1>2. p \in Acts /\ p.k = "pcall" /\ p.t = Cur /\ p.ci \in Nat \ {0} /\ Reach(p) = p.ci /\ p.errfunc \in Nat
  BY <1>1, ActFacts
<1>3. Based(cstack, m) /\ FramesOf(p, L.ci)
  BY <1>1, <1>2 DEF Nested, Framed, L
<1>4. m \in 1..n /\ m \in Nat \ {0} /\ m - 1 \in 0..n /\ m - 1 <= n
  BY <1>1
<1>5. /\ d \in Seq(Acts) /\ Len(d) = m - 1 /\ Agree(cstack, d, m - 1) /\ (d = <<>> <=> m - 1 = 0)
      /\ m - 1 # 0 => d[m - 1] = cstack[m - 1] /\ cstack[m - 1] \in Acts /\ Thread(d) = cstack[m - 1].t
      /\ m - 1 = 0 => Thread(d) = Main
      /\ Depth(d, m - 1) = Depth(cstack, m - 1)
      /\ \A t : Hooked(d, m - 1, t) <=> Hooked(cstack, m - 1, t)
      /\ \A t, e : Handler(d, m - 1, t, e) <=> Handler(cstack, m - 1, t, e)
  BY <1>1, <1>4, Shortened
<1>6. th' \in [Threads -> LState] /\ th'[Cur] = l /\ (\A t \in Threads \ {Cur} : th'[t] = th[t]) /\ th[Cur] = L
  BY Stepped
<1>7. /\ l.nCcalls = p.nCcalls /\ l.allowhook = p.allowhook /\ l.errfunc = p.errfunc /\ Len(l.ci) = p.ci
      /\ Keeps(L.ci, l.ci, p.ci - 1) /\ (p.ci # 1 => Last(l.ci) = "done")
  OBVIOUS
<1> HIDE DEF n, p
<1>8. /\ m = 1 => p.t = Main /\ p.ci = 1 /\ p.errfunc = 0
      /\ m # 1 => /\ cstack[m - 1].k \in {"execute", "call"} /\ p.ci = Reach(cstack[m - 1]) + 1
                  /\ p.errfunc # 0 => /\ Handler(cstack, m - 1, Cur, p.errfunc)
                                      /\ p.errfunc <= cstack[m - 1].ci
      /\ p.nCcalls = Depth(cstack, m) /\ Depth(cstack, m) < Limit /\ p.allowhook = ~Hooked(cstack, m, Cur)
  <2>1. m # 1 => m > 1
    BY <1>4
  <2> QED BY <1>2, <1>3, <2>1 DEF Based, p
<1>9. Depth(cstack, m) = Depth(cstack, m - 1) /\ (Hooked(cstack, m, Cur) <=> Hooked(cstack, m - 1, Cur))
  <2>1. Depth(cstack, m) = Depth(cstack, m - 1)
    BY <1>2, <1>4, DepthStep DEF p
  <2>2. \A j : j \in 1..m <=> j \in 1..(m - 1) \/ j = m
    BY <1>4
  <2> QED BY <1>2, <2>1, <2>2 DEF Hooked, p
<1>10. Thread(d) = Cur
  <2>1. CASE m = 1
    BY <1>2, <1>5, <1>8, <2>1
  <2>2. CASE m # 1
    <3>1. m - 1 \in 1..n /\ m - 1 <= m /\ (\A k \in ((m - 1) + 1)..m : k = m) /\ m - 1 # 0
      BY <1>4, <2>2
    <3>2. cstack[m - 1].t = cstack[m].t
      BY <1>1, <1>2, <1>4, <3>1 DEF Nested, Threaded, p
    <3> QED BY <1>2, <1>5, <3>1, <3>2 DEF p
  <2> QED BY <2>1, <2>2
<1>11. d # <<>> => /\ d[Len(d)] = cstack[m - 1] /\ d[Len(d)].k \in {"execute", "call"}
                   /\ p.ci = Reach(d[Len(d)]) + 1 /\ Reach(d[Len(d)]) \in Nat \ {0}
                   /\ d[Len(d)].ci <= Reach(d[Len(d)]) /\ d[Len(d)].ci \in Nat
  <2> SUFFICES ASSUME d # <<>>
               PROVE  /\ d[Len(d)] = cstack[m - 1] /\ d[Len(d)].k \in {"execute", "call"}
                      /\ p.ci = Reach(d[Len(d)]) + 1 /\ Reach(d[Len(d)]) \in Nat \ {0}
                      /\ d[Len(d)].ci <= Reach(d[Len(d)]) /\ d[Len(d)].ci \in Nat
    OBVIOUS
  <2>1. m # 1 /\ m - 1 # 0 /\ d[Len(d)] = cstack[m - 1] /\ cstack[m - 1] \in Acts
    BY <1>4, <1>5
  <2>2. /\ Reach(cstack[m - 1]) \in Nat /\ cstack[m - 1].ci \in Nat \ {0}
        /\ cstack[m - 1].ci <= Reach(cstack[m - 1])
    BY <2>1, ActFacts
  <2>3. Reach(cstack[m - 1]) # 0
    BY <2>2
  <2> QED BY <1>8, <2>1, <2>2, <2>3
<1>12. d # <<>> => Keeps(L.ci, l.ci, Reach(d[Len(d)]))
  <2> SUFFICES ASSUME d # <<>> PROVE Keeps(L.ci, l.ci, Reach(d[Len(d)]))
    OBVIOUS
  <2>1. p.ci - 1 = Reach(d[Len(d)])
    BY <1>11
  <2> QED BY <1>7, <2>1
<1>13. Attached(l, d, Len(d), Cur)
  <2>1. l.nCcalls = Depth(d, Len(d)) /\ l.allowhook = ~Hooked(d, Len(d), Cur)
    <3>1. Hooked(d, Len(d), Cur) <=> Hooked(cstack, m, Cur)
      BY <1>5, <1>9
    <3>2. Depth(d, Len(d)) = Depth(cstack, m)
      BY <1>5, <1>9
    <3> QED BY <1>7, <1>8, <3>1, <3>2
  <2>2. ASSUME l.errfunc # 0
        PROVE  Handler(d, Len(d), Cur, l.errfunc) /\ l.errfunc <= Len(l.ci) /\ l.ci[l.errfunc] = "xpcall"
    <3>1. m # 1 /\ d # <<>> /\ p.errfunc # 0
      BY <1>4, <1>5, <1>7, <1>8, <2>2
    <3>2. Handler(cstack, m - 1, Cur, p.errfunc) /\ p.errfunc <= cstack[m - 1].ci
      BY <1>8, <3>1
    <3>3. L.ci[p.errfunc] = "xpcall"
      BY <1>2, <1>3, <3>1 DEF FramesOf
    <3>4. p.errfunc \in 1..(p.ci - 1) /\ p.errfunc <= p.ci
      BY <1>2, <1>11, <3>1, <3>2
    <3>5. l.ci[p.errfunc] = "xpcall"
      BY <1>7, <3>3, <3>4 DEF Keeps
    <3> QED BY <1>5, <1>7, <3>2, <3>4, <3>5
  <2> QED BY <2>1, <2>2 DEF Attached
<1>14. Whole(d, th') /\ th'[Thread(d)] = l
  <2>1. /\ Len(d) <= Len(cstack) /\ Agree(cstack, d, Len(d)) /\ Thread(d) = Thread(cstack)
        /\ \A t \in Threads \ {Thread(cstack)} : th'[t] = th[t]
    BY <1>1, <1>4, <1>5, <1>6, <1>10 DEF n
  <2>2. /\ RoomIn(th'[Thread(cstack)]) /\ Steady(th[Thread(cstack)], th'[Thread(cstack)])
        /\ Thread(cstack) = Main => th'[Main].status = "OK"
        /\ d # <<>> => Keeps(th[Thread(cstack)].ci, th'[Thread(cstack)].ci, Reach(d[Len(d)]))
        /\ Attached(th'[Thread(cstack)], d, Len(d), Thread(cstack))
    BY <1>1, <1>6, <1>12, <1>13
  <2> QED BY <1>1, <1>5, <1>6, <1>10, <2>1, <2>2, CutWhole
<1>15. Depth(d, Len(d)) < Limit
  BY <1>5, <1>8, <1>9
<1>16. CASE d = <<>>
  <2>1. Len(l.ci) = 1
    BY <1>4, <1>5, <1>7, <1>8, <1>16
  <2> QED BY <1>14, <1>15, <1>16, <2>1, EndsInRun
<1>17. CASE d # <<>>
  <2>1. Len(l.ci) = Reach(d[Len(d)]) + 1 /\ Last(l.ci) # "lua" /\ d[Len(d)].k \in {"execute", "call"}
    <3>1. p.ci # 1 /\ Len(l.ci) = Reach(d[Len(d)]) + 1
      BY <1>7, <1>11, <1>17
    <3> QED BY <1>7, <1>11, <1>17, <3>1
  <2> QED BY <1>14, <1>15, <1>17, <2>1, EndsInRun
<1> QED BY <1>16, <1>17

\* luaD_pcall returns without an error and puts the handler back.
LEMMA ReturnFromPcallKeeps == CallsInv /\ ReturnFromPcall => CallsInv'
<1> SUFFICES ASSUME CallsInv, ReturnFromPcall PROVE CallsInv'
  OBVIOUS
<1> DEFINE l0 == [L EXCEPT !.errfunc = Top.errfunc]
           l == Served(l0)
           n == Len(cstack)
           d == cstack'
<1>1. todo = Back /\ Top.k = "pcall" /\ IsStep(l, th') /\ cstack' = d /\ d = Front(cstack) /\ todo' = Run
  BY DEF ReturnFromPcall, Does, IsStep
<1>2. cstack # <<>> /\ L.status = "OK" /\ Len(L.ci) = Top.ci
  BY <1>1, WhenBack DEF AtBack
<1>3. /\ L \in LState /\ RoomIn(L) /\ L.ci \in Seq(Frame) /\ cstack \in Seq(Acts) /\ n \in Nat \ {0}
      /\ Attached(L, cstack, n, Cur) /\ Top = cstack[n] /\ Top \in Acts /\ Top.t = Cur /\ Based(cstack, n)
      /\ Len(L.ci) \in Nat \ {0}
  BY <1>2, Current
<1>4. Top.errfunc \in Nat
  BY <1>1, <1>3, ActFacts
<1>5. /\ l0 \in LState /\ l0.ci = L.ci /\ l0.status = "OK" /\ Steady(L, l0) /\ l0.nCcalls = L.nCcalls
      /\ l0.errfunc = Top.errfunc /\ l0.allowhook = L.allowhook /\ l0.size_ci = L.size_ci
  BY <1>2, <1>3, <1>4 DEF LState, Steady
<1> HIDE DEF l0
<1>6. RoomIn(l0)
  BY <1>3, <1>5 DEF RoomIn
<1>7. /\ l \in LState /\ RoomIn(l) /\ Alike(l0, l) /\ Len(l.ci) = Len(l0.ci) /\ Keeps(l0.ci, l.ci, Len(l0.ci) - 1)
      /\ Len(l0.ci) # 1 => Last(l.ci) = "done"
  BY <1>5, <1>6, Serves
<1> HIDE DEF l, d
<1>8. IsCut(cstack, n - 1, d) /\ n \in 1..Len(cstack)
  BY <1>1, <1>2, <1>3, Fronted DEF IsCut
<1>9. L.nCcalls = Top.nCcalls /\ L.allowhook = Top.allowhook
  <2>1. Top.nCcalls = Depth(cstack, n) /\ Top.allowhook = ~Hooked(cstack, n, Cur)
    BY <1>1, <1>3 DEF Based
  <2> QED BY <1>3, <2>1 DEF Attached
<1>10. /\ Steady(L, l) /\ l.status = "OK" /\ l.nCcalls = Top.nCcalls /\ l.allowhook = Top.allowhook
       /\ l.errfunc = Top.errfunc /\ Len(l.ci) = Top.ci /\ Keeps(L.ci, l.ci, Top.ci - 1)
       /\ Top.ci # 1 => Last(l.ci) = "done"
  BY <1>2, <1>5, <1>7, <1>9 DEF Alike, Steady
<1> QED BY <1>1, <1>3, <1>7, <1>8, <1>10, PcallLeaves

\* luaD_pcall puts everything back.
LEMMA Recovers ==
  ASSUME NEW l \in LState, RoomIn(l), NEW p \in Acts, p.k = "pcall", p.ci <= Len(l.ci)
  PROVE  /\ Recovered(l, p) \in LState /\ RoomIn(Recovered(l, p)) /\ Steady(l, Recovered(l, p))
         /\ Recovered(l, p).status = l.status /\ Recovered(l, p).nCcalls = p.nCcalls
         /\ Recovered(l, p).allowhook = p.allowhook /\ Recovered(l, p).errfunc = p.errfunc
         /\ Len(Recovered(l, p).ci) = p.ci /\ Keeps(l.ci, Recovered(l, p).ci, p.ci)
<1> DEFINE s == SubSeq(l.ci, 1, p.ci)
           u == [l EXCEPT !.nCcalls = p.nCcalls, !.ci = s, !.allowhook = p.allowhook]
           w == restore_stack_limit(u)
<1>1. /\ p.ci \in Nat \ {0} /\ p.nCcalls \in Nat /\ p.errfunc \in Nat /\ p.allowhook \in BOOLEAN
  BY ActFacts
<1>2. /\ l.ci \in Seq(Frame) /\ Len(l.ci) \in Nat /\ l.size_ci \in Nat /\ Len(l.ci) <= l.size_ci
      /\ l.size_ci \in 2..(2 * LUAI_MAXCALLS) /\ l.ci[1] = "base" /\ LUAI_MAXCALLS \in Nat /\ LUAI_MAXCALLS >= 2
  BY LimitsHold DEF LState, RoomIn
<1>3. s \in Seq(Frame) /\ Len(s) = p.ci /\ (\A i \in 1..p.ci : s[i] = l.ci[i]) /\ s[1] = "base"
  <2>1. s \in Seq(Frame) /\ Len(s) = p.ci /\ (\A i \in 1..p.ci : s[i] = l.ci[i])
    BY <1>1, <1>2, Popped
  <2>2. 1 \in 1..p.ci
    BY <1>1
  <2> QED BY <1>2, <2>1, <2>2
<1> HIDE DEF s
<1>4. /\ u \in LState /\ u.ci = s /\ Steady(l, u) /\ u.status = l.status /\ u.nCcalls = p.nCcalls
      /\ u.allowhook = p.allowhook /\ u.size_ci = l.size_ci
  BY <1>1, <1>3 DEF LState, Steady
<1>5. Recovered(l, p) = [w EXCEPT !.errfunc = p.errfunc]
  BY DEF Recovered, s
<1> HIDE DEF u
<1>6. /\ w \in LState /\ w.ci = s /\ Steady(l, w) /\ w.status = l.status /\ w.nCcalls = p.nCcalls
      /\ w.allowhook = p.allowhook /\ w.size_ci \in 2..(2 * LUAI_MAXCALLS) /\ p.ci <= w.size_ci
  <2>1. CASE u.size_ci > LUAI_MAXCALLS /\ Len(u.ci) < LUAI_MAXCALLS
    <3>1. w = [u EXCEPT !.size_ci = LUAI_MAXCALLS]
      BY <2>1 DEF restore_stack_limit, luaD_reallocCI
    <3>2. /\ w \in LState /\ w.ci = s /\ Steady(l, w) /\ w.status = l.status /\ w.nCcalls = p.nCcalls
          /\ w.allowhook = p.allowhook /\ w.size_ci = LUAI_MAXCALLS
      BY <1>2, <1>4, <3>1 DEF LState, Steady
    <3>3. LUAI_MAXCALLS \in 2..(2 * LUAI_MAXCALLS) /\ p.ci <= LUAI_MAXCALLS
      BY <1>1, <1>2, <1>3, <1>4, <2>1
    <3> QED BY <3>2, <3>3
  <2>2. CASE ~(u.size_ci > LUAI_MAXCALLS /\ Len(u.ci) < LUAI_MAXCALLS)
    <3>1. w = u
      BY <2>2 DEF restore_stack_limit
    <3>2. p.ci <= l.size_ci
      BY <1>1, <1>2
    <3> QED BY <1>2, <1>4, <3>1, <3>2
  <2> QED BY <2>1, <2>2
<1> HIDE DEF w
<1>7. /\ Recovered(l, p) \in LState /\ Recovered(l, p).ci = s /\ Steady(l, Recovered(l, p))
      /\ Recovered(l, p).status = l.status /\ Recovered(l, p).nCcalls = p.nCcalls
      /\ Recovered(l, p).allowhook = p.allowhook /\ Recovered(l, p).errfunc = p.errfunc
      /\ Recovered(l, p).size_ci = w.size_ci
  BY <1>1, <1>5, <1>6 DEF LState, Steady
<1>8. RoomIn(Recovered(l, p))
  BY <1>1, <1>3, <1>6, <1>7 DEF RoomIn
<1>9. Keeps(l.ci, s, p.ci)
  BY <1>1, <1>3 DEF Keeps
<1> QED BY <1>3, <1>7, <1>8, <1>9

\* luaD_pcall catches an error of whatever it has called.
LEMMA CatchKeeps == CallsInv /\ Catch => CallsInv'
<1> SUFFICES ASSUME CallsInv, Catch PROVE CallsInv'
  OBVIOUS
<1> DEFINE m == errorJmp
           p == cstack[errorJmp]
           r == Recovered(L, p)
           l == Served(r)
           d == cstack'
<1>1. /\ todo[1] = "luaD_throw" /\ p.k = "pcall" /\ IsStep(l, th') /\ cstack' = d /\ IsCut(cstack, m - 1, d)
      /\ todo' = Run
  BY DEF Catch, Does, IsStep, IsCut
<1>2. L.status = "OK" /\ cstack # <<>>
  BY <1>1, WhenThrow DEF AtError
<1>3. m \in 1..Len(cstack) /\ p.t = Cur
  BY <1>2, Jumps
<1>4. /\ L \in LState /\ RoomIn(L) /\ p \in Acts /\ FramesOf(p, L.ci)
  <2>1. Framed(cstack, Len(cstack), th) /\ cstack \in Seq(Acts)
    BY Current DEF Whole, Standing
  <2> QED BY <1>3, <2>1, Current DEF Framed, L
<1>5. Reach(p) = p.ci /\ p.ci <= Len(L.ci) /\ p.ci \in Nat \ {0}
  BY <1>1, <1>4, ActFacts DEF FramesOf
<1> HIDE DEF m, p
<1>6. /\ r \in LState /\ RoomIn(r) /\ Steady(L, r) /\ r.status = L.status /\ r.nCcalls = p.nCcalls
      /\ r.allowhook = p.allowhook /\ r.errfunc = p.errfunc
      /\ Len(r.ci) = p.ci /\ Keeps(L.ci, r.ci, p.ci)
  BY <1>1, <1>4, <1>5, Recovers
<1> HIDE DEF r
<1>7. /\ l \in LState /\ RoomIn(l) /\ Alike(r, l) /\ Len(l.ci) = Len(r.ci) /\ Keeps(r.ci, l.ci, Len(r.ci) - 1)
      /\ Len(r.ci) # 1 => Last(l.ci) = "done"
  BY <1>6, Serves
<1> HIDE DEF l, d
<1>8. Keeps(L.ci, l.ci, p.ci - 1)
  <2>1. p.ci - 1 <= Len(l.ci)
    BY <1>5, <1>6, <1>7
  <2>2. \A i \in 1..(p.ci - 1) : i \in 1..p.ci
    BY <1>5
  <2> QED BY <1>6, <1>7, <2>1, <2>2 DEF Keeps
<1>9. /\ Steady(L, l) /\ l.status = "OK" /\ l.nCcalls = p.nCcalls /\ l.allowhook = p.allowhook
      /\ l.errfunc = p.errfunc /\ Len(l.ci) = p.ci /\ (p.ci # 1 => Last(l.ci) = "done")
  BY <1>2, <1>6, <1>7 DEF Alike, Steady
<1>10. p = cstack[m]
  BY DEF p, m
<1> QED BY <1>1, <1>3, <1>7, <1>8, <1>9, <1>10, PcallLeaves

-----------------------------------------------------------------------------
(* Coroutines.                                                             *)

\* The last activation of thread t on the C stack.
LastOf(c, n, t) == Max({i \in 1..n : c[i].t = t})

\* A thread that is further out has resumed the next one.
LEMMA OuterThread ==
  ASSUME NEW c, NEW h, Whole(c, h), NEW t, Runs(c, Len(c), t)
  PROVE  /\ LastOf(c, Len(c), t) \in 1..Len(c) /\ c[LastOf(c, Len(c), t)].t = t
         /\ \A i \in 1..Len(c) : c[i].t = t => i <= LastOf(c, Len(c), t)
         /\ t = Thread(c) => LastOf(c, Len(c), t) = Len(c)
         /\ t # Thread(c) =>
              /\ LastOf(c, Len(c), t) + 1 \in 2..Len(c) /\ Resuming(c, LastOf(c, Len(c), t) + 1, h)
              /\ Len(h[t].ci) > 1 /\ h[t].status = "OK"
              /\ Attached(h[t], c, LastOf(c, Len(c), t), t)
<1> DEFINE n == Len(c)
           j == LastOf(c, Len(c), t)
           S == {i \in 1..n : c[i].t = t}
<1>1. /\ n \in Nat /\ Nested(c, n) /\ Frozen(c, n, h) /\ (\A i \in 1..n : c[i] \in Acts)
      /\ (c = <<>> <=> n = 0)
  BY StandingFacts DEF Whole, Standing
<1>2. S \in SUBSET (1..n) /\ S # {}
  BY DEF Runs
<1>3. n # 0 /\ Thread(c) = c[n].t
  <2>1. n # 0
    BY <1>1, <1>2
  <2> QED BY <1>1, <2>1 DEF Thread
<1>4. j \in S /\ \A y \in S : y <= j
  <2>1. j = Max(S)
    BY DEF LastOf
  <2> HIDE DEF S, j
  <2> QED BY <1>1, <1>2, <2>1, GreatestElement
<1> HIDE DEF j
<1>5. j \in 1..n /\ c[j].t = t /\ \A i \in 1..n : c[i].t = t => i <= j
  BY <1>4
<1> HIDE DEF n, S
<1>6. ASSUME t = Thread(c) PROVE j = n
  <2>1. n \in 1..n /\ n <= j
    BY <1>1, <1>3, <1>5, <1>6
  <2> QED BY <1>5, <2>1
<1>7. ASSUME t # Thread(c)
      PROVE  /\ j + 1 \in 2..n /\ Resuming(c, j + 1, h) /\ Len(h[t].ci) > 1 /\ h[t].status = "OK"
             /\ Attached(h[t], c, j, t)
  <2>1. j # n /\ j + 1 \in 2..n /\ j + 1 \in 1..n /\ j \in 1..n /\ j \in Nat
    BY <1>1, <1>3, <1>5, <1>7
  <2>2. c[j + 1].t # t
    BY <1>5, <2>1
  <2>3. c[j + 1].k = "resume"
    <3>1. c[j].t = c[j + 1].t <=> \A m \in (j + 1)..(j + 1) : c[m].k # "resume"
      BY <1>1, <2>1 DEF Nested, Threaded
    <3>2. \A m \in (j + 1)..(j + 1) : m = j + 1
      BY <2>1
    <3> QED BY <1>5, <2>2, <3>1, <3>2
  <2>4. Resuming(c, j + 1, h)
    BY <1>1, <2>1, <2>3 DEF Frozen
  <2>5. (j + 1) - 1 = j
    BY <2>1
  <2>6. /\ h[t].status = "OK" /\ Len(h[t].ci) = Reach(c[j]) + 1 /\ Attached(h[t], c, j, t)
    BY <1>5, <2>4, <2>5 DEF Resuming
  <2>7. Reach(c[j]) \in Nat /\ c[j].ci \in Nat \ {0} /\ c[j].ci <= Reach(c[j])
    BY <1>1, <2>1, ActFacts
  <2>8. Reach(c[j]) >= 1
    BY <2>7
  <2>9. Len(h[t].ci) > 1
    BY <2>6, <2>7, <2>8
  <2> QED BY <2>1, <2>4, <2>6, <2>9
<1> QED BY <1>5, <1>6, <1>7 DEF n, j

\* auxresume answers in the running thread of the C stack d.
LEMMA Answers ==
  ASSUME NEW d, NEW g, Whole(d, g), d # <<>>, d[Len(d)].k \in {"execute", "call"}, Depth(d, Len(d)) < Limit,
         g[Thread(d)].status = "OK", Last(g[Thread(d)].ci) \in {"resume", "wrap"},
         Len(g[Thread(d)].ci) = Reach(d[Len(d)]) + 1,
         cstack' = d, NEW l, th' = [g EXCEPT ![Thread(d)] = l],
         (l = Served(g[Thread(d)]) /\ todo' = Run) \/ (l = g[Thread(d)] /\ todo' = Raise)
  PROVE  CallsInv'
<1> DEFINE n == Len(d)
           x == Thread(d)
           m == g[Thread(d)]
           a == d[Len(d)]
<1>1. /\ n \in Nat \ {0} /\ d \in Seq(Acts) /\ x \in Threads /\ g \in [Threads -> LState] /\ Nested(d, n)
      /\ (\A i \in 1..n : d[i] \in Acts) /\ x = a.t
  <2>1. Standing(d, g)
    BY DEF Whole
  <2>2. /\ n \in Nat /\ d \in Seq(Acts) /\ x \in Threads /\ (\A i \in 1..n : d[i] \in Acts)
        /\ (d = <<>> <=> n = 0)
    BY <2>1, StandingFacts
  <2>3. n # 0 /\ x = a.t
    BY <2>2 DEF Thread
  <2> QED BY <2>1, <2>2, <2>3 DEF Standing
<1>2. m \in LState /\ RoomIn(m) /\ Attached(m, d, n, x)
  BY <1>1 DEF Whole, Standing
<1>3. a \in Acts /\ a.ci \in Nat \ {0} /\ Reach(a) \in Nat /\ a.ci <= Reach(a)
  <2>1. n \in 1..n
    BY <1>1
  <2> QED BY <1>1, <2>1, ActFacts
<1>4. m.status = "OK" /\ Len(m.ci) = Reach(a) + 1 /\ a.k \in {"execute", "call"} /\ Depth(d, n) < Limit
  OBVIOUS
<1> HIDE DEF n, x, m, a
<1>5. CASE l = m /\ todo' = Raise
  <2>1. th' = g
    BY <1>1, <1>5 DEF m, x
  <2> QED BY <1>4, <1>5, <2>1, EndsInError DEF m, n
<1>6. CASE l = Served(m) /\ todo' = Run
  <2>1. /\ l \in LState /\ RoomIn(l) /\ Alike(m, l) /\ Len(l.ci) = Reach(a) + 1
        /\ Keeps(m.ci, l.ci, Reach(a)) /\ Last(l.ci) = "done"
    <3>1. /\ l \in LState /\ RoomIn(l) /\ Alike(m, l) /\ Len(l.ci) = Len(m.ci)
          /\ Keeps(m.ci, l.ci, Len(m.ci) - 1) /\ (Len(m.ci) # 1 => Last(l.ci) = "done")
      BY <1>2, <1>6, Serves
    <3>2. Len(m.ci) - 1 = Reach(a) /\ Len(m.ci) # 1
      BY <1>3, <1>4
    <3> QED BY <1>4, <3>1, <3>2
  <2>2. Steady(m, l) /\ l.status = "OK"
    BY <1>4, <2>1 DEF Alike, Steady
  <2>3. Attached(l, d, n, x)
    <3>1. l.nCcalls = Depth(d, n) /\ l.allowhook = ~Hooked(d, n, x)
      BY <1>2, <2>1 DEF Attached, Alike
    <3>2. ASSUME l.errfunc # 0 PROVE Handler(d, n, x, l.errfunc) /\ l.errfunc <= Len(l.ci) /\ l.ci[l.errfunc] = "xpcall"
      <4>1. l.errfunc = m.errfunc /\ Handler(d, n, x, l.errfunc) /\ m.ci[l.errfunc] = "xpcall"
        BY <1>2, <2>1, <3>2 DEF Attached, Alike
      <4>2. l.errfunc \in Nat \ {0} /\ l.errfunc <= a.ci
        <5>1. n \in Nat /\ d[n].t = x /\ a = d[n]
          BY <1>1 DEF a, n
        <5> QED BY <1>1, <4>1, <5>1, HandlerBelow
      <4>3. l.errfunc \in 1..Reach(a) /\ l.errfunc <= Reach(a) + 1
        BY <1>3, <4>2
      <4> QED BY <2>1, <4>1, <4>3 DEF Keeps
    <3> QED BY <3>1, <3>2 DEF Attached
  <2>4. th' \in [Threads -> LState] /\ th'[x] = l /\ \A t \in Threads \ {x} : th'[t] = g[t]
    BY <1>1, <2>1 DEF x
  <2>5. Whole(d, th')
    <3>1. Agree(d, d, Len(d)) /\ Len(d) <= Len(d)
      BY <1>1 DEF Agree, n
    <3>2. /\ RoomIn(th'[Thread(d)]) /\ Steady(g[Thread(d)], th'[Thread(d)])
          /\ Thread(d) = Main => th'[Main].status = "OK"
          /\ Keeps(g[Thread(d)].ci, th'[Thread(d)].ci, Reach(d[Len(d)]))
          /\ Attached(th'[Thread(d)], d, Len(d), Thread(d))
      BY <2>1, <2>2, <2>3, <2>4 DEF x, m, n, a
    <3>3. \A t \in Threads \ {Thread(d)} : th'[t] = g[t]
      BY <2>4 DEF x
    <3> QED BY <1>1, <2>4, <3>1, <3>2, <3>3, CutWhole
  <2>6. Last(l.ci) # "lua" /\ th'[Thread(d)] = l /\ Len(l.ci) = Reach(d[Len(d)]) + 1
    BY <2>1, <2>4 DEF x, a
  <2> QED BY <1>6, <2>2, <2>5, <2>6, EndsInRun
<1> QED BY <1>5, <1>6 DEF m

\* A running coroutine was resumed.
LEMMA Resumer ==
  ASSUME NEW c, NEW h, Whole(c, h), Thread(c) # Main
  PROVE  \E r \in 2..Len(c) : /\ c[r].k = "resume" /\ c[r].t = Thread(c)
                              /\ \A k \in (r + 1)..Len(c) : c[k].k # "resume"
<1> DEFINE n == Len(c)
           S == {i \in 1..n : c[i].k = "resume"}
<1>1. n \in Nat /\ Nested(c, n) /\ (c = <<>> <=> n = 0)
  BY StandingFacts DEF Whole, Standing
<1>2. n # 0 /\ Thread(c) = c[n].t
  BY <1>1 DEF Thread
<1>3. 1 \in 1..n /\ n \in 1..n /\ 1 <= n
  BY <1>1, <1>2
<1>4. c[1].t = Main /\ c[1].k # "resume"
  BY <1>1, <1>3 DEF Nested, Based
<1>5. S # {}
  <2>1. c[1].t = c[n].t <=> \A m \in (1 + 1)..n : c[m].k # "resume"
    BY <1>1, <1>3 DEF Nested, Threaded
  <2>2. PICK m \in (1 + 1)..n : c[m].k = "resume"
    BY <1>2, <1>4, <2>1
  <2> QED BY <1>1, <2>2
<1>6. S \in SUBSET (1..n)
  OBVIOUS
<1>7. Max(S) \in S /\ \A y \in S : y <= Max(S)
  <2> HIDE DEF S
  <2> QED BY <1>1, <1>5, <1>6, GreatestElement
<1> DEFINE r == Max(S)
<1>8. r \in 1..n /\ c[r].k = "resume" /\ \A y \in S : y <= r
  BY <1>7
<1> HIDE DEF r
<1>9. \A k \in (r + 1)..n : c[k].k # "resume"
  <2> SUFFICES ASSUME NEW k \in (r + 1)..n PROVE c[k].k # "resume"
    OBVIOUS
  <2>1. k \in 1..n /\ ~(k <= r)
    BY <1>1, <1>8
  <2>2. k \notin S
    BY <1>8, <2>1
  <2> QED BY <2>1, <2>2
<1>10. c[r].t = c[n].t
  <2>1. r <= n
    BY <1>1, <1>8
  <2> QED BY <1>1, <1>3, <1>8, <1>9, <2>1 DEF Nested, Threaded
<1>11. r \in 2..n
  <2>1. r # 1
    BY <1>4, <1>8
  <2> QED BY <1>1, <1>8, <2>1
<1> QED BY <1>2, <1>8, <1>9, <1>10, <1>11

\* When nothing has been called in a coroutine since it was resumed: only Lua functions.
LEMMA NothingBetween ==
  ASSUME CallsInv, cstack # <<>>, Top.k \in {"execute", "call"}, ~CannotYield
  PROVE  /\ Cur \in Coroutines /\ Top.k = "execute" /\ Len(cstack) > 1 /\ Top.ci = 1
         /\ cstack[Len(cstack) - 1].k = "resume" /\ cstack[Len(cstack) - 1].ci = 1
         /\ ~Hooked(cstack, Len(cstack), Cur) /\ \A e : ~Handler(cstack, Len(cstack), Cur, e)
<1> DEFINE n == Len(cstack)
<1>1. /\ n \in Nat \ {0} /\ Whole(cstack, th) /\ Top = cstack[n] /\ Top \in Acts /\ Top.t = Cur
      /\ Attached(L, cstack, n, Cur) /\ Based(cstack, n) /\ Nested(cstack, n) /\ Frozen(cstack, n, th)
      /\ Lives(cstack, n, th) /\ Cur = Thread(cstack) /\ Cur \in Threads
  BY Current DEF Whole, Standing
<1>2. L.nCcalls = Depth(cstack, n) /\ L.nCcalls <= L.baseCcalls /\ L.baseCcalls \in Nat
  BY <1>1, Current, DepthNat DEF Attached, CannotYield, LState
<1> HIDE DEF n
<1>3. n # 1 /\ n - 1 \in 1..n /\ n - 1 \in Nat \ {0}
  <2>1. n # 1
    BY <1>1 DEF Based
  <2> QED BY <1>1, <2>1
<1>4. \E j \in 1..n : cstack[j].k \in {"call", "resume"}
  <2>1. CASE Top.k = "call"
    BY <1>1, <2>1
  <2>2. CASE Top.k = "execute"
    BY <1>1, <1>3, <2>2 DEF Based
  <2> QED BY <2>1, <2>2
<1>5. Depth(cstack, n) # 0
  <2>1. PICK j \in 1..n : cstack[j].k \in {"call", "resume"}
    BY <1>4
  <2>2. Depth(cstack, j) = Depth(cstack, j - 1) + 1 /\ j \in Nat \ {0} /\ j - 1 \in Nat /\ j <= n
    BY <1>1, <2>1, DepthStep
  <2>3. Depth(cstack, j - 1) \in Nat /\ Depth(cstack, j) <= Depth(cstack, n) /\ Depth(cstack, n) \in Nat
    BY <1>1, <2>2, DepthNat, DepthGrows
  <2> QED BY <2>2, <2>3
<1>6. Cur # Main
  <2> SUFFICES ASSUME Cur = Main PROVE FALSE
    OBVIOUS
  <2>1. L.baseCcalls = 0
    BY <1>1 DEF Lives, L
  <2> QED BY <1>1, <1>2, <1>5, <2>1, DepthNat
<1>7. PICK r \in 2..n : /\ cstack[r].k = "resume" /\ cstack[r].t = Cur
                        /\ \A k \in (r + 1)..n : cstack[k].k # "resume"
  <2>1. Thread(cstack) # Main
    BY <1>1, <1>6
  <2> QED BY <1>1, <2>1, Resumer DEF n
<1>8. Depth(cstack, n) <= Depth(cstack, r)
  <2>1. L.baseCcalls = Depth(cstack, r)
    BY <1>1, <1>7 DEF Frozen, L
  <2> QED BY <1>2, <2>1
<1>9. ASSUME NEW j \in 1..n, cstack[j].k = "call" PROVE ~(r < j)
  <2> SUFFICES ASSUME r < j PROVE FALSE
    OBVIOUS
  <2>1. j \in Nat \ {0} /\ j - 1 \in Nat /\ j <= n /\ r <= j - 1 /\ r \in Nat
    BY <1>1
  <2>2. Depth(cstack, j) = Depth(cstack, j - 1) + 1
    BY <1>9, <2>1, DepthStep
  <2>3. Depth(cstack, r) <= Depth(cstack, j - 1) /\ Depth(cstack, j - 1) \in Nat /\ Depth(cstack, r) \in Nat
    BY <2>1, DepthGrows
  <2>4. Depth(cstack, j) <= Depth(cstack, n) /\ Depth(cstack, n) \in Nat
    BY <1>1, <2>1, DepthGrows
  <2> QED BY <1>8, <2>2, <2>3, <2>4
<1>10. Top.k = "execute"
  <2>1. Top.k # "call"
    <3> SUFFICES ASSUME Top.k = "call" PROVE FALSE
      OBVIOUS
    <3>1. n \in 1..n /\ ~(r < n) /\ r <= n
      BY <1>1, <1>9
    <3>2. r = n
      BY <1>1, <3>1
    <3> QED BY <1>1, <1>7, <3>2
  <2> QED BY <2>1
<1>11. cstack[n - 1].k = "resume" /\ cstack[n - 1].ci = 1 /\ Top.ci = 1
  <2>1. cstack[n - 1].k \in {"call", "resume"} /\ Top.ci = cstack[n - 1].ci
    BY <1>1, <1>10 DEF Based
  <2>2. r # n
    BY <1>1, <1>7, <1>10
  <2>3. cstack[n - 1].k # "call"
    <3> SUFFICES ASSUME cstack[n - 1].k = "call" PROVE FALSE
      OBVIOUS
    <3>1. ~(r < n - 1) /\ r <= n
      BY <1>1, <1>3, <1>9
    <3>2. r = n - 1
      BY <1>1, <2>2, <3>1
    <3> QED BY <1>7, <3>2
  <2>4. Based(cstack, n - 1)
    BY <1>1, <1>3 DEF Nested
  <2> QED BY <2>1, <2>3, <2>4 DEF Based
<1>12. ASSUME NEW j \in 1..n, cstack[j].t = Cur PROVE cstack[j].k \notin {"hook", "pcall"}
  <2>1. CASE j = n
    BY <1>1, <1>10, <2>1
  <2>2. CASE j = n - 1
    BY <1>11, <2>2
  <2>3. CASE j < n - 1
    <3>1. n \in 1..n /\ j <= n /\ n - 1 \in (j + 1)..n
      BY <1>1, <1>3, <2>3
    <3>2. cstack[j].t # cstack[n].t
      BY <1>1, <1>11, <3>1 DEF Nested, Threaded
    <3> QED BY <1>1, <1>12, <3>2
  <2>4. j = n \/ j = n - 1 \/ j < n - 1
    BY <1>1
  <2> QED BY <2>1, <2>2, <2>3, <2>4
<1>13. ~Hooked(cstack, n, Cur) /\ \A e : ~Handler(cstack, n, Cur, e)
  BY <1>12 DEF Hooked, Handler
<1>14. Cur \in Coroutines /\ n > 1
  BY <1>1, <1>3, <1>6 DEF Threads
<1> QED BY <1>10, <1>11, <1>13, <1>14 DEF n

\* lua_yield refuses, or leaves the coroutine with its Lua functions.
LEMMA lua_yieldKeeps == CallsInv /\ lua_yield => CallsInv'
<1> SUFFICES ASSUME CallsInv, lua_yield PROVE CallsInv'
  OBVIOUS
<1>1. todo = Run /\ cstack # <<>> /\ Last(L.ci) = "yield"
  BY DEF lua_yield
<1>2. Top.k \in {"execute", "call"} /\ L.status = "OK" /\ Len(L.ci) = Reach(Top) + 1 /\ Reach(Top) \in Nat \ {0}
  BY <1>1, CRuns
<1>3. /\ L \in LState /\ RoomIn(L) /\ Whole(cstack, th) /\ Cur = Thread(cstack) /\ Cur \in Threads
      /\ th \in [Threads -> LState] /\ Len(cstack) \in Nat /\ Depth(cstack, Len(cstack)) < Limit
      /\ FramesOf(Top, L.ci) /\ Top \in Acts /\ Attached(L, cstack, Len(cstack), Cur) /\ L.ci[1] = "base"
  BY <1>1, Current, WhenRun DEF RoomIn
<1>4. CASE CannotYield
  <2>1. Does(L, cstack, Raise)
    BY <1>4 DEF lua_yield
  <2>2. th' = th /\ cstack' = cstack /\ todo' = Raise /\ th[Thread(cstack)] = L
    BY <1>3, <2>1 DEF Does, L
  <2> QED BY <1>1, <1>2, <1>3, <2>2, EndsInError
<1>5. CASE ~CannotYield
  <2> DEFINE l == [L EXCEPT !.status = "YIELD"]
             d == cstack'
             n == Len(cstack)
  <2>1. /\ Cur \in Coroutines /\ Top.k = "execute" /\ n > 1 /\ Top.ci = 1
        /\ cstack[n - 1].k = "resume" /\ cstack[n - 1].ci = 1
        /\ ~Hooked(cstack, n, Cur) /\ \A e : ~Handler(cstack, n, Cur, e)
    BY <1>1, <1>2, <1>5, NothingBetween
  <2>2. IsStep(l, th') /\ IsFront(cstack, d) /\ cstack' = d /\ todo' = Back
    BY <1>5, <2>1 DEF lua_yield, Does, IsStep, IsFront
  <2>3. /\ l \in LState /\ l.ci = L.ci /\ l.status = "YIELD" /\ Steady(L, l) /\ l.nCcalls = L.nCcalls
        /\ l.errfunc = L.errfunc /\ l.allowhook = L.allowhook /\ l.size_ci = L.size_ci
        /\ l.life = L.life /\ l.top = L.top
    BY <1>3 DEF LState, Steady
  <2> HIDE DEF l, d
  <2>4. RoomIn(l)
    BY <1>3, <2>3 DEF RoomIn
  <2>5. /\ d \in Seq(Acts) /\ Len(cstack) = Len(d) + 1 /\ Len(d) \in Nat /\ (d = <<>> <=> Len(d) = 0) /\ Thread(d) = Cur
        /\ d # <<>> => d[Len(d)] = cstack[Len(d)] /\ Reach(d[Len(d)]) <= Top.ci
    BY <1>1, <2>1, <2>2, Pops
  <2>6. d # <<>> /\ d[Len(d)].k = "resume" /\ d[Len(d)].ci = 1 /\ Reach(d[Len(d)]) = 1
    <3>1. d # <<>> /\ d[Len(d)] = cstack[n - 1]
      BY <2>1, <2>5
    <3> QED BY <2>1, <3>1 DEF Reach
  <2>7. /\ L.nCcalls = Depth(d, Len(d)) /\ L.nCcalls = Depth(cstack, Len(cstack))
        /\ L.allowhook = (~Hooked(d, Len(d), Cur) /\ TRUE)
    BY <1>1, <2>1, <2>2, Survives
  <2>8. L.errfunc = 0
    BY <1>3, <2>1 DEF Attached
  <2>9. Whole(d, th') /\ th'[Thread(d)] = l
    <3>1. l.nCcalls = Depth(d, Len(d)) /\ l.allowhook = ~Hooked(d, Len(d), Cur) /\ l.errfunc = 0
      BY <2>3, <2>7, <2>8
    <3>2. Cur # Main /\ Top.k # "resume"
      BY <2>1, LimitsHold
    <3>3. Keeps(L.ci, l.ci, Reach(d[Len(d)]))
      <4>1. 1 <= Len(l.ci)
        BY <1>2, <2>3
      <4> QED BY <2>3, <2>6, <4>1 DEF Keeps
    <3> QED BY <1>1, <2>2, <2>3, <2>4, <3>1, <3>2, <3>3, Returns
  <2>10. Waits(l)
    <3>1. l.life = "started" /\ l.top = 0
      <4>1. Runs(cstack, n, Cur)
        <5>1. n \in 1..n /\ cstack[n].t = Cur
          BY <1>1, <1>3, <2>1, Current
        <5> QED BY <5>1 DEF Runs
      <4>2. L.life = "started" /\ L.top = 0
        BY <1>3, <2>1, <4>1 DEF Whole, Standing, Lives, L
      <4> QED BY <2>3, <4>2
    <3>2. l.allowhook = TRUE
      <4>1. L.allowhook = ~Hooked(cstack, n, Cur)
        BY <1>3 DEF Attached
      <4> QED BY <2>1, <2>3, <4>1
    <3>3. Reach(Top) = 1 + Top.nexeccalls /\ Top.nexeccalls \in Nat \ {0}
      BY <1>3, <2>1, ActFacts
    <3>4. Len(l.ci) >= 3 /\ Last(l.ci) = "yield"
      BY <1>1, <1>2, <2>3, <3>3
    <3>5. \A p \in 2..(Len(l.ci) - 1) : l.ci[p] = "lua"
      <4>1. \A p \in (Top.ci + 1)..Reach(Top) : L.ci[p] = "lua"
        BY <1>3, <2>1 DEF FramesOf
      <4>2. Top.ci + 1 = 2 /\ Len(l.ci) - 1 = Reach(Top)
        BY <1>2, <2>1, <2>3
      <4> QED BY <2>3, <4>1, <4>2
    <3> QED BY <2>3, <2>8, <3>1, <3>2, <3>4, <3>5 DEF Waits
  <2> QED BY <1>3, <2>2, <2>6, <2>7, <2>9, <2>10, EndsInBack
<1> QED BY <1>4, <1>5

\* The states of a thread that is not there, was just created, or has ended.
LEMMA RestTypes ==
  /\ NewState \in LState /\ RoomIn(NewState) /\ Created \in LState /\ RoomIn(Created)
  /\ \A status \in {"OK"} \cup Errors : Ended(status) \in LState /\ RoomIn(Ended(status))
<1>1. BASIC_CI_SIZE \in Nat /\ BASIC_CI_SIZE \in 2..(2 * LUAI_MAXCALLS) /\ BASIC_CI_SIZE >= 1
  BY LimitsHold
<1>2. <<"base">> \in Seq(Frame) /\ Len(<<"base">>) = 1 /\ <<"base">>[1] = "base"
  BY DEF Frame
<1>3. NewState \in LState /\ NewState.ci = <<"base">> /\ NewState.size_ci = BASIC_CI_SIZE
  BY <1>1, <1>2 DEF NewState, LState
<1>4. Created \in LState /\ Created.ci = <<"base">> /\ Created.size_ci = BASIC_CI_SIZE
  <2> HIDE DEF NewState
  <2> QED BY <1>3 DEF Created, LState
<1>5. ASSUME NEW s \in {"OK"} \cup Errors
      PROVE  Ended(s) \in LState /\ Ended(s).ci = <<"base">> /\ Ended(s).size_ci = BASIC_CI_SIZE
  <2> HIDE DEF NewState
  <2> QED BY <1>3 DEF Ended, LState
<1>6. \A l : l.ci = <<"base">> /\ l.size_ci = BASIC_CI_SIZE => RoomIn(l)
  BY <1>1, <1>2 DEF RoomIn
<1> QED BY <1>3, <1>4, <1>5, <1>6

\* lua_resume, activation m + 1, returns to auxresume and leaves its coroutine in state l.
LEMMA ResumeLeaves ==
  ASSUME CallsInv, NEW m \in 1..(Len(cstack) - 1),
         cstack[m + 1].k = "resume", \A k \in (m + 2)..Len(cstack) : cstack[k].k # "resume",
         NEW d, IsCut(cstack, m, d), NEW l \in LState, RoomIn(l), AtRest(l),
         NEW below, NEW next, LeaveResume(l, d, below, next),
         \/ below = Served(th[Last(d).t]) /\ next = Run
         \/ below = th[Last(d).t] /\ next \in {Raise, Throw("ERRMEM")}
  PROVE  CallsInv'
<1> DEFINE n == Len(cstack)
           g == [th EXCEPT ![Cur] = l]
           from == Last(d).t
<1>1. /\ Whole(cstack, th) /\ Cur = Thread(cstack) /\ Cur \in Threads /\ cstack \in Seq(Acts) /\ n \in Nat
      /\ Nested(cstack, n) /\ (\A i \in 1..n : cstack[i] \in Acts) /\ th \in [Threads -> LState]
  BY Current, StandingFacts DEF Whole, Standing
<1>2. IsStep(l, g)
  BY DEF IsStep
<1>3. m \in 0..n /\ m \in 1..n /\ m + 1 \in 1..n /\ (m + 1) - 1 = m /\ m # 0 /\ m \in Nat
  BY <1>1
<1> HIDE DEF g
<1>4. g \in [Threads -> LState] /\ g[Cur] = l /\ (\A t \in Threads \ {Cur} : g[t] = th[t])
  BY <1>2, Stepped
<1>5. d \in Seq(Acts) /\ Len(d) = m /\ Agree(cstack, d, m) /\ (d = <<>> <=> m = 0)
      /\ d[m] = cstack[m] /\ Depth(d, m) = Depth(cstack, m)
  BY <1>1, <1>3, Shortened
<1>6. /\ Whole(d, g) /\ Resuming(cstack, m + 1, th)
      /\ Cur \in Coroutines /\ Thread(d) = cstack[m].t /\ Thread(d) # Cur
  <2> DEFINE x == Thread(cstack)
  <2>1. x = Cur
    BY <1>1
  <2>2. (\A t \in Threads \ {x} : g[t] = th[t]) /\ RoomIn(g[x]) /\ AtRest(g[x])
    BY <1>4, <2>1
  <2>3. /\ Whole(d, g) /\ Resuming(cstack, m + 1, th)
        /\ x \in Coroutines /\ Thread(d) = cstack[m].t /\ Thread(d) # x
    <3>1. /\ Whole(cstack, th) /\ m \in 1..(Len(cstack) - 1) /\ cstack[m + 1].k = "resume"
          /\ (\A k \in (m + 2)..Len(cstack) : cstack[k].k # "resume")
          /\ d \in Seq(Acts) /\ Len(d) = m /\ Agree(cstack, d, m) /\ g \in [Threads -> LState]
      BY <1>1, <1>4, <1>5
    <3> DEFINE c == cstack
               h == th
    <3>2. /\ Whole(c, h) /\ m \in 1..(Len(c) - 1) /\ c[m + 1].k = "resume"
          /\ (\A k \in (m + 2)..Len(c) : c[k].k # "resume")
          /\ d \in Seq(Acts) /\ Len(d) = m /\ Agree(c, d, m) /\ g \in [Threads -> LState]
          /\ (\A t \in Threads \ {Thread(c)} : g[t] = h[t]) /\ RoomIn(g[Thread(c)]) /\ AtRest(g[Thread(c)])
      BY <2>2, <3>1
    <3> HIDE DEF c, h, x
    <3>3. /\ Whole(d, g) /\ Resuming(c, m + 1, h)
          /\ Thread(c) \in Coroutines /\ Thread(d) = c[m].t /\ Thread(d) # Thread(c)
      BY ONLY <3>2, DroppedWhole
    <3> QED BY <3>3 DEF c, h, x
  <2> QED BY <2>1, <2>3
<1>7. from = Thread(d) /\ from \in Threads /\ g[from] = th[from] /\ d # <<>>
  <2>1. d # <<>>
    BY <1>3, <1>5
  <2>2. from = Thread(d)
    BY <2>1 DEF Last, Thread
  <2>3. from \in Threads
    BY <1>6, <2>2, StandingFacts DEF Whole
  <2> QED BY <1>4, <1>6, <2>1, <2>2, <2>3
<1>8. /\ th[from].status = "OK" /\ Last(th[from].ci) \in {"resume", "wrap"}
      /\ Len(th[from].ci) = Reach(d[Len(d)]) + 1
  BY <1>3, <1>5, <1>6, <1>7 DEF Resuming
<1>9. d[Len(d)].k \in {"execute", "call"} /\ Depth(d, Len(d)) < Limit
  <2>1. Based(cstack, m + 1)
    BY <1>1, <1>3 DEF Nested
  <2>2. cstack[m].k \in {"execute", "call"} /\ Depth(cstack, m + 1) < Limit
    BY <1>3, <2>1 DEF Based
  <2>3. Depth(cstack, m + 1) = Depth(cstack, m) + 1 /\ Depth(cstack, m) \in Nat
    BY <1>1, <1>3, DepthStep, DepthNat
  <2>4. Depth(cstack, m) < Limit
    BY <2>2, <2>3, LimitsHold
  <2> QED BY <1>5, <2>2, <2>4
<1>10. th' = [g EXCEPT ![from] = below] /\ cstack' = d /\ todo' = next
  <2>1. th' = [[th EXCEPT ![Cur] = l] EXCEPT ![from] = below] /\ cstack' = d /\ todo' = next
    BY DEF LeaveResume
  <2> HIDE DEF from
  <2> QED BY <2>1 DEF g
<1>11. \/ below = Served(g[Thread(d)]) /\ next = Run
       \/ below = g[Thread(d)] /\ next \in {Raise, Throw("ERRMEM")}
  BY <1>7
<1>12. /\ g[Thread(d)].status = "OK" /\ Last(g[Thread(d)].ci) \in {"resume", "wrap"}
       /\ Len(g[Thread(d)].ci) = Reach(d[Len(d)]) + 1
  BY <1>7, <1>8
<1>13. th' = [g EXCEPT ![Thread(d)] = below] /\ cstack' = d /\ todo' = next
  BY <1>7, <1>10
<1>14. CASE next = Throw("ERRMEM")
  <2>1. th' = g /\ todo' \in {Throw(e) : e \in Errors} /\ Depth(d, Len(d)) <= Limit
    <3>1. below = g[Thread(d)]
      BY <1>11, <1>14 DEF Throw, Run
    <3>2. th' = g
      BY <1>4, <1>7, <1>13, <3>1
    <3>3. next \in {Throw(e) : e \in Errors}
      BY <1>14 DEF Errors
    <3>4. Depth(d, Len(d)) \in Nat
      BY <1>5, DepthNat
    <3> QED BY <1>9, <1>13, <3>2, <3>3, <3>4, LimitsHold
  <2> QED BY <1>6, <1>7, <1>12, <1>13, <2>1, EndsInError
<1>15. CASE next # Throw("ERRMEM")
  <2>1. (below = Served(g[Thread(d)]) /\ todo' = Run) \/ (below = g[Thread(d)] /\ todo' = Raise)
    BY <1>11, <1>13, <1>15
  <2> QED BY <1>6, <1>7, <1>9, <1>12, <1>13, <2>1, Answers
<1> QED BY <1>14, <1>15

\* A thread that is put to rest keeps all but its counters.
LEMMA ParkedAlike ==
  ASSUME NEW u \in LState
  PROVE  /\ Parked(u) \in LState /\ Parked(u).ci = u.ci /\ Parked(u).size_ci = u.size_ci
         /\ Parked(u).status = u.status /\ Parked(u).life = u.life /\ Parked(u).top = u.top
         /\ Parked(u).errfunc = u.errfunc /\ Parked(u).allowhook = u.allowhook
         /\ Left(u) \in LState /\ Left(u).ci = u.ci /\ Left(u).size_ci = u.size_ci
         /\ Left(u).status = u.status /\ Left(u).life = "left" /\ Left(u).top = 1
         /\ Left(u).errfunc = u.errfunc /\ Left(u).allowhook = u.allowhook
<1>1. 0 \in Nat /\ 1 \in Nat
  OBVIOUS
<1> QED BY <1>1 DEF Parked, Left, LState

\* Nothing but the activation of lua_resume is there of a coroutine that returns to it.
LEMMA AloneOnTop ==
  ASSUME CallsInv, cstack # <<>>, Top.k = "resume"
  PROVE  L.errfunc = 0 /\ L.allowhook = TRUE
<1> DEFINE n == Len(cstack)
<1>1. /\ Whole(cstack, th) /\ Cur = Thread(cstack) /\ n \in Nat \ {0} /\ cstack[n].t = Cur /\ cstack[n].k = "resume"
      /\ Nested(cstack, n) /\ Attached(L, cstack, n, Cur)
  BY Current DEF Whole, Standing
<1>2. ASSUME NEW i \in 1..n, cstack[i].t = Cur PROVE cstack[i].k = "resume"
  <2>1. CASE i = n
    BY <1>1, <2>1
  <2>2. CASE i # n
    <3>1. i \in 1..n /\ n \in 1..n /\ i <= n /\ n \in (i + 1)..n
      BY <1>1, <2>2
    <3>2. \A m \in (i + 1)..n : cstack[m].k # "resume"
      BY <1>1, <1>2, <3>1 DEF Nested, Threaded
    <3> QED BY <1>1, <3>1, <3>2
  <2> QED BY <2>1, <2>2
<1>3. ~Hooked(cstack, n, Cur) /\ \A e : ~Handler(cstack, n, Cur, e)
  BY <1>2 DEF Hooked, Handler
<1>4. L.errfunc = 0
  BY <1>1, <1>3 DEF Attached
<1>5. L.allowhook = ~Hooked(cstack, n, Cur)
  BY <1>1 DEF Attached
<1> QED BY <1>3, <1>4, <1>5

\* lua_resume returns because its coroutine has yielded or ended.
LEMMA ReturnFromResumeKeeps == CallsInv /\ ReturnFromResume => CallsInv'
<1> SUFFICES ASSUME CallsInv, ReturnFromResume PROVE CallsInv'
  OBVIOUS
<1> DEFINE n == Len(cstack)
           d == Front(cstack)
<1>1. todo = Back /\ Top.k = "resume"
  BY DEF ReturnFromResume
<1>2. cstack # <<>> /\ ((L.status = "OK" /\ Len(L.ci) = Top.ci) \/ Waits(L))
  BY <1>1, WhenBack DEF AtBack
<1>3. /\ cstack \in Seq(Acts) /\ n \in Nat \ {0} /\ Top = cstack[n] /\ Based(cstack, n) /\ L \in LState /\ RoomIn(L)
  BY <1>2, Current
<1>4. n # 1 /\ n - 1 \in 1..(n - 1) /\ (n - 1) + 1 = n /\ n \in Nat
  <2>1. n # 1
    BY <1>1, <1>3 DEF Based
  <2>2. n \in Nat /\ n # 0
    BY <1>3
  <2> HIDE DEF n
  <2> QED BY <2>1, <2>2
<1>5. IsCut(cstack, n - 1, d)
  BY <1>2, <1>3, Fronted DEF IsCut
<1>6. ASSUME NEW l, (L.status = "YIELD" /\ l = Parked(L))
                     \/ (L.status # "YIELD" /\ (l = Ended("OK") \/ l = Left(L)))
      PROVE  l \in LState /\ RoomIn(l) /\ AtRest(l)
  <2>1. CASE L.status = "YIELD"
    <3>1. Waits(L) /\ l = Parked(L)
      BY <1>2, <1>6, <2>1
    <3>2. Parked(L) \in LState /\ RoomIn(Parked(L)) /\ Waits(Parked(L))
      BY <1>3, <3>1, ParkedAlike DEF RoomIn, Waits
    <3> QED BY <3>1, <3>2 DEF AtRest
  <2>2. CASE L.status # "YIELD" /\ l = Ended("OK")
    BY <2>2, RestTypes DEF AtRest
  <2>3. CASE L.status # "YIELD" /\ l = Left(L)
    <3>1. /\ L.status = "OK" /\ Len(L.ci) = 1 /\ L.ci[1] = "base" /\ L.ci \in Seq(Frame)
          /\ L.errfunc = 0 /\ L.allowhook = TRUE
      <4>1. L.status = "OK" /\ Len(L.ci) = Top.ci
        BY <1>2, <2>3 DEF Waits
      <4>2. Top.ci = 1
        BY <1>1, <1>3 DEF Based
      <4>3. L.ci[1] = "base" /\ L.ci \in Seq(Frame)
        BY <1>3 DEF RoomIn, LState
      <4> QED BY <1>1, <1>2, <4>1, <4>2, <4>3, AloneOnTop
    <3>2. /\ l \in LState /\ l.ci = L.ci /\ l.size_ci = L.size_ci /\ l.status = L.status /\ l.life = "left"
          /\ l.top = 1 /\ l.errfunc = L.errfunc /\ l.allowhook = L.allowhook
      BY <1>3, <2>3, ParkedAlike
    <3>3. L.ci = <<"base">>
      BY <3>1
    <3>4. RoomIn(l) /\ Unserved(l)
      BY <1>3, <3>1, <3>2, <3>3 DEF RoomIn, Unserved
    <3> QED BY <3>2, <3>4 DEF AtRest
  <2> QED BY <1>6, <2>1, <2>2, <2>3
<1>7. PICK l, below, next :
        /\ LeaveResume(l, d, below, next)
        /\ \/ L.status = "YIELD" /\ l = Parked(L)
           \/ L.status # "YIELD" /\ (l = Ended("OK") \/ l = Left(L))
        /\ \/ below = Served(th[Last(d).t]) /\ next = Run
           \/ below = th[Last(d).t] /\ next \in {Raise, Throw("ERRMEM")}
  <2> DEFINE l1 == IF L.status = "YIELD" THEN Parked(L) ELSE Ended("OK")
             l2 == IF L.status = "YIELD" THEN Parked(L) ELSE Left(L)
             b == th[Last(d).t]
  <2>1. \/ LeaveResume(l1, d, Served(b), Run)
        \/ \E next \in {Raise, Throw("ERRMEM")} : LeaveResume(l2, d, b, next)
    BY DEF ReturnFromResume
  <2>2. /\ (L.status = "YIELD" /\ l1 = Parked(L)) \/ (L.status # "YIELD" /\ l1 = Ended("OK"))
        /\ (L.status = "YIELD" /\ l2 = Parked(L)) \/ (L.status # "YIELD" /\ l2 = Left(L))
    OBVIOUS
  <2> HIDE DEF l1, l2, d
  <2> QED BY <2>1, <2>2
<1>8. l \in LState /\ RoomIn(l) /\ AtRest(l)
  BY <1>6, <1>7
<1> HIDE DEF d, n
<1>9. /\ cstack[(n - 1) + 1].k = "resume" /\ (\A k \in ((n - 1) + 2)..n : cstack[k].k # "resume")
  BY <1>1, <1>3, <1>4
<1>10. n = Len(cstack)
  BY Zenon DEF n
<1> DEFINE m == n - 1
<1>11. m \in 1..(Len(cstack) - 1) /\ cstack[m + 1].k = "resume" /\ IsCut(cstack, m, d)
      /\ \A k \in (m + 2)..Len(cstack) : cstack[k].k # "resume"
  BY <1>4, <1>5, <1>9, <1>10
<1> HIDE DEF m
<1> QED BY <1>7, <1>8, <1>11, ResumeLeaves

\* lua_resume catches an error, which ends its coroutine.
LEMMA DieKeeps == CallsInv /\ Die => CallsInv'
<1> SUFFICES ASSUME CallsInv, Die PROVE CallsInv'
  OBVIOUS
<1> DEFINE m == errorJmp - 1
           d == SubSeq(cstack, 1, errorJmp - 1)
           l == Ended(todo[2])
           r == Refused(th[Last(d).t])
<1>1. /\ todo[1] = "luaD_throw" /\ cstack[errorJmp].k = "resume" /\ IsCut(cstack, m, d)
      /\ LeaveResume(l, d, r[1], r[2])
  BY DEF Die, IsCut
<1>9. \/ r[1] = Served(th[Last(d).t]) /\ r[2] = Run
      \/ r[1] = th[Last(d).t] /\ r[2] \in {Raise, Throw("ERRMEM")}
  <2> HIDE DEF d
  <2> QED BY DEF Refused
<1> HIDE DEF r
<1>2. cstack # <<>> /\ todo[2] \in Errors
  BY <1>1, WhenThrow DEF AtError
<1>3. errorJmp \in 1..Len(cstack) /\ \A i \in (errorJmp + 1)..Len(cstack) : cstack[i].k \notin {"pcall", "resume"}
  BY <1>2, Jumps
<1>4. l \in LState /\ RoomIn(l) /\ AtRest(l)
  BY <1>2, RestTypes DEF AtRest
<1> HIDE DEF l, d
<1>5. errorJmp # 1 /\ Len(cstack) \in Nat
  <2>1. Based(cstack, errorJmp) /\ Len(cstack) \in Nat
    BY <1>3, Current DEF Whole, Standing, Nested
  <2> QED BY <1>1, <2>1 DEF Based
<1>6. m \in 1..(Len(cstack) - 1) /\ m + 1 = errorJmp /\ m + 2 = errorJmp + 1
  BY <1>3, <1>5
<1>8. cstack[m + 1].k = "resume" /\ \A k \in (m + 2)..Len(cstack) : cstack[k].k # "resume"
  BY <1>1, <1>3, <1>6
<1> HIDE DEF m
<1> QED BY <1>1, <1>4, <1>6, <1>8, <1>9, ResumeLeaves

\* A thread that is at rest is replaced by another at rest: the running one notices nothing.
LEMMA RestsAgain ==
  ASSUME CallsInv, cstack # <<>>, NEW co \in Coroutines, ~Runs(cstack, Len(cstack), co),
         NEW l \in LState, RoomIn(l), AtRest(l), NEW g, g = [th EXCEPT ![co] = l]
  PROVE  Whole(cstack, g) /\ g[Thread(cstack)] = L /\ co # Cur
<1> DEFINE c == cstack
           h == th
           x == Thread(cstack)
<1>1. /\ Whole(c, h) /\ x = Cur /\ x \in Threads /\ h \in [Threads -> LState] /\ c \in Seq(Acts)
      /\ Len(c) \in Nat /\ Len(c) # 0 /\ c[Len(c)].t = x /\ Attached(h[x], c, Len(c), x) /\ L = h[x]
  BY Current DEF L
<1>2. co # x
  <2>1. Len(c) \in 1..Len(c)
    BY <1>1
  <2> QED BY <1>1, <2>1 DEF Runs
<1>3. co \in Threads
  BY DEF Threads
<1>4. g \in [Threads -> LState] /\ (\A t \in Threads \ {co} : g[t] = h[t]) /\ g[co] = l /\ g[x] = h[x]
  BY <1>1, <1>2, <1>3
<1>5. Standing(c, h) /\ Len(c) <= Len(c) /\ Agree(c, c, Len(c)) /\ ~Runs(c, Len(c), co)
  BY <1>1 DEF Whole, Agree
<1>6. RoomIn(g[co]) /\ AtRest(g[co])
  BY <1>4
<1>7. Attached(h[Thread(c)], c, Len(c), Thread(c))
  BY <1>1
<1> HIDE DEF c, h
<1>8. Whole(c, g)
  BY ONLY <1>1, <1>4, <1>5, <1>6, <1>7, co \in Coroutines, RestedWhole
<1> QED BY <1>1, <1>2, <1>4, <1>8 DEF c

\* coroutine.create makes a thread of one that is not on the C stack.
LEMMA luaB_cocreateKeeps == ASSUME NEW co \in Coroutines PROVE CallsInv /\ luaB_cocreate(co) => CallsInv'
<1> SUFFICES ASSUME CallsInv, luaB_cocreate(co) PROVE CallsInv'
  OBVIOUS
<1> DEFINE g == [th EXCEPT ![co] = Created]
<1>1. /\ todo = Run /\ cstack # <<>> /\ f_isLua /\ th[co].life \in {"absent", "ended", "left"}
      /\ th' = g /\ cstack' = cstack /\ todo' = Run
  BY DEF luaB_cocreate, Created
<1>2. Depth(cstack, Len(cstack)) < Limit /\ Whole(cstack, th)
  BY <1>1, WhenRun, Current
<1>3. ~Runs(cstack, Len(cstack), co)
  <2>1. Runs(cstack, Len(cstack), co) => th[co].life = "started"
    BY <1>2 DEF Whole, Standing, Lives
  <2> QED BY <1>1, <2>1
<1>4. Created \in LState /\ RoomIn(Created) /\ AtRest(Created)
  BY RestTypes DEF AtRest
<1>5. Top.k = "execute" /\ L.status = "OK" /\ Len(L.ci) = Reach(Top) /\ Top = cstack[Len(cstack)]
  BY <1>1, LuaRuns, Current
<1> HIDE DEF Created
<1>6. Whole(cstack, g) /\ g[Thread(cstack)] = L
  BY <1>1, <1>3, <1>4, RestsAgain
<1> HIDE DEF g
<1> QED BY <1>1, <1>2, <1>5, <1>6, EndsInRun

\* A coroutine that coroutine.resume goes on with has its body on the stack or waits in a yield.
LEMMA Suspended ==
  ASSUME CallsInv, cstack # <<>>, NEW co \in Coroutines, th[co].life # "absent", ~CannotResume(co)
  PROVE  /\ co # Cur /\ ~Runs(cstack, Len(cstack), co)
         /\ th[co] = Created \/ Unserved(th[co]) \/ Waits(th[co])
<1>1. costatus(Cur, co) = "suspended"
  BY DEF CannotResume
<1>2. co # Cur
  BY <1>1 DEF costatus
<1>3. Whole(cstack, th) /\ Cur = Thread(cstack)
  BY Current
<1>4. ~Runs(cstack, Len(cstack), co)
  <2> SUFFICES ASSUME Runs(cstack, Len(cstack), co) PROVE FALSE
    OBVIOUS
  <2>1. Len(th[co].ci) > 1 /\ th[co].status = "OK"
    BY <1>2, <1>3, OuterThread
  <2> QED BY <1>1, <1>2, <2>1 DEF costatus
<1>5. AtRest(th[co])
  BY <1>3, <1>4 DEF Whole, Standing, Lives
<1>6. th[co] # NewState
  BY DEF NewState
<1>7. ASSUME NEW s \in {"OK"} \cup Errors, th[co] = Ended(s) PROVE FALSE
  <2>1. th[co].status = s /\ th[co].top = 0 /\ th[co].ci = <<"base">> /\ Len(<<"base">>) = 1
    BY <1>7 DEF Ended, NewState
  <2>2. ~(Len(th[co].ci) > 1)
    BY <2>1
  <2>3. s # "YIELD"
    BY DEF Errors
  <2> QED BY <1>1, <1>2, <2>1, <2>2, <2>3 DEF costatus
<1> QED BY <1>2, <1>4, <1>5, <1>6, <1>7 DEF AtRest

\* A coroutine goes on: only Lua functions are active in it.
LEMMA GoesOn ==
  ASSUME NEW co \in Coroutines, th[co] \in LState, RoomIn(th[co]), L.nCcalls \in Nat,
         th[co] = Created \/ Unserved(th[co]) \/ Waits(th[co])
  PROVE  LET l == Resumed(co)
             v == Started(co)
         IN
         /\ l \in LState /\ RoomIn(l) /\ l.nCcalls = L.nCcalls + 1 /\ l.baseCcalls = L.nCcalls + 1
         /\ l.status = "OK" /\ l.top = 0 /\ l.life = "started" /\ l.errfunc = 0 /\ l.allowhook = TRUE
         /\ Len(l.ci) >= 2 /\ \A p \in 2..Len(l.ci) : l.ci[p] = "lua"
         /\ v \in LState /\ RoomIn(v) /\ v.nCcalls = L.nCcalls + 1 /\ v.baseCcalls = L.nCcalls + 1
         /\ v.status = "OK" /\ v.top = 0 /\ v.life = "started" /\ v.errfunc = 0 /\ v.allowhook = TRUE
<1> DEFINE u == th[co]
           k == L.nCcalls + 1
           v == [u EXCEPT !.nCcalls = k, !.baseCcalls = k, !.status = "OK", !.top = 0, !.life = "started"]
           l == IF u.status = "OK" THEN Entered(v, "lua") ELSE luaD_poscall(v)
<1>1. v = Started(co) /\ l = Resumed(co)
  BY Zenon DEF Resumed, Started
<1>2. u \in LState /\ RoomIn(u) /\ k \in Nat /\ 0 \in Nat /\ k = L.nCcalls + 1
      /\ (u = Created \/ Unserved(u) \/ Waits(u))
  OBVIOUS
<1>10. u.errfunc = 0 /\ u.allowhook = TRUE
  BY <1>2 DEF Created, NewState, Waits, Unserved
<1>11. (u.status = "OK" /\ u.ci = <<"base">>) \/ Waits(u)
  BY <1>2 DEF Created, NewState, Unserved
<1> HIDE DEF u, k
<1>3. /\ v \in LState /\ v.ci = u.ci /\ v.size_ci = u.size_ci /\ v.nCcalls = k /\ v.baseCcalls = k
      /\ v.status = "OK" /\ v.top = 0 /\ v.life = "started" /\ v.errfunc = u.errfunc /\ v.allowhook = u.allowhook
  BY <1>2 DEF LState
<1> HIDE DEF v
<1>4. v.ci \in Seq(Frame) /\ Len(v.ci) \in Nat /\ v.size_ci \in Nat /\ v.size_ci >= 2
      /\ Len(v.ci) \in 1..v.size_ci /\ v.ci[1] = "base" /\ RoomIn(v)
  <2>1. v.ci \in Seq(Frame) /\ Len(v.ci) \in Nat
    BY <1>3 DEF LState
  <2>2. RoomIn(v)
    BY <1>2, <1>3 DEF RoomIn
  <2>3. 2 * LUAI_MAXCALLS \in Nat
    BY LimitsHold
  <2> QED BY <2>1, <2>2, <2>3 DEF RoomIn
<1>5. CASE u.status = "OK" /\ u.ci = <<"base">>
  <2>1. u.status = "OK" /\ u.ci = <<"base">>
    BY <1>5
  <2>2. l = [v EXCEPT !.ci = Append(v.ci, "lua")] /\ v.ci = <<"base">>
    BY <1>3, <2>1 DEF Entered
  <2>3. Append(v.ci, "lua") \in Seq(Frame) /\ Len(Append(v.ci, "lua")) = 2 /\ Append(v.ci, "lua")[1] = "base"
        /\ Append(v.ci, "lua")[2] = "lua"
    BY <1>4, <2>2 DEF Frame, Functions
  <2> HIDE DEF l
  <2>4. /\ l \in LState /\ l.ci = Append(v.ci, "lua") /\ l.size_ci = v.size_ci /\ l.nCcalls = v.nCcalls
        /\ l.baseCcalls = v.baseCcalls /\ l.status = v.status /\ l.top = v.top /\ l.life = v.life
        /\ l.errfunc = v.errfunc /\ l.allowhook = v.allowhook
    BY <1>3, <2>2, <2>3 DEF LState
  <2>5. RoomIn(l)
    BY <1>4, <2>3, <2>4 DEF RoomIn
  <2>6. Len(l.ci) >= 2 /\ \A p \in 2..Len(l.ci) : l.ci[p] = "lua"
    BY <2>3, <2>4
  <2> QED BY <1>1, <1>2, <1>3, <1>4, <1>10, <2>4, <2>5, <2>6
<1>6. CASE Waits(u)
  <2>1. l = luaD_poscall(v) /\ Len(v.ci) >= 3 /\ \A p \in 2..(Len(v.ci) - 1) : v.ci[p] = "lua"
    BY <1>3, <1>6 DEF Waits
  <2>2. l = [v EXCEPT !.ci = Front(v.ci)]
    BY <2>1 DEF luaD_poscall
  <2>3. /\ Front(v.ci) \in Seq(Frame) /\ Len(Front(v.ci)) = Len(v.ci) - 1
        /\ \A p \in 1..(Len(v.ci) - 1) : Front(v.ci)[p] = v.ci[p]
    <3>1. v.ci # <<>>
      BY <1>4, EmptySeq
    <3> QED BY <1>4, <3>1, Fronted
  <2> HIDE DEF l
  <2>4. /\ l \in LState /\ l.ci = Front(v.ci) /\ l.size_ci = v.size_ci /\ l.nCcalls = v.nCcalls
        /\ l.baseCcalls = v.baseCcalls /\ l.status = v.status /\ l.top = v.top /\ l.life = v.life
        /\ l.errfunc = v.errfunc /\ l.allowhook = v.allowhook
    BY <1>3, <2>2, <2>3 DEF LState
  <2>5. Len(l.ci) = Len(v.ci) - 1 /\ l.ci[1] = "base" /\ Len(l.ci) \in 1..l.size_ci
    BY <1>4, <2>1, <2>3, <2>4
  <2>6. RoomIn(l)
    BY <1>4, <2>4, <2>5 DEF RoomIn
  <2>7. Len(l.ci) >= 2
    BY <1>4, <2>1, <2>5
  <2>8. ASSUME NEW p \in 2..Len(l.ci) PROVE l.ci[p] = "lua"
    <3>1. p \in 1..(Len(v.ci) - 1) /\ p \in 2..(Len(v.ci) - 1)
      BY <1>4, <2>5
    <3> QED BY <2>1, <2>3, <2>4, <3>1
  <2> QED BY <1>1, <1>2, <1>3, <1>4, <1>10, <2>4, <2>6, <2>7, <2>8
<1> QED BY <1>5, <1>6, <1>11

\* auxresume enters lua_resume, whose activation is a, in a coroutine that does not run.
Enterable(co, l) ==
  /\ todo = Run /\ cstack # <<>> /\ Last(L.ci) \in {"resume", "wrap"} /\ ~CStackFull
  /\ co \in Coroutines /\ ~Runs(cstack, Len(cstack), co)
  /\ l \in LState /\ RoomIn(l) /\ l.nCcalls = L.nCcalls + 1 /\ l.baseCcalls = L.nCcalls + 1
  /\ l.status = "OK" /\ l.top = 0 /\ l.life = "started" /\ l.errfunc = 0 /\ l.allowhook = TRUE
EntersIn(co, l, g, a, d1) ==
  Enterable(co, l) /\ g = [th EXCEPT ![co] = l] /\ a = Activation("resume", co, 1) /\ d1 = Append(cstack, a)

HasEntered(co, l, g, a, d1) ==
  /\ a \in Acts /\ a.k = "resume" /\ a.t = co /\ a.ci = 1 /\ Reach(a) = 1
  /\ d1 \in Seq(Acts) /\ d1 # <<>> /\ d1[Len(d1)] = a /\ Thread(d1) = co
  /\ Depth(d1, Len(d1)) \in Nat /\ Depth(d1, Len(d1)) < Limit
  /\ Based(d1, Len(d1)) /\ Attached(l, d1, Len(d1), co) /\ Whole(d1, g)
  /\ g \in [Threads -> LState] /\ g[co] = l /\ co # Main /\ co \in Threads
  /\ cstack \in Seq(Acts) /\ l.ci[1] = "base"

\* lua_resume, called in a coroutine that does not run, is its innermost activation.
LEMMA ResumeEnters ==
  ASSUME CallsInv, NEW co, NEW l, NEW g, NEW a, NEW d1, EntersIn(co, l, g, a, d1)
  PROVE  HasEntered(co, l, g, a, d1)
<1> DEFINE n == Len(cstack)
<1> USE DEF EntersIn, Enterable
<1>1. /\ Whole(cstack, th) /\ Cur = Thread(cstack) /\ Cur \in Threads /\ cstack \in Seq(Acts) /\ n \in Nat
      /\ n # 0 /\ th \in [Threads -> LState] /\ Top = cstack[n] /\ L = th[Thread(cstack)]
      /\ L.nCcalls = Depth(cstack, n) /\ (cstack = <<>> <=> n = 0)
  BY Current DEF L, Attached
<1>2. Top.k \in {"execute", "call"} /\ L.status = "OK" /\ Len(L.ci) = Reach(Top) + 1
  <2>1. Last(L.ci) # "lua"
    OBVIOUS
  <2> QED BY <2>1, CRuns
<1>3. Depth(cstack, n) \in Nat /\ Depth(cstack, n) + 1 < Limit
  <2>1. L.nCcalls < LUAI_MAXCCALLS
    <3>1. L.nCcalls \in Nat /\ LUAI_MAXCCALLS \in Nat
      BY <1>1, DepthNat, LimitsHold
    <3> QED BY <3>1 DEF CStackFull
  <2> QED BY <1>1, <2>1, DepthNat, LimitsHold
<1>4. Len(l.ci) \in Nat /\ Len(l.ci) >= 1 /\ 1 \in Nat \ {0}
  BY DEF LState, RoomIn
<1>5. co \in Threads /\ co # Main /\ co # Thread(cstack)
  <2>1. co \in Threads /\ co # Main
    BY LimitsHold DEF Threads
  <2>2. n \in 1..n /\ cstack[n].t = Thread(cstack)
    BY <1>1 DEF Thread
  <2> QED BY <2>1, <2>2 DEF Runs
<1>6. /\ a \in Acts /\ a.k = "resume" /\ a.t = co /\ a.ci = 1 /\ Reach(a) = 1
  BY <1>4, <1>5 DEF Activation, Acts, Plain, Reach
<1>9. /\ d1 \in Seq(Acts) /\ Len(d1) = n + 1 /\ d1 # <<>> /\ Agree(cstack, d1, n) /\ d1[n + 1] = a
      /\ Thread(d1) = co /\ Depth(d1, Len(d1)) = Depth(cstack, n) + 1
  <2>1. IsPush(cstack, a, d1)
    BY DEF IsPush
  <2>2. d1 \in Seq(Acts) /\ Len(d1) = n + 1 /\ d1 # <<>> /\ Agree(cstack, d1, n) /\ d1[n + 1] = a /\ Thread(d1) = co
    BY <1>1, <1>6, <2>1, Appended
  <2>3. Depth(d1, Len(d1)) = Depth(cstack, n) + (IF a.k \in {"call", "resume"} THEN 1 ELSE 0)
    <3> QED BY <1>1, <1>6, <2>1, Appended
  <2> QED BY <1>6, <2>2, <2>3
<1>10. IsPush(cstack, a, d1)
  BY DEF IsPush
<1>12. g \in [Threads -> LState] /\ g[co] = l /\ (\A t \in Threads \ {co} : g[t] = th[t])
  BY <1>1, <1>5
<1>13. Based(d1, Len(d1)) /\ d1[Len(d1)] = a
  <2>1. OnTop(cstack, n, a)
    BY <1>1, <1>2, <1>3, <1>6 DEF OnTop
  <2> QED BY <1>1, <1>6, <1>9, <1>10, <2>1, OnTopBased
<1>14. Attached(l, d1, Len(d1), co)
  <2>1. ~Hooked(cstack, n, co)
    BY DEF Runs, Hooked
  <2>2. AttachedOn(l, cstack, a)
    BY <1>1, <1>6, <2>1 DEF AttachedOn
  <2> QED BY <1>1, <1>6, <1>10, <2>2, AttachedNow
<1>15. FramesOf(a, l.ci) /\ l.ci[1] = "base"
  BY <1>4, <1>6 DEF FramesOf, RoomIn
<1>16. Whole(d1, g)
  <2> DEFINE c == cstack
             h == th
             y == Thread(cstack)
  <2>1. /\ Whole(c, h) /\ c # <<>> /\ ~Runs(c, Len(c), co)
        /\ d1 \in Seq(Acts) /\ Len(d1) = Len(c) + 1 /\ Agree(c, d1, Len(c))
        /\ d1[Len(d1)].k = "resume" /\ d1[Len(d1)].t = co /\ Based(d1, Len(d1))
        /\ Last(h[Thread(c)].ci) \in {"resume", "wrap"} /\ h[Thread(c)].status = "OK"
        /\ Len(h[Thread(c)].ci) = Reach(c[Len(c)]) + 1
        /\ g \in [Threads -> LState] /\ (\A t \in Threads \ {co} : g[t] = h[t])
    BY <1>1, <1>2, <1>6, <1>9, <1>12, <1>13
  <2>2. /\ RoomIn(g[co]) /\ g[co].life = "started" /\ g[co].top = 0 /\ g[co].baseCcalls = Depth(d1, Len(d1))
        /\ FramesOf(d1[Len(d1)], g[co].ci) /\ Attached(g[co], d1, Len(d1), co)
    BY <1>1, <1>9, <1>12, <1>13, <1>14, <1>15
  <2> HIDE DEF c, h
  <2> QED BY ONLY <2>1, <2>2, co \in Coroutines, ResumedWhole
<1>17. Depth(d1, Len(d1)) < Limit /\ Depth(d1, Len(d1)) \in Nat
  BY <1>3, <1>9
<1> QED BY <1>1, <1>5, <1>6, <1>9, <1>12, <1>13, <1>14, <1>15, <1>16, <1>17 DEF HasEntered

\* lua_resume gives the C stack to a coroutine that does not run, which is then in state l.
LEMMA Begins ==
  ASSUME CallsInv, NEW co, NEW l, Enterable(co, l),
         Len(l.ci) >= 2, \A p \in 2..Len(l.ci) : l.ci[p] = "lua",
         NEW g, g = [th EXCEPT ![co] = l], th' = g, todo' = Run,
         cstack' = cstack \o <<Activation("resume", co, 1), luaV_execute(co, Len(l.ci) - 1, 1)>>
  PROVE  CallsInv'
<1> DEFINE a == Activation("resume", co, 1)
           e == luaV_execute(co, Len(l.ci) - 1, 1)
           d1 == Append(cstack, a)
           d == Append(d1, e)
<1>0. EntersIn(co, l, g, a, d1) /\ a = Activation("resume", co, 1) /\ d1 = Append(cstack, a)
  BY DEF EntersIn
<1> HIDE DEF a, d1
<1>1. /\ a \in Acts /\ a.k = "resume" /\ a.t = co /\ a.ci = 1 /\ Reach(a) = 1
      /\ d1 \in Seq(Acts) /\ d1 # <<>> /\ d1[Len(d1)] = a /\ Thread(d1) = co
      /\ Depth(d1, Len(d1)) \in Nat /\ Depth(d1, Len(d1)) < Limit
      /\ Based(d1, Len(d1)) /\ Attached(l, d1, Len(d1), co) /\ Whole(d1, g)
      /\ g \in [Threads -> LState] /\ g[co] = l /\ co # Main /\ co \in Threads
      /\ cstack \in Seq(Acts) /\ l.ci[1] = "base"
  <2>1. HasEntered(co, l, g, a, d1)
    BY <1>0, ResumeEnters
  <2> QED BY <2>1 DEF HasEntered
<1>2. /\ Len(l.ci) \in Nat /\ Len(l.ci) - 1 \in Nat \ {0} /\ 1 \in Nat \ {0} /\ l \in LState /\ RoomIn(l)
      /\ l.status = "OK" /\ l.errfunc = 0 /\ l.allowhook = TRUE
  <2>1. l \in LState /\ RoomIn(l) /\ l.status = "OK" /\ l.errfunc = 0 /\ l.allowhook = TRUE
    BY DEF Enterable
  <2>2. Len(l.ci) \in Nat
    BY <2>1 DEF LState
  <2> QED BY <2>1, <2>2
<1>3. /\ e \in Acts /\ e.k = "execute" /\ e.t = co /\ e.ci = 1 /\ Reach(e) = Len(l.ci) /\ e.nexeccalls = Len(l.ci) - 1
  <2>1. e \in Acts /\ e.k = "execute" /\ e.t = co /\ e.ci = 1 /\ e.nexeccalls = Len(l.ci) - 1
    BY <1>1, <1>2 DEF luaV_execute, Acts, Execute
  <2>2. Reach(e) = 1 + (Len(l.ci) - 1)
    BY <2>1 DEF Reach
  <2> QED BY <1>2, <2>1, <2>2
<1>4. cstack' = d
  <2>1. cstack' = cstack \o <<a, e>>
    BY <1>0
  <2> HIDE DEF e
  <2>2. cstack \o <<a, e>> = Append(Append(cstack, a), e)
    BY <1>1, <1>3
  <2> QED BY <1>0, <2>1, <2>2
<1> HIDE DEF e
<1>5. IsPush(d1, e, d)
  BY DEF IsPush
<1> HIDE DEF d
<1>6. /\ d \in Seq(Acts) /\ d # <<>> /\ Len(d) = Len(d1) + 1 /\ d[Len(d)] = e /\ Thread(d) = co
  BY <1>1, <1>3, <1>5, Appended
<1>7. Depth(d, Len(d)) = Depth(d1, Len(d1))
  <2>0. d1 \in Seq(Acts) /\ e \in Acts
    BY <1>1, <1>3
  <2>1. Depth(d, Len(d)) = Depth(d1, Len(d1)) + (IF e.k \in {"call", "resume"} THEN 1 ELSE 0)
    BY <1>5, <2>0, Appended
  <2> QED BY <1>1, <1>3, <2>1
<1>8. Whole(d, g)
  <2>1. OnTop(d1, Len(d1), e)
    <3>1. Len(d1) \in Nat
      BY <1>1
    <3> QED BY <1>1, <1>3, <3>1 DEF OnTop
  <2>2. FramesOf(e, l.ci)
    BY <1>2, <1>3 DEF FramesOf
  <2>3. AttachedOn(l, d1, e)
    <3>1. l.nCcalls = Depth(d1, Len(d1)) /\ l.allowhook = ~Hooked(d1, Len(d1), co)
      BY <1>1 DEF Attached
    <3> QED BY <1>1, <1>2, <1>3, <3>1 DEF AttachedOn
  <2>4. Keeps(l.ci, l.ci, 1)
    BY <1>2 DEF Keeps
  <2>5. Reach(d1[Len(d1)]) = 1 /\ e.ci = 1 /\ e.t = Thread(d1) /\ e.k # "resume" /\ 1 <= 1
    BY <1>1, <1>3
  <2>6. /\ g \in [Threads -> LState] /\ (\A t \in Threads \ {Thread(d1)} : g[t] = g[t])
        /\ RoomIn(g[Thread(d1)]) /\ Steady(g[Thread(d1)], g[Thread(d1)]) /\ (Thread(d1) = Main => g[Main].status = "OK")
        /\ Keeps(g[Thread(d1)].ci, g[Thread(d1)].ci, Reach(d1[Len(d1)]))
        /\ FramesOf(e, g[Thread(d1)].ci) /\ AttachedOn(g[Thread(d1)], d1, e)
    BY <1>1, <1>2, <2>2, <2>3, <2>4, <2>5 DEF Steady
  <2>7. e \in Acts /\ IsPush(d1, e, d) /\ Reach(d1[Len(d1)]) <= e.ci
    BY <1>3, <1>5, <2>5
  <2> QED BY ONLY <1>1, <2>1, <2>5, <2>6, <2>7, Adds
<1>9. g[Thread(d)].status = "OK" /\ Len(g[Thread(d)].ci) = Reach(d[Len(d)]) /\ d[Len(d)].k = "execute"
  BY <1>1, <1>2, <1>3, <1>6
<1>10. Depth(d, Len(d)) < Limit
  BY <1>1, <1>7
<1> QED BY ONLY <1>4, <1>6, <1>8, <1>9, <1>10, th' = g, todo' = Run, EndsInRun

\* lua_resume finds no function to call in a coroutine that does not run.
LEMMA BeginsWithout ==
  ASSUME CallsInv, NEW co, NEW l, Enterable(co, l),
         NEW g, g = [th EXCEPT ![co] = l], th' = g, todo' = Raise,
         cstack' = Append(cstack, Activation("resume", co, 1))
  PROVE  CallsInv'
<1> DEFINE a == Activation("resume", co, 1)
           d == Append(cstack, a)
<1>0. EntersIn(co, l, g, a, d) /\ cstack' = d /\ l.status = "OK"
  BY DEF EntersIn, Enterable
<1> HIDE DEF a, d
<1>1. d # <<>> /\ Thread(d) = co /\ Depth(d, Len(d)) < Limit /\ Whole(d, g) /\ g[co] = l
  <2>1. HasEntered(co, l, g, a, d)
    BY <1>0, ResumeEnters
  <2> QED BY <2>1 DEF HasEntered
<1>2. cstack' = d
  BY <1>0
<1> QED BY ONLY <1>0, <1>1, <1>2, th' = g, todo' = Raise, EndsInError

\* auxresume answers in the running thread, when only coroutines at rest have changed.
LEMMA AnswersHere ==
  ASSUME CallsInv, cstack # <<>>, Last(L.ci) \in {"resume", "wrap"},
         Top.k \in {"execute", "call"}, L.status = "OK", Len(L.ci) = Reach(Top) + 1,
         Depth(cstack, Len(cstack)) < Limit,
         NEW g, Whole(cstack, g), g[Thread(cstack)] = L,
         cstack' = cstack, th' = [g EXCEPT ![Thread(cstack)] = Refused(L)[1]], todo' = Refused(L)[2]
  PROVE  CallsInv'
<1> DEFINE d == cstack
           l == Refused(L)[1]
<1>1. /\ Whole(d, g) /\ d # <<>> /\ d[Len(d)].k \in {"execute", "call"} /\ Depth(d, Len(d)) < Limit
      /\ g[Thread(d)].status = "OK" /\ Last(g[Thread(d)].ci) \in {"resume", "wrap"}
      /\ Len(g[Thread(d)].ci) = Reach(d[Len(d)]) + 1
  BY Current
<1>2. cstack' = d /\ th' = [g EXCEPT ![Thread(d)] = l]
  OBVIOUS
<1>3. (l = Served(g[Thread(d)]) /\ todo' = Run) \/ (l = g[Thread(d)] /\ todo' = Raise)
  BY DEF Refused
<1> HIDE DEF d, l
<1> QED BY ONLY <1>1, <1>2, <1>3, Answers

\* auxresume refuses, finds the C stack full, or gives it to the coroutine.
LEMMA auxresumeKeeps == ASSUME NEW co \in Coroutines PROVE CallsInv /\ auxresume(co) => CallsInv'
<1> SUFFICES ASSUME CallsInv, auxresume(co) PROVE CallsInv'
  OBVIOUS
<1>1. todo = Run /\ cstack # <<>> /\ Last(L.ci) \in {"resume", "wrap"} /\ th[co].life # "absent"
  BY DEF auxresume
<1>2. Top.k \in {"execute", "call"} /\ L.status = "OK" /\ Len(L.ci) = Reach(Top) + 1
  <2>1. Last(L.ci) # "lua"
    BY <1>1
  <2> QED BY <1>1, <2>1, CRuns
<1>3. /\ Whole(cstack, th) /\ Cur = Thread(cstack) /\ L = th[Thread(cstack)] /\ Top = cstack[Len(cstack)]
      /\ Depth(cstack, Len(cstack)) < Limit /\ th \in [Threads -> LState] /\ cstack \in Seq(Acts)
  BY <1>1, Current, WhenRun DEF L
<1>4. co \in Threads /\ th[co] \in LState /\ RoomIn(th[co])
  BY <1>3 DEF Threads, Whole, Standing
<1>5. CASE CannotResume(co)
  <2>1. Does(Refused(L)[1], cstack, Refused(L)[2])
    BY <1>5 DEF auxresume
  <2>2. /\ th' = [th EXCEPT ![Thread(cstack)] = Refused(L)[1]] /\ cstack' = cstack /\ todo' = Refused(L)[2]
    BY <1>3, <2>1 DEF Does
  <2> QED BY <1>1, <1>2, <1>3, <2>2, AnswersHere
<1>6. CASE ~CannotResume(co) /\ CStackFull
  <2> DEFINE r == resume_error(co)
             g == [th EXCEPT ![co] = r]
  <2>1. co # Cur /\ ~Runs(cstack, Len(cstack), co) /\ (th[co] = Created \/ Unserved(th[co]) \/ Waits(th[co]))
    BY <1>1, <1>6, Suspended
  <2>2. r \in LState /\ RoomIn(r) /\ AtRest(r)
    <3>1. CASE th[co].status = "OK"
      <4>1. r = Ended("OK")
        BY <3>1 DEF resume_error
      <4> QED BY <4>1, RestTypes DEF AtRest
    <3>2. CASE th[co].status # "OK"
      <4>1. r = th[co]
        BY <3>2 DEF resume_error
      <4> HIDE DEF r
      <4> QED BY <1>4, <2>1, <4>1 DEF AtRest
    <3> QED BY <3>1, <3>2
  <2>3. /\ th' = [th EXCEPT ![co] = r, ![Cur] = Refused(L)[1]] /\ cstack' = cstack /\ todo' = Refused(L)[2]
    BY <1>6 DEF auxresume
  <2> HIDE DEF r
  <2>4. th' = [g EXCEPT ![Thread(cstack)] = Refused(L)[1]]
    BY <1>3, <2>3
  <2> HIDE DEF g
  <2>5. Whole(cstack, g) /\ g[Thread(cstack)] = L
    BY <1>1, <2>1, <2>2, RestsAgain DEF g
  <2> QED BY <1>1, <1>2, <1>3, <2>3, <2>4, <2>5, AnswersHere
<1>7. CASE ~CannotResume(co) /\ ~CStackFull
  <2>1. ~Runs(cstack, Len(cstack), co) /\ (th[co] = Created \/ Unserved(th[co]) \/ Waits(th[co]))
    BY <1>1, <1>7, Suspended
  <2>2. L.nCcalls \in Nat
    BY Current DEF LState
  <2>3. CASE /\ th' = [th EXCEPT ![co] = Resumed(co)] /\ todo' = Run
             /\ cstack' = cstack \o <<Activation("resume", co, 1), luaV_execute(co, Len(Resumed(co).ci) - 1, 1)>>
    <3> DEFINE l == Resumed(co)
               g == [th EXCEPT ![co] = l]
    <3>1. /\ l \in LState /\ RoomIn(l) /\ l.nCcalls = L.nCcalls + 1 /\ l.baseCcalls = L.nCcalls + 1
          /\ l.status = "OK" /\ l.top = 0 /\ l.life = "started" /\ l.errfunc = 0 /\ l.allowhook = TRUE
          /\ Len(l.ci) >= 2 /\ \A p \in 2..Len(l.ci) : l.ci[p] = "lua"
      BY <1>4, <2>1, <2>2, GoesOn
    <3>2. /\ th' = g /\ todo' = Run
          /\ cstack' = cstack \o <<Activation("resume", co, 1), luaV_execute(co, Len(l.ci) - 1, 1)>>
      BY <2>3
    <3> HIDE DEF l
    <3>3. Enterable(co, l)
      BY <1>1, <1>7, <2>1, <3>1 DEF Enterable
    <3> QED BY <3>1, <3>2, <3>3, Begins
  <2>4. CASE /\ th' = [th EXCEPT ![co] = Started(co)] /\ todo' = Raise
             /\ cstack' = Append(cstack, Activation("resume", co, 1))
    <3> DEFINE l == Started(co)
               g == [th EXCEPT ![co] = l]
    <3>1. /\ l \in LState /\ RoomIn(l) /\ l.nCcalls = L.nCcalls + 1 /\ l.baseCcalls = L.nCcalls + 1
          /\ l.status = "OK" /\ l.top = 0 /\ l.life = "started" /\ l.errfunc = 0 /\ l.allowhook = TRUE
      BY <1>4, <2>1, <2>2, GoesOn
    <3>2. th' = g /\ todo' = Raise /\ cstack' = Append(cstack, Activation("resume", co, 1))
      BY <2>4
    <3> HIDE DEF l
    <3>3. Enterable(co, l)
      BY <1>1, <1>7, <2>1, <3>1 DEF Enterable
    <3> QED BY <3>1, <3>2, <3>3, BeginsWithout
  <2> QED BY <1>7, <2>3, <2>4 DEF auxresume
<1> QED BY <1>5, <1>6, <1>7

-----------------------------------------------------------------------------
(* The theorems.                                                           *)

\* The main thread starts with an empty C stack, and no coroutine is there.
LEMMA InitHolds == Init => CallsInv
<1> SUFFICES ASSUME Init PROVE CallsInv
  OBVIOUS
<1> DEFINE m == [NewState EXCEPT !.life = "started"]
<1>1. cstack = <<>> /\ todo = Run /\ th = [t \in Threads |-> IF t = Main THEN m ELSE NewState]
  BY DEF Init
<1>2. /\ NewState \in LState /\ RoomIn(NewState) /\ NewState.status = "OK" /\ NewState.baseCcalls = 0
      /\ NewState.ci = <<"base">> /\ NewState.nCcalls = 0 /\ NewState.errfunc = 0 /\ NewState.allowhook = TRUE
  BY RestTypes DEF NewState
<1>3. /\ m \in LState /\ RoomIn(m) /\ m.status = "OK" /\ m.baseCcalls = 0 /\ m.life = "started"
      /\ m.ci = <<"base">> /\ m.nCcalls = 0 /\ m.errfunc = 0 /\ m.allowhook = TRUE
  <2> HIDE DEF NewState
  <2> QED BY <1>2 DEF LState, RoomIn
<1> HIDE DEF m, NewState
<1>4. th \in [Threads -> LState] /\ th[Main] = m /\ (\A t \in Threads : RoomIn(th[t]))
      /\ \A co \in Coroutines : th[co] = NewState
  BY <1>1, <1>2, <1>3, LimitsHold DEF Threads
<1>5. Len(cstack) = 0 /\ cstack \in Seq(Acts) /\ Thread(cstack) = Main /\ 1..0 = {}
  BY <1>1 DEF Thread
<1>6. Depth(cstack, 0) = 0
  BY DepthNone
<1>7. Nested(cstack, 0) /\ Framed(cstack, 0, th) /\ Frozen(cstack, 0, th)
  BY <1>5 DEF Nested, Threaded, Rising, Framed, Frozen
<1>8. Lives(cstack, 0, th)
  BY <1>3, <1>4 DEF Lives, Runs, AtRest
<1>9. Attached(th[Main], cstack, 0, Main)
  BY <1>3, <1>4, <1>5, <1>6 DEF Attached, Hooked
<1>10. Whole(cstack, th)
  BY <1>4, <1>5, <1>7, <1>8, <1>9 DEF Whole, Standing
<1>11. L = m /\ Len(<<"base">>) = 1
  BY <1>1, <1>4 DEF L, Cur
<1>12. Expects
  BY <1>1, <1>3, <1>11 DEF Expects, AtRun
<1> QED BY <1>1, <1>5, <1>6, <1>10, <1>12, LimitsHold DEF CallsInv, Run

\* A step that changes nothing keeps the invariant.
LEMMA StutterHolds == CallsInv /\ UNCHANGED vars => CallsInv'
<1> SUFFICES ASSUME CallsInv, UNCHANGED vars PROVE CallsInv'
  OBVIOUS
<1>1. cstack' = cstack /\ th' = th /\ todo' = todo
  BY DEF vars
<1>2. Cur' = Cur /\ L' = L /\ Top' = Top
  BY <1>1 DEF Cur, L, Top
<1>3. AtRun' = AtRun /\ AtBack' = AtBack /\ AtCall' = AtCall /\ AtError' = AtError
  BY <1>1, <1>2 DEF AtRun, AtBack, AtCall, AtError
<1>4. Expects' = Expects
  BY <1>1, <1>3 DEF Expects
<1> QED BY <1>1, <1>4 DEF CallsInv

\* Every step of every thread keeps the invariant.
LEMMA StepHolds == CallsInv /\ [Next]_vars => CallsInv'
<1> SUFFICES ASSUME CallsInv, [Next]_vars PROVE CallsInv'
  OBVIOUS
<1>1. CASE Host \/ luaB_pcall \/ luaB_xpcall
  BY <1>1, ProtectedCallsKeep
<1>2. CASE \E f \in Functions : OpCall(f)
  BY <1>2, OpCallKeeps
<1>3. CASE luaD_call
  BY <1>3, luaD_callKeeps
<1>4. CASE callTMres
  BY <1>4, callTMresKeeps
<1>5. CASE OpReturn
  BY <1>5, OpReturnKeeps
<1>6. CASE CReturn
  BY <1>6, CReturnKeeps
<1>7. CASE ReturnFromCall
  BY <1>7, ReturnFromCallKeeps
<1>8. CASE Fail
  BY <1>8, FailKeeps
<1>9. CASE luaG_errormsg
  BY <1>9, luaG_errormsgKeeps
<1>10. CASE HandlerReturns
  BY <1>10, HandlerReturnsKeeps
<1>11. CASE ReturnFromPcall
  BY <1>11, ReturnFromPcallKeeps
<1>12. CASE Catch
  BY <1>12, CatchKeeps
<1>13. CASE luaD_callhook
  BY <1>13, luaD_callhookKeeps
<1>14. CASE HookReturns
  BY <1>14, HookReturnsKeeps
<1>15. CASE lua_yield
  BY <1>15, lua_yieldKeeps
<1>16. CASE ReturnFromResume
  BY <1>16, ReturnFromResumeKeeps
<1>17. CASE Die
  BY <1>17, DieKeeps
<1>18. CASE \E co \in Coroutines : luaB_cocreate(co) \/ auxresume(co)
  BY <1>18, luaB_cocreateKeeps, auxresumeKeeps
<1>19. CASE UNCHANGED vars
  BY <1>19, StutterHolds
<1> QED BY <1>1, <1>2, <1>3, <1>4, <1>5, <1>6, <1>7, <1>8, <1>9, <1>10, <1>11, <1>12, <1>13, <1>14,
           <1>15, <1>16, <1>17, <1>18, <1>19 DEF Next

\* In every state a program reaches, each activation on the C stack fits the one it was made
\* by, and every thread that stack or its state of rest.
THEOREM CallsFit == Spec => []CallsInv
<1>1. Init => CallsInv
  BY InitHolds
<1>2. CallsInv /\ [Next]_vars => CallsInv'
  BY StepHolds
<1> QED BY <1>1, <1>2, PTL DEF Spec

\* The places of a thread on the C stack, in terms of the invariant.
LEMMA PlacesKnown ==
  ASSUME CallsInv, NEW t \in Threads
  PROVE  /\ Active(t) <=> Runs(cstack, Len(cstack), t)
         /\ (\E i \in Places(t) : cstack[i].k = "hook") <=> Hooked(cstack, Len(cstack), t)
         /\ Max(Places(t)) = LastOf(cstack, Len(cstack), t)
         /\ \A i : CCalls(i) = Depth(cstack, i)
<1>1. cstack \in Seq(Acts) /\ Len(cstack) \in Nat
  BY Current
<1>2. DOMAIN cstack = 1..Len(cstack)
  BY <1>1
<1>3. Places(t) = {i \in 1..Len(cstack) : cstack[i].t = t}
  BY <1>2 DEF Places
<1>4. Active(t) <=> Runs(cstack, Len(cstack), t)
  BY <1>3 DEF Active, Runs
<1>5. (\E i \in Places(t) : cstack[i].k = "hook") <=> Hooked(cstack, Len(cstack), t)
  BY <1>3 DEF Hooked
<1>6. Max(Places(t)) = LastOf(cstack, Len(cstack), t)
  BY <1>3 DEF LastOf
<1> QED BY <1>4, <1>5, <1>6 DEF CCalls, Depth

\* A thread on the C stack, running or not, has counted what lies below it.
LEMMA ActiveAttached ==
  ASSUME CallsInv, NEW t \in Threads, Active(t)
  PROVE  /\ Attached(th[t], cstack, LastOf(cstack, Len(cstack), t), t)
         /\ Hooked(cstack, LastOf(cstack, Len(cstack), t), t) <=> Hooked(cstack, Len(cstack), t)
<1> DEFINE n == Len(cstack)
           m == LastOf(cstack, n, t)
<1>1. Whole(cstack, th) /\ Cur = Thread(cstack) /\ n \in Nat /\ Attached(L, cstack, n, Cur)
  BY Current
<1>2. Runs(cstack, n, t)
  BY PlacesKnown
<1>3. /\ m \in 1..n /\ (\A i \in 1..n : cstack[i].t = t => i <= m)
      /\ t = Thread(cstack) => m = n
      /\ t # Thread(cstack) => Attached(th[t], cstack, m, t)
  BY <1>1, <1>2, OuterThread
<1> HIDE DEF m
<1>4. Attached(th[t], cstack, m, t)
  <2>1. CASE t = Thread(cstack)
    BY <1>1, <1>3, <2>1 DEF L
  <2> QED BY <1>3, <2>1
<1>5. Hooked(cstack, m, t) <=> Hooked(cstack, n, t)
  BY <1>1, <1>3 DEF Hooked
<1> QED BY <1>4, <1>5 DEF m

\* A coroutine that has yielded is on its way out of lua_resume or not on the C stack.
LEMMA Yielded ==
  ASSUME CallsInv, NEW co \in Coroutines, th[co].status = "YIELD"
  PROVE  Waits(th[co]) /\ (Runs(cstack, Len(cstack), co) => co = Cur /\ todo = Back)
<1>1. Whole(cstack, th) /\ Cur = Thread(cstack)
  BY Current
<1>2. CASE Runs(cstack, Len(cstack), co)
  <2>1. co = Cur
    <3>1. co # Thread(cstack) => th[co].status = "OK"
      BY <1>1, <1>2, OuterThread
    <3> QED BY <1>1, <3>1
  <2>2. L.status # "OK"
    BY <2>1 DEF L
  <2>3. todo = Back /\ Waits(L)
    BY <2>2 DEF CallsInv, Expects, AtRun, AtBack, AtCall, AtError
  <2> QED BY <2>1, <2>3 DEF L
<1>3. CASE ~Runs(cstack, Len(cstack), co)
  <2>1. AtRest(th[co])
    BY <1>1, <1>3 DEF Whole, Standing, Lives
  <2>2. th[co] # NewState /\ th[co] # Created /\ ~Unserved(th[co])
    <3>1. NewState.status = "OK" /\ Created.status = "OK"
      BY DEF NewState, Created
    <3> QED BY <3>1 DEF Unserved
  <2>3. ASSUME NEW s \in {"OK"} \cup Errors PROVE th[co] # Ended(s)
    <3>1. Ended(s).status = s
      BY DEF Ended, NewState
    <3> QED BY <3>1 DEF Errors
  <2> QED BY <1>3, <2>1, <2>2, <2>3 DEF AtRest
<1> QED BY <1>2, <1>3

\* The counter that guards the C stack, the hook switch and the error handler of every thread
\* match the C stack, whatever luaD_pcall, lua_resume and lua_yield copied between threads.
THEOREM CountersMatch == Spec => []StateMatchesStack
<1>1. ASSUME CallsInv PROVE StateMatchesStack
  <2> USE <1>1
  <2>1. ASSUME NEW t \in Threads, Active(t)
        PROVE  /\ th[t].nCcalls = CCalls(Max(Places(t)))
               /\ th[t].allowhook = ~\E i \in Places(t) : cstack[i].k = "hook"
               /\ th[t].errfunc # 0 => th[t].errfunc <= Len(th[t].ci) /\ th[t].ci[th[t].errfunc] = "xpcall"
    <3> DEFINE m == LastOf(cstack, Len(cstack), t)
    <3>1. Attached(th[t], cstack, m, t) /\ (Hooked(cstack, m, t) <=> Hooked(cstack, Len(cstack), t))
      BY <2>1, ActiveAttached
    <3>2. /\ Max(Places(t)) = m /\ CCalls(m) = Depth(cstack, m)
          /\ (\E i \in Places(t) : cstack[i].k = "hook") <=> Hooked(cstack, Len(cstack), t)
      BY PlacesKnown
    <3> HIDE DEF m
    <3>3. th[t].allowhook = ~\E i \in Places(t) : cstack[i].k = "hook"
      <4>1. th[t].allowhook = ~Hooked(cstack, m, t)
        BY <3>1 DEF Attached
      <4> QED BY <3>1, <3>2, <4>1
    <3> QED BY <3>1, <3>2, <3>3 DEF Attached
  <2>2. ASSUME todo = Back, Top.k = "hook" PROVE ~L.allowhook
    <3>1. cstack # <<>>
      BY <2>2, WhenBack DEF AtBack
    <3>2. Len(cstack) \in 1..Len(cstack) /\ cstack[Len(cstack)].t = Cur /\ cstack[Len(cstack)].k = "hook"
          /\ L.allowhook = ~Hooked(cstack, Len(cstack), Cur)
      BY <2>2, <3>1, Current DEF Attached
    <3>3. Hooked(cstack, Len(cstack), Cur)
      BY <3>2 DEF Hooked
    <3> QED BY <3>2, <3>3
  <2>3. ASSUME todo = Back, Top.k = "resume" PROVE L.nCcalls = L.baseCcalls
    <3> DEFINE n == Len(cstack)
    <3>1. cstack # <<>>
      BY <2>3, WhenBack DEF AtBack
    <3>2. /\ Whole(cstack, th) /\ n \in Nat \ {0} /\ cstack[n].t = Cur /\ cstack[n].k = "resume" /\ Based(cstack, n)
          /\ L.nCcalls = Depth(cstack, n)
      BY <2>3, <3>1, Current DEF Attached
    <3>3. n # 1
      BY <3>2 DEF Based
    <3>4. n \in 2..n
      <4> HIDE DEF n
      <4> QED BY <3>2, <3>3
    <3>5. th[cstack[n].t].baseCcalls = Depth(cstack, n)
      BY <3>2, <3>4 DEF Whole, Standing, Frozen
    <3> QED BY <3>2, <3>5 DEF L
  <2>4. ASSUME NEW co \in Coroutines, th[co].status = "YIELD" PROVE th[co].errfunc = 0
    BY <2>4, Yielded DEF Waits
  <2> QED BY <2>1, <2>2, <2>3, <2>4 DEF StateMatchesStack
<1> QED BY <1>1, CallsFit, PTL

\* Neither the C stack nor an array of active functions grows beyond its limit and the
\* reserve kept for error handling: luaD_call and growCI notice every overflow.
THEOREM StacksBounded == Spec => []Bounded
<1>1. ASSUME CallsInv PROVE Bounded
  <2> USE <1>1
  <2>1. CCalls(Len(cstack)) <= LUAI_MAXCCALLS + CCallsSlack
    <3>1. Main \in Threads
      BY DEF Threads
    <3>2. CCalls(Len(cstack)) = Depth(cstack, Len(cstack))
      BY <3>1, PlacesKnown
    <3> QED BY <3>2 DEF CallsInv, Limit
  <2>2. ASSUME NEW t \in Threads
        PROVE  Len(th[t].ci) <= th[t].size_ci /\ th[t].size_ci <= 2 * LUAI_MAXCALLS
    <3>1. RoomIn(th[t])
      BY Current DEF Whole, Standing
    <3>2. th[t].size_ci \in Nat /\ 2 * LUAI_MAXCALLS \in Nat
      BY <3>1, LimitsHold DEF RoomIn
    <3> QED BY <3>1, <3>2 DEF RoomIn
  <2> QED BY <2>1, <2>2 DEF Bounded
<1> QED BY <1>1, CallsFit, PTL

\* coroutine.status, which looks at the fields of a thread alone, knows whether it runs, has
\* resumed another, waits, or has ended and is done with: one that ended but whose results
\* its resumer had no room for counts as suspended, and can be resumed.  One that waits in a
\* yield was called by Lua functions only.  (auxresume, costatus, lua_yield)
THEOREM StatusKnown == Spec => []StatusTruthful
<1>1. ASSUME CallsInv PROVE StatusTruthful
  <2> USE <1>1
  <2> SUFFICES ASSUME todo = Run, cstack # <<>>, NEW co \in Coroutines, th[co].life # "absent"
               PROVE  /\ costatus(Cur, co) =
                           IF co = Cur THEN "running"
                           ELSE IF Active(co) THEN "normal"
                           ELSE IF th[co].life = "ended" THEN "dead" ELSE "suspended"
                      /\ th[co].status = "YIELD" =>
                           /\ ~Active(co) /\ Last(th[co].ci) = "yield"
                           /\ \A i \in 2..(Len(th[co].ci) - 1) : th[co].ci[i] = "lua"
    BY DEF StatusTruthful
  <2>1. Whole(cstack, th) /\ Cur = Thread(cstack)
    BY Current
  <2>2. Active(co) <=> Runs(cstack, Len(cstack), co)
    BY PlacesKnown DEF Threads
  <2>3. th[co].status = "YIELD" =>
          /\ ~Active(co) /\ Last(th[co].ci) = "yield"
          /\ \A i \in 2..(Len(th[co].ci) - 1) : th[co].ci[i] = "lua"
    <3>1. Run # Back
      BY DEF Run, Back
    <3> QED BY <2>2, <3>1, Yielded DEF Waits
  <2>4. CASE co = Cur
    BY <2>3, <2>4 DEF costatus
  <2>5. CASE co # Cur /\ Active(co)
    <3>1. Len(th[co].ci) > 1 /\ th[co].status = "OK"
      BY <2>1, <2>2, <2>5, OuterThread
    <3> QED BY <2>3, <2>5, <3>1 DEF costatus
  <2>6. CASE co # Cur /\ ~Active(co)
    <3>1. AtRest(th[co]) /\ th[co] # NewState
      BY <2>1, <2>2, <2>6 DEF Whole, Standing, Lives, NewState
    <3>2. CASE Waits(th[co])
      BY <2>3, <2>6, <3>2 DEF costatus, Waits
    <3>3. Len(<<"base">>) = 1
      OBVIOUS
    <3>4. CASE th[co] = Created
      <4>1. th[co].status = "OK" /\ th[co].ci = <<"base">> /\ th[co].top = 1 /\ th[co].life = "created"
        BY <3>4 DEF Created, NewState
      <4> QED BY <2>3, <2>6, <3>3, <4>1 DEF costatus
    <3>6. CASE Unserved(th[co])
      BY <2>3, <2>6, <3>3, <3>6 DEF costatus, Unserved
    <3>5. ASSUME NEW s \in {"OK"} \cup Errors, th[co] = Ended(s)
          PROVE  costatus(Cur, co) = "dead" /\ th[co].life = "ended"
      <4>1. th[co].status = s /\ th[co].ci = <<"base">> /\ th[co].top = 0 /\ th[co].life = "ended"
        BY <3>5 DEF Ended, NewState
      <4>2. s # "YIELD"
        BY DEF Errors
      <4> QED BY <2>6, <3>3, <4>1, <4>2 DEF costatus
    <3> QED BY <2>3, <2>6, <3>1, <3>2, <3>4, <3>5, <3>6 DEF AtRest
  <2> QED BY <2>4, <2>5, <2>6
<1> QED BY <1>1, CallsFit, PTL
==============================================================================
