------------------------------ MODULE Collector ------------------------------
(***************************************************************************)
(* The incremental garbage collector of the bundled Lua (lgc.c) with the   *)
(* program it interrupts: the string table (lstring.c), upvalues (lfunc.c) *)
(* and the stores of lapi.c and lvm.c with their barriers.  The binary     *)
(* table library keeps all its values on the Lua stack and never anchors   *)
(* them elsewhere, so it depends on every collector step, taken in         *)
(* whatever state of the program, keeping what the stack reaches.          *)
(*                                                                         *)
(* g is the global_State.  An address is a number, Nil is 0.  A table has  *)
(* one array slot and one hash node; tm says what it provides when it is   *)
(* used as a metatable ("k" and "v" for __mode, "gc" for __gc).  When a    *)
(* step of the collector runs (GCthreshold, gcdept, estimate) is left      *)
(* open: one may run between any two operations of the program.            *)
(***************************************************************************)
EXTENDS Integers, Sequences, FiniteSets, SequencesExt, FiniteSetsExt

CONSTANTS
  Obj,            \* addresses of objects
  States,         \* global states at the start, between two collections, each with
                  \* a bound on the operations of the program that follow
  Strings,        \* contents of strings
  Hash(_),        \* their hash
  GCSWEEPMAX,     \* objects swept in one step
  MINSTRTABSIZE,  \* smallest size of the string table
  ShareUpvalues,  \* whether lua_setupvalue may meet an upvalue of two closures
  MaxTop          \* bound: stack of the program

ASSUME CollectorAssumption ==
  /\ Obj \subseteq Nat \ {0}
  /\ GCSWEEPMAX \in Nat \ {0} /\ MINSTRTABSIZE \in Nat \ {0}

VARIABLES
  g,    \* the global_State
  full, \* "" or the stage of luaC_fullgc: "sweep", "cycle", "done"
  begun, \* history: what was in use when luaC_fullgc was called, and of which type
  ops   \* operations the program may still do

vars == <<g, full, begun, ops>>

Nil == 0
DeadKey == -1
main == 1     \* the main thread, which runs the program
registry == 2 \* registry and table of globals

Free == [tt |-> "free"]

\* Constructors, in the initial colour.
NewTable(mark, tm) ==
  [tt |-> "table", marked |-> mark, meta |-> Nil, arr |-> Nil, key |-> Nil, val |-> Nil, tm |-> tm, weak |-> {}]
NewUdata(mark, e) ==
  [tt |-> "udata", marked |-> mark, meta |-> Nil, env |-> e, finalized |-> FALSE, calls |-> 0]
NewLclosure(mark, p, uv, e) == [tt |-> "function", isC |-> FALSE, marked |-> mark, p |-> p, uv |-> uv, env |-> e]
NewCclosure(mark, v, e) == [tt |-> "function", isC |-> TRUE, marked |-> mark, p |-> Nil, uv |-> v, env |-> e]
NewProto(mark) == [tt |-> "proto", marked |-> mark, k |-> Nil]
NewUpval(mark, th, level) == [tt |-> "upval", marked |-> mark, th |-> th, level |-> level, v |-> Nil]
NewString(mark, s) == [tt |-> "string", marked |-> mark, str |-> s]
NewThread(mark, e) == [tt |-> "thread", marked |-> mark, env |-> e, stack |-> <<>>, openupval |-> <<>>]

-----------------------------------------------------------------------------
(* Colours.                                                                *)

iswhite(s, o) == s.heap[o].marked \in {"white0", "white1"}

isblack(s, o) == s.heap[o].marked = "black"

isgray(s, o) == s.heap[o].marked = "gray"

otherwhite(s) == IF s.currentwhite = "white0" THEN "white1" ELSE "white0"

isdead(s, o) == s.heap[o].marked = otherwhite(s)

Paint(s, o, c) == [s EXCEPT !.heap[o].marked = c]

makewhite(s, o) == Paint(s, o, s.currentwhite)

-----------------------------------------------------------------------------
(* Marking.  reallymarkobject recurs from an upvalue to its value and from *)
(* a userdata to its tables, no deeper: one operator for each level.       *)

MarkListed(s, o) ==
  IF o = Nil \/ ~iswhite(s, o) THEN s
  ELSE IF s.heap[o].tt = "string" THEN Paint(s, o, "gray")
  ELSE [Paint(s, o, "gray") EXCEPT !.gray = <<o>> \o @]

MarkUdata(s, o) ==
  IF o # Nil /\ s.heap[o].tt = "udata" /\ iswhite(s, o)
  THEN MarkListed(MarkListed(Paint(s, o, "black"), s.heap[o].meta), s.heap[o].env)
  ELSE MarkListed(s, o)

\* Where an upvalue lives: in a stack while it is open, then in itself.
isopen(s, uv) == s.heap[uv].th # Nil

UpvalValue(s, uv) ==
  LET u == s.heap[uv] IN
  IF ~isopen(s, uv) THEN u.v
  ELSE IF u.level <= Len(s.heap[u.th].stack) THEN s.heap[u.th].stack[u.level] ELSE Nil

markobject(s, o) ==
  IF o # Nil /\ s.heap[o].tt = "upval" /\ iswhite(s, o)
  THEN MarkUdata(Paint(s, o, IF isopen(s, o) THEN "gray" ELSE "black"), UpvalValue(s, o))
  ELSE MarkUdata(s, o)

MarkAll(s, os) == FoldLeft(markobject, s, os)

\* The weak modes a table has by its metatable.
Mode(s, h) ==
  IF s.heap[h].meta = Nil THEN {} ELSE s.heap[s.heap[h].meta].tm \cap {"k", "v"}

\* What traversetable marks besides the metatable.
Kept(s, h) ==
  LET t == s.heap[h]
      m == Mode(s, h)
  IN  (IF "v" \in m THEN <<>> ELSE <<t.arr>>)
      \o (IF t.val = Nil \/ "k" \in m THEN <<>> ELSE <<t.key>>)
      \o (IF t.val = Nil \/ "v" \in m THEN <<>> ELSE <<t.val>>)

\* removeentry: an entry without a value loses its hold on the key.
Bury(s, h) == IF s.heap[h].key = Nil THEN s ELSE [s EXCEPT !.heap[h].key = DeadKey]

traversetable(s, h) ==
  LET m  == Mode(s, h)
      s1 == markobject(s, s.heap[h].meta)
      s2 == IF m = {} THEN s1
            ELSE [s1 EXCEPT !.heap[h].weak = m, !.weak = <<h>> \o @, !.heap[h].marked = "gray"]
      s3 == MarkAll(s2, Kept(s, h))
  IN  IF s.heap[h].val = Nil /\ m # {"k", "v"} THEN Bury(s3, h) ELSE s3

traverseclosure(s, cl) == MarkAll(s, <<s.heap[cl].env, s.heap[cl].p, s.heap[cl].uv>>)

\* A thread stays gray: nothing guards the stores into its stack.
traversethread(s, th) ==
  MarkAll([Paint(s, th, "gray") EXCEPT !.grayagain = <<th>> \o @], <<s.heap[th].env>> \o s.heap[th].stack)

propagatemark(s) ==
  LET o == Head(s.gray)
      b == [Paint(s, o, "black") EXCEPT !.gray = Tail(@)]
  IN  CASE s.heap[o].tt = "table" -> traversetable(b, o)
        [] s.heap[o].tt = "function" -> traverseclosure(b, o)
        [] s.heap[o].tt = "proto" -> MarkAll(b, <<s.heap[o].k>>)
        [] s.heap[o].tt = "thread" -> traversethread(b, o)

\* Every step blackens an object, or moves a weak table or a thread aside.
propagateall(s) ==
  FoldLeft(LAMBDA x, i : IF x.gray = <<>> THEN x ELSE propagatemark(x), s, [i \in 1..Cardinality(Obj) |-> i])

markroot(s) ==
  MarkAll([s EXCEPT !.gray = <<>>, !.grayagain = <<>>, !.weak = <<>>, !.gcstate = "propagate"],
          <<main, registry, s.mt>>)

-----------------------------------------------------------------------------
(* The atomic end of the mark phase.                                       *)

\* Open upvalues that are marked although their thread may be dead.
remarkupvals(s) ==
  FoldLeft(LAMBDA x, uv : IF isgray(x, uv) THEN markobject(x, UpvalValue(x, uv)) ELSE x, s, s.uvhead)

\* Userdata are chained behind the main thread.
Userdata(s) == SelectSeq(s.rootgc, LAMBDA o : s.heap[o].tt = "udata")

HasGC(s, u) == s.heap[u].meta # Nil /\ "gc" \in s.heap[s.heap[u].meta].tm

\* Mutant: an object that was finalized is separated again.
DueEachTime(s, u, all) == (iswhite(s, u) \/ all) /\ HasGC(s, u)

\* Unmarked (or, at the end, all) userdata whose finalizer is still to be called.
Due(s, u, all) == (iswhite(s, u) \/ all) /\ ~s.heap[u].finalized /\ HasGC(s, u)

luaC_separateudata(s, all) ==
  LET due == SelectSeq(Userdata(s), LAMBDA u : Due(s, u, all))
  IN  [s EXCEPT !.tmudata = @ \o due,
                !.rootgc = SelectSeq(@, LAMBDA o : ~Contains(due, o)),
                !.heap = [o \in Obj |->
                            IF @[o].tt = "udata" /\ Contains(s.rootgc, o) /\ (iswhite(s, o) \/ all)
                            THEN [@[o] EXCEPT !.finalized = TRUE] ELSE @[o]]]

marktmu(s) == FoldLeft(LAMBDA x, u : MarkUdata(makewhite(x, u), u), s, s.tmudata)

\* iscleared, for keys and for values.  Strings are never removed but marked.
iscleared(s, o, iskey) ==
  /\ o \notin {Nil, DeadKey}
  /\ s.heap[o].tt # "string"
  /\ \/ iswhite(s, o)
     \/ s.heap[o].tt = "udata" /\ ~iskey /\ s.heap[o].finalized

stringmark(s, o) ==
  IF o \notin {Nil, DeadKey} THEN IF s.heap[o].tt = "string" THEN Paint(s, o, "gray") ELSE s ELSE s

ClearOne(s, h) ==
  LET t  == s.heap[h]
      v  == "v" \in t.weak
      s1 == IF v THEN stringmark(s, t.arr) ELSE s
      s2 == IF v /\ iscleared(s1, t.arr, FALSE) THEN [s1 EXCEPT !.heap[h].arr = Nil] ELSE s1
      s3 == IF t.val = Nil THEN s2 ELSE stringmark(s2, t.key)
      s4 == IF t.val = Nil \/ iscleared(s3, t.key, TRUE) THEN s3 ELSE stringmark(s3, t.val)
  IN  IF t.val # Nil /\ (iscleared(s4, t.key, TRUE) \/ iscleared(s4, t.val, FALSE))
      THEN Bury([s4 EXCEPT !.heap[h].val = Nil], h)
      ELSE s4

cleartable(s) == FoldLeft(ClearOne, s, s.weak)

atomic(s) ==
  LET s1 == propagateall(remarkupvals(s))
      s2 == propagateall(MarkAll([s1 EXCEPT !.gray = s1.weak, !.weak = <<>>], <<main, s.mt>>))
      s3 == propagateall([s2 EXCEPT !.gray = s2.grayagain, !.grayagain = <<>>])
      s4 == propagateall(marktmu(luaC_separateudata(s3, FALSE)))
  IN  [cleartable(s4) EXCEPT !.currentwhite = otherwhite(s), !.sweepstrgc = 0, !.sweepgc = Nil,
                             !.gcstate = "sweepstring"]

-----------------------------------------------------------------------------
(* Barriers and upvalues.                                                  *)

\* Mutant: the store is not noticed.
luaC_barrierNot(s, o, v) == s

\* luaC_barrier, luaC_objbarrier with luaC_barrierf
luaC_barrier(s, o, v) ==
  IF v # Nil /\ iswhite(s, v) /\ isblack(s, o)
  THEN IF s.gcstate = "propagate" THEN markobject(s, v) ELSE makewhite(s, o)
  ELSE s

\* luaC_barriert, luaC_objbarriert with luaC_barrierback
luaC_barriert(s, t, v) ==
  IF v # Nil /\ iswhite(s, v) /\ isblack(s, t)
  THEN [Paint(s, t, "gray") EXCEPT !.grayagain = <<t>> \o @]
  ELSE s

\* Mutant: a closed upvalue stays as it was when it was open.
luaC_linkupvalPlain(s, uv) == [s EXCEPT !.rootgc = <<uv>> \o @]

luaC_linkupval(s, uv) ==
  LET s1 == [s EXCEPT !.rootgc = <<uv>> \o @]
  IN  IF ~isgray(s1, uv) THEN s1
      ELSE IF s1.gcstate = "propagate" THEN luaC_barrier(Paint(s1, uv, "black"), uv, s1.heap[uv].v)
      ELSE makewhite(s1, uv)

\* luaF_freeupval of an open upvalue
FreeOpen(s, uv) == [s EXCEPT !.heap[uv] = Free, !.uvhead = SelectSeq(@, LAMBDA u : u # uv)]

CloseOne(s, uv) ==
  LET th == s.heap[uv].th
      s1 == [s EXCEPT !.heap[th].openupval = Tail(@)]
  IN  IF isdead(s1, uv) THEN FreeOpen(s1, uv)
      ELSE luaC_linkupval([s1 EXCEPT !.uvhead = SelectSeq(@, LAMBDA u : u # uv),
                                     !.heap[uv].v = UpvalValue(s, uv), !.heap[uv].th = Nil], uv)

luaF_close(s, th, level) ==
  FoldLeft(CloseOne, s, SelectSeq(s.heap[th].openupval, LAMBDA uv : s.heap[uv].level >= level))

-----------------------------------------------------------------------------
(* Sweeping.                                                               *)

\* A list without its dead objects, the others in the current white.
sweepwholelist(s, list) ==
  LET dead(o) == isdead(s, o)
  IN  [s EXCEPT !.heap = [o \in Obj |->
         IF ~Contains(list, o) THEN @[o] ELSE IF dead(o) THEN Free ELSE [@[o] EXCEPT !.marked = s.currentwhite]]]

Live(s, list) == SelectSeq(list, LAMBDA o : ~isdead(s, o))

\* Mutant: a freed upvalue stays in the list of open upvalues.
SweepOpenLinked(s, th) ==
  LET l == s.heap[th].openupval
  IN  [sweepwholelist(s, l) EXCEPT !.heap[th].openupval = Live(s, l)]

\* The open upvalues of a thread are in no other list.
SweepOpen(s, th) ==
  LET l == s.heap[th].openupval
  IN  [sweepwholelist(s, l) EXCEPT !.heap[th].openupval = Live(s, l),
                                   !.uvhead = SelectSeq(@, LAMBDA u : ~(Contains(l, u) /\ isdead(s, u)))]

\* freeobj; a thread closes its upvalues first (luaE_freethread)
freeobj(s, o) ==
  [(IF s.heap[o].tt = "thread" THEN luaF_close(s, o, 1) ELSE s) EXCEPT !.heap[o] = Free]

\* Position in rootgc that sweepgc points to; Nil is the head of the list.
SweepPos(s) == IF s.sweepgc = Nil THEN 1 ELSE 1 + CHOOSE i \in DOMAIN s.rootgc : s.rootgc[i] = s.sweepgc

SweepOne(s, i) ==
  IF SweepPos(s) > Len(s.rootgc) THEN s
  ELSE LET o  == s.rootgc[SweepPos(s)]
           s1 == IF s.heap[o].tt = "thread" THEN SweepOpen(s, o) ELSE s
       IN  IF isdead(s, o) /\ o # main THEN freeobj([s1 EXCEPT !.rootgc = RemoveAt(@, SweepPos(s))], o)
           ELSE [makewhite(s1, o) EXCEPT !.sweepgc = o]

nuse(s) == FoldSeq(LAMBDA b, n : n + Len(b), 0, s.strt)

\* luaS_resize: all strings into a table of another size, chains in no order
\* that matters; refused while the collector walks the old one.
luaS_resize(s, size) ==
  IF s.gcstate = "sweepstring" THEN s
  ELSE [s EXCEPT !.strt = [i \in 1..size |->
          SelectSeq(Reverse(FlattenSeq(s.strt)), LAMBDA o : Hash(s.heap[o].str) % size = i - 1)]]

checkSizes(s) ==
  IF nuse(s) < Len(s.strt) \div 4 /\ Len(s.strt) > 2 * MINSTRTABSIZE THEN luaS_resize(s, Len(s.strt) \div 2) ELSE s

\* GCTM: the finalizer is called with the userdata, which is an ordinary object
\* again.  What the finalizer does are the next operations of the program.
GCTM(s) ==
  LET o == Head(s.tmudata)
      k == CHOOSE i \in DOMAIN s.rootgc : s.rootgc[i] = main
      s1 == makewhite([s EXCEPT !.tmudata = Tail(@), !.rootgc = InsertAt(@, k + 1, o)], o)
  IN  IF HasGC(s1, o) THEN [s1 EXCEPT !.heap[o].calls = @ + 1] ELSE s1

singlestep(s) ==
  CASE s.gcstate = "pause" -> markroot(s)
    [] s.gcstate = "propagate" -> IF s.gray # <<>> THEN propagatemark(s) ELSE atomic(s)
    [] s.gcstate = "sweepstring" ->
         LET b  == s.strt[s.sweepstrgc + 1]
             s1 == [sweepwholelist(s, b) EXCEPT !.strt[s.sweepstrgc + 1] = Live(s, b), !.sweepstrgc = @ + 1]
         IN  IF s1.sweepstrgc >= Len(s1.strt) THEN [s1 EXCEPT !.gcstate = "sweep"] ELSE s1
    [] s.gcstate = "sweep" ->
         LET s1 == FoldLeft(SweepOne, s, [i \in 1..GCSWEEPMAX |-> i])
         IN  IF SweepPos(s1) > Len(s1.rootgc) THEN [checkSizes(s1) EXCEPT !.gcstate = "finalize"] ELSE s1
    [] s.gcstate = "finalize" -> IF s.tmudata # <<>> THEN GCTM(s) ELSE [s EXCEPT !.gcstate = "pause"]

-----------------------------------------------------------------------------
(* Reachability.                                                           *)

\* What the program can read from a table.
Entry(t) == ({t.arr, t.val} \cup (IF t.val = Nil THEN {} ELSE {t.key})) \ {Nil}

\* The references of an object that keep others alive.  Strings are values: a
\* weak table keeps them too.
Refs(s, o) ==
  LET x == s.heap[o] IN
  (CASE x.tt = "table" -> {x.meta} \cup ToSet(Kept(s, o)) \cup (Entry(x) \cap {r \in Obj : s.heap[r].tt = "string"})
     [] x.tt = "udata" -> {x.meta, x.env}
     [] x.tt = "function" -> {x.p, x.uv, x.env}
     [] x.tt = "proto" -> {x.k}
     [] x.tt = "upval" -> {UpvalValue(s, o)}
     [] x.tt = "thread" -> {x.env} \cup ToSet(x.stack)
     [] OTHER -> {}) \ {Nil}

Closure(s, from) ==
  LET reach[n \in Nat] ==
        IF n = 0 THEN from \ {Nil}
        ELSE LET r == reach[n - 1] IN r \cup UNION {Refs(s, o) : o \in {x \in r : s.heap[x] # Free}}
  IN  reach[Cardinality(Obj)]

\* What the program can get at, now or in a finalizer.
Reachable(s) == Closure(s, {main, registry, s.mt} \cup ToSet(s.tmudata))

\* The same with the userdata that are yet to be finalized.
InUse(s) ==
  Closure(s, {main, registry, s.mt} \cup ToSet(s.tmudata)
             \cup {u \in ToSet(Userdata(s)) : ~s.heap[u].finalized /\ HasGC(s, u)})

-----------------------------------------------------------------------------
(* The program: operations on the stack of the main thread.                *)

S == g.heap[main].stack
Top == S[Len(S)]
Accessible == ({S[i] : i \in DOMAIN S} \cup {registry}) \ {Nil}
Is(o, tt) == o # Nil /\ g.heap[o].tt = tt
Vacant == {o \in Obj : g.heap[o] = Free}
new == Min(Vacant)

Running == full # "sweep" /\ full # "cycle" /\ g.gcstate # "closed"

\* One operation that leaves global state s and stack st.
Operation(s, st) ==
  /\ Running /\ ops > 0 /\ Len(st) <= MaxTop
  /\ g' = [s EXCEPT !.heap[main].stack = st]
  /\ ops' = ops - 1 /\ full' = "" /\ begun' = <<>>

Popped(n) == SubSeq(S, 1, Len(S) - n)

\* luaC_link
Linked(o) == [g EXCEPT !.heap[new] = o, !.rootgc = <<new>> \o @]

lua_createtable ==
  Vacant # {} /\ \E tm \in {{}, {"k"}, {"gc"}} : Operation(Linked(NewTable(g.currentwhite, tm)), Append(S, new))

\* luaS_newudata, chained behind the main thread
lua_newuserdata ==
  /\ Vacant # {}
  /\ LET k == CHOOSE i \in DOMAIN g.rootgc : g.rootgc[i] = main
     IN  Operation([g EXCEPT !.heap[new] = NewUdata(g.currentwhite, registry), !.rootgc = InsertAt(@, k + 1, new)],
                   Append(S, new))

lua_newthread == Vacant # {} /\ Operation(Linked(NewThread(g.currentwhite, registry)), Append(S, new))

\* A dead string that is still in the table is used again.
Resurrect(s, o) == IF isdead(s, o) THEN makewhite(s, o) ELSE s

\* Mutant: a dead string is passed over.
FoundAlive(o, s) == g.heap[o].str = s /\ ~isdead(g, o)

Found(o, s) == g.heap[o].str = s

Bucket(s) == (Hash(s) % Len(g.strt)) + 1

\* luaS_newlstr
lua_pushlstring ==
  \E s \in Strings :
    \/ \E o \in ToSet(g.strt[Bucket(s)]) : Found(o, s) /\ Operation(Resurrect(g, o), Append(S, o))
    \/ /\ \A o \in ToSet(g.strt[Bucket(s)]) : ~Found(o, s)
       /\ Vacant # {}
       /\ LET s1 == [g EXCEPT !.heap[new] = NewString(g.currentwhite, s),
                              !.strt[Bucket(s)] = <<new>> \o @]
          IN  Operation(IF nuse(s1) > Len(s1.strt) THEN luaS_resize(s1, 2 * Len(s1.strt)) ELSE s1, Append(S, new))

lua_pushcclosure ==
  Vacant # {} /\ S # <<>> /\ Operation(Linked(NewCclosure(g.currentwhite, Top, registry)), Append(Popped(1), new))

\* luaF_findupval: the open upvalue of a stack slot, perhaps dead, or a new one.
FindUpval(s, level) == {uv \in ToSet(s.heap[main].openupval) : s.heap[uv].level = level}

\* OP_CLOSURE over a local variable; the prototype is on the stack.
NewClosureLocal ==
  \E p \in Accessible, level \in DOMAIN S :
    /\ Is(p, "proto") /\ Cardinality(Vacant) > 1
    /\ \/ \E uv \in FindUpval(g, level) :
            Operation(Resurrect(Linked(NewLclosure(g.currentwhite, p, uv, registry)), uv), Append(S, new))
       \/ /\ FindUpval(g, level) = {}
          /\ LET uv == Min(Vacant \ {new})
                 l  == g.heap[main].openupval
                 n  == Len(SelectSeq(l, LAMBDA u : g.heap[u].level > level))
             IN  Operation([Linked(NewLclosure(g.currentwhite, p, uv, registry)) EXCEPT
                              !.heap[uv] = NewUpval(g.currentwhite, main, level),
                              !.heap[main].openupval = InsertAt(l, n + 1, uv),
                              !.uvhead = <<uv>> \o @],
                           Append(S, new))

\* OP_CLOSURE that shares an upvalue of the enclosing function
NewClosureShared ==
  \E cl \in Accessible :
    /\ Is(cl, "function") /\ ~g.heap[cl].isC /\ Vacant # {}
    /\ Operation(Linked(NewLclosure(g.currentwhite, g.heap[cl].p, g.heap[cl].uv, registry)), Append(S, new))

luaF_newproto == Vacant # {} /\ Operation(Linked(NewProto(g.currentwhite)), Append(S, new))

\* addk: the parser enters a constant
addk ==
  \E p \in Accessible :
    /\ Is(p, "proto") /\ S # <<>> /\ g.heap[p].k = Nil /\ Is(Top, "string")
    /\ Operation(luaC_barrier([g EXCEPT !.heap[p].k = Top], p, Top), Popped(1))

lua_pop == S # <<>> /\ Operation(luaF_close(g, main, Len(S)), Popped(1))

\* Reads: a field, a key met by lua_next, an upvalue.
lua_get ==
  \E o \in Accessible :
    \E v \in CASE g.heap[o].tt = "table" ->
                    Entry(g.heap[o])
               [] g.heap[o].tt = "function" ->
                    {IF g.heap[o].isC THEN g.heap[o].uv ELSE UpvalValue(g, g.heap[o].uv)}
               [] OTHER -> {} :
      v # Nil /\ Operation(g, Append(S, v))

lua_rawseti ==
  \E t \in Accessible :
    /\ Is(t, "table") /\ S # <<>>
    /\ Operation(luaC_barriert([g EXCEPT !.heap[t].arr = Top], t, Top), Popped(1))

\* With newkey's own barrier for the key.  The node holds one entry.
lua_rawset ==
  \E t \in Accessible :
    /\ Is(t, "table") /\ Len(S) >= 2 /\ S[Len(S) - 1] # Nil
    /\ LET k  == S[Len(S) - 1]
           s1 == IF g.heap[t].key = k THEN g ELSE luaC_barriert([g EXCEPT !.heap[t].key = k], t, k)
       IN  /\ g.heap[t].val = Nil \/ g.heap[t].key = k
           /\ Operation(luaC_barriert([s1 EXCEPT !.heap[t].val = Top], t, Top), Popped(2))

lua_setmetatable ==
  \E o \in Accessible :
    /\ S # <<>> /\ Is(Top, "table")
    /\ Operation(CASE g.heap[o].tt = "table" -> luaC_barriert([g EXCEPT !.heap[o].meta = Top], o, Top)
                   [] g.heap[o].tt = "udata" -> luaC_barrier([g EXCEPT !.heap[o].meta = Top], o, Top)
                   [] OTHER -> [g EXCEPT !.mt = Top],
                 Popped(1))

lua_setfenv ==
  \E o \in Accessible :
    /\ S # <<>> /\ Is(Top, "table") /\ g.heap[o].tt \in {"function", "udata", "thread"}
    /\ Operation(luaC_barrier([g EXCEPT !.heap[o].env = Top], o, Top), Popped(1))

\* The upvalue, or the slot it stands for.
SetUpval(s, uv, v) ==
  IF isopen(s, uv) THEN [s EXCEPT !.heap[s.heap[uv].th].stack[s.heap[uv].level] = v] ELSE [s EXCEPT !.heap[uv].v = v]

\* The stack without its top, seen after the store.
Rest(s) == Front(s.heap[main].stack)

\* OP_SETUPVAL
setupval ==
  \E cl \in Accessible :
    /\ Is(cl, "function") /\ ~g.heap[cl].isC /\ S # <<>>
    /\ LET uv == g.heap[cl].uv
           s  == SetUpval(g, uv, Top)
       IN  Operation(luaC_barrier(s, uv, Top), Rest(s))

\* lua_setupvalue takes the closure, not the upvalue, for the object written to.
lua_setupvalue ==
  \E cl \in Accessible :
    /\ Is(cl, "function") /\ S # <<>>
    /\ ShareUpvalues \/ \A o \in Obj \ {cl} : Is(o, "function") => g.heap[o].uv # g.heap[cl].uv
    /\ LET s == IF g.heap[cl].isC THEN [g EXCEPT !.heap[cl].uv = Top] ELSE SetUpval(g, g.heap[cl].uv, Top)
       IN  Operation(luaC_barrier(s, cl, Top), Rest(s))

\* lua_xmove to a suspended thread; no barrier
lua_xmove ==
  \E th \in Accessible \ {main} :
    /\ Is(th, "thread") /\ S # <<>> /\ Len(g.heap[th].stack) < MaxTop
    /\ Operation([g EXCEPT !.heap[th].stack = Append(@, Top)], Popped(1))

Program ==
  \/ lua_createtable \/ lua_newuserdata \/ lua_newthread \/ lua_pushlstring \/ lua_pushcclosure
  \/ NewClosureLocal \/ NewClosureShared \/ luaF_newproto \/ addk
  \/ lua_pop \/ lua_get \/ lua_rawseti \/ lua_rawset \/ lua_setmetatable \/ lua_setfenv
  \/ setupval \/ lua_setupvalue \/ lua_xmove

-----------------------------------------------------------------------------
(* The collector.                                                          *)

\* One of the steps of a luaC_step.  A finalizer finds its argument on the stack.
Step ==
  /\ Running
  /\ LET s == singlestep(g) IN
     g' = IF g.gcstate = "finalize" /\ g.tmudata # <<>> /\ Len(S) < MaxTop
          THEN [s EXCEPT !.heap[main].stack = Append(@, Head(g.tmudata))] ELSE s
  /\ full' = "" /\ begun' = <<>> /\ UNCHANGED ops

\* luaC_fullgc: first end the present cycle, without freeing anything that was
\* not already found dead, then run a whole one.
BeginFull ==
  /\ Running /\ ops > 0
  /\ g' = IF g.gcstate \in {"pause", "propagate"}
          THEN [g EXCEPT !.sweepstrgc = 0, !.sweepgc = Nil, !.gray = <<>>, !.grayagain = <<>>, !.weak = <<>>,
                         !.gcstate = "sweepstring"]
          ELSE g
  /\ full' = "sweep" /\ begun' = [o \in InUse(g) |-> g.heap[o].tt] /\ ops' = ops - 1

\* Mutant: only the present cycle is finished.
FullOnce ==
  /\ UNCHANGED <<begun, ops>>
  /\ \/ full = "sweep" /\ g.gcstate # "pause" /\ g' = singlestep(g) /\ UNCHANGED full
     \/ full = "sweep" /\ g.gcstate = "pause" /\ full' = "done" /\ UNCHANGED g

FullStep ==
  /\ UNCHANGED <<begun, ops>>
  /\ \/ /\ full = "sweep" /\ g.gcstate # "finalize"
        /\ g' = singlestep(g) /\ UNCHANGED full
     \/ /\ full = "sweep" /\ g.gcstate = "finalize"
        /\ g' = markroot(g) /\ full' = "cycle"
     \/ /\ full = "cycle" /\ g.gcstate # "pause"
        /\ g' = singlestep(g) /\ UNCHANGED full
     \/ /\ full = "cycle" /\ g.gcstate = "pause"
        /\ full' = "done" /\ UNCHANGED g

\* Mutant: the finalizers are not called.
lua_closeForgets ==
  /\ Running
  /\ g' = [luaC_separateudata(luaF_close(g, main, 1), TRUE) EXCEPT !.gcstate = "closed"]
  /\ full' = "" /\ begun' = <<>> /\ UNCHANGED ops

\* lua_close: every finalizer that is still due, then luaC_freeall.
lua_close ==
  /\ Running
  /\ LET s1 == luaC_separateudata(luaF_close(g, main, 1), TRUE)
         s2 == FoldLeft(LAMBDA s, i : IF s.tmudata = <<>> THEN s ELSE GCTM(s), s1, [i \in 1..Cardinality(Obj) |-> i])
     IN  g' = [s2 EXCEPT !.gcstate = "closed"]
  /\ full' = "" /\ begun' = <<>> /\ UNCHANGED ops

Init ==
  /\ \E s \in States : g = s[1] /\ ops = s[2]
  /\ full = "" /\ begun = <<>>

Next == Program \/ Step \/ BeginFull \/ FullStep \/ lua_close \/ (g.gcstate = "closed" /\ UNCHANGED vars)

Spec == Init /\ [][Next]_vars
-----------------------------------------------------------------------------
Lists(s) == s.gray \o s.grayagain \o s.weak

TypeOK ==
  /\ g.gcstate \in {"pause", "propagate", "sweepstring", "sweep", "finalize", "closed"}
  /\ \A o \in Obj : g.heap[o] # Free => g.heap[o].marked \in {"white0", "white1", "gray", "black"}
  /\ \A o \in ToSet(g.rootgc) \cup ToSet(g.tmudata) \cup ToSet(g.uvhead) : g.heap[o] # Free
  /\ ~isdead(g, main)

\* Nothing the program can reach has been freed: not through strong references,
\* not through the entries of a weak table, and not through an open upvalue whose
\* thread is gone.
NoDangling ==
  g.gcstate # "closed" =>
    \A o \in Reachable(g) :
      /\ g.heap[o] # Free
      /\ g.heap[o].tt = "table" => \A r \in Entry(g.heap[o]) : g.heap[r] # Free
      /\ g.heap[o].tt = "upval" /\ isopen(g, o) => Is(g.heap[o].th, "thread") /\ Contains(g.uvhead, o)

\* What the barriers keep while marking goes on: a black object refers to no white
\* one, and whatever is gray and still to be traversed is in a list the collector
\* visits.  (Userdata left over from an interrupted cycle are painted again.)
TriColour ==
  g.gcstate = "propagate" =>
    \A o \in Obj \ ToSet(g.tmudata) :
      g.heap[o] # Free =>
        /\ isblack(g, o) => \A r \in Refs(g, o) : ~iswhite(g, r)
        /\ isgray(g, o) /\ g.heap[o].tt \in {"table", "function", "proto", "thread"} => Contains(Lists(g), o)

\* A string is in the table once: lua_rawequal compares strings by address, and
\* the writer finds strings it knows by that.
StringsInterned ==
  g.gcstate # "closed" =>
    \A i, j \in DOMAIN FlattenSeq(g.strt) :
      LET o == FlattenSeq(g.strt) IN
      /\ Is(o[i], "string")
      /\ i # j => g.heap[o[i]].str # g.heap[o[j]].str

\* The finalizer of a userdata is called at most once, also when the userdata is
\* resurrected, gets another metatable or the state is closed.
FinalizedOnce ==
  \A o \in Obj : g.heap[o].tt = "udata" => g.heap[o].calls <= 1

\* luaC_separateudata sets the userdata it finds apart and marks them finalized long
\* before GCTM calls their finalizers, and then never looks at them again: still none
\* is forgotten.  A userdata whose finalizer is yet to be called is not freed, and when
\* the state is closed the finalizer has been called, once.
NoneForgotten ==
  [][\A o \in Obj :
       /\ g.heap[o].tt = "udata"
       /\ (~g.heap[o].finalized \/ Contains(g.tmudata, o)) /\ HasGC(g, o)
       => /\ g'.heap[o].tt = "udata"
          /\ g'.gcstate = "closed" => g'.heap[o].calls = 1]_vars

\* lua_gc(LUA_GCCOLLECT) frees all that was garbage when it was called, and only
\* that: a userdata with a finalizer to call is not garbage yet, nor is what it refers
\* to.  (A string that only an entry of a weak table holds may go with the entry.)
FullCollects ==
  full = "done" =>
    /\ \A o \in Obj : g.heap[o] # Free => o \in DOMAIN begun /\ ~isdead(g, o)
    /\ \A o \in DOMAIN begun : begun[o] # "string" => g.heap[o].tt = begun[o]
==============================================================================
