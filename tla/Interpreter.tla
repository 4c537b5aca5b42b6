----------------------------- MODULE Interpreter -----------------------------
(* The virtual machine of the bundled Lua (lvm.c) with the calls it makes     *)
(* (ldo.c) and the upvalues its closures share (lfunc.c), running what the    *)
(* parser coded, one instruction a step.                                      *)
(* L is the Lua state: its stack with the registers of every active function, *)
(* top, the call infos, the open upvalues, and the objects created so far.    *)
EXTENDS Parser

CONSTANTS StackSize,   \* slots of the stack; luaD_growstack is not modelled
          MAXTAGLOOP,  \* limit for chains of __index and __newindex
          Collation    \* the strings in the order strcoll gives them

VARIABLES source,      \* the program loaded
          main,        \* the prototype of the main function
          L
vars == <<source, main, L>>

Table(i) == <<"table", i>>
Closure(i) == <<"function", i>>
CFunction(n) == <<"cfunction", n>>
ttisfunction(v) == v[1] \in {"function", "cfunction"}
ttype(v) == IF ttisnumber(v) THEN "number" ELSE IF ttisfunction(v) THEN "function" ELSE v[1]

RECURSIVE ProtoAt(_, _)
ProtoAt(p, path) == IF path = <<>> THEN p ELSE ProtoAt(p.p[Head(path)], Tail(path))
ProtoOf(cl) == ProtoAt(main, cl.path)

Set(M, slot, v) == [M EXCEPT !.stack[slot] = v]
Fail(M) == [M EXCEPT !.status = "error"]
Ci(M) == Last(M.ci)
SetPc(M, pc) == [M EXCEPT !.ci[Len(M.ci)].pc = pc]
CodeOf(M) == ProtoOf(M.closures[Ci(M).cl]).code
Goto(M, offset) == SetPc(M, Ci(M).pc + offset)

-----------------------------------------------------------------------------
(* Tables and their tag methods.                                              *)

RawGet(M, t, key) == IF key \in DOMAIN M.tables[t].h THEN M.tables[t].h[key] ELSE Nil
RawSet(M, t, key, v) == [M EXCEPT !.tables[t].h = (key :> v) @@ @]
NewTable(M) == [M EXCEPT !.tables = Append(@, [h |-> <<>>, mt |-> Nil])]
\* luaH_getn, for the tables whose integer keys have no hole.
Border(M, t) == Cardinality({k \in DOMAIN M.tables[t].h : k[1] = "num" /\ M.tables[t].h[k] # Nil})

luaT_gettmbyobj(M, v, event) ==
  IF v[1] # "table" \/ M.tables[v[2]].mt = Nil THEN Nil
  ELSE RawGet(M, M.tables[v[2]].mt[2], String(event))

-----------------------------------------------------------------------------
(* Upvalues: <<"open", slot>> or <<"closed", value>>.                         *)

UpValue(M, u) == IF M.upvals[u][1] = "open" THEN M.stack[M.upvals[u][2]] ELSE M.upvals[u][2]
SetUpValue(M, u, v) ==
  IF M.upvals[u][1] = "open" THEN Set(M, M.upvals[u][2], v) ELSE [M EXCEPT !.upvals[u][2] = v]

luaF_close(M, level) ==
  [M EXCEPT !.upvals = [u \in DOMAIN @ |->
     IF @[u][1] = "open" THEN IF @[u][2] >= level THEN <<"closed", M.stack[@[u][2]]>> ELSE @[u]
     ELSE @[u]]]

\* luaF_findupval: the open upvalue of a slot, or a new one behind the others.
FindUpval(M, slot) ==
  LET found == {u \in DOMAIN M.upvals : M.upvals[u] = <<"open", slot>>}
  IN IF found = {} THEN Len(M.upvals) + 1 ELSE Min(found)
WithUpval(M, slot) ==
  IF FindUpval(M, slot) <= Len(M.upvals) THEN M
  ELSE [M EXCEPT !.upvals = Append(@, <<"open", slot>>)]

-----------------------------------------------------------------------------
(* Calls.  A call info says after which operation of its caller it runs, so   *)
(* that the nested luaV_execute of the code returns into that operation.      *)

Copy(M, from, n, to) ==
  [M EXCEPT !.stack = [s \in DOMAIN @ |-> IF s \in to .. to + n - 1 THEN M.stack[from + s - to] ELSE @[s]]]
Clear(M, from, to) == [M EXCEPT !.stack = [s \in DOMAIN @ |-> IF s \in from .. to THEN Nil ELSE @[s]]]

ArgTable(M, nvar) ==
  LET n == NewTable(M)
      h == [i \in {Number(j) : j \in 1 .. nvar} |-> M.stack[M.top - nvar + i[2] - 1]]
  IN [n EXCEPT !.tables[Len(n.tables)].h = h @@ (String("n") :> Number(nvar))]

\* adjust_varargs: the fixed parameters move above the extra arguments.
adjust_varargs(M, p, actual) ==
  LET missing == IF actual < p.numparams THEN p.numparams - actual ELSE 0
      m == [Clear(M, M.top, M.top + missing - 1) EXCEPT !.top = @ + missing]
      n == actual + missing
      withtab == "NEEDSARG" \in p.vararg
      t == IF withtab THEN ArgTable(m, n - p.numparams) ELSE m
      f == Clear(Copy(t, m.top - n, p.numparams, m.top), m.top - n, m.top - n + p.numparams - 1)
  IN [(IF withtab THEN Set(f, m.top + p.numparams, Table(Len(f.tables))) ELSE f)
        EXCEPT !.top = m.top + p.numparams + (IF withtab THEN 1 ELSE 0)]

\* luaD_precall of a Lua function: its call info, its registers cleared.
CallLua(M, func, nresults, after) ==
  LET cl == M.stack[func][2]
      p == ProtoOf(M.closures[cl])
      v == adjust_varargs(M, p, M.top - func - 1)
      cut == [M EXCEPT !.top = Min({M.top, func + 1 + p.numparams})]
      m == IF p.vararg = {} THEN cut ELSE v
      base == IF p.vararg = {} THEN func + 1
              ELSE M.top + Max({0, p.numparams - (M.top - func - 1)})
      ci == [cl |-> cl, func |-> func, base |-> base, top |-> base + p.maxstack,
             pc |-> 0, nresults |-> nresults, after |-> after]
  IN [Clear(m, m.top, ci.top - 1) EXCEPT !.top = ci.top, !.ci = Append(@, ci)]

\* luaD_poscall: n results from slot first on go to func, as many as wanted.
MoveResults(M, func, wanted, first, n) ==
  LET moved == IF wanted = MULTRET THEN n ELSE Min({n, wanted})
      c == Copy(M, first, moved, func)
  IN IF wanted = MULTRET THEN [c EXCEPT !.top = func + n]
     ELSE [Clear(c, func + moved, func + wanted - 1) EXCEPT !.top = func + wanted]

\* setmetatable of lbaselib.c: its first argument is its result.
setmetatable(M, func) ==
  [M EXCEPT !.tables[M.stack[func + 1][2]].mt = M.stack[func + 2]]

Branch(M, holds) ==
  IF holds THEN Goto(M, CodeOf(M)[Ci(M).pc + 1].b + 1) ELSE Goto(M, 1)

tostring(v) == IF v[1] = "num" THEN String(ToString(v[2])) ELSE v
Concatenable(v) == v[1] \in {"num", "str"}

RECURSIVE luaD_call(_, _, _, _), luaV_concat(_, _, _), Continue(_, _, _)

\* tryfuncTM: the __call tag method goes below its object.
tryfuncTM(M, func) ==
  LET s == Copy(M, func, M.top - func, func + 1)
  IN [Set(s, func, luaT_gettmbyobj(M, M.stack[func], "__call")) EXCEPT !.top = @ + 1]

luaD_call(M, func, nresults, after) ==
  LET f == M.stack[func] IN
  CASE f[1] = "function" -> CallLua(M, func, nresults, after)
    [] f[1] = "cfunction" ->
         Continue(MoveResults(setmetatable(M, func), func, nresults, func + 1, 1), nresults, after)
    [] OTHER -> IF ttisfunction(luaT_gettmbyobj(M, f, "__call"))
                THEN luaD_call(tryfuncTM(M, func), func, nresults, after) ELSE Fail(M)

\* callTMres: the tag method's result goes where after says.
callTMres(M, tm, p1, p2, after) ==
  luaD_call([Set(Set(Set(M, M.top, tm), M.top + 1, p1), M.top + 2, p2) EXCEPT !.top = @ + 3],
            M.top, 1, after)
callTM(M, tm, p1, p2, p3) ==
  luaD_call([Set(Set(Set(Set(M, M.top, tm), M.top + 1, p1), M.top + 2, p2), M.top + 3, p3)
               EXCEPT !.top = @ + 4], M.top, 0, <<"none">>)

\* What the caller does with the results, now that its call info is the last.
Continue(M, wanted, after) ==
  LET down == [M EXCEPT !.top = @ - 1]
      r == M.stack[M.top - 1]
      cb == Ci(M).base + CodeOf(M)[Ci(M).pc].a + 3
      m == [M EXCEPT !.top = Ci(M).top]
  IN CASE after[1] = "op" -> IF wanted = MULTRET THEN M ELSE [M EXCEPT !.top = Ci(M).top]
       [] after[1] = "host" -> [M EXCEPT !.status = "done"]
       [] after[1] = "none" -> M
       [] after[1] = "reg" -> Set(down, after[2], r)
       [] after[1] = "test" -> Branch(down, (isfalse(r) = after[3]) = (after[2] = 1))
       [] after[1] = "tfor" -> IF M.stack[cb] = Nil THEN Branch(m, FALSE)
                               ELSE Branch(Set(m, cb - 1, M.stack[cb]), TRUE)
       [] after[1] = "concat" ->
            luaV_concat(Set(down, Ci(M).base + after[3] - 1, r), after[2] - 1, after[3] - 1)

\* call_binTM: the first operand's tag method, or else the second's.
call_binTM(M, p1, p2, event, after) ==
  LET tm1 == luaT_gettmbyobj(M, p1, event)
      tm == IF tm1 = Nil THEN luaT_gettmbyobj(M, p2, event) ELSE tm1
  IN IF tm = Nil THEN Fail(M) ELSE callTMres(M, tm, p1, p2, after)

\* The operands in registers last - total + 1 .. last become one string.
luaV_concat(M, total, last) ==
  LET top == Ci(M).base + last + 1
      i == CodeOf(M)[Ci(M).pc]
      run == Max({n \in 2 .. total : \A j \in 1 .. n : Concatenable(M.stack[top - j])})
      n == IF M.stack[top - 1] = String("") THEN 2 ELSE run
      joined == FoldLeft(LAMBDA s, j : s \o tostring(M.stack[top - j])[2], "",
                         [j \in 1 .. n |-> n + 1 - j])
  IN CASE total <= 1 -> Set(M, Ci(M).base + i.a, M.stack[Ci(M).base + i.b])
       [] ~Concatenable(M.stack[top - 2]) \/ ~Concatenable(M.stack[top - 1]) ->
            call_binTM(M, M.stack[top - 2], M.stack[top - 1], "__concat", <<"concat", total, last>>)
       [] OTHER -> luaV_concat(Set(M, top - n, String(joined)), total - (n - 1), last - (n - 1))

RECURSIVE gettable(_, _, _, _, _)
gettable(M, t, key, slot, loop) ==
  LET raw == RawGet(M, t[2], key)
      tm == luaT_gettmbyobj(M, t, "__index")
  IN IF loop = MAXTAGLOOP THEN Fail(M)
     ELSE IF t[1] = "table" /\ (raw # Nil \/ tm = Nil) THEN Set(M, slot, raw)
     ELSE IF tm = Nil THEN Fail(M)
     ELSE IF ttisfunction(tm) THEN callTMres(M, tm, t, key, <<"reg", slot>>)
     ELSE gettable(M, tm, key, slot, loop + 1)
luaV_gettable(M, t, key, slot) == gettable(M, t, key, slot, 0)

RECURSIVE settable(_, _, _, _, _)
settable(M, t, key, v, loop) ==
  LET tm == luaT_gettmbyobj(M, t, "__newindex")
  IN IF loop = MAXTAGLOOP THEN Fail(M)
     ELSE IF t[1] = "table" /\ key \in {Nil, NaN} THEN Fail(M)
     ELSE IF t[1] = "table" /\ (RawGet(M, t[2], key) # Nil \/ tm = Nil) THEN RawSet(M, t[2], key, v)
     ELSE IF tm = Nil THEN Fail(M)
     ELSE IF ttisfunction(tm) THEN callTM(M, tm, t, key, v)
     ELSE settable(M, tm, key, v, loop + 1)
luaV_settable(M, t, key, v) == settable(M, t, key, v, 0)

(* Comparisons; want is what the instruction's A asks for.                    *)
l_strcmp(a, b) ==
  LET Rank(s) == CHOOSE i \in DOMAIN Collation : Collation[i] = s IN Rank(a) - Rank(b)

luaV_equalval(M, a, b, want) ==
  LET tm1 == luaT_gettmbyobj(M, a, "__eq")
      tm2 == luaT_gettmbyobj(M, b, "__eq")
  IN IF ttype(a) # ttype(b) THEN Branch(M, want = 0)
     ELSE IF a[1] # "table" \/ a = b THEN Branch(M, (a = b /\ a # NaN) = (want = 1))
     ELSE IF tm1 = Nil \/ tm1 # tm2 THEN Branch(M, want = 0)
     ELSE callTMres(M, tm1, a, b, <<"test", want, FALSE>>)

\* call_orderTM: both operands must have the same tag method.
OrderTM(M, a, b, event) ==
  LET tm == luaT_gettmbyobj(M, a, event)
  IN IF tm # Nil /\ tm = luaT_gettmbyobj(M, b, event) THEN tm ELSE Nil

NumberOrder(op, a, b) ==
  a # NaN /\ b # NaN /\ (IF op = "LT" THEN a[2] < b[2] ELSE a[2] <= b[2])
StringOrder(op, a, b) == l_strcmp(a[2], b[2]) < (IF op = "LT" THEN 0 ELSE 1)

luaV_order(M, op, a, b, want) ==
  LET lt == OrderTM(M, a, b, "__lt")
      le == OrderTM(M, a, b, "__le")
      tl == OrderTM(M, b, a, "__lt")
  IN CASE ttype(a) # ttype(b) -> Fail(M)
       [] ttisnumber(a) /\ ttisnumber(b) -> Branch(M, NumberOrder(op, a, b) = (want = 1))
       [] a[1] = "str" /\ b[1] = "str" -> Branch(M, StringOrder(op, a, b) = (want = 1))
       [] op = "LT" /\ lt # Nil -> callTMres(M, lt, a, b, <<"test", want, FALSE>>)
       [] op = "LE" /\ le # Nil -> callTMres(M, le, a, b, <<"test", want, FALSE>>)
       [] op = "LE" /\ le = Nil /\ tl # Nil -> callTMres(M, tl, b, a, <<"test", want, TRUE>>)
       [] OTHER -> Fail(M)

EventOf == ("ADD" :> "__add") @@ ("SUB" :> "__sub") @@ ("MUL" :> "__mul") @@ ("MOD" :> "__mod")
           @@ ("UNM" :> "__unm")

\* luaO_str2d is left out: a string operand is not converted to a number.
Arith(M, slot, a, b, op) ==
  IF ttisnumber(a) /\ ttisnumber(b) THEN Set(M, slot, Compute(op, a, b))
  ELSE call_binTM(M, a, b, EventOf[op], <<"reg", slot>>)

-----------------------------------------------------------------------------
(* The instructions.  M has the program counter behind instruction i.         *)

M0 == Goto(L, 1)
I == CodeOf(L)[Ci(L).pc + 1]
base == Ci(L).base
RA == base + I.a
R(x) == L.stack[base + x]
K(x) == ProtoOf(L.closures[Ci(L).cl]).k[x + 1]
RKval(x) == IF ISK(x) THEN K(INDEXK(x)) ELSE R(x)
Upval(x) == L.closures[Ci(L).cl].ups[x + 1]
Globals == Table(1)

At(ops) == L.status = "run" /\ I.op \in ops
Do(M) == L' = M /\ UNCHANGED <<source, main>>

MOVE == At({"MOVE"}) /\ Do(Set(M0, RA, R(I.b)))
LOADK == At({"LOADK"}) /\ Do(Set(M0, RA, K(I.b)))
LOADBOOL == At({"LOADBOOL"}) /\ Do(Goto(Set(M0, RA, Boolean(I.b = 1)), I.c))
LOADNIL == At({"LOADNIL"}) /\ Do(Clear(M0, RA, base + I.b))
GETUPVAL == At({"GETUPVAL"}) /\ Do(Set(M0, RA, UpValue(L, Upval(I.b))))
SETUPVAL == At({"SETUPVAL"}) /\ Do(SetUpValue(M0, Upval(I.b), R(I.a)))
GETGLOBAL == At({"GETGLOBAL"}) /\ Do(luaV_gettable(M0, Globals, K(I.b), RA))
SETGLOBAL == At({"SETGLOBAL"}) /\ Do(luaV_settable(M0, Globals, K(I.b), R(I.a)))
GETTABLE == At({"GETTABLE"}) /\ Do(luaV_gettable(M0, R(I.b), RKval(I.c), RA))
SETTABLE == At({"SETTABLE"}) /\ Do(luaV_settable(M0, R(I.a), RKval(I.b), RKval(I.c)))
NEWTABLE == At({"NEWTABLE"}) /\ Do(LET M == NewTable(M0) IN Set(M, RA, Table(Len(M.tables))))
SELF == At({"SELF"}) /\ Do(luaV_gettable(Set(M0, RA + 1, R(I.b)), R(I.b), RKval(I.c), RA))
ARITH == At({"ADD", "SUB", "MUL", "MOD"}) /\ Do(Arith(M0, RA, RKval(I.b), RKval(I.c), I.op))
UNM == At({"UNM"}) /\ Do(Arith(M0, RA, R(I.b), R(I.b), "UNM"))
NOT == At({"NOT"}) /\ Do(Set(M0, RA, Boolean(isfalse(R(I.b)))))

LEN ==
  /\ At({"LEN"})
  /\ Do(CASE R(I.b)[1] = "table" -> Set(M0, RA, Number(Border(L, R(I.b)[2])))
          [] R(I.b)[1] = "str" -> Set(M0, RA, Number(Len(R(I.b)[2])))
          [] OTHER -> call_binTM(M0, R(I.b), Nil, "__len", <<"reg", RA>>))

CONCAT == At({"CONCAT"}) /\ Do(luaV_concat(M0, I.c - I.b + 1, I.c))
JMP == At({"JMP"}) /\ Do(Goto(M0, I.b))
EQ == At({"EQ"}) /\ Do(luaV_equalval(M0, RKval(I.b), RKval(I.c), I.a))
ORDER == At({"LT", "LE"}) /\ Do(luaV_order(M0, I.op, RKval(I.b), RKval(I.c), I.a))
TEST == At({"TEST"}) /\ Do(Branch(M0, isfalse(R(I.a)) # (I.c = 1)))
TESTSET ==
  /\ At({"TESTSET"})
  /\ IF isfalse(R(I.b)) # (I.c = 1) THEN Do(Branch(Set(M0, RA, R(I.b)), TRUE))
     ELSE Do(Branch(M0, FALSE))

Opened(M) == IF I.b = 0 THEN M ELSE [M EXCEPT !.top = RA + I.b]

CALL == At({"CALL"}) /\ Do(luaD_call(Opened(M0), RA, I.c - 1, <<"op">>))

\* The new frame is moved down over the frame of the caller, which it replaces.
ReplaceFrame(M) ==
  LET ci == M.ci[Len(M.ci) - 1]
      new == Ci(M)
      n == M.top - new.func
      frame == [ci EXCEPT !.cl = new.cl, !.pc = 0, !.base = ci.func + (new.base - new.func),
                          !.top = ci.func + n]
  IN [Copy(luaF_close(M, ci.base), new.func, n, ci.func)
        EXCEPT !.top = ci.func + n, !.ci = Append(SubSeq(@, 1, Len(@) - 2), frame)]

TAILCALL ==
  /\ At({"TAILCALL"})
  /\ LET M == luaD_call(Opened(M0), RA, MULTRET, <<"op">>)
     IN Do(IF Len(M.ci) > Len(L.ci) THEN ReplaceFrame(M) ELSE M)

\* Mutant: a function returns without closing its upvalues.
RETURNOpen ==
  /\ At({"RETURN"})
  /\ LET top == IF I.b = 0 THEN L.top ELSE RA + I.b - 1
         M == [L EXCEPT !.ci = Front(@)]
         ci == Ci(L)
     IN Do(Continue(MoveResults(M, ci.func, ci.nresults, RA, top - RA), ci.nresults, ci.after))

RETURN ==
  /\ At({"RETURN"})
  /\ LET top == IF I.b = 0 THEN L.top ELSE RA + I.b - 1
         M == [luaF_close(L, base) EXCEPT !.ci = Front(@)]
         ci == Ci(L)
     IN Do(Continue(MoveResults(M, ci.func, ci.nresults, RA, top - RA), ci.nresults, ci.after))

FORPREP ==
  /\ At({"FORPREP"})
  /\ Do(IF \A j \in 0 .. 2 : ttisnumber(R(I.a + j))
        THEN Goto(Set(M0, RA, Compute("SUB", R(I.a), R(I.a + 2))), I.b) ELSE Fail(M0))

FORLOOP ==
  LET step == R(I.a + 2)
      idx == Compute("ADD", R(I.a), step)
      goes == IF NumberOrder("LT", Number(0), step) THEN NumberOrder("LE", idx, R(I.a + 1))
              ELSE NumberOrder("LE", R(I.a + 1), idx)
  IN At({"FORLOOP"}) /\ Do(IF goes THEN Goto(Set(Set(M0, RA, idx), RA + 3, idx), I.b) ELSE M0)

TFORLOOP ==
  /\ At({"TFORLOOP"})
  /\ Do(luaD_call([Copy(M0, RA, 3, RA + 3) EXCEPT !.top = RA + 6], RA + 3, I.c, <<"tfor">>))

SETLIST ==
  LET n == IF I.b = 0 THEN L.top - RA - 1 ELSE I.b
      items == [k \in {Number((I.c - 1) * LFIELDS_PER_FLUSH + j) : j \in 1 .. n} |->
                  L.stack[RA + k[2] - (I.c - 1) * LFIELDS_PER_FLUSH]]
      M == [M0 EXCEPT !.tables[R(I.a)[2]].h = items @@ @]
  IN At({"SETLIST"}) /\ Do(IF I.b = 0 THEN [M EXCEPT !.top = Ci(L).top] ELSE M)

CLOSE == At({"CLOSE"}) /\ Do(luaF_close(M0, RA))

CLOSURE ==
  LET cl == L.closures[Ci(L).cl]
      path == Append(cl.path, I.b + 1)
      nups == ProtoAt(main, path).nups
      caps == [j \in 1 .. nups |-> CodeOf(L)[Ci(L).pc + 1 + j]]
      M == FoldLeft(LAMBDA m, c : IF c.op = "MOVE" THEN WithUpval(m, base + c.b) ELSE m, M0, caps)
      ups == [j \in 1 .. nups |-> IF caps[j].op = "MOVE" THEN FindUpval(M, base + caps[j].b)
                                  ELSE Upval(caps[j].b)]
  IN /\ At({"CLOSURE"})
     /\ Do(Set(Goto([M EXCEPT !.closures = Append(@, [path |-> path, ups |-> ups])], nups),
               RA, Closure(Len(M.closures) + 1)))

VARARG ==
  LET p == ProtoOf(L.closures[Ci(L).cl])
      n == base - Ci(L).func - p.numparams - 1
      b == IF I.b = 0 THEN n ELSE I.b - 1
      M == Clear(Copy(M0, base - n, Min({b, n}), RA), RA + n, RA + b - 1)
  IN At({"VARARG"}) /\ Do(IF I.b = 0 THEN [M EXCEPT !.top = RA + n] ELSE M)

-----------------------------------------------------------------------------
Library == <<[h |-> (String("setmetatable") :> CFunction("setmetatable")), mt |-> Nil]>>

\* luaL_newstate and lua_call of the main function of a chunk.
Started(p) ==
  [stack |-> [s \in 0 .. StackSize - 1 |-> IF s = 1 THEN Closure(1) ELSE Nil],
   top |-> 1 + 1 + p.maxstack, upvals |-> <<>>, tables |-> Library, status |-> "run",
   closures |-> <<[path |-> <<>>, ups |-> <<>>]>>,
   ci |-> <<[cl |-> 1, func |-> 1, base |-> 2, top |-> 2 + p.maxstack, pc |-> 0,
             nresults |-> MULTRET, after |-> <<"host">>]>>]

Execute ==
  \/ MOVE \/ LOADK \/ LOADBOOL \/ LOADNIL \/ GETUPVAL \/ SETUPVAL \/ GETGLOBAL \/ SETGLOBAL
  \/ GETTABLE \/ SETTABLE \/ NEWTABLE \/ SELF \/ ARITH \/ UNM \/ NOT \/ LEN \/ CONCAT \/ JMP
  \/ EQ \/ ORDER \/ TEST \/ TESTSET \/ CALL \/ TAILCALL \/ RETURN \/ FORPREP \/ FORLOOP
  \/ TFORLOOP \/ SETLIST \/ CLOSE \/ CLOSURE \/ VARARG
=============================================================================
