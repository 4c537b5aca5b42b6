---------------------------- MODULE CodeGenerator ----------------------------
(* The code generator of the bundled Lua (lcode.c, lopcodes.c): how the       *)
(* compiler keeps an expression open in a descriptor, chains the jumps that   *)
(* leave it true or false through the instructions themselves, and closes it  *)
(* into a register.                                                           *)
(*                                                                            *)
(* A function state g is a record; g.e is the descriptor the C functions take *)
(* by pointer, so every operator maps a function state to the next one.       *)
(* Program counters count from 0 as in the code: instruction pc is            *)
(* g.code[pc + 1].  The operand Bx or sBx of an instruction is its field b.   *)
EXTENDS Integers, Sequences, FiniteSets, FiniteSetsExt, SequencesExt

CONSTANTS MAXINDEXRK,         \* the last constant an RK operand can name
          MAXSTACK,           \* registers a function may use
          LFIELDS_PER_FLUSH   \* list items stored by one SETLIST

BITRK == 256
NO_JUMP == -1
NO_REG == 255

ASSUME LimitsAssumption ==
  /\ MAXINDEXRK \in 0 .. BITRK - 1
  /\ MAXSTACK \in 3 .. NO_REG
  /\ LFIELDS_PER_FLUSH \in Nat \ {0}

Nil == <<"nil">>
Boolean(b) == <<"bool", b>>
Number(n) == <<"num", n>>
NaN == <<"nan">>
String(s) == <<"str", s>>
ttisnumber(v) == v[1] \in {"num", "nan"}
isfalse(v) == v = Nil \/ v = Boolean(FALSE)

TestOps == {"EQ", "LT", "LE", "TEST", "TESTSET", "TFORLOOP"}
ISK(x) == x >= BITRK
INDEXK(x) == x - BITRK
RKASK(x) == x + BITRK

\* luai_numadd and its like: a remainder by zero is not a number.
Compute(op, a, b) ==
  IF a = NaN \/ b = NaN THEN NaN
  ELSE CASE op = "ADD" -> Number(a[2] + b[2])
         [] op = "SUB" -> Number(a[2] - b[2])
         [] op = "MUL" -> Number(a[2] * b[2])
         [] op = "MOD" -> IF b[2] = 0 THEN NaN
                          ELSE IF b[2] > 0 THEN Number(a[2] % b[2])
                          ELSE Number(-((-a[2]) % (-b[2])))
         [] op = "UNM" -> Number(-a[2])

-----------------------------------------------------------------------------
(* Instructions and the lists of pending jumps.                               *)

init_exp(k, info) == [k |-> k, info |-> info, aux |-> 0, t |-> NO_JUMP, f |-> NO_JUMP]
hasjumps(e) == e.t # e.f
isnumeral(e) == e.k = "VKNUM" /\ e.t = NO_JUMP /\ e.f = NO_JUMP
hasmultret(e) == e.k \in {"VCALL", "VVARARG"}

Pc(g) == Len(g.code)
LastPc(g) == Len(g.code) - 1
getcode(g) == g.code[g.e.info + 1]

\* luaX_lexerror: nothing more is read, and what was coded is thrown away.
Throw(g) == [g EXCEPT !.err = TRUE, !.at = Len(g.toks), !.e = init_exp("VNIL", 0)]

getjump(g, pc) ==
  LET offset == g.code[pc + 1].b IN
  IF offset = NO_JUMP THEN NO_JUMP ELSE pc + 1 + offset

RECURSIVE Jumps(_, _)
Jumps(g, list) ==
  IF list = NO_JUMP THEN <<>> ELSE <<list>> \o Jumps(g, getjump(g, list))

getjumpcontrol(g, pc) ==
  IF pc >= 1 /\ g.code[pc].op \in TestOps THEN pc - 1 ELSE pc

Control(g, pc) == g.code[getjumpcontrol(g, pc) + 1]

fixjump(g, pc, dest) == [g EXCEPT !.code[pc + 1].b = dest - (pc + 1)]

need_value(g, list) ==
  \E i \in DOMAIN Jumps(g, list) : Control(g, Jumps(g, list)[i]).op # "TESTSET"

\* The TESTSET that guards a jump stores into reg, or becomes a plain TEST.
Retarget(i, reg) ==
  IF reg # NO_REG /\ reg # i.b
  THEN [i EXCEPT !.a = reg]
  ELSE [op |-> "TEST", a |-> i.b, b |-> 0, c |-> i.c]

patchtestreg(g, node, reg) ==
  IF Control(g, node).op # "TESTSET" THEN g
  ELSE [g EXCEPT !.code[getjumpcontrol(g, node) + 1] = Retarget(@, reg)]

removevalues(g, list) ==
  FoldLeft(LAMBDA h, node : patchtestreg(h, node, NO_REG), g, Jumps(g, list))

patchlistaux(g, list, vtarget, reg, dtarget) ==
  FoldLeft(LAMBDA h, node :
             fixjump(patchtestreg(h, node, reg), node,
                     IF Control(h, node).op = "TESTSET" THEN vtarget ELSE dtarget),
           g, Jumps(g, list))

luaK_getlabel(g) == [g EXCEPT !.lasttarget = Pc(g)]

\* luaK_concat: the list l2 is chained behind l1, whose head the caller keeps.
Joined(l1, l2) == IF l1 = NO_JUMP THEN l2 ELSE l1
luaK_concat(g, l1, l2) ==
  IF l1 = NO_JUMP \/ l2 = NO_JUMP THEN g ELSE fixjump(g, Last(Jumps(g, l1)), l2)

luaK_patchtohere(g, list) ==
  [luaK_concat(luaK_getlabel(g), g.jpc, list) EXCEPT !.jpc = Joined(g.jpc, list)]

luaK_patchlist(g, list, target) ==
  IF target = Pc(g) THEN luaK_patchtohere(g, list)
  ELSE patchlistaux(g, list, target, NO_REG, target)

dischargejpc(g) == [patchlistaux(g, g.jpc, Pc(g), NO_REG, Pc(g)) EXCEPT !.jpc = NO_JUMP]

luaK_code(g, op, a, b, c) ==
  [dischargejpc(g) EXCEPT !.code = Append(@, [op |-> op, a |-> a, b |-> b, c |-> c])]

\* The new jump is at LastPc; the jumps to here are kept on hold behind it.
luaK_jump(g) ==
  LET h == luaK_code([g EXCEPT !.jpc = NO_JUMP], "JMP", 0, NO_JUMP, 0) IN
  luaK_concat(h, LastPc(h), g.jpc)

condjump(g, op, a, b, c) == luaK_jump(luaK_code(g, op, a, b, c))
luaK_ret(g, first, nret) == luaK_code(g, "RETURN", first, nret + 1, 0)

luaK_nil(g, from, n) ==
  LET connects == /\ Pc(g) > g.lasttarget /\ Pc(g) > 0
                  /\ g.code[Pc(g)].op = "LOADNIL"
                  /\ g.code[Pc(g)].a <= from /\ from <= g.code[Pc(g)].b + 1
  IN IF Pc(g) > g.lasttarget /\ Pc(g) = 0 /\ from >= g.nactvar THEN g
     ELSE IF connects THEN [g EXCEPT !.code[Pc(g)].b = Max({@, from + n - 1})]
     ELSE luaK_code(g, "LOADNIL", from, from + n - 1, 0)

-----------------------------------------------------------------------------
(* Registers and constants.                                                   *)

\* Mutant: the size recorded is one register short.
luaK_checkstackShort(g, n) ==
  IF g.freereg + n - 1 <= g.maxstack THEN g
  ELSE IF g.freereg + n >= MAXSTACK THEN Throw(g)
  ELSE [g EXCEPT !.maxstack = g.freereg + n - 1]

luaK_checkstack(g, n) ==
  IF g.freereg + n <= g.maxstack THEN g
  ELSE IF g.freereg + n >= MAXSTACK THEN Throw(g)
  ELSE [g EXCEPT !.maxstack = g.freereg + n]

luaK_reserveregs(g, n) == [luaK_checkstack(g, n) EXCEPT !.freereg = @ + n]

freereg(g, reg) ==
  IF ~ISK(reg) /\ reg >= g.nactvar THEN [g EXCEPT !.freereg = @ - 1] ELSE g

freeexp(g, e) == IF e.k = "VNONRELOC" THEN freereg(g, e.info) ELSE g

\* addk: the index of v among the constants, and the state that has it there.
KIndex(g, v) ==
  IF \E i \in DOMAIN g.k : g.k[i] = v
  THEN (CHOOSE i \in DOMAIN g.k : g.k[i] = v) - 1 ELSE Len(g.k)
addk(g, v) == IF \E i \in DOMAIN g.k : g.k[i] = v THEN g ELSE [g EXCEPT !.k = Append(@, v)]

-----------------------------------------------------------------------------
(* Closing an open expression.                                                *)

luaK_setreturns(g, nresults) ==
  CASE g.e.k = "VCALL" -> [g EXCEPT !.code[g.e.info + 1].c = nresults + 1]
    [] g.e.k = "VVARARG" ->
         luaK_reserveregs([g EXCEPT !.code[g.e.info + 1].b = nresults + 1,
                                    !.code[g.e.info + 1].a = g.freereg], 1)
    [] OTHER -> g

luaK_setoneret(g) ==
  CASE g.e.k = "VCALL" -> [g EXCEPT !.e.k = "VNONRELOC", !.e.info = getcode(g).a]
    [] g.e.k = "VVARARG" -> [g EXCEPT !.code[g.e.info + 1].b = 2, !.e.k = "VRELOCABLE"]
    [] OTHER -> g

\* The value is what the instruction coded now leaves in a register to choose.
Relocable(g) == [g EXCEPT !.e.k = "VRELOCABLE", !.e.info = LastPc(g)]

luaK_dischargevars(g) ==
  CASE g.e.k = "VLOCAL" -> [g EXCEPT !.e.k = "VNONRELOC"]
    [] g.e.k = "VUPVAL" -> Relocable(luaK_code(g, "GETUPVAL", 0, g.e.info, 0))
    [] g.e.k = "VGLOBAL" -> Relocable(luaK_code(g, "GETGLOBAL", 0, g.e.info, 0))
    [] g.e.k = "VINDEXED" ->
         Relocable(luaK_code(freereg(freereg(g, g.e.aux), g.e.info),
                             "GETTABLE", 0, g.e.info, g.e.aux))
    [] OTHER -> luaK_setoneret(g)

code_label(g, a, b, jump) == luaK_code(luaK_getlabel(g), "LOADBOOL", a, b, jump)

discharge2reg(g, reg) ==
  LET d == luaK_dischargevars(g)
      k == IF d.e.k = "VK" THEN d.e.info ELSE KIndex(d, Number(d.e.info))
      h == CASE d.e.k = "VNIL" -> luaK_nil(d, reg, 1)
             [] d.e.k = "VTRUE" -> luaK_code(d, "LOADBOOL", reg, 1, 0)
             [] d.e.k = "VFALSE" -> luaK_code(d, "LOADBOOL", reg, 0, 0)
             [] d.e.k = "VK" -> luaK_code(d, "LOADK", reg, k, 0)
             [] d.e.k = "VKNUM" -> luaK_code(addk(d, Number(d.e.info)), "LOADK", reg, k, 0)
             [] d.e.k = "VRELOCABLE" -> [d EXCEPT !.code[d.e.info + 1].a = reg]
             [] d.e.k = "VNONRELOC" /\ reg # d.e.info ->
                  luaK_code(d, "MOVE", reg, d.e.info, 0)
             [] OTHER -> d
  IN IF d.e.k \in {"VVOID", "VJMP"} THEN d
     ELSE [h EXCEPT !.e.info = reg, !.e.k = "VNONRELOC"]

discharge2anyreg(g) ==
  IF g.e.k = "VNONRELOC" THEN g
  ELSE LET h == luaK_reserveregs(g, 1) IN discharge2reg(h, h.freereg - 1)

\* One more jump for the list of jumps taken when the expression is true (false).
AddTrue(g, list) == [luaK_concat(g, g.e.t, list) EXCEPT !.e.t = Joined(@, list)]
AddFalse(g, list) == [luaK_concat(g, g.e.f, list) EXCEPT !.e.f = Joined(@, list)]

exp2reg(g, reg) ==
  LET d == discharge2reg(g, reg)
      h == IF d.e.k = "VJMP" THEN AddTrue(d, d.e.info) ELSE d
      loads == need_value(h, h.e.t) \/ need_value(h, h.e.f)
      jumped == IF h.e.k = "VJMP" THEN h ELSE luaK_jump(h)
      fj == IF h.e.k = "VJMP" THEN NO_JUMP ELSE LastPc(jumped)
      p_f == IF loads THEN Pc(jumped) ELSE NO_JUMP
      p_t == IF loads THEN Pc(jumped) + 1 ELSE NO_JUMP
      loaded == IF ~loads THEN h
                ELSE luaK_patchtohere(code_label(code_label(jumped, reg, 0, 1), reg, 1, 0), fj)
      final == luaK_getlabel(loaded)
      patched == patchlistaux(patchlistaux(final, final.e.f, Pc(final), reg, p_f),
                              final.e.t, Pc(final), reg, p_t)
  IN [(IF hasjumps(h.e) THEN patched ELSE h) EXCEPT !.e = init_exp("VNONRELOC", reg)]

luaK_exp2nextreg(g) ==
  LET d == luaK_dischargevars(g)
      h == luaK_reserveregs(freeexp(d, d.e), 1)
  IN exp2reg(h, h.freereg - 1)

luaK_exp2anyreg(g) ==
  LET d == luaK_dischargevars(g) IN
  IF d.e.k = "VNONRELOC" /\ ~hasjumps(d.e) THEN d
  ELSE IF d.e.k = "VNONRELOC" /\ d.e.info >= d.nactvar THEN exp2reg(d, d.e.info)
  ELSE luaK_exp2nextreg(d)

luaK_exp2val(g) == IF hasjumps(g.e) THEN luaK_exp2anyreg(g) ELSE luaK_dischargevars(g)

\* The value a constant expression has, and the operand a closed one is.
ConstantOf(e) ==
  CASE e.k = "VNIL" -> Nil
    [] e.k = "VTRUE" -> Boolean(TRUE)
    [] e.k = "VFALSE" -> Boolean(FALSE)
    [] e.k = "VKNUM" -> Number(e.info)
RK(e) == IF e.k = "VK" THEN RKASK(e.info) ELSE e.info

luaK_exp2RK(g) ==
  LET d == luaK_exp2val(g) IN
  IF d.e.k \in {"VKNUM", "VTRUE", "VFALSE", "VNIL"} /\ Len(d.k) <= MAXINDEXRK
  THEN [addk(d, ConstantOf(d.e)) EXCEPT !.e.k = "VK", !.e.info = KIndex(d, ConstantOf(d.e))]
  ELSE IF d.e.k = "VK" /\ d.e.info <= MAXINDEXRK THEN d
  ELSE luaK_exp2anyreg(d)

luaK_storevar(g, var) ==
  LET any == luaK_exp2anyreg(g)
      rk == luaK_exp2RK(g)
      h == CASE var.k = "VUPVAL" -> luaK_code(any, "SETUPVAL", any.e.info, var.info, 0)
             [] var.k = "VGLOBAL" -> luaK_code(any, "SETGLOBAL", any.e.info, var.info, 0)
             [] OTHER -> luaK_code(rk, "SETTABLE", var.info, var.aux, RK(rk.e))
  IN IF var.k = "VLOCAL" THEN exp2reg(freeexp(g, g.e), var.info) ELSE freeexp(h, h.e)

\* luaK_self, the name of the method being the constant key.
luaK_self(g, key) ==
  LET d == luaK_exp2anyreg(g)
      h == luaK_reserveregs(freeexp(d, d.e), 2)
      func == h.freereg - 2
      rk == luaK_exp2RK([h EXCEPT !.e = key])
      s == luaK_code(rk, "SELF", func, d.e.info, RK(rk.e))
  IN [freeexp(s, s.e) EXCEPT !.e = [d.e EXCEPT !.info = func, !.k = "VNONRELOC"]]

\* g.e becomes the element of the table t whose key is in g.e.
luaK_indexed(g, t) ==
  LET h == luaK_exp2RK(g) IN [h EXCEPT !.e = [t EXCEPT !.aux = RK(h.e), !.k = "VINDEXED"]]

-----------------------------------------------------------------------------
(* Conditions.                                                                *)

invertjump(g) == [g EXCEPT !.code[getjumpcontrol(g, g.e.info) + 1].a = 1 - @]

\* The jump it codes, taken when the value is (not) false, is at LastPc.
jumponcond(g, cond) ==
  IF g.e.k = "VRELOCABLE" /\ getcode(g).op = "NOT"
  THEN condjump([g EXCEPT !.code = Front(@)], "TEST", getcode(g).b, 0, 1 - cond)
  ELSE LET d == discharge2anyreg(g)
       IN condjump(freeexp(d, d.e), "TESTSET", NO_REG, d.e.info, cond)

luaK_goiftrue(g) ==
  LET d == luaK_dischargevars(g)
      h == CASE d.e.k \in {"VK", "VKNUM", "VTRUE"} -> d
             [] d.e.k = "VJMP" -> LET i == invertjump(d) IN AddFalse(i, i.e.info)
             [] OTHER -> LET j == jumponcond(d, 0) IN AddFalse(j, LastPc(j))
  IN [luaK_patchtohere(h, h.e.t) EXCEPT !.e.t = NO_JUMP]

luaK_goiffalse(g) ==
  LET d == luaK_dischargevars(g)
      h == CASE d.e.k \in {"VNIL", "VFALSE"} -> d
             [] d.e.k = "VJMP" -> AddTrue(d, d.e.info)
             [] OTHER -> LET j == jumponcond(d, 1) IN AddTrue(j, LastPc(j))
  IN [luaK_patchtohere(h, h.e.f) EXCEPT !.e.f = NO_JUMP]

codenot(g) ==
  LET d == luaK_dischargevars(g)
      r == discharge2anyreg(d)
      h == CASE d.e.k \in {"VNIL", "VFALSE"} -> [d EXCEPT !.e.k = "VTRUE"]
             [] d.e.k \in {"VK", "VKNUM", "VTRUE"} -> [d EXCEPT !.e.k = "VFALSE"]
             [] d.e.k = "VJMP" -> invertjump(d)
             [] OTHER -> Relocable(luaK_code(freeexp(r, r.e), "NOT", 0, r.e.info, 0))
      x == [h EXCEPT !.e.t = h.e.f, !.e.f = h.e.t]
  IN removevalues(removevalues(x, x.e.f), x.e.t)

-----------------------------------------------------------------------------
(* Operators: e1 is the left operand, g.e the right one, then the result.     *)

folds(op, e1, e2) ==
  /\ isnumeral(e1) /\ isnumeral(e2)
  /\ op \in {"ADD", "SUB", "MUL", "MOD", "UNM"}
  /\ op = "MOD" => e2.info # 0

codearith(g, op, e1) ==
  LET r == IF op \in {"UNM", "LEN"} THEN g ELSE luaK_exp2RK(g)
      o2 == IF op \in {"UNM", "LEN"} THEN 0 ELSE RK(r.e)
      l == luaK_exp2RK([r EXCEPT !.e = e1])
      o1 == RK(l.e)
      freed == IF o1 > o2 THEN freeexp(freeexp(l, l.e), r.e) ELSE freeexp(freeexp(l, r.e), l.e)
  IN IF folds(op, e1, g.e)
     THEN [g EXCEPT !.e = [e1 EXCEPT !.info = Compute(op, Number(e1.info), Number(g.e.info))[2]]]
     ELSE Relocable(luaK_code(freed, op, 0, o1, o2))

codecomp(g, op, cond, e1) ==
  LET l == luaK_exp2RK([g EXCEPT !.e = e1])
      r == luaK_exp2RK([l EXCEPT !.e = g.e])
      h == [freeexp(freeexp(r, r.e), l.e) EXCEPT !.e = l.e]
      j == IF cond = 0 /\ op # "EQ"
           THEN condjump(h, op, 1, RK(r.e), RK(l.e))
           ELSE condjump(h, op, cond, RK(l.e), RK(r.e))
  IN [j EXCEPT !.e.info = LastPc(j), !.e.k = "VJMP"]

luaK_prefix(g, op) ==
  LET zero == init_exp("VKNUM", 0)
      any == luaK_exp2anyreg(g)
      Unary(h, o) == codearith([h EXCEPT !.e = zero], o, h.e)
  IN CASE op = "-" -> Unary(IF isnumeral(g.e) THEN g ELSE any, "UNM")
       [] op = "not" -> codenot(g)
       [] op = "#" -> Unary(any, "LEN")

ArithOps == ("+" :> "ADD") @@ ("-" :> "SUB") @@ ("*" :> "MUL") @@ ("%" :> "MOD")

luaK_infix(g, op) ==
  CASE op = "and" -> luaK_goiftrue(g)
    [] op = "or" -> luaK_goiffalse(g)
    [] op = ".." -> luaK_exp2nextreg(g)
    [] op \in DOMAIN ArithOps -> IF isnumeral(g.e) THEN g ELSE luaK_exp2RK(g)
    [] OTHER -> luaK_exp2RK(g)

\* A concatenation on the right takes the left operand into its own range.
poscat(g, e1) ==
  LET v == luaK_exp2val(g) IN
  IF v.e.k = "VRELOCABLE" /\ getcode(v).op = "CONCAT"
  THEN [freeexp(v, e1) EXCEPT !.code[v.e.info + 1].b = e1.info,
                              !.e = [e1 EXCEPT !.k = "VRELOCABLE", !.info = v.e.info]]
  ELSE codearith(luaK_exp2nextreg(v), "CONCAT", e1)

luaK_posfix(g, op, e1) ==
  CASE op = "and" -> AddFalse(luaK_dischargevars(g), e1.f)
    [] op = "or" -> AddTrue(luaK_dischargevars(g), e1.t)
    [] op = ".." -> poscat(g, e1)
    [] op \in DOMAIN ArithOps -> codearith(g, ArithOps[op], e1)
    [] op = "==" -> codecomp(g, "EQ", 1, e1)
    [] op = "~=" -> codecomp(g, "EQ", 0, e1)
    [] op = "<" -> codecomp(g, "LT", 1, e1)
    [] op = "<=" -> codecomp(g, "LE", 1, e1)
    [] op = ">" -> codecomp(g, "LT", 0, e1)
    [] op = ">=" -> codecomp(g, "LE", 0, e1)

luaK_setlist(g, base, nelems, tostore) ==
  [luaK_code(g, "SETLIST", base, IF tostore = -1 THEN 0 ELSE tostore,
             (nelems - 1) \div LFIELDS_PER_FLUSH + 1) EXCEPT !.freereg = base + 1]
=============================================================================
