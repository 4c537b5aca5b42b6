------------------------------- MODULE Parser -------------------------------
(* The parser of the bundled Lua (lparser.c): recursive descent over the      *)
(* tokens of a chunk, coding each construct as it is read.  A token is a      *)
(* tuple, <<"end">> or <<"NAME", "x">>; the last one is <<"EOS">>.            *)
(* The function state g holds the position in the tokens, the syntax level    *)
(* and the error flag as well, and in g.prev the enclosing function's state.  *)
EXTENDS CodeGenerator, TLC

CONSTANTS MAXVARS,      \* LUAI_MAXVARS: local variables of a function
          MAXUPVALUES,  \* LUAI_MAXUPVALUES: upvalues of a function
          MAXCCALLS     \* LUAI_MAXCCALLS: nested syntactic levels

ASSUME SyntaxAssumption == MAXVARS \in Nat /\ MAXUPVALUES \in Nat /\ MAXCCALLS \in Nat

MULTRET == -1

Tk(g) == g.toks[g.at][1]
Seminfo(g) == g.toks[g.at][2]
Lookahead(g) == IF g.at = Len(g.toks) THEN "EOS" ELSE g.toks[g.at + 1][1]
luaX_next(g) == IF g.at = Len(g.toks) THEN g ELSE [g EXCEPT !.at = @ + 1]
testnext(g, c) == IF Tk(g) = c THEN luaX_next(g) ELSE g
checknext(g, c) == IF Tk(g) = c THEN luaX_next(g) ELSE Throw(g)
str_checkname(g) == IF Tk(g) = "NAME" THEN Seminfo(g) ELSE "?"

codestring(g, s) ==
  [addk(g, String(s)) EXCEPT !.e = init_exp("VK", KIndex(g, String(s)))]
checkname(g) == codestring(checknext(g, "NAME"), str_checkname(g))

-----------------------------------------------------------------------------
(* Variables.                                                                 *)

new_localvar(g, name, n) ==
  IF g.nactvar + n + 1 > MAXVARS THEN Throw(g)
  ELSE [g EXCEPT !.actvar = Append(SubSeq(@, 1, g.nactvar + n), name)]

adjustlocalvars(g, nvars) == [g EXCEPT !.nactvar = Min({@ + nvars, Len(g.actvar)})]
removevars(g, tolevel) == [g EXCEPT !.nactvar = tolevel]

\* The register of the innermost active variable called n, or -1.
searchvar(g, n) == Max({-1} \cup {i - 1 : i \in {j \in 1 .. g.nactvar : g.actvar[j] = n}})

markupval(g, level) ==
  LET inside == {i \in DOMAIN g.bl : g.bl[i].nactvar <= level}
  IN IF inside = {} THEN g ELSE [g EXCEPT !.bl[Min(inside)].upval = TRUE]

indexupvalue(g, v) ==
  LET known == {i \in DOMAIN g.upvalues : g.upvalues[i] = <<v.k, v.info>>}
      e == [v EXCEPT !.k = "VUPVAL", !.info = IF known = {} THEN Len(g.upvalues) ELSE Min(known) - 1]
  IN CASE known # {} -> [g EXCEPT !.e = e]
       [] Len(g.upvalues) + 1 > MAXUPVALUES -> Throw(g)
       [] OTHER -> [g EXCEPT !.e = e, !.upvalues = Append(@, <<v.k, v.info>>)]

RECURSIVE singlevaraux(_, _, _)
singlevaraux(g, n, base) ==
  LET v == searchvar(g, n)
      h == [g EXCEPT !.e = init_exp("VLOCAL", v)]
      o == singlevaraux(g.prev[1], n, FALSE)
  IN IF v >= 0 THEN (IF base THEN h ELSE markupval(h, v))
     ELSE IF g.prev = <<>> THEN [g EXCEPT !.e = init_exp("VGLOBAL", NO_REG)]
     ELSE IF o.e.k = "VGLOBAL" THEN [g EXCEPT !.e = o.e]
     ELSE indexupvalue([g EXCEPT !.prev = <<o>>], o.e)

singlevar(g) ==
  LET n == str_checkname(g)
      h == singlevaraux(checknext(g, "NAME"), n, TRUE)
  IN IF h.e.k = "VGLOBAL"
     THEN [addk(h, String(n)) EXCEPT !.e.info = KIndex(h, String(n))] ELSE h

\* nexps values are in the registers, the last one still open in g.e.
adjust_assign(g, nvars, nexps) ==
  LET extra == nvars - nexps
      more == IF extra + 1 < 0 THEN 0 ELSE extra + 1
      h == luaK_setreturns(g, more)
      c == IF g.e.k = "VVOID" THEN g ELSE luaK_exp2nextreg(g)
  IN IF hasmultret(g.e)
     THEN IF more > 1 THEN luaK_reserveregs(h, more - 1) ELSE h
     ELSE IF extra > 0 THEN luaK_nil(luaK_reserveregs(c, extra), c.freereg, extra) ELSE c

enterlevel(g) == IF g.level + 1 > MAXCCALLS THEN Throw([g EXCEPT !.level = @ + 1])
                 ELSE [g EXCEPT !.level = @ + 1]
leavelevel(g) == [g EXCEPT !.level = @ - 1]

-----------------------------------------------------------------------------
(* Blocks and functions; the innermost block is the first of g.bl.            *)

enterblock(g, isbreakable) ==
  [g EXCEPT !.bl = <<[breaklist |-> NO_JUMP, nactvar |-> g.nactvar,
                      upval |-> FALSE, isbreakable |-> isbreakable]>> \o @]

leaveblock(g) ==
  LET bl == Head(g.bl)
      h == removevars([g EXCEPT !.bl = Tail(@)], bl.nactvar)
      c == IF bl.upval THEN luaK_code(h, "CLOSE", bl.nactvar, 0, 0) ELSE h
  IN luaK_patchtohere([c EXCEPT !.freereg = bl.nactvar], bl.breaklist)

open_func(toks, at, level, err, prev) ==
  [toks |-> toks, at |-> at, level |-> level, err |-> err, prev |-> prev,
   code |-> <<>>, k |-> <<>>, p |-> <<>>, jpc |-> NO_JUMP, lasttarget |-> -1,
   freereg |-> 0, nactvar |-> 0, actvar |-> <<>>, bl |-> <<>>, upvalues |-> <<>>,
   maxstack |-> 2, numparams |-> 0, vararg |-> {}, e |-> init_exp("VVOID", 0), n |-> 0]

close_func(g) == luaK_ret(removevars(g, 0), 0, 0)

Proto(g) == [code |-> g.code, k |-> g.k, p |-> g.p, nups |-> Len(g.upvalues),
             numparams |-> g.numparams, vararg |-> g.vararg, maxstack |-> g.maxstack,
             lineinfo |-> Len(g.code), names |-> Len(g.upvalues)]

\* The closure of func, whose upvalues the instructions behind CLOSURE name.
pushclosure(g, func) ==
  LET c == luaK_code([g EXCEPT !.p = Append(@, Proto(func))], "CLOSURE", 0, Len(g.p), 0)
  IN FoldLeft(LAMBDA h, u : luaK_code(h, IF u[1] = "VLOCAL" THEN "MOVE" ELSE "GETUPVAL", 0, u[2], 0),
              [c EXCEPT !.e = init_exp("VRELOCABLE", LastPc(c))], func.upvalues)

-----------------------------------------------------------------------------
RECURSIVE subexpr(_, _), chunk(_), primaryexp(_)

expr(g) == subexpr(g, 0)

yindex(g) == checknext(luaK_exp2val(expr(luaX_next(g))), "]")

field(g) ==
  LET h == luaK_exp2anyreg(g) IN luaK_indexed(checkname(luaX_next(h)), h.e)

\* g.n is the number of expressions read, the last of them open in g.e.
RECURSIVE MoreExps(_, _)
MoreExps(g, n) ==
  IF Tk(g) = "," THEN MoreExps(expr(luaX_next(luaK_exp2nextreg(g))), n + 1)
  ELSE [g EXCEPT !.n = n]
explist1(g) == MoreExps(expr(g), 1)

(* Table constructors.  cc: the register of the table, the item not closed    *)
(* yet, and how many items there are of each kind and wait to be stored.      *)
luaO_int2fb(x) ==
  LET Reduce[y \in 0 .. x] == IF y < 16 THEN <<y, 0>>
                              ELSE LET r == Reduce[(y + 1) \div 2] IN <<r[1], r[2] + 1>>
      r == Reduce[x]
  IN IF r[1] < 8 THEN r[1] ELSE (r[2] + 1) * 8 + (r[1] - 8)

recfield(g, cc) ==
  LET key == IF Tk(g) = "NAME" THEN checkname(g) ELSE yindex(g)
      rk == luaK_exp2RK(checknext(key, "="))
      val == luaK_exp2RK(expr(rk))
      s == luaK_code(val, "SETTABLE", cc.t, RK(rk.e), RK(val.e))
  IN <<[s EXCEPT !.freereg = g.freereg], [cc EXCEPT !.nh = @ + 1]>>

closelistfield(g, cc) ==
  LET h == luaK_exp2nextreg([g EXCEPT !.e = cc.v])
      closed == [cc EXCEPT !.v.k = "VVOID"]
  IN IF cc.v.k = "VVOID" THEN <<g, cc>>
     ELSE IF cc.tostore = LFIELDS_PER_FLUSH
          THEN <<luaK_setlist(h, cc.t, cc.na, cc.tostore), [closed EXCEPT !.tostore = 0]>>
          ELSE <<h, closed>>

lastlistfield(g, cc) ==
  LET v == [g EXCEPT !.e = cc.v]
      c == IF cc.v.k = "VVOID" THEN v ELSE luaK_exp2nextreg(v)
  IN IF cc.tostore = 0 THEN <<g, cc>>
     ELSE IF hasmultret(cc.v)
          THEN <<luaK_setlist(luaK_setreturns(v, MULTRET), cc.t, cc.na, MULTRET),
                 [cc EXCEPT !.na = @ - 1]>>
          ELSE <<luaK_setlist(c, cc.t, cc.na, cc.tostore), cc>>

listfield(g, cc) ==
  LET h == expr(g) IN <<h, [cc EXCEPT !.v = h.e, !.na = @ + 1, !.tostore = @ + 1]>>

RECURSIVE Items(_, _)
Items(g, cc) ==
  LET c == closelistfield(g, cc)
      isrec == Tk(g) = "[" \/ (Tk(g) = "NAME" /\ Lookahead(g) = "=")
      r == IF isrec THEN recfield(c[1], c[2]) ELSE listfield(c[1], c[2])
  IN IF Tk(g) = "}" THEN <<g, cc>>
     ELSE IF Tk(r[1]) \in {",", ";"} THEN Items(luaX_next(r[1]), r[2]) ELSE r

constructor(g) ==
  LET pc == Pc(g)
      n == luaK_code(g, "NEWTABLE", 0, 0, 0)
      t == luaK_exp2nextreg([n EXCEPT !.e = init_exp("VRELOCABLE", LastPc(n))])
      i == Items(checknext(t, "{"), [t |-> t.e.info, v |-> init_exp("VVOID", 0),
                                      nh |-> 0, na |-> 0, tostore |-> 0])
      l == lastlistfield(checknext(i[1], "}"), i[2])
  IN [l[1] EXCEPT !.code[pc + 1].b = luaO_int2fb(l[2].na),
                  !.code[pc + 1].c = luaO_int2fb(l[2].nh), !.e = t.e]

(* Functions and calls.                                                       *)
RECURSIVE Params(_, _)
Params(g, n) ==
  LET named == new_localvar(luaX_next(g), str_checkname(g), n)
      dots == [new_localvar(luaX_next(g), "arg", n)
                 EXCEPT !.vararg = {"HASARG", "NEEDSARG", "ISVARARG"}]
  IN CASE Tk(g) = "NAME" -> IF Tk(named) = "," THEN Params(luaX_next(named), n + 1)
                            ELSE adjustlocalvars(named, n + 1)
       [] Tk(g) = "..." -> adjustlocalvars(dots, n + 1)
       [] OTHER -> Throw(g)

parlist(g) ==
  LET h == IF Tk(g) = ")" THEN g ELSE Params(g, 0)
      fixed == IF "HASARG" \in h.vararg THEN h.nactvar - 1 ELSE h.nactvar
  IN luaK_reserveregs([h EXCEPT !.numparams = fixed], h.nactvar)

body(g, needself) ==
  LET o == checknext(open_func(g.toks, g.at, g.level, g.err, <<g>>), "(")
      s == IF needself THEN adjustlocalvars(new_localvar(o, "self", 0), 1) ELSE o
      c == close_func(checknext(chunk(checknext(parlist(s), ")")), "end"))
  IN pushclosure([c.prev[1] EXCEPT !.at = c.at, !.level = c.level, !.err = c.err], c)

\* The function is in the register g.e.info names.
funcargs(g) ==
  LET base == g.e.info
      list == explist1(luaX_next(g))
      a == CASE Tk(g) = "(" -> IF Lookahead(g) = ")"
                               THEN [luaX_next(luaX_next(g)) EXCEPT !.e.k = "VVOID"]
                               ELSE checknext(luaK_setreturns(list, MULTRET), ")")
             [] Tk(g) = "{" -> constructor(g)
             [] Tk(g) = "STRING" -> codestring(luaX_next(g), Seminfo(g))
             [] OTHER -> Throw(g)
      closed == IF a.e.k = "VVOID" THEN a ELSE luaK_exp2nextreg(a)
      h == IF hasmultret(a.e) THEN luaK_code(a, "CALL", base, 0, 2)
           ELSE luaK_code(closed, "CALL", base, closed.freereg - base, 2)
  IN [h EXCEPT !.e = init_exp("VCALL", LastPc(h)), !.freereg = base + 1]

(* Expressions.                                                               *)
prefixexp(g) ==
  CASE Tk(g) = "(" -> luaK_dischargevars(checknext(expr(luaX_next(g)), ")"))
    [] Tk(g) = "NAME" -> singlevar(g)
    [] OTHER -> Throw(g)

RECURSIVE Suffixed(_)
Suffixed(g) ==
  LET any == luaK_exp2anyreg(g)
      key == checkname(luaX_next(g))
  IN CASE Tk(g) = "." -> Suffixed(field(g))
       [] Tk(g) = "[" -> Suffixed(luaK_indexed(yindex(any), any.e))
       [] Tk(g) = ":" -> Suffixed(funcargs(luaK_self([key EXCEPT !.e = g.e], key.e)))
       [] Tk(g) \in {"(", "STRING", "{"} -> Suffixed(funcargs(luaK_exp2nextreg(g)))
       [] OTHER -> g

primaryexp(g) == Suffixed(prefixexp(g))

simpleexp(g) ==
  LET Exp(k, info) == [luaX_next(g) EXCEPT !.e = init_exp(k, info)]
      v == luaK_code([g EXCEPT !.vararg = @ \ {"NEEDSARG"}], "VARARG", 0, 1, 0)
  IN CASE Tk(g) = "NUMBER" -> Exp("VKNUM", Seminfo(g))
       [] Tk(g) = "STRING" -> codestring(luaX_next(g), Seminfo(g))
       [] Tk(g) = "nil" -> Exp("VNIL", 0)
       [] Tk(g) = "true" -> Exp("VTRUE", 0)
       [] Tk(g) = "false" -> Exp("VFALSE", 0)
       [] Tk(g) = "..." -> IF g.vararg = {} THEN Throw(g)
                           ELSE luaX_next([v EXCEPT !.e = init_exp("VVARARG", LastPc(v))])
       [] Tk(g) = "{" -> constructor(g)
       [] Tk(g) = "function" -> body(luaX_next(g), FALSE)
       [] OTHER -> primaryexp(g)

UnOps == {"not", "-", "#"}
UNARY_PRIORITY == 8
priority ==
  [op \in {"+", "-"} |-> <<6, 6>>] @@ [op \in {"*", "%"} |-> <<7, 7>>] @@ (".." :> <<5, 4>>)
  @@ [op \in {"~=", "==", "<", "<=", ">", ">="} |-> <<3, 3>>]
  @@ ("and" :> <<2, 2>>) @@ ("or" :> <<1, 1>>)

RECURSIVE Operators(_, _)
Operators(g, limit) ==
  IF Tk(g) \in DOMAIN priority /\ priority[Tk(g)][1] > limit
  THEN LET v == luaK_infix(luaX_next(g), Tk(g))
           v2 == subexpr(v, priority[Tk(g)][2])
       IN Operators(luaK_posfix(v2, Tk(g), v.e), limit)
  ELSE g

subexpr(g, limit) ==
  LET o == enterlevel(g)
      h == IF Tk(o) \in UnOps
           THEN luaK_prefix(subexpr(luaX_next(o), UNARY_PRIORITY), Tk(o)) ELSE simpleexp(o)
  IN leavelevel(Operators(h, limit))

-----------------------------------------------------------------------------
(* Statements.                                                                *)

block_follow(tk) == tk \in {"else", "elseif", "end", "until", "EOS"}
block(g) == leaveblock(chunk(enterblock(g, FALSE)))

\* A local about to be assigned that an earlier target still needs is copied.
Conflicts(lh, v) == \E i \in DOMAIN lh : lh[i].k = "VINDEXED" /\ v.info \in {lh[i].info, lh[i].aux}
check_conflict(g, lh, v) ==
  IF v.k = "VLOCAL" /\ Conflicts(lh, v)
  THEN luaK_reserveregs(luaK_code(g, "MOVE", g.freereg, v.info, 0), 1) ELSE g
SafeTargets(g, lh, v) ==
  LET Safe(reg) == IF reg = v.info THEN g.freereg ELSE reg IN
  [i \in DOMAIN lh |-> IF v.k = "VLOCAL" /\ lh[i].k = "VINDEXED"
                       THEN [lh[i] EXCEPT !.info = Safe(@), !.aux = Safe(@)] ELSE lh[i]]

StoreTop(g, var) == luaK_storevar([g EXCEPT !.e = init_exp("VNONRELOC", g.freereg - 1)], var)

\* lh: the targets read so far.  The values are stored from the last target on.
RECURSIVE assignment(_, _)
assignment(g, lh) ==
  LET nvars == Len(lh)
      v == primaryexp(luaX_next(g))
      x == explist1(checknext(g, "="))
      a == adjust_assign(x, nvars, x.n)
      adjusted == IF x.n > nvars THEN [a EXCEPT !.freereg = @ - (x.n - nvars)] ELSE a
      first == IF x.n = nvars THEN luaK_storevar(luaK_setoneret(x), Last(lh))
               ELSE StoreTop(adjusted, Last(lh))
  IN IF Last(lh).k \notin {"VLOCAL", "VUPVAL", "VGLOBAL", "VINDEXED"} THEN Throw(g)
     ELSE IF Tk(g) # "," THEN FoldLeft(StoreTop, first, Reverse(Front(lh)))
     ELSE IF nvars > MAXCCALLS - v.level THEN Throw(v)
     ELSE assignment(check_conflict(v, lh, v.e), Append(SafeTargets(v, lh, v.e), v.e))

\* The jumps taken when the condition is false are g.e.f.
cond(g) ==
  LET v == expr(g) IN luaK_goiftrue(IF v.e.k = "VNIL" THEN [v EXCEPT !.e.k = "VFALSE"] ELSE v)

\* Mutant: the loop is left without closing the upvalues of its blocks.
breakstatOpen(g) ==
  LET loops == {i \in DOMAIN g.bl : g.bl[i].isbreakable}
      j == luaK_jump(g)
  IN IF loops = {} THEN Throw(g)
     ELSE [luaK_concat(j, g.bl[Min(loops)].breaklist, LastPc(j))
             EXCEPT !.bl[Min(loops)].breaklist = Joined(@, LastPc(j))]

breakstat(g) ==
  LET loops == {i \in DOMAIN g.bl : g.bl[i].isbreakable}
      b == Min(loops)
      c == IF \E i \in 1 .. b - 1 : g.bl[i].upval
           THEN luaK_code(g, "CLOSE", g.bl[b].nactvar, 0, 0) ELSE g
      j == luaK_jump(c)
  IN IF loops = {} THEN Throw(g)
     ELSE [luaK_concat(j, g.bl[b].breaklist, LastPc(j))
             EXCEPT !.bl[b].breaklist = Joined(@, LastPc(j))]

whilestat(g) ==
  LET c == cond(luaK_getlabel(luaX_next(g)))
      j == luaK_jump(block(checknext(enterblock(c, TRUE), "do")))
  IN luaK_patchtohere(leaveblock(checknext(luaK_patchlist(j, LastPc(j), Pc(g)), "end")), c.e.f)

repeatstat(g) ==
  LET o == enterblock(enterblock(luaK_getlabel(g), TRUE), FALSE)
      c == cond(checknext(chunk(luaX_next(o)), "until"))
      plain == luaK_patchlist(leaveblock(c), c.e.f, Pc(g))
      j == luaK_jump(leaveblock(luaK_patchtohere(breakstat(c), c.e.f)))
  IN leaveblock(IF Head(c.bl).upval THEN luaK_patchlist(j, LastPc(j), Pc(g)) ELSE plain)

exp1(g) == luaK_exp2nextreg(expr(g))

forbody(g, base, nvars, isnum) ==
  LET d == checknext(adjustlocalvars(g, 3), "do")
      p == IF isnum THEN luaK_code(d, "FORPREP", base, NO_JUMP, 0) ELSE luaK_jump(d)
      prep == LastPc(p)
      b == block(luaK_reserveregs(adjustlocalvars(enterblock(p, FALSE), nvars), nvars))
      l == luaK_patchtohere(leaveblock(b), prep)
      f == IF isnum THEN luaK_code(l, "FORLOOP", base, NO_JUMP, 0)
           ELSE luaK_jump(luaK_code(l, "TFORLOOP", base, 0, nvars))
  IN luaK_patchlist(f, LastPc(f), prep + 1)

NewLocals(g, names) ==
  FoldLeft(LAMBDA h, i : new_localvar(h, names[i], i - 1), g, [i \in DOMAIN names |-> i])

fornum(g, varname) ==
  LET n == NewLocals(g, <<"(for index)", "(for limit)", "(for step)", varname>>)
      l == exp1(checknext(exp1(checknext(n, "=")), ","))
      k == KIndex(l, Number(1))
      s == IF Tk(l) = "," THEN exp1(luaX_next(l))
           ELSE luaK_reserveregs(luaK_code(addk(l, Number(1)), "LOADK", l.freereg, k, 0), 1)
  IN forbody(s, g.freereg, 1, TRUE)

\* NAME {`,' NAME}: the names from the n-th on become new locals; g.n counts them.
RECURSIVE Names(_, _)
Names(g, n) ==
  LET h == new_localvar(checknext(g, "NAME"), str_checkname(g), n)
  IN IF Tk(h) = "," THEN Names(luaX_next(h), n + 1) ELSE [h EXCEPT !.n = n + 1]

forlist(g, indexname) ==
  LET c == NewLocals(g, <<"(for generator)", "(for state)", "(for control)", indexname>>)
      n == IF Tk(c) = "," THEN Names(luaX_next(c), 4) ELSE [c EXCEPT !.n = 4]
      x == explist1(checknext(n, "in"))
  IN forbody(luaK_checkstack(adjust_assign(x, 3, x.n), 3), g.freereg, n.n - 3, FALSE)

forstat(g) ==
  LET o == luaX_next(enterblock(g, TRUE))
      n == checknext(o, "NAME")
      f == CASE Tk(n) = "=" -> fornum(n, str_checkname(o))
             [] Tk(n) \in {",", "in"} -> forlist(n, str_checkname(o))
             [] OTHER -> Throw(n)
  IN leaveblock(checknext(f, "end"))

test_then_block(g) ==
  LET c == cond(luaX_next(g)) IN [block(checknext(c, "then")) EXCEPT !.e = c.e]

\* escapelist: the jumps from the ends of the blocks read so far.
RECURSIVE ElseParts(_, _)
ElseParts(g, escapelist) ==
  LET j == luaK_jump(g)
      esc == Joined(escapelist, LastPc(j))
      next == luaK_patchtohere(luaK_concat(j, escapelist, LastPc(j)), g.e.f)
  IN CASE Tk(g) = "elseif" -> ElseParts(test_then_block(next), esc)
       [] Tk(g) = "else" -> luaK_patchtohere(block(luaX_next(next)), esc)
       [] OTHER -> luaK_patchtohere(luaK_concat(g, escapelist, g.e.f), Joined(escapelist, g.e.f))

ifstat(g) == checknext(ElseParts(test_then_block(g), NO_JUMP), "end")

localfunc(g) ==
  LET n == adjustlocalvars(luaK_reserveregs(new_localvar(checknext(g, "NAME"), str_checkname(g), 0), 1), 1)
  IN luaK_storevar(body(n, FALSE), init_exp("VLOCAL", g.freereg))

localstat(g) ==
  LET n == Names(g, 0)
      x == IF Tk(n) = "=" THEN explist1(luaX_next(n))
           ELSE [n EXCEPT !.e = init_exp("VVOID", 0), !.n = 0]
  IN adjustlocalvars(adjust_assign(x, n.n, x.n), n.n)

RECURSIVE Fields(_)
Fields(g) == IF Tk(g) = "." THEN Fields(field(g)) ELSE g

funcstat(g) ==
  LET f == Fields(singlevar(luaX_next(g)))
      needself == Tk(f) = ":"
      v == IF needself THEN field(f) ELSE f
  IN luaK_storevar(body(v, needself), v.e)

exprstat(g) ==
  LET v == primaryexp(g)
  IN IF v.e.k = "VCALL" THEN [v EXCEPT !.code[v.e.info + 1].c = 1] ELSE assignment(v, <<v.e>>)

retstat(g) ==
  LET x == explist1(luaX_next(g))
      m == luaK_setreturns(x, MULTRET)
      tail == x.e.k = "VCALL" /\ x.n = 1
      one == luaK_exp2anyreg(x)
  IN IF block_follow(Lookahead(g)) \/ Lookahead(g) = ";" THEN luaK_ret(luaX_next(g), 0, 0)
     ELSE IF hasmultret(x.e)
          THEN luaK_ret(IF tail THEN [m EXCEPT !.code[x.e.info + 1].op = "TAILCALL"] ELSE m,
                        m.nactvar, MULTRET)
     ELSE IF x.n = 1 THEN luaK_ret(one, one.e.info, 1)
     ELSE luaK_ret(luaK_exp2nextreg(x), x.nactvar, x.n)

statement(g) ==
  CASE Tk(g) = "if" -> ifstat(g)
    [] Tk(g) = "while" -> whilestat(g)
    [] Tk(g) = "do" -> checknext(block(luaX_next(g)), "end")
    [] Tk(g) = "for" -> forstat(g)
    [] Tk(g) = "repeat" -> repeatstat(g)
    [] Tk(g) = "function" -> funcstat(g)
    [] Tk(g) = "local" -> IF Lookahead(g) = "function" THEN localfunc(luaX_next(luaX_next(g)))
                          ELSE localstat(luaX_next(g))
    [] Tk(g) = "return" -> retstat(g)
    [] Tk(g) = "break" -> breakstat(luaX_next(g))
    [] OTHER -> exprstat(g)

RECURSIVE Statements(_)
Statements(g) ==
  LET s == testnext(statement(g), ";")
      h == [s EXCEPT !.freereg = s.nactvar]
  IN IF block_follow(Tk(g)) THEN g
     ELSE IF Tk(g) \in {"return", "break"} THEN h ELSE Statements(h)

chunk(g) == leavelevel(Statements(enterlevel(g)))

\* The state at the end of the main function of the chunk: err, or Proto(g).
luaY_parser(toks) ==
  LET main == [open_func(toks, 1, 0, FALSE, <<>>) EXCEPT !.vararg = {"ISVARARG"}]
  IN close_func(checknext(chunk(main), "EOS"))
=============================================================================
