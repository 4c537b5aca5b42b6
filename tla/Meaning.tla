------------------------------- MODULE Meaning -------------------------------
(* What a Lua program means, by the reference manual: programs as syntax      *)
(* trees, the tokens they are written with, and the value of running them,    *)
(* with no registers, jumps or upvalues.  The compiled code is held to this.  *)
(* One rule is the code's and not the manual's: a table refuses the keys nil  *)
(* and NaN before its __newindex handler is asked (lvm.c:141).                *)
(*                                                                            *)
(* Expressions: <<"nil">> <<"true">> <<"false">> <<"...">> <<"num", n>>        *)
(*  <<"str", s>> <<"name", x>> <<"index", e, k>> <<"call", f, es>>             *)
(*  <<"method", e, x, es>> <<"function", f>> <<"un", op, e>>                   *)
(*  <<"bin", op, l, r>> <<"paren", e>> <<"table", fields>>, a field being      *)
(*  <<"item", e>>, <<"named", x, e>> or <<"keyed", k, e>>, a function          *)
(*  [params, dots, body], dots being "", "..." or "arg" for a body that takes *)
(*  its extra arguments from the table arg.                                   *)
(* Statements: <<"local", xs, es>> <<"assign", targets, es>> <<"do", b>>       *)
(*  <<"callstat", e>> <<"while", c, b>> <<"repeat", b, c>> <<"break">>         *)
(*  <<"if", conditions, blocks>> (one block more for else) <<"return", es>>    *)
(*  <<"fornum", x, es, b>> <<"forin", xs, es, b>> <<"localfunction", x, f>>    *)
(*  <<"functionstat", xs, x, f>> (x is "" unless a method).                   *)
EXTENDS Integers, Sequences, FiniteSets, FiniteSetsExt, SequencesExt, TLC

Nil == <<"nil">>
Truth(b) == <<"bool", b>>
Num(n) == <<"num", n>>
NaN == <<"nan">>
IsNum(v) == v[1] \in {"num", "nan"}
False(v) == v = Nil \/ v = Truth(FALSE)
TypeName(v) == IF IsNum(v) THEN "number"
                     ELSE IF v[1] \in {"function", "cfunction"} THEN "function" ELSE v[1]

-----------------------------------------------------------------------------
(* How a program is written.                                                  *)

Precedence ==
  ("or" :> 1) @@ ("and" :> 2) @@ [op \in {"<", ">", "<=", ">=", "~=", "=="} |-> 3]
  @@ (".." :> 4) @@ [op \in {"+", "-"} |-> 5] @@ [op \in {"*", "%"} |-> 6]
Binds(e) == IF e[1] = "bin" THEN Precedence[e[2]] ELSE IF e[1] = "un" THEN 7 ELSE 8

Word(w) == << <<w>> >>
NameTok(x) == << <<"NAME", x>> >>
Separated(Op(_), xs, sep) ==
  FlattenSeq([i \in DOMAIN xs |-> (IF i = 1 THEN <<>> ELSE Word(sep)) \o Op(xs[i])])

RECURSIVE WriteExp(_), WriteBlock(_), WriteStat(_)
Parens(b, ts) == IF b THEN Word("(") \o ts \o Word(")") ELSE ts
WriteBody(f) ==
  Word("(") \o Separated(NameTok, f.params, ",")
  \o (IF f.dots # "" THEN (IF f.params = <<>> THEN <<>> ELSE Word(",")) \o Word("...") ELSE <<>>)
  \o Word(")") \o WriteBlock(f.body) \o Word("end")
WritePrefix(e) == Parens(e[1] \notin {"name", "index", "call", "method"}, WriteExp(e))
WriteArgs(es) == Word("(") \o Separated(WriteExp, es, ",") \o Word(")")
WriteField(x) ==
  CASE x[1] = "item" -> WriteExp(x[2])
    [] x[1] = "named" -> NameTok(x[2]) \o Word("=") \o WriteExp(x[3])
    [] x[1] = "keyed" -> Word("[") \o WriteExp(x[2]) \o Word("]") \o Word("=") \o WriteExp(x[3])

WriteExp(e) ==
  CASE e[1] = "num" -> << <<"NUMBER", e[2]>> >>
    [] e[1] = "str" -> << <<"STRING", e[2]>> >>
    [] e[1] = "name" -> NameTok(e[2])
    [] e[1] = "index" -> WritePrefix(e[2]) \o Word("[") \o WriteExp(e[3]) \o Word("]")
    [] e[1] = "call" -> WritePrefix(e[2]) \o WriteArgs(e[3])
    [] e[1] = "method" -> WritePrefix(e[2]) \o Word(":") \o NameTok(e[3]) \o WriteArgs(e[4])
    [] e[1] = "function" -> Word("function") \o WriteBody(e[2])
    [] e[1] = "un" -> Word(e[2]) \o Parens(Binds(e[3]) < 7, WriteExp(e[3]))
    [] e[1] = "bin" ->
         LET p == Precedence[e[2]] IN
         Parens(Binds(e[3]) < p \/ (e[2] = ".." /\ Binds(e[3]) = p), WriteExp(e[3])) \o Word(e[2])
         \o Parens(Binds(e[4]) < p \/ (e[2] # ".." /\ Binds(e[4]) = p), WriteExp(e[4]))
    [] e[1] = "paren" -> Parens(TRUE, WriteExp(e[2]))
    [] e[1] = "table" -> Word("{") \o Separated(WriteField, e[2], ",") \o Word("}")
    [] OTHER -> << e >>

RECURSIVE WriteIf(_, _, _)
WriteIf(word, conds, blocks) ==
  IF conds = <<>> THEN IF blocks = <<>> THEN Word("end")
                       ELSE Word("else") \o WriteBlock(blocks[1]) \o Word("end")
  ELSE Word(word) \o WriteExp(conds[1]) \o Word("then") \o WriteBlock(blocks[1])
       \o WriteIf("elseif", Tail(conds), Tail(blocks))

WriteDo(b) == Word("do") \o WriteBlock(b) \o Word("end")
WriteStat(s) ==
  CASE s[1] = "local" -> Word("local") \o Separated(NameTok, s[2], ",")
                         \o (IF s[3] = <<>> THEN <<>> ELSE Word("=") \o Separated(WriteExp, s[3], ","))
    [] s[1] = "assign" -> Separated(WriteExp, s[2], ",") \o Word("=") \o Separated(WriteExp, s[3], ",")
    [] s[1] = "callstat" -> WriteExp(s[2])
    [] s[1] = "do" -> WriteDo(s[2])
    [] s[1] = "while" -> Word("while") \o WriteExp(s[2]) \o WriteDo(s[3])
    [] s[1] = "repeat" -> Word("repeat") \o WriteBlock(s[2]) \o Word("until") \o WriteExp(s[3])
    [] s[1] = "if" -> WriteIf("if", s[2], s[3])
    [] s[1] = "fornum" -> Word("for") \o NameTok(s[2]) \o Word("=") \o Separated(WriteExp, s[3], ",")
                          \o WriteDo(s[4])
    [] s[1] = "forin" -> Word("for") \o Separated(NameTok, s[2], ",") \o Word("in")
                         \o Separated(WriteExp, s[3], ",") \o WriteDo(s[4])
    [] s[1] = "localfunction" -> Word("local") \o Word("function") \o NameTok(s[2]) \o WriteBody(s[3])
    [] s[1] = "functionstat" -> Word("function") \o Separated(NameTok, s[2], ".")
                                \o (IF s[3] = "" THEN <<>> ELSE Word(":") \o NameTok(s[3])) \o WriteBody(s[4])
    [] s[1] = "return" -> Word("return") \o Separated(WriteExp, s[2], ",")
    [] s[1] = "break" -> Word("break")

WriteBlock(b) == FlattenSeq([i \in DOMAIN b |-> WriteStat(b[i]) \o Word(";")])
Tokens(b) == WriteBlock(b) \o Word("EOS")

-----------------------------------------------------------------------------
(* What it computes.  A heap h has the variables' cells, the tables, the      *)
(* functions and whether an error was raised; an expression yields values v   *)
(* and the heap after it.  env maps the names in scope to cells.              *)

Yield(v, h) == [v |-> v, h |-> h]
Raise(h) == Yield(<<>>, [h EXCEPT !.err = TRUE])
Nth(v, i) == IF i <= Len(v) THEN v[i] ELSE Nil
One(r) == Nth(r.v, 1)
RawField(h, t, key) == IF key \in DOMAIN h.tabs[t].h THEN h.tabs[t].h[key] ELSE Nil
Put(h, t, key, v) == [h EXCEPT !.tabs[t].h = (key :> v) @@ @]
Handler(h, v, event) ==
  IF v[1] # "table" \/ h.tabs[v[2]].mt = Nil THEN Nil ELSE RawField(h, h.tabs[v[2]].mt[2], <<"str", event>>)
Callable(v) == v[1] \in {"function", "cfunction"}

\* The environment and heap with new local variables xs of values vs.
Declare(env, h, xs, vs) ==
  [env |-> [x \in {xs[i] : i \in DOMAIN xs} |->
              Len(h.cells) + Max({i \in DOMAIN xs : xs[i] = x})] @@ env,
   h |-> [h EXCEPT !.cells = @ \o [i \in DOMAIN xs |-> Nth(vs, i)]]]

Rank(strs, s) == CHOOSE i \in DOMAIN strs : strs[i] = s
Less(strs, a, b) ==
  IF a[1] = "str" THEN Rank(strs, a[2]) < Rank(strs, b[2])
  ELSE a # NaN /\ b # NaN /\ a[2] < b[2]
Same(a, b) == a = b /\ a # NaN
Arithmetic(op, a, b) ==
  CASE a = NaN \/ b = NaN -> NaN
    [] op = "+" -> Num(a[2] + b[2])
    [] op = "-" -> Num(a[2] - b[2])
    [] op = "*" -> Num(a[2] * b[2])
    [] op = "%" -> IF b[2] = 0 THEN NaN
                   ELSE Num(a[2] - b[2] * (IF b[2] > 0 THEN a[2] \div b[2] ELSE (-a[2]) \div (-b[2])))
Text(v) == IF v[1] = "num" THEN ToString(v[2]) ELSE v[2]

RECURSIVE Exp(_, _, _), Exps(_, _, _), Apply(_, _, _), Block(_, _, _, _), Index(_, _, _), Assign(_, _, _, _)

\* The tag method the first operand has, or else the second, on both.
Either(h, a, b, event, args) ==
  LET tm == IF Handler(h, a, event) = Nil THEN Handler(h, b, event) ELSE Handler(h, a, event)
  IN IF tm = Nil THEN Raise(h) ELSE LET r == Apply(tm, args, h) IN Yield(<<One(r)>>, r.h)
Common(h, a, b, event) ==
  IF Handler(h, a, event) = Handler(h, b, event) THEN Handler(h, a, event) ELSE Nil
Ask(tm, a, b, h, negate) ==
  LET r == Apply(tm, <<a, b>>, h) IN Yield(<<Truth(False(One(r)) = negate)>>, r.h)

Equals(a, b, h) ==
  IF TypeName(a) # TypeName(b) THEN Yield(<<Truth(FALSE)>>, h)
  ELSE IF a[1] = "table" /\ a # b /\ Common(h, a, b, "__eq") # Nil
       THEN Ask(Common(h, a, b, "__eq"), a, b, h, FALSE)
  ELSE Yield(<<Truth(Same(a, b))>>, h)

Orders(op, a, b, h) ==
  LET lt == Common(h, a, b, "__lt")
      le == Common(h, a, b, "__le")
  IN CASE TypeName(a) # TypeName(b) -> Raise(h)
       [] IsNum(a) \/ a[1] = "str" ->
            Yield(<<Truth(Less(h.strs, a, b) \/ (op = "<=" /\ Same(a, b)))>>, h)
       [] op = "<" /\ lt # Nil -> Ask(lt, a, b, h, FALSE)
       [] op = "<=" /\ le # Nil -> Ask(le, a, b, h, FALSE)
       [] op = "<=" /\ le = Nil /\ lt # Nil -> Ask(lt, b, a, h, TRUE)
       [] OTHER -> Raise(h)

Negated(r) == Yield(<<Truth(False(One(r)))>>, r.h)
Events == ("+" :> "__add") @@ ("-" :> "__sub") @@ ("*" :> "__mul") @@ ("%" :> "__mod")
Binary(op, a, b, h) ==
  CASE op \in DOMAIN Events -> IF IsNum(a) /\ IsNum(b) THEN Yield(<<Arithmetic(op, a, b)>>, h)
                               ELSE Either(h, a, b, Events[op], <<a, b>>)
    [] op = ".." -> IF a[1] \in {"num", "str"} /\ b[1] \in {"num", "str"}
                    THEN Yield(<< <<"str", Text(a) \o Text(b)>> >>, h)
                    ELSE Either(h, a, b, "__concat", <<a, b>>)
    [] op = "==" -> Equals(a, b, h)
    [] op = "~=" -> Negated(Equals(a, b, h))
    [] op \in {"<", "<="} -> Orders(op, a, b, h)
    [] op = ">" -> Orders("<", b, a, h)
    [] op = ">=" -> Orders("<=", b, a, h)

Unary(op, a, h) ==
  CASE op = "not" -> Yield(<<Truth(False(a))>>, h)
    [] op = "-" -> IF IsNum(a) THEN Yield(<<Arithmetic("-", Num(0), a)>>, h)
                   ELSE Either(h, a, a, "__unm", <<a, a>>)
    [] op = "#" -> IF a[1] = "str" THEN Yield(<<Num(Len(a[2]))>>, h)
                   ELSE IF a[1] = "table"
                   THEN Yield(<<Num(Cardinality({k \in DOMAIN h.tabs[a[2]].h :
                                      k[1] = "num" /\ h.tabs[a[2]].h[k] # Nil}))>>, h)
                   ELSE Raise(h)

Index(t, key, h) ==
  LET tm == Handler(h, t, "__index")
      r == Apply(tm, <<t, key>>, h)
  IN IF t[1] = "table" /\ (tm = Nil \/ RawField(h, t[2], key) # Nil)
     THEN Yield(<<RawField(h, t[2], key)>>, h)
     ELSE IF tm = Nil THEN Raise(h)
     ELSE IF Callable(tm) THEN Yield(<<One(r)>>, r.h) ELSE Index(tm, key, h)

Assign(t, key, v, h) ==
  LET tm == Handler(h, t, "__newindex")
  IN IF t[1] = "table" /\ key \in {Nil, NaN} THEN Raise(h).h
     ELSE IF t[1] = "table" /\ (tm = Nil \/ RawField(h, t[2], key) # Nil) THEN Put(h, t[2], key, v)
     ELSE IF tm = Nil THEN Raise(h).h
     ELSE IF Callable(tm) THEN Apply(tm, <<t, key, v>>, h).h ELSE Assign(tm, key, v, h)

Apply(f, args, h) ==
  LET fn == h.funs[f[2]]
      d == Declare([x \in {"..."} |-> Len(h.cells) + Len(fn.f.params) + 1] @@ fn.env, h, fn.f.params, args)
      rest == SubSeq(args, Len(fn.f.params) + 1, Len(args))
      arg == [k \in {Num(i) : i \in DOMAIN rest} |-> rest[k[2]]] @@ (<<"str", "n">> :> Num(Len(rest)))
      v == [d EXCEPT !.h.cells = Append(@, rest)]
      a == Declare(v.env, [v.h EXCEPT !.tabs = Append(@, [h |-> arg, mt |-> Nil])], <<"arg">>,
                   << <<"table", Len(v.h.tabs) + 1>> >>)
      in == IF fn.f.dots = "arg" THEN a ELSE v
      r == Block(fn.f.body, 1, in.env, in.h)
  IN CASE h.err -> Raise(h)
       [] f[1] = "function" -> Yield(IF r.k = "return" THEN r.v ELSE <<>>, r.h)
       [] f[1] = "cfunction" -> Yield(<<args[1]>>, [h EXCEPT !.tabs[args[1][2]].mt = args[2]])
       [] OTHER -> IF Callable(Handler(h, f, "__call"))
                   THEN Apply(Handler(h, f, "__call"), <<f>> \o args, h) ELSE Raise(h)

NewFunction(f, env, h) ==
  Yield(<< <<"function", Len(h.funs) + 1>> >>, [h EXCEPT !.funs = Append(@, [f |-> f, env |-> env])])

RECURSIVE FieldsOf(_, _, _, _, _)
FieldsOf(fields, n, t, env, h) ==
  LET x == fields[1]
      k == IF x[1] = "keyed" THEN Exp(x[2], env, h) ELSE Yield(<< <<"str", x[2]>> >>, h)
      v == Exp(x[3], env, k.h)
      i == Exp(x[2], env, h)
      vs == IF Len(fields) = 1 /\ x[2][1] \in {"call", "method", "..."} THEN i.v ELSE <<One(i)>>
      after == [i.h EXCEPT !.tabs[t].h = [key \in {Num(n + j) : j \in DOMAIN vs} |-> vs[key[2] - n]] @@ @]
  IN IF fields = <<>> THEN h
     ELSE IF x[1] = "item" THEN FieldsOf(Tail(fields), n + 1, t, env, after)
     ELSE FieldsOf(Tail(fields), n, t, env, Assign(<<"table", t>>, One(k), One(v), v.h))

Exp(e, env, h) ==
  LET l == Exp(e[3], env, h)
      r == Exp(e[4], env, l.h)
      p == Exp(e[2], env, h)
  IN CASE h.err -> Raise(h)
       [] e[1] \in {"nil", "num", "str"} -> Yield(<<e>>, h)
       [] e[1] \in {"true", "false"} -> Yield(<<Truth(e[1] = "true")>>, h)
       [] e[1] = "..." -> Yield(h.cells[env["..."]], h)
       [] e[1] = "name" -> IF e[2] \in DOMAIN env THEN Yield(<<h.cells[env[e[2]]]>>, h)
                           ELSE Index(<<"table", 1>>, <<"str", e[2]>>, h)
       [] e[1] = "paren" -> Yield(<<One(p)>>, p.h)
       [] e[1] = "function" -> NewFunction(e[2], env, h)
       [] e[1] = "table" ->
            LET t == Len(h.tabs) + 1
                n == [h EXCEPT !.tabs = Append(@, [h |-> <<>>, mt |-> Nil])]
            IN Yield(<< <<"table", t>> >>, FieldsOf(e[2], 0, t, env, n))
       [] e[1] = "index" -> LET k == Exp(e[3], env, p.h) IN Index(One(p), One(k), k.h)
       [] e[1] = "call" -> LET a == Exps(e[3], env, p.h) IN Apply(One(p), a.v, a.h)
       [] e[1] = "method" -> LET f == Index(One(p), <<"str", e[3]>>, p.h)
                                 a == Exps(e[4], env, f.h)
                             IN Apply(One(f), <<One(p)>> \o a.v, a.h)
       [] e[1] = "un" -> IF l.h.err THEN Raise(l.h) ELSE Unary(e[2], One(l), l.h)
       [] e[1] = "bin" /\ e[2] \in {"and", "or"} ->
            IF False(One(l)) = (e[2] = "and") THEN Yield(<<One(l)>>, l.h) ELSE Yield(<<One(r)>>, r.h)
       [] e[1] = "bin" -> IF r.h.err THEN Raise(r.h) ELSE Binary(e[2], One(l), One(r), r.h)

Exps(es, env, h) ==
  IF es = <<>> THEN Yield(<<>>, h)
  ELSE LET x == Exp(es[1], env, h)
           rest == Exps(Tail(es), env, x.h)
       IN IF Len(es) = 1 THEN IF es[1][1] \in {"call", "method", "..."} THEN x ELSE Yield(<<One(x)>>, x.h)
          ELSE Yield(<<One(x)>> \o rest.v, rest.h)

\* How a statement ends: k is "next", "break" or "return"; env has its locals.
Ends(k, v, env, h) == [k |-> k, v |-> v, env |-> env, h |-> h]
Nexts(env, h) == Ends("next", <<>>, env, h)
\* A loop goes on unless its body broke out of it, returned or failed.
Stops(r) == r.k # "next" \/ r.h.err
Out(r, env) == IF r.k = "return" THEN r ELSE Nexts(env, r.h)

RECURSIVE TargetsOf(_, _, _)
TargetsOf(ts, env, h) ==
  IF ts = <<>> THEN Yield(<<>>, h)
  ELSE LET t == Exp(ts[1][2], env, h)
           k == Exp(ts[1][3], env, t.h)
           here == IF ts[1][1] = "index" THEN Yield(<< <<One(t), One(k)>> >>, k.h)
                   ELSE Yield(<< <<ts[1][2]>> >>, h)
           rest == TargetsOf(Tail(ts), env, here.h)
       IN Yield(here.v \o rest.v, rest.h)
Store(env, h, target, v) ==
  IF Len(target) = 2 THEN Assign(target[1], target[2], v, h)
  ELSE IF target[1] \in DOMAIN env THEN [h EXCEPT !.cells[env[target[1]]] = v]
  ELSE Assign(<<"table", 1>>, <<"str", target[1]>>, v, h)

RECURSIVE While(_, _, _, _), Repeat(_, _, _, _), If(_, _, _, _), ForNum(_, _, _, _, _, _, _), ForIn(_, _, _, _, _)
While(c, b, env, h) ==
  LET t == Exp(c, env, h)
      r == Block(b, 1, env, t.h)
  IN IF False(One(t)) \/ t.h.err THEN Nexts(env, t.h)
     ELSE IF Stops(r) THEN Out(r, env) ELSE While(c, b, env, r.h)
Repeat(b, c, env, h) ==
  LET r == Block(b, 1, env, h)
      t == Exp(c, r.env, r.h)
  IN IF Stops(r) THEN Out(r, env)
     ELSE IF ~False(One(t)) \/ t.h.err THEN Nexts(env, t.h) ELSE Repeat(b, c, env, t.h)
If(conds, blocks, env, h) ==
  LET t == Exp(conds[1], env, h)
      Run(b, g) == LET r == Block(b, 1, env, g) IN [r EXCEPT !.env = env]
  IN IF conds = <<>> THEN IF blocks = <<>> THEN Nexts(env, h) ELSE Run(blocks[1], h)
     ELSE IF t.h.err THEN Nexts(env, t.h)
     ELSE IF ~False(One(t)) THEN Run(blocks[1], t.h) ELSE If(Tail(conds), Tail(blocks), env, t.h)
ForNum(x, i, limit, step, b, env, h) ==
  LET d == Declare(env, h, <<x>>, <<Num(i)>>)
      r == Block(b, 1, d.env, d.h)
  IN IF (IF step > 0 THEN i > limit ELSE i < limit) THEN Nexts(env, h)
     ELSE IF Stops(r) THEN Out(r, env) ELSE ForNum(x, i + step, limit, step, b, env, r.h)
ForIn(xs, v, b, env, h) ==
  LET a == Apply(Nth(v, 1), <<Nth(v, 2), Nth(v, 3)>>, h)
      d == Declare(env, a.h, xs, a.v)
      r == Block(b, 1, d.env, d.h)
  IN IF a.h.err \/ One(a) = Nil THEN Nexts(env, a.h)
     ELSE IF Stops(r) THEN Out(r, env) ELSE ForIn(xs, <<Nth(v, 1), Nth(v, 2), One(a)>>, b, env, r.h)

Stat(s, env, h) ==
  LET vs == Exps(s[3], env, h)
      d == Declare(env, vs.h, s[2], vs.v)
  IN CASE s[1] = "local" -> Nexts(d.env, d.h)
       [] s[1] = "assign" ->
            LET t == TargetsOf(s[2], env, h)
                x == Exps(s[3], env, t.h)
            IN Nexts(env, FoldLeft(LAMBDA g, i : IF g.err THEN g ELSE Store(env, g, t.v[i], Nth(x.v, i)),
                                   x.h, Reverse([i \in DOMAIN t.v |-> i])))
       [] s[1] = "callstat" -> Nexts(env, Exp(s[2], env, h).h)
       [] s[1] = "do" -> LET r == Block(s[2], 1, env, h) IN [r EXCEPT !.env = env]
       [] s[1] = "while" -> While(s[2], s[3], env, h)
       [] s[1] = "repeat" -> Repeat(s[2], s[3], env, h)
       [] s[1] = "if" -> If(s[2], s[3], env, h)
       [] s[1] = "fornum" ->
            LET step == IF Len(vs.v) = 2 THEN Num(1) ELSE Nth(vs.v, 3) IN
            IF vs.h.err \/ \E v \in {Nth(vs.v, 1), Nth(vs.v, 2), step} : ~IsNum(v)
            THEN Nexts(env, Raise(vs.h).h)
            ELSE ForNum(s[2], vs.v[1][2], vs.v[2][2], step[2], s[4], env, vs.h)
       [] s[1] = "forin" -> ForIn(s[2], vs.v, s[4], env, vs.h)
       [] s[1] = "localfunction" ->
            LET v == Declare(env, h, <<s[2]>>, <<>>)
                f == NewFunction(s[3], v.env, v.h)
            IN Nexts(v.env, Store(v.env, f.h, <<s[2]>>, One(f)))
       [] s[1] = "functionstat" ->
            LET path == IF s[3] = "" THEN s[2] ELSE Append(s[2], s[3])
                o == FoldLeft(LAMBDA r, x : Index(One(r), <<"str", x>>, r.h),
                              Exp(<<"name", path[1]>>, env, h), SubSeq(path, 2, Len(path) - 1))
                fn == IF s[3] = "" THEN s[4] ELSE [s[4] EXCEPT !.params = <<"self">> \o @]
                f == NewFunction(fn, env, IF Len(path) = 1 THEN h ELSE o.h)
            IN Nexts(env, IF Len(path) = 1 THEN Store(env, f.h, path, One(f))
                          ELSE IF f.h.err THEN f.h ELSE Assign(One(o), <<"str", Last(path)>>, One(f), f.h))
       [] s[1] = "return" -> LET x == Exps(s[2], env, h) IN Ends("return", x.v, env, x.h)
       [] s[1] = "break" -> Ends("break", <<>>, env, h)

Block(b, i, env, h) ==
  IF i > Len(b) \/ h.err THEN Nexts(env, h)
  ELSE LET r == Stat(b[i], env, h)
       IN IF r.k # "next" THEN r ELSE Block(b, i + 1, r.env, r.h)

\* The values the chunk b returns, or <<"error">>; tables and functions are
\* told apart from other values only.
Observed(v) == IF v[1] \in {"table", "function", "cfunction"} THEN <<v[1]>> ELSE v
Meaning(b, strs) ==
  LET h == [cells |-> << <<>> >>, funs |-> <<>>, err |-> FALSE, strs |-> strs,
            tabs |-> <<[h |-> (<<"str", "setmetatable">> :> <<"cfunction", "setmetatable">>), mt |-> Nil]>>]
      r == Block(b, 1, [x \in {"..."} |-> 1], h)
  IN IF r.h.err THEN <<"error">>
     ELSE IF r.k = "return" THEN [i \in DOMAIN r.v |-> Observed(r.v[i])] ELSE <<>>
=============================================================================
