------------------------------ MODULE MCProgram ------------------------------
(* The programs the compiler and the interpreter are checked on: each small,  *)
(* and together reaching every construct, every opcode and every jump list.   *)
EXTENDS Program

Var(x) == <<"name", x>>
I1(n) == <<"num", n>>
Str(s) == <<"str", s>>
NilExp == <<"nil">>
True == <<"true">>
False == <<"false">>
Dots == <<"...">>
Op(o, a, b) == <<"bin", o, a, b>>
Un(o, a) == <<"un", o, a>>
Paren(e) == <<"paren", e>>
Ap(f, es) == <<"call", Var(f), es>>
At1(t, e) == <<"index", t, e>>
Dot(t, x) == <<"index", t, Str(x)>>
Send(o, x, es) == <<"method", o, x, es>>
Fun(params, b) == <<"function", [params |-> params, dots |-> "", body |-> b]>>
FunDots(params, b) == <<"function", [params |-> params, dots |-> "...", body |-> b]>>
Tab(fields) == <<"table", fields>>
Item(e) == <<"item", e>>
Named(x, e) == <<"named", x, e>>
Keyed(k, e) == <<"keyed", k, e>>

Locals(xs, es) == <<"local", xs, es>>
Local(x, e) == <<"local", <<x>>, <<e>> >>
Assigns(ts, es) == <<"assign", ts, es>>
Assign(x, e) == <<"assign", <<Var(x)>>, <<e>> >>
Do1(b) == <<"do", b>>
Run(e) == <<"callstat", e>>
While(c, b) == <<"while", c, b>>
Repeat(b, c) == <<"repeat", b, c>>
If(c, b) == <<"if", <<c>>, <<b>> >>
IfElse(cs, bs) == <<"if", cs, bs>>
For(x, es, b) == <<"fornum", x, es, b>>
ForIn(xs, es, b) == <<"forin", xs, es, b>>
LocalFun(x, params, b) == <<"localfunction", x, Fun(params, b)[2]>>
LocalDots(x, params, b) == <<"localfunction", x, FunDots(params, b)[2]>>
LocalArg(x, params, b) == <<"localfunction", x, [params |-> params, dots |-> "arg", body |-> b]>>
FunStat(xs, m, params, b) == <<"functionstat", xs, m, Fun(params, b)[2]>>
Return(es) == <<"return", es>>
Break == <<"break">>
Inc(x) == Assign(x, Op("+", Var(x), I1(1)))
Call0(e) == <<"call", e, <<>> >>

-----------------------------------------------------------------------------
\* Closures that outlive the block, the turn of the loop or the call they share.
LoopClosures == <<
  Local("fs", Tab(<<>>)),
  For("i", <<I1(1), I1(3)>>, <<
    Local("j", Op("*", Var("i"), I1(10))),
    Assigns(<<At1(Var("fs"), Var("i"))>>, <<Fun(<<>>, <<Inc("j"), Return(<<Op("+", Var("j"), Var("i"))>>)>>)>>),
    If(Op("==", Var("i"), I1(2)), <<Break>>)>>),
  Return(<<Call0(At1(Var("fs"), I1(1))), Call0(At1(Var("fs"), I1(1))), Call0(At1(Var("fs"), I1(2))),
           At1(Var("fs"), I1(3))>>)>>

WhileClosures == <<
  Locals(<<"f", "g">>, <<>>), Local("i", I1(0)),
  While(True, <<
    Local("x", Var("i")),
    Assigns(<<Var("g"), Var("f")>>, <<Var("f"), Fun(<<>>, <<Inc("x"), Return(<<Var("x")>>)>>)>>),
    Inc("i"),
    If(Op(">=", Var("i"), I1(2)), <<Break>>)>>),
  Local("y", I1(50)),
  Return(<<Ap("f", <<>>), Ap("f", <<>>), Ap("g", <<>>), Var("i"), Var("y")>>)>>

RepeatClosures == <<
  Local("fs", Tab(<<>>)), Local("i", I1(0)),
  Repeat(<<Inc("i"), Local("x", Var("i")),
           Assigns(<<At1(Var("fs"), Var("i"))>>, <<Fun(<<>>, <<Return(<<Var("x")>>)>>)>>)>>,
         Op("==", Var("x"), I1(2))),
  Return(<<Var("i"), Call0(At1(Var("fs"), I1(1))), Call0(At1(Var("fs"), I1(2)))>>)>>

SharedUpvalue == <<
  LocalFun("counter", <<>>, <<
    Local("c", I1(0)),
    Return(<<Fun(<<>>, <<Return(<<Fun(<<>>, <<Inc("c"), Return(<<Var("c")>>)>>)>>)>>),
             Fun(<<"n">>, <<Assign("c", Var("n"))>>)>>)>>),
  Locals(<<"make", "set">>, <<Ap("counter", <<>>)>>),
  Locals(<<"a", "b">>, <<Ap("make", <<>>), Ap("make", <<>>)>>),
  Run(Ap("a", <<>>)), Run(Ap("b", <<>>)),
  Local("two", Ap("a", <<>>)), Run(Ap("set", <<I1(7)>>)),
  Return(<<Var("two"), Ap("b", <<>>)>>)>>

BlockReuse == <<
  Local("f", NilExp),
  Do1(<<Local("x", I1(1)), Assign("f", Fun(<<>>, <<Return(<<Var("x")>>)>>))>>),
  Do1(<<Local("y", I1(2)), Inc("y")>>),
  Return(<<Ap("f", <<>>)>>)>>

TailClosures == <<
  Local("k", NilExp),
  LocalFun("f", <<"n">>, <<
    If(Op("==", Var("n"), I1(0)), <<Return(<<Ap("k", <<>>)>>)>>),
    If(Op("==", Var("n"), I1(2)), <<Assign("k", Fun(<<>>, <<Return(<<Var("n")>>)>>))>>),
    Return(<<Ap("f", <<Op("-", Var("n"), I1(1))>>)>>)>>),
  Return(<<Ap("f", <<I1(3)>>)>>)>>

\* Several targets and several values at once.
Targets == <<
  Local("a", Tab(<<>>)), Local("i", I1(1)), Local("t", Var("a")),
  Assigns(<<Var("i"), At1(Var("a"), Var("i"))>>, <<Op("+", Var("i"), I1(1)), I1(20)>>),
  Assigns(<<Var("t"), Dot(Var("t"), "x")>>, <<I1(1), I1(2)>>),
  Locals(<<"x", "y", "z">>, <<I1(1), I1(2)>>),
  Assigns(<<Var("x"), Var("y")>>, <<Var("y"), Var("x")>>),
  Assigns(<<Var("z"), Var("w")>>, <<Paren(Var("x")), I1(8), Call0(Paren(Fun(<<>>, <<>>)))>>),
  Return(<<Var("i"), At1(Var("a"), I1(1)), At1(Var("a"), I1(2)), Var("t"), Dot(Var("a"), "x"),
           Var("x"), Var("y"), Var("z"), Var("w")>>)>>

Varargs == <<
  LocalDots("f", <<>>, <<Return(<<Dots>>)>>),
  LocalDots("g", <<"a">>, <<Locals(<<"b", "c">>, <<Dots>>), Return(<<Var("c"), Var("b"), Var("a"), Paren(Dots)>>)>>),
  LocalArg("h", <<"a">>, <<Return(<<Dot(Var("arg"), "n"), At1(Var("arg"), I1(2))>>)>>),
  Locals(<<"p", "q", "r">>, <<Ap("f", <<I1(1), I1(2)>>)>>),
  Local("t", Tab(<<Item(Ap("f", <<I1(1), I1(2)>>)), Item(Ap("f", <<I1(3), I1(4)>>))>>)),
  Return(<<Var("p"), Var("q"), Var("r"), Un("#", Var("t")), Paren(Ap("f", <<I1(4), I1(5)>>)), Ap("h", <<I1(7), I1(8), I1(9)>>),
           Ap("g", <<I1(1)>>), Ap("g", <<I1(1), I1(2), I1(3)>>)>>)>>

Constructors == <<
  LocalFun("m", <<>>, <<Return(<<I1(7), I1(8), I1(9)>>)>>),
  Local("t", Tab(<<Item(I1(1)), Item(I1(2)), Named("x", I1(5)), Item(I1(3)), Keyed(Str("y"), I1(6)), Item(Ap("m", <<>>))>>)),
  Local("u", Tab(<<Item(Ap("m", <<>>)), Item(Paren(Ap("m", <<>>)))>>)),
  Return(<<Un("#", Var("t")), At1(Var("t"), I1(3)), At1(Var("t"), I1(6)), Dot(Var("t"), "x"),
           Dot(Var("t"), "y"), Un("#", Var("u")), Un("#", Str("abc"))>>)>>

Methods == <<
  Local("o", Tab(<<Named("n", I1(1))>>)),
  FunStat(<<"o">>, "inc", <<"k">>, <<
    Assigns(<<Dot(Var("self"), "n")>>, <<Op("+", Dot(Var("self"), "n"), Var("k"))>>), Return(<<Var("self")>>)>>),
  FunStat(<<"o", "get">>, "", <<"s">>, <<Return(<<Dot(Var("s"), "n")>>)>>),
  FunStat(<<"top">>, "", <<>>, <<Return(<<Var("o")>>)>>),
  Return(<<Send(Send(Send(Ap("top", <<>>), "inc", <<I1(2)>>), "inc", <<I1(3)>>), "get", <<>>)>>)>>

\* Loops.
Generic == <<
  LocalFun("iter", <<"s", "c">>, <<If(Op("<", Var("c"), Var("s")), <<Return(<<Op("+", Var("c"), I1(1)), Op("*", Var("c"), Var("c"))>>)>>)>>),
  Locals(<<"sum", "f">>, <<I1(0)>>),
  ForIn(<<"a", "b">>, <<Var("iter"), I1(3), I1(0)>>, <<
    Assign("sum", Op("+", Var("sum"), Op("*", Var("a"), Var("b")))),
    If(Op("==", Var("a"), I1(2)), <<Assign("f", Fun(<<>>, <<Return(<<Var("a")>>)>>))>>)>>),
  Return(<<Var("sum"), Ap("f", <<>>)>>)>>

Numeric == <<
  Local("s", Str("")),
  For("i", <<I1(3), I1(1), Un("-", I1(1))>>, <<
    For("j", <<Var("i"), I1(2)>>, <<Assign("s", Op("..", Var("s"), Op("..", Var("i"), Op("..", Var("j"), Str("a")))))>>)>>),
  Return(<<Var("s")>>)>>

Nested == <<
  Locals(<<"i", "n">>, <<I1(0), I1(0)>>),
  While(Op("<", Var("i"), I1(3)), <<
    Inc("i"),
    Repeat(<<Inc("n"), If(Op("==", Var("i"), I1(2)), <<Break>>)>>, Op(">", Var("n"), I1(3))),
    IfElse(<<Op("==", Var("i"), I1(1)), Op("==", Var("i"), I1(2))>>,
           << <<Assign("n", Op("*", Var("n"), I1(2)))>>, <<Assign("n", Op("%", Var("n"), I1(5)))>>,
              <<Assign("n", Op("-", Var("n"), I1(9)))>> >>)>>),
  Return(<<Var("i"), Var("n")>>)>>

Constants == <<
  Locals(<<"a", "b", "t">>, <<I1(11), I1(12), Tab(<<Named("k", I1(13))>>)>>),
  Assign("c", Op("+", Op("-", Var("a"), I1(14)), Op("*", I1(3), I1(5)))),
  Assigns(<<Dot(Var("t"), "z")>>, <<Op("..", Str("a"), Str("b"))>>),
  If(Op("~=", Dot(Var("t"), "k"), I1(16)), <<Assigns(<<Dot(Var("t"), "v")>>, <<True>>)>>),
  Return(<<Var("c"), Dot(Var("t"), "z"), Dot(Var("t"), "v"), Un("-", Op("%", Un("-", I1(7)), I1(3))), Op("==", Var("b"), I1(12))>>)>>

NotANumber == <<
  Local("n", Op("%", I1(0), I1(0))),
  Return(<<Op("==", Var("n"), Var("n")), Op("~=", Var("n"), Var("n")), Op("<", Var("n"), I1(1)), Op(">=", Var("n"), I1(1)),
           Un("not", Op("<", Var("n"), I1(1))), Op("<=", Str("a"), Str("b")), Op(">", Str("a"), Str("b"))>>)>>

\* Tag methods.
Meta(fields) == <<"call", Var("setmetatable"), <<Tab(<<>>), Tab(fields)>> >>
Getter(params, e) == Fun(params, <<Return(<<e>>)>>)
Arithmetic == <<
  Local("log", Str("")),
  Local("mt", Tab(<<Named("__add", Getter(<<"a", "b">>, Op("==", Var("b"), I1(2)))),
                    Named("__concat", Fun(<<"a", "b">>, <<If(Op("==", Var("b"), Str("b")), <<Return(<<Str("c")>>)>>), Return(<<Var("a")>>)>>)),
                    Named("__unm", Getter(<<"a">>, I1(6))),
                    Named("__call", FunDots(<<"s", "x">>, <<Return(<<Var("x"), Dots>>)>>))>>)),
  Local("o", Ap("setmetatable", <<Tab(<<>>), Var("mt")>>)),
  Return(<<Op("+", Var("o"), I1(2)), Op("+", I1(1), Var("o")), Op("..", Str("a"), Op("..", Var("o"), Str("b"))),
           Un("-", Var("o")), Ap("o", <<I1(3), I1(4)>>)>>)>>

Ordering == <<
  Local("mt", Tab(<<>>)),
  Locals(<<"a", "b">>, <<Ap("setmetatable", <<Tab(<<Named("v", I1(1))>>), Var("mt")>>),
                         Ap("setmetatable", <<Tab(<<Named("v", I1(2))>>), Var("mt")>>)>>),
  Assigns(<<Dot(Var("mt"), "__lt")>>, <<Getter(<<"x", "y">>, Op("<", Dot(Var("x"), "v"), Dot(Var("y"), "v")))>>),
  Locals(<<"p", "q", "r">>, <<Op("<", Var("a"), Var("b")), Op("<=", Var("a"), Var("b")), Op("==", Var("a"), Var("b"))>>),
  Assigns(<<Dot(Var("mt"), "__eq"), Dot(Var("mt"), "__le")>>, <<Getter(<<"x", "y">>, I1(1)), Getter(<<>>, NilExp)>>),
  Return(<<Var("p"), Var("q"), Var("r"), Op("==", Var("a"), Var("b")), Op("~=", Var("a"), Var("b")),
           Op(">=", Var("a"), Var("b")), Op("==", Var("a"), I1(1))>>)>>

Indexing == <<
  Local("base", Tab(<<Named("x", I1(1))>>)),
  Local("log", Tab(<<>>)),
  Local("o", Meta(<<Named("__index", Meta(<<Named("__index", Var("base"))>>)),
                    Named("__newindex", Fun(<<"t", "k", "v">>, <<Assigns(<<At1(Var("log"), Var("k"))>>, <<Var("v")>>)>>))>>)),
  Local("f", Meta(<<Named("__index", Getter(<<"t", "k">>, Op("..", Var("k"), Str("a")))), Named("__newindex", Var("base"))>>)),
  Assigns(<<Dot(Var("o"), "y"), Dot(Var("f"), "x")>>, <<I1(4), I1(5)>>),
  Return(<<Dot(Var("o"), "x"), Dot(Var("o"), "y"), Dot(Var("log"), "y"), Dot(Var("f"), "x")>>)>>

\* Constructors whose expression begins where a condition jumps to.
Defaults == <<
  Locals(<<"t", "u">>, <<NilExp, True>>),
  Assign("t", Op("or", Var("t"), Tab(<<Named("x", I1(5))>>))),
  Assign("u", Op("and", Var("u"), Tab(<<Item(I1(6)), Item(Op("or", Dot(Var("t"), "y"), I1(7)))>>))),
  Local("s", Op("or", Dot(Var("t"), "y"), Op("and", Un("not", Var("u")), Tab(<<>>)))),
  IfElse(<<Op("and", Var("s"), Var("t"))>>, << <<Assign("s", Tab(<<>>))>>, <<Assign("s", Tab(<<Keyed(Var("s"), Op("and", Var("t"), I1(8)))>>))>> >>),
  While(Op("or", Op("==", Dot(Var("t"), "x"), I1(5)), Var("z")), <<Local("w", Tab(<<Named("x", I1(9))>>)), Assign("t", Op("and", Var("w"), Var("w")))>>),
  Return(<<Dot(Var("t"), "x"), At1(Var("u"), I1(1)), At1(Var("u"), I1(2)), At1(Var("s"), False)>>)>>

Handwritten == {LoopClosures, WhileClosures, RepeatClosures, SharedUpvalue, BlockReuse, TailClosures,
                Targets, Varargs, Constructors, Methods, Generic, Numeric, Nested, Constants,
                NotANumber, Arithmetic, Ordering, Indexing, Defaults}

\* Programs that raise an error while they run.  No table takes the key nil, and neither
\* a table nor a function that handles __newindex is asked.
Handled(tm, key) == <<
  Local("o", Meta(<<Named("__newindex", tm)>>)),
  Assigns(<<At1(Var("o"), key)>>, <<I1(1)>>)>>
Failing == {
  Handled(Fun(<<>>, <<>>), NilExp), Handled(Tab(<<>>), NilExp), Handled(Fun(<<>>, <<>>), Op("%", I1(0), I1(0))),
  <<Return(<<Tab(<<Keyed(NilExp, I1(1))>>)>>)>>,
  <<For("i", <<Str("a"), I1(2)>>, <<>>)>>,
  <<Run(Ap("nothing", <<I1(1)>>))>>,
  <<Return(<<Dot(Var("nothing"), "x")>>)>>,
  <<Assigns(<<Dot(Var("nothing"), "x")>>, <<I1(1)>>)>>,
  <<Return(<<Op("+", NilExp, I1(1))>>)>>,
  <<Return(<<Op("..", Str("a"), NilExp)>>)>>,
  <<Return(<<Op("<", I1(1), Str("a"))>>)>>,
  <<Return(<<Op("<", Tab(<<>>), Tab(<<>>))>>)>>,
  <<Return(<<Un("#", I1(3))>>)>>,
  <<Local("t", Tab(<<>>)), Assigns(<<At1(Var("t"), NilExp)>>, <<I1(1)>>)>>,
  <<Local("t", Tab(<<>>)), Assigns(<<At1(Var("t"), Op("%", I1(0), I1(0)))>>, <<I1(1)>>)>>}

\* Conditions, compiled for their value and for the jump they decide.
Atoms == {Var("a"), Var("b"), NilExp, True, Un("not", Var("b")), Op("==", Var("a"), Var("b"))}
Joined2(X, Y) == {Op(o, x, y) : o \in {"and", "or"}, x \in X, y \in Y}
Simple == Atoms \cup Joined2(Atoms, Atoms)
Conditions == Joined2(Simple, Atoms) \cup Joined2(Atoms, Simple) \cup {Un("not", c) : c \in Joined2(Atoms, Atoms)}
Values == <<Locals(<<"a", "b">>, <<False, I1(2)>>)>>
ValueOf(c) == Values \o <<Local("v", c), Return(<<Var("v")>>)>>
Decided(c) == Values \o <<If(c, <<Return(<<I1(1)>>)>>), Return(<<I1(2)>>)>>
Looped(c) == Values \o <<While(c, <<Return(<<I1(1)>>)>>), Return(<<c>>)>>
Conditional == {ValueOf(c) : c \in Conditions} \cup {Decided(c) : c \in Conditions} \cup {Looped(c) : c \in Simple}

MCPrograms == Handwritten \cup Failing \cup Conditional
MCDumped == {SharedUpvalue, Constants}

W(words) == [i \in DOMAIN words |-> <<words[i]>>]
NameT(x) == <<"NAME", x>>
Rep(n, ts) == FlattenSeq([i \in 1 .. n |-> ts])
\* Texts the parser must refuse: misplaced or missing words, and each limit passed by one.
MCIllegal == {
  W(<<"break", "EOS">>),
  <<NameT("x"), <<"EOS">> >>,
  <<NameT("f"), <<"(">>, <<")">>, <<"=">>, <<"nil">>, <<"EOS">> >>,
  <<NameT("x"), <<",">>, <<"(">>, NameT("y"), <<")">>, <<"=">>, <<"nil">>, <<"EOS">> >>,
  W(<<"return", "nil", "nil", "EOS">>),
  W(<<"while", "true", "nil", "end", "EOS">>),
  W(<<"if", "true", "then", "EOS">>),
  W(<<"return", "function", "(", ")", "return", "...", "end", "EOS">>),
  <<<<"for">>, NameT("i"), <<"do">>, <<"end">>, <<"EOS">> >>,
  Rep(MAXVARS + 1, << <<"local">>, NameT("x")>>) \o <<<<"EOS">> >>,
  W(<<"return">>) \o Rep(MAXCCALLS, << <<"(">> >>) \o W(<<"nil">>) \o Rep(MAXCCALLS, << <<")">> >>) \o W(<<"EOS">>),
  W(<<"return", "nil">>) \o Rep(MAXSTACK, W(<<",", "nil">>)) \o W(<<"EOS">>)}

MCMeans(p, strs) == LET results == M!Meaning(p, strs) IN results

MCCollation == <<"", "a", "b">>
=============================================================================
