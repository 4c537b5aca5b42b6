------------------------------- MODULE Program -------------------------------
(* A chunk from its text, or from its precompiled form, to its results: the   *)
(* parser, the dump and load of its code, and the interpreter together, held  *)
(* to the meaning the reference manual gives the program.                     *)
EXTENDS Interpreter, Chunk

CONSTANTS Compile(_),  \* loads a text: luaY_parser
          Undump(_),   \* loads a precompiled chunk: luaU_undump
          Means(_, _), \* the results of a program, given an order of strings: Meaning
          Programs,    \* syntax trees of programs, as module Meaning has them
          Illegal,     \* token sequences that are no program
          Dumped,      \* the programs that are also precompiled
          MaxRoom      \* more items than a precompiled program has

M == INSTANCE Meaning

TextOf(p) == IF p \in Illegal THEN p ELSE M!Tokens(p)
Results == [s \in 1 .. L.top - 1 |-> M!Observed(L.stack[s])]
NoFunction == Proto(open_func(<<>>, 1, 0, FALSE, <<>>))

Init == source \in Programs \cup Illegal /\ main = NoFunction /\ L = [status |-> "start"]

\* f_parser of a text: a syntax error, or a function.
LoadText ==
  /\ L.status = "start"
  /\ LET g == Compile(TextOf(source)) IN
     IF g.err THEN main' = main /\ L' = [status |-> "syntax error"]
     ELSE main' = Proto(g) /\ L' = [status |-> "loaded"]
  /\ UNCHANGED source

\* The function is dumped to a writer that takes so much, and f_parser loads
\* what was written in the place of it.
Reload ==
  /\ L = [status |-> "loaded"] /\ source \in Dumped
  /\ \E strip \in BOOLEAN : \E room \in 0 .. Len(luaU_dump(main, MaxRoom, strip).out) :
       LET D == luaU_dump(main, room, strip)
           S == Undump(D.out)
       IN IF S.error # "" THEN main' = main /\ L' = [status |-> "bad chunk", dump |-> D.status]
          ELSE main' = S.v /\ L' = [status |-> "loaded", dump |-> D.status]
  /\ UNCHANGED source

Call == L.status = "loaded" /\ L' = Started(main) @@ L /\ UNCHANGED <<source, main>>

Next == LoadText \/ Reload \/ Call \/ Execute

Spec == Init /\ [][Next]_vars

-----------------------------------------------------------------------------
RECURSIVE Functions(_)
Functions(f) == {f} \cup UNION {Functions(f.p[i]) : i \in DOMAIN f.p}

\* The compiler, the registers it hands out, its jump lists and the tests that
\* keep a value in place, the closing of upvalues where a block, a loop, a
\* function or a break leaves them, the multiple results and the tag methods
\* give every program the values it means, or the error, and no other text is
\* accepted (lparser.c, lcode.c, lvm.c).
ComputesMeaning ==
  /\ L.status = "done" => source \in Programs /\ Results = Means(source, Collation)
  /\ L.status = "error" => source \in Programs /\ Means(source, Collation) = <<"error">>
  /\ L.status = "syntax error" => source \in Illegal

\* lua_assert(luaG_checkcode(f)) at the end of close_func (lparser.c:374): the
\* code of every function names registers, constants and upvalues it has, and
\* its jumps and open calls are in place.
CodeChecks == L.status = "loaded" => \A f \in Functions(main) : luaG_checkcode(f)

\* A dump that was written whole loads, nested functions and all; one cut short
\* by its writer never does (luaU_dump's status, lundump.c's "unexpected end").
CutNeverLoads ==
  "dump" \in DOMAIN L => (L.dump = 0) = (L.status # "bad chunk")

\* The registers of a function that functions inside it share with it.
Captured(f) ==
  UNION {{f.code[pc + j].b : j \in {n \in 1 .. f.p[f.code[pc].b + 1].nups : f.code[pc + n].op = "MOVE"}}
           : pc \in {q \in DOMAIN f.code : f.code[q].op = "CLOSURE"}}

\* An open upvalue stands for a captured register of a function that is still
\* running, never for a register some later call has taken over: luaF_close at
\* every return and tail call (lvm.c:621, lvm.c:642) and at every CLOSE.
UpvaluesLive ==
  L.status = "run" =>
    \A u \in DOMAIN L.upvals : L.upvals[u][1] = "open" =>
      \E i \in DOMAIN L.ci :
        L.upvals[u][2] - L.ci[i].base \in Captured(ProtoOf(L.closures[L.ci[i].cl]))
=============================================================================
