----------------------------- MODULE CodeChecker -----------------------------
(* The check of a function's code (ldebug.c): symbexec run over the whole     *)
(* function with no register to trace, which is what the loader of            *)
(* precompiled chunks and the assertion at the end of the parser ask for.     *)
(* lineinfo and names are the sizes of the debug tables of a function.        *)
EXTENDS CodeGenerator

ArithOpcodes == {"ADD", "SUB", "MUL", "MOD"}
CompareOpcodes == {"EQ", "LT", "LE"}
iABx == {"LOADK", "GETGLOBAL", "SETGLOBAL", "CLOSURE"}
iAsBx == {"JMP", "FORLOOP", "FORPREP"}

\* The columns B and C of luaP_opmodes.
getBMode(op) ==
  CASE op \in {"MOVE", "LOADNIL", "GETTABLE", "SELF", "UNM", "NOT", "LEN", "CONCAT",
               "TEST", "TESTSET"} \cup iAsBx -> "R"
    [] op \in {"LOADK", "GETGLOBAL", "SETGLOBAL", "SETTABLE"} \cup ArithOpcodes \cup CompareOpcodes -> "K"
    [] op \in {"TFORLOOP", "CLOSE"} -> "N"
    [] OTHER -> "U"
getCMode(op) ==
  CASE op \in {"GETTABLE", "SETTABLE", "SELF"} \cup ArithOpcodes \cup CompareOpcodes -> "K"
    [] op = "CONCAT" -> "R"
    [] op \in {"LOADBOOL", "NEWTABLE", "TEST", "TESTSET", "CALL", "TAILCALL", "TFORLOOP", "SETLIST"} -> "U"
    [] OTHER -> "N"

checkreg(pt, reg) == reg < pt.maxstack
Instr(pt, pc) == pt.code[pc + 1]
sizecode(pt) == Len(pt.code)

precheck(pt) ==
  /\ pt.maxstack <= MAXSTACK
  /\ pt.numparams + (IF "HASARG" \in pt.vararg THEN 1 ELSE 0) <= pt.maxstack
  /\ "NEEDSARG" \in pt.vararg => "HASARG" \in pt.vararg
  /\ pt.names <= pt.nups
  /\ pt.lineinfo \in {sizecode(pt), 0}
  /\ sizecode(pt) > 0 /\ Last(pt.code).op = "RETURN"

\* What follows an instruction that leaves an open number of values.
luaG_checkopenop(i) == i.op \in {"CALL", "TAILCALL", "RETURN", "SETLIST"} /\ i.b = 0

checkArgMode(pt, r, mode) ==
  CASE mode = "N" -> r = 0
    [] mode = "U" -> TRUE
    [] mode = "R" -> checkreg(pt, r)
    [] mode = "K" -> IF ISK(r) THEN INDEXK(r) < Len(pt.k) ELSE checkreg(pt, r)

CheckOperands(pt, pc, i) ==
  /\ checkreg(pt, i.a)
  /\ IF i.op \in iABx THEN getBMode(i.op) = "K" => i.b < Len(pt.k)
     ELSE IF i.op \in iAsBx THEN pc + 1 + i.b \in 0 .. sizecode(pt) - 1
     ELSE checkArgMode(pt, i.b, getBMode(i.op)) /\ checkArgMode(pt, i.c, getCMode(i.op))
  /\ i.op \in TestOps => pc + 2 < sizecode(pt) /\ Instr(pt, pc + 1).op = "JMP"

CheckOpcode(pt, pc, i) ==
  CASE i.op = "LOADBOOL" -> i.c = 1 => pc + 2 < sizecode(pt)
    [] i.op \in {"GETUPVAL", "SETUPVAL"} -> i.b < pt.nups
    [] i.op \in {"GETGLOBAL", "SETGLOBAL"} -> pt.k[i.b + 1][1] = "str"
    [] i.op = "SELF" -> checkreg(pt, i.a + 1)
    [] i.op = "CONCAT" -> i.b < i.c
    [] i.op = "TFORLOOP" -> i.c >= 1 /\ checkreg(pt, i.a + 2 + i.c)
    [] i.op \in {"FORLOOP", "FORPREP"} -> checkreg(pt, i.a + 3)
    [] i.op \in {"CALL", "TAILCALL"} ->
         /\ i.b # 0 => checkreg(pt, i.a + i.b - 1)
         /\ i.c = 0 => luaG_checkopenop(Instr(pt, pc + 1))
         /\ i.c > 1 => checkreg(pt, i.a + i.c - 2)
    [] i.op = "RETURN" -> i.b > 1 => checkreg(pt, i.a + i.b - 2)
    [] i.op = "SETLIST" -> i.b > 0 => checkreg(pt, i.a + i.b)
    [] i.op = "CLOSURE" ->
         /\ i.b < Len(pt.p) /\ pc + pt.p[i.b + 1].nups < sizecode(pt)
         /\ \A j \in 1 .. pt.p[i.b + 1].nups : Instr(pt, pc + j).op \in {"GETUPVAL", "MOVE"}
    [] i.op = "VARARG" ->
         /\ "ISVARARG" \in pt.vararg /\ "NEEDSARG" \notin pt.vararg
         /\ i.b = 0 => luaG_checkopenop(Instr(pt, pc + 1))
         /\ checkreg(pt, i.a + i.b - 2)
    [] OTHER -> TRUE

luaG_checkcode(pt) ==
  /\ precheck(pt)
  /\ \A pc \in 0 .. sizecode(pt) - 1 :
       CheckOperands(pt, pc, Instr(pt, pc)) /\ CheckOpcode(pt, pc, Instr(pt, pc))
=============================================================================
