-------------------------------- MODULE Calls --------------------------------
(***************************************************************************)
(* Calls, errors, hooks and coroutines of the Lua core (ldo.c and the      *)
(* functions of lbaselib.c and ldebug.c above it).                         *)
(*                                                                         *)
(* Two stacks grow together: every thread has its CallInfo array, one      *)
(* entry for each active function, and all threads share the C stack,      *)
(* which holds the activations of luaV_execute, luaD_call, luaD_pcall,     *)
(* lua_resume, luaG_errormsg and luaD_callhook.  A C function that raises  *)
(* an error jumps over any number of both.  What a Lua function does next  *)
(* is free: call, return, fail, run out of memory, be interrupted by a     *)
(* hook.  Values and the stack that holds them are left out.               *)
(***************************************************************************)
EXTENDS Naturals, Sequences, FiniteSets, SequencesExt, FiniteSetsExt

CONSTANTS
  Main,             \* the main thread
  Coroutines,       \* threads that a program may create
  LUAI_MAXCCALLS,   \* nested C calls ...
  CCallsSlack,      \* ... and how many more while an error is handled (LUAI_MAXCCALLS>>3)
  LUAI_MAXCALLS,    \* entries of a CallInfo array before it overflows
  BASIC_CI_SIZE,    \* entries it is created with
  MaxFrames         \* bound: Lua functions call no further when so many functions are active

ASSUME Limits ==
  /\ Main \notin Coroutines
  /\ {LUAI_MAXCCALLS, CCallsSlack, LUAI_MAXCALLS} \subseteq Nat \ {0}
  /\ BASIC_CI_SIZE \in 2..LUAI_MAXCALLS

VARIABLES
  th,     \* the lua_State of every thread
  cstack, \* the C stack: activations of the core's functions, innermost last
  todo    \* what the innermost one does next

vars == <<th, cstack, todo>>

Threads == {Main} \cup Coroutines

\* C functions that a program calls; "done" is one that has its results and returns.  (One
\* that only calls back differs from a Lua function with a metamethod in nothing here.)
CFunctions == {"pcall", "xpcall", "resume", "wrap", "yield"}
Functions == {"lua"} \cup CFunctions

Run == <<"run">>
Back == <<"back">>            \* return to the activation below
Call(f) == <<"luaD_call", f>>
Raise == <<"luaG_errormsg">>
Throw(err) == <<"luaD_throw", err>>

Top == Last(cstack)
Cur == IF cstack = <<>> THEN Main ELSE Top.t
L == th[Cur]
f_isLua == Last(L.ci) = "lua"

\* "ci" of an activation is history, but for that of luaD_pcall, which saves it: how many
\* functions of its thread were active below it.
Activation(k, t, depth) == [k |-> k, t |-> t, ci |-> depth]
Activated(k) == Append(cstack, Activation(k, Cur, Len(L.ci)))
luaV_execute(t, n, depth) == [k |-> "execute", t |-> t, nexeccalls |-> n, ci |-> depth]

HasRoom == MapThenSumSet(LAMBDA t : Len(th[t].ci) - 1, Threads) < MaxFrames

\* One step of the running thread: its new state, the C stack, what comes next.
Does(l, c, next) == /\ th' = [th EXCEPT ![Cur] = l]
                    /\ cstack' = c
                    /\ todo' = next

\* The C function on top of l has done its work.
Served(l) == IF Len(l.ci) = 1 THEN l ELSE [l EXCEPT !.ci = Append(Front(@), "done")]

-----------------------------------------------------------------------------
(* Calls.                                                                  *)

luaD_reallocCI(l, n) == [l EXCEPT !.size_ci = n]

Entered(l, f) == [l EXCEPT !.ci = Append(@, f)]

\* A full array is doubled, and beyond its limit used only to handle the overflow.
growCI(l, f, c, running) ==
  LET bigger == luaD_reallocCI(l, 2 * l.size_ci)
  IN  IF l.size_ci > LUAI_MAXCALLS THEN Does(l, c, Throw("ERRERR"))
      ELSE IF bigger.size_ci > LUAI_MAXCALLS THEN Does(bigger, c, Raise)
      ELSE Does(Entered(bigger, f), running, Run)

\* Function f is called with the C stack c, which is "running" once f has its entry.
luaD_precall(l, f, c, running) ==
  \/ Len(l.ci) < l.size_ci /\ Does(Entered(l, f), running, Run)
  \/ Len(l.ci) = l.size_ci /\ growCI(l, f, c, running)

\* OP_CALL: a Lua function runs in the same activation of luaV_execute.
OpCall(f) ==
  /\ todo = Run /\ cstack # <<>> /\ f_isLua /\ HasRoom
  /\ luaD_precall(L, f, cstack,
                  IF f = "lua" THEN [cstack EXCEPT ![Len(cstack)].nexeccalls = @ + 1] ELSE cstack)

\* Mutant: an error while an overflow is handled is noticed one call later.
ExhaustedLate(l) == l.nCcalls > LUAI_MAXCCALLS + CCallsSlack

Exhausted(l) == l.nCcalls >= LUAI_MAXCCALLS + CCallsSlack

\* luaD_call: a metamethod, lua_call, the function of a luaD_pcall, a handler or a hook.
luaD_call ==
  /\ todo[1] = "luaD_call"
  /\ LET l == [L EXCEPT !.nCcalls = @ + 1]
         c == Activated("call")
         f == todo[2]
     IN  \/ /\ l.nCcalls = LUAI_MAXCCALLS
            /\ Does(l, c, Raise)           \* C stack overflow
         \/ /\ Exhausted(l)
            /\ Does(l, c, Throw("ERRERR"))
         \/ /\ l.nCcalls # LUAI_MAXCCALLS /\ ~Exhausted(l)
            /\ luaD_precall(l, f, c, IF f = "lua" THEN Append(c, luaV_execute(Cur, 1, Len(L.ci))) ELSE c)

\* A metamethod is called.
callTMres ==
  /\ todo = Run /\ cstack # <<>> /\ f_isLua /\ HasRoom
  /\ \E f \in {"lua", "yield"} : Does(L, cstack, Call(f))

\* luaD_poscall drops the frame.
luaD_poscall(l) == [l EXCEPT !.ci = Front(@)]

\* OP_RETURN.
OpReturn ==
  /\ todo = Run /\ cstack # <<>> /\ f_isLua
  /\ IF Top.nexeccalls = 1
     THEN Does(luaD_poscall(L), Front(cstack), Back)
     ELSE Does(luaD_poscall(L), [cstack EXCEPT ![Len(cstack)].nexeccalls = @ - 1], Run)

\* A C function returns its results to luaD_precall.
CReturn ==
  /\ todo = Run /\ cstack # <<>> /\ Last(L.ci) = "done"
  /\ Does(luaD_poscall(L), cstack, IF Top.k = "execute" THEN Run ELSE Back)

\* luaD_call returns to who called it: luaD_pcall, luaG_errormsg and a hook go on.
ReturnFromCall ==
  /\ todo = Back /\ Top.k = "call"
  /\ LET c == Front(cstack)
     IN  Does([L EXCEPT !.nCcalls = @ - 1], c,
              IF Last(c).k \in {"pcall", "error", "hook"} THEN Back ELSE Run)

-----------------------------------------------------------------------------
(* Errors.                                                                 *)

\* A Lua function fails, or a C function (as for a wrong argument), or an allocation does.
Fail ==
  /\ todo = Run /\ cstack # <<>> /\ Last(L.ci) \notin {"yield", "done"}
  /\ \E next \in {Raise, Throw("ERRMEM")} : Does(L, cstack, next)

\* luaG_errormsg: the handler, if it is a function, is called before the stack unwinds.
luaG_errormsg ==
  /\ todo = Raise
  /\ IF L.errfunc # 0
     THEN \/ Does(L, Activated("error"), Call("lua"))
          \/ Does(L, cstack, Throw("ERRERR"))
     ELSE Does(L, cstack, Throw("ERRRUN"))

HandlerReturns ==
  /\ todo = Back /\ Top.k = "error"
  /\ Does(L, Front(cstack), Throw("ERRRUN"))

restore_stack_limit(l) ==
  IF l.size_ci > LUAI_MAXCALLS /\ Len(l.ci) < LUAI_MAXCALLS
  THEN luaD_reallocCI(l, LUAI_MAXCALLS) ELSE l

\* luaD_pcall: what it saves, and calls.  The handler is named by the frame that holds it.
Protected(l, ef, f) ==
  Does([l EXCEPT !.errfunc = ef],
       Append(cstack, [k |-> "pcall", t |-> Cur, nCcalls |-> l.nCcalls, ci |-> Len(l.ci),
                       allowhook |-> l.allowhook, errfunc |-> l.errfunc]),
       Call(f))

\* The host program runs a chunk (luaL_dofile), with no handler.
Host == todo = Run /\ cstack = <<>> /\ Protected(L, 0, "lua")

luaB_pcall ==
  /\ todo = Run /\ cstack # <<>> /\ Last(L.ci) = "pcall"
  /\ \E f \in {"lua", "resume", "yield"} : Protected(L, 0, f)

luaB_xpcall ==
  /\ todo = Run /\ cstack # <<>> /\ Last(L.ci) = "xpcall"
  /\ Protected(L, Len(L.ci), "lua")

\* luaD_pcall after a call that returned, ...
ReturnFromPcall ==
  /\ todo = Back /\ Top.k = "pcall"
  /\ Does(Served([L EXCEPT !.errfunc = Top.errfunc]), Front(cstack), Run)

\* Mutant: the count of C calls is not put back.
RecoveredDeep(l, p) ==
  [restore_stack_limit([l EXCEPT !.ci = SubSeq(@, 1, p.ci), !.allowhook = p.allowhook])
     EXCEPT !.errfunc = p.errfunc]

\* ... and after an error: everything is put back.
Recovered(l, p) ==
  LET unwound == [l EXCEPT !.nCcalls = p.nCcalls, !.ci = SubSeq(@, 1, p.ci),
                           !.allowhook = p.allowhook]
  IN  [restore_stack_limit(unwound) EXCEPT !.errfunc = p.errfunc]

\* The activation that called setjmp last, always one of the running thread.
errorJmp == Max({i \in DOMAIN cstack : cstack[i].k \in {"pcall", "resume"}})

Catch ==
  /\ todo[1] = "luaD_throw" /\ cstack[errorJmp].k = "pcall"
  /\ Does(Served(Recovered(L, cstack[errorJmp])), SubSeq(cstack, 1, errorJmp - 1), Run)

-----------------------------------------------------------------------------
(* Hooks.                                                                  *)

\* luaD_callhook calls hookf, which calls the Lua function of the hook.
luaD_callhook ==
  /\ todo = Run /\ cstack # <<>> /\ f_isLua /\ HasRoom /\ L.allowhook
  /\ Does([L EXCEPT !.allowhook = FALSE], Activated("hook"), Call("lua"))

HookReturns ==
  /\ todo = Back /\ Top.k = "hook"
  /\ Does([L EXCEPT !.allowhook = TRUE], Front(cstack), Run)

-----------------------------------------------------------------------------
(* Coroutines.  "life" is history: what has become of the thread.          *)

NewState == [ci |-> <<"base">>, size_ci |-> BASIC_CI_SIZE, nCcalls |-> 0, baseCcalls |-> 0,
             status |-> "OK", errfunc |-> 0, allowhook |-> TRUE, top |-> 0, life |-> "absent"]

\* luaB_cocreate, in a thread that never was or that the collector has freed.
luaB_cocreate(co) ==
  /\ todo = Run /\ cstack # <<>> /\ f_isLua
  /\ th[co].life \in {"absent", "ended", "left"}
  /\ th' = [th EXCEPT ![co] = [NewState EXCEPT !.top = 1, !.life = "created"]]
  /\ UNCHANGED <<cstack, todo>>

\* What the thread sees of another; top counts the values on a stack without frames.
costatus(t, co) ==
  IF t = co THEN "running"
  ELSE IF th[co].status = "YIELD" THEN "suspended"
  ELSE IF th[co].status # "OK" THEN "dead"
  ELSE IF Len(th[co].ci) > 1 THEN "normal"
  ELSE IF th[co].top = 0 THEN "dead" ELSE "suspended"

\* auxresume returns -1: coroutine.resume reports it, a function of coroutine.wrap raises it.
Refused(l) == IF Last(l.ci) = "wrap" THEN <<l, Raise>> ELSE <<Served(l), Run>>

\* A thread at rest: lua_setlevel and lua_resume set its counts before they are read again,
\* and of one that has ended only the status is.
Parked(l) == [l EXCEPT !.nCcalls = 0, !.baseCcalls = 0]
Ended(status) == [NewState EXCEPT !.status = status, !.life = "ended"]
Left(l) == [Parked(l) EXCEPT !.top = 1, !.life = "left"] \* its body has ended, its results are still there

\* lua_resume finds the C stack full: the message takes the place of all above the base, so
\* that a coroutine without a frame loses the body it was to run and is dead.
resume_error(co) == IF th[co].status = "OK" THEN Ended("OK") ELSE th[co]

\* A body starts, or OP_CALL of coroutine.yield is finished.
Started(co) == [th[co] EXCEPT !.nCcalls = L.nCcalls + 1, !.baseCcalls = L.nCcalls + 1,
                              !.status = "OK", !.top = 0, !.life = "started"]
Resumed(co) == IF th[co].status = "OK" THEN Entered(Started(co), "lua") ELSE luaD_poscall(Started(co))

CannotResume(co) == costatus(Cur, co) # "suspended"
CStackFull == L.nCcalls >= LUAI_MAXCCALLS

auxresume(co) ==
  /\ todo = Run /\ cstack # <<>> /\ Last(L.ci) \in {"resume", "wrap"}
  /\ th[co].life # "absent"
  /\ \/ /\ CannotResume(co)
        /\ Does(Refused(L)[1], cstack, Refused(L)[2])
     \/ /\ ~CannotResume(co) /\ CStackFull
        /\ th' = [th EXCEPT ![co] = resume_error(co), ![Cur] = Refused(L)[1]]
        /\ cstack' = cstack
        /\ todo' = Refused(L)[2]
     \/ /\ ~CannotResume(co) /\ ~CStackFull
        /\ th' = [th EXCEPT ![co] = Resumed(co)]
        /\ cstack' = cstack \o <<Activation("resume", co, 1),
                                 luaV_execute(co, Len(Resumed(co).ci) - 1, 1)>>
        /\ todo' = Run
     \/ /\ ~CannotResume(co) /\ ~CStackFull
        /\ th[co].life = "left"  \* the last of its results is called, and may be no function
        /\ th' = [th EXCEPT ![co] = Started(co)]
        /\ cstack' = Append(cstack, Activation("resume", co, 1))
        /\ todo' = Raise

\* Mutant: one C call may be in between.
CannotYieldMuch == L.nCcalls > L.baseCcalls + 1

CannotYield == L.nCcalls > L.baseCcalls

\* lua_yield returns -1, which ends luaV_execute, or luaD_call without its doing anything.
lua_yield ==
  /\ todo = Run /\ cstack # <<>> /\ Last(L.ci) = "yield"
  /\ IF CannotYield
     THEN Does(L, cstack, Raise)
     ELSE Does([L EXCEPT !.status = "YIELD"],
               IF Top.k = "execute" THEN Front(cstack) ELSE cstack, Back)

\* lua_resume returns to auxresume in the thread below, whose state becomes "below".
LeaveResume(l, c, below, next) ==
  /\ th' = [th EXCEPT ![Cur] = l, ![Last(c).t] = below]
  /\ cstack' = c
  /\ todo' = next

\* The resumer takes the results; if it has no room for them it raises an error ("too many
\* results to resume", or that of an allocation) and they stay where they are.
ReturnFromResume ==
  /\ todo = Back /\ Top.k = "resume"
  /\ LET c == Front(cstack)
         below == th[Last(c).t]
     IN  \/ LeaveResume(IF L.status = "YIELD" THEN Parked(L) ELSE Ended("OK"), c, Served(below), Run)
         \/ \E next \in {Raise, Throw("ERRMEM")} :
              LeaveResume(IF L.status = "YIELD" THEN Parked(L) ELSE Left(L), c, below, next)

\* An error in a coroutine marks it as dead.
Die ==
  /\ todo[1] = "luaD_throw" /\ cstack[errorJmp].k = "resume"
  /\ LET c == SubSeq(cstack, 1, errorJmp - 1)
         answer == Refused(th[Last(c).t])
     IN  LeaveResume(Ended(todo[2]), c, answer[1], answer[2])

-----------------------------------------------------------------------------
Init ==
  /\ th = [t \in Threads |-> IF t = Main THEN [NewState EXCEPT !.life = "started"] ELSE NewState]
  /\ cstack = <<>>
  /\ todo = Run

Next ==
  \/ Host
  \/ \E f \in Functions : OpCall(f)
  \/ luaD_call \/ callTMres \/ OpReturn \/ CReturn \/ ReturnFromCall
  \/ Fail \/ luaG_errormsg \/ HandlerReturns
  \/ luaB_pcall \/ luaB_xpcall \/ ReturnFromPcall \/ Catch
  \/ luaD_callhook \/ HookReturns
  \/ lua_yield \/ ReturnFromResume \/ Die
  \/ \E co \in Coroutines : luaB_cocreate(co) \/ auxresume(co)

Spec == Init /\ [][Next]_vars

-----------------------------------------------------------------------------
(* Properties.                                                             *)

Places(t) == {i \in DOMAIN cstack : cstack[i].t = t}
Active(t) == Places(t) # {}
CCalls(i) == Cardinality({j \in 1..i : cstack[j].k \in {"call", "resume"}})

\* Whatever was called, thrown, caught, resumed or yielded before: the counter that guards
\* the C stack (nCcalls, which luaD_pcall, lua_resume and lua_setlevel copy between
\* threads) counts the C calls below a thread, a hook is disabled exactly while one runs,
\* and an error handler is that of an xpcall that is still active (the assertions of
\* ldo.c at lines 200, 424 and 435 among them).
StateMatchesStack ==
  /\ \A t \in Threads : Active(t) =>
       /\ th[t].nCcalls = CCalls(Max(Places(t)))
       /\ th[t].allowhook = ~\E i \in Places(t) : cstack[i].k = "hook"
  /\ \A t \in Threads : th[t].errfunc # 0 /\ Active(t) =>
       /\ th[t].errfunc <= Len(th[t].ci)
       /\ th[t].ci[th[t].errfunc] = "xpcall"
  /\ todo = Back /\ Top.k = "hook" => ~L.allowhook
  /\ todo = Back /\ Top.k = "resume" => L.nCcalls = L.baseCcalls
  /\ \A co \in Coroutines : th[co].status = "YIELD" => th[co].errfunc = 0

\* No program nests C calls or Lua calls beyond the limits and their reserve: the C stack
\* cannot overflow, whatever handlers, hooks and coroutines do.
Bounded ==
  /\ CCalls(Len(cstack)) <= LUAI_MAXCCALLS + CCallsSlack
  /\ \A t \in Threads : Len(th[t].ci) <= th[t].size_ci /\ th[t].size_ci <= 2 * LUAI_MAXCALLS

\* costatus, which only looks at a thread's own fields, tells what resume will do with it:
\* it is running when it is the innermost on the C stack, normal when it is further out,
\* dead when its body has ended and its results were taken, and otherwise suspended: also
\* when the results of its body did not fit on the stack of the resumer.  One that waits in a
\* yield has nothing on the C stack, which is what makes it possible to go on with another
\* thread: only Lua functions called the coroutine.yield that it waits in.
StatusTruthful ==
  todo = Run /\ cstack # <<>> =>
    \A co \in {c \in Coroutines : th[c].life # "absent"} :
      /\ costatus(Cur, co) =
           IF co = Cur THEN "running"
           ELSE IF Active(co) THEN "normal"
           ELSE IF th[co].life = "ended" THEN "dead" ELSE "suspended"
      /\ th[co].status = "YIELD" =>
           /\ ~Active(co) /\ Last(th[co].ci) = "yield"
           /\ \A i \in 2..(Len(th[co].ci) - 1) : th[co].ci[i] = "lua"

\* The comment "overflow while handling overflow?" in growCI: a CallInfo array beyond the
\* limit means that an overflow is being handled, which is not so when the host runs.
OverflowIsHandled == cstack = <<>> => th[Main].size_ci <= LUAI_MAXCALLS
==============================================================================
