----------------------------- MODULE MCCollector -----------------------------
(* Small heaps with every kind of object, at the end of a collection.      *)
EXTENDS Collector

MCObj == 1..9

MCHash(s) == IF s = "a" THEN 0 ELSE 1

W == "white0"

\* A global state: the objects from address 3 on, the stack of the program, what
\* the registry holds.
State(objs, stack, open, reg) ==
  LET h == [o \in MCObj |->
              IF o = main THEN [NewThread(W, registry) EXCEPT !.stack = stack, !.openupval = open]
              ELSE IF o = registry THEN [NewTable(W, {}) EXCEPT !.arr = reg]
              ELSE IF o - 2 \in DOMAIN objs THEN objs[o - 2] ELSE Free]
      ids(P(_)) == SelectSeq([k \in DOMAIN objs |-> k + 2], P)
  IN  [heap |-> h, gcstate |-> "pause", currentwhite |-> W, gray |-> <<>>, grayagain |-> <<>>, weak |-> <<>>,
       rootgc |-> ids(LAMBDA o : h[o].tt \notin {"udata", "string"} /\ (h[o].tt = "upval" => h[o].th = Nil))
                  \o <<registry, main>> \o ids(LAMBDA o : h[o].tt = "udata"),
       sweepgc |-> Nil, tmudata |-> <<>>, strt |-> <<ids(LAMBDA o : h[o].tt = "string")>>, sweepstrgc |-> 0,
       uvhead |-> ids(LAMBDA o : h[o].tt = "upval" /\ h[o].th # Nil), mt |-> Nil]

\* Two closures that share a closed upvalue, and a new table.
Closures ==
  State(<<NewProto(W), NewLclosure(W, 3, 5, registry), NewUpval(W, Nil, 1), NewLclosure(W, 3, 5, registry),
          NewTable(W, {})>>,
        <<6, 7>>, <<>>, 4)

\* A userdata with a finalizer that is only in a weak table, with a key of its own.
Weak ==
  State(<<[NewTable(W, {}) EXCEPT !.meta = 4, !.arr = 5, !.key = 8, !.val = 6], NewTable(W, {"v"}),
          NewString(W, "a"), [NewUdata(W, registry) EXCEPT !.meta = 7], NewTable(W, {"gc"}), NewTable(W, {})>>,
        <<8>>, <<>>, 3)

\* A dead thread with an open upvalue that a closure still uses.
Threads ==
  State(<<[NewThread(W, registry) EXCEPT !.stack = <<4>>, !.openupval = <<5>>], NewTable(W, {}),
          NewUpval(W, 3, 1), NewLclosure(W, 7, 5, registry), NewProto(W)>>,
        <<6, 7>>, <<>>, Nil)

\* The same for a thread the program holds, with an open upvalue of its own stack.
Suspended ==
  State(<<NewThread(W, registry), NewProto(W), NewLclosure(W, 4, 6, registry), NewUpval(W, main, 3)>>,
        <<3, 5, Nil>>, <<6>>, Nil)

MCStates == {<<Closures, 2>>, <<Weak, 2>>, <<Threads, 2>>, <<Suspended, 3>>}
==============================================================================
