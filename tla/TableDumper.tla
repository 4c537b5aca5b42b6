----------------------------- MODULE TableDumper -----------------------------
(***************************************************************************)
(* dumpTable: the Lua source text of a value (lua_binary_writer.cpp).  The *)
(* recursion of dumpValue is made explicit, with the Lua stack it works    *)
(* on.  dumpValue does not look at the result of getSortedTableKeys: when  *)
(* sorting fails one value too many stays on the stack, and the enclosing  *)
(* loop goes on with the wrong table below it.                             *)
(*                                                                         *)
(* The text is a sequence of characters <<"ch", c>>, with words, numbers   *)
(* and line breaks (with their indentation) as single symbols.             *)
(***************************************************************************)
EXTENDS KeyOrder, SequencesExt

CONSTANTS
  Heap,      \* contents of the tables
  Precision  \* significant digits that %.14g prints

VARIABLES
  caller,  \* the Lua stack at the call
  maxIndent,
  L,       \* the Lua stack
  frames,  \* activations of dumpValue that print a table, innermost first
  arg,     \* index, indent and maxIndent of the call of dumpValue
  out,     \* the text
  failed,  \* history: whether a sort failed
  pc       \* "value" (a call begins), "loop", "return", "done"

vars == <<caller, maxIndent, L, frames, arg, out, failed, pc>>

Ch(c) == <<"ch", c>>
Word(w) == <<"word", w>>
Break(indent) == <<"break", indent>>
Quote == Ch("quote")

KeyArray(s) == <<"keys", s>>
Library == <<"library">>

-----------------------------------------------------------------------------
(* Scalars.                                                                *)

Abs(n) == IF n < 0 THEN -n ELSE n

\* The number of decimal digits of n, 0 <= n < 10^9.
Digits(n) == Min({d \in 1..9 : n < 10^d})

\* n to its first p digits, a tie to the even neighbour (n >= 0).
Rounded(n, p) ==
  LET u == 10^(IF Digits(n) > p THEN Digits(n) - p ELSE 0)
      q == n \div u
      r == n % u
  IN  u * (IF 2 * r > u \/ (2 * r = u /\ q % 2 = 1) THEN q + 1 ELSE q)

\* Mutant: fewer digits, as %g would print.
sprintfShort(n) == IF n < 0 THEN -Rounded(5 * Abs(n), Precision - 1) ELSE Rounded(5 * n, Precision - 1)

\* sprintf "%.14g" of the number n / 2, in tenths.
sprintf(n) == IF n < 0 THEN -Rounded(5 * Abs(n), Precision) ELSE Rounded(5 * n, Precision)

\* Strings are printed as they are, functions by their address.
Text(v) ==
  CASE v[1] = "nil" -> <<Word("nil")>>
    [] v[1] = "bool" -> <<Word(IF v[2] THEN "true" ELSE "false")>>
    [] v[1] = "str" -> <<Quote>> \o [i \in DOMAIN v[2] |-> Ch(v[2][i])] \o <<Quote>>
    [] v[1] = "num" -> <<<<"number", sprintf(v[2])>>>>
    [] OTHER -> <<<<"pointer", v[2]>>>>

-----------------------------------------------------------------------------
(* The recursion.                                                          *)

f == Head(frames)

Indented(i, max) == IF i <= max THEN <<Break(i)>> ELSE <<>>

\* lua_rawgeti on a table of the program or on an array of keys
rawgeti(t, i) ==
  IF t[1] = "keys" THEN (IF i \in DOMAIN t[2] THEN t[2][i] ELSE Nil) ELSE rawget(Heap[t[2]], Int2Num(i))

Begin(idx, indent, max) == arg' = [idx |-> idx, indent |-> indent, max |-> max] /\ pc' = "value"

\* dumpTable is called with the last value of a stack.
Start(stack, max) ==
  /\ caller' = stack /\ maxIndent' = max
  /\ L' = stack
  /\ frames' = <<>>
  /\ out' = <<Word("return ")>>
  /\ failed' = FALSE
  /\ Begin(Len(stack), 1, max)

DumpScalar ==
  /\ pc = "value" /\ lua_type(L[arg.idx]) # "table"
  /\ out' = out \o Text(L[arg.idx])
  /\ pc' = "return"
  /\ UNCHANGED <<caller, maxIndent, L, frames, arg, failed>>

\* What getSortedTableKeys leaves on the stack when table.sort has raised an error.
FailedSort(s) == <<KeyArray(s), Library>>

\* lua_objlen of the table library is 0.
DumpTable ==
  /\ pc = "value" /\ lua_type(L[arg.idx]) = "table"
  /\ out' = Append(out, Ch("{"))
  /\ LET K == Keys(Heap[L[arg.idx][2]])
         Activation(n) ==
           <<[idx |-> arg.idx, i |-> 1, length |-> n, indent |-> arg.indent, max |-> arg.max, key |-> FALSE]>> \o frames
     IN  \/ /\ \E s \in SortedKeys(K) : L' = Append(L, KeyArray(s))
            /\ frames' = Activation(Cardinality(K)) /\ UNCHANGED failed
         \/ /\ MayRaise(K)
            /\ \E s \in Arrays(K) : L' = L \o FailedSort(s)
            /\ frames' = Activation(0) /\ failed' = TRUE
  /\ pc' = "loop"
  /\ UNCHANGED <<caller, maxIndent, arg>>

LoopEntry ==
  /\ pc = "loop" /\ f.i <= f.length
  /\ out' = out \o Indented(f.indent, f.max) \o <<Ch("[")>>
  /\ L' = Append(L, rawgeti(Last(L), f.i))
  /\ frames' = [frames EXCEPT ![1].key = TRUE]
  /\ Begin(Len(L) + 1, 1, 0)
  /\ UNCHANGED <<caller, maxIndent, failed>>

\* The key on the stack is replaced by its value.
ReturnKey ==
  /\ pc = "return" /\ frames # <<>> /\ f.key
  /\ out' = Append(out, Word("] = "))
  /\ L' = Append(Front(L), rawget(Heap[L[f.idx][2]], Last(L)))
  /\ frames' = [frames EXCEPT ![1].key = FALSE]
  /\ Begin(Len(L), f.indent + 1, f.max)
  /\ UNCHANGED <<caller, maxIndent, failed>>

\* Mutant: the value stays on the stack.
AfterValueKept(s) == s

AfterValue(s) == Front(s)

ReturnValue ==
  /\ pc = "return" /\ frames # <<>> /\ ~f.key
  /\ out' = Append(out, Ch(","))
  /\ L' = AfterValue(L)
  /\ frames' = [frames EXCEPT ![1].i = @ + 1]
  /\ pc' = "loop"
  /\ UNCHANGED <<caller, maxIndent, arg, failed>>

LoopEnd ==
  /\ pc = "loop" /\ f.i > f.length
  /\ L' = Front(L)
  /\ out' = out \o (IF f.indent <= f.max /\ f.length > 0 THEN <<Break(f.indent - 1)>> ELSE <<>>) \o <<Ch("}")>>
  /\ frames' = Tail(frames)
  /\ pc' = "return"
  /\ UNCHANGED <<caller, maxIndent, arg, failed>>

Finish == pc = "return" /\ frames = <<>> /\ pc' = "done" /\ UNCHANGED <<caller, maxIndent, L, frames, arg, out, failed>>

Dump == DumpScalar \/ DumpTable \/ LoopEntry \/ ReturnKey \/ ReturnValue \/ LoopEnd \/ Finish

-----------------------------------------------------------------------------
(* What the Lua compiler makes of the text.                                *)

\* The next position at or after p that is not a line break.
Skip(p) == IF p <= Len(out) /\ out[p][1] = "break" THEN p + 1 ELSE p

At(p, sym) == p \in 1..Len(out) /\ out[p] = sym

\* The character that a backslash and c stand for; n, r, t, f and v are like b, and
\* digits do not occur.
Escape(c) == CASE c = "a" -> "bell" [] c = "b" -> "backspace" [] OTHER -> c

\* The characters of a string from every position up to its quotation mark, and the
\* position behind it; position 0 where a line, or the text, ends before the string.
StringFrom ==
  LET string[p \in Nat] ==
        LET escaped == At(p, Ch("backslash"))
            q == IF escaped THEN p + 1 ELSE p
            rest == string[q + 1]
            char == IF out[q][1] # "ch" THEN "text" ELSE IF escaped THEN Escape(out[q][2]) ELSE out[q][2]
        IN  IF At(p, Quote) THEN <<<<>>, p + 1>>
            ELSE IF q > Len(out) \/ out[p] = Ch("newline") \/ out[p][1] = "break" THEN <<<<>>, 0>>
            ELSE <<<<char>> \o rest[1], rest[2]>>
  IN  string

\* The value whose text begins at each position, with the position behind it;
\* position 0 where no value can be read.
Read ==
  LET Bad == <<Nil, 0>>
      read[p \in Nat] ==
        LET entries[q \in Nat] ==
              LET e == Skip(q)
                  k == read[e + 1]
                  v == read[k[2] + 1]
                  more == entries[v[2] + 1]
              IN  IF At(e, Ch("}")) THEN <<{}, e + 1>>
                  ELSE IF ~At(e, Ch("[")) THEN <<{}, 0>>
                  ELSE IF ~At(k[2], Word("] = ")) \/ k[1] = Nil THEN <<{}, 0>>
                  ELSE IF ~At(v[2], Ch(",")) THEN <<{}, 0>>
                  ELSE <<more[1] \cup {<<k[1], v[1]>>}, more[2]>>
            s == out[p]
        IN  IF p > Len(out) THEN Bad
            ELSE IF s = Word("nil") THEN <<Nil, p + 1>>
            ELSE IF s[1] = "word" THEN <<IF s[2] = "true" THEN True ELSE False, p + 1>>
            ELSE IF s[1] = "number" THEN <<Num(s[2] \div 5), p + 1>>
            ELSE IF s = Quote THEN <<Str(StringFrom[p + 1][1]), StringFrom[p + 1][2]>>
            ELSE IF s = Ch("{") THEN LET t == entries[p + 1] IN <<<<"tree", t[1]>>, t[2]>>
            ELSE Bad
  IN  IF read[2][2] = Len(out) + 1 THEN read[2][1] ELSE <<"bad">>

\* A value with the tables in it replaced by their contents.
Tree(x) ==
  LET tree[id \in DOMAIN Heap] ==
        LET Image(y) == IF lua_type(y) = "table" THEN <<"tree", tree[y[2]]>> ELSE y
        IN  {<<Image(k), Image(rawget(Heap[id], k))>> : k \in Keys(Heap[id])}
  IN  IF lua_type(x) = "table" THEN <<"tree", tree[x[2]]>> ELSE x

\* The values below x.
Below(x) ==
  LET below[id \in DOMAIN Heap] ==
        UNION {{y} \cup (IF lua_type(y) = "table" THEN below[y[2]] ELSE {}) :
                 y \in UNION {{k, rawget(Heap[id], k)} : k \in Keys(Heap[id])}}
  IN  {x} \cup (IF lua_type(x) = "table" THEN below[x[2]] ELSE {})

\* Values that have a text of their own: no functions, no quotation mark, backslash or
\* line break in a string (dumpValue escapes none) and no more digits than are printed.
Printable(y) ==
  /\ lua_type(y) # "function"
  /\ lua_type(y) = "str" => Range(y[2]) \cap {"quote", "backslash", "newline"} = {}
  /\ lua_type(y) = "num" => Rounded(5 * Abs(y[2]), Precision) = 5 * Abs(y[2])

\* The text, compiled and run, yields the value it was made from just when everything
\* in the value is printable.  (dumpValue, whenever no sort failed, for every indentation)
DumpReadsBack ==
  pc = "done" /\ ~failed => (Read = Tree(Last(caller)) <=> \A y \in Below(Last(caller)) : Printable(y))

\* However many sorts have failed below, the loop of dumpValue never indexes
\* anything but a table (lua_rawgeti does not check) and never removes a value of its
\* caller; it leaves values on the stack just when a sort has failed.
StackUsable ==
  /\ pc = "loop" => Last(L)[1] \in {"table", "keys", "library"}
  /\ pc = "done" => IsPrefix(caller, L) /\ (Len(L) = Len(caller) <=> ~failed)
==============================================================================
