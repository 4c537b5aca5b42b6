----------------------------- MODULE TableReader -----------------------------
(***************************************************************************)
(* parseBinaryTable: the recursive descent of lua_binary_reader.cpp, with  *)
(* the Lua stack it works on and the C activations of _parseArray and      *)
(* _parseTable made explicit.  One action is one read of the file with     *)
(* what follows from it up to the next read, or one return of parserValue. *)
(***************************************************************************)
EXTENDS Wire, LuaValues, Functions

CONSTANTS
  Caller,   \* the Lua stack of the caller
  Files,    \* the files to be parsed
  MemLimit, \* lua_createtable raises a memory error for more entries than this
  MaxOver   \* bound on how far beyond its end a file is read

VARIABLES
  data, p_, delivered, short, \* the BinaryReader
  L,                          \* the Lua stack
  heap,                       \* contents of the tables created so far
  frames,                     \* activations of _parseArray and _parseTable, innermost first
  handle_, size_, strings,    \* the StringTable: stack index, size, contents
  payload,                    \* tag or length read last, whose operand comes next
  pc,                         \* what is read next, or how the parse ended
  ret                         \* number of results returned to Lua

vars == <<data, p_, delivered, short, L, heap, frames, handle_, size_, strings, payload, pc, ret>>

cursor == <<data, p_, delivered, short>>

strTable == <<handle_, size_, strings>>

Reader == INSTANCE BinaryReader WITH Lengths <- 1..(Card(TStringLength) - 1)

Pool == <<"pool">> \* the table of the StringTable, on the stack

Message == <<"message">>

Push(v) == L' = Append(L, v)

Pop(n) == SubSeq(L, 1, Len(L) - n)

\* The element at a negative stack index.
Top(k) == L[Len(L) + 1 - k]

top == Len(Caller)

InitRest ==
  /\ p_ = 0 /\ delivered = <<>> /\ short = FALSE
  /\ L = Caller
  /\ heap = <<>>
  /\ frames = <<>>
  /\ handle_ = 0 /\ size_ = 0 /\ strings = <<>>
  /\ payload = 0
  /\ ret = 0

Init == data \in Files /\ InitRest /\ pc = "magic"

-----------------------------------------------------------------------------
(* Ends.                                                                   *)

\* Header errors, and settop(top) with "Parse failed.".
Reject(stack) ==
  /\ L' = stack \o <<Nil, Message>>
  /\ frames' = <<>>
  /\ pc' = "done" /\ ret' = 2
  /\ UNCHANGED <<heap, strTable, payload>>

\* Mutant: the stack is not cut back.
FailLeaky == Reject(L)

Fail == Reject(SubSeq(L, 1, top))

\* A Lua error leaves by longjmp.
Raise == pc' = "raised" /\ UNCHANGED <<L, heap, frames, strTable, payload, ret>>

-----------------------------------------------------------------------------
(* Header and string pool.                                                 *)

ReadMagic ==
  /\ pc = "magic"
  /\ Reader!readNumber(16)
  /\ IF Reader!Value(16) # MAGIC_NUMBER THEN Reject(L)
     ELSE pc' = "version" /\ UNCHANGED <<L, heap, frames, strTable, payload, ret>>

ReadVersion ==
  /\ pc = "version"
  /\ Reader!readNumber(16)
  /\ IF Reader!Value(16) # LUABT_VERSION THEN Reject(L)
     ELSE pc' = "pool" /\ UNCHANGED <<L, heap, frames, strTable, payload, ret>>

\* What is read after n of the strings.
AfterStrings(n, size) == IF n < size THEN "length" ELSE "value"

ReadPoolSize ==
  /\ pc = "pool"
  /\ Reader!readNumber(TStringPoolLength)
  /\ LET n == Reader!Value(TStringPoolLength) IN
     IF n > MemLimit THEN Raise
     ELSE /\ Push(Pool)
          /\ size_' = n /\ handle_' = Len(L) + 1 /\ strings' = <<>>
          /\ pc' = AfterStrings(0, n)
          /\ UNCHANGED <<heap, frames, payload, ret>>

ReadLength ==
  /\ pc = "length"
  /\ Reader!readNumber(TStringLength)
  /\ IF Reader!Value(TStringLength) = 0 THEN Fail
     ELSE /\ payload' = Reader!Value(TStringLength)
          /\ pc' = "bytes"
          /\ UNCHANGED <<L, heap, frames, strTable, ret>>

ReadString ==
  /\ pc = "bytes"
  /\ Reader!readBytes(payload)
  /\ IF ~Reader!Fits(payload) THEN Fail
     ELSE /\ strings' = Append(strings, Reader!Ahead(payload))
          /\ pc' = AfterStrings(Len(strings) + 1, size_)
          /\ UNCHANGED <<L, heap, frames, handle_, size_, payload, ret>>

\* lua_rawgeti on the pool: index 0, which no writer produces, holds nothing.
getString(k) == IF k = 0 THEN Nil ELSE Str(strings[k])

-----------------------------------------------------------------------------
(* Values.  parsers[type] either pushes a value and returns or, for tags   *)
(* from T_INT8 on, reads a number first.                                   *)

Constants ==
  [t \in {T.NIL, T.TRUE_, T.FALSE_, T.ZERO, T.ONE, T.STRING0} |->
     CASE t = T.NIL -> Nil [] t = T.TRUE_ -> True [] t = T.FALSE_ -> False
       [] t = T.ZERO -> Num(0) [] t = T.ONE -> Int2Num(1) [] t = T.STRING0 -> Str(<<>>)]

\* Mutant: the table made last is used again.
NewIdReused == IF heap = <<>> THEN 1 ELSE Len(heap)

NewId == Len(heap) + 1

\* lua_newtable, lua_createtable
NewTable ==
  /\ Push(Tbl(NewId))
  /\ heap' = [x \in DOMAIN heap \cup {NewId} |-> IF x = NewId THEN EmptyFcn ELSE heap[x]]

\* parserValue
ReadTag ==
  /\ pc = "value"
  /\ Reader!readNumber(8)
  /\ LET t == Reader!Value(8) IN
     \/ (t = T.EOF \/ t >= T.MAX) /\ Fail
     \/ /\ t \in DOMAIN Constants
        /\ Push(Constants[t])
        /\ pc' = "return" /\ UNCHANGED <<heap, frames, strTable, payload, ret>>
     \/ /\ t \in {T.ARRAY0, T.TABLE0}
        /\ NewTable
        /\ pc' = "return" /\ UNCHANGED <<frames, strTable, payload, ret>>
     \/ /\ t \in 1..(T.MAX - 1) \ (DOMAIN Constants \cup {T.ARRAY0, T.TABLE0})
        /\ payload' = t
        /\ pc' = "payload" /\ UNCHANGED <<L, heap, frames, strTable, ret>>

\* The template argument of the parser of each of those tags.
Operand(t) ==
  CASE t \in {T.INT8, T.STRING8, T.ARRAY8, T.TABLE8} -> 8
    [] t \in {T.INT16, T.STRING16, T.ARRAY16, T.TABLE16} -> 16
    [] t \in {T.INT32, T.FLOAT, T.STRING32, T.ARRAY32, T.TABLE32} -> 32
    [] t \in {T.INT64, T.DOUBLE} -> 64

\* The number that _parseInteger<T> and _parseNumber<T> push.
PushedNumber(t, v) ==
  IF t \in {T.FLOAT, T.DOUBLE} THEN AsSigned(Operand(t), v)
  ELSE PushedInteger(AsSigned(Operand(t), v))

\* _parseInteger, _parseNumber
ReadNumber ==
  /\ pc = "payload" /\ payload \in T.INT8..T.DOUBLE
  /\ Reader!readNumber(Operand(payload))
  /\ Push(Num(PushedNumber(payload, Reader!Value(Operand(payload)))))
  /\ pc' = "return" /\ UNCHANGED <<heap, frames, strTable, payload, ret>>

\* _parseString
ReadStringIndex ==
  /\ pc = "payload" /\ payload \in T.STRING8..T.STRING32
  /\ Reader!readNumber(Operand(payload))
  /\ LET k == Reader!Value(Operand(payload)) IN
     IF k > size_ THEN Fail
     ELSE /\ Push(getString(k))
          /\ pc' = "return" /\ UNCHANGED <<heap, frames, strTable, payload, ret>>

Kind(t) == IF t \in T.ARRAY8..T.ARRAY32 THEN "array" ELSE "hash"

\* _parseArray, _parseTable up to their loop
ReadSize ==
  /\ pc = "payload" /\ payload \in T.ARRAY8..T.TABLE32
  /\ Reader!readNumber(Operand(payload))
  /\ LET n == Reader!Value(Operand(payload)) IN
     IF n > MemLimit THEN Raise
     ELSE /\ NewTable
          /\ frames' = <<[t |-> NewId, at |-> Len(L) + 1, kind |-> Kind(payload),
                         i |-> 0, n |-> n, key |-> FALSE]>> \o frames
          /\ pc' = "loop" /\ UNCHANGED <<strTable, payload, ret>>

-----------------------------------------------------------------------------
(* The loops of _parseArray and _parseTable.  A frame's key is TRUE while  *)
(* the key of the current entry waits on the stack for its value.          *)

f == Head(frames)

\* i < size
More == f.i < f.n

\* Mutant: the key stays marked as waiting.
AdvanceKeyed == <<[f EXCEPT !.i = @ + 1]>> \o Tail(frames)

Advance == <<[f EXCEPT !.i = @ + 1, !.key = FALSE]>> \o Tail(frames)

LoopEntry ==
  /\ pc = "loop" /\ More
  /\ pc' = "value"
  /\ UNCHANGED <<cursor, L, heap, frames, strTable, payload, ret>>

\* Mutant: the loop has no exit.
LoopEndSpin == pc = "loop" /\ ~More /\ UNCHANGED vars

LoopEnd ==
  /\ pc = "loop" /\ ~More
  /\ frames' = Tail(frames)
  /\ pc' = "return"
  /\ UNCHANGED <<cursor, L, heap, strTable, payload, ret>>

\* Contents of a table after k has been set to v; nil clears the entry.
rawset(c, k, v) ==
  IF v = Nil THEN Restrict(c, DOMAIN c \ {k})
  ELSE [x \in DOMAIN c \cup {k} |-> IF x = k THEN v ELSE c[x]]

\* lua_rawseti(L, -2, i + 1)
ReturnElement ==
  /\ pc = "return" /\ frames # <<>> /\ f.kind = "array"
  /\ heap' = [heap EXCEPT ![Top(2)[2]] = rawset(@, Int2Num(f.i + 1), Top(1))]
  /\ L' = Pop(1)
  /\ frames' = Advance
  /\ pc' = "loop" /\ UNCHANGED <<cursor, strTable, payload, ret>>

ReturnKey ==
  /\ pc = "return" /\ frames # <<>> /\ f.kind = "hash" /\ ~f.key
  /\ frames' = <<[f EXCEPT !.key = TRUE]>> \o Tail(frames)
  /\ pc' = "value" /\ UNCHANGED <<cursor, L, heap, strTable, payload, ret>>

\* lua_rawset(L, -3), which raises an error for the key nil
ReturnEntry ==
  /\ pc = "return" /\ frames # <<>> /\ f.kind = "hash" /\ f.key
  /\ \/ Top(2) = Nil /\ Raise
     \/ /\ Top(2) # Nil
        /\ heap' = [heap EXCEPT ![Top(3)[2]] = rawset(@, Top(2), Top(1))]
        /\ L' = Pop(2)
        /\ frames' = Advance
        /\ pc' = "loop" /\ UNCHANGED <<strTable, payload, ret>>
  /\ UNCHANGED cursor

\* strTable.destroy and the return of parseBinaryTable
Finish ==
  /\ pc = "return" /\ frames = <<>>
  /\ L' = lua_remove(L, handle_)
  /\ handle_' = 0
  /\ pc' = "done" /\ ret' = 1
  /\ UNCHANGED <<cursor, heap, frames, size_, strings, payload>>

Parse ==
  \/ ReadMagic \/ ReadVersion
  \/ ReadPoolSize \/ ReadLength \/ ReadString
  \/ ReadTag \/ ReadNumber \/ ReadStringIndex \/ ReadSize
  \/ LoopEntry \/ LoopEnd \/ ReturnElement \/ ReturnKey \/ ReturnEntry \/ Finish

Ended == pc \in {"done", "raised"} /\ UNCHANGED vars

Next == Parse \/ Ended

Spec == Init /\ [][Next]_vars /\ WF_vars(Parse)
-----------------------------------------------------------------------------
TypeOK ==
  /\ p_ \in Nat /\ short \in BOOLEAN
  /\ handle_ \in Nat /\ size_ \in Nat /\ Len(strings) <= size_
  /\ \A k \in DOMAIN frames : frames[k].i \in 0..frames[k].n /\ frames[k].t \in DOMAIN heap
  /\ pc \in {"magic", "version", "pool", "length", "bytes", "value", "payload",
             "loop", "return", "done", "raised", "idle"}
  /\ ret \in 0..2

\* parseBinaryTable returns what it says it returns: one value above the
\* caller's stack, or nil and a message, whatever was on the stack when it gave up.
ResultsOnStack ==
  /\ pc = "done" => Len(L) = top + ret /\ SubSeq(L, 1, top) = Caller
  /\ pc = "done" /\ ret = 2 => L[top + 1] = Nil
  /\ pc = "done" => ret \in {1, 2}

\* The stack slot above those of frame k: its table, and its key while it waits.
Above(k) == IF k > Len(frames) THEN handle_ + 1 ELSE frames[k].at + (IF frames[k].key THEN 2 ELSE 1)

\* The slots between the string pool and the top hold exactly the tables under
\* construction, outermost first, each followed by its waiting key: the relative
\* indices -2 and -3 of rawseti and rawset always reach the table of the
\* activation that uses them, and getString always reaches the pool.
FramesOnStack ==
  handle_ # 0 /\ pc \notin {"done", "raised"} =>
    /\ L[handle_] = Pool /\ handle_ = top + 1
    /\ \A k \in DOMAIN frames : L[frames[k].at] = Tbl(frames[k].t) /\ frames[k].at = Above(k + 1)
    /\ Len(L) + 1 = Above(1) + (IF pc = "return" THEN 1 ELSE 0)

\* The tables that table t refers to, as keys and as values.
Refs(t) ==
  {y[2] : y \in {x \in DOMAIN heap[t] \cup Range(heap[t]) : lua_type(x) = "table"}}

\* What is parsed is a tree: no table is entered into two tables, or into one
\* created after it, so that no file can describe a shared or cyclic structure.
BuildsTree ==
  LET refs == [t \in DOMAIN heap |-> Refs(t)]
  IN  \A t1 \in DOMAIN heap : \A x \in refs[t1] :
        t1 < x /\ \A t2 \in DOMAIN heap : x \in refs[t2] => t1 = t2

\* Every parse ends, also of a file whose sizes promise more than it holds: a
\* read beyond the end yields T_EOF, which no parser accepts.
Terminates == <>(pc \in {"done", "raised"})
==============================================================================
