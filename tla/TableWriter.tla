----------------------------- MODULE TableWriter -----------------------------
(***************************************************************************)
(* writeBinaryTable: the mutual recursion of writeValue and writeTable in  *)
(* lua_binary_writer.cpp, with the Lua stack it works on and the C         *)
(* activations of writeTable made explicit.  One action is one call or one *)
(* return of writeValue.                                                   *)
(*                                                                         *)
(* The two BinaryWriters are the sequences of the bytes written to them:   *)
(* that is what BinaryWriter.tla implements, whatever is reserved.         *)
(***************************************************************************)
EXTENDS Wire, KeyOrder, Functions

CONSTANTS
  Heap,     \* contents of the Lua tables, by identity
  Callers,  \* the Lua stacks of callers; the last element is to be written
  MaxDepth  \* bound on the nesting of writeTable

VARIABLES
  caller,                  \* the stack of the caller (top == its length)
  L,                       \* the Lua stack
  frames,                  \* activations of writeTable, innermost first
  index,                   \* stack index of the argument of writeValue
  handle_, index2string_,  \* the StringTable: stack indices of its tables,
  indexOf, strings,        \* and their contents
  size_,
  out,                     \* dataWriter
  stream,                  \* the result
  pc                       \* "enter", "value", "loop", "return", "fail", "written", "failed"

vars == <<caller, L, frames, index, handle_, index2string_, indexOf, strings, size_, out, stream, pc>>

strTable == <<handle_, index2string_, indexOf, strings, size_>>

\* Tables of the writer's own on the stack.
String2Index == <<"string2index">>
Index2String == <<"index2string">>
KeyArray(s) == <<"keys", s>>
Library == <<"library">> \* the global "table"

top == Len(caller)

Pop(stack, n) == SubSeq(stack, 1, Len(stack) - n)

\* lua_settop
settop(stack, n) == [k \in 1..n |-> IF k <= Len(stack) THEN stack[k] ELSE Nil]

Init ==
  /\ caller \in Callers
  /\ L = caller
  /\ frames = <<>>
  /\ index = 0
  /\ handle_ = 0 /\ index2string_ = 0 /\ indexOf = <<>> /\ strings = <<>> /\ size_ = 0
  /\ out = <<>> /\ stream = <<>>
  /\ pc = "enter"

\* StringTable's constructor, and the call of writeValue for the argument.
Enter ==
  /\ pc = "enter"
  /\ L' = L \o <<String2Index, Index2String>>
  /\ handle_' = Len(L) + 1 /\ index2string_' = Len(L) + 2
  /\ index' = top
  /\ pc' = "value"
  /\ UNCHANGED <<caller, frames, indexOf, strings, size_, out, stream>>

-----------------------------------------------------------------------------
(* writeValue.                                                             *)

v == L[index]

\* The encodings of a value that needs no further call.
Scalar ==
  CASE v = Nil -> {<<T.NIL>>}
    [] v = True -> {<<T.TRUE_>>}
    [] v = False -> {<<T.FALSE_>>}
    [] lua_type(v) = "num" -> writeLuaNumber(v[2])
    [] v = Str(<<>>) -> {<<T.STRING0>>}
    [] OTHER -> {}

WriteScalar ==
  /\ pc = "value"
  /\ \E bytes \in Scalar : out' = out \o bytes
  /\ pc' = "return"
  /\ UNCHANGED <<caller, L, frames, index, strTable, stream>>

\* Mutant: a string is always new.
KnownNever(s) == FALSE

Known(s) == s \in DOMAIN indexOf

\* storeString, then the index of the string.
WriteString ==
  /\ pc = "value" /\ lua_type(v) = "str" /\ v # Str(<<>>)
  /\ \/ /\ Known(v)
        /\ out' = out \o writeLength(T.STRING0, indexOf[v])
        /\ UNCHANGED strTable
     \/ /\ ~Known(v)
        /\ size_' = size_ + 1
        /\ indexOf' = [s \in DOMAIN indexOf \cup {v} |-> IF s = v THEN size_ + 1 ELSE indexOf[s]]
        /\ strings' = Append(strings, v)
        /\ out' = out \o writeLength(T.STRING0, size_ + 1)
        /\ UNCHANGED <<handle_, index2string_>>
  /\ pc' = "return"
  /\ UNCHANGED <<caller, L, frames, index, stream>>

\* default: return false
Refuse ==
  /\ pc = "value" /\ lua_type(v) = "function"
  /\ pc' = "fail"
  /\ UNCHANGED <<caller, L, frames, index, strTable, out, stream>>

-----------------------------------------------------------------------------
(* writeTable up to its loop.                                              *)

t == Heap[v[2]]

length == countTableLength(t)

\* The test by which a table is written without its keys.
TakenAsArray == length = luaH_getn(t)

IsTable == pc = "value" /\ lua_type(v) = "table" /\ Len(frames) < MaxDepth

Activation(kind) == <<[kind |-> kind, index |-> index, i |-> 1, n |-> length, key |-> FALSE]>> \o frames

WriteEmpty ==
  /\ IsTable /\ length = 0
  /\ out' = Append(out, T.TABLE0)
  /\ pc' = "return"
  /\ UNCHANGED <<caller, L, frames, index, strTable, stream>>

BeginArray ==
  /\ IsTable /\ length # 0 /\ TakenAsArray
  /\ out' = out \o writeLength(T.ARRAY0, length)
  /\ frames' = Activation("array")
  /\ pc' = "loop"
  /\ UNCHANGED <<caller, L, index, strTable, stream>>

\* getSortedTableKeys leaves the array of keys on the stack; when table.sort
\* fails it also leaves the library table there.
BeginHash ==
  /\ IsTable /\ length # 0 /\ ~TakenAsArray
  /\ out' = out \o writeLength(T.TABLE0, length)
  /\ \/ /\ \E s \in SortedKeys(Keys(t)) : L' = Append(L, KeyArray(s))
        /\ frames' = Activation("hash")
        /\ pc' = "loop"
     \/ /\ MayRaise(Keys(t))
        /\ \E s \in Arrays(Keys(t)) : L' = L \o <<KeyArray(s), Library>>
        /\ pc' = "fail"
        /\ UNCHANGED frames
  /\ UNCHANGED <<caller, index, strTable, stream>>

-----------------------------------------------------------------------------
(* The loops of writeTable.  A frame's key is TRUE while writeValue works  *)
(* on the key of the current entry.                                        *)

f == Head(frames)

Own == Heap[L[f.index][2]] \* the table at the index the activation remembers

KeysOnTop == L[Len(L)][2]

\* The index -1 of the slot about to be pushed, as writeValue resolves it.
PushedIndex == Len(L) + 1

\* lua_rawgeti and the call of writeValue for an element or a key
LoopEntry ==
  /\ pc = "loop" /\ f.i <= f.n
  /\ L' = Append(L, IF f.kind = "array" THEN rawget(Own, Int2Num(f.i)) ELSE KeysOnTop[f.i])
  /\ index' = PushedIndex
  /\ frames' = <<[f EXCEPT !.key = f.kind = "hash"]>> \o Tail(frames)
  /\ pc' = "value"
  /\ UNCHANGED <<caller, strTable, out, stream>>

PopKeys == IF f.kind = "hash" THEN Pop(L, 1) ELSE L

LoopEnd ==
  /\ pc = "loop" /\ f.i > f.n
  /\ L' = PopKeys
  /\ frames' = Tail(frames)
  /\ pc' = "return"
  /\ UNCHANGED <<caller, index, strTable, out, stream>>

\* The key makes room for its value (lua_rawget), which is written next.
ReturnKey ==
  /\ pc = "return" /\ frames # <<>> /\ f.key
  /\ L' = Append(Pop(L, 1), rawget(Own, L[Len(L)]))
  /\ index' = Len(L)
  /\ frames' = <<[f EXCEPT !.key = FALSE]>> \o Tail(frames)
  /\ pc' = "value"
  /\ UNCHANGED <<caller, strTable, out, stream>>

ReturnValue ==
  /\ pc = "return" /\ frames # <<>> /\ ~f.key
  /\ L' = Pop(L, 1)
  /\ frames' = <<[f EXCEPT !.i = @ + 1]>> \o Tail(frames)
  /\ pc' = "loop"
  /\ UNCHANGED <<caller, index, strTable, out, stream>>

-----------------------------------------------------------------------------
(* The end of writeBinaryTable.                                            *)

\* Mutant: the lower table first, which moves the other one.
destroySwapped(stack) == lua_remove(lua_remove(stack, handle_), index2string_)

\* strTable.destroy: lua_remove of the upper table, then of the lower one.
destroy(stack) == lua_remove(lua_remove(stack, index2string_), handle_)

\* StringTable::write: the length is cast to TStringLength, the bytes are not.
PooledString(s) == writeNumber(TStringLength, Len(s)) \o s

Pooled ==
  LET pool[k \in 0..size_] == IF k = 0 THEN <<>> ELSE pool[k - 1] \o PooledString(strings[k][2])
  IN  writeNumber(TStringPoolLength, size_) \o pool[size_]

Finish ==
  /\ pc = "return" /\ frames = <<>>
  /\ stream' = writeNumber(16, MAGIC_NUMBER) \o writeNumber(16, LUABT_VERSION) \o Pooled \o out
  /\ L' = destroy(L)
  /\ handle_' = 0 /\ index2string_' = 0
  /\ out' = <<>>
  /\ pc' = "written"
  /\ UNCHANGED <<caller, frames, index, indexOf, strings, size_>>

\* Every activation returns false; the result is a null pointer.
Fail ==
  /\ pc = "fail"
  /\ L' = settop(destroy(L), top)
  /\ handle_' = 0 /\ index2string_' = 0
  /\ out' = <<>> /\ frames' = <<>>
  /\ pc' = "failed"
  /\ UNCHANGED <<caller, index, indexOf, strings, size_, stream>>

Write ==
  \/ Enter
  \/ WriteScalar \/ WriteString \/ Refuse \/ WriteEmpty \/ BeginArray \/ BeginHash
  \/ LoopEntry \/ LoopEnd \/ ReturnKey \/ ReturnValue
  \/ Finish \/ Fail

Ended == pc \in {"written", "failed"} /\ UNCHANGED vars

Next == Write \/ Ended

Spec == Init /\ [][Next]_vars /\ WF_vars(Write)
-----------------------------------------------------------------------------
Running == pc \notin {"enter", "written", "failed"}

TypeOK ==
  /\ pc \in {"enter", "value", "loop", "return", "fail", "written", "failed"}
  /\ handle_ \in Nat /\ index2string_ \in Nat /\ size_ \in Nat
  /\ pc = "value" => index \in DOMAIN L
  /\ \A k \in DOMAIN frames : frames[k].i \in 1..(frames[k].n + 1) /\ frames[k].index \in DOMAIN L

\* assert(lua_gettop(L) == top), and the settop of the failure path: the caller
\* finds its stack as it left it, with the same values, whatever was written or
\* refused at whatever depth.
StackRestored == pc \in {"written", "failed"} => L = caller

\* The first stack slot above those that frame k needs while it runs.
Above(k) ==
  IF k > Len(frames) THEN index2string_ + 1
  ELSE LET own == IF frames[k].index = top THEN index2string_ ELSE frames[k].index
       IN  own + (IF frames[k].kind = "hash" THEN 2 ELSE 1)

\* Activations nest on the stack: each one's index still denotes the table it
\* was called for, directly above what its caller keeps there, and its array of
\* keys lies directly above it, so that the relative indices -1 hit their own
\* operands.  The string tables stay where handle_ and index2string_ say.
FramesOnStack ==
  Running /\ pc # "fail" =>
    /\ SubSeq(L, 1, top) = caller
    /\ handle_ = top + 1 /\ L[handle_] = String2Index
    /\ index2string_ = top + 2 /\ L[index2string_] = Index2String
    /\ \A k \in DOMAIN frames :
         /\ lua_type(L[frames[k].index]) = "table"
         /\ frames[k].n = countTableLength(Heap[L[frames[k].index][2]])
         /\ frames[k].index = IF k = Len(frames) THEN top ELSE Above(k + 1)
         /\ frames[k].kind = "hash" => lua_type(L[Above(k) - 1]) = "keys"
    /\ pc = "loop" => Len(L) + 1 = Above(1)
    /\ pc \in {"value", "return"} => Len(L) = IF frames = <<>> THEN index2string_ ELSE Above(1)

\* Strings are numbered one to one: equal strings share an index, different ones
\* never do, and every index leads back to its string.
Interned ==
  /\ size_ = Len(strings)
  /\ DOMAIN indexOf = Range(strings)
  /\ \A s \in DOMAIN indexOf : indexOf[s] \in 1..size_ /\ strings[indexOf[s]] = s
  /\ IsInjective(strings)

\* The comment in writeTable, "the table is an array.": a table written without
\* its keys has exactly the keys 1 .. length.
ArrayIsArray ==
  \A k \in DOMAIN frames :
    frames[k].kind = "array" =>
      Keys(Heap[L[frames[k].index][2]]) = {Int2Num(i) : i \in 1..frames[k].n}

\* Every write of a table that does not contain itself ends.
Terminates == <>(pc \in {"written", "failed"})
==============================================================================
