------------------------------ MODULE RoundTrip ------------------------------
(***************************************************************************)
(* writeBinaryTable, a file, parseBinaryTable: the value that one program  *)
(* writes is read back by another one.  The file may lose its end on the   *)
(* way, because neither writeToFile nor luabt looks at the result of       *)
(* fwrite, and a crash may cut a file that was truncated by fopen "wb".    *)
(* Or the file is of another origin, and anything may be in it.            *)
(***************************************************************************)
EXTENDS Wire, KeyOrder, SequencesExt

CONSTANTS
  Heap, Callers, MaxDepth, \* of the writer
  Caller, Files,           \* of the reader: its caller's stack, files of other origin
  MemLimit, MaxOver,
  MaxCut                   \* bound: only files of up to so many bytes are cut

\* A value of the writer: a table is one there is, a string consists of bytes.
IsValue(x) ==
  /\ lua_type(x) = "table" => x[2] \in DOMAIN Heap
  /\ lua_type(x) = "num" => x[2] \in Int
  /\ lua_type(x) = "str" => x[2] \in Seq(0..Base - 1)

\* The values a table of the writer holds as keys or values.
Entries(id) == Range(Heap[id].arr) \cup DOMAIN Heap[id].hash \cup Range(Heap[id].hash)

ASSUME WriterAssumption ==
  /\ \A id \in DOMAIN Heap :
       /\ Heap[id].arr \in Seq(Entries(id)) /\ IsFiniteSet(DOMAIN Heap[id].hash)
       /\ \A x \in Entries(id) : IsValue(x)
  /\ \A c \in Callers : c # <<>> /\ c \in Seq(Range(c)) /\ \A x \in Range(c) : IsValue(x)

\* No key is nil, and none of the hash part belongs into the array part.  (ltable.c)
ASSUME TableAssumption ==
  /\ MaxDepth \in Nat
  /\ \A id \in DOMAIN Heap : \A k \in DOMAIN Heap[id].hash : k # Nil /\ ArrayIndex(Heap[id], k) = 0

ASSUME ReaderAssumption ==
  /\ Caller \in Seq(Range(Caller))
  /\ \A f \in Files : f \in Seq(0..Base - 1)
  /\ MemLimit \in Nat /\ MaxOver \in Nat

------------------------------------------------------------------------------
(* What the format can hold.                                               *)

\* A number fits in eight bytes, a string in its length field, and a value is no more than
\* its type and its content.
StorableValue(x) ==
  /\ lua_type(x) = "num" =>
       x = Num(x[2]) /\ (IF x[2] % 2 = 0 THEN x[2] \div 2 ELSE x[2]) \in MinInt(64)..MaxInt(64)
  /\ lua_type(x) = "str" => x = Str(x[2]) /\ Len(x[2]) < Card(TStringLength)
  /\ lua_type(x) = "table" => x = Tbl(x[2])

\* The values writeValue may be called for.
Writable ==
  (UNION {Entries(id) \cup Keys(Heap[id]) : id \in DOMAIN Heap}) \cup {Last(c) : c \in Callers}

WritableStrings == {x \in Writable : lua_type(x) = "str"}

\* Nothing is cut to the width of a field, and a table with as many keys as its length
\* operator says has the keys 1, 2, 3, ...
Storable ==
  /\ LuaIntegerBits = 64
  /\ \A x \in Writable : StorableValue(x)
  /\ \A id \in DOMAIN Heap :
       LET n == countTableLength(Heap[id]) IN
       /\ n < Card(32)
       /\ n = luaH_getn(Heap[id]) => Keys(Heap[id]) = {Int2Num(i) : i \in 1..n}
  /\ IsFiniteSet(WritableStrings) /\ Cardinality(WritableStrings) < Card(TStringPoolLength)

\* The reader has memory for every table and every pool of strings.
MemorySuffices ==
  /\ \A id \in DOMAIN Heap : countTableLength(Heap[id]) <= MemLimit
  /\ Cardinality(WritableStrings) <= MemLimit

VARIABLES
  caller, wL, wframes, index, whandle, index2string_, indexOf, wstrings, wsize, out, stream, wpc,
  data, p_, delivered, short, rL, heap, rframes, rhandle, rsize, rstrings, payload, rpc, ret

writerVars ==
  <<caller, wL, wframes, index, whandle, index2string_, indexOf, wstrings, wsize, out, stream, wpc>>

readerRest == <<p_, delivered, short, rL, heap, rframes, rhandle, rsize, rstrings, payload, ret>>

readerVars == <<data, rpc, readerRest>>

vars == <<writerVars, readerVars>>

Writer == INSTANCE TableWriter
            WITH L <- wL, frames <- wframes, handle_ <- whandle, strings <- wstrings, size_ <- wsize, pc <- wpc

Reader == INSTANCE TableReader
            WITH L <- rL, frames <- rframes, handle_ <- rhandle, strings <- rstrings, size_ <- rsize, pc <- rpc

\* Nothing is written: the file is there already.
NoWriter ==
  /\ caller = <<>> /\ wL = <<>> /\ wframes = <<>> /\ index = 0
  /\ whandle = 0 /\ index2string_ = 0 /\ indexOf = <<>> /\ wstrings = <<>> /\ wsize = 0
  /\ out = <<>> /\ stream = <<>> /\ wpc = "failed"

Init ==
  \/ Writer!Init /\ Reader!InitRest /\ data = <<>> /\ rpc = "idle"
  \/ NoWriter /\ Reader!Init

Write == Writer!Write /\ UNCHANGED readerVars

\* fwrite in one program, fread in the other: all but the last cut bytes arrive.
Store ==
  /\ wpc = "written" /\ rpc = "idle"
  /\ \E cut \in IF Len(stream) > MaxCut THEN {0} ELSE 0..Len(stream) :
       data' = SubSeq(stream, 1, Len(stream) - cut)
  /\ rpc' = "magic"
  /\ UNCHANGED <<writerVars, readerRest>>

Read == rpc # "idle" /\ Reader!Parse /\ UNCHANGED writerVars

Ended == (wpc = "failed" \/ rpc # "idle") /\ rpc \in {"idle", "done", "raised"} /\ UNCHANGED vars

Next == Write \/ Store \/ Read \/ Ended

Spec == Init /\ [][Next]_vars /\ WF_vars(Write) /\ WF_vars(Read)
------------------------------------------------------------------------------
(* A value with the tables in it replaced by their contents.               *)

Tree(h, x) ==
  LET tree[d \in Nat] ==
        LET Image(y) ==
              IF lua_type(y) # "table" THEN y
              ELSE IF d = 0 THEN <<"deep">> ELSE <<"tree", tree[d - 1][y[2]]>>
        IN  [id \in DOMAIN h |-> {<<Image(k), Image(h[id][k])>> : k \in DOMAIN h[id]}]
  IN  IF lua_type(x) = "table" THEN <<"tree", tree[MaxDepth][x[2]]>> ELSE x

Contents == [id \in DOMAIN Heap |-> [k \in Keys(Heap[id]) |-> rawget(Heap[id], k)]]

Original == Tree(Contents, Last(caller))

Arrived == wpc = "written" /\ data = stream

\* What was written is what is read back, for every value writeBinaryTable
\* accepts: the same tree of keys and values, from a file read to its last byte
\* and not beyond.  (All of writer, format and reader take part.)
RoundTrips ==
  rpc = "done" /\ Arrived =>
    ret = 1 /\ Tree(heap, Last(rL)) = Original /\ p_ = Len(data)

\* A file that has lost its end makes no Lua error, and never passes for a whole
\* one: if it is accepted at all, the cursor has run beyond its end, which
\* parseBinaryTable could see.
CutShowsInCursor ==
  wpc = "written" =>
    /\ rpc # "raised"
    /\ rpc = "done" /\ ret = 1 => (short <=> ~Arrived) /\ (short <=> p_ > Len(data))

(* The properties of the two halves, stated where they are defined.        *)

\* writeBinaryTable leaves the stack of its caller as it was.
StackRestored == Writer!StackRestored

\* Activations of writeTable, _parseArray and _parseTable nest on their Lua stacks: every
\* remembered or relative index denotes the table of the activation that uses it.
FramesOnStack ==
  /\ Writer!TypeOK /\ Writer!FramesOnStack
  /\ Reader!TypeOK /\ Reader!FramesOnStack

\* Strings are numbered one to one by the StringTable of the writer.
Interned == Writer!Interned

\* parseBinaryTable leaves as many results as it returns, above its caller's stack.
ResultsOnStack == Reader!ResultsOnStack

\* parseBinaryTable builds a tree, whatever the file holds.
BuildsTree == Reader!BuildsTree

\* Every write and every parse ends, also of a file whose sizes promise more than it holds.
Terminates == Writer!Terminates /\ (rpc # "idle" ~> rpc \in {"done", "raised"})
==============================================================================
