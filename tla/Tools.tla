-------------------------------- MODULE Tools --------------------------------
(***************************************************************************)
(* The functions of the BinaryTable library (lua_binary_table.cpp) and the *)
(* luabt program (main.cpp) on a disk: what they open, allocate, return    *)
(* and leave behind.  Programs run one after the other on the same disk;   *)
(* a disk may be full, and a program may be killed between two steps.      *)
(*                                                                         *)
(* dumpTable runs step by step (TableDumper).  Of writeBinaryTable and     *)
(* parseBinaryTable only the result counts here (TableWriter, TableReader, *)
(* RoundTrip).  A path is <<name, extension>>.                             *)
(***************************************************************************)
EXTENDS TableDumper

CONSTANTS
  Copies,      \* the table that the reader makes of each table
  Paths,       \* paths of the files
  Disks,       \* disks at the start
  Programs,    \* command lines of luabt, and calls made by a script
  MaxPrograms  \* bound on the number of programs that run

VARIABLES
  disk,   \* the contents of every path
  left,   \* programs that may still be started
  prog,   \* the program: [run, src, dst, max] or [run |-> "none"]
  before, \* history: the disk when the program began
  fp,     \* the open FILE: <<path, mode>> or <<>>
  bufs,   \* blocks of memory allocated: "buffer", "data"
  value,  \* the value on the Lua stack that the program works on
  fault,  \* history: the disk has refused a file or lost data
  results, \* what the function returned to Lua, or the program printed
  step    \* what the program does next; "idle" before and "ended" after it

dumper == <<caller, maxIndent, L, frames, arg, out, failed, pc>>

tool == <<disk, left, prog, before, fp, bufs, value, fault, results, step>>

NoFile == <<"absent">>
Empty == <<"empty">>
Binary(x) == <<"binary", x>>   \* written by writeBinaryTable
Cut(x) == <<"cut", x>>         \* the same without its end
Source(x) == <<"source", x>>   \* a Lua file that returns x
Broken == <<"broken">>         \* a Lua file that fails
TextFile(t) == <<"text", t>>      \* written by dumpTable

Message == Str(<<"a">>) \* what a function returns with nil or false; luabt prints it
Raised == <<"raised">>

-----------------------------------------------------------------------------
(* The library underneath, by its results.                                 *)

\* The keys that are written: for an array the indices up to its length, whatever else
\* the table holds.
StoredKeys(t) ==
  IF countTableLength(t) = luaH_getn(t) THEN Keys(t) \cap {Int2Num(i) : i \in 1..countTableLength(t)} ELSE Keys(t)

ByKeys(t) == countTableLength(t) # luaH_getn(t)

\* The values that writeValue meets; the keys of an array are not among them.
Visited(x) ==
  LET visited[id \in DOMAIN Heap] ==
        LET t == Heap[id]
            met == {rawget(t, k) : k \in StoredKeys(t)} \cup (IF ByKeys(t) THEN Keys(t) ELSE {})
        IN  met \cup UNION {visited[y[2]] : y \in {z \in met : lua_type(z) = "table"}}
  IN  {x} \cup (IF lua_type(x) = "table" THEN visited[x[2]] ELSE {})

SortMayRaise(x) == \E y \in Visited(x) : lua_type(y) = "table" /\ ByKeys(Heap[y[2]]) /\ MayRaise(Keys(Heap[y[2]]))

\* writeBinaryTable refuses a value with a function in it, and one with a table whose
\* keys table.sort fails on, which may depend on the order they come in.
writeBinaryTable(x) ==
  LET functions == {y \in Visited(x) : lua_type(y) = "function"}
  IN  (IF functions # {} \/ SortMayRaise(x) THEN {NoFile} ELSE {}) \cup (IF functions = {} THEN {Binary(x)} ELSE {})

\* What the reader makes of a value that was written.
CopyOf(x) == IF lua_type(x) = "table" THEN Tbl(Copies[x[2]]) ELSE x

\* A copy has the entries that were stored, and no others.
ASSUME CopiesAssumption ==
  \A id \in DOMAIN Heap :
    LET t == Heap[id]
        copy == Heap[Copies[id]]
    IN  /\ Copies[id] \in DOMAIN Heap
        /\ Keys(copy) = {CopyOf(k) : k \in StoredKeys(t)}
        /\ \A k \in StoredKeys(t) : rawget(copy, CopyOf(k)) = CopyOf(rawget(t, k))

\* parseBinaryTable: what was stored of the value, or nil and a message.  A file without
\* its end may still be accepted, with less in it, or raise a memory error.
parseBinaryTable(c) ==
  IF c[1] = "binary" THEN {CopyOf(c[2])} ELSE IF c[1] = "cut" THEN {Message, Tbl(1), Raised} ELSE {Message}

-----------------------------------------------------------------------------
(* Command lines.                                                          *)

\* The default output: the input with the extension dat, added if it has none.
DefaultDst(path) == <<path[1], "dat">>

\* The loop over argv, on arguments <<"c">>, <<"d">>, <<"o">> and <<"file", path>>.
Options(argv) ==
  LET Take(o, a) ==
        CASE o.usage -> o
          [] ~o.usage /\ o.output -> [o EXCEPT !.dst = a[2], !.output = FALSE]
          [] ~o.usage /\ ~o.output /\ a = <<"c">> -> [o EXCEPT !.compress = TRUE]
          [] ~o.usage /\ ~o.output /\ a = <<"d">> -> [o EXCEPT !.compress = FALSE]
          [] ~o.usage /\ ~o.output /\ a = <<"o">> -> [o EXCEPT !.output = TRUE]
          [] ~o.usage /\ ~o.output /\ a[1] = "file" /\ o.src = <<>> -> [o EXCEPT !.src = a[2]]
          [] OTHER -> [o EXCEPT !.usage = TRUE]
      o == FoldLeft(Take, [compress |-> TRUE, src |-> <<>>, dst |-> <<>>, output |-> FALSE, usage |-> FALSE], argv)
  IN  IF o.usage \/ o.output \/ o.src = <<>> THEN [run |-> "usage"]
      ELSE [run |-> IF o.compress THEN "compress" ELSE "decompress", src |-> o.src,
            dst |-> IF o.dst = <<>> THEN DefaultDst(o.src) ELSE o.dst, max |-> 99]

Command(p) == IF p[1] = "luabt" THEN Options(p[2]) ELSE p[2]

\* The functions, and those among them that write a file.
Runs == {"usage", "compress", "decompress", "writeToFile", "write", "parseFromFile", "parse", "dumpToFile", "dump"}
Writes == {"writeToFile", "compress", "decompress", "dumpToFile"}

\* A disk holds something, or nothing, at every path, also at those that are written.
ASSUME ToolsAssumption ==
  /\ \A d \in Disks : d = [p \in Paths |-> d[p]]
  /\ \A p \in Programs : Command(p).run \in Runs /\ (Command(p).run \in Writes => Command(p).dst \in Paths)

FirstStep(run) ==
  CASE run = "usage" -> "ended" [] run = "compress" -> "load" [] run \in {"decompress", "parseFromFile"} -> "openRead"
    [] run \in {"writeToFile", "write"} -> "serialize" [] run = "parse" -> "parse" [] OTHER -> "dump"

StartProgram ==
  /\ step \in {"idle", "ended"} /\ left > 0
  /\ \E p \in Programs :
       LET b == Command(p) IN
       /\ prog' = b /\ step' = FirstStep(b.run)
       /\ value' = IF b.run = "parse" THEN disk[b.src] ELSE IF "x" \in DOMAIN b THEN b.x ELSE Nil
  /\ before' = disk /\ left' = left - 1 /\ fp' = <<>> /\ bufs' = {} /\ fault' = FALSE /\ results' = <<>>
  /\ Start(<<Nil>>, 99)
  /\ UNCHANGED disk

\* luabt -d goes on with one result of parseFromFile, whatever it is.
Decompressing == prog.run = "decompress"

End(r) == results' = r /\ step' = "ended"

Quiet == UNCHANGED <<left, prog, before, dumper>>

\* luabt -c: luaL_loadfile and lua_pcall of the source, with its name as argument.
LoadSource ==
  /\ step = "load"
  /\ IF disk[prog.src][1] = "source" THEN value' = disk[prog.src][2] /\ step' = "serialize" /\ UNCHANGED results
     ELSE End(<<False, Message>>) /\ UNCHANGED value
  /\ UNCHANGED <<disk, fp, bufs, fault>> /\ Quiet

\* Mutant: the output was opened before the data was there.
SerializeLate ==
  /\ step = "serialize" /\ prog.run # "write"
  /\ writeBinaryTable(value) = {NoFile}
  /\ disk' = [disk EXCEPT ![prog.dst] = Empty] /\ End(<<False, Message>>)
  /\ UNCHANGED <<fp, bufs, value, fault>> /\ Quiet

\* writeToFile, write and luabt -c, before any file is opened
Serialize ==
  /\ step = "serialize"
  /\ \E r \in writeBinaryTable(value) :
       IF r = NoFile THEN End(IF prog.run = "write" THEN <<>> ELSE <<False, Message>>) /\ UNCHANGED <<bufs, value>>
       ELSE IF prog.run = "write" THEN End(<<r>>) /\ UNCHANGED <<bufs, value>>
       ELSE bufs' = {"data"} /\ value' = r /\ step' = "openWrite" /\ UNCHANGED results
  /\ UNCHANGED <<disk, fp, fault>> /\ Quiet

\* Mutant: the data is forgotten when the file cannot be opened.
ReleasedNot(b) == b

\* freeBinaryData
Released(b) == b \ {"data"}

\* fopen(filename, "wb"): the old contents are gone from here on.
OpenWrite ==
  /\ step = "openWrite"
  /\ \/ /\ disk' = [disk EXCEPT ![prog.dst] = Empty] /\ fp' = <<prog.dst, "wb">>
        /\ step' = "write" /\ UNCHANGED <<bufs, results>>
     \/ /\ bufs' = Released(bufs) /\ End(<<False, Message>>)
        /\ UNCHANGED <<disk, fp>>
  /\ UNCHANGED <<value, fault>> /\ Quiet

\* fwrite, whose result nobody looks at, fclose and freeBinaryData
WriteFile ==
  /\ step = "write"
  /\ \/ disk' = [disk EXCEPT ![prog.dst] = value] /\ UNCHANGED fault
     \/ /\ disk' = [disk EXCEPT ![prog.dst] = IF value[1] = "binary" THEN Cut(value[2]) ELSE Empty]
        /\ fault' = TRUE
  /\ fp' = <<>> /\ bufs' = Released(bufs) /\ End(<<True>>)
  /\ UNCHANGED value /\ Quiet

\* Mutant: one byte less than the file has.
freadShort(c) == IF c[1] = "binary" THEN Cut(c[2]) ELSE c

fread(c) == c

\* parseFromFile: fopen, ftell, new char[length], fread
OpenRead ==
  /\ step = "openRead"
  /\ \/ /\ disk[prog.src] # NoFile
        /\ fp' = <<prog.src, "rb">> /\ bufs' = {"buffer"} /\ value' = fread(disk[prog.src]) /\ step' = "parse"
        /\ UNCHANGED <<results, fault>>
     \/ /\ IF Decompressing THEN value' = Nil /\ step' = "dump" /\ UNCHANGED results
           ELSE End(<<Nil, Message>>) /\ UNCHANGED value
        /\ fault' = (disk[prog.src] # NoFile)
        /\ UNCHANGED <<fp, bufs>>
  /\ UNCHANGED disk /\ Quiet

\* parseBinaryTable, fclose, delete[].  Its result is never 0, so one value is
\* returned, the message if it failed; a Lua error leaves by longjmp.
Parse ==
  /\ step = "parse"
  /\ \E r \in parseBinaryTable(value) :
       IF r = Raised THEN End(<<Raised>>) /\ UNCHANGED <<fp, bufs, value>>
       ELSE /\ fp' = <<>> /\ bufs' = {} /\ value' = r
            /\ IF Decompressing THEN step' = "dump" /\ UNCHANGED results
               ELSE End(IF prog.run = "parse" /\ r = Message THEN <<Nil, r>> ELSE <<r>>)
  /\ UNCHANGED <<disk, fault>> /\ Quiet

\* dump, dumpToFile: dumpTable is called
StartDump ==
  /\ step = "dump"
  /\ Start(<<value>>, prog.max)
  /\ step' = "dumping"
  /\ UNCHANGED <<disk, left, prog, before, fp, bufs, value, fault, results>>

Dumping ==
  /\ step = "dumping" /\ Dump
  /\ UNCHANGED tool

EndDump ==
  /\ step = "dumping" /\ pc = "done"
  /\ IF prog.run = "dump" THEN End(<<TextFile(out)>>) /\ UNCHANGED <<bufs, value>>
     ELSE bufs' = {"data"} /\ value' = TextFile(out) /\ step' = "openWrite" /\ UNCHANGED results
  /\ UNCHANGED <<disk, fp, fault>> /\ Quiet

\* The process dies; the system closes its files and takes back its memory.
Kill ==
  /\ step \notin {"idle", "ended"}
  /\ fp' = <<>> /\ bufs' = {} /\ End(<<<<"killed">>>>)
  /\ UNCHANGED <<disk, value, fault>> /\ Quiet

Init ==
  /\ disk \in Disks /\ before = disk /\ left = MaxPrograms
  /\ prog = [run |-> "none"]
  /\ fp = <<>> /\ bufs = {} /\ value = Nil /\ fault = FALSE /\ results = <<>> /\ step = "idle"
  /\ caller = <<Nil>> /\ maxIndent = 99 /\ L = <<Nil>> /\ frames = <<>> /\ out = <<>> /\ failed = FALSE
  /\ arg = [idx |-> 1, indent |-> 1, max |-> 99] /\ pc = "idle"

Ended == step = "ended" /\ left = 0 /\ UNCHANGED <<tool, dumper>>

Next ==
  \/ StartProgram \/ LoadSource \/ Serialize \/ OpenWrite \/ WriteFile \/ OpenRead \/ Parse
  \/ StartDump \/ Dumping \/ EndDump \/ Kill \/ Ended

Spec == Init /\ [][Next]_<<tool, dumper>>
-----------------------------------------------------------------------------
\* A program never changes a file other than its output (which for luabt -d without -o is
\* the file it reads, when that ends in .dat), and leaves that as it was whenever it
\* reports a failure: everything that can be refused is refused before fopen truncates
\* the file.  What it has reported as written is on the disk, unless the disk failed.
DiskKept ==
  /\ \A p \in Paths : disk[p] # before[p] => prog.run \in Writes /\ p = prog.dst
  /\ step = "ended" /\ results = <<False, Message>> => disk = before
  /\ step = "ended" /\ prog.run \in Writes /\ results = <<True>> /\ ~fault => disk[prog.dst] = value

\* Nothing is left open or allocated once a function has returned.  Only a Lua error
\* in parseBinaryTable leaves the file and the buffer of parseFromFile behind.
NothingLeft ==
  step = "ended" => (fp # <<>> \/ bufs # {} => results = <<Raised>> /\ prog.run \in {"parseFromFile", "decompress"})

\* A value with the tables in it replaced by what is stored of them.
StoredTree(x) ==
  LET tree[id \in DOMAIN Heap] ==
        LET Image(y) == IF lua_type(y) = "table" THEN <<"tree", tree[y[2]]>> ELSE y
        IN  {<<Image(k), Image(rawget(Heap[id], k))>> : k \in StoredKeys(Heap[id])}
  IN  IF lua_type(x) = "table" THEN <<"tree", tree[x[2]]>> ELSE x

\* Some table of x is written as an array although it holds more than its elements.
LosesKeys(x) == \E y \in Visited(x) : lua_type(y) = "table" /\ StoredKeys(Heap[y[2]]) # Keys(Heap[y[2]])

\* What luabt -c has stored comes back: if luabt -d reports success on a whole file, no
\* sort failed and the disk works, the output is a program that returns the value, less
\* the keys of tables with a hole that pass for arrays, provided all that was stored is
\* printable.
Restores ==
  step = "ended" /\ results = <<True>> /\ prog.run = "decompress" /\ ~fault /\ ~failed =>
    LET c == before[prog.src] IN
    c[1] = "binary" /\ (\A y \in Visited(c[2]) : Printable(y)) =>
      /\ disk[prog.dst] = TextFile(out)
      /\ Read = StoredTree(c[2])
      /\ ~LosesKeys(c[2]) => Read = Tree(c[2])
==============================================================================
