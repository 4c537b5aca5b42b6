# A TLA+ model of LuaBinaryTable

LuaBinaryTable turns a Lua 5.1 value into a compact binary file and back. It is a
C++ library bound to Lua, a command line tool `luabt`, and the Lua 5.1.5 it is
built with. This directory holds a TLA+ model of it, the TLC configurations that
check the model on small instances, and TLAPS proofs of most of the properties for
every value of the constants. Paths are relative to the repository.

## The system

| Part | Source | State | Operations |
|---|---|---|---|
| `BinaryWriter` | `src/lua_binary_writer.h/.cpp` | three pointers into a malloc'ed block | `reserve`, `ensure`, `write*`, `destroy` |
| `BinaryReader` | `src/lua_binary_reader.h` | cursor and end of a file in memory | `readNumber`, `readBytes`, `readType` |
| Format | `src/lua_binary_types.h` | none | tags, integer widths, `writeInteger`, `writeLength` |
| Table writer | `src/lua_binary_writer.cpp` | Lua stack, C recursion, string pool, data buffer | `writeBinaryTable` = `writeValue` / `writeTable` |
| Key sorting | `src/lua_binary_writer.cpp`, `ltablib.c` | array of keys | `sortCmp`, `getSortedTableKeys`, Lua's `table.sort` |
| Table reader | `src/lua_binary_reader.cpp` | Lua stack, C recursion, string pool | `parseBinaryTable` = `parserValue` and the `_parse*` functions |
| Table dumper | `src/lua_binary_writer.cpp` | Lua stack, text buffer | `dumpTable`, `dumpValue` |
| Lua bindings | `src/lua_binary_table.cpp` | Lua stack, files, buffers | `parse`, `write`, `parseFromFile`, `writeToFile`, `dump`, `dumpToFile` |
| `luabt` | `test/main.cpp` | options, files | `compressFile`, `decompressFile` |
| `ltest` | `test/test.cpp` | none | a test and a benchmark |
| Lua: compiler | `lparser.c`, `lcode.c`, `ldebug.c` | function states, jump lists, registers | one function per syntactic construct |
| Lua: virtual machine | `lvm.c`, `lfunc.c`, `ltm.c` | stack, open upvalues, tables | one case per instruction |
| Lua: chunks | `ldump.c`, `lundump.c`, `lzio.c` | a stream | `luaU_dump`, `luaU_undump` |
| Lua: collector | `lgc.c`, `lstring.c`, `lfunc.c`, `lapi.c` | colours, lists, string table | `singlestep`, `luaC_fullgc`, barriers |
| Lua: tables | `ltable.c` | array part, hash part | get, set, `rehash`, `luaH_next`, `luaH_getn` |
| Lua: calls | `ldo.c`, `lbaselib.c` | `CallInfo` arrays, C stack, counters and flags | call, return, throw, catch, hook, resume, yield |

A value is written by one recursion. `writeValue` appends scalars to a data
buffer, gives every non-empty string a number in a string pool, and calls
`writeTable` for tables. A table whose number of entries equals its length
operator is written as an array; any other one as a hash, with its keys sorted by
`table.sort` and the C comparison `sortCmp`. At the end the header, the pool and
the data are put together. The reader does the inverse by recursive descent.
The dumper prints a value as Lua source. All three keep their intermediate
values on the caller's Lua stack, addressed by a mixture of absolute and
relative indices. The bindings add files; `luabt -c` runs a Lua file, and writes
what it returns; `luabt -d` parses a file and dumps it.

The library runs inside Lua and depends on it at every step: its values live only
on the Lua stack, so the collector must keep what the stack reaches; it counts and
visits tables with `lua_next` and takes the length operator's word for what an array
is; it compares strings by address; its errors leave by `longjmp` through
`luaD_throw`; `luabt` compiles and runs its input. So the parts of Lua that these
rest on are modelled too.

There are no threads. What is hard is elsewhere: pointers into a block that
moves; a cursor that runs beyond its end without anybody looking; a stack shared
by many activations that fail at any depth; a comparison that is not an order;
limits of 8, 16, 32 and 64 bits; a file that lost its end; a collector that may
run between any two operations; keys that die under a traversal; jump lists
threaded through code that is still being written; coroutines and errors that
leave and enter the C stack in any order. The list is under `hazards` in
`PROJECT.json`, each entry with its line and the properties aimed at it.

## Modules

| Module | Models |
|---|---|
| `BinaryWriter`, `AppendLog` | the buffer on an explicit C heap; what it promises, an append-only log |
| `BinaryWriterProofs` | invariants and refinement of `BinaryWriter`, proved |
| `BinaryReader`, `BinaryReaderProofs` | the cursor; its invariants and its action property, proved |
| `Wire` | tags and encodings, as operators |
| `LuaValues` | Lua values and tables as the library sees them |
| `KeyOrder` | `sortCmp` as `table.sort` sees it; what sorting may return |
| `KeySort` | `getSortedTableKeys` with Lua's quicksort, one comparison per step |
| `KeySortProofs` | the sort loses no key, stays in its array and keeps its promise, proved |
| `TableWriter` | `writeBinaryTable` |
| `TableReader` | `parseBinaryTable`; reads through an instance of `BinaryReader` |
| `RoundTrip` | composes `TableWriter`, a file and `TableReader` |
| `RoundTripProofs` | numbers are read back as they were written; the Lua stacks of both recursions, the string pool, the shape of what is read, proved |
| `ReadBackProofs` | what is written is read back, and a file cut short shows, proved |
| `TableDumper` | `dumpTable` |
| `Tools` | the file functions and `luabt` on a disk, with `TableDumper` inside |
| `ToolsProofs` | the dumper's stack, the files and the memory, proved |
| `Collector` | Lua's incremental collector and the program it interrupts |
| `LuaTable`, `Dictionary` | Lua's tables; what they promise |
| `LuaTableProofs` | the structure of the hash part, the dictionary, traversal and length, proved |
| `Calls`, `CallsProofs` | calls, errors, hooks and coroutines; their counters and limits, proved |
| `CodeGenerator`, `Parser`, `CodeChecker` | the compiler and `luaG_checkcode` |
| `Interpreter` | the virtual machine |
| `Chunk` | precompiled chunks |
| `Meaning` | what a program means by the reference manual, with no registers or jumps |
| `Program` | composes the last six |
| `MC*` | values of the constants for TLC |

**BinaryWriter.** A pointer is a block and an offset, the heap maps live blocks
to cells, and a cell nobody has written holds `Junk`. `Allocate` lets `malloc` and
`realloc` keep the block, move it anywhere or (with `MayFail`) refuse. `Put` is
the common body of the `write*` functions: `ensure`, copy, advance. A store that
leaves the live block sets `fault`. The arithmetic on sizes is exact; overflow of
`size_t` is out of reach of real sizes.

**BinaryReader.** `p_` is an offset. `readNumber` advances it whether or not the
number fits, `readBytes` sets it to the end when the string does not. `delivered`
and `short` are history variables.

**Wire.** The base of a byte and the widths of the integer types are constants.
The build has 256 and 1, 2, 4, 8 bytes; TLC runs use base 26 (just above the
largest tag) and 1, 2, 3, 4 bytes, so that every limit lies within TLC's
integers and within reach of a table. A Lua number is represented by twice its
value: odd numbers stand for doubles that are not whole. The cast of a whole
double outside `int64_t` is undefined in C++; it may yield the smallest value
(x86-64) or saturate. NaN, infinities and negative zero are not represented.

**LuaValues, KeyOrder.** A table has an array part and a hash part because
`luaH_getn` depends on the split. A table's identity stands for its address.
`sortCmp` is a `lua_CFunction` that returns its verdict as its *number of
results*: `return 1` hands back the second argument, which is false when the key
is `false`. `Collates` is `strcoll`, a parameter. Metamethods of userdata keys are
not modelled. `SortedKeys` and `MayRaise` are the promise the writer relies on:
one result if the keys are linearly ordered, any permutation otherwise, and an
error only if two keys have no order, or one has none with itself and there are
at least four (the quicksort compares its pivot with itself).

**KeySort.** `todo` is the recursion of `auxsort`, innermost range first. Initial
states are all orders of the keys. `KeepsPromise` ties it to `KeyOrder`.

**TableWriter.** `L` is the Lua stack; `frames` are the activations of
`writeTable` (kind, absolute index of the table, loop variable, whether a key is
being written). One action is one call or return of `writeValue`: `WriteScalar`,
`WriteString` (`storeString` included), `Refuse` (default case), `WriteEmpty`,
`BeginArray`, `BeginHash` (`getSortedTableKeys` included), `LoopEntry`, `LoopEnd`,
`ReturnKey`, `ReturnValue`; `Finish` and `Fail` are the two ends of
`writeBinaryTable`. The buffers are sequences of bytes, which is what
`BinaryWriter` is proved to provide. `cacheSize_` only sizes a reservation and is
left out.

**TableReader.** One action is one read with what follows from it
(`ReadMagic`, `ReadVersion`, `ReadPoolSize`, `ReadLength`, `ReadString`, `ReadTag`,
`ReadNumber`, `ReadStringIndex`, `ReadSize`) or one return of `parserValue`
(`ReturnElement`, `ReturnKey`, `ReturnEntry`). Tables are created on a heap of
their own. `lua_createtable` raises a memory error above `MemLimit`; `lua_rawset`
raises one for a nil key.

**RoundTrip.** `Store` hands the written bytes to the reader, without up to
`MaxCut` of the last ones; or the reader begins with a file of other origin.

**TableDumper.** Activations of `dumpValue` are explicit, as in `TableWriter`. The
text is a sequence of symbols; `%.14g` is modelled by rounding to `Precision`
digits; quotation marks, backslashes and line breaks in a string are not escaped, as in the
code. `Read` reads a text back the way Lua would: `StringFrom` is `read_string` of `llex.c`,
for which a backslash begins an escape and a line break ends the string in an error (the
decimal escapes are left out: no string of the model has digits). `Printable` is exactly
what survives, numbers of at most `Precision` digits and strings without these characters. Every failed sort leaves one value too many on the stack, and the
loop of the enclosing table indexes what lies there: the key array or the
`table` library, which is why both are values of the model.

**Tools.** The program that runs, its open file, its buffers, the value it works
on and the disk. Each step between two system calls is an action; `Kill` may
come between any two, `fopen` may fail, and a write may lose the end. Two programs
run one after the other, so that the second meets what the first left.
`writeBinaryTable` and `parseBinaryTable` count by their results. `writeBinaryTable` refuses
a value in which it meets a function, and may refuse one with a table whose keys the sort
may fail on (`SortMayRaise`: a table written by its keys, so not one that passes for an
array). What is stored of a table are its `StoredKeys`: of a table whose number of entries
is its length only the elements 1, 2, 3, ..., even if there is a hole among them and another
key in their place. A whole file gives back the copy of what was stored (`Copies` names the
table that each one comes back as, and `CopiesAssumption` says what is in it); a cut one
gives a message, a smaller value or a Lua error. This is what `TableWriter`, `TableReader` and
`RoundTrip` establish in detail.

**Collector.** `g` is the `global_State`: heap, colours, the lists `gray`,
`grayagain`, `weak`, `rootgc`, `tmudata`, the string table, the ring of open upvalues.
`Step` is one `singlestep` in whatever state the collector is, and may come between
any two operations of the program (`GCthreshold` and its pacing are left open, which
allows more). The program's operations are those of `lapi.c` and `lvm.c` that create
or store references, with their barriers: `lua_rawset`, `lua_setmetatable`,
`lua_setfenv`, `lua_setupvalue`, `OP_SETUPVAL`, `OP_CLOSURE`, `OP_CLOSE`, `lua_xmove`, new
strings, threads and userdata. A table has one array slot and one node.

**LuaTable.** Nodes, `lastfree`, chains, `dummynode`; a collectable key of an empty
entry may be declared dead at any time. The traversal is `lua_next` called by a
program that may assign to existing fields meanwhile. The loops that follow a chain, the
two searches for a border and the loops of `resize` are recursive functions; the loop of
`computesizes` is the choice of the greatest power of two it would accept. Sizes are exact:
integer keys beyond `MAXASIZE` (2^26), which `countint` does not count, `table overflow` and
the linear search of `unbound_search` beyond `MAX_INT` are out of reach.

**Calls.** Each thread's `CallInfo` array, `size_ci`, `nCcalls`, `baseCcalls`,
`allowhook`, `errfunc` and `status`; and one C stack of activations of
`luaV_execute`, `luaD_call`, `luaD_pcall`, `lua_resume`, `luaG_errormsg` and
`luaD_callhook`. What a function does next is free: call, return, `pcall`, `xpcall`,
`error`, run out of memory, meet a hook, create, resume, yield. `Catch` is the
`longjmp`. An activation records how many functions of its thread were active below
it (`ci`): `luaD_pcall` saves that, in the others it is history, which the proofs use
and no guard reads. `LeaveResume` is the end of `auxresume` with both outcomes: the results are
moved to the resumer, or they do not fit ("too many results to resume"), stay on the
coroutine's stack and the resumer fails. A coroutine that ended like that is `left`;
`costatus` cannot tell it from one that has not started, and the next resume calls the last
of what was left (`Started`), here a Lua function or something that cannot be called; a C function
that the body returned is left out. Values are left out; so are tail calls, the shrinking of stacks by the
collector, and finalizers, around which the collector switches hooks off
(`lgc.c:461`). A handler that is not a function is one of two outcomes.

**CodeGenerator, Parser, CodeChecker.** Operators on function states, named after
the C functions. The input is a sequence of tokens. Line numbers, names of locals
for debugging, the exponent and division operators, and array items beyond
`MAXARG_C` batches are left out, as is the search for names in error messages.

**Interpreter.** One action per instruction, with `luaD_precall`, `luaD_poscall`,
tag methods and upvalues inside. A tag method called from an instruction is a
frame whose result is put in place by `Continue`. Strings are not converted to
numbers; the stack does not move; `setmetatable` is the only C function.

**Meaning, Program.** `Meaning` gives a syntax tree its tokens and its result by
structural recursion, following section 2 of the manual, with one exception: an assignment with
the key nil or NaN fails before a `__newindex` handler is asked, as `luaV_settable` has it
(`lvm.c:141`) and the manual has not. `Program` compiles the
tokens, may dump the function to a writer that stops anywhere and load the result,
and executes it; compiler, loader and meaning are operator constants of it (`Compile`,
`Undump`, `Means`), which the run sets to `luaY_parser`, `luaU_undump` and `Meaning`. The code the model generates for all 3856 programs of the run was
compared, instruction by instruction, with that of the repository's own `luac`
(constants set to the real `MAXINDEXRK` and `LFIELDS_PER_FLUSH`), and the results with
those of its `lua`: they are the same.

## Runs

| Run | Question | Result |
|---|---|---|
| `buffer` | does the buffer stay in its block and keep its bytes when the block moves or is refused? | holds |
| `reader` | can a later read succeed after a short one? | holds: no |
| `keysort` | does the quicksort survive `sortCmp`, and when can it fail? | holds |
| `roundtrip` | is what is written read back; does a cut file show; do both recursions keep the stack and end? | holds |
| `tools` | which files change, what stays open, does what was stored come back? | holds |
| `heap` | is anything in use freed, anything garbage kept, a string doubled, a finalizer called twice or forgotten? | holds |
| `table` | is a table a dictionary with a border and complete traversals? | holds |
| `calls` | do counters, flags and handlers agree with the C stack, and is that bounded? | holds |
| `program` | do compiled programs compute what they mean? | holds |
| `array_hole` | is what is written as an array an array? | violated |
| `shared_upvalue` | is a value in a shared upvalue safe after `lua_setupvalue`? | violated |
| `overflow` | is the reserve for handling overflows given back? | violated |

* **buffer.** Two addresses, so that `realloc` may stay or move; inputs of 0, 2, 5
  and 9 bytes and 11 bytes in all, around the initial capacity of 8 and its first
  doubling. Deadlock is not checked: after a store through NULL the program is
  gone.
* **reader.** The real widths, files of 0 to 17 bytes, reads of every width in
  every order.
* **keysort.** All sets of 2, 3 and 4 keys out of 11 (negative and positive numbers,
  both booleans, strings, tables, a function) and two sets of 6, in all orders.
  `ScansInBounds` says that Lua's "invalid order function" never happens although
  `sortCmp` is not transitive; `NoKeyLost` that no entry is lost; `KeepsPromise`
  that the result does not depend on `lua_next` where the keys have an order.
* **roundtrip.** Eighteen tables (empty, arrays, records, holes, one and two
  boolean keys, table keys, functions, failures below pending arrays and records),
  as only and as second stack element; integers on both sides of each width; 25, 26
  and 676 elements (the limits of one and two bytes in base 26), 26 different
  strings, the longest string the pool can describe; every file of up to 60 bytes
  cut at every byte. Of other origin: all bodies of up to four bytes from ten, and a
  nested file with every prefix and every byte replaced. `CutShowsInCursor`: a cut
  file makes no Lua error, and if it is accepted the cursor is beyond its end,
  while after a whole file it is exactly at the end. One comparison at the end of
  `parseBinaryTable` would reject every cut file. `BuildsTree` says that no table is
  entered twice.
* **tools.** Fifteen tables, four disks, eighteen command lines and calls, two programs
  in a row. `DiskKept`: a failure that is reported has changed nothing, because
  everything that can be refused is refused before `fopen` truncates. `NothingLeft`:
  only a Lua error out of `parseBinaryTable` leaves a file open. `DumpReadsBack`: whenever no
  sort failed, the text is a program that returns the value if the value is printable
  throughout, and *only* then (functions, quotation marks, backslashes, line breaks and
  excess digits are all lost). `Restores`: what `luabt -c` has stored comes
  back through `luabt -d` in this sense; what a table with a hole loses in between
  (`LosesKeys`) is told apart from what is stored of it (`StoredTree`). `DiskKept` permits `luabt -d` to
  overwrite its own input, which it does by default when the input ends in `.dat`: no document
  says what it should do.
  `StackUsable`: after any number of failed sorts `lua_rawgeti` still meets a table, the
  caller keeps its values, and something is left on them just when a sort has failed.
* **heap.** Nine addresses, four heaps (closures that share an upvalue; a weak table
  with a finalized userdata; a dead thread with an open upvalue; a suspended thread),
  each followed by two or three operations of the program at any points of one or
  more collections, a sweep of two objects per step. `FinalizedOnce` and `NoneForgotten`: no
  finalizer is called twice, no userdata is freed before its call, and when the state is
  closed every finalizer that was due has been called. `FullCollects`: a full collection frees
  what was garbage when it began, and nothing else.
* **table.** Five keys with collisions, integer keys in both parts, one constructor
  size; all sequences of operations.
* **calls.** Limits of 5 nested C calls with a reserve of 2, `CallInfo` arrays of 4
  entries, 7 active functions, two coroutines (interchangeable, hence symmetry): all
  limits are met and passed. `costatus` and the yield rule are in `StatusTruthful`, which says
  what `resume` will do with a coroutine; a body that ended and whose results were left on
  its stack is "suspended" there.
* **program.** Nineteen programs written for closures, loops, varargs, constructors,
  methods, metamethods, assignments and defaults (`t or {}`), fifteen that fail, and all conditions of up
  to three operands from six in three contexts; with few constants in reach of an
  instruction (`MAXINDEXRK` 2) and constructors flushed every two items. Twelve texts
  that must be refused, among them each limit passed by one. A program ends,
  so deadlock is not checked.

Fairness is weak fairness of the one thread's next step: a C function that can go
on does. `Terminates` (of `KeySort`, and of writer and reader in `RoundTrip`) needs no
more. For a table that contains itself the recursion does not end; the runs
contain none. `Collector`, `LuaTable`, `Calls`, `Tools` and `Program` are checked for safety
only: what their programs do next is the environment's choice.

`TypeOK` is proved for `BinaryWriter`, `BinaryReader` and `KeySort`, is part of
`FramesOnStack` for writer and reader, and is checked by `heap` for `Collector`; in
`KeySort`, `NoKeyLost` says more, and the configuration leaves `TypeOK` out.

## What does not hold

* **array_hole.** `{1, nil, 3, x = 1}` has three entries and length 3: it is written as
  an array, and `x` is lost.
* **shared_upvalue.** `lua_setupvalue` calls its barrier for the closure it was
  given. If that is not yet marked while another closure with the same upvalue is,
  the upvalue is black and the new value white: it is freed. `OP_SETUPVAL` names the
  upvalue and is right. The library does not use `lua_setupvalue`; `debug.setupvalue`
  does. `heap` leaves out that one case (`ShareUpvalues`).
* **overflow.** `restore_stack_limit` shrinks the `CallInfo` array only if the catching
  `pcall` is not itself near the limit. Otherwise the reserve stays in use after
  everything has returned, until a later `pcall` that catches an error higher up finds room to
  shrink the array, and a runaway recursion before that is reported as "error in
  error handling" without calling its handler. Reproduced with the repository's
  `lua`.

Smaller observations, reproduced with the library or the interpreter, for which
there is no run (the models behave in the same way, but for the fourth: their Lua stack has
no limit):

* `parseBinaryTable` returns 2 when it fails, and `parseFromFile` takes only 0 for a failure
  (`lua_binary_table.cpp:64`): it returns the message as if that were the value, and its "Failed
  parse data" is never reached. `luabt -d` dumps the message, and without `-o` writes the dump
  over the file it has failed to read.
* A coroutine that returns more values than fit on the stack of its resumer has ended; the
  resumer gets "too many results to resume" (`lbaselib.c:531`), and `coroutine.status` says
  "suspended" where the manual says "dead". Another resume calls the last of the values, if
  the stack has room for that.
* By the manual, `t[nil] = v` with `t` a table that has a `__newindex` handler calls the handler;
  `luaV_settable` fails with "table index is nil" before it looks for one (`lvm.c:141`).
* Records nested ten deep use more than the 20 stack slots a C function may use
  without `lua_checkstack` (`lua_binary_writer.cpp:338`).
* A whole double outside `int64_t`, for instance `1e300`, is read back as another
  number (`lua_binary_writer.cpp:411`); a string of 65536 bytes or more makes a file
  that cannot be read (`lua_binary_writer.cpp:131`).
* A file cut in its last operand is accepted, with 0 for what is missing
  (`lua_binary_reader.h:31`): `{1, 2, 3}` without its last byte is `{1, 2, 0}`.
* When `lua_resume` is the call that brings `nCcalls` to exactly `LUAI_MAXCCALLS`, the
  equality test of `luaD_call` (`ldo.c:372`) is skipped and the overflow is only noticed
  at the end of the reserve, as "error in error handling". A coroutine that is
  refused its first resume because the C stack is full is dead afterwards.

## Proofs

The theorems hold for all values of the constants that satisfy the assumptions,
which TLC evaluates on every run.

| Module | Assumptions | Theorems |
|---|---|---|
| `BinaryWriterProofs` | `WriterAssumption` of `BinaryWriter` | `BufferIsOneBlock`, `NoWildStores`, `TypeAndContents`, `Refinement` |
| `BinaryReaderProofs` | `WireAssumption`, `ReaderAssumption` of `BinaryReader` | `PrefixDelivered`, `ShortReadIsFinal` |
| `KeySortProofs` | `KeySetsAssumption`, `CollatesAssumption` | `Typed`, `KeysKept`, `ScansStay`, `PromiseKept` |
| `RoundTripProofs` | `WireAssumption` of `Wire` | `NumbersReadBack`, `IntegersReadBack` |
| | and `WriterAssumption` of `RoundTrip` | `CallerStackRestored`, `StringsNumbered`, `WriterFrames` |
| | and `ReaderAssumption` of `RoundTrip` | `BytesOnly`, `ResultsLeft`, `TreesOnly`, `FramesStay` |
| `ReadBackProofs` | all of these, `TableAssumption` and `Storable` of `RoundTrip` | `WrittenReadsBack` |
| | and `MemorySuffices` of `RoundTrip` | `CutsShow` |
| `CallsProofs` | `Limits` | `CallsFit`, `CountersMatch`, `StacksBounded`, `StatusKnown` |
| `ToolsProofs` | `ToolsAssumption` | `StackLeft`, `OutputKept`, `FilesClosed` |
| `LuaTableProofs` | `LuaTableAssumption` | `StructureKept`, `Displacement`, `IsDictionary`, `Traversal`, `LengthReturned` |

The assumptions are what the code relies on. A set of keys is finite and holds
keys of Lua tables; `strcoll` never puts each of two strings before the other; a
table and a caller's stack hold Lua values, and a caller has put a table on its
stack; a file consists of bytes; a limit is a positive number, the reserve
for errors is not empty, and a `CallInfo` array starts with two entries at least; a disk
has something or nothing at every path, and a program is one of the functions and tools;
a key of a table is neither nil nor dead, its hash is a natural number, and a constructor
asks for a natural number of items; in `RoundTrip` the array part of a table has the keys its size
says, and the hash part none of them. `Storable` and `MemorySuffices` are hypotheses of
their theorems, not assumptions of the module: the code does not see to them, and `array_hole`
shows what happens to a table that is not storable. `Storable`: a 64 bit `lua_Integer`; numbers
of at most 64 bits; fewer keys in a table, strings in the pool and bytes in a string
than their length fields count; and a table with as many keys as `lua_objlen` says has the keys
1, 2, 3, ... `MemorySuffices`: the reader has memory for every table and pool.
`MCRoundTrip` assumes both, so TLC evaluates them: all tables of `roundtrip` satisfy them.
`LengthReturned` asks in addition that every natural
number has a hash, also one that is not among `Keys`: the searches for a border look for it.

* **BinaryWriter.** `IInv` is `TypeOK`, `OneLiveBlock`, `NoWildStore`,
  `WrittenIsInitialised` and `RefusedReservation`. The last one is needed because
  after a refused reservation `end_` is beyond a null `data_`, and the next write
  that fits goes through NULL: this is the only way to a bad store. Every write
  splits into a store that fits and one that allocates first; both keep `IInv` and
  extend the bytes between `data_` and `p_`. `Refinement` maps the log to the bytes
  between the pointers; a moved block keeps them by `Resized`.
* **BinaryReader.** `IInv` adds `ShortAtEnd` (after a short read the cursor never
  comes back before the end) to `TypeOK` and `DeliversPrefix`. A read that fits can
  only follow reads that fitted, and then appends the next bytes of the file
  (`LongerPrefix`).
* **KeySort.** All that is used of `sortCmp` is that it never answers yes for both
  orders of two keys (`NeverBoth`). `Partitioned` says what `auxsort` knows while it
  scans: what is below `i` is not above the pivot, what is above `j` not below it;
  hence both scans meet the pivot or an end in time.
  `OrderedApart` is about the ranges still to sort: two positions in no common range
  are in order when the keys are linearly ordered. With no range left the array is
  sorted, which is the promise that `TableWriter` takes from `KeyOrder`. Every
  exchange only rearranges the range it is in (`ExchangeRearranges`). That "invalid
  order function" is never raised is therefore no accident of the tables tried.
* **Wire.** A number of any width read back is the number modulo that width, by
  induction over its bytes; an integer of 64 bits in the narrowest type that
  `writeInteger` finds for it is itself.
* **Writer.** `StackInv`: the frames of `writeTable` cut the Lua stack into
  consecutive pieces, one for each activation, with its table at the remembered
  index, its array of keys and its current key and value above (`Layout`, `Tops`),
  above the caller's stack and the two tables of strings; `Counting` bounds the loop
  variables. It is `Layout` for *all* activations that makes the invariant inductive:
  what returns to an activation depends on everything below it having stayed.
  On success, refusal and a failing sort the caller's stack comes back.
* **Reader.** `BytesInv`: whatever the writer has appended is a sequence of bytes,
  hence so is the file. `ReaderInv`: `RLayout`, `RTops` and `RCounting` as for the
  writer, for every file, with every operand, also one that is cut or nonsense. The
  pieces of `Growing` and `Grown` say that a table being filled is referred to by no
  other yet and that references go from earlier tables to later ones; from them,
  that what is read is a tree.
* **Round trip.** What both programs are doing is written down once, as a configuration: the
  activations (of `writeTable`, and later on of `_parseArray` and `_parseTable`), the bytes
  and strings so far, and the tables in the order in which they were entered. `Moves`
  relates a configuration to the next one, `IsTrace` is a run of such moves. `WriterInv`:
  the writer is where a run has led it (`WriterAt`), and a file that is written
  consists of the head, the pool and the bytes of a complete run. `ReadInv`: the reader is
  at one of the configurations of this run, its cursor behind the bytes of that configuration
  (`AtPlace`, `AtOperand`), its stack and tables those the run has made so far (`ReaderAt`), or
  the file has ended and it has fallen off the end (`Fallen`). Each action of the reader
  goes on to the next configuration, because the bytes found there are those of the move
  (`Piece`), or reaches the end of a file that was cut. Afterwards all reads fail: `parseValue`
  gives up, or a loop that has lost all its entries runs to its end with the
  cursor far out. A key that waits for its value is not nil there, so `lua_rawset` raises
  no error (`KeysHold`). A reader that is done and has
  not fallen has copied every table (`Sat`); that the two trees are then the same is induction
  over the depth (`TreesSame`).
* **Calls.** `CallsInv` ties each activation on the C stack to the one below it
  (`Based`: what a `luaD_call`, a hook, a handler, a `luaD_pcall`, a `lua_resume` may lie on,
  what was saved), threads to contiguous pieces of that stack (`Threaded`, `Rising`),
  each activation to the `CallInfo` entries it relies on (`Framed`), every thread that
  has resumed another to the moment when it did (`Frozen`), every thread that is not
  on the stack to one of four states of rest (`Lives`), and the running one to what
  comes next (`Expects`). `StateMatchesStack` alone is not inductive: `Catch` puts back
  what `luaD_pcall` saved, `ReturnFromResume` uncovers a thread as it was, and that this
  is right is a statement about every activation further out. The limits follow
  because at most the one call that overflows is ever counted beyond them.
  `StatusKnown` says "suspended" of a coroutine that ended with values left on its stack,
  as the code does, and for "dead" needs that one whose results were taken has none. It
  also needs, for "normal", that a thread which has resumed another has status
  0 and a frame, and for the yield rule, that with `nCcalls = baseCcalls` nothing but
  `luaV_execute` lies above `lua_resume`.

* **Dumper and tools.** `dumpValue` is called with its table on top and has pieces of the
  stack for its activations as the writer has (`StackUsable`), except that every failed
  sort below has left a value on top. The invariant says which of the slots the loop
  indexes then are tables: its own array of keys as long as no sort failed, afterwards the
  array or the `table` library of a table further in, never a scalar. `OutputKept` and
  `FilesClosed` follow the program from system call to system call: what is open and
  allocated in each `step`, and that nothing has changed on the disk before `fopen "wb"`.
* **Lua tables.** `TableInv` is about the hash part as a whole. `Chained`: the nodes lie on
  lines, the successor of a node is the next one below it on its line, every key hangs
  below its main position, a node never used is alone on its line, and a key that has come
  back hangs above what is left of it. (The lines are witnessed by two functions: the
  code has only the pointers.) `InPlace` is the invariant of Brent's variation, for the main
  positions of *all* keys, the dead ones included: it is what makes `newkey` find a previous
  node, and what fails first if a moved node leaves its chain as it was. `Single`, `Apart`,
  `ArrayKeys`: a key is in one place. `FreeBelow`, `Unused`: from `lastfree` on every node
  has been used, so that without a free place all have. `Find` is characterised once
  (`FindFinds`, `NotFound`); then each of the ways `luaH_set` can go keeps the
  invariant and changes one value (`Stored`): `ArrayStores`, `PutStores`, `InsertedStores`,
  `DisplacedStores`. Displacing a node exchanges two positions of the lines (`Exchanged`).
  That no rehash lacks a node in the middle is counting: the new node vector has a place
  for each entry behind the new array and for the key that did not fit
  (`InUseCounts`, `RehashProvides`), and a table in which fewer keys than nodes have been
  used has a free place (`NotStuck`). With this, `IsDictionary` is a step-by-step refinement.
* **Traversal and length.** `Visiting`: the positions of the keys visited rise, the current
  key has the last of them, and every entry that was there all the time is either visited
  or further on. Assigning to a field that exists and burying a key leave every key, alive
  or dead, on its node and every chain as it is (`SamePlaces`), so `findindex` gives
  what it gave before (`SameIndex`). For the length, both searches are shown to end
  (`SearchExists`; `ProbeExists`, because a table has a last item) and to keep an
  item, or 0, at the lower end and none at the upper one (`Between`).

Induction over the natural numbers is derived, where it is needed, from the
well-foundedness of their order, for a set in place of a predicate (`Induction`,
`Recursion`); it serves the bytes of a number, the positions on a stack, and the
length of a chain. `TailRecursion` says that a loop whose steps lower a rank ends: the
searches along a chain and for a border are such loops.

Only model-checked, and why:

* Termination: it is liveness.
* What recursive operators compute (the parser, the code generator, `Meaning`,
  `Undump`), and with them `ComputesMeaning`, `CodeChecks`, `CutNeverLoads`: it
  needs induction over the structure of programs.
* `DumpReadsBack` and `Restores` compare what the reader of Lua constructors makes of the
  text with the value, through the whole nesting: again induction over the value.
* `UpvaluesLive` holds of the code the compiler generates, not of all code.
* `Collector`: that nothing in use is freed is a statement about reachability through every
  mixture of a half-done traversal and the operations of the program. Its operators pass
  the whole state through folds over lists, and no proof has been attempted.

## Not modelled

`ltest`; of the bundled Lua the lexer's characters, the string, io, os, math and
package libraries, the debug library but for its hooks and `setupvalue`, number
formatting and parsing, the pacing of the collector, memory errors other than
where `Calls` and `TableReader` have them, growth of the value stack, and the `lua`
and `luac` programs: wrappers of the C library, or data the properties do not tell
apart. A global `table` that is not Lua's, and metamethods of userdata keys. A 32 bit
build, where `lua_Integer` is narrower than the `int64_t` of the file
(`lua_binary_reader.cpp:128`; `LuaIntegerBits` is its parameter).

## Plan

What remains to be proved, in this order: for `Collector`, `StringsInterned` (only the sweep
of its own chain frees a string) and `FinalizedOnce` (a userdata is in one of two lists
until it is finalized), with its folds turned into recursive functions, then `TriColour`.
