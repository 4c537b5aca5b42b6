-------------------------------- MODULE Chunk --------------------------------
(* Precompiled chunks: a function written out by ldump.c, read back by        *)
(* lundump.c through the buffered stream of lzio.c.  A chunk is a sequence of *)
(* items, one for each char, int, number, instruction or text written;        *)
(* linedefined, lastlinedefined and the local variables of the debug data are *)
(* left out, a line number is 0 and the name of a variable is "name".         *)
EXTENDS Parser, CodeChecker

CONSTANT BUFFERSIZE   \* items the reader hands over at a time
ASSUME BufferAssumption == BUFFERSIZE \in Nat \ {0}

NULL == "NULL"
Header == "header"
chunkname == "=chunk"

-----------------------------------------------------------------------------
(* Writing.  D: what is written, how much the writer still takes, its status. *)

\* Mutant: the answer of the writer is not looked at.
DumpBlockUnchecked(D, b) ==
  [D EXCEPT !.out = @ \o SubSeq(b, 1, Min({Len(b), D.room})), !.room = Max({0, @ - Len(b)})]

DumpBlock(D, b) ==
  IF D.status # 0 THEN D
  ELSE IF Len(b) > D.room THEN [D EXCEPT !.out = @ \o SubSeq(b, 1, D.room), !.room = 0, !.status = 1]
  ELSE [D EXCEPT !.out = @ \o b, !.room = @ - Len(b)]

DumpItem(D, x) == DumpBlock(D, <<x>>)     \* DumpChar, DumpInt, DumpNumber
DumpVector(D, v) == DumpBlock(DumpItem(D, Len(v)), v)
\* The size counts the final zero of the text.
DumpString(D, s) == IF s = NULL THEN DumpItem(D, 0) ELSE DumpBlock(DumpItem(D, 2), <<s, 0>>)

DumpConstant(D, o) ==
  LET t == DumpItem(D, o[1]) IN
  CASE o[1] = "nil" -> t
    [] o[1] = "bool" -> DumpItem(t, IF o[2] THEN 1 ELSE 0)
    [] o[1] = "num" -> DumpItem(t, o[2])
    [] o[1] = "str" -> DumpString(t, o[2])

DumpDebug(D, f) ==
  LET lines == DumpVector(D, [i \in 1 .. IF D.strip THEN 0 ELSE f.lineinfo |-> 0])
      names == [i \in 1 .. IF D.strip THEN 0 ELSE f.names |-> "name"]
  IN FoldLeft(DumpString, DumpItem(lines, Len(names)), names)

RECURSIVE DumpFunction(_, _, _)
DumpFunction(D, f, p) ==
  LET source == IF chunkname = p \/ D.strip THEN NULL ELSE chunkname
      sizes == FoldLeft(DumpItem, DumpString(D, source), <<f.nups, f.numparams, f.vararg, f.maxstack>>)
      k == FoldLeft(DumpConstant, DumpItem(DumpVector(sizes, f.code), Len(f.k)), f.k)
      protos == FoldLeft(LAMBDA d, q : DumpFunction(d, q, chunkname), DumpItem(k, Len(f.p)), f.p)
  IN DumpDebug(protos, f)

luaU_dump(f, room, strip) ==
  DumpFunction(DumpItem([out |-> <<>>, room |-> room, status |-> 0, strip |-> strip], Header), f, NULL)

-----------------------------------------------------------------------------
(* The stream: what is left of the piece in the buffer, and behind it.        *)

luaZ_init(items) == [p |-> <<>>, unread |-> items]
luaZ_fill(z) ==
  LET size == Min({BUFFERSIZE, Len(z.unread)})
  IN [p |-> SubSeq(z.unread, 1, size), unread |-> SubSeq(z.unread, size + 1, Len(z.unread))]

\* Piece by piece up to n items, and how many are missing at the end.
RECURSIVE luaZ_read(_, _, _)
luaZ_read(z, b, n) ==
  LET m == Min({n, Len(z.p)}) IN
  IF n = 0 \/ z = luaZ_init(<<>>) THEN [z |-> z, b |-> b, missing |-> n]
  ELSE IF z.p = <<>> THEN luaZ_read(luaZ_fill(z), b, n)
  ELSE luaZ_read([z EXCEPT !.p = SubSeq(@, m + 1, Len(@))], b \o SubSeq(z.p, 1, m), n - m)

-----------------------------------------------------------------------------
(* Reading.  S: the stream, the C calls, the error if any, and in S.v what    *)
(* was read last; after an error nothing more is read.                        *)

LoadError(S, why) == [S EXCEPT !.error = why, !.v = 0]
IfError(S, c, why) == IF S.error = "" /\ c THEN LoadError(S, why) ELSE S

LoadBlock(S, n) ==
  LET r == luaZ_read(S.z, <<>>, n) IN
  IF S.error # "" THEN S
  ELSE IfError([S EXCEPT !.z = r.z, !.v = r.b], r.missing # 0, "unexpected end")
LoadItem(S) ==
  LET r == LoadBlock(S, 1) IN IF r.error # "" THEN r ELSE [r EXCEPT !.v = Head(@)]
LoadInt(S) == LET r == LoadItem(S) IN IfError(r, r.v < 0, "bad integer")
LoadVector(S) == LET n == LoadInt(S) IN LoadBlock(n, n.v)
LoadString(S) ==
  LET size == LoadItem(S)
      text == LoadBlock(size, size.v)
  IN IF size.error # "" THEN size
     ELSE IF size.v = 0 THEN [size EXCEPT !.v = NULL]
     ELSE IF text.error # "" THEN text ELSE [text EXCEPT !.v = Head(@)]

LoadConstant(S) ==
  LET t == LoadItem(S)
      s == LoadString(t)
      x == LoadItem(t)
  IN CASE t.error # "" -> t
       [] t.v = "nil" -> [t EXCEPT !.v = Nil]
       [] t.v = "bool" -> [x EXCEPT !.v = Boolean(@ # 0)]
       [] t.v = "num" -> [x EXCEPT !.v = Number(@)]
       [] t.v = "str" -> [s EXCEPT !.v = String(@)]
       [] OTHER -> LoadError(t, "bad constant")

\* n times Load, what it reads appended to xs; the list is left in S.v.
RECURSIVE LoadList(_, _, _, _)
LoadList(Load(_), S, n, xs) ==
  LET r == Load(S) IN
  IF n = 0 \/ S.error # "" THEN [S EXCEPT !.v = xs] ELSE LoadList(Load, r, n - 1, Append(xs, r.v))
LoadCounted(Load(_), S) ==
  LET n == LoadInt(S) IN IF n.error # "" THEN n ELSE LoadList(Load, n, n.v, <<>>)

RECURSIVE LoadFunction(_, _)
LoadFunction(S, p) ==
  LET in == IfError([S EXCEPT !.nCcalls = @ + 1], S.nCcalls + 1 > MAXCCALLS, "code too deep")
      source == LoadString(in)
      own == IF source.v = NULL THEN p ELSE source.v
      sizes == LoadBlock(source, 4)
      code == LoadVector(sizes)
      k == LoadCounted(LoadConstant, code)
      protos == LoadCounted(LAMBDA s : LoadFunction(s, own), k)
      lines == LoadVector(protos)
      names == LoadCounted(LoadString, lines)
      f == [code |-> code.v, k |-> k.v, p |-> protos.v, nups |-> sizes.v[1], numparams |-> sizes.v[2],
            vararg |-> sizes.v[3], maxstack |-> sizes.v[4],
            lineinfo |-> Len(lines.v), names |-> Len(names.v)]
      done == [names EXCEPT !.nCcalls = @ - 1, !.v = f]
  IN IF names.error # "" THEN names ELSE IfError(done, ~luaG_checkcode(f), "bad code")

luaU_undump(items) ==
  LET S == LoadItem([z |-> luaZ_init(items), nCcalls |-> 0, error |-> "", v |-> 0])
  IN LoadFunction(IfError(S, S.v # Header, "bad header"), "=?")
=============================================================================
