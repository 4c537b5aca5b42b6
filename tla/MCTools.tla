------------------------------- MODULE MCTools -------------------------------
(* Nested tables with keys that can and that cannot be sorted, on disks     *)
(* with a source, a binary and a broken file.                               *)
EXTENDS Tools

CharLess(s, r) == Len(s) < Len(r) \/ (Len(s) = Len(r) /\ s # r /\ s[1] = "a")

A == Str(<<"a">>)
B == Str(<<"b">>)
Q == Str(<<"a", "quote">>)
Path == Str(<<"backslash", "b">>)
Lines == Str(<<"a", "newline", "b">>)

Fcn(S, val(_)) == [k \in S |-> val(k)]

MCHeap ==
  <<MkTable(<<>>, EmptyFcn),                                                        \* 1: {}
    MkTable(<<A, Nil, Tbl(1), Num(3)>>, EmptyFcn),                                  \* 2: a hole
    MkTable(<<B>>, Fcn({A, B}, LAMBDA k : IF k = A THEN Tbl(2) ELSE Num(-24689))),  \* 3: records
    MkTable(<<>>, Fcn({True, False}, LAMBDA k : A)),                                \* 4: not sortable
    MkTable(<<Tbl(4), Tbl(2), B>>, Fcn({A}, LAMBDA k : Tbl(4))),                    \* 5: fails below
    MkTable(<<Tbl(2)>>, Fcn({Tbl(9), Tbl(10)}, LAMBDA k : B)),                      \* 6: fails twice
    MkTable(<<Num(24691), Num(20000)>>, Fcn({Tbl(2), False}, LAMBDA k : Tbl(3))),   \* 7: table key
    MkTable(<<Q, Function(1)>>, EmptyFcn),                                          \* 8: not writable
    MkTable(<<A, Tbl(4)>>, Fcn({True, False}, LAMBDA k : A)),                       \* 9: fails
    MkTable(<<>>, EmptyFcn),                                                        \* 10: {}
    MkTable(<<A, Nil, Num(6)>>, Fcn({B}, LAMBDA k : A)),                            \* 11: passes for an array
    MkTable(<<A, Nil, Num(6)>>, EmptyFcn),                                          \* 12: what is left of 11
    MkTable(<<>>, Fcn({A, B}, LAMBDA k : IF k = A THEN Num(20001) ELSE Tbl(11))),   \* 13: loses a key below
    MkTable(<<>>, Fcn({A, B}, LAMBDA k : IF k = A THEN Num(20001) ELSE Tbl(12))),   \* 14: what is left of 13
    MkTable(<<Path>>, Fcn({Lines}, LAMBDA k : A))>>                                 \* 15: not readable

MCCopies == [id \in DOMAIN MCHeap |-> IF id \in {11, 13} THEN id + 1 ELSE id]

Lua == <<"t", "lua">>
Dat == <<"t", "dat">>
Other == <<"u", "lua">>

MCPaths == {Lua, Dat, Other}

Disk(source, dat) == [p \in MCPaths |-> IF p = Lua THEN source ELSE IF p = Dat THEN dat ELSE NoFile]

MCDisks ==
  {Disk(Source(x), NoFile) : x \in {Tbl(7), Tbl(8), Tbl(13)}}
  \cup {Disk(Broken, Binary(x)) : x \in {Tbl(5)}}

File(p) == <<"file", p>>

MCPrograms ==
  {<<"luabt", argv>> : argv \in
     {<<<<"c">>, File(Lua)>>, <<<<"d">>, File(Dat), <<"o">>, File(Other)>>, <<<<"d">>, File(Dat)>>,
      <<File(Lua), File(Dat)>>, <<File(Dat), <<"o">>>>, <<<<"c">>>>}}
  \cup {<<"script", [run |-> r, src |-> Dat]>> : r \in {"parse", "parseFromFile"}}
  \cup {<<"script", [run |-> "writeToFile", dst |-> Dat, x |-> x]>> : x \in {Tbl(4), Function(1)}}
  \cup {<<"script", [run |-> "write", x |-> x]>> : x \in {Tbl(1), Function(1)}}
  \cup {<<"script", [run |-> "dump", max |-> 2, x |-> x]>> : x \in {Tbl(8), Tbl(15), Q, Path, Lines}}
  \cup {<<"script", [run |-> "dumpToFile", max |-> 0, x |-> Tbl(6), dst |-> Other]>>}
==============================================================================
