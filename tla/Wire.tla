-------------------------------- MODULE Wire --------------------------------
(***************************************************************************)
(* The binary format: type tags, number encodings and the integer, length  *)
(* and float encoders of the writer, the number decoder of the reader.     *)
(*                                                                         *)
(* A stream is a sequence of bytes 0 .. Base - 1; Base and the widths of   *)
(* the C integer types are parameters (256 and 1, 2, 4, 8 in the build) so *)
(* that all boundaries fit in TLC's integers.  Numbers are little-endian   *)
(* two's complement, which is what memcpy gives on the hosts of the build. *)
(*                                                                         *)
(* A Lua number (a double) is represented by twice its value: odd numbers  *)
(* stand for the doubles that are not whole, even ones for those that are, *)
(* which may exceed the range of int64_t.                                  *)
(***************************************************************************)
EXTENDS Integers, Sequences

CONSTANTS
  Base,            \* number of values of a byte
  Sizeof,          \* bytes of an integer type of 8, 16, 32 and 64 bits
  LuaIntegerBits   \* width of lua_Integer (ptrdiff_t): 64 or 32

ASSUME WireAssumption ==
  /\ Base \in Nat /\ Base > 24 /\ Base % 2 = 0
  /\ Sizeof \in [{8, 16, 32, 64} -> Nat \ {0}]
  /\ Sizeof[8] = 1
  /\ Sizeof[8] < Sizeof[16] /\ Sizeof[16] < Sizeof[32] /\ Sizeof[32] < Sizeof[64]
  /\ LuaIntegerBits \in {32, 64}

\* enum Type
T == [EOF |-> 0, NIL |-> 1, TRUE_ |-> 2, FALSE_ |-> 3, ZERO |-> 4, ONE |-> 5,
      INT8 |-> 6, INT16 |-> 7, INT32 |-> 8, INT64 |-> 9, FLOAT |-> 10, DOUBLE |-> 11,
      STRING0 |-> 12, STRING8 |-> 13, STRING16 |-> 14, STRING32 |-> 15,
      ARRAY0 |-> 16, ARRAY8 |-> 17, ARRAY16 |-> 18, ARRAY32 |-> 19,
      TABLE0 |-> 20, TABLE8 |-> 21, TABLE16 |-> 22, TABLE32 |-> 23, MAX |-> 24]

MAGIC_NUMBER == Base + 1 \* any value of two bytes stands for 0x7462

LUABT_VERSION == 1

TStringLength == 16

TStringPoolLength == 32

-----------------------------------------------------------------------------
(* Numbers as bytes.                                                       *)

\* Number of values of k bytes.
Pow[k \in Nat] == IF k = 0 THEN 1 ELSE Base * Pow[k - 1]

\* Number of values of an unsigned integer of the given width.
Card(bits) == Pow[Sizeof[bits]]

MinInt(bits) == -(Card(bits) \div 2)

MaxInt(bits) == Card(bits) \div 2 - 1

\* writeNumber((T)v): v modulo the width of T, lowest byte first.
writeNumber(bits, v) == [k \in 1..Sizeof[bits] |-> (v \div Pow[k - 1]) % Base]

\* The value of the bytes of an unsigned number.
Unsigned(bytes) ==
  LET low[k \in 0..Len(bytes)] == IF k = 0 THEN 0 ELSE low[k - 1] + bytes[k] * Pow[k - 1]
  IN  low[Len(bytes)]

\* A value of an integer of the given width, seen as signed.
AsSigned(bits, v) == LET u == v % Card(bits) IN IF u > MaxInt(bits) THEN u - Card(bits) ELSE u

-----------------------------------------------------------------------------
(* Encoders.                                                               *)

\* Mutant: one bound of the integer ladder is off by one.
IntBitsWide(v) ==
  CHOOSE b \in {8, 16, 32, 64} :
    /\ b = 64 \/ (MinInt(b) <= v /\ v <= MaxInt(b) + 1)
    /\ \A c \in {8, 16, 32} : c < b => ~(MinInt(c) <= v /\ v <= MaxInt(c) + 1)

\* The narrowest integer type that holds v.
IntBits(v) ==
  CHOOSE b \in {8, 16, 32, 64} :
    /\ b = 64 \/ (MinInt(b) <= v /\ v <= MaxInt(b))
    /\ \A c \in {8, 16, 32} : c < b => ~(MinInt(c) <= v /\ v <= MaxInt(c))

IntTag == [b \in {8, 16, 32, 64} |->
             CASE b = 8 -> T.INT8 [] b = 16 -> T.INT16 [] b = 32 -> T.INT32 [] b = 64 -> T.INT64]

writeInteger(v) ==
  IF v = 0 THEN <<T.ZERO>>
  ELSE IF v = 1 THEN <<T.ONE>>
  ELSE <<IntTag[IntBits(v)]>> \o writeNumber(IntBits(v), v)

\* The eight bytes of a double, here those of its doubled value.
writeFloat(num) == <<T.DOUBLE>> \o writeNumber(64, num)

\* (int64_t)v for a whole double v.  Out of range the conversion is undefined:
\* the hosts of the build yield INT64_MIN or saturate.
CastToInt64(v) ==
  IF v > MaxInt(64) THEN {MinInt(64), MaxInt(64)}
  ELSE IF v < MinInt(64) THEN {MinInt(64)}
  ELSE {v}

\* The encodings that writeValue may give the Lua number num / 2.
writeLuaNumber(num) ==
  IF num % 2 = 0 THEN {writeInteger(v) : v \in CastToInt64(num \div 2)} ELSE {writeFloat(num)}

writeLength(type0, n) ==
  IF n = 0 THEN <<type0>>
  ELSE IF n < Card(8) THEN <<type0 + 1>> \o writeNumber(8, n)
  ELSE IF n < Card(16) THEN <<type0 + 2>> \o writeNumber(16, n)
  ELSE <<type0 + 3>> \o writeNumber(32, n)

-----------------------------------------------------------------------------
(* Decoders.                                                               *)

\* lua_pushinteger((lua_Integer)v), as the Lua number it leaves on the stack.
PushedInteger(v) == 2 * AsSigned(LuaIntegerBits, v)
=============================================================================
