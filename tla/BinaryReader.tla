----------------------------- MODULE BinaryReader -----------------------------
(***************************************************************************)
(* The cursor of lua_binary_reader.h over the bytes of a file.  A read     *)
(* that does not fit yields zero (readNumber) or a null pointer            *)
(* (readBytes), and its callers rarely look: they rely on every later read *)
(* failing too, so that T_EOF = 0 is met in the end.                       *)
(*                                                                         *)
(* delivered and short are history variables: what reads have handed out,  *)
(* and whether one of them did not fit.                                    *)
(***************************************************************************)
EXTENDS Wire

CONSTANTS
  Files,   \* the byte strings to be read
  Lengths, \* the arguments of readBytes (TStringLength, not 0)
  MaxOver  \* bound on how far beyond its end a file is read

ASSUME ReaderAssumption ==
  /\ \A f \in Files : f \in Seq(0..Base - 1)
  /\ Lengths \subseteq Nat \ {0}
  /\ MaxOver \in Nat

VARIABLES
  data,      \* the file
  p_,        \* offset of the next byte to read
  delivered, \* the bytes handed out so far
  short      \* TRUE once a read did not fit

vars == <<data, p_, delivered, short>>

end_ == Len(data)

\* p_ + n <= end_
Fits(n) == p_ + n <= end_

\* The n bytes at p_.
Ahead(n) == SubSeq(data, p_ + 1, p_ + n)

\* The value that readNumber<T>() returns.
Value(bits) == IF Fits(Sizeof[bits]) THEN Unsigned(Ahead(Sizeof[bits])) ELSE 0

Init ==
  /\ data \in Files
  /\ p_ = 0
  /\ delivered = <<>>
  /\ short = FALSE

Deliver(n) == delivered' = delivered \o Ahead(n) /\ UNCHANGED <<data, short>>

FallShort == short' = TRUE /\ UNCHANGED <<data, delivered>>

\* Mutant: p_ moves only when the number was there.
AfterNumberStuck(bits) == IF Fits(Sizeof[bits]) THEN p_ + Sizeof[bits] ELSE p_

\* Mutant: the cursor is moved by one byte, whatever the type.
AfterNumberByte(bits) == p_ + 1

\* p_ += sizeof(T), whether or not the number was there.
AfterNumber(bits) == p_ + Sizeof[bits]

\* Both forms of readNumber, and readType with bits = 8.
readNumber(bits) ==
  /\ AfterNumber(bits) <= end_ + MaxOver
  /\ p_' = AfterNumber(bits)
  /\ IF Fits(Sizeof[bits]) THEN Deliver(Sizeof[bits]) ELSE FallShort

AfterBytes(n) == IF Fits(n) THEN p_ + n ELSE end_

\* A string that does not fit takes the rest of the file with it.
readBytes(n) ==
  /\ p_' = AfterBytes(n)
  /\ IF Fits(n) THEN Deliver(n) ELSE FallShort

Next ==
  \/ \E bits \in {8, 16, 32, 64} : readNumber(bits)
  \/ \E n \in Lengths : readBytes(n)

Spec == Init /\ [][Next]_vars
-----------------------------------------------------------------------------
TypeOK ==
  /\ data \in Files
  /\ p_ \in 0..(end_ + MaxOver)
  /\ delivered \in Seq(0..Base - 1)
  /\ short \in BOOLEAN

\* What was handed out is a prefix of the file: no byte is read twice, skipped or
\* taken from beyond the end; before the first short read it is all of the file
\* up to p_.  (readNumber, readBytes)
DeliversPrefix ==
  /\ Len(delivered) <= Len(data)
  /\ \A k \in 1..Len(delivered) : delivered[k] = data[k]
  /\ ~short => p_ = Len(delivered)

\* After a short read the cursor never comes back into the file.
ShortAtEnd == short => p_ >= end_

IInv == TypeOK /\ DeliversPrefix /\ ShortAtEnd

\* A failure is final: after a short read no byte is delivered any more, so that
\* no caller mistakes the tail of a field for the beginning of the next one.
ShortIsFinal == [][short => short' /\ delivered' = delivered]_vars
==============================================================================
