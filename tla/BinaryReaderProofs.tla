-------------------------- MODULE BinaryReaderProofs --------------------------
(***************************************************************************)
(* The cursor hands out a prefix of the file, and a short read is final,   *)
(* for every file, every width of the integer types and every sequence of  *)
(* reads.                                                                  *)
(***************************************************************************)
EXTENDS BinaryReader, SequenceTheorems, TLAPS

\* A read that fits leaves a prefix one read longer.
LEMMA LongerPrefix ==
  ASSUME NEW S, NEW file \in Seq(S), NEW got \in Seq(S), NEW n \in Nat,
         Len(got) + n <= Len(file),
         \A k \in 1..Len(got) : got[k] = file[k],
         NEW more, more = got \o SubSeq(file, Len(got) + 1, Len(got) + n)
  PROVE  /\ more \in Seq(S)
         /\ Len(more) = Len(got) + n
         /\ \A k \in 1..Len(more) : more[k] = file[k]
<1>1. PICK part : part = SubSeq(file, Len(got) + 1, Len(got) + n)
  OBVIOUS
<1>2. /\ part \in Seq(S) /\ Len(part) = n
      /\ \A k \in 1..n : part[k] = file[Len(got) + k]
  <2>1. Len(got) \in Nat /\ Len(file) \in Nat
    OBVIOUS
  <2>2. \A k \in (Len(got) + 1)..(Len(got) + n) : file[k] \in S
    BY <2>1
  <2> QED BY <1>1, <2>1, <2>2
<1>3. /\ more \in Seq(S) /\ Len(more) = Len(got) + n
      /\ \A k \in 1..(Len(got) + Len(part)) :
           more[k] = IF k <= Len(got) THEN got[k] ELSE part[k - Len(got)]
  BY <1>1, <1>2, ConcatProperties
<1>4. ASSUME NEW k \in 1..Len(more)
      PROVE  more[k] = file[k]
  <2>1. CASE k <= Len(got)
    BY <1>2, <1>3, <2>1
  <2>2. CASE k > Len(got)
    <3>1. more[k] = part[k - Len(got)] /\ k - Len(got) \in 1..n
      BY <1>2, <1>3, <2>2
    <3>2. part[k - Len(got)] = file[Len(got) + (k - Len(got))]
      BY <1>2, <3>1
    <3>3. Len(got) + (k - Len(got)) = k
      BY <1>3
    <3> QED BY <3>1, <3>2, <3>3
  <2> QED BY <1>3, <2>1, <2>2
<1> QED BY <1>3, <1>4

\* The part of every step: a read of n bytes that fits.
LEMMA DeliverKeeps ==
  ASSUME IInv, NEW n \in Nat \ {0}, Fits(n), Deliver(n), p_' = p_ + n
  PROVE  IInv' /\ ~short
<1> USE ReaderAssumption
<1>1. data \in Seq(0..Base - 1) /\ delivered \in Seq(0..Base - 1) /\ p_ \in Nat
  BY DEF IInv, TypeOK, end_
<1>2. ~short /\ p_ = Len(delivered)
  BY <1>1 DEF IInv, DeliversPrefix, ShortAtEnd, Fits, end_
<1>3. delivered' = delivered \o SubSeq(data, Len(delivered) + 1, Len(delivered) + n)
  BY <1>2 DEF Deliver, Ahead
<1>4. /\ delivered' \in Seq(0..Base - 1)
      /\ Len(delivered') = Len(delivered) + n
      /\ \A k \in 1..Len(delivered') : delivered'[k] = data[k]
  <2>1. Len(delivered) + n <= Len(data)
    BY <1>2 DEF Fits, end_
  <2>2. \A k \in 1..Len(delivered) : delivered[k] = data[k]
    BY DEF IInv, DeliversPrefix
  <2>3. PICK S : S = 0..Base - 1
    OBVIOUS
  <2>4. data \in Seq(S) /\ delivered \in Seq(S)
    BY <1>1, <2>3
  <2>5. PICK more : more = delivered \o SubSeq(data, Len(delivered) + 1, Len(delivered) + n)
    OBVIOUS
  <2>6. /\ more \in Seq(S) /\ Len(more) = Len(delivered) + n
        /\ \A k \in 1..Len(more) : more[k] = data[k]
    BY <2>1, <2>2, <2>4, <2>5, LongerPrefix
  <2> QED BY <1>3, <2>3, <2>5, <2>6
<1>5. data' = data /\ short' = short
  BY DEF Deliver
<1>6. TypeOK'
  <2>1. p_' \in 0..(Len(data) + MaxOver)
    BY <1>1 DEF Fits, end_
  <2> QED BY <1>2, <1>4, <1>5, <2>1 DEF IInv, TypeOK, end_
<1>7. DeliversPrefix'
  BY <1>1, <1>2, <1>4, <1>5 DEF DeliversPrefix, Fits, end_
<1>8. ShortAtEnd'
  BY <1>2, <1>5 DEF ShortAtEnd
<1> QED BY <1>2, <1>6, <1>7, <1>8 DEF IInv

\* The other part: a read that does not fit moves the cursor to the end or on.
LEMMA FallShortKeeps ==
  ASSUME IInv, FallShort, p_' \in end_..(end_ + MaxOver)
  PROVE  IInv' /\ delivered' = delivered /\ short'
<1>1. data' = data /\ delivered' = delivered /\ short' = TRUE
  BY DEF FallShort
<1>2. Len(data) \in Nat
  BY ReaderAssumption DEF IInv, TypeOK
<1> QED BY <1>1, <1>2, ReaderAssumption DEF IInv, TypeOK, DeliversPrefix, ShortAtEnd, end_

\* Every step keeps the invariant and delivers nothing after a short read.
LEMMA StepKeeps ==
  ASSUME IInv, [Next]_vars
  PROVE  IInv' /\ (short => short' /\ delivered' = delivered)
<1>1. Len(data) \in Nat /\ p_ \in Nat /\ MaxOver \in Nat
  BY ReaderAssumption DEF IInv, TypeOK, end_
<1>2. ASSUME NEW bits \in {8, 16, 32, 64}, readNumber(bits)
      PROVE  IInv' /\ (short => short' /\ delivered' = delivered)
  <2>1. Sizeof[bits] \in Nat \ {0}
    BY WireAssumption
  <2>2. p_' = p_ + Sizeof[bits] /\ p_' <= end_ + MaxOver
    BY <1>2 DEF readNumber, AfterNumber
  <2>3. CASE Fits(Sizeof[bits])
    BY <1>2, <2>1, <2>2, <2>3, DeliverKeeps DEF readNumber
  <2>4. CASE ~Fits(Sizeof[bits])
    <3>1. p_' \in end_..(end_ + MaxOver)
      BY <1>1, <2>1, <2>2, <2>4 DEF Fits, end_
    <3> QED BY <1>2, <2>4, <3>1, FallShortKeeps DEF readNumber
  <2> QED BY <2>3, <2>4
<1>3. ASSUME NEW n \in Lengths, readBytes(n)
      PROVE  IInv' /\ (short => short' /\ delivered' = delivered)
  <2>1. n \in Nat \ {0}
    BY ReaderAssumption
  <2>2. CASE Fits(n)
    BY <1>3, <2>1, <2>2, DeliverKeeps DEF readBytes, AfterBytes
  <2>3. CASE ~Fits(n)
    <3>1. p_' \in end_..(end_ + MaxOver)
      BY <1>1, <1>3, <2>3 DEF readBytes, AfterBytes, end_
    <3> QED BY <1>3, <2>3, <3>1, FallShortKeeps DEF readBytes
  <2> QED BY <2>2, <2>3
<1>4. CASE UNCHANGED vars
  BY <1>4 DEF vars, IInv, TypeOK, DeliversPrefix, ShortAtEnd, end_
<1> QED BY <1>2, <1>3, <1>4 DEF Next

\* A reader starts with its cursor at the beginning of the buffer.
LEMMA InitKeeps == Init => IInv
<1> SUFFICES ASSUME Init PROVE IInv
  OBVIOUS
<1>1. data \in Seq(0..Base - 1) /\ Len(data) \in Nat
  BY ReaderAssumption DEF Init
<1>2. delivered = <<>> /\ Len(delivered) = 0 /\ delivered \in Seq(0..Base - 1)
  BY DEF Init
<1>3. p_ = 0 /\ short = FALSE /\ data \in Files
  BY DEF Init
<1>4. TypeOK
  <2>1. p_ \in 0..(end_ + MaxOver)
    BY <1>1, <1>3, ReaderAssumption DEF end_
  <2>2. delivered \in Seq(0..Base - 1)
    BY <1>2
  <2>3. short \in BOOLEAN
    BY <1>3
  <2> QED BY <1>3, <2>1, <2>2, <2>3 DEF TypeOK
<1>5. DeliversPrefix /\ ShortAtEnd
  BY <1>1, <1>2, <1>3 DEF DeliversPrefix, ShortAtEnd
<1> QED BY <1>4, <1>5 DEF IInv

\* Whatever is read, and however far beyond the end, what readNumber and readBytes
\* hand out is a prefix of the file.
THEOREM PrefixDelivered == Spec => [](TypeOK /\ DeliversPrefix /\ ShortAtEnd)
<1>1. IInv /\ [Next]_vars => IInv'
  BY StepKeeps
<1>2. IInv => TypeOK /\ DeliversPrefix /\ ShortAtEnd
  BY DEF IInv
<1> QED BY <1>1, <1>2, InitKeeps, PTL DEF Spec

\* After a short read no later read delivers a byte.
THEOREM ShortReadIsFinal == Spec => ShortIsFinal
<1>1. IInv /\ [Next]_vars => IInv'
  BY StepKeeps
<1>2. IInv /\ [Next]_vars => [short => short' /\ delivered' = delivered]_vars
  BY StepKeeps
<1> QED BY <1>1, <1>2, InitKeeps, PTL DEF Spec, ShortIsFinal
===============================================================================
