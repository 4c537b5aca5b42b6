------------------------- MODULE BinaryWriterProofs -------------------------
(***************************************************************************)
(* The buffer never stores outside its block, never leaks or exposes       *)
(* uninitialised memory, and implements an append-only log, for every set  *)
(* of addresses, inputs and bounds, with and without failing allocations.  *)
(***************************************************************************)
EXTENDS BinaryWriter, SequenceTheorems, TLAPS

Cell == Byte \cup {Junk}

\* The payloads of the write operations are byte strings.
LEMMA PayloadsAreBytes ==
  /\ \A d \in Input : d \in Seq(Byte)
  /\ \A ch \in Byte : <<ch>> \in Seq(Byte)
  /\ \A n \in Nat : Indent(n) \in Seq(Byte) /\ Len(Indent(n)) = n
<1>1. \A n \in Nat : Indent(n) \in Seq(Byte) /\ Len(Indent(n)) = n
  <2> TAKE n \in Nat
  <2>1. Indent(n) \in [1..n -> Byte]
    BY WriterAssumption DEF Indent
  <2> QED BY <2>1
<1> QED BY <1>1, WriterAssumption

\* Heap m consists of block b of cap bytes, of which the first off are written.
Holds(m, b, cap, off) ==
  /\ b \in Block /\ cap \in Nat /\ off \in Nat
  /\ DOMAIN m = {b}
  /\ m[b] \in [1..cap -> Cell]
  /\ \A k \in 1..off : m[b][k] \in Byte

\* Block b now starts with the off first cells of m[b], then d.
Appended(m, b, off, d) ==
  /\ p_'.off = off + Len(d)
  /\ data_'.blk = b
  /\ \A k \in 1..(off + Len(d)) : mem'[b][k] = IF k <= off THEN m[b][k] ELSE d[k - off]

\* A store into a block that has room for it keeps the invariant: the buffer is
\* the block b of cap bytes, of which the first off have been written.
LEMMA StoreKeepsIInv ==
  ASSUME NEW m, NEW b, NEW cap, NEW off, NEW d \in Seq(Byte),
         Holds(m, b, cap, off), off + Len(d) <= cap, fault = "none",
         data_' = Ptr(b, 0), end_' = Ptr(b, cap), Store(Ptr(b, off), d, m)
  PROVE  IInv' /\ fault' = "none" /\ Appended(m, b, off, d)
<1> b \in Block /\ cap \in Nat /\ off \in Nat
  BY DEF Holds
<1> DOMAIN m = {b} /\ m[b] \in [1..cap -> Cell] /\ \A k \in 1..off : m[b][k] \in Byte
  BY DEF Holds
<1> DEFINE new == [k \in 1..cap |-> IF off < k /\ k <= off + Len(d)
                                    THEN d[k - off] ELSE m[b][k]]
<1>0. Len(d) \in Nat /\ b # Null
  BY WriterAssumption DEF Null
<1>1. \A k \in 1..Len(d) : d[k] \in Byte
  OBVIOUS
<1>2. new \in [1..cap -> Cell]
  <2> SUFFICES ASSUME NEW k \in 1..cap PROVE new[k] \in Cell
    OBVIOUS
  <2>1. CASE off < k /\ k <= off + Len(d)
    <3>1. k - off \in 1..Len(d)
      BY <1>0, <2>1
    <3> QED BY <1>1, <2>1, <3>1 DEF Cell
  <2>2. CASE ~(off < k /\ k <= off + Len(d))
    BY <2>2
  <2> QED BY <2>1, <2>2
<1>3. /\ fault' = "none"
      /\ p_' = Ptr(b, off + Len(d))
      /\ DOMAIN mem' = {b}
      /\ mem'[b] = new
  <2>1. CASE d = <<>>
    <3>1. Len(d) = 0
      BY <2>1
    <3>2. new = m[b]
      BY <3>1
    <3> QED BY <2>1, <3>1, <3>2, <1>0 DEF Store, Ptr
  <2>2. CASE d # <<>>
    <3>1. Len(d) > 0
      BY <2>2, <1>0
    <3>2. off + Len(d) \in 1..cap
      BY <3>1, <1>0
    <3>3. Ptr(b, off).blk = b /\ Ptr(b, off).off = off
      BY DEF Ptr
    <3>4. /\ p_' = Ptr(b, off + Len(d)) /\ fault' = fault
          /\ mem' = [m EXCEPT ![b] = [k \in DOMAIN @ |->
                        IF off < k /\ k <= off + Len(d) THEN d[k - off] ELSE @[k]]]
      BY <2>2, <3>2, <3>3 DEF Store
    <3>5. DOMAIN mem' = {b} /\ mem'[b] = new
      BY <3>4
    <3> QED BY <3>4, <3>5
  <2> QED BY <2>1, <2>2
<1>4. \A k \in 1..(off + Len(d)) : mem'[b][k] = IF k <= off THEN m[b][k] ELSE d[k - off]
  BY <1>0, <1>3
<1>5. \A k \in 1..(off + Len(d)) : mem'[b][k] \in Byte
  <2> SUFFICES ASSUME NEW k \in 1..(off + Len(d)) PROVE mem'[b][k] \in Byte
    OBVIOUS
  <2>1. CASE k <= off
    BY <2>1, <1>4, <1>0
  <2>2. CASE k > off
    <3>1. k - off \in 1..Len(d)
      BY <1>0, <2>2
    <3> QED BY <2>2, <3>1, <1>4, <1>1, <1>0
  <2> QED BY <2>1, <2>2, <1>0
<1>6. TypeOK'
  <2>1. data_' \in Pointer /\ p_' \in Pointer /\ end_' \in Pointer
    BY <1>0, <1>3 DEF Pointer, Ptr
  <2>2. mem'[b] \in [DOMAIN mem'[b] -> Cell]
    BY <1>2, <1>3
  <2> QED BY <1>3, <2>1, <2>2 DEF TypeOK, Cell
<1>7. OneLiveBlock'
  BY <1>0, <1>3 DEF OneLiveBlock, Ptr
<1>8. NoWildStore' /\ RefusedReservation'
  BY <1>0, <1>3 DEF NoWildStore, RefusedReservation, Ptr
<1>9. WrittenIsInitialised'
  BY <1>0, <1>3, <1>5 DEF WrittenIsInitialised, Ptr
<1> QED BY <1>3, <1>4, <1>6, <1>7, <1>8, <1>9 DEF IInv, Ptr, Appended

\* Storing through a null pointer is the end of the program.
LEMMA NullStore ==
  ASSUME NEW q \in Pointer, q.blk = Null, NEW m, NEW d \in Seq(Byte), d # <<>>,
         DOMAIN m \subseteq Block,
         \A x \in DOMAIN m : m[x] \in [DOMAIN m[x] -> Byte \cup {Junk}],
         data_' \in Pointer, end_' \in Pointer, MayFail,
         Store(q, d, m)
  PROVE  IInv' /\ fault' = "null"
<1>1. q.blk \notin DOMAIN m
  BY WriterAssumption DEF Null
<1>2. fault' = "null" /\ p_' = q /\ mem' = m
  BY <1>1 DEF Store
<1> QED BY <1>2 DEF IInv, TypeOK, OneLiveBlock, NoWildStore, WrittenIsInitialised,
                    RefusedReservation

\* What an accepted (re)allocation of the buffer's own block returns: the block
\* alone, resized, with the bytes written so far in place.
LEMMA AllocateKeepsBytes ==
  ASSUME IInv, fault = "none", NEW cap \in Nat, cap >= capacity,
         NEW a \in Allocate(data_.blk, cap), a.blk # Null
  PROVE  /\ Holds(a.mem, a.blk, cap, p_.off)
         /\ \A k \in 1..p_.off : a.mem[a.blk][k] = mem[data_.blk][k]
<1> DEFINE b == data_.blk
<1>0. /\ b \in Block \cup {Null} /\ p_.off \in Nat /\ end_.off \in Nat
      /\ data_.off = 0 /\ p_.off <= end_.off /\ end_.off <= cap
      /\ DOMAIN mem = {b} \ {Null}
  BY DEF IInv, TypeOK, OneLiveBlock, Pointer, capacity
<1>1. PICK c \in Block \ (DOMAIN mem \ {b}) : a = Granted(b, cap, c)
  <2>1. Refused.blk = Null
    BY DEF Refused
  <2> QED BY <2>1 DEF Allocate
<1>2. a.blk = c /\ DOMAIN a.mem = {c} /\ a.mem[c] = Resized(b, cap)
  BY <1>0, <1>1 DEF Granted
<1>3. Resized(b, cap) \in [1..cap -> Cell]
  <2>1. \A k \in 1..cap : b \in DOMAIN mem /\ k \in DOMAIN mem[b] => mem[b][k] \in Cell
    BY DEF IInv, TypeOK, Cell
  <2> QED BY <2>1 DEF Resized, Cell
<1>4. \A k \in 1..p_.off : Resized(b, cap)[k] = mem[b][k] /\ mem[b][k] \in Byte
  <2> SUFFICES ASSUME NEW k \in 1..p_.off
               PROVE  Resized(b, cap)[k] = mem[b][k] /\ mem[b][k] \in Byte
    OBVIOUS
  <2>1. b # Null
    BY <1>0 DEF IInv, OneLiveBlock
  <2>2. b \in DOMAIN mem /\ k \in DOMAIN mem[b] /\ k \in 1..cap
    BY <1>0, <2>1 DEF IInv, OneLiveBlock
  <2>3. mem[b][k] \in Byte
    BY <2>1 DEF IInv, WrittenIsInitialised
  <2> QED BY <2>2, <2>3 DEF Resized
<1> QED BY <1>0, <1>2, <1>3, <1>4 DEF Holds

\* The step adds d after the bytes already in the buffer.
Appends(d) ==
  /\ p_'.off = p_.off + Len(d)
  /\ \A k \in 1..(p_.off + Len(d)) :
       mem'[data_'.blk][k] = IF k <= p_.off THEN mem[data_.blk][k] ELSE d[k - p_.off]

\* A write keeps the invariant, and unless the program dies it adds exactly d.
LEMMA PutAppends ==
  ASSUME IInv, NEW d \in Seq(Byte), Put(d)
  PROVE  /\ IInv'
         /\ \/ fault' = "null"
            \/ fault' = "none" /\ Appends(d)
<1> DEFINE n == Len(d)
           cap == newCapacity(n)
<1>0. /\ n \in Nat /\ fault = "none"
      /\ data_ \in Pointer /\ p_ \in Pointer /\ end_ \in Pointer
      /\ p_.off \in Nat /\ end_.off \in Nat /\ data_.off = 0
      /\ p_.blk = data_.blk /\ end_.blk = data_.blk /\ p_.off <= end_.off
      /\ size = p_.off /\ capacity = end_.off
  BY DEF IInv, TypeOK, OneLiveBlock, Pointer, Put, size, capacity
<1>1. cap \in Nat /\ cap >= capacity /\ cap >= p_.off + n
  BY <1>0 DEF newCapacity, Max2
<1>2. p_ = Ptr(p_.blk, p_.off) /\ data_ = Ptr(p_.blk, 0) /\ end_ = Ptr(p_.blk, end_.off)
  BY <1>0 DEF Ptr, Pointer
<1>3. CASE p_.off + n <= end_.off /\ Store(p_, d, mem) /\ UNCHANGED <<data_, end_>>
  <2>1. CASE p_.blk # Null
    <3>1. Holds(mem, p_.blk, end_.off, p_.off)
      BY <1>0, <2>1 DEF Holds, IInv, TypeOK, OneLiveBlock, WrittenIsInitialised, Pointer, Cell
    <3>2. data_' = Ptr(p_.blk, 0) /\ end_' = Ptr(p_.blk, end_.off) /\ Store(Ptr(p_.blk, p_.off), d, mem)
      BY <1>2, <1>3
    <3>3. IInv' /\ fault' = "none" /\ Appended(mem, p_.blk, p_.off, d)
      BY <1>0, <1>3, <3>1, <3>2, StoreKeepsIInv
    <3> QED BY <1>0, <3>3 DEF Appended, Appends
  <2>2. CASE p_.blk = Null /\ d # <<>>
    <3>1. end_.off > 0 /\ MayFail
      BY <1>0, <1>3, <2>2 DEF IInv, RefusedReservation
    <3>2. /\ DOMAIN mem \subseteq Block
          /\ \A x \in DOMAIN mem : mem[x] \in [DOMAIN mem[x] -> Byte \cup {Junk}]
      BY DEF IInv, TypeOK
    <3> QED BY <1>0, <1>3, <2>2, <3>1, <3>2, NullStore
  <2>3. CASE p_.blk = Null /\ d = <<>>
    <3>1. p_' = p_ /\ mem' = mem /\ UNCHANGED <<data_, end_, fault>> /\ n = 0 /\ p_.off = 0
      BY <1>0, <1>3, <2>3 DEF Store, IInv, OneLiveBlock
    <3>2. IInv'
      BY <3>1 DEF IInv, TypeOK, OneLiveBlock, NoWildStore, WrittenIsInitialised, RefusedReservation
    <3> QED BY <1>0, <3>1, <3>2 DEF Appends
  <2> QED BY <2>1, <2>2, <2>3
<1>4. ASSUME NEW a \in Allocate(data_.blk, cap), p_.off + n > end_.off,
             data_' = Ptr(a.blk, 0), end_' = Ptr(a.blk, cap),
             Store(Ptr(a.blk, p_.off), d, a.mem)
      PROVE  /\ IInv'
             /\ \/ fault' = "null"
                \/ fault' = "none" /\ Appends(d)
  <2>1. CASE a.blk # Null
    <3>1. /\ Holds(a.mem, a.blk, cap, p_.off)
          /\ \A k \in 1..p_.off : a.mem[a.blk][k] = mem[data_.blk][k]
      BY <1>0, <1>1, <2>1, AllocateKeepsBytes
    <3>2. IInv' /\ fault' = "none" /\ Appended(a.mem, a.blk, p_.off, d)
      BY <1>0, <1>1, <1>4, <3>1, StoreKeepsIInv
    <3>3. Appends(d)
      <4> SUFFICES ASSUME NEW k \in 1..(p_.off + n)
                   PROVE  mem'[a.blk][k] = IF k <= p_.off THEN mem[data_.blk][k] ELSE d[k - p_.off]
        BY <3>2 DEF Appended, Appends
      <4>1. CASE k <= p_.off
        <5>1. k \in 1..p_.off
          BY <1>0, <4>1
        <5> QED BY <3>1, <3>2, <4>1, <5>1 DEF Appended
      <4>2. CASE ~(k <= p_.off)
        BY <3>2, <4>2 DEF Appended
      <4> QED BY <4>1, <4>2
    <3> QED BY <3>2, <3>3
  <2>2. CASE a.blk = Null
    <3>1. MayFail /\ a.mem = mem
      <4>1. \A c \in Block : Granted(data_.blk, cap, c).blk # Null
        BY WriterAssumption DEF Null, Granted
      <4> QED BY <2>2, <4>1 DEF Allocate, Refused
    <3>2. d # <<>>
      BY <1>0, <1>4
    <3>3. /\ Ptr(a.blk, p_.off) \in Pointer /\ Ptr(a.blk, p_.off).blk = Null
          /\ data_' \in Pointer /\ end_' \in Pointer
      BY <1>0, <1>1, <1>4, <2>2 DEF Ptr, Pointer
    <3>4. /\ DOMAIN mem \subseteq Block
          /\ \A x \in DOMAIN mem : mem[x] \in [DOMAIN mem[x] -> Byte \cup {Junk}]
      BY DEF IInv, TypeOK
    <3> QED BY <1>4, <3>1, <3>2, <3>3, <3>4, NullStore
  <2> QED BY <2>1, <2>2
<1>5. \/ p_.off + n <= end_.off /\ Store(p_, d, mem) /\ UNCHANGED <<data_, end_>>
      \/ \E a \in Allocate(data_.blk, cap) :
           /\ p_.off + n > end_.off
           /\ data_' = Ptr(a.blk, 0) /\ end_' = Ptr(a.blk, cap)
           /\ Store(Ptr(a.blk, p_.off), d, a.mem)
  BY <1>0 DEF Put, reserved
<1> QED BY <1>3, <1>4, <1>5

\* An explicit reservation keeps the invariant and the written bytes.
LEMMA ReserveKeepsBytes ==
  ASSUME IInv, NEW cap \in Nat, reserve(cap)
  PROVE  /\ IInv' /\ fault' = "none" /\ p_'.off = p_.off
         /\ \A k \in 1..p_.off : mem'[data_'.blk][k] = mem[data_.blk][k]
<1>0. /\ fault = "none" /\ fault' = "none" /\ cap > capacity
      /\ p_.off \in Nat /\ end_.off \in Nat /\ data_.off = 0 /\ p_.off <= end_.off
      /\ size = p_.off /\ capacity = end_.off
  BY DEF IInv, TypeOK, OneLiveBlock, Pointer, reserve, size, capacity
<1>1. PICK a \in Allocate(data_.blk, cap) :
        data_' = Ptr(a.blk, 0) /\ p_' = Ptr(a.blk, p_.off) /\ end_' = Ptr(a.blk, cap) /\ mem' = a.mem
  BY <1>0 DEF reserve, reserved
<1>2. CASE a.blk # Null
  <2>1. /\ Holds(a.mem, a.blk, cap, p_.off)
        /\ \A k \in 1..p_.off : a.mem[a.blk][k] = mem[data_.blk][k]
    BY <1>0, <1>2, AllocateKeepsBytes
  <2>2. data_'.blk = a.blk /\ p_'.blk = a.blk /\ end_'.blk = a.blk
        /\ data_'.off = 0 /\ p_'.off = p_.off /\ end_'.off = cap
    BY <1>1 DEF Ptr
  <2>3. TypeOK'
    <3>1. data_' \in Pointer /\ p_' \in Pointer /\ end_' \in Pointer
      BY <1>0, <1>1, <2>1 DEF Pointer, Ptr, Holds
    <3>2. DOMAIN mem' = {a.blk} /\ a.blk \in Block /\ mem'[a.blk] \in [DOMAIN mem'[a.blk] -> Cell]
      BY <1>1, <2>1 DEF Holds
    <3> QED BY <1>0, <3>1, <3>2 DEF TypeOK, Cell
  <2>4. OneLiveBlock' /\ NoWildStore' /\ WrittenIsInitialised' /\ RefusedReservation'
    BY <1>0, <1>1, <1>2, <2>1, <2>2
       DEF Holds, OneLiveBlock, NoWildStore, WrittenIsInitialised, RefusedReservation
  <2> QED BY <1>0, <1>1, <2>1, <2>2, <2>3, <2>4 DEF IInv
<1>3. CASE a.blk = Null
  <2>1. MayFail /\ mem' = mem
    <3>1. \A c \in Block : Granted(data_.blk, cap, c).blk # Null
      BY WriterAssumption DEF Null, Granted
    <3> QED BY <1>1, <1>3, <3>1 DEF Allocate, Refused
  <2>2. data_.blk = Null /\ p_.off = 0 /\ DOMAIN mem = {}
    BY <1>0, <2>1 DEF reserve, IInv, OneLiveBlock
  <2>3. /\ data_' \in Pointer /\ p_' \in Pointer /\ end_' \in Pointer
        /\ data_'.blk = Null /\ p_'.blk = Null /\ end_'.blk = Null
        /\ data_'.off = 0 /\ p_'.off = 0 /\ end_'.off = cap
    BY <1>1, <1>3, <2>2 DEF Pointer, Ptr
  <2> QED BY <1>0, <2>1, <2>2, <2>3
          DEF IInv, TypeOK, OneLiveBlock, NoWildStore, WrittenIsInitialised, RefusedReservation
<1> QED BY <1>2, <1>3

\* destroy leaves an empty buffer and an empty heap.
LEMMA DestroyEmpties ==
  ASSUME IInv, destroy
  PROVE  IInv' /\ fault' = "none" /\ p_'.off = 0
<1>1. /\ fault' = "none" /\ DOMAIN mem' = {}
      /\ data_' = Ptr(Null, 0) /\ p_' = Ptr(Null, 0) /\ end_' = Ptr(Null, 0)
  BY DEF destroy, IInv, OneLiveBlock, Restrict
<1> QED BY <1>1 DEF IInv, TypeOK, OneLiveBlock, NoWildStore, WrittenIsInitialised,
                    RefusedReservation, Ptr, Pointer

\* The invariant holds initially and every step keeps it.
LEMMA Inductive == (Init => IInv) /\ (IInv /\ [Next]_vars => IInv')
<1>1. Init => IInv
  BY DEF Init, IInv, TypeOK, OneLiveBlock, NoWildStore, WrittenIsInitialised,
         RefusedReservation, Ptr, Pointer
<1>2. ASSUME IInv, Next PROVE IInv'
  <2>1. ASSUME NEW d \in Input, writeBytes(d) PROVE IInv'
    BY <1>2, <2>1, PayloadsAreBytes, PutAppends DEF writeBytes
  <2>2. ASSUME NEW ch \in Byte, writeChar(ch) PROVE IInv'
    BY <1>2, <2>2, PayloadsAreBytes, PutAppends DEF writeChar
  <2>3. ASSUME NEW n \in 1..MaxBytes, writeIndent(n) PROVE IInv'
    BY <1>2, <2>3, PayloadsAreBytes, PutAppends, WriterAssumption DEF writeIndent
  <2>4. ASSUME NEW cap \in 1..MaxBytes, reserve(cap) PROVE IInv'
    BY <1>2, <2>4, ReserveKeepsBytes, WriterAssumption
  <2>5. CASE destroy
    BY <1>2, <2>5, DestroyEmpties
  <2> QED BY <1>2, <2>1, <2>2, <2>3, <2>4, <2>5 DEF Next
<1>3. ASSUME IInv, UNCHANGED vars PROVE IInv'
  BY <1>3 DEF vars, IInv, TypeOK, OneLiveBlock, NoWildStore, WrittenIsInitialised, RefusedReservation
<1> QED BY <1>1, <1>2, <1>3

\* Whatever is written, the buffer's pointers stay in one live block, the only
\* one allocated.  (reserve, ensure, destroy)
THEOREM BufferIsOneBlock == Spec => []OneLiveBlock
<1>1. IInv => OneLiveBlock
  BY DEF IInv
<1> QED BY Inductive, <1>1, PTL DEF Spec

\* ensure makes every store land inside the block; only a refused allocation
\* can make the program store through NULL.
THEOREM NoWildStores == Spec => []NoWildStore
<1>1. IInv => NoWildStore
  BY DEF IInv
<1> QED BY Inductive, <1>1, PTL DEF Spec

\* The variables have their types, and data() .. data() + size() never exposes
\* an uninitialised byte.
THEOREM TypeAndContents == Spec => [](TypeOK /\ WrittenIsInitialised)
<1>1. IInv => TypeOK /\ WrittenIsInitialised
  BY DEF IInv
<1> QED BY Inductive, <1>1, PTL DEF Spec

\* A sequence that reads like s followed by t is s \o t.
LEMMA ConcatByIndex ==
  ASSUME NEW S, NEW s \in Seq(S), NEW t \in Seq(S), NEW u \in Seq(S),
         Len(u) = Len(s) + Len(t),
         \A k \in 1..(Len(s) + Len(t)) : u[k] = IF k <= Len(s) THEN s[k] ELSE t[k - Len(s)]
  PROVE  u = s \o t
<1>1. s \o t \in Seq(S) /\ Len(s \o t) = Len(u)
  BY ConcatProperties
<1>2. \A k \in 1..Len(u) : u[k] = (s \o t)[k]
  BY ConcatProperties
<1> QED BY <1>1, <1>2, SeqEqual

\* A write that succeeds extends the abstract log by its payload.
LEMMA PutExtendsLog ==
  ASSUME IInv, NEW d \in Seq(Byte), Put(d)
  PROVE  Log!Extend(d) \/ Log!Lose
<1>1. p_.off \in Nat /\ fault = "none" /\ Len(d) \in Nat
  BY DEF IInv, TypeOK, Pointer, Put
<1>2. CASE fault' = "null"
  <2>1. Written' = <<>>
    BY <1>2 DEF Written
  <2> QED BY <1>2, <2>1 DEF Log!Lose
<1>3. CASE fault' = "none" /\ Appends(d)
  <2>1. Written = [k \in 1..p_.off |-> mem[data_.blk][k]]
    BY <1>1 DEF Written
  <2>2. Written' = [k \in 1..(p_.off + Len(d)) |-> mem'[data_'.blk][k]]
    BY <1>3 DEF Written, Appends
  <2>3. Written \in Seq(Byte) /\ Len(Written) = p_.off
    <3>1. Written \in [1..p_.off -> Byte]
      <4>1. ASSUME NEW k \in 1..p_.off PROVE mem[data_.blk][k] \in Byte
        BY <1>1, <4>1 DEF IInv, WrittenIsInitialised, OneLiveBlock
      <4> QED BY <2>1, <4>1
    <3> QED BY <1>1, <3>1
  <2>4. Written' \in Seq(Byte) /\ Len(Written') = p_.off + Len(d)
    <3>1. ASSUME NEW k \in 1..(p_.off + Len(d)) PROVE mem'[data_'.blk][k] \in Byte
      <4>1. IInv' /\ k \in 1..p_'.off
        BY <1>3, PutAppends DEF Appends
      <4> QED BY <1>1, <1>3, <4>1 DEF IInv, WrittenIsInitialised, OneLiveBlock
    <3>2. Written' \in [1..(p_.off + Len(d)) -> Byte]
      BY <2>2, <3>1
    <3> QED BY <1>1, <3>2
  <2>5. \A k \in 1..(p_.off + Len(d)) : Written'[k] = IF k <= p_.off THEN Written[k] ELSE d[k - p_.off]
    BY <1>1, <1>3, <2>1, <2>2 DEF Appends
  <2>6. Written' = Written \o d
    <3>1. /\ Len(Written') = Len(Written) + Len(d)
          /\ \A k \in 1..(Len(Written) + Len(d)) :
               Written'[k] = IF k <= Len(Written) THEN Written[k] ELSE d[k - Len(Written)]
      BY <2>3, <2>4, <2>5
    <3>2. Written \in Seq(Byte) /\ Written' \in Seq(Byte) /\ d \in Seq(Byte)
      BY <2>3, <2>4
    <3> QED BY ONLY <3>1, <3>2, ConcatByIndex
  <2> QED BY <1>1, <1>3, <2>6 DEF Log!Extend
<1> QED BY <1>2, <1>3, PutAppends

\* BinaryWriter implements AppendLog: what is between data_ and p_ is exactly
\* the concatenation of everything written since the last destroy.
THEOREM Refinement == Spec => ImplementsLog
<1>1. Init => Log!LogInit
  BY DEF Init, Log!LogInit, Written, Ptr
<1>2. ASSUME IInv, IInv', [Next]_vars PROVE [Log!LogNext]_(Log!logVars)
  <2>1. ASSUME NEW d \in Input, writeBytes(d) PROVE Log!LogNext
    BY <1>2, <2>1, PayloadsAreBytes, PutExtendsLog DEF writeBytes, Log!LogNext
  <2>2. ASSUME NEW ch \in Byte, writeChar(ch) PROVE Log!LogNext
    BY <1>2, <2>2, PayloadsAreBytes, PutExtendsLog DEF writeChar, Log!LogNext
  <2>3. ASSUME NEW n \in 1..MaxBytes, writeIndent(n) PROVE Log!LogNext
    BY <1>2, <2>3, PayloadsAreBytes, PutExtendsLog, WriterAssumption DEF writeIndent, Log!LogNext
  <2>4. ASSUME NEW cap \in 1..MaxBytes, reserve(cap) PROVE UNCHANGED Log!logVars
    <3>1. /\ fault' = "none" /\ fault = "none" /\ p_'.off = p_.off
          /\ \A k \in 1..p_.off : mem'[data_'.blk][k] = mem[data_.blk][k]
      BY <1>2, <2>4, ReserveKeepsBytes, WriterAssumption DEF reserve
    <3>2. Written' = Written
      BY <3>1 DEF Written
    <3> QED BY <3>1, <3>2 DEF Log!logVars
  <2>5. CASE destroy
    <3>1. Written' = <<>> /\ fault' = "none"
      BY <1>2, <2>5, DestroyEmpties DEF Written
    <3> QED BY <3>1 DEF Log!LogNext, Log!Clear
  <2>6. CASE UNCHANGED vars
    BY <2>6 DEF vars, Log!logVars, Written
  <2> QED BY <1>2, <2>1, <2>2, <2>3, <2>4, <2>5, <2>6 DEF Next
<1> QED BY Inductive, <1>1, <1>2, PTL DEF Spec, ImplementsLog, Log!LogSpec
==============================================================================
