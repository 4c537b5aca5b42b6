---------------------------- MODULE BinaryWriter ----------------------------
(***************************************************************************)
(* The growable byte buffer of lua_binary_writer.h: three raw pointers     *)
(* into one malloc'ed block.  The C heap is modelled cell by cell, because *)
(* what can go wrong here is a pointer that outlives its block, a store    *)
(* past the end of the block, or bytes lost when the block moves.          *)
(*                                                                         *)
(* A pointer is a block and an offset; Null is the block of a null         *)
(* pointer.  Byte k of block b is the cell mem[b][k + 1].                  *)
(***************************************************************************)
EXTENDS Integers, Sequences, Functions

CONSTANTS
  Byte,     \* the values of a byte
  Tab,      \* the byte that writeIndent repeats
  Junk,     \* the contents of a cell nobody has written
  Block,    \* the addresses malloc and realloc may return
  Input,    \* the byte strings clients write
  MaxBytes, \* bound on size() and on explicit reservations
  MayFail   \* whether malloc and realloc may return NULL

ASSUME WriterAssumption ==
  /\ Tab \in Byte
  /\ Junk \notin Byte
  /\ 0 \notin Block
  /\ Input \subseteq Seq(Byte)
  /\ MaxBytes \in Nat
  /\ MayFail \in BOOLEAN

VARIABLES
  data_, \* start of the block
  p_,    \* where the next byte goes
  end_,  \* one past the block
  mem,   \* the allocated blocks
  fault  \* "none", "null": stored through NULL, "wild": stored elsewhere

vars == <<data_, p_, end_, mem, fault>>

Null == 0

Pointer == [blk : Block \cup {Null}, off : Nat]

Ptr(b, o) == [blk |-> b, off |-> o]

size == p_.off - data_.off

capacity == end_.off - data_.off

Max2(a, b) == IF a >= b THEN a ELSE b

Init ==
  /\ data_ = Ptr(Null, 0)
  /\ p_    = Ptr(Null, 0)
  /\ end_  = Ptr(Null, 0)
  /\ mem   = <<>>
  /\ fault = "none"

\* The contents of block b after it has been resized to n bytes.
Resized(b, n) ==
  [k \in 1..n |-> IF b \in DOMAIN mem /\ k \in DOMAIN mem[b] THEN mem[b][k] ELSE Junk]

\* The heap after block b has been resized to n bytes and moved to address c.
Granted(b, n, c) ==
  [blk |-> c,
   mem |-> [x \in (DOMAIN mem \ {b}) \cup {c} |-> IF x = c THEN Resized(b, n) ELSE mem[x]]]

Refused == [blk |-> Null, mem |-> mem]

\* malloc(n) when b is Null, realloc(b, n) otherwise: the block may stay, move
\* to any free address, or be refused, and then the old one stays allocated.
Allocate(b, n) ==
  {Granted(b, n, c) : c \in Block \ (DOMAIN mem \ {b})} \cup {x \in {Refused} : MayFail}

\* memcpy(q, d, Len(d)) on the heap m, then p_ = q + Len(d).
Store(q, d, m) ==
  LET top == q.off + Len(d) IN
  \/ /\ d = <<>>
     /\ p_' = q /\ mem' = m /\ UNCHANGED fault
  \/ /\ d # <<>>
     /\ q.blk \in DOMAIN m /\ top \in DOMAIN m[q.blk]
     /\ p_' = Ptr(q.blk, top)
     /\ mem' = [m EXCEPT ![q.blk] =
                  [k \in DOMAIN @ |-> IF q.off < k /\ k <= top THEN d[k - q.off] ELSE @[k]]]
     /\ UNCHANGED fault
  \/ /\ d # <<>>
     /\ ~(q.blk \in DOMAIN m /\ top \in DOMAIN m[q.blk])
     /\ fault' = IF q.blk = Null THEN "null" ELSE "wild"
     /\ p_' = q /\ mem' = m

\* Mutant: the doubling forgets the bytes about to be written.
newCapacityShort(n) == Max2(8, 2 * capacity)

\* The capacity that ensure(n) asks reserve for when n bytes do not fit.
newCapacity(n) == Max2(8, Max2(size + n, 2 * capacity))

\* Mutant: p_ is put at the start of the new block.
reservedRewound(a, cap) == [data |-> Ptr(a.blk, 0), p |-> Ptr(a.blk, 0), end |-> Ptr(a.blk, cap)]

\* The pointers that reserve(cap) leaves when the allocator answers with a.
\* size is taken before the block is resized, and p_ is rebuilt from it.
reserved(a, cap) ==
  [data |-> Ptr(a.blk, 0), p |-> Ptr(a.blk, size), end |-> Ptr(a.blk, cap)]

\* ensure(Len(d)), memcpy, p_ += Len(d): the body that writeNumber, writeType,
\* writeBytes, writeString and writeChar share.
Put(d) ==
  /\ fault = "none"
  /\ size + Len(d) <= MaxBytes
  /\ \/ /\ p_.off + Len(d) <= end_.off
        /\ Store(p_, d, mem)
        /\ UNCHANGED <<data_, end_>>
     \/ /\ p_.off + Len(d) > end_.off
        /\ \E a \in Allocate(data_.blk, newCapacity(Len(d))) :
             LET r == reserved(a, newCapacity(Len(d))) IN
             /\ data_' = r.data
             /\ end_'  = r.end
             /\ Store(r.p, d, a.mem)

writeBytes(d) == Put(d)

writeChar(ch) == Put(<<ch>>)

Indent(n) == [k \in 1..n |-> Tab]

writeIndent(n) == n > 0 /\ Put(Indent(n))

\* Besides ensure, only writeBinaryTable calls reserve, on a fresh buffer.  When
\* allocations may fail the model keeps to that use: a refused realloc of a
\* block in use would drop its bytes without anybody noticing.
reserve(cap) ==
  /\ fault = "none"
  /\ MayFail => data_.blk = Null
  /\ cap > capacity
  /\ \E a \in Allocate(data_.blk, cap) :
       LET r == reserved(a, cap) IN
       /\ data_' = r.data
       /\ p_'    = r.p
       /\ end_'  = r.end
       /\ mem'   = a.mem
  /\ UNCHANGED fault

\* Mutant: free without resetting the pointers.
destroyDangling ==
  /\ fault = "none"
  /\ mem' = Restrict(mem, DOMAIN mem \ {data_.blk})
  /\ UNCHANGED <<data_, p_, end_, fault>>

destroy ==
  /\ fault = "none"
  /\ mem' = Restrict(mem, DOMAIN mem \ {data_.blk})
  /\ data_' = Ptr(Null, 0) /\ p_' = Ptr(Null, 0) /\ end_' = Ptr(Null, 0)
  /\ UNCHANGED fault

Next ==
  \/ \E d \in Input : writeBytes(d)
  \/ \E ch \in Byte : writeChar(ch)
  \/ \E n \in 1..MaxBytes : writeIndent(n)
  \/ \E cap \in 1..MaxBytes : reserve(cap)
  \/ destroy

Spec == Init /\ [][Next]_vars
-----------------------------------------------------------------------------
TypeOK ==
  /\ data_ \in Pointer /\ p_ \in Pointer /\ end_ \in Pointer
  /\ DOMAIN mem \subseteq Block
  /\ \A b \in DOMAIN mem : mem[b] \in [DOMAIN mem[b] -> Byte \cup {Junk}]
  /\ fault \in {"none", "null", "wild"}

\* While the program runs, data_, p_ and end_ point into one block, which is the
\* only block allocated (nothing leaks when realloc moves it) and spans exactly
\* data_ .. end_; a null buffer is empty.  (reserve, ensure, destroy)
OneLiveBlock ==
  fault = "none" =>
    /\ data_.off = 0
    /\ p_.blk = data_.blk /\ end_.blk = data_.blk
    /\ p_.off <= end_.off
    /\ DOMAIN mem = {data_.blk} \ {Null}
    /\ data_.blk = Null => p_.off = 0
    /\ data_.blk # Null => DOMAIN mem[data_.blk] = 1..end_.off

\* No write ever stores outside the live block; the only bad store is through
\* NULL, and only after an allocation was refused.  (ensure before memcpy)
NoWildStore == fault # "wild" /\ (fault = "null" => MayFail)

\* Every byte between data_ and p_ was written by a client: what is handed to
\* fwrite and to lua_pushlstring holds no uninitialised memory.
WrittenIsInitialised ==
  fault = "none" /\ data_.blk # Null => \A k \in 1..p_.off : mem[data_.blk][k] \in Byte

\* A null buffer has a capacity only when a reservation was refused.
RefusedReservation == fault = "none" /\ data_.blk = Null /\ end_.off > 0 => MayFail

\* The inductive invariant.
IInv == TypeOK /\ OneLiveBlock /\ NoWildStore /\ WrittenIsInitialised /\ RefusedReservation

\* The bytes between data_ and p_, as the abstract log.
Written == [k \in 1..(IF fault = "none" THEN p_.off ELSE 0) |-> mem[data_.blk][k]]

Log == INSTANCE AppendLog
         WITH Payload <- Input \cup {<<ch>> : ch \in Byte} \cup {Indent(n) : n \in 1..MaxBytes},
              log <- Written, lost <- fault # "none"

\* The buffer is an append-only log: each write adds exactly its bytes after the
\* earlier ones, wherever the block moves, and a reservation changes nothing.
ImplementsLog == Log!LogSpec
==============================================================================
