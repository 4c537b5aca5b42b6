------------------------------ MODULE AppendLog ------------------------------
(***************************************************************************)
(* What a byte buffer promises its user: the bytes handed to it, in order, *)
(* and nothing else, until it is cleared.  An allocation failure loses the *)
(* whole contents, and nothing can be added to a lost buffer.              *)
(***************************************************************************)
EXTENDS Sequences

CONSTANT Payload \* the byte sequences a client may add

VARIABLES
  log,  \* the bytes added since the buffer was last cleared
  lost  \* TRUE once an allocation failure has thrown the bytes away

logVars == <<log, lost>>

LogInit == log = <<>> /\ lost = FALSE

Extend(d) == ~lost /\ log' = log \o d /\ UNCHANGED lost

Lose == log' = <<>> /\ lost' = TRUE

Clear == log' = <<>> /\ lost' = FALSE

LogNext == (\E d \in Payload : Extend(d)) \/ Lose \/ Clear

LogSpec == LogInit /\ [][LogNext]_logVars
==============================================================================
