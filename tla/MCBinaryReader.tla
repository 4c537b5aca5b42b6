---------------------------- MODULE MCBinaryReader ----------------------------
(* Files of every length up to twice the widest number.                    *)
EXTENDS BinaryReader

MCSizeof == [b \in {8, 16, 32, 64} |-> CASE b = 8 -> 1 [] b = 16 -> 2 [] b = 32 -> 4 [] b = 64 -> 8]

MCFiles == {[k \in 1..n |-> k] : n \in 0..17}
==============================================================================
