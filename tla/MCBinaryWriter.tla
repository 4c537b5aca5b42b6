--------------------------- MODULE MCBinaryWriter ---------------------------
(* BinaryWriter on two addresses and four input lengths around the initial *)
(* capacity of 8.                                                          *)
EXTENDS BinaryWriter

MCInput == {<<>>, <<1, 2>>, <<2, 1, 2, 1, 1>>, <<1, 1, 1, 2, 2, 2, 1, 1, 2>>}
==============================================================================
