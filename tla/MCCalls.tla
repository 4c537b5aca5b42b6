------------------------------ MODULE MCCalls ------------------------------
EXTENDS Calls, TLC

MCSymmetry == Permutations(Coroutines)
==============================================================================
