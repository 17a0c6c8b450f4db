---------------------------- MODULE MCWaitGroup ----------------------------
EXTENDS WaitGroup, TLC

Symmetry == Permutations(Tasks) \union Permutations(Waiters)
=============================================================================
