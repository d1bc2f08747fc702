----------------------------- MODULE MCSessions -----------------------------
EXTENDS Sessions, TLC

CONSTANTS t1, t2, t3, p1, p2

Symmetry == Permutations(Procs) \cup Permutations(Tokens)
=============================================================================
