---------------------------- MODULE MCOwnership ----------------------------
EXTENDS Ownership, TLC

CONSTANTS u1, u2, u3, u4, p1, p2, p3

\* The founder is told apart by Init.
Symmetry == Permutations(Procs) \cup Permutations(Users \ {Founder})
=============================================================================
