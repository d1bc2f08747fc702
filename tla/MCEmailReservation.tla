------------------------ MODULE MCEmailReservation ------------------------
EXTENDS EmailReservation, TLC

CONSTANTS e1, u1, u2, u3, s1, s2, p1, p2, p3, o1

OneEmail == {e1}
TwoUsers == {u1, u2}
ThreeUsers == {u1, u2, u3}
TwoShards == {s1, s2}

\* u1 and u2 meet on different shards, u1 and u3 on the same one.
HomeOfTwo == u1 :> s1 @@ u2 :> s2
HomeOfThree == u1 :> s1 @@ u2 :> s2 @@ u3 :> s1

Symmetry == Permutations(Procs)
=============================================================================
