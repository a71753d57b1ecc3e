------------------------------- MODULE MCDirectory -------------------------------
EXTENDS Directory, TLC

CONSTANTS u1, u2, u3, a1, a2, r1, r2

MCUsers == {u1, u2, u3}
MCAddresses == {a1, a2}
MCSeeded == u1 :> a1
MCRequests == {r1, r2}

Symmetry == Permutations({u2, u3}) \cup Permutations(MCRequests)
================================================================================
