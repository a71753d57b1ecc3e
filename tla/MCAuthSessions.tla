---------------------------- MODULE MCAuthSessions ----------------------------
EXTENDS AuthSessions, TLC

CONSTANTS u1, u2, p1, p2, r1, r2

MCUsers == {u1, u2}
MCOneUser == {u1}
MCPasswords == {p1, p2}
MCOnePassword == {p1}
MCRequests == {r1, r2}
Symmetry ==
    Permutations(MCRequests) \cup Permutations(MCPasswords)
        \cup Permutations(MCUsers)
===============================================================================
