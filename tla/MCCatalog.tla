------------------------------- MODULE MCCatalog -------------------------------
EXTENDS Catalog, TLC

CONSTANTS c1, c2, p1, t1, a1, u1, n1, n2, r1, r2

MCNone == {}
MCOneClient == {c1}
MCClients == {c1, c2}
MCOneProject == {p1}
MCOneTask == {t1}
MCOneAssignment == {a1}
MCOneUser == {u1}
MCOneName == {n1}
MCNames == {n1, n2}
MCRequests == {r1, r2}

Symmetry ==
    Permutations(MCClients) \cup Permutations(MCNames)
      \cup Permutations(MCRequests)
===============================================================================
