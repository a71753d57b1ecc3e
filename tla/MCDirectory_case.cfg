CONSTANTS
    u1 = u1
    u2 = u2
    u3 = u3
    a1 = a1
    a2 = a2
    r1 = r1
    r2 = r2
    Undefined = Undefined
    Users <- MCUsers
    Addresses <- MCAddresses
    Seeded <- MCSeeded
    Requests <- MCRequests
SPECIFICATION Spec
SYMMETRY Symmetry
CHECK_DEADLOCK FALSE
INVARIANT AccountsCanSignIn
