CONSTANTS
    c1 = c1
    c2 = c2
    p1 = p1
    t1 = t1
    a1 = a1
    u1 = u1
    n1 = n1
    n2 = n2
    r1 = r1
    r2 = r2
    Undefined = Undefined
    Clients <- MCClients
    Projects <- MCOneProject
    Tasks <- MCNone
    Assignments <- MCNone
    Users <- MCNone
    Names <- MCNames
    Requests <- MCRequests
SPECIFICATION Spec
SYMMETRY Symmetry
CHECK_DEADLOCK FALSE
PROPERTIES
    ClientNamesAreVouched
    ProjectMovesAreVouched
