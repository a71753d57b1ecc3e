CONSTANTS
    u1 = u1
    u2 = u2
    p1 = p1
    p2 = p2
    r1 = r1
    r2 = r2
    Users <- MCOneUser
    Passwords <- MCPasswords
    Requests <- MCRequests
    AccessTTL = 1
    RefreshTTLDefault = 1
    RefreshTTLRememberMe = 2
    MaxTime = 1
    MaxVersion = 2
    MaxSessions = 2
    MaxAccess = 2
SPECIFICATION Spec
SYMMETRY Symmetry
CHECK_DEADLOCK FALSE
INVARIANTS
    TypeOK
    HonouredProvesPassword
    VersionsAreCurrent
    StaleRoleIsOld
PROPERTY KeepsPromise
