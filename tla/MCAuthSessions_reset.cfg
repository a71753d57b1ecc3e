CONSTANTS
    u1 = u1
    u2 = u2
    p1 = p1
    p2 = p2
    r1 = r1
    r2 = r2
    Users <- MCUsers
    Passwords <- MCOnePassword
    Requests <- MCRequests
    AccessTTL = 1
    RefreshTTLDefault = 1
    RefreshTTLRememberMe = 1
    MaxTime = 0
    MaxVersion = 1
    MaxSessions = 1
    MaxAccess = 2
SPECIFICATION Spec
SYMMETRY Symmetry
CHECK_DEADLOCK FALSE
PROPERTY ResetEndsAccess
