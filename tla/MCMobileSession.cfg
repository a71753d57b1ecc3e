CONSTANTS
    u1 = u1
    u2 = u2
    k1 = k1
    k2 = k2
    None = None
    Users <- MCUsers
    Calls <- MCCalls
SPECIFICATION Spec
INVARIANTS
    TypeOK
    PickerFollowsItsCall
    SessionIsOneUsers
    SignedOutOnlyIfRevoked
PROPERTIES
    KeepsCallPromise
    SessionsComeFromLogin
