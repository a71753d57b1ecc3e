CONSTANTS
    None = None
    Limit = 1
    Ranks = {1, 2}
    MaxRows = 4
    MaxInputs = 5
SPECIFICATION Spec
CHECK_DEADLOCK FALSE
INVARIANTS
    TypeOK
    ListIsRight
    PagesLoseOnlyTies
    EmptyPageHasACause
    SavingIsOneWrite
PROPERTIES
    DialogsCloseForAReason
    NothingSpins
