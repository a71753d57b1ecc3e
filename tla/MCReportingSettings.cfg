CONSTANTS
    empty = empty
    alpha = alpha
    None = None
    Searches <- MCSearches
    Pages <- MCPages
    NoSearch = empty
    MaxInputs = 4
SPECIFICATION Spec
CHECK_DEADLOCK FALSE
INVARIANTS
    TypeOK
    NewestAnswerIsShown
    OwnUpdatesAreShown
PROPERTY LoadingEnds
