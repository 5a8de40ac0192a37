SPECIFICATION FairSpec
CONSTANTS
    Sources = {"s1", "s2"}
    Names = {"n1", "n2"}
    Hosts = {"h1", "h2"}
    Passwords = {"p1", "p2"}
    Timed = {"h1"}
    Sessions = {r1, r2}
    Creations <- MCCreations
    Edits <- MCEdits
    InitialRows <- MCRows
    MaxRequests = 3
    MaxSwings = 1
CHECK_DEADLOCK FALSE
INVARIANTS
    RowsAreSound
PROPERTIES
    LoneUpdateIsExact
    NothingReturns
    EveryRequestEnds
