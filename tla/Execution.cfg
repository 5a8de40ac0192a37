SPECIFICATION FairSpec
CONSTANTS
    Keys = {"k1", "k2"}
    ScopeSets <- MCScopes
    MaxTime = 1
    Requests = {"r1", "r2"}
    Sources <- MCSources
    Dialect <- MCDialect
    Mappings = {"m1", "m2"}
    MapSource <- MCMapSource
    Inputs <- MCInputs
    InitialKeys <- MCKeys
    RequireApiKey = FALSE
    MaxAdmin = 1
    MaxFaults = 1
CHECK_DEADLOCK FALSE
INVARIANTS
    AllOrNothing
    AnswerIsTrue
    EffectIsAllowed
    RevokedStaysOut
    NothingLeaks
PROPERTIES
    EveryRequestAnswered
