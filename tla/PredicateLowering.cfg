SPECIFICATION Spec
CONSTANTS
    DayLength = 2
    Today = 1
    Now = 3
    Separator = " "
    Cases <- MCCases
CHECK_DEADLOCK FALSE
INVARIANTS
    ReadIsPage
PROPERTIES
    MutationIsExact
    NegationNeverAdds
    CreateKeepsRecords
