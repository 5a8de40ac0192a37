SPECIFICATION Spec
CONSTANTS
    None = None
    Identifiers <- MCIdentifiers
    LiteralOf <- MCLiteralOf
    FieldTypes <- MCFieldTypes
    Scenarios <- MCScenarios
    Comparisons <- MCComparisons
CHECK_DEADLOCK FALSE
INVARIANTS
    WhereIsPrecedence
    NothingIsLost
    AcceptedIsTyped
