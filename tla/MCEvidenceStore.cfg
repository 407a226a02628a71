SPECIFICATION Spec
CONSTANTS
    Names <- MCNames
    Program <- MCProgram
    Rank <- MCRank
INVARIANTS
    AtMostOnce
    OrderIndependent
    FailureExplained
    ReadsDetermined
PROPERTIES
    Stable
    Answered
    ImplementsLedger
CHECK_DEADLOCK FALSE
