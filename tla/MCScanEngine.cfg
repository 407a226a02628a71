SPECIFICATION ScanSpec
CONSTANTS
    Names <- MCNames
    Program <- MCProgram
    Rank <- MCRank
    CHECKS <- MCChecks
    CheckProgram <- MCCheckProgram
    Category <- MCCategory
    Profiles = {"content", "commerce", "api"}
    AppliesTo <- MCAppliesTo
    Brief = {"access_007", "security_011"}
    TechnicalProgram <- MCTechnicalProgram
    Experimental = FALSE
    Options <- MCOptions
    Faults <- OneFault
    Network <- MCNetwork
    Budget = 16
INVARIANTS
    VerdictsIndependent
    ResultsMatchSelection
    RatingIgnoresSelection
    AbortsExplained
    GatheringAccounted
PROPERTIES
    NoGatherAfterClose
    ScanEnds
CHECK_DEADLOCK FALSE
