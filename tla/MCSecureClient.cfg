SPECIFICATION Spec
CONSTANTS
    Names = {"site", "other", "odd"}
    Unencodable = {"odd"}
    Addresses = {"p4", "p6", "r4"}
    Public = {"p4", "p6"}
    V4 = {"p4", "r4"}
    Answers <- MCAnswers
    Urls <- MCUrls
    Policies <- MCPolicies
    MaxRedirects = 1
    Limit = 2
    Budget = 0
    Sizes = {0, 1, 2, 3}
    MaxTime = 1
    MaxFetches = 2
INVARIANTS
    ConnectionsVetted
    OneAddressPerEndpoint
    LogIsTheChain
    NoCookieForwarded
    BudgetBoundsSends
    LimitsExact
PROPERTIES
    FetchEnds
CHECK_DEADLOCK FALSE
