SPECIFICATION MCSpec
CONSTANTS
    Url <- MCUrl
    Canon <- MCCanon
    OnSite = {"home", "home?utm", "shop", "shop2", "docs", "about", "faq", "team"}
    Productish = {"shop", "shop2", "othershop"}
    Docsish = {"docs"}
    Malformed = {"broken["}
    Declarations <- MCDeclarations
    Unrequestable = {"relative"}
    Fallbacks <- MCFallbacks
    Servers <- MCServers
    MaxEntries = 4
    EntryUrl = "home"
    Sites <- MCSites
    SitemapWindow = 3
    SampleCap = 4
    Mentions <- MCMentions
    Texts <- MCTexts
    Uninteresting = {"own.dev"}
    Budget = 2
    MaxReferences = 3
INVARIANTS
    MaxPagesBeyondEntry
CHECK_DEADLOCK FALSE
