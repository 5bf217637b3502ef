SPECIFICATION Spec
CONSTANTS
    Ingesters <- MCIngesters
    Batch <- MCBatch
    Readers <- MCReaders
    Visible = {"edr", "cmdb"}
    ScopeHosts = {"h1"}
    ScopeDomains = {"process", "file", "network", "reputation"}
    ScopeWindow <- MCScopeWindow
    Known = {"p1"}
    Limit = 1
    MaxCrashes = 1
INVARIANTS
    StoreConsistent
    NothingLost
    PagesComplete
    PagesInScope
PROPERTY HistoryKept
