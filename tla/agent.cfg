\* Two parallel tool calls per step, one reference of another host.
CONSTANTS
    Calls = {c1, c2}
    Refs = {host, peer, file, foreign}
    Known = {host}
    Foreign = {foreign}
    MaxModelCalls = 4
    MaxToolCalls = 2
SPECIFICATION FairSpec
INVARIANTS
    LedgerInScope
    UseWasReturned
PROPERTIES
    ExhaustedFreezesLedger
    InvestigationEnds
