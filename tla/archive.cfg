\* Two parallel archive calls per step, spans of one round and more, two summarizations.
CONSTANTS
    Width = 2
    MinSpan = 1
    MaxRounds = 6
    MaxSummaries = 2
    Refs = {"a", "b", "s", "c", "o"}
    Ran <- MCRan
    MaxArchives = 2
    MaxIds = 3
SPECIFICATION Spec
INVARIANTS
    RemovedLeavesCard
    ArchivedStaysGone
    
