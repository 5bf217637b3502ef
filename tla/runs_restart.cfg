\* A process that recovers orphans before it serves, crashing up to twice.
CONSTANTS
    Runs = {a1, d1}
    Alerts = {a1}
    Workers = {w1}
    Main = main
    NoRun = NoRun
    Free = Free
    BodyKinds = {"tool"}
    MaxEmits = 1
    MaxDebugs = 0
    MaxCrashes = 2
    RecoverAtStart = TRUE
SPECIFICATION FairSpec
INVARIANTS
    NoOrphanRun
    PublishedAfterArtifacts
PROPERTIES
    ImplementsContract
    PendingClosedByDecision
