\* One run under debug replays, next to its execution and its approvals.
CONSTANTS
    Runs = {a1}
    Alerts = {a1}
    Workers = {w1, w2}
    Main = main
    NoRun = NoRun
    Free = Free
    BodyKinds = {"tool"}
    MaxEmits = 1
    MaxDebugs = 1
    MaxCrashes = 0
    RecoverAtStart = FALSE
SYMMETRY WorkerSymmetry
SPECIFICATION Spec
INVARIANTS
    EventNumberStillFree
    EmitLockHeldByEmitter
PROPERTIES
    KeepsContract
