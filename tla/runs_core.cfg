\* Two runs, two request threads, no crash, the debug service disabled.
CONSTANTS
    Runs = {a1, d1}
    Alerts = {a1}
    Workers = {w1, w2}
    Main = main
    NoRun = NoRun
    Free = Free
    BodyKinds = {"graph", "tool"}
    MaxEmits = 1
    MaxDebugs = 0
    MaxCrashes = 0
    RecoverAtStart = FALSE
SYMMETRY WorkerSymmetry
SPECIFICATION Spec
INVARIANTS
    SingleExecutionSlot
    TerminalEventMatchesRow
    ApprovalFollowsGraph
