\* The process as it starts: no recover_orphans, one crash.
CONSTANTS
    Runs = {a1}
    Alerts = {a1}
    Workers = {w1}
    Main = main
    NoRun = NoRun
    Free = Free
    BodyKinds = {"tool"}
    MaxEmits = 1
    MaxDebugs = 0
    MaxCrashes = 1
    RecoverAtStart = FALSE
SPECIFICATION FairSpec
PROPERTIES
    EveryRunSettles
