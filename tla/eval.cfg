\* Two processes, two runs, of which they share one; one crash and one overrun of the deadline.
CONSTANTS
    p = p
    q = q
    d = d
    e = e
    r1 = r1
    r2 = r2
    Procs = {p, q}
    Datasets = {d, e}
    Runs = {r1, r2}
    DatasetOf <- MCDatasetOf
    Assigned <- MCAssigned
    Workers = 2
    Rpm = 1
    Fresh = FALSE
    MaxCrashes = 1
    MaxOverruns = 1
SPECIFICATION Spec
INVARIANTS
    LockBrokenByTakeoverOnly
    FinishedSuiteIsRecorded
PROPERTIES
    OkRecordKept
    SuiteEnds
