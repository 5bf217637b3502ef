\* Two polling threads, three alerts (one unmappable), one crash, a window of one clock tick.
CONSTANTS
    Alerts = {a1, a2, a3}
    Mappable = {a1, a2}
    Undated = {a3}
    Pollers = {poller, manual}
    Background = poller
    None = None
    Overlap = 0
    MaxRuns = 2
    FetchLimit = 2
    RetryLimit = 2
    MaxClock = 1
    MaxCrashes = 1
SPECIFICATION FairSpec
INVARIANTS
    OneRunPerAlert
    RetriesCounted
PROPERTIES
    VisibleAlertSettles
