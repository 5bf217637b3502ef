\* One page on one run, a ledger of four events.
CONSTANT MaxEvents = 4
SPECIFICATION FairSpec
INVARIANT NoEventSkipped
PROPERTY PageShowsTheEnd
CHECK_DEADLOCK FALSE
