SPECIFICATION MCSpec
CONSTANTS
    Grants = {g1, g2}
    FeedGrants = {g1, g2, g3}
    Tasks = {t1, t2}
    NoTask = NoTask
    Batch = 2
    Lease = 1
    PostTimeout = 1
    Tries = 2
    MaxBackoff = 1
    MaxAttempts = 1
    MaxFaults = 1
    WriteTimeout = 1
    Visible = 1
    PageLimit = 2
    MaxSeq = 5
INVARIANT FeedSkipsNothing
PROPERTIES LedgerRefinement SettlementsArrive
CHECK_DEADLOCK FALSE
