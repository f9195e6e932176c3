CONSTANTS
    w1 = w1
    w2 = w2
    w3 = w3
    c = c
    None = None
    Workers <- MCWorkers
    Clients <- MCClients
    Owner = c
    Sizes <- MCSizes
    IdleTicks = 1
    MaxJobs = 2
    MaxFailures = 1
    MaxBlocks = 3
    BlockSizes = {1, 2}
    MaxRefs = 2
    SizeSpan = 7
    MaxResizes = 1
    MaxCounted = 3
    NULL = NULL
SPECIFICATION PoolsSpec
INVARIANTS TpTypeOK CountsSound WithinMax JobsAccounted DestroyedQuiet
           MemTypeOK ListSafe FreedOnce InLockstep StatsExact
PROPERTY HeardAll
CHECK_DEADLOCK FALSE
