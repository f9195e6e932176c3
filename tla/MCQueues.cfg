CONSTANTS
    p1 = p1
    p2 = p2
    c1 = c1
    c2 = c2
    x = x
    y = y
    NoItem = NoItem
    Threads <- MCThreads
    Items <- MCItems
    MaxLens <- MCMaxLens
    Roles <- MCRoles
    MaxPushes = 4
    None = None
    Workers <- MCWorkers
    Clients <- MCClients
    Owner = c1
    Sizes <- FixedSizes
    IdleTicks = 1
    MaxJobs = 2
    MaxFailures = 0
SPECIFICATION QueuesSpec
INVARIANTS TypeOK ListIntact Counted NoLostWakeup TermWakesAll
PROPERTIES TermReleases DestroyFlushes FifoSpec FixedSizeDrains FixedSizeDestroys
CHECK_DEADLOCK FALSE
