CONSTANTS
    w1 = w1
    w2 = w2
    w3 = w3
    c = c
    None = None
    Workers <- MCWorkers
    Clients <- MCClients
    Owner = c
    Sizes <- GrowingSizes
    IdleTicks = 1
    MaxJobs = 2
    MaxFailures = 0
SPECIFICATION TpFairSpec
PROPERTY BacklogDrains
CHECK_DEADLOCK FALSE
