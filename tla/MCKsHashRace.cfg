CONSTANTS
    t1 = t1
    t2 = t2
    t3 = t3
    k1 = k1
    k2 = k2
    k3 = k3
    NoKey = NoKey
    NoEntry = NoEntry
    Threads <- MCThreads
    Keys <- MCKeys
    hash <- MChash
    primes <- MCprimes
    MaxEntries = 4
    Roles <- TwoInserters
SPECIFICATION Spec
CHECK_DEADLOCK FALSE
INVARIANT SearchFinds
