CONSTANTS
    t1 = t1
    t2 = t2
    t3 = t3
    k1 = k1
    k2 = k2
    k3 = k3
    NoKey = NoKey
    NoEntry = NoEntry
    Threads <- MCThreads
    Keys <- MCKeys
    hash <- MChash
    primes <- MCprimes
    MaxEntries = 4
    Roles <- MCRoles
    MaxFd = 2
    MaxEls = 4
    ListData = {1, 2}
    MaxSpare = 1
    MaxIterDeletes = 1
    SortKeys = {1, 2, 3}
    Sizes = {1, 2}
    MaxSort = 4
    MinQuick = 1
    BufBytes = {10, 13}
    MaxWrite = 2
    MaxMemory = 4
    BufShapes <- MCShapes
    MaxLoops = 1
    AclBits = 2
    MaxNetworks = 2
    MaxItems = 4
    JsonNames <- MCNames
    MaxCalls = 5
    NestingLimit = 2
    NumberMax = 10
    IntMax = 60
    TextJobs <- MCTextJobs
    PatchJobs <- MCPatchJobs
    TextBytes = {0, 97, 200, 255}
    CodePoints = {10, 92, 127, 128, 2047, 2048, 65535, 65536, 1114111}
    MaxText = 3
    MaxOut = 8
SPECIFICATION DataSpec
CHECK_DEADLOCK FALSE
INVARIANTS DataTypeOK HashSound ListSound BytesKept ListsAgree TextFaithful PatchesFaithful SocketsSound AlgorithmsExact
PROPERTY IterateAll
