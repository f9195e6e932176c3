CONSTANTS
    t1 = t1
    t2 = t2
    t3 = t3
    Threads <- MCThreads
    NoThread = NoThread
    MaxDepth = 3
    LibThreads = {t1, t2}
    Nobody = Nobody
    LineLen = 2
    EarlyPool = FALSE
    MaxInits = 3
    MaxLines = 2
    TlsSessions = {t1, t2}
    InitRetries = 1
    IoRetries = 1
    ShutdownRetries = 1
    InitSanity = 3
    PatienceN = 3
    SoftN = 2
    Deadline = 2
    Scripts <- MCScripts
    BlockN = 3
    MaxX = 4
    MaxZero = 2
    BodyLen = 8
    PayloadMax = 12
    Unread = {0, 4}
    WriteLens = {1, 3}
    MaxWrites = 2
    HttpScripts <- MCHttpScripts
    BufLen = 10
    MaxHeaders = 3
    MaxSegments = 7
    Pipelining = {FALSE, TRUE}
SPECIFICATION WireSpec
INVARIANTS WireTypeOK WriterKnown FramesSound LinkSound RequestsServed TlsSound LibSound
PROPERTIES LockSpec 
