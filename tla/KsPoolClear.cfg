SPECIFICATION MemSpec
CONSTANTS
    MaxBlocks = 3
    BlockSizes = {1, 2}
    MaxRefs = 2
    SizeSpan = 7
    MaxResizes = 1
    MaxCounted = 3
    NULL = NULL
INVARIANT
    ClearStartsAgain
CHECK_DEADLOCK FALSE
