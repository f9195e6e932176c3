CONSTANTS
    BufBytes = {65}
    MaxWrite = 2
    MaxMemory = 4
    BufShapes <- MCShapes
    MaxLoops = 0
SPECIFICATION BufSpec
CHECK_DEADLOCK FALSE
INVARIANT NothingPast
