CONSTANTS
    InitSanity = 2
    PatienceN = 2
    SoftN = 3
    Deadline = 2
SPECIFICATION LinkFairSpec
PROPERTY CloseGivesUp
CHECK_DEADLOCK FALSE
