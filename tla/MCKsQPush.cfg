CONSTANTS
    p1 = p1
    p2 = p2
    c1 = c1
    c2 = c2
    x = x
    y = y
    NoItem = NoItem
    Threads <- MCThreads
    Items <- MCItems
    MaxLens <- MCMaxLens
    Roles <- OnePusher
    MaxPushes = 3
SPECIFICATION Spec

PROPERTY BlockedPushDelivers
CHECK_DEADLOCK FALSE
