CONSTANTS
    MaxEls = 4
    ListData = {1, 2, 3}
    MaxSpare = 1
    MaxIterDeletes = 2
SPECIFICATION ListSpec
INVARIANT SameElements
CHECK_DEADLOCK FALSE
