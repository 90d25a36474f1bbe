SPECIFICATION QueueSpec
CONSTANTS
    Item = {1, 2}
    Priority <- Priorities
    PathOf <- OneName
    Slot = {s1, s2}
    FileCount = 1
    Node = {1, 2, 3, 4, 5, 6, 7, 8}
    NoItem = NoItem
    MaxMishaps = 0
PROPERTIES
    EnsureOnlyCreates
CHECK_DEADLOCK FALSE
