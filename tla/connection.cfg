SPECIFICATION ConnectionSpec
INVARIANTS
    NothingLeaks
    ClosesItsOwn
PROPERTIES
    OutputComesThrough
CONSTANTS
    Handles = {1, 2, 3, 4, 5, 6, 7}
    MaxOthers = 1
    Window = 2
    MaxWrites = 4
CHECK_DEADLOCK FALSE
