SPECIFICATION PromptSpec
INVARIANTS
    OverrunIsBounded
    KeysFollowTheLink
    AuthorizedInTime
    PollsInOrder
PROPERTIES
    PromptEnds
    RefluxIsBoundedLog
CONSTANTS
    ExpiresIns <- SomeExpiresIns
    Intervals <- SomeIntervals
    CallTimeout = 2
    MaxTime = 16
    Nil = Nil
    LogCapacity = 2
CHECK_DEADLOCK FALSE
