SPECIFICATION FairSpec
INVARIANTS
    SizesAgree
    CredentialsOnce
PROPERTIES
    QuitEnds
    LossEnds
CONSTANTS
    Modes = {"shell", "gfd login"}
    Windows <- SomeWindows
    Grid <- TwoByTwo
    BarRows = 1
    Room = 1
    MaxWrites <- SomeWrites
    MaxActs <- SomeActs
CHECK_DEADLOCK FALSE
