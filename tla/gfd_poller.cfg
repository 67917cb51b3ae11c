SPECIFICATION FairSpec
INVARIANTS
    WaitIsBounded
PROPERTIES
    SnapshotIsOnePoll
    SnapshotReturns
CONSTANTS
    Fetches <- FourFetches
    FetchTimeout = 3
    PollBudget = 5
    Period = 10
    Unset = Unset
    Unknown = Unknown
    Gear = "EmilyGear"
    MaxPolls = 3
