SPECIFICATION MCSpec
INVARIANTS
    ShownIsOnDisk
    OneShown
    FileOnlyGains
    SuccessIsReal
    PairedCanLogIn
PROPERTIES
    KeyIsKept
    Ends
CONSTANTS
    Runs = {p1, p2}
    Purposes = {"connect", "enroll"}
    Faults = {"crash", "full", "overlap"}
    MaxGpgFaults = 1
    Strangers = {s1}
    OldKey = k0
    StrangersKey = k1
    OtherKeys <- MCOtherKeys
    OldFiles <- MCOldFiles
    NL = NL
    Torn = Torn
    None = None
    NotAKey = NotAKey
    MaxStarts = 2
    MaxRequests = 2
CHECK_DEADLOCK FALSE
