SPECIFICATION ParserSpec
INVARIANTS
    ReadsTheGrammar
    BuffersAreBounded
    AsIfAlone
PROPERTIES
    MovesAsWritten
CONSTANTS
    Writers = {"conn", "prompt"}
    Chunks <- AnyByte
    MaxBytes <- Limit
    CsiLimit = 3
    OscLimit = 3
    MaxInt = 63
    Extent = 3
    Digits <- SomeDigits
    MaxParams = 4
CHECK_DEADLOCK FALSE
