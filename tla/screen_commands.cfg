SPECIFICATION CommandSpec
CONSTANTS
    Glyphs = {"x", " "}
    Space = " "
    Colors = {"default"}
    DefaultColor = "default"
    NoAlt = NoAlt
    Sizes <- CommandSizes
    MaxInt = 20
    Counts <- SomeCounts
    MaxScrollback = 1
    Items <- Lines
    Nil = Nil
    Capacity = 1
CONSTRAINTS FewInks FewSettings OnGrid
PROPERTIES
    LeavesOnlyByOverflow PanicsAreKnown ScrollStaysInRegion HistoryFaithful
    AltIsAnInterlude
