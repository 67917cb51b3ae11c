SPECIFICATION PrintSpec
CONSTANTS
    Glyphs = {"x", " "}
    Space = " "
    Colors = {"default"}
    DefaultColor = "default"
    NoAlt = NoAlt
    Sizes <- PrintSizes
    MaxInt = 31
    Counts = {1}
    MaxScrollback = 2
    Items <- Lines
    Nil = Nil
    Capacity = 2
CONSTRAINTS FewInks FewSettings
INVARIANTS RingIsScrollback
PROPERTIES IsTeletype IsBoundedLog
