SPECIFICATION ResizeSpec
CONSTANTS
    Glyphs = {"x", " "}
    Space = " "
    Colors = {"default"}
    DefaultColor = "default"
    NoAlt = NoAlt
    Sizes <- ResizeSizes
    MaxInt = 31
    Counts = {1}
    MaxScrollback = 1
    Items <- Lines
    Nil = Nil
    Capacity = 1
CONSTRAINTS FewInks FewSettings
INVARIANTS ResizedScreenTakesText
