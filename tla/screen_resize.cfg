SPECIFICATION WindowSpec
CONSTANTS
    Glyphs = {"x", " "}
    Space = " "
    Colors = {"default"}
    DefaultColor = "default"
    NoAlt = NoAlt
    Sizes <- ResizeSizes
    MaxInt = 31
    Counts = {1}
    MaxScrollback = 1
    Items <- Lines
    Nil = Nil
    Capacity = 1
    GlyphW = 2
    GlyphH = 2
    Windows <- SomeWindows
    Pixels <- SomePixels
    WheelLines = 3
    PageLines = 2
    OtherText <- OthersText
CONSTRAINTS FewInks FewSettings OneText
INVARIANTS TypeOK ViewIsWindow NoCrashOverTheGrid
PROPERTIES CopiesTheHighlight PasteIsFreshest
CHECK_DEADLOCK FALSE
