------------------------------- MODULE Screen -------------------------------
(***************************************************************************)
(* The VT100 screen state machine, internal/vterm/vterm.go: one action per *)
(* control character, escape sequence and exported mutator of type Screen. *)
(* Screen.mu is held for the whole of each, so each is one step; the bytes *)
(* of a sequence are gathered by the parser, modelled in Parser.tla.       *)
(*                                                                         *)
(* The variables have the names of the struct fields.  The three fields fg,*)
(* bg, bold are one variable, pen; the alt* fields one record, alt, which  *)
(* is NoAlt while altActive is false.  panicked is not a field: it is set  *)
(* when the source would index outside a slice.  main.go recovers that     *)
(* panic in the goroutine that reads the connection, which then stops, so  *)
(* no more output is processed; the window goes on resizing and scrolling. *)
(* What a panicking command wrote before it failed is not modelled.        *)
(*                                                                         *)
(* Positions and counts are Go ints: sums and products wrap, and where the *)
(* source checks one end of a range only, a wrapped sum passes the other.  *)
(* A cursor can so come to lie anywhere off the grid.                      *)
(***************************************************************************)
EXTENDS Grid, History, Ints

CONSTANTS
    Sizes,          \* the <<cols, rows>> the window can have
    Counts,         \* the repeat counts of escape sequences (numOr1), negative
                    \* where parseNums has wrapped
    MaxScrollback,  \* capacity of the scrollback
    NoAlt           \* the alternate screen is not active

\* main.go keeps both dimensions >= 1.  A slice of cells fits into memory: a
\* Cell takes 12 bytes, so that the indices of two slices of cells, and a tab
\* stop beyond them, are far from the largest int.
ASSUME SizesAssumption ==
    /\ Sizes \subseteq (Nat \ {0}) \X (Nat \ {0})
    /\ \A d \in Sizes : 2 * (d[2] * d[1]) + 8 <= MaxInt
ASSUME CountsAssumption == Counts \subseteq Ints \ {0}
ASSUME ScrollbackAssumption == MaxScrollback \in Nat \ {0}

VARIABLES
    cols, rows,
    cells,
    curRow, curCol,
    savedRow, savedCol,
    pen,
    scrollRegTop, scrollRegBot,
    sb, scrollTop,
    cursorHidden,
    alt,
    panicked

dims    == <<cols, rows>>
cursor  == <<curRow, curCol>>
saved   == <<savedRow, savedCol>>
region  == <<scrollRegTop, scrollRegBot>>
history == <<sb, scrollTop>>
modes   == <<cursorHidden, alt>>

vars == <<dims, cells, cursor, saved, pen, region, history, modes, panicked>>

Lines == UNION {LineOf(d[1]) : d \in Sizes}

AltFrame(d) ==
    [cols : {d[1]}, rows : {d[2]}, cells : GridOf(d[1], d[2]),
     curRow : Ints, curCol : Ints, savedRow : Ints, savedCol : Ints,
     pen : Pen, top : Nat, bot : Nat]

TypeOK ==
    /\ dims \in Sizes
    /\ cells \in GridOf(cols, rows)
    /\ curRow \in Ints /\ curCol \in Ints
    /\ savedRow \in Ints /\ savedCol \in Ints
    /\ pen \in Pen
    /\ scrollRegTop \in Nat /\ scrollRegBot \in Nat
    /\ sb \in Seq(Lines)
    /\ scrollTop \in Nat
    /\ cursorHidden \in BOOLEAN
    /\ alt # NoAlt => \E d \in Sizes : alt \in AltFrame(d)
    /\ panicked \in BOOLEAN

Init ==
    /\ \E d \in Sizes : cols = d[1] /\ rows = d[2]
    /\ cells = BlankGrid(cols, rows, DefaultBlank)
    /\ curRow = 0 /\ curCol = 0
    /\ savedRow = 0 /\ savedCol = 0
    /\ pen = DefaultPen
    /\ scrollRegTop = 0 /\ scrollRegBot = rows - 1
    /\ sb = <<>> /\ scrollTop = 0
    /\ cursorHidden = FALSE
    /\ alt = NoAlt
    /\ panicked = FALSE
-----------------------------------------------------------------------------
AtMost(x, bound) == IF x > bound THEN bound ELSE x
AtLeast(x, bound) == IF x < bound THEN bound ELSE x

\* Go's division rounds towards zero.
Quot(x, d) == IF x >= 0 THEN x \div d ELSE -((-x) \div d)

\* Positions in the slice: of the cursor's cell; of the first cell of its row
\* and of the next; and the end of what is left of the row.
Size == rows * cols
CursorIdx == Wrap(Idx(cols, curRow, curCol))
RowStart == Wrap(curRow * cols)
RowEnd == Wrap((curRow + 1) * cols)
RestEnd == CursorIdx + (cols - curCol)

\* IL, DL, SU, SD, DCH and ICH take a number below one for one.
PositiveCounts == {n \in Counts : n > 0}

\* The command indexes outside cells: nothing after it is processed.
Fault == panicked' = TRUE /\ UNCHANGED <<dims, cells, cursor, saved, pen,
                                         region, history, modes>>

\* Only the cells, or only the cursor, change.
Draw(g) ==
    /\ cells' = g
    /\ UNCHANGED <<dims, cursor, saved, pen, region, history, modes, panicked>>
MoveTo(r, c) ==
    /\ curRow' = r /\ curCol' = c
    /\ UNCHANGED <<dims, cells, saved, pen, region, history, modes, panicked>>

(***************************************************************************)
(* scrollUp and scrollDown.  Only a scroll of the whole screen saves lines.*)
(***************************************************************************)
FullScreenScroll == scrollRegTop = 0 /\ scrollRegBot = rows - 1
ScrollUpFits == FullScreenScroll \/ scrollRegBot < rows
ScrollDownFits == scrollRegBot < rows

ScrolledUp(n) ==
    IF FullScreenScroll /\ n >= rows
    THEN BlankGrid(cols, rows, BlankIn(pen.color))
    ELSE ShiftUp(cells, cols, rows, scrollRegTop, scrollRegBot, n)

\* Mutant of SavedBy: a partial region is saved too.
SavedFromRegion(n) ==
    Keep(MaxScrollback,
         sb \o [i \in 1 .. AtMost(n, scrollRegBot - scrollRegTop + 1) |->
                   cells[scrollRegTop + i - 1]])

SavedBy(n) ==
    IF FullScreenScroll
    THEN Keep(MaxScrollback, sb \o TopLines(cells, AtMost(n, rows)))
    ELSE sb

ScrolledDown(n) ==
    ShiftDown(cells, cols, rows, scrollRegTop, scrollRegBot, n)

\* A line feed or a wrap that would leave the region scrolls instead.
\* Mutant of MustScroll: >= for >.
MustScrollEarly == Wrap(curRow + 1) >= scrollRegBot
MustScroll == Wrap(curRow + 1) > scrollRegBot
-----------------------------------------------------------------------------
(***************************************************************************)
(* Text: putChar and the control characters of Write.                      *)
(***************************************************************************)
PutCell(g, r, c, ch) ==
    [g EXCEPT ![r][c] = [ch |-> ch, color |-> pen.color, bold |-> pen.bold]]

PutAt(k, ch) == PutCell(cells, k \div cols, k % cols, ch)

\* The cursor is on the line: the character goes there.
PutInLine(ch) ==
    /\ curCol < cols
    /\ IF CursorIdx \in 0 .. Size - 1
       THEN /\ cells' = PutAt(CursorIdx, ch)
            /\ curCol' = curCol + 1
            /\ UNCHANGED <<dims, curRow, saved, pen, region, history, modes,
                           panicked>>
       ELSE Fault

\* The cursor is past the end of the line: wrap to the next line, no scroll.
PutWrapped(ch) ==
    /\ curCol >= cols /\ ~MustScroll
    /\ IF RowEnd \in 0 .. Size - 1
       THEN /\ cells' = PutAt(RowEnd, ch)
            /\ curRow' = Wrap(curRow + 1) /\ curCol' = 1
            /\ UNCHANGED <<dims, saved, pen, region, history, modes, panicked>>
       ELSE Fault

\* The same at the end of the scroll region.
PutScrolled(ch) ==
    /\ curCol >= cols /\ MustScroll
    /\ IF ScrollUpFits
       THEN /\ cells' = PutCell(ScrolledUp(1), scrollRegBot, 0, ch)
            /\ sb' = SavedBy(1)
            /\ curRow' = scrollRegBot /\ curCol' = 1
            /\ UNCHANGED <<dims, saved, pen, region, scrollTop, modes, panicked>>
       ELSE Fault

PutChar(ch) == PutInLine(ch) \/ PutWrapped(ch) \/ PutScrolled(ch)

LineFeedInside == ~MustScroll /\ MoveTo(Wrap(curRow + 1), curCol)
LineFeedScroll ==
    /\ MustScroll
    /\ IF ScrollUpFits
       THEN /\ cells' = ScrolledUp(1)
            /\ sb' = SavedBy(1)
            /\ curRow' = scrollRegBot
            /\ UNCHANGED <<dims, curCol, saved, pen, region, scrollTop, modes,
                           panicked>>
       ELSE Fault
LineFeed == LineFeedInside \/ LineFeedScroll

CarriageReturn == MoveTo(curRow, 0)
Backspace == curCol > 0 /\ MoveTo(curRow, curCol - 1)
Tab == MoveTo(curRow, AtMost(Wrap((Quot(curCol, 8) + 1) * 8), cols - 1))

TextOutput ==
    \/ \E ch \in Glyphs : PutChar(ch)
    \/ LineFeed \/ CarriageReturn \/ Backspace \/ Tab
-----------------------------------------------------------------------------
(***************************************************************************)
(* Cursor motion.  A, B, C and D check the edge they move towards only.    *)
(* The absolute positions are what clamp() leaves of any parameters, absent*)
(* ones included.                                                          *)
(***************************************************************************)
CursorUp(n) == MoveTo(AtLeast(Wrap(curRow - n), 0), curCol)
CursorDown(n) == MoveTo(AtMost(Wrap(curRow + n), rows - 1), curCol)
CursorRight(n) == MoveTo(curRow, AtMost(Wrap(curCol + n), cols - 1))
CursorLeft(n) == MoveTo(curRow, AtLeast(Wrap(curCol - n), 0))
Clamp(x, bound) == AtMost(AtLeast(x, 0), bound)
NextLine(n) == MoveTo(Clamp(Wrap(curRow + n), rows - 1), 0)
PreviousLine(n) == MoveTo(Clamp(Wrap(curRow - n), rows - 1), 0)
ColumnAbsolute(c) == MoveTo(curRow, c)
RowAbsolute(r) == MoveTo(r, curCol)
CursorPosition(r, c) == MoveTo(r, c)

SaveCursor ==
    /\ savedRow' = curRow /\ savedCol' = curCol
    /\ UNCHANGED <<dims, cells, cursor, pen, region, history, modes, panicked>>
RestoreCursor == MoveTo(savedRow, savedCol)

CursorMotion ==
    \/ \E n \in Counts : \/ CursorUp(n) \/ CursorDown(n)
                         \/ CursorRight(n) \/ CursorLeft(n)
                         \/ NextLine(n) \/ PreviousLine(n)
    \/ \E r \in 0 .. rows - 1, c \in 0 .. cols - 1 : CursorPosition(r, c)
    \/ \E c \in 0 .. cols - 1 : ColumnAbsolute(c)
    \/ \E r \in 0 .. rows - 1 : RowAbsolute(r)
    \/ SaveCursor \/ RestoreCursor
-----------------------------------------------------------------------------
(***************************************************************************)
(* Erasing.  Cells lo .. hi-1 of the slice become blank.                   *)
(***************************************************************************)
Erase(lo, hi, blank) == Draw(Fill(cells, cols, rows, lo, hi, blank))
InSlice(lo, hi) == lo < hi => 0 <= lo /\ hi <= Size
EraseIfIn(lo, hi, blank) ==
    IF InSlice(lo, hi) THEN Erase(lo, hi, blank) ELSE Fault

\* J: clear() cuts the range at the end of the slice, but not at its beginning.
EraseToEnd == EraseIfIn(CursorIdx, Size, BlankIn(pen.color))
EraseToBeginning ==
    EraseIfIn(0, AtMost(Wrap(CursorIdx + 1), Size), BlankIn(pen.color))
EraseAll ==
    /\ cells' = BlankGrid(cols, rows, BlankIn(pen.color))
    /\ curRow' = 0 /\ curCol' = 0
    /\ UNCHANGED <<dims, saved, pen, region, history, modes, panicked>>

\* Mutant of EraseLineToEnd: one cell too many.
EraseLineTooFar == EraseIfIn(CursorIdx, RestEnd + 1, BlankIn(pen.color))

\* K and X.  The loop of "to start of line" includes the cursor's column.
EraseLineToEnd == EraseIfIn(CursorIdx, RestEnd, BlankIn(pen.color))
EraseLineToStart ==
    EraseIfIn(RowStart, RowStart + curCol + 1, BlankIn(pen.color))
EraseWholeLine == EraseIfIn(RowStart, RowStart + cols, BlankIn(pen.color))
EraseChars(n) ==
    EraseIfIn(CursorIdx, AtMost(Wrap(CursorIdx + n), RowEnd), DefaultBlank)

\* ESC c.  The pen is reset before clear() draws with it.
FullReset ==
    /\ cells' = BlankGrid(cols, rows, DefaultBlank)
    /\ curRow' = 0 /\ curCol' = 0
    /\ pen' = DefaultPen
    /\ UNCHANGED <<dims, saved, region, history, modes, panicked>>

EraseInLine == EraseLineToEnd \/ EraseLineToStart \/ EraseWholeLine
Erasing ==
    \/ EraseToEnd \/ EraseToBeginning \/ EraseAll
    \/ EraseInLine
    \/ \E n \in Counts : EraseChars(n)
    \/ FullReset
-----------------------------------------------------------------------------
(***************************************************************************)
(* Lines: the scroll region, scrolling in it, and IL/DL.                   *)
(***************************************************************************)
\* Mutant of SetScrollRegion: a region of no height, or upside down, is taken.
SetAnyRegion(t, b) ==
    /\ scrollRegTop' = t /\ scrollRegBot' = b
    /\ curRow' = 0 /\ curCol' = 0
    /\ UNCHANGED <<dims, cells, saved, pen, history, modes, panicked>>

\* DECSTBM: t, b are the clamped parameters; nothing happens unless t < b.
SetScrollRegion(t, b) ==
    /\ t < b
    /\ scrollRegTop' = t /\ scrollRegBot' = b
    /\ curRow' = 0 /\ curCol' = 0
    /\ UNCHANGED <<dims, cells, saved, pen, history, modes, panicked>>

ScrollUp(n) ==
    IF ScrollUpFits
    THEN /\ cells' = ScrolledUp(n)
         /\ sb' = SavedBy(n)
         /\ UNCHANGED <<dims, cursor, saved, pen, region, scrollTop, modes,
                        panicked>>
    ELSE Fault

ScrollDown(n) == IF ScrollDownFits THEN Draw(ScrolledDown(n)) ELSE Fault

ReverseIndexScroll == curRow = scrollRegTop /\ ScrollDown(1)
ReverseIndexMove ==
    /\ curRow # scrollRegTop /\ curRow > 0
    /\ MoveTo(curRow - 1, curCol)
ReverseIndex == ReverseIndexScroll \/ ReverseIndexMove

\* The shift starts at the cursor, whether or not that is in the region or even
\* on the grid; the number of rows from there to the bottom of the region wraps.
\* A shift that starts above the grid reaches row -1 and panics there.
ShiftsRows == curRow <= scrollRegBot /\ Wrap(scrollRegBot - curRow + 1) > 0
RowsFit == curRow >= 0 /\ scrollRegBot < rows
InsertLines(n) ==
    /\ ShiftsRows
    /\ IF RowsFit
       THEN Draw(ShiftDown(cells, cols, rows, curRow, scrollRegBot, n))
       ELSE Fault
DeleteLines(n) ==
    /\ ShiftsRows
    /\ IF RowsFit
       THEN Draw(ShiftUp(cells, cols, rows, curRow, scrollRegBot, n))
       ELSE Fault

LineEditing ==
    \/ \E t, b \in 0 .. rows - 1 : SetScrollRegion(t, b)
    \/ \E n \in PositiveCounts : \/ ScrollUp(n) \/ ScrollDown(n)
                                 \/ InsertLines(n) \/ DeleteLines(n)
    \/ ReverseIndex
-----------------------------------------------------------------------------
(***************************************************************************)
(* Characters within the line: DCH and ICH.  Past the end of the line both *)
(* loops are empty; off the grid they are not.  Where col+n wraps, the     *)
(* slice expression panics: its bounds are further apart than the slice is *)
(* long.                                                                   *)
(***************************************************************************)
EditFits(n) == curCol + n <= MaxInt /\ InSlice(CursorIdx, RestEnd)

DeleteChars(n) ==
    IF EditFits(n)
    THEN Draw(DeleteCells(cells, cols, rows, CursorIdx, RestEnd, n))
    ELSE Fault
InsertChars(n) ==
    IF EditFits(n)
    THEN Draw(InsertCells(cells, cols, rows, CursorIdx, RestEnd, n))
    ELSE Fault

CharEditing == \E n \in PositiveCounts : DeleteChars(n) \/ InsertChars(n)
-----------------------------------------------------------------------------
(***************************************************************************)
(* Modes: SGR, cursor visibility, and the alternate screen.                *)
(***************************************************************************)
SetPen(p) ==
    /\ pen' = p
    /\ UNCHANGED <<dims, cells, cursor, saved, region, history, modes, panicked>>

ShowCursor(b) ==
    /\ cursorHidden' = ~b
    /\ UNCHANGED <<dims, cells, cursor, saved, pen, region, history, alt, panicked>>

Frame ==
    [cols |-> cols, rows |-> rows, cells |-> cells,
     curRow |-> curRow, curCol |-> curCol,
     savedRow |-> savedRow, savedCol |-> savedCol,
     pen |-> pen, top |-> scrollRegTop, bot |-> scrollRegBot]

EnterAlt ==
    /\ alt = NoAlt
    /\ alt' = Frame
    /\ cells' = BlankGrid(cols, rows, DefaultBlank)
    /\ curRow' = 0 /\ curCol' = 0
    /\ savedRow' = 0 /\ savedCol' = 0
    /\ pen' = DefaultPen
    /\ scrollRegTop' = 0 /\ scrollRegBot' = rows - 1
    /\ UNCHANGED <<dims, history, cursorHidden, panicked>>

\* Mutant of LeaveAlt: the scroll region is not part of what is restored.
LeaveAltKeepsRegion ==
    /\ alt # NoAlt
    /\ alt' = NoAlt
    /\ cells' = LinearCopy(cells, cols, rows, alt.cells, alt.cols, alt.rows)
    /\ curRow' = alt.curRow /\ curCol' = alt.curCol
    /\ savedRow' = alt.savedRow /\ savedCol' = alt.savedCol
    /\ pen' = alt.pen
    /\ UNCHANGED <<dims, region, history, cursorHidden, panicked>>

LeaveAlt ==
    /\ alt # NoAlt
    /\ alt' = NoAlt
    /\ cells' = LinearCopy(cells, cols, rows, alt.cells, alt.cols, alt.rows)
    /\ curRow' = alt.curRow /\ curCol' = alt.curCol
    /\ savedRow' = alt.savedRow /\ savedCol' = alt.savedCol
    /\ pen' = alt.pen
    /\ scrollRegTop' = alt.top /\ scrollRegBot' = alt.bot
    /\ UNCHANGED <<dims, history, cursorHidden, panicked>>

ModeChange ==
    \/ \E p \in Pen : SetPen(p)
    \/ \E b \in BOOLEAN : ShowCursor(b)
    \/ EnterAlt \/ LeaveAlt
-----------------------------------------------------------------------------
(***************************************************************************)
(* The window: Resize, ScrollBy and ScrollReset, called by the main loop.  *)
(***************************************************************************)
\* Mutant of Resize: the new dimensions are not stored.
ResizeKeepsDims(w, h) ==
    /\ <<w, h>> # <<cols, rows>>
    /\ cells' = CopyOverlap(cells, cols, rows, w, h)
    /\ curCol' = AtMost(curCol, w - 1) /\ curRow' = AtMost(curRow, h - 1)
    /\ UNCHANGED <<dims, saved, pen, region, history, modes, panicked>>

Resize(w, h) ==
    /\ <<w, h>> # <<cols, rows>>
    /\ cols' = w /\ rows' = h
    /\ cells' = CopyOverlap(cells, cols, rows, w, h)
    /\ curCol' = AtMost(curCol, w - 1) /\ curRow' = AtMost(curRow, h - 1)
    /\ UNCHANGED <<saved, pen, region, history, modes, panicked>>

ScrollTo(t) ==
    /\ scrollTop' = t
    /\ UNCHANGED <<dims, cells, cursor, saved, pen, region, sb, modes, panicked>>
ScrollBy(n) == ScrollTo(AtMost(AtLeast(scrollTop + n, 0), Len(sb)))
ScrollReset == ScrollTo(0)

Resizing == \E d \in Sizes : Resize(d[1], d[2])
Scrolling ==
    (\E n \in -MaxScrollback .. MaxScrollback : ScrollBy(n)) \/ ScrollReset
-----------------------------------------------------------------------------
\* Mutant of ViewRow: a line saved at another width is not fitted to the present
\* one.
ViewRowUnfitted(row) ==
    LET sbIdx == Len(sb) - scrollTop + row
    IN CASE sbIdx \in 0 .. Len(sb) - 1 -> sb[sbIdx + 1]
         [] sbIdx >= Len(sb)           -> cells[sbIdx - Len(sb)]
         [] OTHER                      -> BlankLine(cols)

\* Snapshot: the cells drawn in the window; the row it takes from is the
\* scrollback's while sbIdx is a valid index there, and the live screen's after.
ViewRow(row) ==
    LET sbIdx == Len(sb) - scrollTop + row
    IN CASE sbIdx \in 0 .. Len(sb) - 1 -> Fit(sb[sbIdx + 1], cols)
         [] sbIdx >= Len(sb)           -> cells[sbIdx - Len(sb)]
         [] OTHER                      -> BlankLine(cols)
View == [row \in 0 .. rows - 1 |-> ViewRow(row)]
-----------------------------------------------------------------------------
\* What the shell on the other end can make the terminal do ...
Output == TextOutput \/ CursorMotion \/ Erasing \/ LineEditing
             \/ CharEditing \/ ModeChange
\* ... until the goroutine that reads it has died, and what the user can do.
Next == (~panicked /\ Output) \/ Resizing \/ Scrolling

Spec == Init /\ [][Next]_vars

\* The window keeps its size or grows, as when it is only ever maximised.
NeverShrinks == cols' >= cols /\ rows' >= rows
GrowSpec == Init /\ [][Next /\ NeverShrinks]_vars
=============================================================================
