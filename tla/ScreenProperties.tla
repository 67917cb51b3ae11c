-------------------------- MODULE ScreenProperties --------------------------
(***************************************************************************)
(* What makes the terminal screen of Screen.tla correct, and the parts of  *)
(* its state the host sees.                                                *)
(***************************************************************************)
EXTENDS Screen

Rows == 0 .. rows - 1

InGrid(row, col, w, h) == row \in 0 .. h - 1 /\ col \in 0 .. w

CursorInBounds == InGrid(curRow, curCol, cols, rows)
SavedInBounds == InGrid(savedRow, savedCol, cols, rows)
RegionInBounds == scrollRegTop <= scrollRegBot /\ scrollRegBot < rows
AltInBounds ==
    alt # NoAlt => /\ alt.cols <= cols /\ alt.rows <= rows
                   /\ InGrid(alt.curRow, alt.curCol, alt.cols, alt.rows)
                   /\ InGrid(alt.savedRow, alt.savedCol, alt.cols, alt.rows)
                   /\ alt.top <= alt.bot /\ alt.bot < alt.rows
ViewInBounds == scrollTop <= Len(sb) /\ Len(sb) <= MaxScrollback

\* InBounds: the cursor, the saved cursor, the scroll region and everything the
\* alternate screen will restore are inside the grid (a cursor may rest one past
\* the last column, before a wrap), and the view inside the scrollback.  It is
\* what keeps putChar, scrollUp and the editing loops of vterm.go inside the
\* slice.
InBounds ==
    /\ CursorInBounds /\ SavedInBounds /\ RegionInBounds
    /\ AltInBounds /\ ViewInBounds

\* LeavesOnlyByOverflow: in a window that never shrinks, nothing leaves these
\* bounds but the cursor, and that only by CUU, CUD, CUF or CUB with a number
\* that parseNums has wrapped to a negative, or whose sum with the position
\* wraps: the first moves the cursor through the edge nobody checks, the second
\* turns up on the far side of it.
OverflowingMotion ==
    \E n \in Counts :
       \/ n < 0 /\ (CursorUp(n) \/ CursorLeft(n))
       \/ (n < 0 \/ curRow + n > MaxInt) /\ CursorDown(n)
       \/ (n < 0 \/ curCol + n > MaxInt) /\ CursorRight(n)
LeavesOnlyByOverflow ==
    [][InBounds => InBounds' \/ (OverflowingMotion /\ ~CursorInBounds')]_vars

\* PanicsAreKnown: in a window that never shrinks, only three kinds of output can
\* panic the screen: "erase to start of line" with the cursor waiting to wrap
\* at the end of the last line, whose loop includes the cursor's column; DCH or
\* ICH with a number whose sum with the column wraps; and whatever comes after
\* an overflowing motion, with the cursor or one it saved still off the grid.
Corner == EraseLineToStart /\ curRow = rows - 1 /\ curCol = cols
OverflowingEdit ==
    \E n \in PositiveCounts :
       curCol + n > MaxInt /\ (DeleteChars(n) \/ InsertChars(n))
PanicsAreKnown ==
    [][~panicked /\ panicked' => Corner \/ OverflowingEdit \/ ~InBounds]_vars

\* HistoryFaithful: the scrollback only ever gains rows from the top of the
\* screen, in order and as they were shown, and forgets only its oldest lines,
\* whatever the shell sends and the user does; and what it gains leaves the
\* screen in the same step, so that no line is in both or in neither.
MovedUp(k) == \A i \in 0 .. rows - 1 - k : cells'[i] = cells[i + k]
HistoryFaithful ==
    [][\E k \in 0 .. rows :
          /\ sb' = Keep(MaxScrollback, sb \o TopLines(cells, k))
          /\ k > 0 => MovedUp(k)]_vars

\* ScrollStaysInRegion: a line feed, a character that wraps at the bottom of the
\* region, RI, SU and SD, and IL and DL with the cursor at or below the top of
\* the region, change rows of the scroll region only.
Scrolls ==
    \/ LineFeed \/ ReverseIndex
    \/ \E n \in PositiveCounts : ScrollUp(n) \/ ScrollDown(n)
    \/ \E ch \in Glyphs : PutScrolled(ch)
    \/ /\ curRow >= scrollRegTop
       /\ \E n \in PositiveCounts : InsertLines(n) \/ DeleteLines(n)
ScrollStaysInRegion ==
    [][Scrolls => \A i \in Rows \ (scrollRegTop .. scrollRegBot) :
                      cells'[i] = cells[i]]_vars

\* AltIsAnInterlude: a full-screen application leaves the primary screen as it
\* found it.  Entering the alternate screen saves all of it, nothing but
\* leaving touches what was saved, and leaving a window of the same size
\* restores cells, cursor, saved cursor, colours and scroll region together.
AltIsAnInterlude ==
    [][/\ alt = NoAlt /\ alt' # NoAlt => alt' = Frame
       /\ alt # NoAlt => alt' \in {alt, NoAlt}
       /\ alt # NoAlt /\ alt' = NoAlt /\ dims = <<alt.cols, alt.rows>>
             => Frame' = alt]_vars

\* ViewIsWindow: scrolled back by any amount, the window shows consecutive
\* lines of one document, the scrollback followed by the live screen, ending
\* scrollTop lines before its end; no line is skipped or shown twice where the
\* two meet, and none is blank that the document has.
Document == [i \in 1 .. Len(sb) |-> Fit(sb[i], cols)] \o TopLines(cells, rows)
ViewIsWindow ==
    \A row \in Rows : View[row] = Document[Len(sb) - scrollTop + row + 1]
-----------------------------------------------------------------------------
(***************************************************************************)
(* What comments of vterm.go say and the code does not do.                 *)
(***************************************************************************)
\* DefaultRegionIsWholeScreen: vterm.go:40, "scrolling region (DECSTBM,
\* inclusive 0-indexed). Default: [0, rows-1]", for as long as no DECSTBM has
\* been received.  Resize keeps the old region.
DefaultRegionIsWholeScreen == scrollRegTop = 0 /\ scrollRegBot = rows - 1

\* ResizedScreenTakesText: vterm.go:94, "Resize adapts the screen to new
\* dimensions": whatever size the window has had, printing and line feeds do
\* not panic.  After shrinking, the old region lets the cursor leave the grid.
ResizedScreenTakesText == ~panicked

\* EraseToStartStaysOnLine: vterm.go:511, "erase in line".  With the cursor
\* waiting to wrap, EL 1 erases the first cell of the next line.
EraseToStartStaysOnLine ==
    [][EraseLineToStart => \A i \in Rows \ {curRow} : cells'[i] = cells[i]]_vars

\* LineOpsStayInRegion: vterm.go:596 and :615, "insert/delete N lines at cursor
\* row (within scroll region)".  Above the region they shift rows outside it.
LineOpsStayInRegion ==
    [][(\E n \in PositiveCounts : InsertLines(n) \/ DeleteLines(n))
          => \A i \in Rows \ (scrollRegTop .. scrollRegBot) :
                 cells'[i] = cells[i]]_vars

\* FullResetIsFull: vterm.go:403, "ESC c - full reset".  The scroll region, the
\* saved cursor and the alternate screen survive it.
FullResetIsFull ==
    [][FullReset => /\ saved' = <<0, 0>>
                    /\ region' = <<0, rows - 1>>
                    /\ alt' = NoAlt /\ ~cursorHidden']_vars
=============================================================================
