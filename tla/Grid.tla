-------------------------------- MODULE Grid --------------------------------
(***************************************************************************)
(* The cell grid of the terminal and the pure algorithms vterm.go applies  *)
(* to it.  The Go slice cells[row*cols+col] is a function of the row and   *)
(* then of the column; an algorithm of the source that works on a range of *)
(* linear indices keeps the range (Fill, DeleteCells, LinearCopy).         *)
(*                                                                         *)
(* Nothing here has state: Screen.tla says which algorithm each escape     *)
(* sequence runs, and where the source would index outside the slice.      *)
(***************************************************************************)
EXTENDS Integers, Sequences

CONSTANTS
    Glyphs,         \* the runes a cell may show, the blank included
    Space,          \* the rune of a blank cell
    Colors,         \* foreground and background, as one value
    DefaultColor    \* ColorDefault for both

ASSUME GlyphAssumption == Space \in Glyphs
ASSUME ColorAssumption == DefaultColor \in Colors

Pen == [color : Colors, bold : BOOLEAN]
DefaultPen == [color |-> DefaultColor, bold |-> FALSE]

Cell == [ch : Glyphs, color : Colors, bold : BOOLEAN]

\* A blank cell never is bold: the source leaves Bold at its zero value.
BlankIn(color) == [ch |-> Space, color |-> color, bold |-> FALSE]
DefaultBlank == BlankIn(DefaultColor)

LineOf(w) == [0 .. w - 1 -> Cell]
GridOf(w, h) == [0 .. h - 1 -> LineOf(w)]

BlankLine(w) == [j \in 0 .. w - 1 |-> DefaultBlank]
BlankGrid(w, h, blank) == [i \in 0 .. h - 1 |-> [j \in 0 .. w - 1 |-> blank]]
-----------------------------------------------------------------------------
\* The position of a cell in the Go slice.
Idx(w, r, c) == r * w + c

\* clear(start, end, ...) and the erase loops: cells lo .. hi-1 of the slice.
Fill(g, w, h, lo, hi, blank) ==
    [i \in 0 .. h - 1 |-> [j \in 0 .. w - 1 |->
        IF lo <= Idx(w, i, j) /\ Idx(w, i, j) < hi THEN blank ELSE g[i][j]]]

\* Mutant of ShiftUp: the loop runs one row past the bottom of the region.
ShiftUpOneTooMany(g, w, h, top, bot, n) ==
    [i \in 0 .. h - 1 |->
        IF i < top \/ i > bot + 1 THEN g[i]
        ELSE IF i + n <= bot THEN g[i + n] ELSE BlankLine(w)]

\* Rows top .. bot move up by n; the rows left at the bottom become blank.
ShiftUp(g, w, h, top, bot, n) ==
    [i \in 0 .. h - 1 |->
        IF i < top \/ i > bot THEN g[i]
        ELSE IF i + n <= bot THEN g[i + n] ELSE BlankLine(w)]

\* Rows top .. bot move down by n; the rows left at the top become blank.
ShiftDown(g, w, h, top, bot, n) ==
    [i \in 0 .. h - 1 |->
        IF i < top \/ i > bot THEN g[i]
        ELSE IF i - n >= top THEN g[i - n] ELSE BlankLine(w)]

\* DCH: cells lo .. hi-1 of the slice move left by n.
DeleteCells(g, w, h, lo, hi, n) ==
    [i \in 0 .. h - 1 |-> [j \in 0 .. w - 1 |->
        LET k == Idx(w, i, j)
        IN IF k < lo \/ k >= hi THEN g[i][j]
           ELSE IF k + n < hi THEN g[(k + n) \div w][(k + n) % w] ELSE DefaultBlank]]

\* ICH: cells lo .. hi-1 of the slice move right by n.
InsertCells(g, w, h, lo, hi, n) ==
    [i \in 0 .. h - 1 |-> [j \in 0 .. w - 1 |->
        LET k == Idx(w, i, j)
        IN IF k < lo \/ k >= hi THEN g[i][j]
           ELSE IF k - n >= lo THEN g[(k - n) \div w][(k - n) % w] ELSE DefaultBlank]]

\* Resize: the overlap of the old w x h grid and the new w2 x h2 one is kept.
CopyOverlap(g, w, h, w2, h2) ==
    [i \in 0 .. h2 - 1 |-> [j \in 0 .. w2 - 1 |->
        IF i < h /\ j < w THEN g[i][j] ELSE DefaultBlank]]

\* Go's copy(cells, old): cell k of the old slice goes to cell k of the new
\* one, as far as the shorter of the two reaches, whatever the two widths.
LinearCopy(g, w, h, old, ow, oh) ==
    [i \in 0 .. h - 1 |-> [j \in 0 .. w - 1 |->
        LET k == Idx(w, i, j)
        IN IF k < ow * oh THEN old[k \div ow][k % ow] ELSE g[i][j]]]
-----------------------------------------------------------------------------
\* Snapshot's copy of a saved line into a row of the present width.
Fit(line, w) ==
    [j \in 0 .. w - 1 |-> IF j \in DOMAIN line THEN line[j] ELSE DefaultBlank]

\* The first n rows, in the order scrollUp pushes them to the scrollback.
TopLines(g, n) == [i \in 1 .. n |-> g[i - 1]]
=============================================================================
