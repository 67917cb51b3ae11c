---------------------------- MODULE Screen_proofs ----------------------------
(***************************************************************************)
(* The algorithms of Grid.tla; type correctness of the screen for every    *)
(* behaviour; for windows that never shrink, that everything stays inside  *)
(* the grid; the scrollback, the view and the alternate screen.            *)
(***************************************************************************)
EXTENDS ScreenProperties, History_proofs

(***************************************************************************)
(* The grid: each algorithm gives a grid or a line of the right size, for  *)
(* every size.                                                             *)
(***************************************************************************)
\* The blanks the screen draws with are cells.
LEMMA BlankIsCell ==
    ASSUME NEW color \in Colors PROVE BlankIn(color) \in Cell
BY GlyphAssumption DEF BlankIn, Cell

LEMMA DefaultBlankIsCell == DefaultBlank \in Cell
BY ColorAssumption, BlankIsCell DEF DefaultBlank

LEMMA BlankLineType ==
    ASSUME NEW w \in Nat PROVE BlankLine(w) \in LineOf(w)
BY DefaultBlankIsCell DEF BlankLine, LineOf

LEMMA BlankGridType ==
    ASSUME NEW w \in Nat, NEW h \in Nat, NEW b \in Cell
    PROVE BlankGrid(w, h, b) \in GridOf(w, h)
BY DEF BlankGrid, GridOf, LineOf

\* Erasing a range of cells.
LEMMA FillType ==
    ASSUME NEW w \in Nat, NEW h \in Nat, NEW g \in GridOf(w, h),
           NEW lo, NEW hi, NEW b \in Cell
    PROVE Fill(g, w, h, lo, hi, b) \in GridOf(w, h)
<1>1. \A i \in 0 .. h - 1 : \A j \in 0 .. w - 1 : g[i][j] \in Cell
  BY DEF GridOf, LineOf
<1>2. ASSUME NEW i \in 0 .. h - 1
      PROVE [j \in 0 .. w - 1 |->
                IF lo <= Idx(w, i, j) /\ Idx(w, i, j) < hi THEN b ELSE g[i][j]]
               \in LineOf(w)
  BY <1>1 DEF LineOf
<1> QED BY <1>2 DEF Fill, GridOf

\* Shifting rows up or down inside the grid.
LEMMA ShiftUpType ==
    ASSUME NEW w \in Nat, NEW h \in Nat, NEW g \in GridOf(w, h),
           NEW top \in Nat, NEW bot \in Nat, bot < h, NEW n \in Nat
    PROVE ShiftUp(g, w, h, top, bot, n) \in GridOf(w, h)
<1>1. \A i \in 0 .. h - 1 : g[i] \in LineOf(w)
  BY DEF GridOf
<1>2. BlankLine(w) \in LineOf(w)
  BY BlankLineType
<1>3. \A i \in 0 .. h - 1 : i + n <= bot => i + n \in 0 .. h - 1
  OBVIOUS
<1> QED BY <1>1, <1>2, <1>3 DEF ShiftUp, GridOf

LEMMA ShiftDownType ==
    ASSUME NEW w \in Nat, NEW h \in Nat, NEW g \in GridOf(w, h),
           NEW top \in Nat, NEW bot \in Nat, NEW n \in Nat
    PROVE ShiftDown(g, w, h, top, bot, n) \in GridOf(w, h)
<1>1. \A i \in 0 .. h - 1 : g[i] \in LineOf(w)
  BY DEF GridOf
<1>2. BlankLine(w) \in LineOf(w)
  BY BlankLineType
<1>3. \A i \in 0 .. h - 1 : i - n >= top => i - n \in 0 .. h - 1
  OBVIOUS
<1> QED BY <1>1, <1>2, <1>3 DEF ShiftDown, GridOf

\* Resizing, and copying one slice over another of any size.
LEMMA CopyOverlapType ==
    ASSUME NEW w \in Nat, NEW h \in Nat, NEW g \in GridOf(w, h),
           NEW w2 \in Nat, NEW h2 \in Nat
    PROVE CopyOverlap(g, w, h, w2, h2) \in GridOf(w2, h2)
<1>1. \A i \in 0 .. h - 1 : \A j \in 0 .. w - 1 : g[i][j] \in Cell
  BY DEF GridOf, LineOf
<1>2. ASSUME NEW i \in 0 .. h2 - 1
      PROVE [j \in 0 .. w2 - 1 |->
                IF i < h /\ j < w THEN g[i][j] ELSE DefaultBlank] \in LineOf(w2)
  BY <1>1, DefaultBlankIsCell DEF LineOf
<1> QED BY <1>2 DEF CopyOverlap, GridOf

\* Row and column of cell k of a slice of h rows of w cells.
LEMMA RowOfCell ==
    ASSUME NEW w \in Nat, w > 0, NEW h \in Nat, NEW k \in Nat, k < w * h
    PROVE k \div w \in 0 .. h - 1 /\ k % w \in 0 .. w - 1
<1>1. k = (w * (k \div w)) + (k % w) /\ k % w \in 0 .. w - 1 /\ k \div w \in Nat
  OBVIOUS
<1>2. ASSUME k \div w >= h PROVE FALSE
  <2>1. w * (k \div w) >= w * h
    BY <1>1, <1>2
  <2> QED BY <1>1, <2>1
<1> QED BY <1>1, <1>2

\* Deleting and inserting characters: cells of the slice move in the slice.
LEMMA DeleteCellsType ==
    ASSUME NEW w \in Nat, w > 0, NEW h \in Nat, NEW g \in GridOf(w, h),
           NEW lo \in Int, NEW hi \in Int, lo < hi => 0 <= lo /\ hi <= w * h,
           NEW n \in Nat
    PROVE DeleteCells(g, w, h, lo, hi, n) \in GridOf(w, h)
<1> DEFINE cell(i, j) ==
        LET k == Idx(w, i, j)
        IN IF k < lo \/ k >= hi THEN g[i][j]
           ELSE IF k + n < hi THEN g[(k + n) \div w][(k + n) % w] ELSE DefaultBlank
<1>1. \A i \in 0 .. h - 1 : \A j \in 0 .. w - 1 : g[i][j] \in Cell
  BY DEF GridOf, LineOf
<1>2. ASSUME NEW i \in 0 .. h - 1, NEW j \in 0 .. w - 1 PROVE cell(i, j) \in Cell
  <2> DEFINE k == Idx(w, i, j)
  <2>1. k \in Nat
    BY DEF Idx
  <2>2. CASE ~(k < lo \/ k >= hi) /\ k + n < hi
    <3>1. k + n \in Nat /\ w * h \in Int
      BY <2>1
    <3>2. k + n < w * h
      BY <2>1, <2>2, <3>1
    <3>3. (k + n) \div w \in 0 .. h - 1 /\ (k + n) % w \in 0 .. w - 1
      BY <3>1, <3>2, RowOfCell
    <3> QED BY <1>1, <2>2, <3>3
  <2> QED BY <1>1, <2>2, DefaultBlankIsCell
<1> HIDE DEF cell
<1>3. [i \in 0 .. h - 1 |-> [j \in 0 .. w - 1 |-> cell(i, j)]] \in GridOf(w, h)
  BY <1>2 DEF GridOf, LineOf
<1> QED BY <1>3 DEF DeleteCells, cell

LEMMA InsertCellsType ==
    ASSUME NEW w \in Nat, w > 0, NEW h \in Nat, NEW g \in GridOf(w, h),
           NEW lo \in Int, NEW hi \in Int, lo < hi => 0 <= lo /\ hi <= w * h,
           NEW n \in Nat
    PROVE InsertCells(g, w, h, lo, hi, n) \in GridOf(w, h)
<1> DEFINE cell(i, j) ==
        LET k == Idx(w, i, j)
        IN IF k < lo \/ k >= hi THEN g[i][j]
           ELSE IF k - n >= lo THEN g[(k - n) \div w][(k - n) % w] ELSE DefaultBlank
<1>1. \A i \in 0 .. h - 1 : \A j \in 0 .. w - 1 : g[i][j] \in Cell
  BY DEF GridOf, LineOf
<1>2. ASSUME NEW i \in 0 .. h - 1, NEW j \in 0 .. w - 1 PROVE cell(i, j) \in Cell
  <2> DEFINE k == Idx(w, i, j)
  <2>1. k \in Nat
    BY DEF Idx
  <2>2. CASE ~(k < lo \/ k >= hi) /\ k - n >= lo
    <3>1. k - n \in Nat /\ w * h \in Int
      BY <2>1, <2>2
    <3>2. k - n < w * h
      BY <2>1, <2>2, <3>1
    <3>3. (k - n) \div w \in 0 .. h - 1 /\ (k - n) % w \in 0 .. w - 1
      BY <3>1, <3>2, RowOfCell
    <3> QED BY <1>1, <2>2, <3>3
  <2> QED BY <1>1, <2>2, DefaultBlankIsCell
<1> HIDE DEF cell
<1>3. [i \in 0 .. h - 1 |-> [j \in 0 .. w - 1 |-> cell(i, j)]] \in GridOf(w, h)
  BY <1>2 DEF GridOf, LineOf
<1> QED BY <1>3 DEF InsertCells, cell

LEMMA LinearCopyType ==
    ASSUME NEW w \in Nat, NEW h \in Nat, NEW g \in GridOf(w, h),
           NEW ow \in Nat, ow > 0, NEW oh \in Nat, NEW old \in GridOf(ow, oh)
    PROVE LinearCopy(g, w, h, old, ow, oh) \in GridOf(w, h)
<1>1. \A i \in 0 .. h - 1 : \A j \in 0 .. w - 1 : g[i][j] \in Cell
  BY DEF GridOf, LineOf
<1>2. ASSUME NEW i \in 0 .. h - 1, NEW j \in 0 .. w - 1
      PROVE (LET k == Idx(w, i, j)
             IN IF k < ow * oh THEN old[k \div ow][k % ow] ELSE g[i][j]) \in Cell
  <2> DEFINE k == Idx(w, i, j)
  <2>1. k \in Nat
    BY DEF Idx
  <2>2. CASE k < ow * oh
    <3>1. k \div ow \in 0 .. oh - 1 /\ k % ow \in 0 .. ow - 1
      BY <2>1, <2>2, RowOfCell
    <3> QED BY <3>1, <2>2 DEF GridOf, LineOf
  <2> QED BY <1>1, <2>2
<1>3. ASSUME NEW i \in 0 .. h - 1
      PROVE [j \in 0 .. w - 1 |->
                LET k == Idx(w, i, j)
                IN IF k < ow * oh THEN old[k \div ow][k % ow] ELSE g[i][j]]
               \in LineOf(w)
  BY <1>2 DEF LineOf
<1> QED BY <1>3 DEF LinearCopy, GridOf

\* The index of a cell determines its row and column ...
LEMMA CellOfRow ==
    ASSUME NEW w \in Nat, w > 0, NEW h \in Nat,
           NEW i \in 0 .. h - 1, NEW j \in 0 .. w - 1
    PROVE /\ Idx(w, i, j) \in Nat /\ Idx(w, i, j) < w * h
          /\ Idx(w, i, j) \div w = i /\ Idx(w, i, j) % w = j
<1> DEFINE k == (i * w) + j
<1>1. k \in Nat /\ k = Idx(w, i, j)
  BY DEF Idx
<1>2. k < w * h
  <2>1. h = (i + 1) + (h - (i + 1)) /\ h - (i + 1) \in Nat
    OBVIOUS
  <2>2. h * w = ((i + 1) * w) + ((h - (i + 1)) * w)
    BY <2>1
  <2>3. (h - (i + 1)) * w >= 0
    BY <2>1
  <2>4. (i + 1) * w = (i * w) + w
    OBVIOUS
  <2> QED BY <2>2, <2>3, <2>4
<1>3. k = (w * (k \div w)) + (k % w) /\ k % w \in 0 .. w - 1 /\ k \div w \in Nat
  BY <1>1
<1>4. k \div w = i
  <2> DEFINE q == k \div w
             m == k % w
  <2>1. (w * q) + m = (w * i) + j /\ q \in Nat /\ m \in 0 .. w - 1
    BY <1>3
  <2> HIDE DEF q, m
  <2>2. ASSUME q > i PROVE FALSE
    <3>1. q = i + 1 + (q - i - 1) /\ q - i - 1 \in Nat
      BY <2>1, <2>2
    <3>2. w * q = (w * i) + w + (w * (q - i - 1)) /\ w * (q - i - 1) >= 0
      BY <3>1
    <3> QED BY <2>1, <3>2
  <2>3. ASSUME q < i PROVE FALSE
    <3>1. i = q + 1 + (i - q - 1) /\ i - q - 1 \in Nat
      BY <2>1, <2>3
    <3>2. w * i = (w * q) + w + (w * (i - q - 1)) /\ w * (i - q - 1) >= 0
      BY <2>1, <3>1
    <3> QED BY <2>1, <3>2
  <2>4. q = i
    BY <2>1, <2>2, <2>3
  <2> QED BY <2>4 DEF q
<1>5. k % w = j
  BY <1>3, <1>4
<1> QED BY <1>1, <1>2, <1>4, <1>5

\* ... so that copying a slice over one of the same shape restores it.
LEMMA LinearCopySame ==
    ASSUME NEW w \in Nat, w > 0, NEW h \in Nat, NEW g \in GridOf(w, h),
           NEW old \in GridOf(w, h)
    PROVE LinearCopy(g, w, h, old, w, h) = old
<1>1. ASSUME NEW i \in 0 .. h - 1
      PROVE [j \in 0 .. w - 1 |->
                LET k == Idx(w, i, j)
                IN IF k < w * h THEN old[k \div w][k % w] ELSE g[i][j]] = old[i]
  <2>1. old[i] \in [0 .. w - 1 -> Cell]
    BY DEF GridOf, LineOf
  <2>2. \A j \in 0 .. w - 1 :
           (LET k == Idx(w, i, j)
            IN IF k < w * h THEN old[k \div w][k % w] ELSE g[i][j]) = old[i][j]
    BY CellOfRow
  <2> QED BY <2>1, <2>2
<1>2. old = [i \in 0 .. h - 1 |-> old[i]]
  BY DEF GridOf
<1> QED BY <1>1, <1>2 DEF LinearCopy
-----------------------------------------------------------------------------
\* The rows a scroll pushes are lines.
LEMMA TopLinesType ==
    ASSUME NEW w \in Nat, NEW h \in Nat, NEW g \in GridOf(w, h),
           NEW n \in 0 .. h
    PROVE /\ TopLines(g, n) \in Seq(LineOf(w))
          /\ Len(TopLines(g, n)) = n
<1>1. \A i \in 1 .. n : g[i - 1] \in LineOf(w)
  BY DEF GridOf
<1> QED BY <1>1 DEF TopLines
-----------------------------------------------------------------------------
(***************************************************************************)
(* The ints: a sum that fits is itself.                                    *)
(***************************************************************************)
LEMMA WrapType == ASSUME NEW n \in Int PROVE Wrap(n) \in Ints
<1> DEFINE m == 2 * (MaxInt + 1)
           a == n + MaxInt + 1
<1>1. m \in Nat /\ m > 0 /\ a \in Int
  BY IntAssumption
<1>2. a % m \in 0 .. m - 1
  <2> HIDE DEF m, a
  <2> QED BY <1>1
<1>3. Wrap(n) = (a % m) - (MaxInt + 1)
  BY DEF Wrap
<1> QED BY <1>2, <1>3, IntAssumption DEF Ints

LEMMA WrapFits == ASSUME NEW n \in Ints PROVE Wrap(n) = n
<1> DEFINE m == 2 * (MaxInt + 1)
           a == n + MaxInt + 1
<1>1. m \in Nat \ {0} /\ a \in 0 .. m - 1
  BY IntAssumption DEF Ints
<1>2. a % m = a
  <2> HIDE DEF m, a
  <2> QED BY <1>1, SmallRemainder
<1> QED BY <1>2, IntAssumption DEF Wrap, Ints

LEMMA IntsAreInt == Ints \subseteq Int /\ MaxInt \in Nat
BY IntAssumption DEF Ints
-----------------------------------------------------------------------------
(***************************************************************************)
(* Types.                                                                  *)
(***************************************************************************)
USE DEF dims, cursor, saved, region, history, modes

LEMMA DimsPositive ==
    ASSUME TypeOK PROVE cols \in Nat /\ cols > 0 /\ rows \in Nat /\ rows > 0
BY SizesAssumption DEF TypeOK

\* Positions in the grid, and those in the slice, are ints.
LEMMA SizesFit ==
    ASSUME TypeOK
    PROVE /\ Size \in Nat /\ Size + Size + 8 <= MaxInt
          /\ cols <= Size /\ rows <= Size
<1>1. cols \in Nat /\ cols > 0 /\ rows \in Nat /\ rows > 0
  BY DimsPositive
<1>2. 2 * (rows * cols) + 8 <= MaxInt
  BY SizesAssumption DEF TypeOK
<1>3. rows * cols \in Nat
  BY <1>1
<1>4. rows * cols = cols + ((rows - 1) * cols) /\ (rows - 1) * cols >= 0
  BY <1>1
<1>5. rows * cols = rows + (rows * (cols - 1)) /\ rows * (cols - 1) >= 0
  BY <1>1
<1> QED BY <1>1, <1>2, <1>3, <1>4, <1>5, IntAssumption DEF Size

LEMMA CursorType ==
    ASSUME TypeOK
    PROVE /\ curRow \in Int /\ curCol \in Int /\ cols \in Int /\ rows \in Int
          /\ CursorIdx \in Ints /\ RowStart \in Ints /\ RowEnd \in Ints
          /\ Wrap(curRow + 1) \in Ints /\ 0 .. Size \subseteq Ints
<1>1. curRow \in Int /\ curCol \in Int /\ cols \in Int /\ rows \in Int
  BY IntsAreInt, DimsPositive DEF TypeOK
<1>2. /\ Idx(cols, curRow, curCol) \in Int /\ curRow * cols \in Int
      /\ (curRow + 1) * cols \in Int /\ curRow + 1 \in Int
  BY <1>1 DEF Idx
<1>3. 0 .. Size \subseteq Ints
  BY SizesFit, IntAssumption DEF Ints
<1> QED BY <1>1, <1>2, <1>3, WrapType DEF CursorIdx, RowStart, RowEnd

LEMMA BlankCells ==
    ASSUME TypeOK PROVE DefaultBlank \in Cell /\ BlankIn(pen.color) \in Cell
BY DefaultBlankIsCell, BlankIsCell DEF TypeOK, Pen

\* Steps that only draw, only move the cursor, or fail.
LEMMA DrawType ==
    ASSUME TypeOK, NEW g \in GridOf(cols, rows), Draw(g) PROVE TypeOK'
BY DEF TypeOK, Draw

LEMMA MoveType ==
    ASSUME TypeOK, NEW r \in Ints, NEW c \in Ints, MoveTo(r, c) PROVE TypeOK'
BY DEF TypeOK, MoveTo

LEMMA FaultType == ASSUME TypeOK, Fault PROVE TypeOK'
BY DEF TypeOK, Fault

\* A grid of the present size after a scroll, an erasure or a new cell.
LEMMA ScrolledUpType ==
    ASSUME TypeOK, NEW n \in Nat, ScrollUpFits
    PROVE ScrolledUp(n) \in GridOf(cols, rows)
<1>1. BlankGrid(cols, rows, BlankIn(pen.color)) \in GridOf(cols, rows)
  BY DimsPositive, BlankCells, BlankGridType
<1>2. scrollRegBot < rows
  BY DimsPositive DEF ScrollUpFits, FullScreenScroll
<1>3. ShiftUp(cells, cols, rows, scrollRegTop, scrollRegBot, n)
         \in GridOf(cols, rows)
  BY <1>2, DimsPositive, ShiftUpType DEF TypeOK
<1> QED BY <1>1, <1>3 DEF ScrolledUp

LEMMA FillCellsType ==
    ASSUME TypeOK, NEW lo, NEW hi, NEW b \in Cell
    PROVE Fill(cells, cols, rows, lo, hi, b) \in GridOf(cols, rows)
BY DimsPositive, FillType DEF TypeOK

LEMMA PutCellType ==
    ASSUME TypeOK, NEW g \in GridOf(cols, rows), NEW ch \in Glyphs,
           NEW r \in 0 .. rows - 1, NEW c \in 0 .. cols - 1
    PROVE PutCell(g, r, c, ch) \in GridOf(cols, rows)
<1>1. [ch |-> ch, color |-> pen.color, bold |-> pen.bold] \in Cell
  BY DEF TypeOK, Pen, Cell
<1> QED BY <1>1 DEF PutCell, GridOf, LineOf

LEMMA PutAtType ==
    ASSUME TypeOK, NEW k \in 0 .. Size - 1, NEW ch \in Glyphs
    PROVE PutAt(k, ch) \in GridOf(cols, rows)
<1>1. cols \in Nat /\ cols > 0 /\ rows \in Nat /\ k \in Nat
  BY DimsPositive
<1>2. rows * cols = cols * rows /\ rows * cols \in Int
  BY <1>1
<1>3. k < cols * rows
  BY <1>2 DEF Size
<1>4. k \div cols \in 0 .. rows - 1 /\ k % cols \in 0 .. cols - 1
  BY <1>1, <1>3, RowOfCell
<1>5. cells \in GridOf(cols, rows)
  BY DEF TypeOK
<1> QED BY <1>4, <1>5, PutCellType DEF PutAt

\* The scrollback holds lines, and only grows until it is full.
LEMMA LinesOfGrid ==
    ASSUME TypeOK, NEW n \in 0 .. rows
    PROVE TopLines(cells, n) \in Seq(Lines) /\ Len(TopLines(cells, n)) = n
<1>1. TopLines(cells, n) \in Seq(LineOf(cols)) /\ Len(TopLines(cells, n)) = n
  BY DimsPositive, TopLinesType DEF TypeOK
<1>2. LineOf(cols) \subseteq Lines
  BY DEF TypeOK, Lines
<1> QED BY <1>1, <1>2

LEMMA SavedByType ==
    ASSUME TypeOK, NEW n \in Nat
    PROVE /\ SavedBy(n) \in Seq(Lines)
          /\ Len(sb) <= MaxScrollback =>
                Len(sb) <= Len(SavedBy(n)) /\ Len(SavedBy(n)) <= MaxScrollback
<1> DEFINE top == TopLines(cells, AtMost(n, rows))
<1>1. AtMost(n, rows) \in 0 .. rows
  BY DimsPositive DEF AtMost
<1>2. top \in Seq(Lines) /\ Len(top) \in Nat
  BY <1>1, LinesOfGrid, LenProperties
<1>3. sb \in Seq(Lines) /\ Len(sb) \in Nat /\ MaxScrollback \in Nat
  BY LenProperties, ScrollbackAssumption DEF TypeOK
<1>4. sb \o top \in Seq(Lines) /\ Len(sb \o top) = Len(sb) + Len(top)
  BY <1>2, <1>3, ConcatProperties
<1>5. /\ Keep(MaxScrollback, sb \o top) \in Seq(Lines)
      /\ Len(Keep(MaxScrollback, sb \o top)) =
            IF Len(sb \o top) > MaxScrollback THEN MaxScrollback
                                              ELSE Len(sb \o top)
  BY <1>3, <1>4, KeepType
<1> QED BY <1>2, <1>3, <1>4, <1>5 DEF SavedBy
-----------------------------------------------------------------------------
(***************************************************************************)
(* Type correctness, group of commands by group of commands.               *)
(***************************************************************************)
LEMMA EdgesType ==
    ASSUME TypeOK
    PROVE /\ 0 .. rows - 1 \subseteq Ints /\ 0 .. cols \subseteq Ints
          /\ 0 .. cols - 1 \subseteq Ints
          /\ rows - 1 \in Ints /\ cols - 1 \in Ints /\ 0 \in Ints
BY SizesFit, DimsPositive, IntAssumption DEF Ints

LEMMA TextOutputType == ASSUME TypeOK, TextOutput PROVE TypeOK'
<1>1. ASSUME NEW ch \in Glyphs, PutInLine(ch) PROVE TypeOK'
  <2>1. CASE CursorIdx \in 0 .. Size - 1
    <3>1. PutAt(CursorIdx, ch) \in GridOf(cols, rows)
      BY <2>1, PutAtType
    <3>2. curCol + 1 \in Ints
      BY <1>1, CursorType, SizesFit, IntAssumption DEF TypeOK, PutInLine, Ints
    <3> QED BY <1>1, <2>1, <3>1, <3>2 DEF TypeOK, PutInLine
  <2>2. CASE ~(CursorIdx \in 0 .. Size - 1)
    BY <1>1, <2>2, FaultType DEF PutInLine
  <2> QED BY <2>1, <2>2
<1>2. ASSUME NEW ch \in Glyphs, PutWrapped(ch) PROVE TypeOK'
  <2>1. CASE RowEnd \in 0 .. Size - 1
    <3>1. PutAt(RowEnd, ch) \in GridOf(cols, rows)
      BY <2>1, PutAtType
    <3>2. Wrap(curRow + 1) \in Ints /\ 1 \in Ints
      BY CursorType, IntAssumption DEF Ints
    <3> QED BY <1>2, <2>1, <3>1, <3>2 DEF TypeOK, PutWrapped
  <2>2. CASE ~(RowEnd \in 0 .. Size - 1)
    BY <1>2, <2>2, FaultType DEF PutWrapped
  <2> QED BY <2>1, <2>2
<1>3. ASSUME NEW ch \in Glyphs, PutScrolled(ch) PROVE TypeOK'
  <2>1. CASE ScrollUpFits
    <3>1. scrollRegBot \in 0 .. rows - 1
      BY <2>1, DimsPositive DEF TypeOK, ScrollUpFits, FullScreenScroll
    <3>2. PutCell(ScrolledUp(1), scrollRegBot, 0, ch) \in GridOf(cols, rows)
      BY <2>1, <3>1, PutCellType, ScrolledUpType, DimsPositive
    <3>3. SavedBy(1) \in Seq(Lines)
      BY SavedByType
    <3>4. scrollRegBot \in Ints /\ 1 \in Ints
      BY <3>1, SizesFit, DimsPositive, IntAssumption DEF Ints
    <3> QED BY <1>3, <2>1, <3>2, <3>3, <3>4 DEF TypeOK, PutScrolled
  <2>2. CASE ~ScrollUpFits
    BY <1>3, <2>2, FaultType DEF PutScrolled
  <2> QED BY <2>1, <2>2
<1>4. ASSUME LineFeedScroll PROVE TypeOK'
  <2>1. CASE ScrollUpFits
    <3>1. ScrolledUp(1) \in GridOf(cols, rows) /\ SavedBy(1) \in Seq(Lines)
      BY <2>1, ScrolledUpType, SavedByType
    <3>2. scrollRegBot \in 0 .. rows - 1
      BY <2>1, DimsPositive DEF TypeOK, ScrollUpFits, FullScreenScroll
    <3>3. scrollRegBot \in Ints
      BY <3>2, SizesFit, DimsPositive, IntAssumption DEF Ints
    <3> QED BY <1>4, <2>1, <3>1, <3>3 DEF TypeOK, LineFeedScroll
  <2>2. CASE ~ScrollUpFits
    BY <1>4, <2>2, FaultType DEF LineFeedScroll
  <2> QED BY <2>1, <2>2
<1>5. ASSUME LineFeedInside \/ CarriageReturn \/ Backspace PROVE TypeOK'
  <2>1. /\ Wrap(curRow + 1) \in Ints /\ 0 \in Ints
        /\ curCol > 0 => curCol - 1 \in Ints
    BY CursorType, IntAssumption DEF TypeOK, Ints
  <2> QED BY <1>5, <2>1, MoveType
          DEF LineFeedInside, CarriageReturn, Backspace, TypeOK
<1>6. ASSUME Tab PROVE TypeOK'
  <2>1. Quot(curCol, 8) \in Int
    BY CursorType DEF Quot
  <2>2. (Quot(curCol, 8) + 1) * 8 \in Int
    BY <2>1
  <2>3. Wrap((Quot(curCol, 8) + 1) * 8) \in Ints
    BY <2>2, WrapType
  <2>4. AtMost(Wrap((Quot(curCol, 8) + 1) * 8), cols - 1) \in Ints
    BY <2>3, EdgesType DEF AtMost
  <2> QED BY <1>6, <2>4, MoveType DEF Tab, TypeOK
<1> QED BY <1>1, <1>2, <1>3, <1>4, <1>5, <1>6 DEF TextOutput, PutChar, LineFeed

LEMMA CursorMotionType == ASSUME TypeOK, CursorMotion PROVE TypeOK'
<1>1. cols - 1 \in Nat /\ rows - 1 \in Nat
  BY DimsPositive
<1>2. ASSUME NEW n \in Counts
      PROVE /\ AtLeast(Wrap(curRow - n), 0) \in Ints
            /\ AtMost(Wrap(curRow + n), rows - 1) \in Ints
            /\ AtMost(Wrap(curCol + n), cols - 1) \in Ints
            /\ AtLeast(Wrap(curCol - n), 0) \in Ints
            /\ Clamp(Wrap(curRow + n), rows - 1) \in Ints
            /\ Clamp(Wrap(curRow - n), rows - 1) \in Ints
  <2>1. n \in Int /\ curRow \in Int /\ curCol \in Int
    BY CountsAssumption, IntsAreInt, CursorType
  <2>2. /\ curRow - n \in Int /\ curRow + n \in Int
        /\ curCol + n \in Int /\ curCol - n \in Int
    BY <2>1
  <2>3. /\ Wrap(curRow - n) \in Ints /\ Wrap(curRow + n) \in Ints
        /\ Wrap(curCol + n) \in Ints /\ Wrap(curCol - n) \in Ints
    BY <2>2, WrapType
  <2> QED BY <2>3, EdgesType DEF AtLeast, AtMost, Clamp
<1>3. ASSUME NEW n \in Counts,
             \/ CursorUp(n) \/ CursorDown(n) \/ CursorRight(n)
             \/ CursorLeft(n) \/ NextLine(n) \/ PreviousLine(n)
      PROVE TypeOK'
  BY <1>2, <1>3, EdgesType, MoveType DEF TypeOK, CursorUp, CursorDown, CursorRight,
                              CursorLeft, NextLine, PreviousLine
<1>4. ASSUME NEW r \in 0 .. rows - 1, NEW c \in 0 .. cols - 1,
             CursorPosition(r, c) \/ ColumnAbsolute(c) \/ RowAbsolute(r)
      PROVE TypeOK'
  <2>1. r \in Ints /\ c \in Ints
    BY <1>1, EdgesType
  <2> QED BY <1>4, <2>1, MoveType
          DEF TypeOK, CursorPosition, ColumnAbsolute, RowAbsolute
<1>5. 0 \in 0 .. rows - 1 /\ 0 \in 0 .. cols - 1
  BY <1>1
<1>6. ASSUME SaveCursor PROVE TypeOK'
  BY <1>6 DEF TypeOK, SaveCursor
<1>7. ASSUME RestoreCursor PROVE TypeOK'
  BY <1>7, MoveType DEF TypeOK, RestoreCursor
<1> QED BY <1>3, <1>4, <1>5, <1>6, <1>7 DEF CursorMotion

LEMMA ErasingType == ASSUME TypeOK, Erasing PROVE TypeOK'
<1>1. ASSUME NEW lo, NEW hi, NEW b \in Cell, Erase(lo, hi, b) PROVE TypeOK'
  BY <1>1, FillCellsType, DrawType DEF Erase
<1>2. ASSUME NEW lo, NEW hi, NEW b \in Cell, EraseIfIn(lo, hi, b) PROVE TypeOK'
  BY <1>1, <1>2, FaultType DEF EraseIfIn
<1>3. ASSUME EraseAll \/ FullReset PROVE TypeOK'
  <2>1. /\ BlankGrid(cols, rows, BlankIn(pen.color)) \in GridOf(cols, rows)
        /\ BlankGrid(cols, rows, DefaultBlank) \in GridOf(cols, rows)
        /\ DefaultPen \in Pen
    BY DimsPositive, BlankCells, BlankGridType, ColorAssumption
       DEF DefaultPen, Pen
  <2> QED BY <1>3, <2>1, EdgesType DEF TypeOK, EraseAll, FullReset
<1> QED BY <1>1, <1>2, <1>3, BlankCells
        DEF Erasing, EraseInLine, EraseToEnd, EraseToBeginning, EraseLineToEnd,
            EraseLineToStart, EraseWholeLine, EraseChars

LEMMA PositiveCountsAreNat == PositiveCounts \subseteq Nat \ {0}
<1> SUFFICES ASSUME NEW n \in PositiveCounts PROVE n \in Nat \ {0}
  OBVIOUS
<1>1. n \in Ints /\ n > 0
  BY CountsAssumption DEF PositiveCounts
<1>2. n \in Int
  BY <1>1, IntsAreInt
<1> QED BY <1>1, <1>2

LEMMA LineEditingType == ASSUME TypeOK, LineEditing PROVE TypeOK'
<1>1. ASSUME NEW t \in 0 .. rows - 1, NEW b \in 0 .. rows - 1,
             SetScrollRegion(t, b)
      PROVE TypeOK'
  BY <1>1, DimsPositive, EdgesType DEF TypeOK, SetScrollRegion
<1>2. ASSUME NEW n \in Nat, ScrollUp(n) PROVE TypeOK'
  <2>1. CASE ScrollUpFits
    <3>1. ScrolledUp(n) \in GridOf(cols, rows) /\ SavedBy(n) \in Seq(Lines)
      BY <2>1, ScrolledUpType, SavedByType
    <3> QED BY <1>2, <2>1, <3>1 DEF TypeOK, ScrollUp
  <2>2. CASE ~ScrollUpFits
    BY <1>2, <2>2, FaultType DEF ScrollUp
  <2> QED BY <2>1, <2>2
<1>3. ASSUME NEW n \in Nat, ScrollDown(n) PROVE TypeOK'
  <2>1. ScrolledDown(n) \in GridOf(cols, rows)
    BY DimsPositive, ShiftDownType DEF TypeOK, ScrolledDown
  <2> QED BY <1>3, <2>1, DrawType, FaultType DEF ScrollDown
<1>4. ASSUME ReverseIndex PROVE TypeOK'
  <2>1. CASE ReverseIndexScroll
    BY <1>3, <2>1 DEF ReverseIndexScroll
  <2>2. CASE ReverseIndexMove
    <3>1. curRow > 0 => curRow - 1 \in Ints
      BY IntAssumption DEF TypeOK, Ints
    <3> QED BY <2>2, <3>1, MoveType DEF TypeOK, ReverseIndexMove
  <2> QED BY <1>4, <2>1, <2>2 DEF ReverseIndex
<1>5. ASSUME NEW n \in Nat, InsertLines(n) \/ DeleteLines(n) PROVE TypeOK'
  <2>1. CASE RowsFit
    <3>1. curRow \in Nat
      BY <2>1, CursorType DEF RowsFit
    <3>2. /\ ShiftDown(cells, cols, rows, curRow, scrollRegBot, n)
                \in GridOf(cols, rows)
          /\ ShiftUp(cells, cols, rows, curRow, scrollRegBot, n)
                \in GridOf(cols, rows)
      BY <2>1, <3>1, DimsPositive, ShiftDownType, ShiftUpType DEF TypeOK, RowsFit
    <3> QED BY <1>5, <2>1, <3>2, DrawType DEF InsertLines, DeleteLines
  <2>2. CASE ~RowsFit
    BY <1>5, <2>2, FaultType DEF InsertLines, DeleteLines
  <2> QED BY <2>1, <2>2
<1> QED BY <1>1, <1>2, <1>3, <1>4, <1>5, PositiveCountsAreNat DEF LineEditing

LEMMA CharEditingType == ASSUME TypeOK, CharEditing PROVE TypeOK'
<1>1. ASSUME NEW n \in Nat, DeleteChars(n) \/ InsertChars(n) PROVE TypeOK'
  <2>1. CASE EditFits(n)
    <3>0. /\ CursorIdx \in Int /\ curCol \in Int
          /\ cols \in Nat /\ cols > 0 /\ rows \in Nat
      BY CursorType, IntsAreInt, DimsPositive
    <3>1. /\ CursorIdx \in Int /\ RestEnd \in Int
          /\ cols \in Nat /\ cols > 0 /\ rows \in Nat
      BY <3>0 DEF RestEnd
    <3>2. cols * rows = Size
      BY <3>1 DEF Size
    <3>3. CursorIdx < RestEnd => 0 <= CursorIdx /\ RestEnd <= cols * rows
      BY <2>1, <3>2 DEF EditFits, InSlice
    <3>4. cells \in GridOf(cols, rows)
      BY DEF TypeOK
    <3>5. /\ DeleteCells(cells, cols, rows, CursorIdx, RestEnd, n)
                \in GridOf(cols, rows)
          /\ InsertCells(cells, cols, rows, CursorIdx, RestEnd, n)
                \in GridOf(cols, rows)
      BY <3>1, <3>3, <3>4, DeleteCellsType, InsertCellsType
    <3> QED BY <1>1, <2>1, <3>5, DrawType DEF DeleteChars, InsertChars
  <2>2. CASE ~EditFits(n)
    BY <1>1, <2>2, FaultType DEF DeleteChars, InsertChars
  <2> QED BY <2>1, <2>2
<1> QED BY <1>1, PositiveCountsAreNat DEF CharEditing

LEMMA FrameType == ASSUME TypeOK PROVE Frame \in AltFrame(dims)
BY DEF TypeOK, Frame, AltFrame

LEMMA ModeChangeType == ASSUME TypeOK, ModeChange PROVE TypeOK'
<1>1. ASSUME NEW p \in Pen, SetPen(p) PROVE TypeOK'
  BY <1>1 DEF TypeOK, SetPen
<1>2. ASSUME NEW b \in BOOLEAN, ShowCursor(b) PROVE TypeOK'
  BY <1>2 DEF TypeOK, ShowCursor
<1>3. ASSUME EnterAlt PROVE TypeOK'
  <2>1. /\ BlankGrid(cols, rows, DefaultBlank) \in GridOf(cols, rows)
        /\ DefaultPen \in Pen /\ rows - 1 \in Nat
    BY DimsPositive, BlankCells, BlankGridType, ColorAssumption
       DEF DefaultPen, Pen
  <2>2. \E d \in Sizes : alt' \in AltFrame(d)
    BY <1>3, FrameType DEF EnterAlt, TypeOK
  <2> QED BY <1>3, <2>1, <2>2, EdgesType DEF TypeOK, EnterAlt
<1>4. ASSUME LeaveAlt PROVE TypeOK'
  <2>1. PICK d \in Sizes : alt \in AltFrame(d)
    BY <1>4 DEF TypeOK, LeaveAlt
  <2>2. /\ alt.cols = d[1] /\ alt.rows = d[2]
        /\ alt.cells \in GridOf(d[1], d[2])
        /\ alt.curRow \in Ints /\ alt.curCol \in Ints
        /\ alt.savedRow \in Ints /\ alt.savedCol \in Ints
        /\ alt.pen \in Pen /\ alt.top \in Nat /\ alt.bot \in Nat
    BY <2>1 DEF AltFrame
  <2>3. d[1] \in Nat /\ d[1] > 0 /\ d[2] \in Nat
    BY SizesAssumption
  <2>4. LinearCopy(cells, cols, rows, alt.cells, alt.cols, alt.rows)
           \in GridOf(cols, rows)
    BY <2>2, <2>3, DimsPositive, LinearCopyType DEF TypeOK
  <2> QED BY <1>4, <2>2, <2>4 DEF TypeOK, LeaveAlt
<1> QED BY <1>1, <1>2, <1>3, <1>4 DEF ModeChange

LEMMA WindowType == ASSUME TypeOK, Resizing \/ Scrolling PROVE TypeOK'
<1>1. ASSUME NEW d \in Sizes, Resize(d[1], d[2]) PROVE TypeOK'
  <2>1. /\ d[1] \in Nat /\ d[1] > 0 /\ d[2] \in Nat /\ d[2] > 0
        /\ d = <<d[1], d[2]>>
    BY SizesAssumption
  <2>2. CopyOverlap(cells, cols, rows, d[1], d[2]) \in GridOf(d[1], d[2])
    BY <2>1, DimsPositive, CopyOverlapType DEF TypeOK
  <2>3. AtMost(curCol, d[1] - 1) \in Ints /\ AtMost(curRow, d[2] - 1) \in Ints
    BY <2>1, IntAssumption DEF TypeOK, AtMost, Ints
  <2> QED BY <1>1, <2>1, <2>2, <2>3 DEF TypeOK, Resize
<1>2. ASSUME NEW t \in Nat, ScrollTo(t) PROVE TypeOK'
  BY <1>2 DEF TypeOK, ScrollTo
<1>3. ASSUME NEW n \in Int PROVE AtMost(AtLeast(scrollTop + n, 0), Len(sb)) \in Nat
  BY LenProperties DEF TypeOK, AtMost, AtLeast
<1>4. -MaxScrollback .. MaxScrollback \subseteq Int
  OBVIOUS
<1> QED BY <1>1, <1>2, <1>3, <1>4
        DEF Resizing, Scrolling, ScrollBy, ScrollReset

LEMMA InitType == Init => TypeOK
<1> SUFFICES ASSUME Init PROVE TypeOK
  OBVIOUS
<1>1. dims \in Sizes
  BY SizesAssumption DEF Init, dims
<1>2. cols \in Nat /\ rows \in Nat /\ rows > 0
  BY <1>1, SizesAssumption DEF dims
<1>3. BlankGrid(cols, rows, DefaultBlank) \in GridOf(cols, rows)
  BY <1>2, DefaultBlankIsCell, BlankGridType
<1>4. DefaultPen \in Pen
  BY ColorAssumption DEF DefaultPen, Pen
<1>5. <<>> \in Seq(Lines)
  BY EmptySeq
<1>6. cells \in GridOf(cols, rows) /\ dims \in Sizes
  BY <1>1, <1>3 DEF Init
<1>7. /\ cursorHidden \in BOOLEAN /\ panicked \in BOOLEAN
      /\ (alt # NoAlt => \E d \in Sizes : alt \in AltFrame(d))
  BY Zenon DEF Init
<1>8. /\ curRow \in Ints /\ curCol \in Ints
      /\ savedRow \in Ints /\ savedCol \in Ints
      /\ scrollRegTop \in Nat /\ scrollRegBot \in Nat /\ scrollTop \in Nat
  BY <1>2, IntAssumption DEF Init, Ints
<1>9. pen \in Pen /\ sb \in Seq(Lines)
  BY <1>4, <1>5 DEF Init
<1> QED BY <1>6, <1>7, <1>8, <1>9, Zenon DEF TypeOK

LEMMA NextType == TypeOK /\ [Next]_vars => TypeOK'
<1> SUFFICES ASSUME TypeOK, [Next]_vars PROVE TypeOK'
  OBVIOUS
<1>1. CASE UNCHANGED vars
  BY <1>1 DEF TypeOK, vars
<1>2. CASE Next
  BY <1>2, TextOutputType, CursorMotionType, ErasingType, LineEditingType,
     CharEditingType, ModeChangeType, WindowType DEF Next, Output
<1> QED BY <1>1, <1>2

\* TypeCorrect: in every behaviour, with windows of any sizes in any order and
\* with any counts, the grid always has exactly the present size: no command
\* writes a grid of another shape, wherever an overflow has put the cursor.
THEOREM TypeCorrect == Spec => []TypeOK
<1> QED BY InitType, NextType, PTL DEF Spec
-----------------------------------------------------------------------------
(***************************************************************************)
(* In bounds.  Every command but four motions keeps the cursor and all that *)
(* can be restored in the grid, and from there few index outside it.       *)
(***************************************************************************)
Leaves == OverflowingMotion /\ ~CursorInBounds'

LEMMA MoveBounds ==
    ASSUME InBounds, NEW r \in 0 .. rows - 1, NEW c \in 0 .. cols, MoveTo(r, c)
    PROVE InBounds' /\ panicked' = panicked
BY DEF MoveTo, InBounds, CursorInBounds, SavedInBounds, RegionInBounds,
       AltInBounds, ViewInBounds, InGrid

\* A motion takes nothing but the cursor out of bounds.
LEMMA MoveLeaves ==
    ASSUME InBounds, NEW r, NEW c, MoveTo(r, c), CursorInBounds' PROVE InBounds'
BY DEF MoveTo, InBounds, SavedInBounds, RegionInBounds, AltInBounds, ViewInBounds

LEMMA DrawBounds ==
    ASSUME InBounds, NEW g, Draw(g) PROVE InBounds' /\ panicked' = panicked
BY DEF Draw, InBounds, CursorInBounds, SavedInBounds, RegionInBounds,
       AltInBounds, ViewInBounds

LEMMA FaultBounds == ASSUME InBounds, Fault PROVE InBounds'
BY DEF Fault, InBounds, CursorInBounds, SavedInBounds, RegionInBounds,
       AltInBounds, ViewInBounds

LEMMA RegionFits == ASSUME InBounds PROVE scrollRegBot < rows /\ ScrollUpFits
BY DEF InBounds, RegionInBounds, ScrollUpFits

\* The cells of the cursor's row, and the cell the cursor waits at, in the slice.
LEMMA RowInSlice ==
    ASSUME NEW w \in Nat, w > 0, NEW h \in Nat, NEW r \in Nat, r < h,
           NEW c \in Nat, c <= w
    PROVE /\ (r + 1) * w <= h * w
          /\ Idx(w, r, c) + 1 > h * w => r = h - 1 /\ c = w
<1>1. (r + 1) * w <= h * w
  <2>1. h = (r + 1) + (h - (r + 1)) /\ h - (r + 1) \in Nat
    OBVIOUS
  <2>2. h * w = (r + 1) * w + (h - (r + 1)) * w
    BY <2>1
  <2>3. (h - (r + 1)) * w >= 0
    BY <2>1
  <2> QED BY <2>2, <2>3
<1>2. ASSUME Idx(w, r, c) + 1 > h * w PROVE r = h - 1 /\ c = w
  <2>1. r * w + c + 1 > h * w
    BY <1>2 DEF Idx
  <2>2. (r + 1) * w = r * w + w
    OBVIOUS
  <2>3. c = w
    BY <1>1, <2>1, <2>2
  <2>4. ASSUME r # h - 1 PROVE FALSE
    <3>1. (r + 2) * w <= h * w
      <4>1. h = (r + 2) + (h - (r + 2)) /\ h - (r + 2) \in Nat
        BY <2>4
      <4>2. h * w = (r + 2) * w + (h - (r + 2)) * w
        BY <4>1
      <4>3. (h - (r + 2)) * w >= 0
        BY <4>1
      <4> QED BY <4>2, <4>3
    <3>2. (r + 2) * w = r * w + w + w
      OBVIOUS
    <3> QED BY <2>1, <2>3, <3>1, <3>2
  <2> QED BY <2>3, <2>4
<1> QED BY <1>1, <1>2

\* With the cursor in the grid no position wraps.
LEMMA Positions ==
    ASSUME TypeOK, CursorInBounds
    PROVE /\ CursorIdx = Idx(cols, curRow, curCol) /\ CursorIdx \in Nat
          /\ RowStart = curRow * cols /\ RowStart \in Nat
          /\ RowEnd = (curRow + 1) * cols /\ RowEnd \in Nat
          /\ RowEnd = RowStart + cols /\ RestEnd = RowEnd
          /\ CursorIdx = RowStart + curCol
          /\ RowEnd <= Size
          /\ CursorIdx + 1 > Size => curRow = rows - 1 /\ curCol = cols
          /\ Wrap(curRow + 1) = curRow + 1
<1>1. /\ curRow \in Nat /\ curRow < rows /\ curCol \in Nat /\ curCol <= cols
      /\ cols \in Nat /\ cols > 0 /\ rows \in Nat
  BY DimsPositive DEF CursorInBounds, InGrid
<1> DEFINE start == curRow * cols
<1>2. start \in Nat /\ (curRow + 1) * cols = start + cols
  BY <1>1
<1>3. /\ Idx(cols, curRow, curCol) = start + curCol
      /\ start + cols <= Size
      /\ start + curCol + 1 > Size => curRow = rows - 1 /\ curCol = cols
  BY <1>1, <1>2, RowInSlice DEF Idx, Size
<1> HIDE DEF start
<1>4. start \in Ints /\ start + curCol \in Ints /\ start + cols \in Ints
  BY <1>1, <1>2, <1>3, SizesFit, IntAssumption DEF Ints
<1>5. curRow + 1 \in Ints
  BY <1>1, SizesFit, IntAssumption DEF Ints
<1>6. /\ CursorIdx = start + curCol /\ RowStart = start /\ RowEnd = start + cols
      /\ Wrap(curRow + 1) = curRow + 1
  <2>1. /\ Wrap(start + curCol) = start + curCol /\ Wrap(start) = start
        /\ Wrap(start + cols) = start + cols /\ Wrap(curRow + 1) = curRow + 1
    BY <1>4, <1>5, WrapFits
  <2> QED BY <1>2, <1>3, <2>1 DEF CursorIdx, RowStart, RowEnd, start
<1>7. RestEnd = start + cols
  BY <1>1, <1>2, <1>6 DEF RestEnd
<1>8. (curRow + 1) * cols = start + cols /\ curRow * cols = start
  BY <1>2 DEF start
<1> QED BY <1>1, <1>2, <1>3, <1>6, <1>7, <1>8

\* The cell the cursor is on, and the first of the next row.
LEMMA CursorCell ==
    ASSUME TypeOK, CursorInBounds, curCol < cols
    PROVE /\ CursorIdx \in 0 .. Size - 1
          /\ CursorIdx \div cols = curRow /\ CursorIdx % cols = curCol
<1>1. /\ cols \in Nat /\ cols > 0 /\ rows \in Nat
      /\ curRow \in 0 .. rows - 1 /\ curCol \in 0 .. cols - 1
  BY DimsPositive DEF CursorInBounds, InGrid
<1>2. cols * rows = Size /\ Size \in Nat
  BY <1>1 DEF Size
<1> QED BY <1>1, <1>2, CellOfRow, Positions

LEMMA NextRowCell ==
    ASSUME TypeOK, CursorInBounds, curRow + 1 < rows
    PROVE /\ RowEnd \in 0 .. Size - 1
          /\ RowEnd \div cols = curRow + 1 /\ RowEnd % cols = 0
<1>1. /\ cols \in Nat /\ cols > 0 /\ rows \in Nat
      /\ curRow + 1 \in 0 .. rows - 1 /\ 0 \in 0 .. cols - 1
  BY DimsPositive DEF CursorInBounds, InGrid
<1>2. cols * rows = Size /\ Size \in Nat
  BY <1>1 DEF Size
<1>3. /\ Idx(cols, curRow + 1, 0) \in 0 .. Size - 1
      /\ Idx(cols, curRow + 1, 0) \div cols = curRow + 1
      /\ Idx(cols, curRow + 1, 0) % cols = 0
  <2>1. ASSUME NEW i \in 0 .. rows - 1, NEW j \in 0 .. cols - 1
        PROVE /\ Idx(cols, i, j) \in Nat /\ Idx(cols, i, j) < cols * rows
              /\ Idx(cols, i, j) \div cols = i /\ Idx(cols, i, j) % cols = j
    BY <1>1, CellOfRow
  <2>2. ASSUME NEW i \in 0 .. rows - 1, NEW j \in 0 .. cols - 1
        PROVE /\ Idx(cols, i, j) \in 0 .. Size - 1
              /\ Idx(cols, i, j) \div cols = i /\ Idx(cols, i, j) % cols = j
    BY <1>2, <2>1
  <2> QED BY <1>1, <2>2
<1>4. Idx(cols, curRow + 1, 0) = (curRow + 1) * cols
  BY <1>1 DEF Idx
<1>5. RowEnd = (curRow + 1) * cols
  BY Positions
<1> QED BY <1>3, <1>4, <1>5

\* A scroll that saves lines and leaves the cursor in the grid.
LEMMA ScrollBounds ==
    ASSUME TypeOK, InBounds, NEW n \in Nat, sb' = SavedBy(n),
           curRow' \in 0 .. rows - 1, curCol' \in 0 .. cols,
           UNCHANGED <<dims, saved, region, scrollTop, modes>>
    PROVE InBounds'
<1>1. /\ Len(sb) <= Len(SavedBy(n)) /\ Len(SavedBy(n)) <= MaxScrollback
      /\ Len(sb) \in Nat /\ Len(SavedBy(n)) \in Nat
  BY SavedByType, LenProperties DEF TypeOK, InBounds, ViewInBounds
<1>2. scrollTop' <= Len(sb') /\ Len(sb') <= MaxScrollback
  BY <1>1, ScrollbackAssumption DEF InBounds, ViewInBounds, TypeOK
<1> QED BY <1>2 DEF InBounds, CursorInBounds, SavedInBounds, RegionInBounds,
                    AltInBounds, ViewInBounds, InGrid

LEMMA TextOutputBounds ==
    ASSUME TypeOK, InBounds, TextOutput PROVE InBounds' /\ panicked' = panicked
<1>1. /\ curRow \in Nat /\ curRow < rows /\ curCol \in Nat /\ curCol <= cols
      /\ cols \in Nat /\ cols > 0 /\ rows \in Nat /\ scrollRegBot \in Nat
      /\ CursorInBounds /\ scrollRegBot < rows
  BY DimsPositive, RegionFits DEF TypeOK, InBounds, CursorInBounds, InGrid
<1>2. MustScroll <=> curRow + 1 > scrollRegBot
  BY <1>1, Positions DEF MustScroll
<1>3. ASSUME NEW ch \in Glyphs, PutInLine(ch)
      PROVE InBounds' /\ panicked' = panicked
  <2>1. CursorIdx \in 0 .. Size - 1
    BY <1>1, <1>3, CursorCell DEF PutInLine
  <2>2. /\ curCol' = curCol + 1 /\ curCol < cols
        /\ UNCHANGED <<dims, curRow, saved, pen, region, history, modes, panicked>>
    BY <1>3, <2>1 DEF PutInLine
  <2>3. curCol' \in 0 .. cols
    BY <1>1, <2>2
  <2> QED BY <2>2, <2>3
          DEF InBounds, CursorInBounds, SavedInBounds, RegionInBounds,
              AltInBounds, ViewInBounds, InGrid
<1>4. ASSUME NEW ch \in Glyphs, PutWrapped(ch)
      PROVE InBounds' /\ panicked' = panicked
  <2>1. curRow + 1 < rows
    BY <1>1, <1>2, <1>4 DEF PutWrapped
  <2>2. RowEnd \in 0 .. Size - 1 /\ Wrap(curRow + 1) = curRow + 1
    BY <1>1, <2>1, NextRowCell, Positions
  <2>3. /\ curRow' = curRow + 1 /\ curCol' = 1
        /\ UNCHANGED <<dims, saved, pen, region, history, modes, panicked>>
    BY <1>4, <2>2 DEF PutWrapped
  <2>4. curRow' \in 0 .. rows - 1 /\ curCol' \in 0 .. cols
    BY <1>1, <2>1, <2>3
  <2> QED BY <2>3, <2>4
          DEF InBounds, CursorInBounds, SavedInBounds, RegionInBounds,
              AltInBounds, ViewInBounds, InGrid
<1>5. scrollRegBot \in 0 .. rows - 1 /\ 1 \in 0 .. cols /\ curCol \in 0 .. cols
  BY <1>1
<1>6. ASSUME NEW ch \in Glyphs, PutScrolled(ch)
      PROVE InBounds' /\ panicked' = panicked
  BY <1>5, <1>6, RegionFits, ScrollBounds DEF PutScrolled
<1>7. ASSUME LineFeedScroll PROVE InBounds' /\ panicked' = panicked
  BY <1>5, <1>7, RegionFits, ScrollBounds DEF LineFeedScroll
<1>8. ASSUME LineFeedInside PROVE InBounds' /\ panicked' = panicked
  <2>1. Wrap(curRow + 1) \in 0 .. rows - 1
    BY <1>1, <1>2, <1>8, Positions DEF LineFeedInside
  <2> QED BY <1>5, <1>8, <2>1, MoveBounds DEF LineFeedInside
<1>9. ASSUME CarriageReturn \/ Backspace PROVE InBounds' /\ panicked' = panicked
  <2>1. /\ curRow \in 0 .. rows - 1 /\ 0 \in 0 .. cols
        /\ curCol > 0 => curCol - 1 \in 0 .. cols
    BY <1>1
  <2> QED BY <1>9, <2>1, MoveBounds DEF CarriageReturn, Backspace
<1>10. ASSUME Tab PROVE InBounds' /\ panicked' = panicked
  <2>1. curRow \in 0 .. rows - 1
    BY <1>1
  <2>2. Quot(curCol, 8) = curCol \div 8
    BY <1>1 DEF Quot
  <2>3. (curCol \div 8 + 1) * 8 \in 0 .. cols + 8
    BY <1>1
  <2>4. Wrap((curCol \div 8 + 1) * 8) = (curCol \div 8 + 1) * 8
    <3>1. (curCol \div 8 + 1) * 8 \in Ints
      BY <1>1, <2>3, SizesFit, IntAssumption DEF Ints
    <3> QED BY <3>1, WrapFits
  <2>5. AtMost(Wrap((Quot(curCol, 8) + 1) * 8), cols - 1) \in 0 .. cols
    BY <1>1, <2>2, <2>3, <2>4 DEF AtMost
  <2> QED BY <1>10, <2>1, <2>5, MoveBounds DEF Tab
<1> QED BY <1>3, <1>4, <1>6, <1>7, <1>8, <1>9, <1>10
        DEF TextOutput, PutChar, LineFeed

\* A motion by a number that does not overflow stops at the edge it checks.
LEMMA SteadyMotion ==
    ASSUME TypeOK, CursorInBounds, NEW n \in Counts
    PROVE /\ n > 0 => /\ AtLeast(Wrap(curRow - n), 0) \in 0 .. rows - 1
                      /\ AtLeast(Wrap(curCol - n), 0) \in 0 .. cols
          /\ n > 0 /\ curRow + n <= MaxInt
                => AtMost(Wrap(curRow + n), rows - 1) \in 0 .. rows - 1
          /\ n > 0 /\ curCol + n <= MaxInt
                => AtMost(Wrap(curCol + n), cols - 1) \in 0 .. cols
<1>1. /\ curRow \in Nat /\ curRow < rows /\ curCol \in Nat /\ curCol <= cols
      /\ cols \in Nat /\ cols > 0 /\ rows \in Nat
  BY DimsPositive DEF CursorInBounds, InGrid
<1>2. MaxInt \in Nat /\ n \in Int /\ n <= MaxInt
  BY CountsAssumption, IntAssumption DEF Ints
<1>3. ASSUME n > 0 PROVE /\ Wrap(curRow - n) = curRow - n
                         /\ Wrap(curCol - n) = curCol - n
  <2>1. curRow <= MaxInt /\ curCol <= MaxInt
    BY <1>1, <1>2, SizesFit
  <2>2. curRow - n \in Ints /\ curCol - n \in Ints
    BY <1>1, <1>2, <1>3, <2>1 DEF Ints
  <2> QED BY <2>2, WrapFits
<1>4. ASSUME n > 0, curRow + n <= MaxInt PROVE Wrap(curRow + n) = curRow + n
  <2>1. curRow + n \in Ints
    BY <1>1, <1>2, <1>4 DEF Ints
  <2> QED BY <2>1, WrapFits
<1>5. ASSUME n > 0, curCol + n <= MaxInt PROVE Wrap(curCol + n) = curCol + n
  <2>1. curCol + n \in Ints
    BY <1>1, <1>2, <1>5 DEF Ints
  <2> QED BY <2>1, WrapFits
<1>6. ASSUME n > 0 PROVE /\ AtLeast(Wrap(curRow - n), 0) \in 0 .. rows - 1
                         /\ AtLeast(Wrap(curCol - n), 0) \in 0 .. cols
  BY <1>1, <1>2, <1>3, <1>6 DEF AtLeast
<1>7. ASSUME n > 0, curRow + n <= MaxInt
      PROVE AtMost(Wrap(curRow + n), rows - 1) \in 0 .. rows - 1
  BY <1>1, <1>2, <1>4, <1>7 DEF AtMost
<1>8. ASSUME n > 0, curCol + n <= MaxInt
      PROVE AtMost(Wrap(curCol + n), cols - 1) \in 0 .. cols
  BY <1>1, <1>2, <1>5, <1>8 DEF AtMost
<1> QED BY <1>6, <1>7, <1>8

LEMMA CursorMotionBounds ==
    ASSUME TypeOK, InBounds, CursorMotion
    PROVE (InBounds' \/ Leaves) /\ panicked' = panicked
<1>1. /\ curRow \in 0 .. rows - 1 /\ curCol \in 0 .. cols
      /\ savedRow \in 0 .. rows - 1 /\ savedCol \in 0 .. cols
      /\ 0 \in 0 .. rows - 1 /\ 0 \in 0 .. cols - 1 /\ 0 \in 0 .. cols
      /\ CursorInBounds
  BY DimsPositive DEF InBounds, CursorInBounds, SavedInBounds, InGrid
<1>2. ASSUME NEW n \in Counts,
             CursorUp(n) \/ CursorDown(n) \/ CursorRight(n) \/ CursorLeft(n)
      PROVE (InBounds' \/ Leaves) /\ panicked' = panicked
  <2>1. n \in Int /\ n # 0 /\ MaxInt \in Int /\ curRow \in Int /\ curCol \in Int
    BY CountsAssumption, IntsAreInt, CursorType
  <2>2. panicked' = panicked /\ (CursorInBounds' => InBounds')
    BY <1>2, MoveLeaves
       DEF CursorUp, CursorDown, CursorRight, CursorLeft, MoveTo
  <2>3. CASE OverflowingMotion
    BY <2>2, <2>3 DEF Leaves
  <2>4. CASE ~OverflowingMotion
    <3>1. CASE CursorUp(n)
      <4>1. n > 0
        BY <2>1, <2>4, <3>1 DEF OverflowingMotion
      <4> QED BY <1>1, <3>1, <4>1, SteadyMotion, MoveBounds DEF CursorUp
    <3>2. CASE CursorLeft(n)
      <4>1. n > 0
        BY <2>1, <2>4, <3>2 DEF OverflowingMotion
      <4> QED BY <1>1, <3>2, <4>1, SteadyMotion, MoveBounds DEF CursorLeft
    <3>3. CASE CursorDown(n)
      <4>1. n > 0 /\ curRow + n <= MaxInt
        BY <2>1, <2>4, <3>3 DEF OverflowingMotion
      <4> QED BY <1>1, <3>3, <4>1, SteadyMotion, MoveBounds DEF CursorDown
    <3>4. CASE CursorRight(n)
      <4>1. n > 0 /\ curCol + n <= MaxInt
        BY <2>1, <2>4, <3>4 DEF OverflowingMotion
      <4> QED BY <1>1, <3>4, <4>1, SteadyMotion, MoveBounds DEF CursorRight
    <3> QED BY <1>2, <3>1, <3>2, <3>3, <3>4
  <2> QED BY <2>3, <2>4
<1>3. ASSUME NEW n \in Counts, NextLine(n) \/ PreviousLine(n)
      PROVE InBounds' /\ panicked' = panicked
  <2>1. n \in Int /\ curRow \in Int /\ rows \in Nat /\ rows > 0
    BY CountsAssumption, IntsAreInt, CursorType, DimsPositive
  <2>2. Wrap(curRow + n) \in Int /\ Wrap(curRow - n) \in Int
    <3>1. curRow + n \in Int /\ curRow - n \in Int
      BY <2>1
    <3>2. Wrap(curRow + n) \in Ints /\ Wrap(curRow - n) \in Ints
      BY <3>1, WrapType
    <3> QED BY <3>2, IntsAreInt
  <2>3. /\ Clamp(Wrap(curRow + n), rows - 1) \in 0 .. rows - 1
        /\ Clamp(Wrap(curRow - n), rows - 1) \in 0 .. rows - 1
    BY <2>1, <2>2 DEF Clamp, AtLeast, AtMost
  <2> QED BY <1>1, <1>3, <2>3, MoveBounds DEF NextLine, PreviousLine
<1>4. ASSUME NEW r \in 0 .. rows - 1, NEW c \in 0 .. cols - 1,
             CursorPosition(r, c) \/ ColumnAbsolute(c) \/ RowAbsolute(r)
      PROVE InBounds' /\ panicked' = panicked
  <2>1. c \in 0 .. cols
    BY DimsPositive
  <2> QED BY <1>1, <1>4, <2>1, MoveBounds
          DEF CursorPosition, ColumnAbsolute, RowAbsolute
<1>5. ASSUME SaveCursor PROVE InBounds' /\ panicked' = panicked
  BY <1>5 DEF SaveCursor, InBounds, CursorInBounds, SavedInBounds,
              RegionInBounds, AltInBounds, ViewInBounds
<1>6. ASSUME RestoreCursor PROVE InBounds' /\ panicked' = panicked
  BY <1>1, <1>6, MoveBounds DEF RestoreCursor
<1> QED BY <1>1, <1>2, <1>3, <1>4, <1>5, <1>6 DEF CursorMotion

LEMMA ErasingBounds ==
    ASSUME TypeOK, InBounds, Erasing
    PROVE InBounds' /\ (panicked' = panicked \/ Corner)
<1>1. /\ curRow \in Nat /\ curRow < rows /\ curCol \in Nat /\ curCol <= cols
      /\ cols \in Nat /\ cols > 0 /\ rows \in Nat /\ rows > 0 /\ CursorInBounds
  BY DimsPositive DEF InBounds, CursorInBounds, InGrid
<1>2. /\ CursorIdx \in Nat /\ RowStart \in Nat /\ RowEnd \in Nat /\ Size \in Nat
      /\ RowEnd <= Size /\ RestEnd = RowEnd /\ RowEnd = RowStart + cols
      /\ CursorIdx = RowStart + curCol
      /\ CursorIdx + 1 > Size => curRow = rows - 1 /\ curCol = cols
  BY <1>1, Positions, SizesFit
<1>3. ASSUME NEW lo \in Nat, NEW hi, NEW b, hi <= Size, EraseIfIn(lo, hi, b)
      PROVE InBounds' /\ panicked' = panicked
  <2>1. InSlice(lo, hi)
    BY <1>3 DEF InSlice
  <2> QED BY <1>3, <2>1, DrawBounds DEF EraseIfIn, Erase
<1>4. ASSUME EraseLineToEnd \/ EraseWholeLine \/ EraseToEnd
      PROVE InBounds' /\ panicked' = panicked
  <2>1. Size <= Size
    BY <1>2
  <2> QED BY <1>2, <1>3, <1>4, <2>1 DEF EraseLineToEnd, EraseWholeLine, EraseToEnd
<1>5. ASSUME NEW x, NEW bound \in Nat, bound <= Size, x \in Int
      PROVE AtMost(x, bound) <= Size
  BY <1>2, <1>5 DEF AtMost
<1>6. ASSUME NEW n \in Counts, EraseChars(n)
      PROVE InBounds' /\ panicked' = panicked
  <2>1. n \in Int /\ CursorIdx + n \in Int
    BY <1>2, CountsAssumption, IntsAreInt
  <2>2. Wrap(CursorIdx + n) \in Int
    BY <2>1, WrapType, IntsAreInt
  <2>3. AtMost(Wrap(CursorIdx + n), RowEnd) <= Size
    BY <1>2, <1>5, <2>2
  <2> QED BY <1>2, <1>3, <1>6, <2>3 DEF EraseChars
<1>7. ASSUME EraseToBeginning PROVE InBounds' /\ panicked' = panicked
  <2>1. Wrap(CursorIdx + 1) \in Int
    <3>1. CursorIdx + 1 \in Int
      BY <1>2
    <3> QED BY <3>1, WrapType, IntsAreInt
  <2>2. AtMost(Wrap(CursorIdx + 1), Size) <= Size
    BY <1>2, <1>5, <2>1
  <2> QED BY <1>3, <1>7, <2>2 DEF EraseToBeginning
<1>8. ASSUME EraseLineToStart
      PROVE InBounds' /\ (panicked' = panicked \/ Corner)
  <2>1. CASE CursorIdx + 1 <= Size
    <3>1. RowStart + curCol + 1 <= Size
      BY <1>1, <1>2, <2>1
    <3> QED BY <1>2, <1>3, <1>8, <3>1 DEF EraseLineToStart
  <2>2. CASE ~(CursorIdx + 1 <= Size)
    <3>1. Corner
      BY <1>2, <1>8, <2>2 DEF Corner
    <3>2. InBounds'
      BY <1>8, FaultBounds, DrawBounds DEF EraseLineToStart, EraseIfIn, Erase
    <3> QED BY <3>1, <3>2
  <2> QED BY <2>1, <2>2
<1>9. ASSUME EraseAll \/ FullReset PROVE InBounds' /\ panicked' = panicked
  <2>1. 0 \in 0 .. rows - 1 /\ 0 \in 0 .. cols
    BY <1>1
  <2> QED BY <1>9, <2>1
          DEF EraseAll, FullReset, InBounds, CursorInBounds, SavedInBounds,
              RegionInBounds, AltInBounds, ViewInBounds, InGrid
<1> QED BY <1>4, <1>6, <1>7, <1>8, <1>9 DEF Erasing, EraseInLine

LEMMA LineEditingBounds ==
    ASSUME TypeOK, InBounds, LineEditing PROVE InBounds' /\ panicked' = panicked
<1>1. ASSUME NEW t \in 0 .. rows - 1, NEW b \in 0 .. rows - 1,
             SetScrollRegion(t, b)
      PROVE InBounds' /\ panicked' = panicked
  <2>1. 0 \in 0 .. rows - 1 /\ 0 \in 0 .. cols /\ t <= b /\ b < rows
    BY <1>1, DimsPositive DEF SetScrollRegion
  <2> QED BY <1>1, <2>1
          DEF SetScrollRegion, InBounds, CursorInBounds, SavedInBounds,
              RegionInBounds, AltInBounds, ViewInBounds, InGrid
<1>2. ASSUME NEW n \in Nat, ScrollUp(n) PROVE InBounds' /\ panicked' = panicked
  BY <1>2, RegionFits, ScrollBounds
     DEF ScrollUp, InBounds, CursorInBounds, InGrid
<1>3. ASSUME NEW n \in Nat, ScrollDown(n) PROVE InBounds' /\ panicked' = panicked
  BY <1>3, RegionFits, DrawBounds DEF ScrollDown, ScrollDownFits
<1>4. ASSUME ReverseIndex PROVE InBounds' /\ panicked' = panicked
  <2>1. curRow \in 0 .. rows - 1 /\ curCol \in 0 .. cols
    BY DEF InBounds, CursorInBounds, InGrid
  <2>2. curRow > 0 => curRow - 1 \in 0 .. rows - 1
    BY <2>1, DimsPositive
  <2> QED BY <1>3, <1>4, <2>1, <2>2, MoveBounds
          DEF ReverseIndex, ReverseIndexScroll, ReverseIndexMove
<1>5. ASSUME NEW n \in Nat, InsertLines(n) \/ DeleteLines(n)
      PROVE InBounds' /\ panicked' = panicked
  <2>1. RowsFit
    BY RegionFits, DimsPositive DEF RowsFit, InBounds, CursorInBounds, InGrid
  <2> QED BY <1>5, <2>1, DrawBounds DEF InsertLines, DeleteLines
<1> QED BY <1>1, <1>2, <1>3, <1>4, <1>5, PositiveCountsAreNat DEF LineEditing

LEMMA CharEditingBounds ==
    ASSUME TypeOK, InBounds, CharEditing
    PROVE InBounds' /\ (panicked' = panicked \/ OverflowingEdit)
<1>1. InSlice(CursorIdx, RestEnd)
  BY Positions DEF InSlice, InBounds
<1>2. PICK n \in PositiveCounts : DeleteChars(n) \/ InsertChars(n)
  BY DEF CharEditing
<1>3. n \in Int /\ MaxInt \in Int /\ curCol \in Int
  BY PositiveCountsAreNat, IntsAreInt, CursorType
<1>4. CASE curCol + n <= MaxInt
  BY <1>1, <1>2, <1>4, DrawBounds DEF DeleteChars, InsertChars, EditFits
<1>5. CASE ~(curCol + n <= MaxInt)
  <2>1. OverflowingEdit
    BY <1>2, <1>3, <1>5 DEF OverflowingEdit
  <2>2. InBounds'
    BY <1>2, DrawBounds, FaultBounds DEF DeleteChars, InsertChars
  <2> QED BY <2>1, <2>2
<1> QED BY <1>4, <1>5

LEMMA ModeChangeBounds ==
    ASSUME TypeOK, InBounds, ModeChange PROVE InBounds' /\ panicked' = panicked
<1>1. ASSUME NEW p \in Pen, SetPen(p) PROVE InBounds' /\ panicked' = panicked
  BY <1>1 DEF SetPen, InBounds, CursorInBounds, SavedInBounds, RegionInBounds,
              AltInBounds, ViewInBounds
<1>2. ASSUME NEW b \in BOOLEAN, ShowCursor(b)
      PROVE InBounds' /\ panicked' = panicked
  BY <1>2 DEF ShowCursor, InBounds, CursorInBounds, SavedInBounds,
              RegionInBounds, AltInBounds, ViewInBounds
<1>3. ASSUME EnterAlt PROVE InBounds' /\ panicked' = panicked
  <2>1. /\ cols \in Nat /\ cols > 0 /\ rows \in Nat /\ rows > 0
        /\ 0 <= rows - 1 /\ rows - 1 < rows
    BY DimsPositive
  <2>2. AltInBounds'
    BY <1>3, <2>1 DEF EnterAlt, Frame, AltInBounds, InBounds, CursorInBounds,
                      SavedInBounds, RegionInBounds, InGrid
  <2>3. CursorInBounds' /\ SavedInBounds' /\ RegionInBounds' /\ ViewInBounds'
    BY <1>3, <2>1 DEF EnterAlt, InBounds, CursorInBounds, SavedInBounds,
                      RegionInBounds, ViewInBounds, InGrid
  <2> QED BY <1>3, <2>2, <2>3 DEF EnterAlt, InBounds
<1>4. ASSUME LeaveAlt PROVE InBounds' /\ panicked' = panicked
  <2>1. PICK d \in Sizes : alt \in AltFrame(d)
    BY <1>4 DEF TypeOK, LeaveAlt
  <2>2. /\ alt.cols \in Nat /\ alt.rows \in Nat
        /\ alt.top \in Nat /\ alt.bot \in Nat
    BY <2>1, SizesAssumption DEF AltFrame
  <2>3. /\ InGrid(alt.curRow, alt.curCol, cols, rows)
        /\ InGrid(alt.savedRow, alt.savedCol, cols, rows)
        /\ alt.top <= alt.bot /\ alt.bot < rows
    BY <1>4, <2>2, DimsPositive DEF LeaveAlt, InBounds, AltInBounds, InGrid
  <2> QED BY <1>4, <2>3
          DEF LeaveAlt, InBounds, CursorInBounds, SavedInBounds,
              RegionInBounds, AltInBounds, ViewInBounds
<1> QED BY <1>1, <1>2, <1>3, <1>4 DEF ModeChange

LEMMA WindowBounds ==
    ASSUME TypeOK, InBounds, Resizing \/ Scrolling, NeverShrinks
    PROVE InBounds' /\ panicked' = panicked
<1>1. ASSUME NEW d \in Sizes, Resize(d[1], d[2])
      PROVE InBounds' /\ panicked' = panicked
  <2>1. /\ cols' = d[1] /\ rows' = d[2]
        /\ d[1] \in Nat /\ d[1] > 0 /\ d[2] \in Nat /\ d[2] > 0
        /\ cols <= d[1] /\ rows <= d[2]
    BY <1>1, SizesAssumption DEF Resize, NeverShrinks
  <2>2. /\ cols \in Nat /\ rows \in Nat
        /\ curRow \in Int /\ curCol \in Int
        /\ scrollRegTop \in Nat /\ scrollRegBot \in Nat
    BY DimsPositive, CursorType DEF TypeOK
  <2>3. CursorInBounds'
    BY <1>1, <2>1, <2>2 DEF Resize, AtMost, InBounds, CursorInBounds, InGrid
  <2>4. SavedInBounds' /\ RegionInBounds'
    BY <1>1, <2>1, <2>2
       DEF Resize, InBounds, SavedInBounds, RegionInBounds, InGrid
  <2>5. AltInBounds'
    <3>1. CASE alt = NoAlt
      BY <1>1, <3>1 DEF Resize, AltInBounds
    <3>2. CASE alt # NoAlt
      <4>1. PICK e \in Sizes : alt \in AltFrame(e)
        BY <3>2 DEF TypeOK
      <4>2. alt.cols \in Nat /\ alt.rows \in Nat
        BY <4>1, SizesAssumption DEF AltFrame
      <4> QED BY <1>1, <2>1, <4>2, DimsPositive DEF Resize, InBounds, AltInBounds
    <3> QED BY <3>1, <3>2
  <2> QED BY <1>1, <2>3, <2>4, <2>5 DEF Resize, InBounds, ViewInBounds
<1>2. ASSUME NEW t, t <= Len(sb), ScrollTo(t)
      PROVE InBounds' /\ panicked' = panicked
  BY <1>2 DEF ScrollTo, InBounds, CursorInBounds, SavedInBounds,
              RegionInBounds, AltInBounds, ViewInBounds
<1>3. Len(sb) \in Nat
  BY LenProperties DEF TypeOK
<1>4. ASSUME NEW n \in Int
      PROVE AtMost(AtLeast(scrollTop + n, 0), Len(sb)) <= Len(sb)
  BY <1>3 DEF TypeOK, AtMost, AtLeast
<1>5. -MaxScrollback .. MaxScrollback \subseteq Int
  OBVIOUS
<1>6. ASSUME Scrolling PROVE InBounds' /\ panicked' = panicked
  BY <1>2, <1>3, <1>4, <1>5, <1>6 DEF Scrolling, ScrollBy, ScrollReset
<1> QED BY <1>1, <1>6 DEF Resizing

LEMMA InitBounds == Init => InBounds
<1> SUFFICES ASSUME Init PROVE InBounds
  OBVIOUS
<1>1. /\ cols \in Nat /\ cols > 0 /\ rows \in Nat /\ rows > 0
  BY SizesAssumption DEF Init
<1>2. Len(sb) = 0
  BY EmptySeq DEF Init
<1>3. CursorInBounds /\ SavedInBounds /\ RegionInBounds /\ AltInBounds
  BY <1>1 DEF Init, CursorInBounds, SavedInBounds, RegionInBounds, AltInBounds,
              InGrid
<1>4. ViewInBounds
  BY <1>2, ScrollbackAssumption DEF Init, ViewInBounds
<1> QED BY <1>3, <1>4 DEF InBounds

LEMMA NextBounds ==
    TypeOK /\ InBounds /\ [Next /\ NeverShrinks]_vars
        => /\ InBounds' \/ Leaves
           /\ panicked' = panicked \/ Corner \/ OverflowingEdit
<1> SUFFICES ASSUME TypeOK, InBounds, [Next /\ NeverShrinks]_vars
             PROVE /\ InBounds' \/ Leaves
                   /\ panicked' = panicked \/ Corner \/ OverflowingEdit
  OBVIOUS
<1>1. CASE UNCHANGED vars
  BY <1>1 DEF vars, InBounds, CursorInBounds, SavedInBounds, RegionInBounds,
              AltInBounds, ViewInBounds
<1>2. CASE Next /\ NeverShrinks
  BY <1>2, TextOutputBounds, CursorMotionBounds, ErasingBounds,
     LineEditingBounds, CharEditingBounds, ModeChangeBounds, WindowBounds
     DEF Next, Output
<1> QED BY <1>1, <1>2

\* OverflowTakesItOff: for every set of window sizes and of counts, every
\* scrollback and every sequence of commands, in a window that never shrinks what
\* addresses the grid leaves it by an overflowing motion only.  TypeOK says what
\* shape a restored frame has, and the assumption on sizes that no position in
\* the grid wraps.
THEOREM OverflowTakesItOff == GrowSpec => LeavesOnlyByOverflow
<1>1. [Next /\ NeverShrinks]_vars => [Next]_vars
  OBVIOUS
<1>2. TypeOK /\ [Next /\ NeverShrinks]_vars
        => [InBounds => InBounds' \/ (OverflowingMotion /\ ~CursorInBounds')]_vars
  BY NextBounds DEF Leaves
<1> QED BY <1>1, <1>2, InitType, NextType, PTL DEF GrowSpec, LeavesOnlyByOverflow

\* PanicsAreThese: under the same condition no output panics the goroutine that
\* reads the connection but the kinds PanicsAreKnown lists.
THEOREM PanicsAreThese == GrowSpec => PanicsAreKnown
<1>1. [Next /\ NeverShrinks]_vars => [Next]_vars
  OBVIOUS
<1>2. TypeOK /\ [Next /\ NeverShrinks]_vars
        => [~panicked /\ panicked' => Corner \/ OverflowingEdit \/ ~InBounds]_vars
  <2> SUFFICES ASSUME TypeOK, [Next /\ NeverShrinks]_vars, ~panicked, panicked',
                      InBounds
               PROVE Corner \/ OverflowingEdit
    OBVIOUS
  <2>1. panicked' = panicked \/ Corner \/ OverflowingEdit
    BY NextBounds
  <2> QED BY <2>1, Zenon
<1> QED BY <1>1, <1>2, InitType, NextType, PTL DEF GrowSpec, PanicsAreKnown

(***************************************************************************)
(* What is left when the shell sends no number near the limit of int, as no*)
(* program does: the hypothesis is about the shell, not about the code.    *)
(***************************************************************************)
CountsFit ==
    \A n \in Counts, d \in Sizes :
        n > 0 /\ n + d[1] <= MaxInt /\ n + d[2] <= MaxInt

LEMMA NothingOverflows ==
    ASSUME TypeOK, InBounds, CountsFit PROVE ~OverflowingMotion /\ ~OverflowingEdit
<1>1. ASSUME NEW n \in Counts
      PROVE n > 0 /\ ~(n < 0) /\ ~(curRow + n > MaxInt) /\ ~(curCol + n > MaxInt)
  <2>1. n > 0 /\ n + cols <= MaxInt /\ n + rows <= MaxInt
    BY DEF CountsFit, TypeOK
  <2>2. /\ n \in Int /\ MaxInt \in Int /\ cols \in Int /\ rows \in Int
        /\ curRow \in 0 .. rows - 1 /\ curCol \in 0 .. cols
    BY CountsAssumption, IntsAreInt, DimsPositive
       DEF InBounds, CursorInBounds, InGrid
  <2> QED BY <2>1, <2>2
<1> QED BY <1>1 DEF OverflowingMotion, OverflowingEdit, PositiveCounts

LEMMA NextFits ==
    CountsFit /\ TypeOK /\ InBounds /\ [Next /\ NeverShrinks]_vars
        => (CountsFit /\ TypeOK /\ InBounds)'
<1>1. CountsFit => CountsFit'
  BY DEF CountsFit
<1>2. [Next /\ NeverShrinks]_vars => [Next]_vars
  OBVIOUS
<1> QED BY <1>1, <1>2, NextType, NextBounds, NothingOverflows DEF Leaves

\* StaysInBounds: if the numbers that the shell sends are positive and do not
\* overflow with a position in the grid, then as long as the window never shrinks
\* the cursor, the saved cursor, the region, the saved frame and the view are
\* always in bounds.
THEOREM StaysInBounds == CountsFit /\ GrowSpec => []InBounds
<1>1. Init => TypeOK /\ InBounds
  BY InitType, InitBounds
<1> QED BY <1>1, NextFits, PTL DEF GrowSpec

\* PanicsOnlyInCorner: under the same hypothesis the only output that can panic is
\* "erase to start of line" with the cursor waiting to wrap in the last line.
THEOREM PanicsOnlyInCorner ==
    CountsFit /\ GrowSpec => [][~panicked /\ panicked' => Corner]_vars
<1>1. Init => TypeOK /\ InBounds
  BY InitType, InitBounds
<1>2. CountsFit /\ TypeOK /\ InBounds /\ [Next /\ NeverShrinks]_vars
        => [~panicked /\ panicked' => Corner]_vars
  <2> SUFFICES ASSUME CountsFit, TypeOK, InBounds, [Next /\ NeverShrinks]_vars,
                      ~panicked, panicked'
               PROVE Corner
    OBVIOUS
  <2>1. panicked' = panicked \/ Corner \/ OverflowingEdit
    BY NextBounds
  <2>2. ~OverflowingEdit
    BY NothingOverflows
  <2> QED BY <2>1, <2>2, Zenon
<1> QED BY <1>1, <1>2, NextFits, PTL DEF GrowSpec
-----------------------------------------------------------------------------
(***************************************************************************)
(* The scrollback.  Only scrollUp writes it, and a scroll saves what is    *)
(* shown at the top of the screen.                                         *)
(***************************************************************************)
ScrollsAll(n) ==
    FullScreenScroll =>
        \A i \in 0 .. rows - 1 : i + n < rows => cells'[i] = cells[i + n]
Saves == \E n \in Nat : sb' = SavedBy(n) /\ ScrollsAll(n)

LEMMA ScrolledUpMoves ==
    ASSUME TypeOK, FullScreenScroll, NEW n \in Nat,
           NEW i \in 0 .. rows - 1, i + n < rows
    PROVE ScrolledUp(n)[i] = cells[i + n]
<1>1. /\ rows \in Nat /\ scrollRegTop = 0 /\ scrollRegBot = rows - 1
      /\ i \in Nat
  BY DimsPositive DEF FullScreenScroll
<1>2. ScrolledUp(n) = ShiftUp(cells, cols, rows, 0, rows - 1, n)
  BY <1>1 DEF ScrolledUp
<1>3. ~(i < 0 \/ i > rows - 1) /\ i + n <= rows - 1
  BY <1>1
<1> QED BY <1>2, <1>3 DEF ShiftUp

LEMMA ScrollSaves ==
    ASSUME TypeOK, NEW n \in Nat, sb' = SavedBy(n), cells' = ScrolledUp(n)
    PROVE Saves
BY ScrolledUpMoves DEF Saves, ScrollsAll

LEMMA PutScrolledSaves ==
    ASSUME TypeOK, NEW ch \in Glyphs, PutScrolled(ch), ~Fault PROVE Saves
<1>1. /\ cells' = PutCell(ScrolledUp(1), scrollRegBot, 0, ch)
      /\ sb' = SavedBy(1)
  BY DEF PutScrolled
<1>2. ASSUME FullScreenScroll, NEW i \in 0 .. rows - 1, i + 1 < rows
      PROVE cells'[i] = cells[i + 1]
  <2>1. ScrolledUp(1)[i] = cells[i + 1]
    BY <1>2, ScrolledUpMoves
  <2>2. i # scrollRegBot
    BY <1>2, DimsPositive DEF FullScreenScroll
  <2>3. i \in DOMAIN ScrolledUp(1)
    BY <1>2 DEF ScrolledUp, BlankGrid, ShiftUp
  <2> QED BY <1>1, <2>1, <2>2, <2>3 DEF PutCell
<1> QED BY <1>1, <1>2 DEF Saves, ScrollsAll

LEMMA OnlyScrollsSave == TypeOK /\ [Next]_vars => sb' = sb \/ Saves
<1> SUFFICES ASSUME TypeOK, [Next]_vars PROVE sb' = sb \/ Saves
  OBVIOUS
<1>1. ASSUME Fault PROVE sb' = sb
  BY <1>1 DEF Fault
<1>2. ASSUME NEW r, NEW c, MoveTo(r, c) PROVE sb' = sb
  BY <1>2 DEF MoveTo
<1>3. ASSUME NEW g, Draw(g) PROVE sb' = sb
  BY <1>3 DEF Draw
<1>4. CASE TextOutput
  <2>1. ASSUME NEW ch \in Glyphs, PutChar(ch) PROVE sb' = sb \/ Saves
    BY <1>1, <2>1, PutScrolledSaves DEF PutChar, PutInLine, PutWrapped
  <2>2. ASSUME LineFeed PROVE sb' = sb \/ Saves
    BY <1>1, <1>2, <2>2, ScrollSaves DEF LineFeed, LineFeedInside, LineFeedScroll
  <2>3. ASSUME CarriageReturn \/ Backspace \/ Tab PROVE sb' = sb
    BY <1>2, <2>3 DEF CarriageReturn, Backspace, Tab
  <2> QED BY <1>4, <2>1, <2>2, <2>3 DEF TextOutput
<1>5. CASE CursorMotion
  BY <1>2, <1>5 DEF CursorMotion, CursorUp, CursorDown, CursorRight, CursorLeft,
     NextLine, PreviousLine, CursorPosition, ColumnAbsolute, RowAbsolute,
     SaveCursor, RestoreCursor
<1>6. CASE Erasing
  BY <1>1, <1>3, <1>6 DEF Erasing, EraseInLine, EraseToEnd, EraseToBeginning,
     EraseAll, EraseLineToEnd, EraseLineToStart, EraseWholeLine, EraseChars,
     FullReset, EraseIfIn, Erase
<1>7. CASE LineEditing
  <2>1. ASSUME NEW n \in PositiveCounts, ScrollUp(n) PROVE sb' = sb \/ Saves
    BY <1>1, <2>1, PositiveCountsAreNat, ScrollSaves DEF ScrollUp
  <2>2. ASSUME NEW n, ScrollDown(n) \/ InsertLines(n) \/ DeleteLines(n)
        PROVE sb' = sb
    BY <1>1, <1>3, <2>2 DEF ScrollDown, InsertLines, DeleteLines
  <2>3. ASSUME ReverseIndex PROVE sb' = sb
    BY <1>2, <2>2, <2>3 DEF ReverseIndex, ReverseIndexScroll, ReverseIndexMove
  <2>4. ASSUME NEW t, NEW b, SetScrollRegion(t, b) PROVE sb' = sb
    BY <2>4 DEF SetScrollRegion
  <2> QED BY <1>7, <2>1, <2>2, <2>3, <2>4 DEF LineEditing
<1>8. CASE CharEditing
  BY <1>1, <1>3, <1>8 DEF CharEditing, DeleteChars, InsertChars
<1>9. CASE ModeChange
  BY <1>9 DEF ModeChange, SetPen, ShowCursor, EnterAlt, LeaveAlt
<1>10. CASE Resizing \/ Scrolling
  BY <1>10 DEF Resizing, Scrolling, Resize, ScrollBy, ScrollReset, ScrollTo
<1>11. CASE UNCHANGED vars
  BY <1>11 DEF vars
<1> QED BY <1>4, <1>5, <1>6, <1>7, <1>8, <1>9, <1>10, <1>11 DEF Next, Output

Bounded == Len(sb) <= MaxScrollback

LEMMA NextBounded == TypeOK /\ Bounded /\ [Next]_vars => Bounded'
BY OnlyScrollsSave, SavedByType DEF Bounded, Saves

LEMMA SavesTopOfScreen ==
    TypeOK /\ Bounded /\ [Next]_vars
        => \E k \in 0 .. rows :
              /\ sb' = Keep(MaxScrollback, sb \o TopLines(cells, k))
              /\ k > 0 => MovedUp(k)
<1> SUFFICES ASSUME TypeOK, Bounded, [Next]_vars
             PROVE \E k \in 0 .. rows :
                      /\ sb' = Keep(MaxScrollback, sb \o TopLines(cells, k))
                      /\ k > 0 => MovedUp(k)
  OBVIOUS
<1>1. sb = Keep(MaxScrollback, sb \o TopLines(cells, 0)) /\ 0 \in 0 .. rows
  <2>1. TopLines(cells, 0) = <<>> /\ 0 \in 0 .. rows
    BY LinesOfGrid, DimsPositive, EmptySeq
  <2>2. sb \o <<>> = sb
    BY ConcatEmptySeq DEF TypeOK
  <2>3. sb \o TopLines(cells, 0) = sb
    BY <2>1, <2>2
  <2>4. Keep(MaxScrollback, sb) = sb
    <3>1. ~(Len(sb) > MaxScrollback)
      BY LenProperties, ScrollbackAssumption DEF TypeOK, Bounded
    <3> QED BY <3>1 DEF Keep
  <2> QED BY <2>1, <2>3, <2>4
<1>2. CASE sb' = sb
  BY <1>1, <1>2
<1>3. CASE Saves
  <2>1. PICK n \in Nat : sb' = SavedBy(n) /\ ScrollsAll(n)
    BY <1>3 DEF Saves
  <2>2. AtMost(n, rows) \in 0 .. rows
    BY DimsPositive DEF AtMost
  <2>3. CASE FullScreenScroll
    <3>1. MovedUp(AtMost(n, rows))
      BY <2>1, <2>3, DimsPositive DEF ScrollsAll, MovedUp, AtMost
    <3> QED BY <2>1, <2>2, <2>3, <3>1 DEF SavedBy
  <2>4. CASE ~FullScreenScroll
    BY <1>1, <2>1, <2>4 DEF SavedBy
  <2> QED BY <2>3, <2>4
<1> QED BY <1>2, <1>3, OnlyScrollsSave

\* ScrollbackFaithful: for windows of any sizes, growing or shrinking, and a
\* scrollback of any capacity, no step puts anything into the scrollback but
\* rows from the top of the screen as they are, oldest first, or takes out
\* anything but its oldest lines.
THEOREM ScrollbackFaithful == Spec => HistoryFaithful
<1>1. Init => TypeOK /\ Bounded
  <2>1. Init => Bounded
    BY EmptySeq, ScrollbackAssumption DEF Init, Bounded
  <2> QED BY <2>1, InitType
<1>2. TypeOK /\ Bounded /\ [Next]_vars => (TypeOK /\ Bounded)'
  BY NextType, NextBounded
<1>3. TypeOK /\ Bounded /\ [Next]_vars
        => [\E k \in 0 .. rows :
               /\ sb' = Keep(MaxScrollback, sb \o TopLines(cells, k))
               /\ k > 0 => MovedUp(k)]_vars
  BY SavesTopOfScreen
<1> QED BY <1>1, <1>2, <1>3, PTL DEF Spec, HistoryFaithful
-----------------------------------------------------------------------------
(***************************************************************************)
(* The view.  Only the user moves it, and never past the scrollback, which *)
(* a scroll does not shorten: so it always lies in the document.           *)
(***************************************************************************)
Looks == scrollTop' = scrollTop \/ (scrollTop' <= Len(sb) /\ sb' = sb)

LEMMA OnlyScrollingLooks == TypeOK /\ [Next]_vars => Looks
<1> SUFFICES ASSUME TypeOK, [Next]_vars PROVE Looks
  OBVIOUS
<1>1. ASSUME Fault PROVE Looks
  BY <1>1 DEF Fault, Looks
<1>2. ASSUME NEW r, NEW c, MoveTo(r, c) PROVE Looks
  BY <1>2 DEF MoveTo, Looks
<1>3. ASSUME NEW g, Draw(g) PROVE Looks
  BY <1>3 DEF Draw, Looks
<1>4. CASE TextOutput
  BY <1>1, <1>2, <1>4 DEF TextOutput, PutChar, PutInLine, PutWrapped, PutScrolled,
     LineFeed, LineFeedInside, LineFeedScroll, CarriageReturn, Backspace, Tab, Looks
<1>5. CASE CursorMotion
  BY <1>2, <1>5 DEF CursorMotion, CursorUp, CursorDown, CursorRight, CursorLeft,
     NextLine, PreviousLine, CursorPosition, ColumnAbsolute, RowAbsolute,
     SaveCursor, RestoreCursor, Looks
<1>6. CASE Erasing
  BY <1>1, <1>3, <1>6 DEF Erasing, EraseInLine, EraseToEnd, EraseToBeginning,
     EraseAll, EraseLineToEnd, EraseLineToStart, EraseWholeLine, EraseChars,
     FullReset, EraseIfIn, Erase, Looks
<1>7. CASE LineEditing
  BY <1>1, <1>2, <1>3, <1>7 DEF LineEditing, SetScrollRegion, ScrollUp, ScrollDown,
     InsertLines, DeleteLines, ReverseIndex, ReverseIndexScroll, ReverseIndexMove,
     Looks
<1>8. CASE CharEditing
  BY <1>1, <1>3, <1>8 DEF CharEditing, DeleteChars, InsertChars
<1>9. CASE ModeChange
  BY <1>9 DEF ModeChange, SetPen, ShowCursor, EnterAlt, LeaveAlt, Looks
<1>10. CASE Resizing
  BY <1>10 DEF Resizing, Resize, Looks
<1>11. CASE Scrolling
  <2>1. Len(sb) \in Nat /\ scrollTop \in Nat
    BY LenProperties DEF TypeOK
  <2>2. ASSUME NEW n \in Int, ScrollBy(n) PROVE Looks
    BY <2>1, <2>2 DEF ScrollBy, ScrollTo, AtMost, AtLeast, Looks
  <2>3. ASSUME ScrollReset PROVE Looks
    BY <2>1, <2>3 DEF ScrollReset, ScrollTo, Looks
  <2>4. -MaxScrollback .. MaxScrollback \subseteq Int
    OBVIOUS
  <2> QED BY <1>11, <2>2, <2>3, <2>4 DEF Scrolling
<1>12. CASE UNCHANGED vars
  BY <1>12 DEF vars, Looks
<1> QED BY <1>4, <1>5, <1>6, <1>7, <1>8, <1>9, <1>10, <1>11, <1>12 DEF Next, Output

LEMMA NextView == TypeOK /\ ViewInBounds /\ [Next]_vars => ViewInBounds'
<1> SUFFICES ASSUME TypeOK, ViewInBounds, [Next]_vars PROVE ViewInBounds'
  OBVIOUS
<1>1. Bounded /\ Len(sb) \in Nat /\ scrollTop \in Nat
  BY LenProperties DEF TypeOK, ViewInBounds, Bounded
<1>2. sb' = sb \/ \E n \in Nat : sb' = SavedBy(n)
  BY OnlyScrollsSave DEF Saves
<1>3. Len(sb) <= Len(sb') /\ Len(sb') <= MaxScrollback
  <2>1. CASE sb' = sb
    BY <1>1, <2>1 DEF Bounded
  <2>2. ASSUME NEW n \in Nat, sb' = SavedBy(n)
        PROVE Len(sb) <= Len(sb') /\ Len(sb') <= MaxScrollback
    <3>1. Len(sb) <= Len(SavedBy(n)) /\ Len(SavedBy(n)) <= MaxScrollback
      BY <1>1, SavedByType DEF Bounded
    <3> QED BY <2>2, <3>1
  <2> QED BY <1>2, <2>1, <2>2
<1>4. Len(sb') \in Nat /\ scrollTop' \in Nat
  BY NextType, LenProperties DEF TypeOK
<1> QED BY <1>1, <1>3, <1>4, OnlyScrollingLooks DEF Looks, ViewInBounds

LEMMA ViewShowsDocument == ASSUME TypeOK, ViewInBounds PROVE ViewIsWindow
<1> DEFINE saves == [i \in 1 .. Len(sb) |-> Fit(sb[i], cols)]
           live == TopLines(cells, rows)
<1>1. /\ Len(sb) \in Nat /\ scrollTop \in Nat /\ scrollTop <= Len(sb)
      /\ rows \in Nat
  BY DimsPositive, LenProperties DEF TypeOK, ViewInBounds
<1>2. Len(saves) = Len(sb) /\ Len(live) = rows
  BY <1>1 DEF TopLines
<1> SUFFICES ASSUME NEW row \in 0 .. rows - 1
             PROVE View[row] = Document[Len(sb) - scrollTop + row + 1]
  BY DEF ViewIsWindow, Rows
<1> DEFINE at == Len(sb) - scrollTop + row
<1>3. at \in Nat /\ at < Len(sb) + rows
  BY <1>1
<1>4. View[row] = ViewRow(row)
  BY DEF View
<1>5. Document = saves \o live
  BY DEF Document
<1>6. CASE at < Len(sb)
  <2>1. at \in 0 .. Len(sb) - 1 /\ at + 1 \in 1 .. Len(sb) /\ ~(at >= Len(sb))
    BY <1>1, <1>3, <1>6
  <2>2. ViewRow(row) = Fit(sb[at + 1], cols)
    BY <2>1 DEF ViewRow
  <2>3. Document[at + 1] = saves[at + 1]
    BY <1>1, <1>2, <1>5, <2>1
  <2> QED BY <1>4, <2>1, <2>2, <2>3
<1>7. CASE at >= Len(sb)
  <2>1. at \notin 0 .. Len(sb) - 1
    BY <1>1, <1>3, <1>7
  <2>2. ViewRow(row) = cells[at - Len(sb)]
    BY <1>7, <2>1 DEF ViewRow
  <2>3. PICK k \in 1 .. rows : k = at + 1 - Len(sb)
    <3>1. at + 1 - Len(sb) \in 1 .. rows
      BY <1>1, <1>3, <1>7
    <3> HIDE DEF at
    <3> QED BY <3>1
  <2>4. Document[at + 1] = live[k]
    BY <1>1, <1>2, <1>3, <1>5, <1>7, <2>3
  <2>5. live[k] = cells[k - 1]
    BY DEF TopLines
  <2>6. k - 1 = at - Len(sb)
    BY <1>1, <1>3, <2>3
  <2> QED BY <1>4, <2>2, <2>4, <2>5, <2>6
<1> QED BY <1>1, <1>3, <1>6, <1>7

\* ViewFollowsDocument: for windows of any sizes and a scrollback of any
\* capacity, what is drawn while the user looks back are consecutive lines of
\* the scrollback and the live screen, however much is printed meanwhile.
THEOREM ViewFollowsDocument == Spec => []ViewIsWindow
<1>1. Init => TypeOK /\ ViewInBounds
  <2>1. Init => ViewInBounds
    BY EmptySeq, ScrollbackAssumption DEF Init, ViewInBounds
  <2> QED BY <2>1, InitType
<1>2. TypeOK /\ ViewInBounds /\ [Next]_vars => (TypeOK /\ ViewInBounds)'
  BY NextType, NextView
<1>3. TypeOK /\ ViewInBounds => ViewIsWindow
  BY ViewShowsDocument
<1> QED BY <1>1, <1>2, <1>3, PTL DEF Spec
-----------------------------------------------------------------------------
(***************************************************************************)
(* The scroll region.                                                      *)
(***************************************************************************)
\* What a step does to the region and to what was saved of the primary screen.
KeepsSettings ==
    alt' = alt /\ (region' = region \/ scrollRegTop' < scrollRegBot')

LEMMA OnlyTogglesTouchAlt ==
    ASSUME [Next]_vars, ~EnterAlt, ~LeaveAlt PROVE KeepsSettings
<1> USE DEF KeepsSettings
<1>1. ASSUME Fault PROVE KeepsSettings
  BY <1>1 DEF Fault
<1>2. ASSUME NEW r, NEW c, MoveTo(r, c) PROVE KeepsSettings
  BY <1>2 DEF MoveTo
<1>3. ASSUME NEW g, Draw(g) PROVE KeepsSettings
  BY <1>3 DEF Draw
<1>4. CASE TextOutput
  BY <1>1, <1>2, <1>4 DEF TextOutput, PutChar, PutInLine, PutWrapped,
     PutScrolled, LineFeed, LineFeedInside, LineFeedScroll, CarriageReturn,
     Backspace, Tab
<1>5. CASE CursorMotion
  BY <1>2, <1>5 DEF CursorMotion, CursorUp, CursorDown, CursorRight, CursorLeft,
     NextLine, PreviousLine, CursorPosition, ColumnAbsolute, RowAbsolute,
     SaveCursor, RestoreCursor
<1>6. CASE Erasing
  BY <1>1, <1>3, <1>6 DEF Erasing, EraseInLine, EraseToEnd, EraseToBeginning,
     EraseAll, EraseLineToEnd, EraseLineToStart, EraseWholeLine, EraseChars,
     FullReset, EraseIfIn, Erase
<1>7. CASE LineEditing
  BY <1>1, <1>2, <1>3, <1>7 DEF LineEditing, SetScrollRegion, ScrollUp,
     ScrollDown, ReverseIndex, ReverseIndexScroll, ReverseIndexMove,
     InsertLines, DeleteLines
<1>8. CASE CharEditing
  BY <1>1, <1>3, <1>8 DEF CharEditing, DeleteChars, InsertChars
<1>9. CASE ModeChange
  BY <1>9 DEF ModeChange, SetPen, ShowCursor
<1>10. CASE Resizing \/ Scrolling
  BY <1>10 DEF Resizing, Scrolling, Resize, ScrollBy, ScrollReset, ScrollTo
<1>11. CASE UNCHANGED vars
  BY <1>11 DEF vars
<1> QED BY <1>4, <1>5, <1>6, <1>7, <1>8, <1>9, <1>10, <1>11 DEF Next, Output

\* The region has its top above its bottom, on both screens.
Upright ==
    /\ scrollRegTop <= scrollRegBot
    /\ alt # NoAlt => alt.top <= alt.bot

LEMMA InitUpright == Init => Upright
<1> SUFFICES ASSUME Init PROVE Upright
  OBVIOUS
<1> QED BY InitType, DimsPositive DEF Init, Upright

LEMMA NextUpright == TypeOK /\ Upright /\ [Next]_vars => Upright'
<1> SUFFICES ASSUME TypeOK, Upright, [Next]_vars PROVE Upright'
  OBVIOUS
<1>1. CASE EnterAlt
  <2>1. alt' = Frame /\ scrollRegTop' = 0 /\ scrollRegBot' = rows - 1
    BY <1>1 DEF EnterAlt
  <2>2. Frame.top = scrollRegTop /\ Frame.bot = scrollRegBot
    BY DEF Frame
  <2>3. 0 <= rows - 1
    BY DimsPositive
  <2> QED BY <2>1, <2>2, <2>3 DEF Upright
<1>2. CASE LeaveAlt
  BY <1>2 DEF LeaveAlt, Upright
<1>3. CASE ~EnterAlt /\ ~LeaveAlt
  <2>1. KeepsSettings
    BY <1>3, OnlyTogglesTouchAlt
  <2>2. scrollRegTop' < scrollRegBot' => scrollRegTop' <= scrollRegBot'
    BY NextType, IntsAreInt DEF TypeOK
  <2> QED BY <2>1, <2>2 DEF KeepsSettings, Upright
<1> QED BY <1>1, <1>2, <1>3

\* A row the step may not touch.
Apart(i) == i \in Rows \ (scrollRegTop .. scrollRegBot)

LEMMA ScrolledUpApart ==
    ASSUME TypeOK, ScrollUpFits, NEW n \in Nat, NEW i, Apart(i)
    PROVE ScrolledUp(n)[i] = cells[i] /\ i \in DOMAIN ScrolledUp(n)
<1>1. /\ i \in 0 .. rows - 1 /\ rows \in Nat
      /\ scrollRegTop \in Nat /\ scrollRegBot \in Nat
      /\ i < scrollRegTop \/ i > scrollRegBot
  BY DimsPositive DEF Apart, Rows, TypeOK
<1>2. ~FullScreenScroll
  BY <1>1 DEF FullScreenScroll
<1> QED BY <1>1, <1>2 DEF ScrolledUp, ShiftUp

\* IL and DL shift the part of the region that begins at the cursor.
LEMMA ShiftApart ==
    ASSUME TypeOK, NEW n \in Nat, NEW top \in Nat, top >= scrollRegTop,
           NEW i, Apart(i)
    PROVE /\ ShiftUp(cells, cols, rows, top, scrollRegBot, n)[i] = cells[i]
          /\ ShiftDown(cells, cols, rows, top, scrollRegBot, n)[i] = cells[i]
<1>1. /\ i \in 0 .. rows - 1 /\ rows \in Nat
      /\ scrollRegTop \in Nat /\ scrollRegBot \in Nat
      /\ i < top \/ i > scrollRegBot
  BY DimsPositive DEF Apart, Rows, TypeOK
<1> QED BY <1>1 DEF ShiftUp, ShiftDown

LEMMA ScrollsLeaveApart ==
    ASSUME TypeOK, Upright, Scrolls, NEW i, Apart(i)
    PROVE cells'[i] = cells[i]
<1>1. ASSUME Fault PROVE cells'[i] = cells[i]
  BY <1>1 DEF Fault
<1>2. ASSUME NEW r, NEW c, MoveTo(r, c) PROVE cells'[i] = cells[i]
  BY <1>2 DEF MoveTo
<1>3. /\ scrollRegTop \in Nat /\ scrollRegBot \in Nat /\ i \in 0 .. rows - 1
      /\ i < scrollRegTop \/ i > scrollRegBot
  BY DimsPositive DEF Apart, Rows, TypeOK
<1>4. 1 \in Nat
  OBVIOUS
<1>5. ASSUME NEW ch \in Glyphs, PutScrolled(ch) PROVE cells'[i] = cells[i]
  <2>1. CASE ScrollUpFits
    <3>1. ScrolledUp(1)[i] = cells[i] /\ i \in DOMAIN ScrolledUp(1)
      BY <1>4, <2>1, ScrolledUpApart
    <3>2. cells' = PutCell(ScrolledUp(1), scrollRegBot, 0, ch)
      BY <1>5, <2>1 DEF PutScrolled
    <3>3. i # scrollRegBot
      BY <1>3 DEF Upright
    <3> QED BY <3>1, <3>2, <3>3 DEF PutCell
  <2>2. CASE ~ScrollUpFits
    BY <1>1, <1>5, <2>2 DEF PutScrolled
  <2> QED BY <2>1, <2>2
<1>6. CASE LineFeed
  <2>1. CASE LineFeedInside
    BY <1>2, <2>1 DEF LineFeedInside
  <2>2. CASE LineFeedScroll
    BY <1>1, <1>4, <2>2, ScrolledUpApart DEF LineFeedScroll
  <2> QED BY <1>6, <2>1, <2>2 DEF LineFeed
<1>7. ASSUME NEW n \in Nat, ScrollDown(n) PROVE cells'[i] = cells[i]
  <2>1. scrollRegTop \in Nat /\ scrollRegTop >= scrollRegTop
    BY DEF TypeOK
  <2>2. ScrolledDown(n)[i] = cells[i]
    BY <2>1, ShiftApart DEF ScrolledDown
  <2> QED BY <1>1, <1>7, <2>2 DEF ScrollDown, Draw
<1>8. ASSUME NEW n \in Nat, ScrollUp(n) PROVE cells'[i] = cells[i]
  BY <1>1, <1>8, ScrolledUpApart DEF ScrollUp
<1>9. CASE ReverseIndex
  BY <1>2, <1>4, <1>7, <1>9 DEF ReverseIndex, ReverseIndexScroll, ReverseIndexMove
<1>10. ASSUME curRow >= scrollRegTop, NEW n \in Nat, InsertLines(n) \/ DeleteLines(n)
       PROVE cells'[i] = cells[i]
  <2>1. curRow \in Nat
    BY <1>3, <1>10, CursorType
  <2>2. /\ ShiftUp(cells, cols, rows, curRow, scrollRegBot, n)[i] = cells[i]
        /\ ShiftDown(cells, cols, rows, curRow, scrollRegBot, n)[i] = cells[i]
    BY <1>10, <2>1, ShiftApart
  <2> QED BY <1>1, <1>10, <2>2 DEF InsertLines, DeleteLines, Draw
<1>11. PositiveCounts \subseteq Nat
  BY PositiveCountsAreNat
<1> QED BY <1>5, <1>6, <1>7, <1>8, <1>9, <1>10, <1>11 DEF Scrolls

\* ScrollsKeepOut: for every window, every region, also one the window has shrunk
\* under, and every cursor, a scroll changes no row outside its region.
THEOREM ScrollsKeepOut == Spec => ScrollStaysInRegion
<1>1. TypeOK /\ Upright =>
         [Scrolls => \A i \in Rows \ (scrollRegTop .. scrollRegBot) :
                        cells'[i] = cells[i]]_vars
  BY ScrollsLeaveApart DEF Apart
<1> QED BY <1>1, InitType, NextType, InitUpright, NextUpright, PTL
        DEF Spec, ScrollStaysInRegion
-----------------------------------------------------------------------------
(***************************************************************************)
(* The alternate screen.                                                   *)
(***************************************************************************)
LEMMA LeavingRestores ==
    ASSUME TypeOK, LeaveAlt, dims = <<alt.cols, alt.rows>> PROVE Frame' = alt
<1>1. PICK d \in Sizes : alt \in AltFrame(d)
  BY DEF TypeOK, LeaveAlt
<1>2. d[1] = cols /\ d[2] = rows
  BY <1>1 DEF AltFrame
<1>3. alt.cells \in GridOf(cols, rows)
  BY <1>1, <1>2 DEF AltFrame
<1>4. LinearCopy(cells, cols, rows, alt.cells, alt.cols, alt.rows) = alt.cells
  BY <1>3, DimsPositive, LinearCopySame DEF TypeOK
<1>5. alt = [cols |-> alt.cols, rows |-> alt.rows, cells |-> alt.cells,
             curRow |-> alt.curRow, curCol |-> alt.curCol,
             savedRow |-> alt.savedRow, savedCol |-> alt.savedCol,
             pen |-> alt.pen, top |-> alt.top, bot |-> alt.bot]
  BY <1>1 DEF AltFrame
<1> QED BY <1>4, <1>5 DEF LeaveAlt, Frame

\* InterludeRestores: for every window size, whatever a full-screen application
\* draws, and whatever regions, pens and saved cursors it leaves behind, the
\* primary screen comes back exactly as it was, if the window has the size it
\* had.
THEOREM InterludeRestores == Spec => AltIsAnInterlude
<1> DEFINE Interlude ==
        /\ alt = NoAlt /\ alt' # NoAlt => alt' = Frame
        /\ alt # NoAlt => alt' \in {alt, NoAlt}
        /\ alt # NoAlt /\ alt' = NoAlt /\ dims = <<alt.cols, alt.rows>>
              => Frame' = alt
<1>1. TypeOK /\ [Next]_vars => Interlude
  <2> SUFFICES ASSUME TypeOK, [Next]_vars PROVE Interlude
    OBVIOUS
  <2>1. CASE EnterAlt
    BY <2>1 DEF EnterAlt
  <2>2. CASE LeaveAlt
    BY <2>2, LeavingRestores DEF LeaveAlt
  <2>3. CASE ~EnterAlt /\ ~LeaveAlt
    BY <2>3, OnlyTogglesTouchAlt DEF KeepsSettings
  <2> QED BY <2>1, <2>2, <2>3
<1>2. TypeOK /\ [Next]_vars => [Interlude]_vars
  BY <1>1
<1> QED BY <1>2, InitType, NextType, PTL DEF Spec, AltIsAnInterlude
=============================================================================
