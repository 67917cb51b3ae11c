----------------------------- MODULE Selection -----------------------------
(***************************************************************************)
(* The mouse and the clipboard, cmd/idunagame/main.go: selecting text by   *)
(* dragging over the grid, copying and pasting it, and scrolling the view  *)
(* with the wheel or the keyboard.  All of it runs on the main goroutine,  *)
(* one action per SDL event, between which the shell's output changes the  *)
(* screen.                                                                 *)
(*                                                                         *)
(* The pointer has pixel positions, in and, while a button is held, outside*)
(* the window.  A text is the sequence of its lines, each a sequence of    *)
(* glyphs; the empty string is one empty line.  The clipboard belongs to   *)
(* the OS: other applications write it, and SDL's calls may fail.          *)
(*                                                                         *)
(* crashed is the panic of make() with a negative capacity, which nothing  *)
(* recovers on this goroutine.  sent is what the last step pasted into the *)
(* connection.  newest, doubtful and strayed are history variables, of the *)
(* properties only.                                                        *)
(***************************************************************************)
EXTENDS ScreenProperties, FiniteSetsExt

CONSTANTS
    GlyphW, GlyphH,     \* the size of a cell in pixels
    Windows,            \* the <<width, height>> in pixels the window can have
    Pixels,             \* the <<x, y>> the pointer can have
    WheelLines,         \* wheelScrollLines
    PageLines,          \* defaultRows / 2
    OtherText           \* what another application copies

ASSUME GlyphSizeAssumption == GlyphW \in Nat \ {0} /\ GlyphH \in Nat \ {0}

VARIABLES
    window,         \* size in pixels
    dragging,       \* selection.active
    from, to,       \* the selection's two ends, as <<row, column>>
    haveSelection,
    lastSelected,
    clipboard,
    crashed,
    sent,
    newest,         \* the text last copied, here or elsewhere
    doubtful,       \* storing newest in the clipboard failed
    strayed         \* since the press the pointer left the cells of the grid,
                    \* or the window was resized

drag == <<dragging, from, to, haveSelection>>
texts == <<lastSelected, clipboard, newest, doubtful>>
selectionVars == <<window, drag, texts, crashed, sent, strayed>>

NoText == << <<>> >>

SelectionInit ==
    /\ window \in Windows
    /\ dragging = FALSE /\ from = <<0, 0>> /\ to = <<0, 0>>
    /\ haveSelection = FALSE
    /\ lastSelected = NoText /\ clipboard = NoText
    /\ crashed = FALSE /\ sent = NoText
    /\ newest = NoText /\ doubtful = FALSE /\ strayed = FALSE

GridFor(w) == <<AtLeast(w[1] \div GlyphW, 1), AtLeast(w[2] \div GlyphH, 1)>>

\* Pixels left of the window or above it have negative coordinates.
ASSUME WindowsAssumption ==
    /\ Windows \subseteq Nat \X Nat /\ Pixels \subseteq Int \X Int
    /\ {GridFor(w) : w \in Windows} \subseteq Sizes

Inside(p) == p[1] \in 0 .. window[1] - 1 /\ p[2] \in 0 .. window[2] - 1

\* The zoom factor is not divided out, and only zero bounds the cell.
PixelToCell(p) ==
    <<AtLeast(p[2] \div GlyphH, 0), AtLeast(p[1] \div GlyphW, 0)>>
OverGrid(p) == PixelToCell(p)[1] < rows /\ PixelToCell(p)[2] < cols
-----------------------------------------------------------------------------
(***************************************************************************)
(* selectedText.                                                           *)
(***************************************************************************)
Before(p, q) == p[1] < q[1] \/ (p[1] = q[1] /\ p[2] <= q[2])

\* Mutant of First: within a row nothing is exchanged.
FirstByRow(p, q) == IF p[1] <= q[1] THEN p ELSE q
First(p, q) == IF Before(p, q) THEN p ELSE q
Last(p, q) == IF First(p, q) = p THEN q ELSE p

TrimRight(line) ==
    SubSeq(line, 1, Max({0} \union {k \in DOMAIN line : line[k] # Space}))

\* The row range is cut to the grid before the last row's end is taken.
LastRow(p, q) == AtMost(Last(p, q)[1], rows - 1)
StartCol(p, q, row) == IF row = First(p, q)[1] THEN First(p, q)[2] ELSE 0
EndCol(p, q, row) ==
    AtMost(IF row = LastRow(p, q) THEN Last(p, q)[2] ELSE cols - 1, cols - 1)

SelectedRows(p, q) == First(p, q)[1] .. LastRow(p, q)
SelectionPanics(p, q) ==
    \E row \in SelectedRows(p, q) : StartCol(p, q, row) > EndCol(p, q, row) + 1

\* Mutant of TextOfRow: the live screen's text, also when scrolled back.
TextOfLiveRow(p, q, row) ==
    LET s == StartCol(p, q, row)
    IN TrimRight([k \in 1 .. EndCol(p, q, row) - s + 1 |-> cells[row][s + k - 1].ch])

TextOfRow(p, q, row) ==
    LET s == StartCol(p, q, row)
    IN TrimRight([k \in 1 .. EndCol(p, q, row) - s + 1 |-> View[row][s + k - 1].ch])
SelectedText(p, q) ==
    LET r == First(p, q)[1]
    IN IF SelectedRows(p, q) = {} THEN NoText
       ELSE [i \in 1 .. LastRow(p, q) - r + 1 |-> TextOfRow(p, q, r + i - 1)]
-----------------------------------------------------------------------------
(***************************************************************************)
(* The events.                                                             *)
(***************************************************************************)
Press(p) ==
    /\ Inside(p)
    /\ dragging' = TRUE /\ haveSelection' = FALSE
    /\ from' = PixelToCell(p) /\ to' = PixelToCell(p)
    /\ strayed' = ~OverGrid(p)
    /\ sent' = NoText
    /\ UNCHANGED <<vars, window, texts, crashed>>

Motion(p) ==
    /\ dragging
    /\ to' = PixelToCell(p)
    /\ haveSelection' = (haveSelection \/ (to' # to /\ to' # from))
    /\ strayed' = (strayed \/ ~OverGrid(p))
    /\ sent' = NoText
    /\ UNCHANGED <<vars, window, dragging, from, texts, crashed>>

\* SetClipboardText, whose error is ignored.
StoreText(text) ==
    /\ newest' = text
    /\ \/ clipboard' = text /\ doubtful' = FALSE
       \/ clipboard' = clipboard /\ doubtful' = TRUE

Release ==
    /\ dragging
    /\ sent' = NoText
    /\ IF haveSelection /\ SelectionPanics(from, to)
       THEN crashed' = TRUE /\ UNCHANGED <<drag, texts>>
       ELSE /\ dragging' = FALSE
            /\ lastSelected' = IF haveSelection THEN SelectedText(from, to)
                                                ELSE lastSelected
            /\ IF haveSelection /\ lastSelected' # NoText
               THEN StoreText(lastSelected')
               ELSE UNCHANGED <<clipboard, newest, doubtful>>
            /\ UNCHANGED <<from, to, haveSelection, crashed>>
    /\ UNCHANGED <<vars, window, strayed>>

\* Ctrl+Shift+C.
CopyKey ==
    /\ lastSelected # NoText
    /\ StoreText(lastSelected)
    /\ sent' = NoText
    /\ UNCHANGED <<vars, window, drag, lastSelected, crashed, strayed>>

Paste(text) ==
    /\ text # NoText
    /\ sent' = text
    /\ UNCHANGED <<vars, window, drag, texts, crashed, strayed>>

\* Mutant of MiddlePaste: this window's own selection comes first.
OwnSelectionFirst(readable) ==
    Paste(IF lastSelected # NoText THEN lastSelected
          ELSE IF readable THEN clipboard ELSE NoText)

\* The middle button: the clipboard, or the last selection where that cannot be
\* read or is empty.
MiddlePaste(readable) ==
    Paste(IF readable /\ clipboard # NoText THEN clipboard ELSE lastSelected)

\* Ctrl+Shift+V.
PasteKey == Paste(clipboard)

OtherAppCopies ==
    /\ clipboard' = OtherText /\ newest' = OtherText /\ doubtful' = FALSE
    /\ sent' = NoText
    /\ UNCHANGED <<vars, window, drag, lastSelected, crashed, strayed>>

\* The wheel, through scrollmod to the callback main.go installs, and the keys
\* of handleScrollKey; any other text or shifted key shows the live screen.
Wheel(notches) == ScrollBy(notches * WheelLines)
ScrollKey ==
    \/ ScrollBy(PageLines) \/ ScrollBy(-PageLines) \/ ScrollBy(MaxScrollback)
    \/ ScrollReset
TypeText == scrollTop > 0 /\ ScrollReset
UserScrolls ==
    /\ (\E n \in {-1, 1} : Wheel(n)) \/ ScrollKey \/ TypeText
    /\ sent' = NoText
    /\ UNCHANGED <<window, drag, texts, crashed, strayed>>

\* A resize event that changes the number of cells resizes the screen.
WindowResized(w) ==
    /\ window' = w
    /\ IF GridFor(w) = dims THEN UNCHANGED vars
       ELSE Resize(GridFor(w)[1], GridFor(w)[2])
    /\ strayed' = TRUE /\ sent' = NoText
    /\ UNCHANGED <<drag, texts, crashed>>

\* The shell prints, whatever the user is doing.
ShellPrints ==
    /\ ~panicked
    /\ (\E ch \in Glyphs : PutChar(ch)) \/ LineFeed
    /\ sent' = NoText
    /\ UNCHANGED <<window, drag, texts, crashed, strayed>>

Dragging == (\E p \in Pixels : Press(p) \/ Motion(p)) \/ Release
Clipboard ==
    \/ CopyKey \/ PasteKey \/ OtherAppCopies
    \/ \E readable \in BOOLEAN : MiddlePaste(readable)
ViewChanges ==
    UserScrolls \/ ShellPrints \/ \E w \in Windows : WindowResized(w)

SelectionNext == ~crashed /\ (Dragging \/ Clipboard \/ ViewChanges)

SelectionSpec ==
    /\ Init /\ SelectionInit /\ dims = GridFor(window)
    /\ [][SelectionNext]_<<vars, selectionVars>>
-----------------------------------------------------------------------------
\* The cells renderFrame draws over while a selection lasts: those between the
\* two ends in reading order.
Between(p, x, q) == Before(p, x) /\ Before(x, q)
HighlightedIn(row) ==
    {j \in 0 .. cols - 1 : \/ Between(from, <<row, j>>, to)
                           \/ Between(to, <<row, j>>, from)}

\* CopiesTheHighlight: releasing the button copies the highlighted cells of the
\* view as it then is, scrolled back or not, line by line and without trailing
\* blanks, whichever way the pointer was dragged and whatever the shell printed
\* and the window did meanwhile, unless the drag touched a row below the grid.
LineOfHighlight(row) ==
    LET js == HighlightedIn(row)
    IN IF js = {} THEN <<>>
       ELSE TrimRight([k \in 1 .. Cardinality(js) |->
                          View[row][Min(js) + k - 1].ch])
Copied == Release /\ haveSelection /\ ~crashed'
CopiesTheHighlight ==
    [][Copied /\ {from[1], to[1]} \subseteq Rows =>
          LET top == Min({from[1], to[1]})  bottom == Max({from[1], to[1]}) IN
          lastSelected' =
              [i \in 1 .. bottom - top + 1 |-> LineOfHighlight(top + i - 1)]
      ]_<<vars, selectionVars>>

\* NoCrashOverTheGrid: releasing the button crashes the program only if the
\* pointer was off the cells of the grid during the drag, as it is over the
\* status bar or outside the window, or the window was resized.
NoCrashOverTheGrid == crashed => strayed

\* PasteIsFreshest: the middle button and Ctrl+Shift+V paste the text copied
\* last, here or in another application, as long as the clipboard takes and
\* gives texts.  That is main.go:825, "prefer it here", and not the older comment
\* at main.go:317 (see MiddlePastesOwn below).
Pastes == MiddlePaste(TRUE) \/ PasteKey
PasteIsFreshest ==
    [][Pastes /\ ~doubtful /\ newest # NoText => sent' = newest
      ]_<<vars, selectionVars>>
-----------------------------------------------------------------------------
(***************************************************************************)
(* What comments of main.go say and the code does not do.                  *)
(***************************************************************************)
\* DragsAreHarmless: main.go:1239, "mouse events firing slightly outside the grid
\* (e.g. in the GFD status bar) shouldn't produce a negative index".  A drag that
\* ends below the grid and to the left, or above and past the right edge, makes
\* a line of negative length.
DragsAreHarmless == ~crashed

\* CopiesBetweenTheCells: main.go:1253, "extracts the text between two cell
\* positions".  Where the lower one is below the grid, the last row is cut at
\* its column, although all of the row is highlighted.
CopiesBetweenTheCells ==
    [][Copied => \A row \in SelectedRows(from, to) :
          lastSelected'[row - First(from, to)[1] + 1] = LineOfHighlight(row)
      ]_<<vars, selectionVars>>

\* ClipboardIsAsFresh: main.go:824, "the real OS clipboard is always at least
\* as fresh" as lastSelected.  Not when SetClipboardText failed.
ClipboardIsAsFresh == newest # NoText => clipboard = newest

\* MiddlePastesOwn: main.go:317, "middle-click paste here always pastes PITVIPER's
\* own last selection", not sharing with other applications.  The clipboard, of
\* whoever wrote it, comes first at main.go:828.
MiddlePastesOwn ==
    [][(\E readable \in BOOLEAN : MiddlePaste(readable)) /\ lastSelected # NoText
          => sent' = lastSelected]_<<vars, selectionVars>>
=============================================================================
