------------------------------ MODULE MCWindow ------------------------------
(***************************************************************************)
(* Small instances of the window's side of the screen: the scenario        *)
(* "resize" of MCScreen, and the scenario "select", in which the user drags*)
(* over the grid, copies and pastes.                                       *)
(*                                                                         *)
(* A cell is two pixels wide and two high.  One window of "select" has two *)
(* columns and a row of pixels below its last row, as the status bar is;   *)
(* the other has three columns.  The pixels lie in the first and last row  *)
(* and column of cells, right of and below the grid, and outside both      *)
(* windows.                                                                *)
(***************************************************************************)
EXTENDS MCScreen, Selection

SomeWindows == {<<5, 5>>, <<7, 4>>}
SomePixels ==
    {<<0, 0>>, <<3, 1>>, <<5, 2>>, <<1, 3>>, <<0, 4>>, <<9, -1>>}
OthersText == <<<<"o">>>>

\* Dragging, while the shell prints, the user scrolls and the window changes.
SelectNext == ~crashed /\ (Dragging \/ ViewChanges)

\* Copying and pasting; the shell prints meanwhile.
PasteNext == ~crashed /\ (Dragging \/ Clipboard \/ ShellPrints)

\* Bounds: "select" is followed up to the first text that is selected, as only
\* "paste" looks at what becomes of a text.
OneText == scenario = "select" => lastSelected = NoText

WindowNext ==
    \/ In("resize", ResizeNext) /\ UNCHANGED selectionVars
    \/ In("select", SelectNext)
    \/ In("paste", PasteNext)

WindowInit ==
    /\ InitIn({"resize", "select", "paste"}) /\ SelectionInit
    /\ scenario # "resize" => dims = GridFor(window)
    /\ scenario = "resize" => window = <<5, 5>>
WindowSpec == WindowInit /\ [][WindowNext]_<<mcVars, selectionVars>>
=============================================================================
