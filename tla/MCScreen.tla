------------------------------ MODULE MCScreen ------------------------------
(***************************************************************************)
(* Small instances of Screen.  A grid of two columns and two or three rows *)
(* has a first, a last and (with three) an inner row, so that a scroll     *)
(* region can leave out a row above, below or none.  A scenario explores   *)
(* part of the commands in windows of some sizes; every command is explored*)
(* in one of them.                                                         *)
(*                                                                         *)
(* The scenario "print" is that of Printing.tla.                           *)
(***************************************************************************)
EXTENDS Printing, FiniteSets

VARIABLE scenario

mcVars == <<vars, ringVars, scenario>>

SizesOf == [print  |-> {<<2, 3>>},
            region |-> {<<2, 3>>},
            edit   |-> {<<3, 2>>},
            alt    |-> {<<1, 2>>, <<1, 3>>},
            overflow |-> {<<2, 2>>},
            resize |-> {<<2, 2>>, <<3, 2>>, <<2, 3>>},
            select |-> {<<2, 2>>, <<3, 2>>},
            paste  |-> {<<2, 2>>}]

PrintSizes == SizesOf["print"]
CommandSizes == UNION {SizesOf[s] : s \in {"region", "edit", "alt", "overflow"}}
ResizeSizes == SizesOf["resize"]

\* Within the grid and past its edges, which the largest int is; and one that
\* parseNums has wrapped.
SomeCounts == {1, 2, MaxInt, -MaxInt}

\* Bounds: non-blank cells, grid and saved grid together; and saved cursors,
\* regions and pens not the default, those of the saved frame counted apart.
MaxInk ==
    [print |-> 3, region |-> 6, edit |-> 2, alt |-> 1, overflow |-> 1, resize |-> 3,
     select |-> 2, paste |-> 1]
MaxSettings ==
    [print |-> 0, region |-> 1, edit |-> 1, alt |-> 1, overflow |-> 0, resize |-> 1,
     select |-> 0, paste |-> 0]

Ink(g) == Cardinality({<<i, j>> \in (0 .. 2) \X (0 .. 2) :
              i \in DOMAIN g /\ j \in DOMAIN g[i] /\ g[i][j] # DefaultBlank})
FewInks ==
    Ink(cells) + (IF alt = NoAlt THEN 0 ELSE Ink(alt.cells)) <= MaxInk[scenario]

Changed(f) == {x \in {<<"saved", <<f.savedRow, f.savedCol>> = <<0, 0>> >>,
                      <<"region", <<f.top, f.bot>> = <<0, f.rows - 1>> >>,
                      <<"pen", f.pen = DefaultPen>>} : ~x[2]}
FewSettings ==
    Cardinality(Changed(Frame))
        + (IF alt = NoAlt THEN 0 ELSE Cardinality(Changed(alt)))
    <= MaxSettings[scenario]

\* Bound: only "overflow" goes on with a cursor an overflow has moved off the
\* grid; the other scenarios of CommandSpec end there.
OnGrid == scenario # "overflow" => CursorInBounds

PutGlyph == \E ch \in Glyphs : PutChar(ch)

\* A program that divides the screen into regions and scrolls them.
RegionNext ==
    ~panicked /\ (PutGlyph \/ LineFeed \/ LineEditing \/ AbsoluteMotion)

\* One that edits the screen in place.
EditNext ==
    \/ /\ ~panicked
       /\ \/ PutGlyph \/ LineFeed \/ CursorMotion \/ Erasing \/ CharEditing
          \/ \E b \in BOOLEAN : ShowCursor(b)
    \/ ScrollReset

\* A full-screen application that is started and left, in a window that grows.
AltNext ==
    \/ /\ ~panicked
       /\ \/ PutGlyph \/ LineFeed \/ SaveCursor \/ RestoreCursor
          \/ \E t, b \in Rows : SetScrollRegion(t, b)
          \/ \E p \in Pen : SetPen(p)
          \/ EnterAlt \/ LeaveAlt \/ FullReset
    \/ Resizing /\ NeverShrinks

\* Any command, with numbers at the limit of int.
OverflowNext ==
    \/ /\ ~panicked
       /\ TextOutput \/ CursorMotion \/ Erasing \/ LineEditing \/ CharEditing
    \/ ScrollReset

\* Printing and scrolling in a window of any size.
ResizeNext ==
    \/ ~panicked /\ (PutGlyph \/ LineFeed \/ CarriageReturn \/ ReverseIndex)
    \/ Resizing \/ Scrolling

InitIn(scenarios) ==
    /\ Init /\ RingInit
    /\ scenario \in scenarios /\ dims \in SizesOf[scenario]
In(name, step) == scenario = name /\ step /\ UNCHANGED <<ringVars, scenario>>

PrintSpec ==
    InitIn({"print"}) /\ [][PrintNext /\ UNCHANGED scenario]_mcVars
CommandNext ==
    \/ In("region", RegionNext) \/ In("edit", EditNext)
    \/ In("alt", AltNext /\ dims' \in SizesOf["alt"])
    \/ In("overflow", OverflowNext)
CommandSpec ==
    InitIn({"region", "edit", "alt", "overflow"}) /\ [][CommandNext]_mcVars
ResizeSpec == InitIn({"resize"}) /\ [][In("resize", ResizeNext)]_mcVars
=============================================================================
