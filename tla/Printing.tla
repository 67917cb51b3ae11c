------------------------------ MODULE Printing ------------------------------
(***************************************************************************)
(* A program that only prints and moves the cursor, in front of a user who *)
(* scrolls back: the screen composed with the ring that the source keeps   *)
(* the saved lines in, run beside the sequence sb that Screen takes it for.*)
(***************************************************************************)
EXTENDS ScreenProperties, ScrollbackRing

ASSUME RingAssumption == Items = Lines /\ Capacity = MaxScrollback

AbsoluteMotion == \E r \in Rows, c \in 0 .. cols - 1 : CursorPosition(r, c)

\* A scroll pushes the line that leaves the screen, and nothing else does.
ScrollsLine == LineFeedScroll \/ \E ch \in Glyphs : PutScrolled(ch)
PrintNext ==
    \/ ~panicked /\ TextOutput /\ ScrollsLine /\ Push(cells[0])
    \/ /\ \/ ~panicked /\ (TextOutput \/ AbsoluteMotion) /\ ~ScrollsLine
          \/ Scrolling
       /\ UNCHANGED ringVars

OneSize == CHOOSE d \in Sizes : TRUE

PrintingSpec ==
    /\ Init /\ RingInit /\ dims = OneSize
    /\ [][PrintNext]_<<vars, ringVars>>
-----------------------------------------------------------------------------
\* RingIsScrollback: what Snapshot reads from the ring, line(0) .. line(Len()-1),
\* is the scrollback of Screen, and stays so when the ring wraps.
RingIsScrollback == Contents = sb

\* The paper is the scrollback followed by the live screen.
Ch(l) == [j \in DOMAIN l |-> l[j].ch]
AllLines == sb \o TopLines(cells, rows)
Roll == [i \in DOMAIN AllLines |-> Ch(AllLines[i])]
Paper == INSTANCE Teletype WITH
    Width <- OneSize[1], Height <- OneSize[2], Capacity <- MaxScrollback,
    paper <- Roll, line <- curRow, column <- curCol

\* IsTeletype: to a program that only prints, the grid, the wrapping cursor and
\* the scrollback together are one roll of paper: nothing printed is lost,
\* doubled or moved out of order on its way from the screen to the scrollback.
IsTeletype == Paper!Spec
=============================================================================
