------------------------------ MODULE Teletype ------------------------------
(***************************************************************************)
(* What the terminal promises a program that only prints: it is a teletype *)
(* over one roll of paper.  Text is printed at the head; at the bottom of  *)
(* the window the paper is fed, and what has been printed moves up and is  *)
(* never changed again by feeding; only the oldest lines are torn off, when*)
(* more than Capacity of them are above the window.                        *)
(*                                                                         *)
(* The abstract side of Screen: it knows neither a grid nor a scrollback,  *)
(* nor that lines pass from one to the other.                              *)
(***************************************************************************)
EXTENDS Integers, Sequences

CONSTANTS Glyphs, Space, Width, Height, Capacity

VARIABLES
    paper,      \* the lines of the roll, the last Height of them in the window
    line,       \* the line of the head in the window
    column      \* its column; Width when the next glyph will wrap

Blank == [j \in 0 .. Width - 1 |-> Space]

Init ==
    /\ paper = [i \in 1 .. Height |-> Blank]
    /\ line = 0 /\ column = 0

Torn(roll) ==
    IF Len(roll) > Capacity + Height THEN Tail(roll) ELSE roll

AtBottom == line = Height - 1
Fed == IF AtBottom THEN Torn(Append(paper, Blank)) ELSE paper
LineBelow == IF AtBottom THEN line ELSE line + 1

Struck(roll, l, c, ch) ==
    [roll EXCEPT ![Len(roll) - Height + l + 1][c] = ch]

Strike(ch) ==
    /\ column < Width
    /\ paper' = Struck(paper, line, column, ch)
    /\ column' = column + 1
    /\ UNCHANGED line

StrikeOnNextLine(ch) ==
    /\ column = Width
    /\ paper' = Struck(Fed, LineBelow, 0, ch)
    /\ line' = LineBelow /\ column' = 1

Feed == paper' = Fed /\ line' = LineBelow /\ UNCHANGED column

\* Carriage return, backspace, tab and every cursor movement.
MoveHead ==
    /\ line' \in 0 .. Height - 1 /\ column' \in 0 .. Width
    /\ UNCHANGED paper

Next ==
    \/ \E ch \in Glyphs : Strike(ch) \/ StrikeOnNextLine(ch)
    \/ Feed \/ MoveHead

Spec == Init /\ [][Next]_<<paper, line, column>>
=============================================================================
