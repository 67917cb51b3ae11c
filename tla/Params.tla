------------------------------- MODULE Params -------------------------------
(***************************************************************************)
(* From the digits of an escape sequence to the cursor: parseNums, numOr1  *)
(* and clamp of internal/vterm/vterm.go, and the cursor commands that use  *)
(* them.  The program types one parameter string after the other, each     *)
(* ended by a command; only one coordinate of the cursor is kept, as the   *)
(* source treats both alike.                                               *)
(*                                                                         *)
(* Screen.tla takes any int as the count that comes of this.               *)
(***************************************************************************)
EXTENDS Ints, Sequences, FiniteSetsExt, SequencesExt

CONSTANTS
    Extent,         \* rows or columns of the screen
    Digits,         \* the digits typed, a function from characters to 0 .. 9
    MaxParams       \* bound on the length of a parameter string

ASSUME ParamsAssumption ==
    /\ Extent \in 1 .. MaxInt
    /\ \A c \in DOMAIN Digits : Digits[c] \in 0 .. 9

VARIABLES
    params,         \* the parameter string so far
    pos             \* curRow or curCol

paramVars == <<params, pos>>

\* Characters 0x20 .. 0x3F that are neither a digit nor a semicolon are skipped.
Chars == DOMAIN Digits \union {";", "?"}
Commands == {"up", "down", "previous", "next", "absolute", "absolute2"}

ParamsInit == params = <<>> /\ pos = 0
-----------------------------------------------------------------------------
ParseChar(acc, c) ==
    IF c \in DOMAIN Digits
    THEN [acc EXCEPT !.cur = Wrap(@ * 10 + Digits[c])]
    ELSE IF c = ";" THEN [nums |-> Append(acc.nums, acc.cur), cur |-> 0]
    ELSE acc

\* Mutant of parseNums: a number only ends at a semicolon.
parseNumsTerminated(s) ==
    FoldLeft(ParseChar, [nums |-> <<>>, cur |-> 0], s).nums

parseNums(s) ==
    LET last == FoldLeft(ParseChar, [nums |-> <<>>, cur |-> 0], s) IN
    IF s = <<>> THEN <<>> ELSE Append(last.nums, last.cur)

numOr1(nums, i) == IF i > Len(nums) \/ nums[i] = 0 THEN 1 ELSE nums[i]
clamp(v, min, max) == IF v < min THEN min ELSE IF v > max THEN max ELSE v
-----------------------------------------------------------------------------
Type(c) ==
    /\ Len(params) < MaxParams
    /\ params' = Append(params, c) /\ UNCHANGED pos

\* A and D; B and C; F; E; G, d and the first parameter of H; the second of H.
Arrives(command) ==
    LET nums == parseNums(params)
        n == numOr1(nums, 1)
        at(i) == IF Len(nums) >= i /\ nums[i] > 0 THEN nums[i] - 1 ELSE 0
        back == Wrap(pos - n)
        forth == Wrap(pos + n)
    IN CASE command = "up"        -> IF back < 0 THEN 0 ELSE back
         [] command = "down"      -> IF forth >= Extent THEN Extent - 1 ELSE forth
         [] command = "previous"  -> clamp(back, 0, Extent - 1)
         [] command = "next"      -> clamp(forth, 0, Extent - 1)
         [] command = "absolute"  -> clamp(at(1), 0, Extent - 1)
         [] command = "absolute2" -> clamp(at(2), 0, Extent - 1)

Move(command) == pos' = Arrives(command) /\ params' = <<>>

\* A cursor off the grid is left alone here: Screen.tla has what becomes of it.
ParamsNext ==
    /\ pos \in 0 .. Extent - 1
    /\ \/ \E c \in Chars : Type(c)
       \/ \E command \in Commands : Move(command)
-----------------------------------------------------------------------------
(***************************************************************************)
(* What a parameter string says: the fields between its semicolons, each   *)
(* the number its digits write, without a limit.                           *)
(***************************************************************************)
FieldOf(i) == 1 + Cardinality({j \in 1 .. i - 1 : params[j] = ";"})
DigitsOf(k) ==
    {i \in DOMAIN params : params[i] \in DOMAIN Digits /\ FieldOf(i) = k}
Written(k) ==
    MapThenSumSet(LAMBDA i : Digits[params[i]] * 10 ^ Cardinality({j \in DigitsOf(k) : j > i}),
                  DigitsOf(k))
Fits == \A k \in 1 .. Len(params) + 1 : Written(k) <= MaxInt - Extent

\* Where a terminal without limits would put the cursor: an absent number or a
\* zero is a one, and motion stops at the edges of the screen.
Meant(command) ==
    LET count(k) == IF Written(k) = 0 THEN 1 ELSE Written(k) IN
    CASE command \in {"up", "previous"} -> clamp(pos - count(1), 0, Extent - 1)
      [] command \in {"down", "next"}   -> clamp(pos + count(1), 0, Extent - 1)
      [] command = "absolute"           -> clamp(count(1) - 1, 0, Extent - 1)
      [] command = "absolute2"          -> clamp(count(2) - 1, 0, Extent - 1)

\* MovesAsWritten: whatever is typed before it, a cursor command puts the cursor
\* where its numbers say and never off the grid, as long as no number reaches
\* the limit of int, which parseNums and the additions after it do not check.
MovesAsWritten ==
    [][\A command \in Commands :
          Fits /\ Move(command) => pos' = Meant(command)]_paramVars
=============================================================================
