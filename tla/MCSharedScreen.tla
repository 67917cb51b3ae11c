--------------------------- MODULE MCSharedScreen ---------------------------
(***************************************************************************)
(* A connection whose Reads return any byte at a time, and the prompt, that*)
(* writes a line of coloured text as solGold does; or, in behaviours of    *)
(* their own, the numbers of one command after the other.                  *)
(***************************************************************************)
EXTENDS SharedScreen, Params

Colour == <<ESC, "[", "digit", "final">>
Line == Colour \o <<"digit">> \o Colour

AnyByte == [w \in Writers |->
               IF w = "prompt" THEN {Line} ELSE {<<b>> : b \in Bytes}]
Limit == [w \in Writers |-> IF w = "prompt" THEN Len(Line) ELSE 4]

SomeDigits ==
    [c \in {"0", "1", "9"} |-> CASE c = "0" -> 0 [] c = "1" -> 1 [] c = "9" -> 9]

ParserInit == WriteInit /\ ParamsInit
ParserNext ==
    \/ params = <<>> /\ pos = 0 /\ WriteNext /\ UNCHANGED paramVars
    \/ (\A w \in Writers : fed[w] = <<>>) /\ ParamsNext /\ UNCHANGED writeVars
ParserSpec == ParserInit /\ [][ParserNext]_<<writeVars, paramVars>>
=============================================================================
