--------------------------- MODULE MCIdunaPrompt ---------------------------
(***************************************************************************)
(* A code that has expired when it arrives and one that lasts five seconds,*)
(* an interval IDUNA left out or got wrong, and one longer than a call.  A*)
(* log of two slots, so that five actions go round it twice.               *)
(***************************************************************************)
EXTENDS IdunaPrompt

SomeExpiresIns == {0, 5}
SomeIntervals == {-1, 0, 3}
=============================================================================
