----------------------------- MODULE MCSession -----------------------------
(***************************************************************************)
(* A grid of two by two cells, a window that is wider, and one in which no *)
(* row fits.  A shell's user does more, and the MUD writes more.           *)
(***************************************************************************)
EXTENDS Session

TwoByTwo == <<2, 2>>
SomeWindows == {<<3, 2>>, <<2, 0>>}
SomeWrites == [m \in Modes |-> IF m = "shell" THEN 1 ELSE 3]
SomeActs == [m \in Modes |-> IF m = "shell" THEN 3 ELSE 1]
=============================================================================
