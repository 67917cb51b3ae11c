------------------------------ MODULE History ------------------------------
(***************************************************************************)
(* The newest part of a history: what a buffer of bounded capacity holds   *)
(* once everything in s has been put into it, oldest first.                *)
(***************************************************************************)
EXTENDS Integers, Sequences

Keep(cap, s) ==
    IF Len(s) > cap THEN SubSeq(s, Len(s) - cap + 1, Len(s)) ELSE s
=============================================================================
