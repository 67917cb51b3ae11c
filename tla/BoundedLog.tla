----------------------------- MODULE BoundedLog -----------------------------
(***************************************************************************)
(* What both ring buffers of the program promise: a log that holds the     *)
(* newest Capacity of the items put into it, oldest first.  The abstract   *)
(* side of ScrollbackRing and of Reflux; it has no slots and no indices.   *)
(***************************************************************************)
EXTENDS History

CONSTANTS Items, Capacity

VARIABLE log

Init == log = <<>>
Put(x) == log' = Keep(Capacity, Append(log, x))
Next == \E x \in Items : Put(x)
Spec == Init /\ [][Next]_log
=============================================================================
