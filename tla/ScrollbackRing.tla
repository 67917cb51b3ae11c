--------------------------- MODULE ScrollbackRing ---------------------------
(***************************************************************************)
(* internal/vterm/scrollback.go: the ring buffer of saved lines.  Screen   *)
(* takes it for the sequence sb; this module is the ring itself, with the  *)
(* index arithmetic of push and line.  It is used under Screen.mu only.    *)
(***************************************************************************)
EXTENDS Integers, Sequences

CONSTANTS
    Items,      \* the lines
    Nil,        \* a slot nothing was stored in
    Capacity    \* len(sb.lines)

ASSUME CapacityAssumption == Capacity \in Nat \ {0}

VARIABLES
    lines,      \* the slots
    head,       \* index of the oldest line
    count       \* number of valid lines

ringVars == <<lines, head, count>>

Slots == 0 .. Capacity - 1

RingTypeOK ==
    /\ lines \in [Slots -> Items \union {Nil}]
    /\ head \in Slots
    /\ count \in 0 .. Capacity

RingInit ==
    /\ lines = [s \in Slots |-> Nil]
    /\ head = 0 /\ count = 0

PushFree(x) ==
    /\ count < Capacity
    /\ lines' = [lines EXCEPT ![(head + count) % Capacity] = x]
    /\ count' = count + 1
    /\ UNCHANGED head

\* Mutants of PushFull: the head does not wrap; the new line goes behind the
\* head and not over it.
PushFullNoWrap(x) ==
    /\ count = Capacity
    /\ lines' = [lines EXCEPT ![head] = x]
    /\ head' = head + 1
    /\ UNCHANGED count
PushFullBehindHead(x) ==
    /\ count = Capacity
    /\ lines' = [lines EXCEPT ![(head + 1) % Capacity] = x]
    /\ head' = (head + 1) % Capacity
    /\ UNCHANGED count

\* The oldest line is overwritten.
PushFull(x) ==
    /\ count = Capacity
    /\ lines' = [lines EXCEPT ![head] = x]
    /\ head' = (head + 1) % Capacity
    /\ UNCHANGED count

Push(x) == PushFree(x) \/ PushFull(x)

Line(i) ==
    IF i < 0 \/ i >= count THEN Nil ELSE lines[(head + i) % Capacity]

RingNext == \E x \in Items : Push(x)

RingSpec == RingInit /\ [][RingNext]_ringVars
-----------------------------------------------------------------------------
\* What Snapshot reads: line(0) .. line(Len() - 1).
Contents == [i \in 1 .. count |-> Line(i - 1)]

Log == INSTANCE BoundedLog WITH log <- Contents

\* IsBoundedLog: read through line(), the ring is the newest Capacity lines in
\* the order they were pushed, before, while and after it wraps.
IsBoundedLog == Log!Spec
=============================================================================
