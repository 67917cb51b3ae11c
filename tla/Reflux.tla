------------------------------- MODULE Reflux -------------------------------
(***************************************************************************)
(* internal/reflux/reflux.go: the shared action log.  Dispatch, LogSize    *)
(* and ActionAt of the package each hold globalMu, so each is one step; a  *)
(* subscriber that asks for the size and then for an action takes two, and *)
(* dispatchers run in between.                                             *)
(*                                                                         *)
(* The package has no subscriber yet.  The one here is what its header     *)
(* describes, one that "can poll from a remembered cursor": it reads the   *)
(* action at its cursor while the cursor is below LogSize.                 *)
(***************************************************************************)
EXTENDS Integers, Sequences

CONSTANTS
    Items,          \* the actions
    Nil,            \* the zero Action
    Capacity        \* logCapacity, not 0

VARIABLES
    actions, totalDispatched,
    dispatched,     \* auxiliary: every action dispatched, in order
    cursor,         \* the subscriber's: how many actions it has taken
    polling,        \* it has seen that there is an action at its cursor
    seen            \* the actions it has taken

log == <<actions, totalDispatched, dispatched>>
subscriber == <<cursor, polling, seen>>
vars == <<log, subscriber>>

Slots == 0 .. Capacity - 1

TypeOK ==
    /\ actions \in [Slots -> Items \union {Nil}]
    /\ totalDispatched \in Nat
    /\ dispatched \in Seq(Items)
    /\ cursor \in Nat
    /\ polling \in BOOLEAN
    /\ seen \in Seq(Items \union {Nil})

Init ==
    /\ actions = [s \in Slots |-> Nil]
    /\ totalDispatched = 0
    /\ dispatched = <<>>
    /\ cursor = 0 /\ polling = FALSE /\ seen = <<>>

\* Mutant of Dispatch: the slot is chosen after the counter has moved.
DispatchLate(x) ==
    /\ actions' = [actions EXCEPT ![(totalDispatched + 1) % Capacity] = x]
    /\ totalDispatched' = totalDispatched + 1
    /\ dispatched' = Append(dispatched, x)
    /\ UNCHANGED subscriber

Dispatch(x) ==
    /\ actions' = [actions EXCEPT ![totalDispatched % Capacity] = x]
    /\ totalDispatched' = totalDispatched + 1
    /\ dispatched' = Append(dispatched, x)
    /\ UNCHANGED subscriber

Length == IF totalDispatched < Capacity THEN totalDispatched ELSE Capacity

At(index) ==
    IF index < 0 \/ index >= Length THEN Nil
    ELSE IF totalDispatched <= Capacity THEN actions[index]
    ELSE actions[((totalDispatched % Capacity) + index) % Capacity]

\* Mutant of PollSize: <= for <.
PollSizeInclusive ==
    /\ ~polling /\ cursor <= Length
    /\ polling' = TRUE
    /\ UNCHANGED <<log, cursor, seen>>

PollSize ==
    /\ ~polling /\ cursor < Length
    /\ polling' = TRUE
    /\ UNCHANGED <<log, cursor, seen>>

PollAction ==
    /\ polling
    /\ seen' = Append(seen, At(cursor))
    /\ cursor' = cursor + 1
    /\ polling' = FALSE
    /\ UNCHANGED log

Next == (\E x \in Items : Dispatch(x)) \/ PollSize \/ PollAction

Spec == Init /\ [][Next]_vars
-----------------------------------------------------------------------------
Contents == [i \in 1 .. Length |-> At(i - 1)]

Abstract == INSTANCE BoundedLog WITH log <- Contents

\* IsBoundedLog: the actions at 0 .. Length-1 are the newest Capacity actions
\* in the order they were dispatched; polling does not change them.
IsBoundedLog == Abstract!Spec

\* PollsInOrder: until the log wraps, a subscriber takes exactly the actions
\* dispatched, in order and each once, whatever is dispatched between its two
\* calls.
PollsInOrder ==
    totalDispatched <= Capacity =>
        cursor <= Len(dispatched) /\ seen = SubSeq(dispatched, 1, cursor)

\* CursorKeepsUp: reflux.go:4, "any subscriber can poll from a remembered
\* cursor": one with nothing left to poll has seen the latest action.  Once the
\* log has wrapped LogSize stays at its capacity, and the cursor never moves.
CursorKeepsUp ==
    ~polling /\ cursor = Length /\ dispatched # <<>>
        => seen[Len(seen)] = dispatched[Len(dispatched)]
=============================================================================
