-------------------------------- MODULE Ints --------------------------------
(***************************************************************************)
(* Go's int: -(MaxInt + 1) .. MaxInt, in which sums and products wrap round*)
(* silently.  parseNums of internal/vterm/vterm.go adds up the digits of an*)
(* escape sequence without a limit, and the cursor commands and the loops  *)
(* over cells add its numbers to positions, so that every number of the    *)
(* type can turn up there.                                                 *)
(***************************************************************************)
EXTENDS Integers

CONSTANT MaxInt         \* 2^63 - 1 in the builds

ASSUME IntAssumption == MaxInt \in Nat \ {0}

Ints == -(MaxInt + 1) .. MaxInt
Wrap(n) == ((n + MaxInt + 1) % (2 * (MaxInt + 1))) - (MaxInt + 1)
=============================================================================
