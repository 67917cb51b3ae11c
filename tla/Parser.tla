------------------------------- MODULE Parser -------------------------------
(***************************************************************************)
(* How Screen.Write of internal/vterm/vterm.go reads bytes: UTF-8          *)
(* sequences, escape sequences and what is neither, with the two           *)
(* accumulators that live in the Screen from one Write to the next.  A     *)
(* pure module: Feed(p, data) is the parser after Write(data).             *)
(*                                                                         *)
(* A byte is its class: what the source tells apart.  What the parser asks *)
(* of the screen is an event, in p.out, that carries the bytes it was made *)
(* of; Screen.tla has what each does to the cells.                         *)
(***************************************************************************)
EXTENDS Integers, Sequences, SequencesExt

CONSTANTS
    CsiLimit, OscLimit      \* the safety valves, 64 and 256 bytes

ASSUME LimitsAssumption == CsiLimit \in Nat /\ OscLimit \in Nat

ESC == "ESC"
BEL == "BEL"
Control == {"ctl", BEL}             \* 00 .. 1F without ESC
Param == {"digit", ";", "("}        \* 20 .. 3F
Known == {"7", "c", "M"}            \* 7 8; c and M are finals too
Final == {"[", "]", "\\", "final", "c", "M"}    \* 40 .. 7E
Cont == "cont"                      \* 80 .. BF
Lead == {"lead2", "lead3"}          \* C0 .. FF
Bytes == {ESC} \union Control \union Param \union Known \union Final
            \union {Cont} \union Lead

utf8SeqLen(lead) == IF lead = "lead2" THEN 2 ELSE 3

\* The fields of Screen that Write keeps between calls, and the events so far.
Ground == [esc |-> <<>>, utf8 |-> <<>>, title |-> <<>>, out |-> <<>>]

Emit(p, kind, bytes) ==
    [p EXCEPT !.out = Append(@, [kind |-> kind, bytes |-> bytes])]
-----------------------------------------------------------------------------
(***************************************************************************)
(* UTF-8.                                                                  *)
(***************************************************************************)
BreaksRune(b) == b # Cont

\* The pending bytes become one U+FFFD.
FlushRune(p) == [Emit(p, "bad", p.utf8) EXCEPT !.utf8 = <<>>]

\* DecodeRune gives the rune, or U+FFFD for a sequence that encodes none.
ContinueRune(p) ==
    LET u == Append(p.utf8, Cont) IN
    IF Len(u) >= utf8SeqLen(u[1])
    THEN [Emit(p, "rune", u) EXCEPT !.utf8 = <<>>]
    ELSE [p EXCEPT !.utf8 = u]
-----------------------------------------------------------------------------
(***************************************************************************)
(* handleEsc, with e the bytes so far.  The command ends, is dropped, or   *)
(* waits for more.                                                         *)
(***************************************************************************)
Ends(p, kind, e) == [Emit(p, kind, e) EXCEPT !.esc = <<>>]
Waits(p, e) == [p EXCEPT !.esc = e]
\* Mutant of DropsOver: no safety valve.
DropsNothing(p, e, limit) == Waits(p, e)
DropsOver(p, e, limit) ==
    IF Len(e) > limit THEN Ends(p, "dropped", e) ELSE Waits(p, e)

\* handleOSC: commands 0, 1 and 2 set the title to what follows the semicolon.
TitleOf(payload, old) ==
    IF Len(payload) >= 2 /\ payload[1] = "digit" /\ payload[2] = ";"
    THEN SubSeq(payload, 3, Len(payload))
    ELSE old
EndsOSC(p, e, terminator) ==
    [Ends(p, "osc", e) EXCEPT
        !.title = TitleOf(SubSeq(e, 3, Len(e) - terminator), @)]

OSC(p, e) ==
    IF e[Len(e)] = BEL THEN EndsOSC(p, e, 1)
    ELSE IF e[Len(e) - 1] = ESC /\ e[Len(e)] = "\\" THEN EndsOSC(p, e, 2)
    ELSE DropsOver(p, e, OscLimit)

\* Mutant of CSI: '[' itself, a final byte, ends the sequence it opens.
CSIShort(p, e) ==
    IF e[Len(e)] \in Final THEN Ends(p, "csi", e) ELSE DropsOver(p, e, CsiLimit)
CSI(p, e) ==
    IF Len(e) < 3 THEN Waits(p, e)
    ELSE IF e[Len(e)] \in Final THEN Ends(p, "csi", e)
    ELSE DropsOver(p, e, CsiLimit)

KnownEsc(p, e) == Ends(p, "esc", e)

\* "Unknown ESC byte -- consume and reset if it's a terminator": the byte that
\* is tested is the one after ESC, whatever has come since.
UnknownEsc(p, e) == IF e[2] \in Final THEN Ends(p, "unknown", e) ELSE Waits(p, e)

HandleEsc(p, e) ==
    CASE e[2] = "]"      -> OSC(p, e)
      [] e[2] = "["      -> CSI(p, e)
      [] e[2] \in Known  -> KnownEsc(p, e)
      [] OTHER           -> UnknownEsc(p, e)
-----------------------------------------------------------------------------
(***************************************************************************)
(* The loop of Write.                                                      *)
(***************************************************************************)
\* Neither accumulator is in use.  A stray continuation byte is >= 0x20, and is
\* put on the screen as the rune of its value.
Plain(p, b) ==
    CASE b = ESC       -> [p EXCEPT !.esc = <<ESC>>]
      [] b \in Lead    -> [p EXCEPT !.utf8 = <<b>>]
      [] b \in Control -> Emit(p, "control", <<b>>)
      [] OTHER         -> Emit(p, "text", <<b>>)

Consume(p, b) ==
    LET q == IF p.utf8 # <<>> /\ BreaksRune(b) THEN FlushRune(p) ELSE p IN
    IF q.utf8 # <<>> /\ b = Cont THEN ContinueRune(q)
    ELSE IF q.esc # <<>> THEN HandleEsc(q, Append(q.esc, b))
    ELSE Plain(q, b)

Feed(p, data) == FoldLeft(Consume, p, data)
=============================================================================
