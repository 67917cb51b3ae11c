---------------------------- MODULE SharedScreen ----------------------------
(***************************************************************************)
(* The goroutines of main.go that write to the one Screen: the loop that   *)
(* reads the connection (main.go:638) and runIdunaPrompt, started beside   *)
(* it (main.go:613).  Screen.mu is held for one Write, so that the bytes of*)
(* a Write stay together; the parser between two Writes belongs to neither.*)
(*                                                                         *)
(* The prompt writes whole lines.  The connection's bytes come cut wherever*)
(* Read cut them.  Chunks says what each writer may write at once.         *)
(***************************************************************************)
EXTENDS Parser

CONSTANTS
    Writers,
    Chunks,         \* Chunks[w]: what a Write of w may hold
    MaxBytes        \* MaxBytes[w]: bound on the bytes w writes in all

ASSUME ChunksAssumption == \A w \in Writers : Chunks[w] \subseteq Seq(Bytes)

VARIABLES
    parser,         \* the parser fields of the Screen
    fed,            \* auxiliary: every byte of each writer's Writes, in order,
    shown,          \* ... the events its Writes completed,
    owner,          \* ... whose Write was the last,
    cut             \* ... and whether one began inside another's command

writeVars == <<parser, fed, shown, owner, cut>>

WriteInit ==
    /\ parser = Ground
    /\ fed = [w \in Writers |-> <<>>]
    /\ shown = [w \in Writers |-> <<>>]
    /\ owner \in Writers
    /\ cut = FALSE

UnderWay == parser.esc # <<>> \/ parser.utf8 # <<>>

\* Mutant of Write: the accumulators are variables of the call.
WriteFromGround(w, data) ==
    LET after == Feed([Ground EXCEPT !.title = parser.title], data) IN
    /\ Len(fed[w]) + Len(data) <= MaxBytes[w]
    /\ parser' = [Ground EXCEPT !.title = after.title]
    /\ fed' = [fed EXCEPT ![w] = @ \o data]
    /\ shown' = [shown EXCEPT ![w] = @ \o after.out]
    /\ owner' = w
    /\ UNCHANGED cut

Write(w, data) ==
    LET after == Feed(parser, data) IN
    /\ Len(fed[w]) + Len(data) <= MaxBytes[w]
    /\ parser' = [after EXCEPT !.out = <<>>]
    /\ fed' = [fed EXCEPT ![w] = @ \o data]
    /\ shown' = [shown EXCEPT ![w] = @ \o after.out]
    /\ owner' = w
    /\ cut' = (cut \/ (w # owner /\ UnderWay))

WriteNext == \E w \in Writers : \E data \in Chunks[w] : Write(w, data)

WriteSpec == WriteInit /\ [][WriteNext]_writeVars
-----------------------------------------------------------------------------
(***************************************************************************)
(* What a stream of bytes means: the events' bytes, in order, are the      *)
(* stream, and each is a sentence of the grammar of its kind.              *)
(***************************************************************************)
None(s, S) == \A i \in DOMAIN s : s[i] \notin S
Inner(s) == SubSeq(s, 3, Len(s) - 1)

Ended(s) == \/ s # <<>> /\ s[Len(s)] = BEL
            \/ Len(s) >= 2 /\ s[Len(s) - 1] = ESC /\ s[Len(s)] = "\\"

IsRune(s) == /\ s # <<>> /\ s[1] \in Lead /\ Len(s) <= utf8SeqLen(s[1])
             /\ None(Tail(s), Bytes \ {Cont})
IsCSI(s) == /\ Len(s) >= 2 /\ s[1] = ESC /\ s[2] = "["
            /\ None(Inner(s), Final)
IsOSC(s) == /\ Len(s) >= 2 /\ s[1] = ESC /\ s[2] = "]"
            /\ \A i \in 3 .. Len(s) - 1 : ~Ended(SubSeq(s, 3, i))

Grammatical(e) ==
    LET s == e.bytes IN
    CASE e.kind = "text"    -> Len(s) = 1 /\ None(s, Control \union Lead \union {ESC})
      [] e.kind = "control" -> Len(s) = 1 /\ s[1] \in Control
      [] e.kind = "rune"    -> IsRune(s) /\ Len(s) = utf8SeqLen(s[1])
      [] e.kind = "bad"     -> IsRune(s) /\ Len(s) < utf8SeqLen(s[1])
      [] e.kind = "csi"     -> IsCSI(s) /\ Len(s) > 2 /\ s[Len(s)] \in Final
      [] e.kind = "osc"     -> IsOSC(s) /\ Ended(SubSeq(s, 3, Len(s)))
      [] e.kind = "esc"     -> Len(s) = 2 /\ s[1] = ESC /\ s[2] \in Known
      [] e.kind = "unknown" -> Len(s) = 2 /\ s[1] = ESC /\ s[2] \in Final
      [] e.kind = "dropped" -> \/ IsCSI(s) /\ Len(s) > CsiLimit
                               \/ IsOSC(s) /\ Len(s) > OscLimit

Joined(events) == FoldLeft(LAMBDA s, e : s \o e.bytes, <<>>, events)

\* ReadsTheGrammar: however its Writes cut them, a writer's bytes are split into
\* the commands of the grammar, the first that end; none is lost, none is read
\* twice, and what is in an accumulator is the start of the next.  Another
\* writer's bytes between two of its commands change nothing of that, and the
\* continuation bytes of a title are not taken from it for a rune.
Pending(w) == IF w = owner THEN parser.esc \o parser.utf8 ELSE <<>>
ReadsTheGrammar ==
    ~cut => \A w \in Writers :
        /\ \A i \in DOMAIN shown[w] : Grammatical(shown[w][i])
        /\ Joined(shown[w]) \o Pending(w) = fed[w]

\* BuffersAreBounded: an accumulator is no longer than its safety valve, except
\* after an ESC that Write does not know and does not end.
BuffersAreBounded ==
    \/ Len(parser.esc) <= 2
    \/ parser.esc[2] = "[" /\ Len(parser.esc) <= CsiLimit
    \/ parser.esc[2] = "]" /\ Len(parser.esc) <= OscLimit
    \/ parser.esc[2] \notin Known \union Final

\* AsIfAlone: as long as no Write begins inside a command of another writer, the
\* screen does for each writer what it would do without the other.
EachAlone == \A w \in Writers : shown[w] = Feed(Ground, fed[w]).out
AsIfAlone == ~cut => EachAlone

\* What the source says, and the code does not do.

\* ConcurrentWritesAreSafe: vterm.go:26, "Safe for concurrent use."  The prompt's
\* line lands inside a sequence that the connection's last Read cut in two.
ConcurrentWritesAreSafe == EachAlone

\* UnknownEscEnds: vterm.go:375, "consume and reset if it's a terminator".  After
\* ESC ( the terminator that follows is not looked at, nor is any byte after it.
UnknownEscEnds ==
    /\ Len(parser.esc) >= 3
    /\ parser.esc[2] = "("
    => None(parser.esc, Final)

\* StrayByteIsReplaced: vterm.go:131, "invalid byte sequences are replaced with
\* U+FFFD".  A continuation byte with no lead is put as the rune of its value.
StrayByteIsReplaced ==
    \A w \in Writers : \A i \in DOMAIN shown[w] :
        shown[w][i].kind = "text" => shown[w][i].bytes # <<Cont>>
=============================================================================
