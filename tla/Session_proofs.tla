--------------------------- MODULE Session_proofs ---------------------------
(***************************************************************************)
(* The sizes and the logins of a session, for every mode, window, number of*)
(* writes and order of events.                                             *)
(***************************************************************************)
EXTENDS Session, SequenceTheorems, TLAPS

Kinds == {"quit", "resized", "key"}
Sizes == (Nat \ {0}) \X (Nat \ {0})

(***************************************************************************)
(* Sizes.  A change of the window that the grid does not show is an event  *)
(* in the queue, or one the splash took; a grid the remote was not told of *)
(* is one the main goroutine is about to tell.                             *)
(***************************************************************************)
Settled == dims = CellsOf(window) \/ (dims = Grid /\ window = FirstWindow)

SizeTypeOK ==
    /\ events \in Seq(Kinds) /\ missed \in BOOLEAN
    /\ window \in Nat \X Nat /\ dims \in Sizes
QueueInv == "resized" \notin Range(events) /\ ~missed => Settled
ToldInv ==
    ~GfdMode /\ remote = "up" /\ main \notin {"resized", "crashed"} => told = dims

SizeInv == SizeTypeOK /\ QueueInv /\ ToldInv

LEMMA CellsType ==
    ASSUME NEW w \in Nat \X Nat
    PROVE /\ CellsOf(w) \in Sizes
          /\ \A d \in Sizes : d[1] = CellsOf(w)[1] /\ d[2] = CellsOf(w)[2]
                                 => d = CellsOf(w)
<1>1. \A x \in Nat : Max({x, 1}) \in Nat \ {0}
  <2> TAKE x \in Nat
  <2>1. CASE x >= 1
    <3>1. x \in {x, 1} /\ \A y \in {x, 1} : x >= y
      BY <2>1
    <3> QED BY <3>1 DEF Max
  <2>2. CASE x < 1
    <3>1. 1 \in {x, 1} /\ \A y \in {x, 1} : 1 >= y
      BY <2>2
    <3>2. \A y \in {x, 1} : (\A z \in {x, 1} : y >= z) => y = 1
      BY <2>2
    <3> QED BY <3>1, <3>2 DEF Max
  <2> QED BY <2>1, <2>2
<1>2. w[1] \in Nat /\ w[2] \in Nat
  OBVIOUS
<1>3. CellsOf(w) = <<Max({w[1], 1}), Max({w[2], 1})>>
  BY DEF CellsOf
<1>4. /\ Max({w[1], 1}) \in Nat \ {0}
      /\ Max({w[2], 1}) \in Nat \ {0}
  BY <1>1, <1>2
<1> QED BY <1>3, <1>4 DEF Sizes
\* The kinds of event in a queue that gains or loses one.
LEMMA QueueGains ==
    ASSUME NEW q \in Seq(Kinds), NEW e \in Kinds
    PROVE /\ Append(q, e) \in Seq(Kinds)
          /\ Range(Append(q, e)) = Range(q) \union {e}
<1>1. /\ Len(q) \in Nat /\ Append(q, e) \in Seq(Kinds)
      /\ DOMAIN q = 1 .. Len(q) /\ DOMAIN Append(q, e) = 1 .. Len(q) + 1
      /\ \A i \in 1 .. Len(q) : Append(q, e)[i] = q[i]
      /\ Append(q, e)[Len(q) + 1] = e
  BY LenProperties
<1> QED BY <1>1 DEF Range

LEMMA QueueLoses ==
    ASSUME NEW q \in Seq(Kinds), q # <<>>
    PROVE /\ Tail(q) \in Seq(Kinds) /\ Head(q) \in Kinds
          /\ Range(q) = {Head(q)} \union Range(Tail(q))
<1>1. /\ Len(q) \in Nat \ {0} /\ DOMAIN q = 1 .. Len(q)
      /\ Tail(q) \in Seq(Kinds) /\ Head(q) \in Kinds /\ Head(q) = q[1]
      /\ Len(Tail(q)) = Len(q) - 1 /\ DOMAIN Tail(q) = 1 .. Len(q) - 1
      /\ \A i \in 1 .. Len(q) - 1 : Tail(q)[i] = q[i + 1]
  BY EmptySeq, LenProperties, HeadTailProperties
<1>2. ASSUME NEW i \in 1 .. Len(q), i # 1 PROVE q[i] \in Range(Tail(q))
  <2>1. i - 1 \in 1 .. Len(q) - 1 /\ i - 1 + 1 = i
    BY <1>1, <1>2
  <2>2. Tail(q)[i - 1] = q[i]
    BY <1>1, <2>1
  <2> QED BY <1>1, <2>1, <2>2 DEF Range
<1>3. \A i \in 1 .. Len(q) - 1 : i + 1 \in 1 .. Len(q)
  BY <1>1
<1>4. Range(q) \subseteq {Head(q)} \union Range(Tail(q))
  BY <1>1, <1>2 DEF Range
<1>5. {Head(q)} \union Range(Tail(q)) \subseteq Range(q)
  BY <1>1, <1>3 DEF Range
<1> QED BY <1>4, <1>5

LEMMA InitSizes == Init => SizeInv
<1> SUFFICES ASSUME Init PROVE SizeInv
  OBVIOUS
<1>1. Grid \in Sizes /\ BarRows \in Nat
  BY SessionAssumption DEF Sizes
<1>2. FirstWindow \in Nat \X Nat
  BY <1>1 DEF FirstWindow, Sizes
<1>3. events \in Seq(Kinds)
  BY EmptySeq DEF Init
<1> QED BY <1>1, <1>2, <1>3 DEF Init, SizeInv, SizeTypeOK, QueueInv, ToldInv, Settled

\* Steps that are about something else.
sizes == <<mode, events, window, dims, told, missed>>
LEMMA SizesKept ==
    ASSUME SizeInv, UNCHANGED sizes, remote' \in {remote, "gone"},
           main' = "resized" => main = "resized",
           main = "resized" => main' \in {"resized", "crashed"},
           main = "crashed" => main' = "crashed"
    PROVE SizeInv'
BY DEF SizeInv, SizeTypeOK, QueueInv, ToldInv, Settled, sizes, GfdMode, FirstWindow

\* The user puts an event into the queue; a resize is one.
LEMMA UserSizes ==
    ASSUME SizeInv, UNCHANGED mode, Quits \/ Types \/ ResizesWindow PROVE SizeInv'
<1>1. UNCHANGED <<mode, main, dims, told, missed, remote>>
  BY DEF Quits, Types, ResizesWindow, UserActs, peer
<1>2. PICK e \in Kinds :
         /\ events' = Append(events, e)
         /\ e = "resized" \/ UNCHANGED window
  BY DEF Quits, Types, ResizesWindow, UserActs, Kinds
<1>3. events' \in Seq(Kinds) /\ Range(events') = Range(events) \union {e}
  BY <1>2, QueueGains DEF SizeInv, SizeTypeOK
<1>4. window' \in Nat \X Nat
  BY SessionAssumption DEF SizeInv, SizeTypeOK, Quits, Types, ResizesWindow
<1>5. SizeTypeOK'
  BY <1>1, <1>3, <1>4 DEF SizeInv, SizeTypeOK
<1>6. QueueInv'
  <2> SUFFICES ASSUME "resized" \notin Range(events'), ~missed' PROVE Settled'
    BY DEF QueueInv
  <2>1. UNCHANGED window /\ "resized" \notin Range(events) /\ ~missed
    BY <1>1, <1>2, <1>3
  <2> QED BY <1>1, <2>1 DEF SizeInv, QueueInv, Settled, FirstWindow, GfdMode
<1>7. ToldInv'
  BY <1>1 DEF SizeInv, ToldInv, GfdMode
<1> QED BY <1>5, <1>6, <1>7 DEF SizeInv

\* The main goroutine takes an event from it, and does nothing if it is not a
\* resize, or notes that it was not handled.
LEMMA PolledSizes ==
    ASSUME SizeInv, UNCHANGED <<mode, window, dims, told, remote>>,
           events # <<>>, events' = Tail(events), missed' \in BOOLEAN,
           missed => missed', Head(events) = "resized" => missed',
           main \notin {"resized", "crashed"}
    PROVE SizeInv'
<1>1. /\ events' \in Seq(Kinds)
      /\ Range(events) = {Head(events)} \union Range(events')
  BY QueueLoses DEF SizeInv, SizeTypeOK
<1>2. SizeTypeOK'
  BY <1>1 DEF SizeInv, SizeTypeOK
<1>3. QueueInv'
  BY <1>1 DEF SizeInv, QueueInv, Settled, FirstWindow, GfdMode
<1>4. ToldInv'
  BY DEF SizeInv, ToldInv, GfdMode
<1> QED BY <1>2, <1>3, <1>4 DEF SizeInv

LEMMA ResizedSizes ==
    ASSUME SizeInv, UNCHANGED mode, HandleResized PROVE SizeInv'
<1> DEFINE d == CellsOf(window)
<1>1. d \in Sizes /\ (d[1] = dims[1] /\ d[2] = dims[2] => dims = d)
  BY CellsType DEF SizeInv, SizeTypeOK
<1>2. /\ UNCHANGED <<mode, window, told, remote>> /\ missed' = FALSE
      /\ events # <<>> /\ events' = Tail(events)
      /\ main = "drain"
  BY DEF HandleResized, Poll, MainGoes, peer
<1>3. \/ main' = "resized" /\ dims' = d
      \/ main' = "drain" /\ dims' = dims /\ dims = d
  BY <1>1 DEF HandleResized, Poll, MainGoes, SizeChanged
<1>4. dims' = CellsOf(window') /\ dims' \in Sizes
  BY <1>1, <1>2, <1>3
<1>5. SizeTypeOK'
  <2>1. events' \in Seq(Kinds)
    BY <1>2, QueueLoses DEF SizeInv, SizeTypeOK
  <2> QED BY <1>2, <1>4, <2>1 DEF SizeInv, SizeTypeOK
<1>6. QueueInv'
  BY <1>4 DEF QueueInv, Settled
<1>7. ToldInv'
  BY <1>2, <1>3 DEF SizeInv, ToldInv, GfdMode
<1> QED BY <1>5, <1>6, <1>7 DEF SizeInv

LEMMA TellSizes == ASSUME SizeInv, UNCHANGED mode, TellRemote PROVE SizeInv'
<1>1. /\ UNCHANGED <<mode, events, window, dims, missed, remote>>
      /\ told' = IF GfdMode \/ remote = "gone" THEN told ELSE dims
  BY DEF TellRemote, MainGoes, peer
<1> QED BY <1>1 DEF SizeInv, SizeTypeOK, QueueInv, ToldInv, Settled, GfdMode,
                    FirstWindow

LEMMA MainSizes == ASSUME SizeInv, UNCHANGED mode, Main PROVE SizeInv'
<1>1. CASE SplashPoll
  <2>1. /\ UNCHANGED <<mode, window, dims, told, remote>>
        /\ events # <<>> /\ events' = Tail(events)
        /\ missed' = (missed \/ Head(events) = "resized")
        /\ main = "splash"
    BY <1>1 DEF SplashPoll, MainGoes, peer
  <2>2. missed \in BOOLEAN
    BY DEF SizeInv, SizeTypeOK
  <2> QED BY <2>1, <2>2, PolledSizes
<1>2. CASE HandleQuit \/ HandleKey
  <2>1. /\ UNCHANGED <<mode, window, dims, told, remote, missed>>
        /\ events # <<>> /\ events' = Tail(events)
        /\ main = "drain" /\ Head(events) # "resized"
    BY <1>2 DEF HandleQuit, HandleKey, Poll, MainGoes, peer, screen
  <2>2. missed \in BOOLEAN
    BY DEF SizeInv, SizeTypeOK
  <2> QED BY <2>1, <2>2, PolledSizes
<1>3. CASE HandleResized
  BY <1>3, ResizedSizes
<1>4. CASE TellRemote
  BY <1>4, TellSizes
<1>5. CASE SplashEnds \/ SendKey \/ Frame \/ LoopTop \/ CloseAll
  <2>1. /\ UNCHANGED sizes /\ remote' \in {remote, "gone"}
        /\ main \notin {"resized", "crashed"} /\ main' # "resized"
    BY <1>5 DEF SplashEnds, SendKey, Frame, LoopTop, CloseAll, MainGoes, peer,
                screen, sizes
  <2> QED BY <2>1, SizesKept
<1> QED BY <1>1, <1>2, <1>3, <1>4, <1>5 DEF Main

LEMMA NextSizes == SizeInv /\ [Next]_<<mode, vars>> => SizeInv'
<1> SUFFICES ASSUME SizeInv, [Next]_<<mode, vars>> PROVE SizeInv'
  OBVIOUS
<1>1. CASE RemoteWrites \/ RemoteReads \/ RemoteEnds \/ Reader \/ PromptEnds
           \/ PromptPanics
  <2>1. /\ UNCHANGED <<events, window, dims, told, missed>>
        /\ remote' \in {remote, "gone"}
        /\ main' = main \/ main' = "crashed"
    BY <1>1 DEF RemoteWrites, RemoteReads, RemoteEnds, PromptEnds, PromptPanics,
       Reader, ReaderLoop, ReadSome, ReadFails, WriteScreen, ReadPanics, LoginStep,
       ReaderGoes, screen, peer
  <2>2. UNCHANGED mode
    BY DEF Next, vars
  <2> QED BY <2>1, <2>2, SizesKept DEF sizes
<1>2. CASE UNCHANGED <<mode, vars>>
  BY <1>2, SizesKept DEF vars, sizes, screen, peer
<1>3. CASE Next
  BY <1>1, <1>3, UserSizes, MainSizes DEF Next
<1> QED BY <1>2, <1>3

\* SizesSettle: in every mode, for all windows and however resizes of the window,
\* events and frames follow each other, a frame is drawn with a grid of the
\* window's size, and a shell that is up has been told of that size, unless the
\* splash took the event.
THEOREM SizesSettle == Spec => []SizesAgree
<1>1. SizeInv => SizesAgree
  BY DEF SizeInv, QueueInv, ToldInv, Settled, SizesAgree
<1> QED BY <1>1, InitSizes, NextSizes, PTL DEF Spec
-----------------------------------------------------------------------------
(***************************************************************************)
(* Logins.  A prompt the reader can see is one the remote wrote, and the   *)
(* two flags say exactly what was sent.                                    *)
(***************************************************************************)
Written(prompts) == {Text} \union (prompts \X {1, 2})
Named == Append(<<>>, "name")
NamedAndSecret == Append(Named, "password")

PieceInv ==
    /\ asked \in Seq(Prompts)
    /\ wire \in Seq(Written(ToSet(asked)))
    /\ chunk \in Seq(Written(ToSet(asked)))
FlagInv ==
    /\ nameSent \in BOOLEAN /\ passSent \in BOOLEAN
    /\ ~nameSent => ~passSent /\ logins = <<>>
    /\ nameSent /\ ~passSent => logins = Named
    /\ passSent => logins = NamedAndSecret
    /\ nameSent => "name" \in ToSet(asked)
    /\ passSent => "password" \in ToSet(asked)

LoginInv == PieceInv /\ FlagInv

LEMMA ToSetGains ==
    ASSUME NEW S, NEW s \in Seq(S), NEW x \in S
    PROVE ToSet(Append(s, x)) = ToSet(s) \union {x}
<1>1. /\ Len(s) \in Nat
      /\ DOMAIN s = 1 .. Len(s) /\ DOMAIN Append(s, x) = 1 .. Len(s) + 1
      /\ \A i \in 1 .. Len(s) : Append(s, x)[i] = s[i]
      /\ Append(s, x)[Len(s) + 1] = x
  BY LenProperties
<1> QED BY <1>1 DEF ToSet

LEMMA WhatIsSent ==
    /\ Named \in Seq(Prompts) /\ NamedAndSecret \in Seq(Prompts)
    /\ ToSet(<<>>) = {} /\ ToSet(Named) = {"name"}
    /\ ToSet(NamedAndSecret) = {"name", "password"}
    /\ NamedAndSecret = <<"name", "password">>
    /\ IsPrefix(<<>>, NamedAndSecret) /\ IsPrefix(Named, NamedAndSecret)
    /\ IsPrefix(NamedAndSecret, NamedAndSecret)
<1>1. "name" \in Prompts /\ "password" \in Prompts
  BY DEF Prompts
<1>2. <<>> \in Seq(Prompts) /\ ToSet(<<>>) = {} /\ Len(<<>>) = 0
  BY EmptySeq DEF ToSet
<1> DEFINE Gains(s, x) ==
        /\ Append(s, x) \in Seq(Prompts) /\ Len(Append(s, x)) = Len(s) + 1
        /\ \A i \in 1 .. Len(s) : Append(s, x)[i] = s[i]
        /\ Append(s, x)[Len(s) + 1] = x
        /\ ToSet(Append(s, x)) = ToSet(s) \union {x}
<1>2a. \A s \in Seq(Prompts) : \A x \in Prompts : Gains(s, x)
  <2> TAKE s \in Seq(Prompts)
  <2> TAKE x \in Prompts
  <2>1. ToSet(Append(s, x)) = ToSet(s) \union {x}
    BY ToSetGains
  <2> QED BY <2>1, LenProperties
<1>3. /\ Named \in Seq(Prompts) /\ ToSet(Named) = {"name"}
      /\ Len(Named) = 1 /\ Named[1] = "name"
  <2>1. Gains(<<>>, "name")
    BY <1>1, <1>2, <1>2a, Zenon
  <2> QED BY <1>2, <2>1 DEF Named
<1>4. /\ NamedAndSecret \in Seq(Prompts)
      /\ ToSet(NamedAndSecret) = {"name", "password"}
      /\ Len(NamedAndSecret) = 2
      /\ NamedAndSecret[1] = "name" /\ NamedAndSecret[2] = "password"
  <2>1. Gains(Named, "password")
    BY <1>1, <1>3, <1>2a, Zenon
  <2>2. NamedAndSecret[1] = Named[1]
    BY <1>3, <2>1 DEF NamedAndSecret
  <2> QED BY <1>3, <2>1, <2>2 DEF NamedAndSecret
<1>5. NamedAndSecret = <<"name", "password">>
  <2> DEFINE both == <<"name", "password">>
  <2>1. /\ both \in Seq(Prompts) /\ Len(both) = 2
        /\ both[1] = "name" /\ both[2] = "password"
    BY <1>1
  <2> HIDE DEF both
  <2>2. NamedAndSecret = both
    BY <1>4, <2>1, SeqEqual
  <2> QED BY <2>2 DEF both
<1>6. IsPrefix(<<>>, NamedAndSecret)
  <2>1. SubSeq(<<>>, 1, 0) = <<>> /\ SubSeq(NamedAndSecret, 1, 0) = <<>>
    BY SubSeqEmpty
  <2> QED BY <1>2, <1>4, <2>1 DEF IsPrefix
<1>7. IsPrefix(Named, NamedAndSecret)
  <2>1. SubSeq(Named, 1, 1) = Named
    BY <1>3, SubSeqFull
  <2>2. /\ SubSeq(NamedAndSecret, 1, 1) \in Seq(Prompts)
        /\ Len(SubSeq(NamedAndSecret, 1, 1)) = 1
        /\ SubSeq(NamedAndSecret, 1, 1)[1] = "name"
    BY <1>4, SubSeqProperties
  <2>3. SubSeq(NamedAndSecret, 1, 1) = Named
    BY <1>3, <2>2, SeqEqual
  <2> QED BY <1>3, <1>4, <2>1, <2>3 DEF IsPrefix
<1>8. IsPrefix(NamedAndSecret, NamedAndSecret)
  BY <1>4 DEF IsPrefix
<1> QED BY <1>2, <1>3, <1>4, <1>5, <1>6, <1>7, <1>8

LEMMA InitLogins == Init => LoginInv
BY EmptySeq DEF Init, LoginInv, PieceInv, FlagInv

LEMMA LoginsKept ==
    ASSUME LoginInv, UNCHANGED <<wire, asked, chunk, login>> PROVE LoginInv'
BY DEF LoginInv, PieceInv, FlagInv, login

LEMMA RemoteLogins == ASSUME LoginInv, RemoteWrites PROVE LoginInv'
<1>1. UNCHANGED <<chunk, login>>
  BY DEF RemoteWrites
<1>2. ToSet(asked) \subseteq ToSet(asked') /\ asked' \in Seq(Prompts)
  <2>1. asked \in Seq(Prompts)
    BY DEF LoginInv, PieceInv
  <2>2. ASSUME NEW p \in Prompts, asked' = Append(asked, p)
        PROVE ToSet(asked) \subseteq ToSet(asked') /\ asked' \in Seq(Prompts)
    <3>1. ToSet(asked') = ToSet(asked) \union {p}
      BY <2>1, <2>2, ToSetGains
    <3> QED BY <2>1, <2>2, <3>1
  <2> QED BY <2>1, <2>2 DEF RemoteWrites
<1> DEFINE W == Written(ToSet(asked'))
<1>3. wire \in Seq(W) /\ chunk \in Seq(W)
  <2>1. Written(ToSet(asked)) \subseteq W
    BY <1>2 DEF Written
  <2> QED BY <2>1, SeqMonotonic DEF LoginInv, PieceInv
<1>4. wire' \in Seq(W)
  <2>1. CASE wire' = Append(wire, Text)
    <3>1. Text \in W
      BY DEF Written
    <3> HIDE DEF W
    <3> QED BY <1>3, <2>1, <3>1
  <2>2. ASSUME NEW p \in Prompts, wire' = wire \o Prompt(p),
               asked' = Append(asked, p)
        PROVE wire' \in Seq(W)
    <3>1. p \in ToSet(asked')
      BY <2>2, ToSetGains DEF LoginInv, PieceInv
    <3>2. <<p, 1>> \in W /\ <<p, 2>> \in W
      BY <3>1 DEF Written
    <3> HIDE DEF W
    <3>3. Prompt(p) \in Seq(W)
      BY <3>2 DEF Prompt
    <3> QED BY <1>3, <2>2, <3>3, ConcatProperties
  <2> QED BY <2>1, <2>2 DEF RemoteWrites
<1>5. PieceInv'
  BY <1>1, <1>2, <1>3, <1>4 DEF PieceInv
<1>6. FlagInv'
  BY <1>1, <1>2 DEF LoginInv, FlagInv, login
<1> QED BY <1>5, <1>6 DEF LoginInv

LEMMA ReadLogins == ASSUME LoginInv, ReadSome PROVE LoginInv'
<1>1. UNCHANGED <<asked, login>>
  BY DEF ReadSome, ReaderGoes
<1> DEFINE W == Written(ToSet(asked))
<1>2. PICK n \in 1 .. Len(wire) : /\ chunk' = SubSeq(wire, 1, n)
                                  /\ wire' = SubSeq(wire, n + 1, Len(wire))
  BY DEF ReadSome
<1>3. wire \in Seq(W)
  BY DEF LoginInv, PieceInv
<1>4. chunk' \in Seq(W) /\ wire' \in Seq(W)
  <2> HIDE DEF W
  <2>1. Len(wire) \in Nat /\ \A i \in 1 .. Len(wire) : wire[i] \in W
    BY <1>3, LenProperties
  <2>2. chunk' \in Seq(W)
    BY <1>2, <2>1, SubSeqProperties
  <2>3. wire' \in Seq(W)
    BY <1>2, <2>1, SubSeqProperties
  <2> QED BY <2>2, <2>3
<1> QED BY <1>1, <1>4 DEF LoginInv, PieceInv, FlagInv, login

\* What is found in what was read is what the remote wrote.
LEMMA HeldWasAsked ==
    ASSUME LoginInv, NEW p \in Prompts, Holds(p) PROVE p \in ToSet(asked)
<1>1. PICK i \in 1 .. Len(chunk) - 1 : SubSeq(chunk, i, i + 1) = Prompt(p)
  BY DEF Holds
<1> DEFINE W == Written(ToSet(asked))
<1>2. /\ Len(chunk) \in Nat /\ i \in 1 .. Len(chunk)
      /\ \A k \in 1 .. Len(chunk) : chunk[k] \in W
  BY LenProperties DEF LoginInv, PieceInv
<1>3. SubSeq(chunk, i, i + 1)[1] = chunk[i]
  <2> HIDE DEF W
  <2>1. \A k \in i .. i + 1 : chunk[k] \in W
    BY <1>1, <1>2
  <2>2. \A k \in 1 .. i + 1 - i + 1 : SubSeq(chunk, i, i + 1)[k] = chunk[i + k - 1]
    BY <1>1, <2>1, SubSeqProperties
  <2> QED BY <1>1, <2>2
<1>4. chunk[i] = <<p, 1>>
  <2>1. Prompt(p)[1] = <<p, 1>>
    BY DEF Prompt
  <2> QED BY <1>1, <1>3, <2>1
<1>5. <<p, 1>> \in W
  BY <1>2, <1>4
<1>6. <<p, 1>> # Text
  BY DEF Prompts, Text
<1> QED BY <1>5, <1>6 DEF Written

LEMMA StepLogins == ASSUME LoginInv, LoginStep PROVE LoginInv'
<1>1. UNCHANGED <<wire, asked, chunk>>
  BY DEF LoginStep, ReaderGoes
<1>2. CASE AnswersName /\ nameSent' = TRUE /\ UNCHANGED passSent
           /\ logins' = Append(logins, "name")
  <2>1. "name" \in ToSet(asked)
    BY <1>2, HeldWasAsked DEF AnswersName, Prompts
  <2>2. logins' = Named /\ ~passSent
    BY <1>2 DEF AnswersName, LoginInv, FlagInv, Named
  <2> QED BY <1>1, <1>2, <2>1, <2>2 DEF LoginInv, PieceInv, FlagInv
<1>3. CASE AnswersPassword /\ passSent' = TRUE /\ UNCHANGED nameSent
           /\ logins' = Append(logins, "password")
  <2>1. "password" \in ToSet(asked)
    BY <1>3, HeldWasAsked DEF AnswersPassword, Prompts
  <2>2. logins' = NamedAndSecret /\ nameSent
    BY <1>3 DEF AnswersPassword, LoginInv, FlagInv, NamedAndSecret
  <2> QED BY <1>1, <1>3, <2>1, <2>2 DEF LoginInv, PieceInv, FlagInv
<1>4. CASE UNCHANGED login
  BY <1>1, <1>4, LoginsKept
<1> QED BY <1>2, <1>3, <1>4 DEF LoginStep

LEMMA NextLogins == LoginInv /\ [Next]_<<mode, vars>> => LoginInv'
<1> SUFFICES ASSUME LoginInv, [Next]_<<mode, vars>> PROVE LoginInv'
  OBVIOUS
<1>1. CASE RemoteWrites \/ ReadSome \/ LoginStep
  BY <1>1, RemoteLogins, ReadLogins, StepLogins
<1>2. CASE RemoteReads \/ RemoteEnds \/ Quits \/ Types \/ ResizesWindow
           \/ PromptEnds \/ PromptPanics
  BY <1>2, LoginsKept DEF RemoteReads, RemoteEnds, Quits, Types, ResizesWindow,
     UserActs, PromptEnds, PromptPanics, peer
<1>3. CASE ReaderLoop \/ ReadFails \/ WriteScreen \/ ReadPanics
  BY <1>3, LoginsKept DEF ReaderLoop, ReadFails, WriteScreen, ReadPanics, ReaderGoes
<1>4. CASE Main
  BY <1>4, LoginsKept DEF Main, SplashPoll, SplashEnds, HandleQuit, HandleResized,
     TellRemote, HandleKey, SendKey, Frame, LoopTop, CloseAll, Poll, MainGoes, peer
<1>5. CASE UNCHANGED <<mode, vars>>
  BY <1>5, LoginsKept DEF vars, peer
<1> QED BY <1>1, <1>2, <1>3, <1>4, <1>5 DEF Next, Reader

\* LogsInOnce: whatever the server writes, however Read cuts it, and however
\* often it asks, the name and then the password are sent, each at most once
\* and only when asked for.
THEOREM LogsInOnce == Spec => []CredentialsOnce
<1>1. LoginInv => CredentialsOnce
  <2> SUFFICES ASSUME LoginInv PROVE CredentialsOnce
    OBVIOUS
  <2>1. \/ logins = <<>>
        \/ logins = Named /\ "name" \in ToSet(asked)
        \/ logins = NamedAndSecret /\ {"name", "password"} \subseteq ToSet(asked)
    BY DEF LoginInv, FlagInv
  <2> QED BY <2>1, WhatIsSent DEF CredentialsOnce
<1> QED BY <1>1, InitLogins, NextLogins, PTL DEF Spec
=============================================================================
