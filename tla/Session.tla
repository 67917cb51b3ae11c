------------------------------ MODULE Session ------------------------------
(***************************************************************************)
(* One run of cmd/idunagame/main.go once the connection is up: the main    *)
(* goroutine with its SDL events and its frames, the goroutine that reads  *)
(* the connection, the prompt's goroutine, and the atomic flag running that*)
(* ends them.  The remote is a shell, behind a PTY or SSH, or, in GFD mode,*)
(* the MUD server behind a TCP connection, which the reader may log in to. *)
(*                                                                         *)
(* A piece of output is text or half of a login prompt: Read returns any   *)
(* number of the pieces there are.  What Screen.Write does with them is    *)
(* modelled in Screen.tla; here it may only panic.                         *)
(***************************************************************************)
EXTENDS Integers, Sequences, SequencesExt, FiniteSetsExt

CONSTANTS
    Modes,          \* the ways to start the program, a subset of AllModes
    Windows,        \* the <<width, height>> the window can have, in cells
    Grid,           \* defaultCols, defaultRows
    BarRows,        \* gfdBarRows
    Room,           \* input the connection holds until the remote reads it
    MaxWrites,      \* bounds, for each mode: writes of the remote,
    MaxActs         \* ... and things the user does

\* A shell, or with -gfd the MUD with its status bar and splash, to which the
\* program logs in if GFD_USER and GFD_PASS are set.
AllModes == {"shell", "gfd", "gfd login"}

ASSUME SessionAssumption ==
    /\ Modes \subseteq AllModes
    /\ Windows \subseteq Nat \X Nat
    /\ Grid \in (Nat \ {0}) \X (Nat \ {0})
    /\ BarRows \in Nat /\ Room \in Nat \ {0}
    /\ MaxWrites \in [Modes -> Nat] /\ MaxActs \in [Modes -> Nat]

VARIABLES
    mode,           \* how the program was started; it never changes
    main,
    running,
    events,         \* SDL's queue
    window,
    dims,           \* cols, rows of main and of the Screen
    shrunk,         \* auxiliary: the Screen has been made smaller
    told,           \* the size the remote was last told
    missed,         \* auxiliary: the splash took the last resize from the queue
    remote,         \* "up" or "gone"
    wire,           \* the remote's output that has not been read
    asked,          \* auxiliary: every login prompt the remote wrote
    backlog,        \* input the remote has not read
    reader,
    chunk,          \* what Read returned last
    nameSent, passSent,
    logins,         \* auxiliary: the credentials sent, in order
    prompt,         \* "writing" or "ended"
    writes, acts, quit

screen == <<window, dims, shrunk, told, missed>>
peer   == <<remote, wire, asked, writes>>
login  == <<nameSent, passSent, logins>>
user   == <<acts, quit>>
vars == <<main, running, events, screen, peer, backlog, reader, chunk, login,
          prompt, user>>

GfdMode == mode # "shell"
Credentials == mode = "gfd login"

Prompts == {"name", "password"}
Prompt(p) == <<<<p, 1>>, <<p, 2>>>>
Text == <<"text", 1>>
Pieces == {Text} \union (Prompts \X {1, 2})

TypeOK ==
    /\ mode \in Modes
    /\ main \in {"splash", "drain", "resized", "key", "frame", "close", "exited",
                 "crashed"}
    /\ running \in BOOLEAN /\ shrunk \in BOOLEAN /\ missed \in BOOLEAN
    /\ nameSent \in BOOLEAN /\ passSent \in BOOLEAN /\ quit \in BOOLEAN
    /\ events \in Seq({"quit", "resized", "key"})
    /\ window \in Nat \X Nat
    /\ dims \in (Nat \ {0}) \X (Nat \ {0}) /\ told \in (Nat \ {0}) \X (Nat \ {0})
    /\ remote \in {"up", "gone"} /\ prompt \in {"writing", "ended"}
    /\ wire \in Seq(Pieces) /\ chunk \in Seq(Pieces)
    /\ asked \in Seq(Prompts) /\ logins \in Seq(Prompts)
    /\ reader \in {"loop", "read", "write", "login", "ended"}
    /\ backlog \in 0 .. Room
    /\ writes \in 0 .. MaxWrites[mode] /\ acts \in 0 .. MaxActs[mode]

Ended == main \in {"exited", "crashed"}

\* The status bar has rows of its own in the window that is opened.
FirstWindow == <<Grid[1], Grid[2] + (IF GfdMode THEN BarRows ELSE 0)>>

Init ==
    /\ mode \in Modes
    /\ main = IF GfdMode THEN "splash" ELSE "drain"
    /\ running = TRUE
    /\ events = <<>>
    /\ window = FirstWindow
    /\ dims = Grid /\ told = Grid /\ shrunk = FALSE /\ missed = FALSE
    /\ remote = "up" /\ wire = <<>> /\ asked = <<>> /\ backlog = 0
    /\ reader = "loop" /\ chunk = <<>>
    /\ nameSent = FALSE /\ passSent = FALSE /\ logins = <<>>
    /\ prompt = "writing"
    /\ writes = 0 /\ acts = 0 /\ quit = FALSE
-----------------------------------------------------------------------------
(***************************************************************************)
(* The remote and the user: not in this repository.                        *)
(***************************************************************************)
RemoteWrites ==
    /\ remote = "up" /\ writes < MaxWrites[mode]
    /\ writes' = writes + 1
    /\ \/ wire' = Append(wire, Text) /\ UNCHANGED asked
       \/ \E p \in Prompts : /\ GfdMode
                             /\ wire' = wire \o Prompt(p)
                             /\ asked' = Append(asked, p)
    /\ UNCHANGED <<main, running, events, screen, remote, backlog, reader, chunk,
                   login, prompt, user>>

RemoteReads ==
    /\ remote = "up" /\ backlog > 0
    /\ backlog' = backlog - 1
    /\ UNCHANGED <<main, running, events, screen, peer, reader, chunk, login,
                   prompt, user>>

RemoteEnds ==
    /\ remote = "up"
    /\ remote' = "gone"
    /\ UNCHANGED <<main, running, events, screen, wire, asked, writes, backlog,
                   reader, chunk, login, prompt, user>>

UserActs(event) ==
    /\ ~Ended /\ acts < MaxActs[mode]
    /\ acts' = acts + 1
    /\ events' = Append(events, event)
    /\ quit' = (quit \/ event = "quit")
    /\ UNCHANGED <<main, running, dims, shrunk, told, missed, peer, backlog, reader,
                   chunk, login, prompt>>
Quits == UserActs("quit") /\ UNCHANGED window
\* A key, typed text, Ctrl+Alt+I or a paste: something to send.
Types == UserActs("key") /\ UNCHANGED window
ResizesWindow ==
    /\ window' \in Windows \ {window}
    /\ UserActs("resized")
-----------------------------------------------------------------------------
(***************************************************************************)
(* The goroutine that reads the connection.                                *)
(***************************************************************************)
ReaderGoes(label) ==
    /\ ~Ended
    /\ reader' = label
    /\ UNCHANGED <<main, events, screen, remote, asked, writes, prompt, user>>

ReaderLoop ==
    /\ reader = "loop"
    /\ ReaderGoes(IF running THEN "read" ELSE "ended")
    /\ UNCHANGED <<running, wire, backlog, chunk, login>>

ReadSome ==
    /\ reader = "read"
    /\ \E n \in 1 .. Len(wire) :
          /\ chunk' = SubSeq(wire, 1, n)
          /\ wire' = SubSeq(wire, n + 1, Len(wire))
    /\ ReaderGoes("write")
    /\ UNCHANGED <<running, backlog, login>>

\* Mutant of ReadFails: the goroutine returns and tells nobody.
ReadFailsSilently ==
    /\ reader = "read" /\ remote = "gone" /\ wire = <<>>
    /\ ReaderGoes("ended")
    /\ UNCHANGED <<running, wire, backlog, chunk, login>>

\* The end of the output, or of the connection.
ReadFails ==
    /\ reader = "read" /\ remote = "gone" /\ wire = <<>>
    /\ running' = FALSE
    /\ ReaderGoes("ended")
    /\ UNCHANGED <<wire, backlog, chunk, login>>

WriteScreen ==
    /\ reader = "write"
    /\ ReaderGoes(IF GfdMode /\ Credentials THEN "login" ELSE "loop")
    /\ UNCHANGED <<running, wire, backlog, chunk, login>>

\* The deferred recover of the read loop.
ReadPanics ==
    /\ reader = "write"
    /\ running' = FALSE
    /\ ReaderGoes("ended")
    /\ UNCHANGED <<wire, backlog, chunk, login>>

\* strings.Contains(chunk, ...)
Holds(p) == \E i \in 1 .. Len(chunk) - 1 : SubSeq(chunk, i, i + 1) = Prompt(p)
AnswersName == ~nameSent /\ Holds("name")
\* Mutant of AnswersPassword: passSent is not looked at.
AnswersPasswordAgain == ~AnswersName /\ nameSent /\ Holds("password")
AnswersPassword == ~AnswersName /\ nameSent /\ ~passSent /\ Holds("password")

\* A write waits for room, and fails at once when the remote is gone; either
\* way it counts as sent.
CanSend == remote = "gone" \/ backlog < Room
Send == backlog' = IF remote = "up" THEN backlog + 1 ELSE backlog

LoginStep ==
    /\ reader = "login"
    /\ \/ /\ AnswersName /\ CanSend /\ Send
          /\ nameSent' = TRUE /\ UNCHANGED passSent
          /\ logins' = Append(logins, "name")
       \/ /\ AnswersPassword /\ CanSend /\ Send
          /\ passSent' = TRUE /\ UNCHANGED nameSent
          /\ logins' = Append(logins, "password")
       \/ /\ ~AnswersName /\ ~AnswersPassword
          /\ UNCHANGED <<backlog, login>>
    /\ ReaderGoes("loop")
    /\ UNCHANGED <<running, wire, chunk>>

Reader ==
    \/ ReaderLoop \/ ReadSome \/ ReadFails \/ WriteScreen \/ ReadPanics
    \/ LoginStep
-----------------------------------------------------------------------------
(***************************************************************************)
(* runIdunaPrompt, which has no recover of its own: a panic in its Write   *)
(* ends the process.  The text it writes panics a Screen that has been made*)
(* smaller (ResizedScreenTakesText), or whose cursor a number of what the  *)
(* remote sent has moved off the grid (LeavesOnlyByOverflow).              *)
(***************************************************************************)
PromptEnds ==
    /\ prompt = "writing" /\ ~Ended
    /\ prompt' = "ended"
    /\ UNCHANGED <<main, running, events, screen, peer, backlog, reader, chunk,
                   login, user>>

PromptPanics ==
    /\ prompt = "writing" /\ ~Ended /\ (shrunk \/ writes > 0)
    /\ main' = "crashed"
    /\ UNCHANGED <<running, events, screen, peer, backlog, reader, chunk, login,
                   prompt, user>>
-----------------------------------------------------------------------------
(***************************************************************************)
(* The main goroutine.                                                     *)
(***************************************************************************)
MainGoes(from, to) ==
    /\ main = from /\ main' = to
    /\ UNCHANGED <<reader, chunk, login, prompt, user>>

\* renderChannel11Splash takes every event from the queue and returns at a quit.
SplashPoll ==
    /\ events # <<>>
    /\ events' = Tail(events)
    /\ missed' = (missed \/ Head(events) = "resized")
    /\ MainGoes("splash", IF Head(events) = "quit" THEN "drain" ELSE "splash")
    /\ UNCHANGED <<running, window, dims, shrunk, told, peer, backlog>>
SplashEnds ==
    /\ MainGoes("splash", "drain")
    /\ UNCHANGED <<running, events, screen, peer, backlog>>

Poll(event, to) ==
    /\ events # <<>> /\ Head(events) = event
    /\ events' = Tail(events)
    /\ MainGoes("drain", to)
    /\ UNCHANGED <<peer, backlog>>

HandleQuit ==
    /\ Poll("quit", "drain")
    /\ running' = FALSE
    /\ UNCHANGED screen

\* The size of the window is asked for when the event is handled.
CellsOf(w) == [i \in 1 .. 2 |-> Max({w[i], 1})]

\* Mutant of SizeChanged: && for ||.
SizeChangedBoth(d) == d[1] # dims[1] /\ d[2] # dims[2]
SizeChanged(d) == d[1] # dims[1] \/ d[2] # dims[2]

HandleResized ==
    LET d == CellsOf(window) IN
    /\ missed' = FALSE
    /\ UNCHANGED <<running, window, told>>
    /\ \/ /\ SizeChanged(d)
          /\ Poll("resized", "resized")
          /\ dims' = d
          /\ shrunk' = (shrunk \/ d[1] < dims[1] \/ d[2] < dims[2])
       \/ /\ ~SizeChanged(d)
          /\ Poll("resized", "drain")
          /\ UNCHANGED <<dims, shrunk>>

\* connResize, which a MUD connection ignores and a lost one fails.
TellRemote ==
    /\ MainGoes("resized", "drain")
    /\ told' = IF GfdMode \/ remote = "gone" THEN told ELSE dims
    /\ UNCHANGED <<running, events, window, dims, shrunk, missed, peer, backlog>>

HandleKey == Poll("key", "key") /\ UNCHANGED <<running, screen>>
SendKey ==
    /\ CanSend /\ Send
    /\ MainGoes("key", "drain")
    /\ UNCHANGED <<running, events, screen, peer>>

Frame ==
    /\ events = <<>>
    /\ MainGoes("drain", "frame")
    /\ UNCHANGED <<running, events, screen, peer, backlog>>

\* Mutant of LoopTop: running is not looked at.
LoopTopForever ==
    /\ MainGoes("frame", "drain")
    /\ UNCHANGED <<running, events, screen, peer, backlog>>
LoopTop ==
    /\ MainGoes("frame", IF running THEN "drain" ELSE "close")
    /\ UNCHANGED <<running, events, screen, peer, backlog>>

\* The deferred calls; PTY.Close kills the shell.
CloseAll ==
    /\ MainGoes("close", "exited")
    /\ remote' = "gone"
    /\ UNCHANGED <<running, events, screen, wire, asked, writes, backlog>>

Main ==
    \/ SplashPoll \/ SplashEnds
    \/ HandleQuit \/ HandleResized \/ TellRemote \/ HandleKey \/ SendKey
    \/ Frame \/ LoopTop \/ CloseAll

Next ==
    /\ \/ RemoteWrites \/ RemoteReads \/ RemoteEnds
       \/ Quits \/ Types \/ ResizesWindow
       \/ Reader \/ PromptEnds \/ PromptPanics \/ Main
    /\ UNCHANGED mode

Spec == Init /\ [][Next]_<<mode, vars>>

\* The goroutines run; nothing is asked of the remote or of the user.
FairSpec ==
    /\ Spec
    /\ WF_vars(Reader) /\ WF_vars(Main) /\ WF_vars(SplashEnds)
-----------------------------------------------------------------------------
\* SizesAgree: whenever the main loop has handled the events there are, the grid
\* has the size of the window as it is now, less the rows of the status bar only
\* until the first resize, and a shell has been told of it, in whatever order
\* the window changed and the events came, unless the splash took the last.
SizesAgree ==
    main = "frame" /\ "resized" \notin Range(events) /\ ~missed =>
        /\ dims = CellsOf(window) \/ (dims = Grid /\ window = FirstWindow)
        /\ ~GfdMode /\ remote = "up" => told = dims

\* CredentialsOnce: the name is sent at most once and the password at most once
\* and after it, each in answer to its prompt, however often and in whatever
\* order the server asks.
CredentialsOnce ==
    /\ IsPrefix(logins, <<"name", "password">>)
    /\ ToSet(logins) \subseteq ToSet(asked)

\* A write of the main goroutine waits for a remote that does not read.
Blocked == main = "key" /\ ~CanSend

\* QuitEnds: a window that is closed ends the program, unless the main goroutine
\* is kept in the write of a key, as long as the splash is over.
QuitEnds ==
    "quit" \in Range(events) /\ main # "splash" ~> Ended \/ Blocked

\* LossEnds: a connection that is lost, or a panic in the read loop, ends the
\* program under the same condition, wherever the reader and the main goroutine
\* were when it happened.
LossEnds == (remote = "gone" \/ reader = "ended") ~> (Ended \/ Blocked)
-----------------------------------------------------------------------------
(***************************************************************************)
(* What main.go says and does not do.                                      *)
(***************************************************************************)
\* NoQuitIsLost: main.go:1099, "Pump events so the window stays responsive".  The
\* splash takes a quit from the queue, and only ends itself.
NoQuitIsLost == quit ~> (Ended \/ Blocked)

\* BarOutsideGrid: main.go:365, "the number of character rows reserved for the
\* Channel 11 status bar".  A resize gives the grid the whole window.
BarOutsideGrid ==
    main = "resized" => dims[2] + BarRows <= CellsOf(window)[2]

\* PanicsAreContained: main.go:646-651, a malformed sequence "should degrade this
\* one connection, not crash the whole terminal".  The prompt writes to the same
\* Screen and has no recover.
PanicsAreContained == main # "crashed"

\* LoginAnswersPrompt: main.go:665, "auto-login when GFD_USER + GFD_PASS are set".
\* A prompt that two Reads share is never seen.
LoginAnswersPrompt ==
    reader = "read" /\ wire = <<>> /\ asked # <<>> /\ Head(asked) = "name"
        => nameSent
=============================================================================
