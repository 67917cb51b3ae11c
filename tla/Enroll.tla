------------------------------- MODULE Enroll -------------------------------
(***************************************************************************)
(* cmd/idunagame-enroll/main.go: the one-shot listener that adds a device's*)
(* public key to authorized_keys.  net/http runs the handler in a goroutine*)
(* per request; main waits for the first of them to signal done, or for    *)
(* the timer, closes the server and calls os.Exit, which ends the handlers *)
(* wherever they are.  Every step that reads or writes the file, signals or*)
(* answers is an action, and any of the others may come between two.       *)
(*                                                                         *)
(* authorized_keys is the sequence of its keys and newline characters; a   *)
(* missing file reads as an empty one.  A write of the operating system    *)
(* that fails may have written a part of the key, Torn.                    *)
(***************************************************************************)
EXTENDS Integers, Sequences, FiniteSets

CONSTANTS
    Requests,       \* the requests clients may make
    Keys,           \* public keys, trimmed
    NL, Torn,       \* the other things the file can hold
    NotAKey,        \* a body whose pubkey does not start with ssh-
    OldFiles,       \* what authorized_keys may hold at the start
    MaxStarts       \* bound on the times the listener is started

FileType == Seq(Keys \union {NL, Torn})

\* What is assumed of them; Pairing states it as an assumption.
ConstantsOK ==
    /\ NL # Torn /\ {NL, Torn, NotAKey} \intersect Keys = {}
    /\ OldFiles \subseteq FileType

VARIABLES
    file, oldFile,  \* authorized_keys, now and at the start
    pc,             \* where each request's handler is
    key,            \* req.Pubkey of each request, once accepted
    knowsCode,      \* whether its code was the one printed
    existing,       \* what its ReadFile returned, until it is used
    status,         \* the status its handler wrote, 0 for none yet
    told,           \* the status its client received, 0 for none
    done,           \* the channel of capacity one holds a value
    listening,      \* ListenAndServe has opened the port
    main,           \* where main is: "select", "close" or "exited"
    exitCode,
    starts          \* times it has been started

request == <<pc, key, knowsCode, existing, status, told>>
mainVars == <<listening, main, exitCode, starts>>
vars == <<file, oldFile, request, done, mainVars>>

TypeOK ==
    /\ file \in FileType /\ oldFile \in OldFiles
    /\ pc \in [Requests -> {"unsent", "decode", "read", "open", "newline",
                            "append", "reply", "signal", "return", "gone"}]
    /\ key \in [Requests -> Keys \union {NotAKey}]
    /\ knowsCode \in [Requests -> BOOLEAN]
    /\ existing \in [Requests -> FileType]
    /\ status \in [Requests -> {0, 200, 400, 403, 500}]
    /\ told \in [Requests -> {0, 200, 400, 403, 500}]
    /\ done \in BOOLEAN /\ listening \in BOOLEAN
    /\ main \in {"select", "close", "exited"}
    /\ exitCode \in {0, 1} /\ starts \in 1 .. MaxStarts

Init ==
    /\ oldFile \in OldFiles /\ file = oldFile
    /\ pc = [r \in Requests |-> "unsent"]
    /\ key = [r \in Requests |-> NotAKey]
    /\ knowsCode = [r \in Requests |-> FALSE]
    /\ existing = [r \in Requests |-> <<>>]
    /\ status = [r \in Requests |-> 0] /\ told = [r \in Requests |-> 0]
    /\ done = FALSE /\ listening = FALSE
    /\ main = "select" /\ exitCode = 1 /\ starts = 1
-----------------------------------------------------------------------------
\* Where a line of file f is exactly key k; whether the last line has no end.
LinesWith(f, k) ==
    {i \in 1 .. Len(f) : /\ f[i] = k
                         /\ i > 1 => f[i - 1] = NL
                         /\ i < Len(f) => f[i + 1] = NL}
HasLine(f, k) == LinesWith(f, k) # {}

\* Mutant of Unterminated: the file always ends as it should.
UnterminatedNever(f) == FALSE
Unterminated(f) == f # <<>> /\ f[Len(f)] # NL

At(r, label) == main # "exited" /\ pc[r] = label
Go(r, label) == pc' = [pc EXCEPT ![r] = label]

\* http.Error or WriteHeader, then on to the step named.
Answer(r, code, label) ==
    /\ status' = [status EXCEPT ![r] = code]
    /\ Go(r, label)

Accepts(codeOK, k) == codeOK /\ k # NotAKey

\* A client connects; its body may be as late as it likes.
Connect(r) ==
    /\ At(r, "unsent") /\ listening
    /\ Go(r, "decode")
    /\ UNCHANGED <<file, oldFile, key, knowsCode, existing, status, told, done,
                   mainVars>>

\* Method, JSON, code and pubkey are checked, in that order.
Decode(r, codeOK, k) ==
    /\ At(r, "decode")
    /\ \/ /\ Accepts(codeOK, k)
          /\ key' = [key EXCEPT ![r] = k]
          /\ knowsCode' = [knowsCode EXCEPT ![r] = codeOK]
          /\ Go(r, "read") /\ UNCHANGED status
       \/ /\ ~Accepts(codeOK, k)
          /\ Answer(r, IF codeOK THEN 400 ELSE 403, "return")
          /\ UNCHANGED <<key, knowsCode>>
    /\ UNCHANGED <<file, oldFile, existing, told, done, mainVars>>

DecodeFails(r) ==
    /\ At(r, "decode")
    /\ Answer(r, 400, "return")
    /\ UNCHANGED <<file, oldFile, key, knowsCode, existing, told, done, mainVars>>

(***************************************************************************)
(* appendAuthorizedKey.                                                    *)
(***************************************************************************)
ReadKeys(r) ==
    /\ At(r, "read")
    /\ \/ HasLine(file, key[r]) /\ Go(r, "reply") /\ UNCHANGED existing
       \/ /\ ~HasLine(file, key[r]) /\ Go(r, "open")
          /\ existing' = [existing EXCEPT ![r] = file]
    /\ UNCHANGED <<file, oldFile, key, knowsCode, status, told, done, mainVars>>

\* Mutant of FileFails: the error is dropped.
FileFailsUnseen(r) ==
    /\ \E label \in {"read", "open", "newline", "append"} : At(r, label)
    /\ Go(r, "reply")
    /\ UNCHANGED <<file, oldFile, key, knowsCode, existing, status, told, done,
                   mainVars>>

\* Any of ReadFile, MkdirAll, OpenFile fails, or a write that wrote nothing.
FileFails(r) ==
    /\ \E label \in {"read", "open", "newline", "append"} : At(r, label)
    /\ Answer(r, 500, "return")
    /\ existing' = [existing EXCEPT ![r] = <<>>]
    /\ UNCHANGED <<file, oldFile, key, knowsCode, told, done, mainVars>>

OpenKeys(r) ==
    /\ At(r, "open")
    /\ Go(r, IF Unterminated(existing[r]) THEN "newline" ELSE "append")
    /\ existing' = [existing EXCEPT ![r] = <<>>]
    /\ UNCHANGED <<file, oldFile, key, knowsCode, status, told, done, mainVars>>

\* O_APPEND: a write goes to the end of the file as it is then.
EndLine(r) ==
    /\ At(r, "newline")
    /\ file' = Append(file, NL)
    /\ Go(r, "append")
    /\ UNCHANGED <<oldFile, key, knowsCode, existing, status, told, done, mainVars>>

AppendKey(r) ==
    /\ At(r, "append")
    /\ file' = file \o <<key[r], NL>>
    /\ Go(r, "reply")
    /\ UNCHANGED <<oldFile, key, knowsCode, existing, status, told, done, mainVars>>

\* The disk fills in the middle of the key.
AppendTorn(r) ==
    /\ At(r, "append")
    /\ file' = Append(file, Torn)
    /\ Answer(r, 500, "return")
    /\ UNCHANGED <<oldFile, key, knowsCode, existing, told, done, mainVars>>
-----------------------------------------------------------------------------
\* What the handler writes is in net/http's buffer until it returns.
Reply(r) ==
    /\ At(r, "reply")
    /\ Answer(r, 200, "signal")
    /\ UNCHANGED <<file, oldFile, key, knowsCode, existing, told, done, mainVars>>

Signal(r) ==
    /\ At(r, "signal")
    /\ done' = TRUE
    /\ Go(r, "return")
    /\ UNCHANGED <<file, oldFile, key, knowsCode, existing, status, told, mainVars>>

\* net/http sends the answer.  Once main is past its select, server.Close may
\* have closed the connection already.
Return(r) ==
    /\ At(r, "return")
    /\ \/ told' = [told EXCEPT ![r] = status[r]]
       \/ main = "close" /\ UNCHANGED told
    /\ Go(r, "gone")
    /\ UNCHANGED <<file, oldFile, key, knowsCode, existing, status, done, mainVars>>

Listen ==
    /\ main # "exited" /\ ~listening
    /\ listening' = TRUE
    /\ UNCHANGED <<file, oldFile, request, done, main, exitCode, starts>>

ListenFails ==
    /\ main # "exited" /\ ~listening
    /\ main' = "exited" /\ exitCode' = 1
    /\ UNCHANGED <<file, oldFile, request, done, listening, starts>>

MainDone ==
    /\ main = "select" /\ done
    /\ done' = FALSE
    /\ main' = "close" /\ exitCode' = 0
    /\ UNCHANGED <<file, oldFile, request, listening, starts>>

MainTimeout ==
    /\ main = "select"
    /\ main' = "close" /\ exitCode' = 1
    /\ UNCHANGED <<file, oldFile, request, done, listening, starts>>

\* Mutant of Exit: Shutdown for Close, which waits for the handlers.
ExitAfterHandlers ==
    /\ main = "close"
    /\ \A r \in Requests : pc[r] \in {"unsent", "gone"}
    /\ main' = "exited"
    /\ UNCHANGED <<file, oldFile, request, done, listening, exitCode, starts>>

\* server.Close, which waits for no handler, and os.Exit.
Exit ==
    /\ main = "close"
    /\ main' = "exited"
    /\ UNCHANGED <<file, oldFile, request, done, listening, exitCode, starts>>

\* The user starts it again, with a new code.  What the handlers knew is gone.
Start ==
    /\ main = "exited" /\ starts < MaxStarts
    /\ starts' = starts + 1
    /\ main' = "select" /\ exitCode' = 1
    /\ listening' = FALSE /\ done' = FALSE
    /\ pc' = [r \in Requests |-> IF pc[r] = "unsent" THEN "unsent" ELSE "gone"]
    /\ status' = [r \in Requests |-> 0]
    /\ existing' = [r \in Requests |-> <<>>]
    /\ UNCHANGED <<file, oldFile, key, knowsCode, told>>

\* A handler once it has its request, and the process.
Handler(r) ==
    \/ ReadKeys(r) \/ OpenKeys(r) \/ EndLine(r) \/ AppendKey(r)
    \/ FileFails(r) \/ AppendTorn(r)
    \/ Reply(r) \/ Signal(r) \/ Return(r)

Main == Listen \/ ListenFails \/ MainDone \/ MainTimeout \/ Exit \/ Start

\* Any client, with any body.
Client(r) ==
    \/ Connect(r) \/ DecodeFails(r)
    \/ \E codeOK \in BOOLEAN, k \in Keys \union {NotAKey} : Decode(r, codeOK, k)

Next == Main \/ \E r \in Requests : Client(r) \/ Handler(r)

\* Main is one goroutine with a timer: it gets to run, and the timer fires.
\* Nothing makes a client send its body.
Spec == Init /\ [][Next]_vars
FairSpec == Spec /\ WF_vars(MainDone \/ MainTimeout) /\ WF_vars(Exit)
-----------------------------------------------------------------------------
Has(f, x) == \E i \in 1 .. Len(f) : f[i] = x
NewKeys == {k \in Keys : HasLine(file, k) /\ ~HasLine(oldFile, k)}
Exited(code) == main = "exited" /\ exitCode = code

\* FileOnlyGains: whatever fails, and however two handlers interleave, every key
\* that could log in before can still, its line never run together with what is
\* appended (main.go:148), and what is added came with the printed code.
OldLinesStand == \A k \in Keys : HasLine(oldFile, k) => HasLine(file, k)
OnlyWithTheCode ==
    /\ Len(oldFile) <= Len(file)
    /\ SubSeq(file, 1, Len(oldFile)) = oldFile
    /\ \A i \in Len(oldFile) + 1 .. Len(file) :
          file[i] \in Keys => \E r \in Requests : knowsCode[r] /\ key[r] = file[i]
FileOnlyGains == OldLinesStand /\ OnlyWithTheCode

\* SuccessIsReal: a client that is told 200 can log in, and the listener exits 0
\* only if a device's key is in the file.  Nothing is said of a file with a torn
\* line anywhere, left by a handler whose write failed: a key written after it
\* is on that line.
Enrolled(r) == HasLine(file, key[r]) \/ Has(file, Torn)
SuccessIsReal ==
    /\ \A r \in Requests : told[r] = 200 => Enrolled(r)
    /\ Exited(0) => \E r \in Requests : status[r] = 200 /\ Enrolled(r)

\* Ends: the process ends each time it is started, also when a client never
\* finishes its request.
Ends == main # "exited" ~> main = "exited"

\* What main.go says of itself, and the code does not do.

\* OneMeansNoKey: line 116, "Timed out waiting for enrollment -- no key was
\* added."  A handler may be past its checks when the timer fires.
OneMeansNoKey == Exited(1) => NewKeys = {}

\* FirstEnrollmentOnly: line 12, "exits after the first successful enrollment":
\* nobody else is enrolled.  Handlers run until os.Exit.
FirstEnrollmentOnly == Cardinality(NewKeys) <= 1

\* NoDuplicateLine: line 21, "re-enrolling the same key is a no-op, not a
\* duplicate line".  Two handlers read the file before either appends.
NoDuplicateLine == \A k \in NewKeys : Cardinality(LinesWith(file, k)) = 1

\* SuccessIsSeen: line 12, "exits after the first successful enrollment": the
\* device counts it successful when it receives the 200 (idunagame/main.go:80).
\* The handler signals before it returns, and the answer is sent after.
SuccessIsSeen == Exited(0) => \E r \in Requests : told[r] = 200
=============================================================================
