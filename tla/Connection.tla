----------------------------- MODULE Connection -----------------------------
(***************************************************************************)
(* What each kind of connection takes from the operating system and gives  *)
(* back: Open and Close of internal/pty on Windows and on Linux, Dial and  *)
(* Close of internal/sshconn and internal/mudconn, and the deferred calls  *)
(* of main.go, which close a PTY twice.                                    *)
(*                                                                         *)
(* A handle is a number that the system gives out, takes back and gives out*)
(* again, to this package or to another goroutine of the process, as the   *)
(* prompt's connections and its gpg.  Files, sockets, processes, pseudo    *)
(* consoles, attribute lists and SSH sessions are all taken for handles.   *)
(***************************************************************************)
EXTENDS Naturals, Sequences, FiniteSets, Functions

CONSTANTS
    Handles,
    MaxOthers       \* bound on the handles others have at a time

ASSUME HandlesAssumption ==
    /\ Handles \subseteq Nat \ {0} /\ MaxOthers \in Nat
    /\ IsFiniteSet(Handles) /\ Cardinality(Handles) >= 6 + MaxOthers

VARIABLES
    kind,           \* which connection it is; it never changes
    pc,             \* "open", "failed", "running", "closing" or "exited"
    step,           \* of Open, or of Close
    closes,         \* calls of Close begun
    own,            \* own[name]: the field's handle, or 0
    dropped,        \* the names whose field says that they are released
    table,          \* table[h]: who has the handle: "free", "conn" or "other"
    touched         \* auxiliary: who had the handles that Close used

vars == <<kind, pc, step, closes, own, dropped, table, touched>>

Kinds == {"windows", "linux", "ssh", "mud"}
Names == {"inRead", "inWrite", "outRead", "outWrite", "console", "attrs", "proc",
          "thread", "master", "slave", "agent", "client", "session", "socket"}
Owned(who) == {h \in Handles : table[h] = who}

Init ==
    /\ kind \in Kinds
    /\ pc = "open" /\ step = 1 /\ closes = 0
    /\ own = [n \in Names |-> 0]
    /\ dropped = {}
    /\ table = [h \in Handles |-> "free"]
    /\ touched = {}
-----------------------------------------------------------------------------
(***************************************************************************)
(* Opening: what each call acquires, what is released once it has          *)
(* succeeded, and what when it fails.                                      *)
(***************************************************************************)
Call(takes, gives, undo) == [takes |-> takes, gives |-> gives, undo |-> undo]

Pipes == {"inRead", "inWrite", "outRead", "outWrite"}
Started == {"console", "inWrite", "outRead"}

OpenWindows ==
    <<Call({"inRead", "inWrite"}, {}, {}),
      Call({"outRead", "outWrite"}, {}, {"inRead", "inWrite"}),
      Call({"console"}, {"inRead", "outWrite"}, Pipes),
      Call({"attrs"}, {}, Started),
      Call({}, {}, Started \union {"attrs"}),
      Call({}, {}, Started \union {"attrs"}),
      Call({"proc", "thread"}, {"thread"}, Started \union {"attrs"})>>

\* Mutant of OpenLinux: a shell that does not start leaves the slave open.
OpenLinuxKeepsSlave ==
    <<Call({"master"}, {}, {}), Call({}, {}, {"master"}), Call({}, {}, {"master"}),
      Call({"slave"}, {}, {"master"}), Call({}, {}, {"master", "slave"}),
      Call({"proc"}, {"slave"}, {"master"})>>

\* ptmx, unlockpt, ptsname, the slave, setWinsize, and the shell.
OpenLinux ==
    <<Call({"master"}, {}, {}), Call({}, {}, {"master"}), Call({}, {}, {"master"}),
      Call({"slave"}, {}, {"master"}), Call({}, {}, {"master", "slave"}),
      Call({"proc"}, {"slave"}, {"master", "slave"})>>

\* The key file, the agent's socket, the known hosts, TCP with the handshake, the
\* session, and what is asked of it.
DialSSH ==
    <<Call({}, {}, {}), Call({"agent"}, {}, {}), Call({}, {}, {}),
      Call({"client"}, {}, {}), Call({"session"}, {}, {"client"}),
      Call({}, {}, {"session", "client"})>>

DialMUD == <<Call({"socket"}, {}, {})>>

Calls == CASE kind = "windows" -> OpenWindows
           [] kind = "linux"   -> OpenLinux
           [] kind = "ssh"     -> DialSSH
           [] kind = "mud"     -> DialMUD

\* Free handles, no two the same: which ones is all one, as others take any.
Given(names) ==
    CHOOSE given \in [names -> Owned("free")] :
        \A m, n \in names : given[m] = given[n] => m = n
HandlesOf(names) == {own[n] : n \in names}
Opening == pc = "open" /\ step <= Len(Calls)

Acquire ==
    /\ Opening
    /\ LET call == Calls[step]
           given == Given(call.takes)
           now == [n \in Names |-> IF n \in call.takes THEN given[n] ELSE own[n]]
           gone == {now[n] : n \in call.gives}
       IN
       /\ own' = now
       /\ table' = [h \in Handles |->
                       CASE h \in gone -> "free"
                         [] h \in Range(given) \ gone -> "conn"
                         [] OTHER -> table[h]]
    /\ step' = step + 1
    /\ UNCHANGED <<kind, pc, closes, dropped, touched>>

\* Without an agent Dial goes on, with what other methods there are.
NoAgent ==
    /\ Opening /\ Calls[step].takes = {"agent"}
    /\ step' = step + 1
    /\ UNCHANGED <<kind, pc, closes, own, dropped, table, touched>>

OpenFails ==
    /\ Opening /\ Calls[step].takes # {"agent"}
    /\ pc' = "failed"
    /\ table' = [h \in Handles |->
                    IF h \in HandlesOf(Calls[step].undo) THEN "free" ELSE table[h]]
    /\ UNCHANGED <<kind, step, closes, own, dropped, touched>>

OpenReturns ==
    /\ pc = "open" /\ step > Len(Calls)
    /\ pc' = "running"
    /\ UNCHANGED <<kind, step, closes, own, dropped, table, touched>>
-----------------------------------------------------------------------------
(***************************************************************************)
(* Closing: the handles it uses, in order; the last use of one releases it.*)
(* A PTY kills its process before it waits for it.                         *)
(***************************************************************************)
\* Mutant of Order: Windows' field thread is closed again.
OrderThread ==
    CASE kind = "windows" ->
            <<"proc", "proc", "thread", "attrs", "console", "outRead", "inWrite">>
      [] kind = "linux"   -> <<"proc", "proc", "master">>
      [] kind = "ssh"     -> <<"session", "client">>
      [] kind = "mud"     -> <<"socket">>
Order ==
    CASE kind = "windows" ->
            <<"proc", "proc", "attrs", "console", "outRead", "inWrite">>
      [] kind = "linux"   -> <<"proc", "proc", "master">>
      [] kind = "ssh"     -> <<"session", "client">>
      [] kind = "mud"     -> <<"socket">>

\* An os.File, os.Process, ssh.Client, ssh.Session, mudconn.Conn and attribute list
\* know that they are released; Windows' fields proc and console are bare handles.
KnowsReleased == Names \ (IF kind = "windows" THEN {"proc", "console"} ELSE {})

\* connClose, and the terminal.Close that main deferred before it.
MaxCloses == IF kind \in {"windows", "linux"} THEN 2 ELSE 1

Closed == pc = "closing" /\ step > Len(Order)
CloseBegins ==
    /\ \/ pc = "running" /\ closes = 0
       \/ Closed /\ closes < MaxCloses
    /\ pc' = "closing" /\ closes' = closes + 1 /\ step' = 1
    /\ UNCHANGED <<kind, own, dropped, table, touched>>

Releases == \A later \in step + 1 .. Len(Order) : Order[later] # Order[step]

Touch ==
    /\ pc = "closing" /\ step <= Len(Order)
    /\ LET name == Order[step]  h == own[name] IN
       IF name \in dropped THEN UNCHANGED <<table, touched, dropped>>
       ELSE /\ touched' = touched \union {table[h]}
            /\ table' = IF Releases THEN [table EXCEPT ![h] = "free"] ELSE table
            /\ dropped' = IF Releases THEN dropped \union ({name} \intersect KnowsReleased)
                                      ELSE dropped
    /\ step' = step + 1
    /\ UNCHANGED <<kind, pc, closes, own>>

MainReturns ==
    /\ Closed /\ closes = MaxCloses
    /\ pc' = "exited"
    /\ UNCHANGED <<kind, step, closes, own, dropped, table, touched>>

\* The other goroutines of the process.
OtherOpens ==
    /\ pc # "exited"
    /\ Cardinality(Owned("other")) < MaxOthers
    /\ \E h \in Owned("free") : table' = [table EXCEPT ![h] = "other"]
    /\ UNCHANGED <<kind, pc, step, closes, own, dropped, touched>>
OtherCloses ==
    /\ pc # "exited"
    /\ \E h \in Owned("other") : table' = [table EXCEPT ![h] = "free"]
    /\ UNCHANGED <<kind, pc, step, closes, own, dropped, touched>>

Next ==
    \/ Acquire \/ NoAgent \/ OpenFails \/ OpenReturns
    \/ CloseBegins \/ Touch \/ MainReturns
    \/ OtherOpens \/ OtherCloses

Spec == Init /\ [][Next]_vars
-----------------------------------------------------------------------------
\* NothingLeaks: whichever call of opening fails, and once Close has run through,
\* the connection holds no handle any more, but for the agent's socket, which Dial
\* leaves to the garbage collector.
NothingLeaks ==
    pc = "failed" \/ Closed => Owned("conn") \subseteq {own["agent"]}

\* ClosesItsOwn: closing uses only handles that the connection has, whatever other
\* goroutines open and close meanwhile, and however often it is called; except the
\* second Close of a Windows PTY.
ClosesItsOwn == (kind = "windows" /\ closes = 2) \/ touched \subseteq {"conn"}

\* CloseEndsOwnProcess: pty_windows.go:219, "Close terminates the child process,
\* tears down the pseudo console, and closes the pipe handles".  The second Close
\* does this to whoever has the two handles by then.
CloseEndsOwnProcess == "other" \notin touched
=============================================================================
