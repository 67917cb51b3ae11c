----------------------------- MODULE SshOutput -----------------------------
(***************************************************************************)
(* The output of a remote shell behind sshconn.Conn: two streams of one SSH*)
(* channel, which Read of internal/sshconn/sshconn.go puts into one with   *)
(* io.MultiReader, and the read loop of main.go.                           *)
(*                                                                         *)
(* The channel is golang.org/x/crypto/ssh's and not in this repository: it *)
(* keeps what has come in until it is read, has one window for both        *)
(* streams, and gives the remote as much of it back as is read.  While the *)
(* window is used up the remote cannot send.                               *)
(***************************************************************************)
EXTENDS Naturals, Sequences

CONSTANTS
    Window,         \* the channel's window, in pieces of output
    MaxWrites       \* bound on the pieces the remote sends

ASSUME WindowAssumption == Window \in Nat \ {0} /\ MaxWrites \in Nat

VARIABLES
    unread,         \* unread[s]: pieces of stream s that have come in
    sent,           \* pieces sent so far
    ended,          \* the remote has closed both streams
    current         \* the stream MultiReader is at; past the last, EOF

outputVars == <<unread, sent, ended, current>>

Streams == {"stdout", "stderr"}

OutputInit ==
    /\ unread = [s \in Streams |-> 0]
    /\ sent = 0 /\ ended = FALSE /\ current = 1

Full == unread["stdout"] + unread["stderr"] = Window

RemoteSends(s) ==
    /\ ~ended /\ ~Full /\ sent < MaxWrites
    /\ unread' = [unread EXCEPT ![s] = @ + 1]
    /\ sent' = sent + 1
    /\ UNCHANGED <<ended, current>>

RemoteEnds ==
    /\ ~ended
    /\ ended' = TRUE
    /\ UNCHANGED <<unread, sent, current>>

\* Mutant of Merged: the other order.
MergedStderrFirst == <<"stderr", "stdout">>
Merged == <<"stdout", "stderr">>

ReadPieces ==
    /\ current <= Len(Merged)
    /\ LET s == Merged[current] IN
       \E n \in 1 .. unread[s] : unread' = [unread EXCEPT ![s] = @ - n]
    /\ UNCHANGED <<sent, ended, current>>

\* A stream has ended: MultiReader goes to the next.
NextStream ==
    /\ current <= Len(Merged)
    /\ ended /\ unread[Merged[current]] = 0
    /\ current' = current + 1
    /\ UNCHANGED <<unread, sent, ended>>

OutputNext ==
    \/ \E s \in Streams : RemoteSends(s)
    \/ RemoteEnds
    \/ ReadPieces \/ NextStream

\* The read loop runs; nothing is asked of the remote.
OutputFairness == WF_outputVars(ReadPieces \/ NextStream)
OutputSpec == OutputInit /\ [][OutputNext]_outputVars /\ OutputFairness
-----------------------------------------------------------------------------
AllShown == \A s \in Streams : unread[s] = 0

\* MergedLikePTY: sshconn.go:132, "same as a local PTY (where a child's
\* stdout/stderr are both the one slave fd already)".  What a command says on
\* stderr waits for the end of the shell's stdout.
MergedLikePTY == unread["stderr"] > 0 ~> unread["stderr"] = 0
=============================================================================
