---------------------------- MODULE MCConnection ----------------------------
(***************************************************************************)
(* Each kind of connection, opened and closed beside a goroutine that has a*)
(* handle of its own; while an SSH connection is up, its output is read.   *)
(***************************************************************************)
EXTENDS Connection, SshOutput

Streaming == kind = "ssh" /\ pc = "running"

ConnectionInit == Init /\ OutputInit
ConnectionNext ==
    \/ Next /\ UNCHANGED outputVars
    \/ Streaming /\ OutputNext /\ UNCHANGED vars

ReaderFairness ==
    WF_<<vars, outputVars>>(/\ Streaming /\ (ReadPieces \/ NextStream)
                            /\ UNCHANGED vars)
ConnectionSpec ==
    ConnectionInit /\ [][ConnectionNext]_<<vars, outputVars>> /\ ReaderFairness
-----------------------------------------------------------------------------
\* OutputComesThrough: as long as an SSH connection is up, stdout is shown, a
\* remote that waits for the window can go on, unless what waits is all stderr,
\* and once the remote has ended all it sent is shown.
StdoutIsShown == unread["stdout"] > 0 ~> (unread["stdout"] = 0 \/ ~Streaming)
RemoteGoesOn == Full ~> (~Full \/ unread["stderr"] = Window \/ ~Streaming)
EndIsShown == ended ~> (AllShown \/ ~Streaming)
OutputComesThrough == StdoutIsShown /\ RemoteGoesOn /\ EndIsShown
=============================================================================
