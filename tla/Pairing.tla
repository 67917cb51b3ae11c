------------------------------- MODULE Pairing -------------------------------
(***************************************************************************)
(* Pairing a device with a host, end to end: runs of idunagame on the      *)
(* device that load or generate its keys (DeviceKeys), the request that    *)
(* -ssh-enroll makes of the listener on the host (runSSHEnroll in          *)
(* cmd/idunagame/main.go), the listener (Enroll), and its other clients.   *)
(*                                                                         *)
(* The client has no timeout and does not retry; the user does, by running *)
(* it again, with the listener still up or started again.  The network may *)
(* lose the connection at any time.                                        *)
(***************************************************************************)
EXTENDS DeviceKeys, Integers, FiniteSets

CONSTANTS
    Strangers,      \* clients of the listener that are not this device
    OtherKeys,      \* the keys they send
    NL,             \* see Enroll, also for the two that follow
    NotAKey, OldFiles, MaxStarts,
    MaxRequests     \* bound on the requests that reach the listener

VARIABLES
    authorized, before,     \* authorized_keys of the host
    at, pubkey, knowsCode, existing, status, told, done,
    listening, main, exitCode, starts,
    exit            \* exit[p]: status of the enrolling run p, or None

hostVars == <<authorized, before, at, pubkey, knowsCode, existing, status, told,
              done, listening, main, exitCode, starts>>

Requests == Runs \union Strangers
PublicKeys == OtherKeys \union (Runs \X {1})

Host == INSTANCE Enroll WITH
    Keys <- PublicKeys,
    file <- authorized, oldFile <- before, pc <- at, key <- pubkey

ASSUME HostAssumption == Host!ConstantsOK
ASSUME PairingAssumption == Runs \intersect Strangers = {} /\ None \notin {0, 1}

PairingInit ==
    /\ KeysInit /\ Host!Init
    /\ exit = [p \in Runs |-> None]

DeviceStep == KeysNext /\ UNCHANGED <<hostVars, exit>>
HostStep(step) == step /\ UNCHANGED <<vars, gpgVars, exit>>
-----------------------------------------------------------------------------
(***************************************************************************)
(* runSSHEnroll, once it has the public line.                              *)
(***************************************************************************)
Reached == {r \in Requests : at[r] # "unsent"}
Waiting(p) == pc[p] = "post"

\* The request reaches the listener.
Post(p) == Waiting(p) /\ Cardinality(Reached) < MaxRequests /\ Host!Connect(p)

\* Its body does, the code as the user typed it; of a run that was killed, in part.
SendsBody(p) ==
    \/ \E codeOK \in BOOLEAN : Host!Decode(p, codeOK, shown[p][1])
    \/ pc[p] = "killed" /\ Host!DecodeFails(p)

ClientEnds(p, code) ==
    /\ Waiting(p)
    /\ pc' = [pc EXCEPT ![p] = "done"]
    /\ exit' = [exit EXCEPT ![p] = code]
    /\ UNCHANGED <<purpose, file, round, fresh, shown, used, raced, gpgVars,
                   hostVars>>

\* Mutant of Answered: the status of the answer is not looked at.
AnsweredAnything(p) == told[p] # 0 /\ ClientEnds(p, 0)
Answered(p) == told[p] # 0 /\ ClientEnds(p, IF told[p] = 200 THEN 0 ELSE 1)

\* Nobody listens, the listener exits first, or the network fails.
PostFails(p) == ClientEnds(p, 1)

\* Another client: any body, complete or not.
OtherConnects(r) == Cardinality(Reached) < MaxRequests /\ Host!Connect(r)
OtherSends(r) ==
    \/ Host!DecodeFails(r)
    \/ \E codeOK \in BOOLEAN, k \in OtherKeys \union {NotAKey} :
          Host!Decode(r, codeOK, k)

PairingNext ==
    \/ DeviceStep
    \/ \E p \in Runs : HostStep(Post(p) \/ SendsBody(p))
    \/ \E p \in Runs : Answered(p) \/ PostFails(p)
    \/ \E r \in Strangers : HostStep(OtherConnects(r) \/ OtherSends(r))
    \/ \E r \in Requests : HostStep(Host!Handler(r))
    \/ HostStep(Host!Main)

allVars == <<vars, gpgVars, hostVars, exit>>
PairingSpec ==
    /\ PairingInit /\ [][PairingNext]_allVars
    /\ WF_allVars(HostStep(Host!MainDone \/ Host!MainTimeout))
    /\ WF_allVars(HostStep(Host!Exit))
-----------------------------------------------------------------------------
\* FileOnlyGains: no key of the host's old file is lost, and none comes into it
\* without the printed code, whatever the handlers' writes do (Enroll.tla).
FileOnlyGains == Host!FileOnlyGains

\* SuccessIsReal: a client that is told 200 can log in, and the listener exits 0
\* only for a key that is in the file, unless a failed write has left a torn line
\* in it (Enroll.tla).
SuccessIsReal == Host!SuccessIsReal

\* Ends: the listener ends each time it is started (Enroll.tla).
Ends == Host!Ends

\* And what main.go of the listener says of itself and does not do, there also.
OneMeansNoKey == Host!OneMeansNoKey
FirstEnrollmentOnly == Host!FirstEnrollmentOnly
NoDuplicateLine == Host!NoDuplicateLine
SuccessIsSeen == Host!SuccessIsSeen

\* PairedCanLogIn: once -ssh-enroll has exited 0 the key on the device's disk is
\* whole and has its line on the host, whatever was killed, lost or tried again
\* before and after, unless two runs have generated a key at a time.
PairedCanLogIn ==
    ~raced => \A p \in Runs : exit[p] = 0 =>
        /\ file \in Keys
        /\ Host!HasLine(authorized, file) \/ Host!Has(authorized, Torn)
=============================================================================
