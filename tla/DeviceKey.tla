----------------------------- MODULE DeviceKey -----------------------------
(***************************************************************************)
(* The file id_ed25519 and the processes that share it: LoadOrGenerate of  *)
(* internal/sshkey/sshkey.go.  A run that connects calls it before and     *)
(* again in its prompt, and sshconn.Dial reads the file between the two; a *)
(* run that enrolls the device calls it once and posts the public line.    *)
(* os.WriteFile empties the file and then writes it, so that a process that*)
(* ends in between leaves a torn one.                                      *)
(***************************************************************************)
EXTENDS Naturals

CONSTANTS
    Runs,           \* processes of idunagame on this device
    Purposes,       \* what a run may be for: "connect", "enroll"
    Faults,         \* what may happen: "crash", "full" disk, "overlap" of runs
    None,           \* there is no file
    Torn            \* a file that holds no whole key

ASSUME FaultsAssumption == Faults \subseteq {"crash", "full", "overlap"}
ASSUME PurposesAssumption == Purposes \subseteq {"connect", "enroll"}
ASSUME NotAKeyAssumption ==
    None # Torn /\ {None, Torn} \intersect (Runs \X (1 .. 2)) = {}

VARIABLES
    purpose,        \* what each run is for; it never changes
    file,
    pc,
    round,          \* which call of LoadOrGenerate the run is in, or past
    fresh,          \* the key generated and not yet written
    shown,          \* shown[p][n]: the public line its call n returned, or None
    used,           \* the key Dial logged in with
    raced           \* auxiliary: two runs have been generating a key at a time

vars == <<purpose, file, pc, round, fresh, shown, used, raced>>

Keys == Runs \X (1 .. 2)

TypeOK ==
    /\ file \in Keys \union {None, Torn}
    /\ purpose \in [Runs -> Purposes] /\ raced \in BOOLEAN
    /\ pc \in [Runs -> {"new", "stat", "read", "generate", "open", "write", "return",
                        "dial", "post", "done", "killed"}]
    /\ round \in [Runs -> 1 .. 2]
    /\ fresh \in [Runs -> Keys \union {None}]
    /\ shown \in [Runs -> [1 .. 2 -> Keys \union {None}]]
    /\ used \in [Runs -> Keys \union {None}]

Init ==
    /\ purpose \in [Runs -> Purposes]
    /\ file = None /\ raced = FALSE
    /\ pc = [p \in Runs |-> "new"]
    /\ round = [p \in Runs |-> 1]
    /\ fresh = [p \in Runs |-> None]
    /\ shown = [p \in Runs |-> [n \in 1 .. 2 |-> None]]
    /\ used = [p \in Runs |-> None]
-----------------------------------------------------------------------------
Goes(p, from, to) ==
    /\ pc[p] = from /\ pc' = [pc EXCEPT ![p] = to]
    /\ UNCHANGED purpose

\* A run that is only waiting for the listener's answer is at rest.
AtRest(p) == pc[p] \in {"new", "post", "done", "killed"}
Generating(p) == pc[p] \in {"generate", "open", "write"}

Begin(p) ==
    /\ "overlap" \in Faults \/ \A q \in Runs : AtRest(q)
    /\ Goes(p, "new", "stat")
    /\ UNCHANGED <<file, round, fresh, shown, used, raced>>

\* Killed, or main returned while the prompt was here.
Crash(p) ==
    /\ "crash" \in Faults
    /\ pc[p] \notin {"new", "done", "killed"}
    /\ pc' = [pc EXCEPT ![p] = "killed"]
    /\ UNCHANGED <<purpose, file, round, fresh, shown, used, raced>>

\* An error ends the first call's run (os.Exit) and is printed by the second's.
Fails(p, at) == Goes(p, at, "done")

\* Mutant of Stat: a new key for every run.
StatNothing(p) ==
    /\ Goes(p, "stat", "generate")
    /\ raced' = (raced \/ \E q \in Runs : Generating(q))
    /\ UNCHANGED <<file, round, fresh, shown, used>>

Stat(p) ==
    /\ Goes(p, "stat", IF file # None THEN "read" ELSE "generate")
    /\ raced' = (raced \/ (file = None /\ \E q \in Runs : Generating(q)))
    /\ UNCHANGED <<file, round, fresh, shown, used>>

Load(p) ==
    /\ \/ /\ file \in Keys
          /\ Goes(p, "read", "return")
          /\ shown' = [shown EXCEPT ![p][round[p]] = file]
       \/ file \notin Keys /\ Fails(p, "read") /\ UNCHANGED shown
    /\ UNCHANGED <<file, round, fresh, used, raced>>

Generate(p) ==
    /\ Goes(p, "generate", "open")
    /\ fresh' = [fresh EXCEPT ![p] = <<p, round[p]>>]
    /\ UNCHANGED <<file, round, shown, used, raced>>

\* WriteFile: O_TRUNC, then the bytes, all of them or not.
Open(p) ==
    /\ Goes(p, "open", "write")
    /\ file' = Torn
    /\ UNCHANGED <<round, fresh, shown, used, raced>>

\* Mutant of Write: the error of WriteFile is not looked at.
WriteUnseen(p) ==
    /\ Goes(p, "write", "return")
    /\ file' \in {fresh[p]} \union (IF "full" \in Faults THEN {Torn} ELSE {})
    /\ shown' = [shown EXCEPT ![p][round[p]] = fresh[p]]
    /\ UNCHANGED <<round, fresh, used, raced>>

Write(p) ==
    /\ \/ /\ file' = fresh[p]
          /\ Goes(p, "write", "return")
          /\ shown' = [shown EXCEPT ![p][round[p]] = fresh[p]]
       \/ /\ "full" \in Faults
          /\ file' = Torn
          /\ Fails(p, "write") /\ UNCHANGED shown
    /\ UNCHANGED <<round, fresh, used, raced>>

\* The first call is followed by Dial or by the request of runSSHEnroll, the
\* second ends the prompt.
Return(p) ==
    /\ Goes(p, "return", IF round[p] = 2 THEN "done"
                         ELSE IF purpose[p] = "connect" THEN "dial" ELSE "post")
    /\ UNCHANGED <<file, round, fresh, shown, used, raced>>

Dial(p) ==
    /\ \/ /\ file \in Keys
          /\ Goes(p, "dial", "stat")
          /\ used' = [used EXCEPT ![p] = file]
          /\ round' = [round EXCEPT ![p] = 2]
       \/ file \notin Keys /\ Fails(p, "dial") /\ UNCHANGED <<used, round>>
    /\ UNCHANGED <<file, fresh, shown, raced>>

Next == \E p \in Runs :
    \/ Begin(p) \/ Crash(p) \/ Stat(p) \/ Load(p) \/ Generate(p) \/ Open(p)
    \/ Write(p) \/ Return(p) \/ Dial(p)

Spec == Init /\ [][Next]_vars
-----------------------------------------------------------------------------
\* KeyIsKept: a whole key that no run is about to write over is the device's key
\* for good, wherever runs are killed, however they overlap and whether or not
\* the disk was full.
Settled == file \in Keys /\ \A p \in Runs : ~Generating(p)
KeyIsKept == [][Settled => Settled' /\ file' = file]_vars

\* ShownIsOnDisk: unless two runs have generated a key at a time, every line a run
\* has shown and every key it has logged in with is the one key on the disk, in
\* that run and in all later ones.
Given == {shown[p][n] : p \in Runs, n \in 1 .. 2} \union {used[p] : p \in Runs}
ShownIsOnDisk == ~raced => Given \subseteq {file, None}
-----------------------------------------------------------------------------
\* OneKeyPair: iduna_prompt.go:182, "both code paths always load/generate the same
\* one real key -- never a second, divergent keypair".  Two runs that find no file
\* both write one.
OneKeyPair == \A k, l \in Given \ {None} : k = l

\* TornIsReplaced: sshkey.go:22, "loads an existing Ed25519 private key at path, or
\* generates and saves a fresh one if none exists yet".  After a write that was cut
\* off there is no key, and no run will ever generate one.
TornIsReplaced == [][\A p \in Runs : Load(p) => pc'[p] = "return"]_vars
=============================================================================
