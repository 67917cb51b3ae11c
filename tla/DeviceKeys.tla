----------------------------- MODULE DeviceKeys -----------------------------
(***************************************************************************)
(* Both keys of a device: a run of idunagame loads or generates the SSH key*)
(* before it connects, and its prompt shows that key again and, whatever   *)
(* came of that, the GPG key (runIdunaPrompt of iduna_prompt.go).  While   *)
(* one run is at its GPG key another may begin with its SSH key.           *)
(***************************************************************************)
EXTENDS DeviceKey, Sequences

CONSTANT MaxGpgFaults       \* bound on the calls of gpg that fail

VARIABLES ring, gpgPc, gpgFound, gpgShown, gpgFaults

gpgVars == <<ring, gpgPc, gpgFound, gpgShown, gpgFaults>>

Gpg == INSTANCE GpgKey WITH
    MaxFaults <- MaxGpgFaults, pc <- gpgPc, found <- gpgFound,
    shown <- gpgShown, faults <- gpgFaults

ReachesGpg(p) == pc[p] = "done" /\ round[p] = 2

SshStep == Next /\ UNCHANGED gpgVars
GpgStep == \E p \in Runs : ReachesGpg(p) /\ Gpg!Step(p) /\ UNCHANGED vars

KeysInit == Init /\ Gpg!Init
KeysNext == SshStep \/ GpgStep

KeysSpec == KeysInit /\ [][KeysNext]_<<vars, gpgVars>>
-----------------------------------------------------------------------------
\* OneShown: whatever fails and however runs overlap at their GPG keys, no two of
\* them show different ones, even when the ring holds more than one.
OneShown == Gpg!OneShown
=============================================================================
