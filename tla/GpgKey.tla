------------------------------- MODULE GpgKey -------------------------------
(***************************************************************************)
(* LoadOrGenerate of internal/gpgkey/gpgkey.go: the keyring of the device  *)
(* and the processes that look a key up in it, generate one if the lookup  *)
(* came back empty, look again, and export what they found.  gpg is not in *)
(* this repository: it keeps the ring, lists it in the order of generation,*)
(* and may fail with or without output.                                    *)
(***************************************************************************)
EXTENDS Naturals, Sequences

CONSTANTS
    Runs,           \* processes that ask for the key of one handle
    MaxFaults,      \* bound on the calls of gpg that fail
    None

VARIABLES
    ring,           \* the secret keys for the uid, named for who generated them
    pc,             \* pc[p] \in {"find", "generate", "findAgain", "export", "done"}
    found,          \* what findKeyID returned last, None for ""
    shown,          \* the key exported and shown
    faults

vars == <<ring, pc, found, shown, faults>>

Init ==
    /\ ring = <<>>
    /\ pc = [p \in Runs |-> "find"]
    /\ found = [p \in Runs |-> None] /\ shown = [p \in Runs |-> None]
    /\ faults = 0
-----------------------------------------------------------------------------
Goes(p, from, to) == pc[p] = from /\ pc' = [pc EXCEPT ![p] = to]
Fault == faults < MaxFaults /\ faults' = faults + 1

\* Mutant of Listed: the last line that matches.
ListedLast == IF ring = <<>> THEN None ELSE ring[Len(ring)]

\* findKeyID: the first "sec" line.  A failure without output is no key.
Listed == IF ring = <<>> THEN None ELSE ring[1]
FindKeyID(p) ==
    \/ found' = [found EXCEPT ![p] = Listed] /\ UNCHANGED faults
    \/ found' = [found EXCEPT ![p] = None] /\ Fault

Find(p) ==
    /\ FindKeyID(p)
    /\ Goes(p, "find", IF found'[p] = None THEN "generate" ELSE "export")
    /\ UNCHANGED <<ring, shown>>

\* gpg refuses a uid that it finds in the ring, but does not look and generate in
\* one step; it may also fail before the key is in the ring or after.
Generate(p) ==
    /\ \/ /\ Goes(p, "generate", "findAgain")
          /\ ring' = Append(ring, p) /\ UNCHANGED faults
       \/ /\ Goes(p, "generate", "done")
          /\ \/ Fault /\ ring' \in {ring, Append(ring, p)}
             \/ ring # <<>> /\ UNCHANGED <<ring, faults>>
    /\ UNCHANGED <<found, shown>>

FindAgain(p) ==
    /\ FindKeyID(p)
    /\ Goes(p, "findAgain", IF found'[p] = None THEN "done" ELSE "export")
    /\ UNCHANGED <<ring, shown>>

Export(p) ==
    /\ Goes(p, "export", "done")
    /\ \/ shown' = [shown EXCEPT ![p] = found[p]] /\ UNCHANGED faults
       \/ Fault /\ UNCHANGED shown
    /\ UNCHANGED <<ring, found>>

Step(p) == Find(p) \/ Generate(p) \/ FindAgain(p) \/ Export(p)
Next == \E p \in Runs : Step(p)

Spec == Init /\ [][Next]_vars
-----------------------------------------------------------------------------
\* OneShown: whatever fails and however runs overlap, no two of them show different
\* keys, even when the ring holds more than one.
OneShown == \A p, q \in Runs : None \in {shown[p], shown[q]} \/ shown[p] = shown[q]
=============================================================================
