----------------------------- MODULE MCPairing -----------------------------
(***************************************************************************)
(* Two runs on the device and one stranger.  The bounds of MCNext keep     *)
(* apart what share nothing: the GPG keys, or two runs that generate at a  *)
(* time, and the listener; the stranger, and a second run or a second      *)
(* start; and runs at their key while a request is being served.           *)
(***************************************************************************)
EXTENDS Pairing

CONSTANTS OldKey, StrangersKey

MCOtherKeys == {OldKey, StrangersKey}
MCOldFiles == {<<>>, <<OldKey>>}

UsesGpg == \E p \in Runs : gpgPc[p] # "find"
UsesStranger == \E r \in Strangers : at[r] # "unsent"
OneRun == Cardinality({p \in Runs : pc[p] # "new"}) <= 1
AtWork == main # "exited" /\ \E r \in Requests : at[r] \notin {"unsent", "gone"}

MCNext ==
    /\ PairingNext
    /\ ~(listening /\ (UsesGpg \/ raced))'
    /\ (UsesStranger => OneRun /\ starts = 1)'
    /\ (AtWork => \A p \in Runs : AtRest(p))'

MCSpec ==
    /\ PairingInit /\ [][MCNext]_allVars
    /\ WF_allVars(HostStep(Host!MainDone \/ Host!MainTimeout))
    /\ WF_allVars(HostStep(Host!Exit))
=============================================================================
