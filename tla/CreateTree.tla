----------------------------- MODULE CreateTree -----------------------------
(***************************************************************************)
(* The createtree job (tools/trillian/cmd/trillian/createtree/main.go): it *)
(* creates a Trillian tree and records its ID in a ConfigMap, unless the   *)
(* ConfigMap already holds one.  Several pods may run it at the same time, *)
(* some of them with --force.  Trillian and the API server are external.   *)
(*                                                                         *)
(* Trillian hands out distinct int64 IDs, modelled as 1, 2, 3, ...; 0      *)
(* stands for a ConfigMap without the key treeID.  The ID is stored as a   *)
(* decimal string and parsed back by createctconfig, exactly, since        *)
(* ParseInt is called with 64 bits.                                        *)
(***************************************************************************)
EXTENDS Faults

CONSTANTS
    TreeProcs,  \* the pods that run createtree
    Forced,     \* the ones that run with --force
    MaxCMEdits  \* bound: other clients leave the ConfigMap alone after this
                \* many writes

ASSUME ForcedAssumption == Forced \subseteq TreeProcs
ASSUME EditsAssumption == MaxCMEdits \in Nat

VARIABLES
    cm,      \* the ConfigMap: resourceVersion and Data[treeID]
    trees,   \* how many trees Trillian holds; their IDs are 1..trees
    tstep,   \* per pod: the next step of main
    tcm,     \* per pod: cm, the object its Get returned
    tnew     \* per pod: the ID of the tree it has created

treeVars == <<cm, trees, tstep, tcm, tnew>>

NoCM == [rv |-> 0, treeID |-> 0]

TreeProcsInit ==
    /\ tstep = [p \in TreeProcs |-> "read"]
    /\ tcm = [p \in TreeProcs |-> NoCM]
    /\ tnew = [p \in TreeProcs |-> 0]

TreeInit ==
    /\ cm = [rv |-> 1, treeID |-> 0]
    /\ trees = 0
    /\ faults = 0
    /\ TreeProcsInit

----------------------------------------------------------------------------
\* The steps of main.

ReadConfigMap(p) ==
    /\ tstep[p] = "read"
    /\ tcm' = [tcm EXCEPT ![p] = cm]
    /\ tstep' = [tstep EXCEPT ![p] =
                    IF cm.treeID # 0 /\ p \notin Forced THEN "done" ELSE "create"]
    /\ UNCHANGED <<cm, trees, tnew, faults>>

createTree(p) ==
    /\ tstep[p] = "create"
    /\ trees' = trees + 1
    /\ tnew' = [tnew EXCEPT ![p] = trees + 1]
    /\ tstep' = [tstep EXCEPT ![p] = "update"]
    /\ UNCHANGED <<cm, tcm, faults>>

\* CreateAndInitTree fails, before or after Trillian has created the tree.
createTreeFails(p) ==
    /\ tstep[p] = "create"
    /\ trees' \in {trees, trees + 1}
    /\ tstep' = [tstep EXCEPT ![p] = "read"]
    /\ Fault
    /\ UNCHANGED <<cm, tcm, tnew>>

\* Mutant: the ConfigMap is written without the resourceVersion that was read.
UpdateConfigMapBlindly(p) ==
    /\ tstep[p] = "update"
    /\ cm' = [rv |-> cm.rv + 1, treeID |-> tnew[p]]
    /\ \/ tstep' = [tstep EXCEPT ![p] = "done"] /\ UNCHANGED faults
       \/ tstep' = [tstep EXCEPT ![p] = "read"] /\ Fault
    /\ UNCHANGED <<trees, tcm, tnew>>

\* The object that was read at the start goes back with the new ID.  If the
\* reply is lost, the job fails although the ConfigMap has been written.
UpdateConfigMap(p) ==
    /\ tstep[p] = "update"
    /\ cm.rv = tcm[p].rv
    /\ cm' = [rv |-> cm.rv + 1, treeID |-> tnew[p]]
    /\ \/ tstep' = [tstep EXCEPT ![p] = "done"] /\ UNCHANGED faults
       \/ tstep' = [tstep EXCEPT ![p] = "read"] /\ Fault
    /\ UNCHANGED <<trees, tcm, tnew>>

\* Mutant: a conflict is taken for success.
UpdateConflictIgnored(p) ==
    /\ tstep[p] = "update"
    /\ cm.rv # tcm[p].rv
    /\ tstep' = [tstep EXCEPT ![p] = "done"]
    /\ UNCHANGED <<cm, trees, tcm, tnew, faults>>

\* Mutant: the same Update is sent again and again.
UpdateConflictResends(p) ==
    /\ tstep[p] = "update"
    /\ cm.rv # tcm[p].rv
    /\ UNCHANGED <<treeVars, faults>>

\* Mutant: the pod waits for somebody to resolve the conflict.
UpdateConflictWaits(p) ==
    /\ tstep[p] = "update"
    /\ cm.rv # tcm[p].rv
    /\ tstep' = [tstep EXCEPT ![p] = "conflict"]
    /\ UNCHANGED <<cm, trees, tcm, tnew, faults>>

\* The Update is refused; main exits and the pod is started again.
UpdateConflict(p) ==
    /\ tstep[p] = "update"
    /\ cm.rv # tcm[p].rv
    /\ tstep' = [tstep EXCEPT ![p] = "read"]
    /\ UNCHANGED <<cm, trees, tcm, tnew, faults>>

\* The pod dies, or a request fails that has changed nothing.
TreeDie(p) ==
    /\ tstep[p] \in {"create", "update"}
    /\ tstep' = [tstep EXCEPT ![p] = "read"]
    /\ Fault
    /\ UNCHANGED <<cm, trees, tcm, tnew>>

\* Another client changes something else in the ConfigMap.
EditConfigMap ==
    /\ cm.rv <= MaxCMEdits
    /\ cm' = [cm EXCEPT !.rv = @ + 1]
    /\ UNCHANGED <<trees, tstep, tcm, tnew, faults>>

TreeStep(p) == ReadConfigMap(p) \/ createTree(p) \/ UpdateConfigMap(p) \/ UpdateConflict(p)

TreeNext ==
    \/ \E p \in TreeProcs : TreeStep(p) \/ createTreeFails(p) \/ TreeDie(p)
    \/ EditConfigMap

TreeFairness == \A p \in TreeProcs : WF_treeVars(TreeStep(p))

TreeSpec ==
    TreeInit /\ [][TreeNext]_<<treeVars, faults>> /\ TreeFairness

----------------------------------------------------------------------------
\* Properties.

TreeTypeOK ==
    /\ cm \in [rv : Nat, treeID : Nat]
    /\ trees \in Nat
    /\ tstep \in [TreeProcs -> {"read", "create", "update", "done"}]
    /\ tcm \in [TreeProcs -> [rv : Nat, treeID : Nat]]
    /\ tnew \in [TreeProcs -> Nat]
    /\ faults \in 0..MaxFaults

\* The ConfigMap never names a tree that Trillian does not hold, and every pod
\* that has finished leaves a tree behind in the ConfigMap.
RecordedTreeExists ==
    /\ cm.treeID \in 0..trees
    /\ \A p \in TreeProcs : tstep[p] = "done" => cm.treeID # 0

\* A tree ID, once recorded, is replaced only by a pod that runs with --force:
\* pods that all found the ConfigMap empty do not overwrite one another's tree,
\* which would split the log in two.
RecordedTreeIsKept ==
    [][cm.treeID # 0 /\ cm'.treeID # cm.treeID =>
          \E p \in Forced : tstep[p] = "update" /\ tnew[p] = cm'.treeID]_treeVars

\* Every pod finishes, whatever conflicts and (finitely many) faults it meets.
TreeJobsFinish == <>[](\A p \in TreeProcs : tstep[p] = "done")

----------------------------------------------------------------------------
\* The inductive invariant behind RecordedTreeExists and RecordedTreeIsKept.

\* A pod that is about to create or record a tree holds a version of the
\* ConfigMap that is an old one or the current one, and, without --force, one
\* that had no tree.
SnapshotsAreOld ==
    \A p \in TreeProcs : tstep[p] \in {"create", "update"} =>
        /\ tcm[p].rv <= cm.rv
        /\ tcm[p].rv = cm.rv => tcm[p].treeID = cm.treeID
        /\ p \notin Forced => tcm[p].treeID = 0

NewTreesExist ==
    \A p \in TreeProcs : tstep[p] = "update" => tnew[p] \in 1..trees

TreeIInv == TreeTypeOK /\ SnapshotsAreOld /\ NewTreesExist /\ RecordedTreeExists

=============================================================================
