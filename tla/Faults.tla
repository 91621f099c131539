------------------------------- MODULE Faults -------------------------------
(***************************************************************************)
(* What the environment may do to the processes: requests that fail,       *)
(* replies that get lost, pods that are killed.  The jobs survive any      *)
(* finite number of these because Kubernetes starts a failed pod again:    *)
(* the Jobs under config/ (createcertchain, createsecret) set a            *)
(* backoffLimit, which is assumed of the others as well.                   *)
(***************************************************************************)
EXTENDS Naturals

CONSTANT MaxFaults  \* bound: faults in a behaviour

ASSUME FaultsAssumption == MaxFaults \in Nat

VARIABLE faults     \* how many faults have happened

Fault ==
    /\ faults < MaxFaults
    /\ faults' = faults + 1

=============================================================================
