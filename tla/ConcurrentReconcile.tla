------------------------ MODULE ConcurrentReconcile ------------------------
(***************************************************************************)
(* ReconcileSecret under concurrency: any number of processes call it, for *)
(* any secret and with any data, while other clients of the API server     *)
(* edit and delete the same secrets, requests fail, replies get lost and   *)
(* processes die.                                                          *)
(***************************************************************************)
EXTENDS SecretReconcile

CONSTANTS
    Keys,      \* keys of a secret's Data map
    Values,    \* the byte strings stored under a key
    DataMaps,  \* the data maps the callers pass
    MaxRev     \* bound: no call or edit starts after this many writes

Maps == UNION {[K -> Values] : K \in SUBSET Keys}

Secrets == [rv : Nat, data : Maps]

ASSUME DataMapsAssumption == DataMaps \subseteq Maps \ {Nothing}
ASSUME MaxRevAssumption == MaxRev \in Nat

Init ==
    /\ rev = 1
    /\ secrets \in [Names -> {Missing} \cup [rv : {1}, data : Maps]]
    /\ ReconcileInit

Call(p) ==
    /\ at[p] = "idle"
    /\ rev < MaxRev
    /\ \E n \in Names, d \in DataMaps : Invoke(p, n, d)

Return(p) ==
    /\ at[p] \in Returned
    /\ Reset(p)
    /\ UNCHANGED faults

Die(p) ==
    /\ at[p] \in Running
    /\ Reset(p)
    /\ Fault

\* Another client of the API server writes a secret or deletes it.
Edit(n) ==
    /\ rev < MaxRev
    /\ rev' = rev + 1
    /\ \/ \E d \in Maps : secrets' = [secrets EXCEPT ![n] = [rv |-> rev + 1, data |-> d]]
       \/ secrets' = [secrets EXCEPT ![n] = Missing]
    /\ UNCHANGED <<at, arg, seen, faults>>

Next ==
    \/ \E p \in Procs : Call(p) \/ ReconcileStep(p) \/ RequestFails(p) \/ Return(p) \/ Die(p)
    \/ \E n \in Names : Edit(n)

Spec == Init /\ [][Next]_reconcileVars

----------------------------------------------------------------------------
\* Properties.

TypeOK ==
    /\ secrets \in [Names -> Secrets]
    /\ rev \in Nat
    /\ at \in [Procs -> {"idle"} \cup Running \cup Returned]
    /\ arg \in [Procs -> [name : Names, data : Maps]]
    /\ seen \in [Procs -> Secrets]
    /\ faults \in 0..MaxFaults

\* The optimistic lock of ReconcileSecret: as long as the resourceVersion a
\* call read is the current one, what it read is what the secret holds, so
\* that the patch it is about to send is a patch of the current data.
SnapshotIsCurrent ==
    \A p \in Procs :
        LET s == secrets[arg[p].name]
        IN  /\ at[p] = "update" => seen[p] # Missing
            /\ at[p] = "update" /\ s.rv = seen[p].rv => s = seen[p]

\* The doc comment of ReconcileSecret: "If the secret contains other keys, we
\* do not check / delete / update those".  Whatever was written between the
\* Get and the Update of a call, its write leaves every key outside its data
\* map with the value, or the absence, it has at that moment.
OtherKeysUntouched ==
    [][\A p \in Procs :
          at[p] \in {"create", "update"} /\ at'[p] # at[p] =>
              LET old == secrets[arg[p].name].data
                  new == secrets'[arg[p].name].data
              IN  \A k \in Keys \ DOMAIN arg[p].data :
                     /\ k \in DOMAIN old <=> k \in DOMAIN new
                     /\ k \in DOMAIN old => new[k] = old[k]]_reconcileVars

\* The atomic view of a state: versions and snapshots are hidden.
Presence(s) == IF s = Missing THEN "absent" ELSE "present"

Atomic == INSTANCE AtomicSecrets WITH
    content <- [n \in Names |-> [is |-> Presence(secrets[n]), data |-> secrets[n].data]],
    op <- [p \in Procs |-> IF at[p] \in Running THEN "pending" ELSE at[p]],
    req <- arg

\* Every call takes effect in one indivisible step between its start and its
\* return, or not at all: Get-compare-Update behaves as an atomic patch.
AtomicPatch == Atomic!Spec

\* The doc comment of ReconcileSecret: "if it is missing some keys, or they are
\* not what is in the map, the secret will be updated".  No call ends in a
\* panic instead.
MissingKeysGetUpdated == \A p \in Procs : at[p] # "panic"

----------------------------------------------------------------------------
\* The inductive invariant behind SnapshotIsCurrent.

\* resourceVersions are never reused, by deleting and creating a secret again
\* either: a snapshot is never newer than the store.
VersionsAreFresh ==
    /\ \A n \in Names : secrets[n].rv <= rev /\ (secrets[n].rv = 0 => secrets[n] = Missing)
    /\ \A p \in Procs : seen[p].rv <= rev /\ (seen[p].rv = 0 => seen[p] = Missing)

IInv == TypeOK /\ VersionsAreFresh /\ SnapshotIsCurrent

============================================================================
