-------------------------- MODULE SecretReconcile --------------------------
(***************************************************************************)
(* secret.ReconcileSecret (tools/secret/pkg/secret/secret.go), the one     *)
(* function through which every job of the repository writes its secrets,  *)
(* as the steps of processes that call it concurrently against the         *)
(* Kubernetes API server.                                                  *)
(*                                                                         *)
(* The API server is external.  It is modelled by what the code relies on: *)
(* Get returns the object with its resourceVersion or NotFound, Create     *)
(* fails when the object exists, Update fails when the object is gone or   *)
(* its resourceVersion is no longer the one that was read, and every       *)
(* accepted write gets a new resourceVersion.                              *)
(*                                                                         *)
(* A Data map is a function from its keys to byte strings.  The byte       *)
(* strings the jobs pass are never empty, so that bytes.Equal is equality  *)
(* and an absent key differs from every value.                             *)
(***************************************************************************)
EXTENDS Faults

CONSTANTS
    Procs,   \* the processes (pods) that call ReconcileSecret
    Names    \* names of secrets (all in the namespace of the job)

ASSUME NamesAssumption == Names # {}

VARIABLES
    secrets,  \* the API server: the object of each name
    rev,      \* the API server: the last resourceVersion given out
    at,       \* per process: where its call of ReconcileSecret stands
    arg,      \* per process: the parameters (name, data) of its call
    seen      \* per process: existingSecret, the object its Get returned

reconcileVars == <<secrets, rev, at, arg, seen, faults>>

----------------------------------------------------------------------------
\* Data maps and secrets.

Nothing == [k \in {} |-> k]

Missing == [rv |-> 0, data |-> Nothing]

\* The loop over data: every key of new is set to its value, the keys of old
\* that new does not name are left alone.
Merge(old, new) ==
    [k \in DOMAIN old \cup DOMAIN new |->
        IF k \in DOMAIN new THEN new[k] ELSE old[k]]

\* Where a call goes after its Get.  A secret without any data is decoded
\* with a nil Data map, and assigning into a nil map panics.
AfterGet(s, data) ==
    IF s = Missing THEN "create"
    ELSE IF Merge(s.data, data) = s.data THEN "ok"
    ELSE IF s.data = Nothing THEN "panic"
    ELSE "update"

----------------------------------------------------------------------------
\* The calls.

NoArg == [name |-> CHOOSE n \in Names : TRUE, data |-> Nothing]

Running == {"get", "create", "update"}
Returned == {"ok", "err", "panic"}

ReconcileInit ==
    /\ at = [p \in Procs |-> "idle"]
    /\ arg = [p \in Procs |-> NoArg]
    /\ seen = [p \in Procs |-> Missing]
    /\ faults = 0

\* A process calls ReconcileSecret(name, data), for the first time or after
\* its last call returned without an error.
Invoke(p, n, d) ==
    /\ at[p] \in {"idle", "ok"}
    /\ at' = [at EXCEPT ![p] = "get"]
    /\ arg' = [arg EXCEPT ![p] = [name |-> n, data |-> d]]
    /\ UNCHANGED <<secrets, rev, seen, faults>>

Get(p) ==
    /\ at[p] = "get"
    /\ LET s == secrets[arg[p].name]
       IN  /\ seen' = [seen EXCEPT ![p] = s]
           /\ at' = [at EXCEPT ![p] = AfterGet(s, arg[p].data)]
    /\ UNCHANGED <<secrets, rev, arg, faults>>

\* Mutant: an accepted write keeps the resourceVersion the caller sent.
CommitKeepsVersion(p, d) ==
    /\ secrets' = [secrets EXCEPT ![arg[p].name] = [rv |-> seen[p].rv, data |-> d]]
    /\ rev' = rev + 1
    /\ UNCHANGED <<arg, seen>>

\* The API server accepts the write d of process p.
Commit(p, d) ==
    /\ secrets' = [secrets EXCEPT ![arg[p].name] = [rv |-> rev + 1, data |-> d]]
    /\ rev' = rev + 1
    /\ UNCHANGED <<arg, seen>>

\* The reply arrives, or it is lost and the call returns an error although
\* the secret has changed.
Reply(p) ==
    \/ at' = [at EXCEPT ![p] = "ok"] /\ UNCHANGED faults
    \/ at' = [at EXCEPT ![p] = "err"] /\ Fault

Create(p) ==
    /\ at[p] = "create"
    /\ secrets[arg[p].name] = Missing
    /\ Commit(p, arg[p].data)
    /\ Reply(p)

\* Mutant: the object is sent without the resourceVersion that was read.
UpdateUnconditionally(p) ==
    /\ at[p] = "update"
    /\ secrets[arg[p].name] # Missing
    /\ Commit(p, Merge(seen[p].data, arg[p].data))
    /\ Reply(p)

\* existingSecret, patched, goes back with the resourceVersion of its Get.
Update(p) ==
    /\ at[p] = "update"
    /\ secrets[arg[p].name].rv = seen[p].rv
    /\ Commit(p, Merge(seen[p].data, arg[p].data))
    /\ Reply(p)

\* Mutant: a refused write sends the call to a state its caller does not know.
RefusedLoops(p) ==
    /\ at[p] \in {"create", "update"}
    /\ secrets[arg[p].name].rv # seen[p].rv
    /\ at' = [at EXCEPT ![p] = "conflict"]
    /\ UNCHANGED <<secrets, rev, arg, seen, faults>>

\* AlreadyExists of a Create, Conflict or NotFound of an Update.
Refused(p) ==
    /\ \/ at[p] = "create" /\ secrets[arg[p].name] # Missing
       \/ at[p] = "update" /\ secrets[arg[p].name].rv # seen[p].rv
    /\ at' = [at EXCEPT ![p] = "err"]
    /\ UNCHANGED <<secrets, rev, arg, seen, faults>>

\* Any other failure of a request that leaves the API server as it was.
RequestFails(p) ==
    /\ at[p] \in Running
    /\ at' = [at EXCEPT ![p] = "err"]
    /\ Fault
    /\ UNCHANGED <<secrets, rev, arg, seen>>

ReconcileStep(p) == Get(p) \/ Create(p) \/ Update(p) \/ Refused(p)

\* The caller takes the result, or its process dies in the middle of the call.
Reset(p) ==
    /\ at' = [at EXCEPT ![p] = "idle"]
    /\ arg' = [arg EXCEPT ![p] = NoArg]
    /\ seen' = [seen EXCEPT ![p] = Missing]
    /\ UNCHANGED <<secrets, rev>>

============================================================================
