------------------------------ MODULE TufStack ------------------------------
(***************************************************************************)
(* The TUF part of hack/setup-scaffolding.sh with the programs it starts.  *)
(* The script applies the createsecret job and the server at once, only    *)
(* then copies the secrets of the other services into their namespace, and *)
(* waits for the job and for the server before it takes the root.  Until   *)
(* the copies are there the job fails and is tried again; until the job    *)
(* has made tuf-secrets, which the server mounts, the server cannot start. *)
(*                                                                         *)
(* Every run of the script gives Fulcio, Rekor and CTLog new keys; the TSA *)
(* keeps the chain it has.  A key is the number of the run that made it.   *)
(* The other services are ready before the TUF part begins, and only the   *)
(* failures of the TUF part are modelled.                                  *)
(***************************************************************************)
EXTENDS TufServer, CreateSecret

CONSTANTS
    MaxSetups   \* bound: runs of the script

ASSUME MaxSetupsAssumption == MaxSetups \in Nat \ {0}

\* The job and the server are different programs, in different pods.
ASSUME PodsAssumption == Makers \cap Servers = {}
ASSUME StackNames == {Sources[i] : i \in DOMAIN Sources} \cup {"tuf-secrets"} \subseteq Names

VARIABLES
    sstep,     \* the next step of the script
    setups,    \* how many times the script has been started
    deployed,  \* "yes" once the manifests of config/tuf have been applied
    ready,     \* the condition Ready of the service, and whether the server
               \* that was ready has died since
    mount,     \* per replica: the files of the volume when it started
    targets,   \* the targets of every repository made
    taken      \* the root in ./root.json

scriptVars == <<sstep, setups, deployed, taken>>
clusterVars == <<ready, mount, targets>>
stackVars == <<vars, makeVars, scriptVars, clusterVars>>

----------------------------------------------------------------------------
\* The script.

\* The secrets in the order they are copied, as indices of Sources.
CopyOrder == <<2, 1, 3, 4>>
CopyName == <<"copy-1", "copy-2", "copy-3", "copy-4">>
AfterCopy == <<"copy-2", "copy-3", "copy-4", "wait-jobs">>

KeyInUse(i) == IF Sources[i] = "tsa-cert-chain" THEN 1 ELSE setups

StackInit ==
    /\ Init
    /\ mode = "init-and-serve" /\ ~ noK8s /\ ~ keepKeys /\ ~ volume
    /\ MakeInit
    /\ sstep = "apply" /\ setups = 1 /\ deployed = "no" /\ taken = 0
    /\ ready = "no"
    /\ mount = [s \in Servers |-> Nothing]
    /\ targets = <<>>

\* Mutant: the script waits for the job before it copies the secrets.
ApplyThenWait ==
    /\ sstep = "apply"
    /\ sstep' = "wait-jobs"
    /\ deployed' = "yes"
    /\ UNCHANGED <<makeVars, setups, taken, clusterVars, vars>>

\* make ko-apply-tuf.  A job that has finished is left as it is, or has been
\* removed after its time to live and is made anew.
Apply ==
    /\ sstep = "apply"
    /\ sstep' = "copy-1"
    /\ deployed' = "yes"
    /\ \/ UNCHANGED makeVars
       \/ /\ deployed = "yes" /\ (\A p \in Makers : Made(p))
          /\ mstep' = [p \in Makers |-> 1]
          /\ got' = [p \in Makers |-> <<>>]
    /\ UNCHANGED <<setups, taken, clusterVars, vars>>

\* kubectl get, sed and kubectl apply: creates the copy or sets its entries,
\* whatever its resourceVersion.
Copy(i) ==
    /\ sstep = CopyName[i]
    /\ sstep' = AfterCopy[i]
    /\ LET j == CopyOrder[i]
           entry == [k \in {SecretKey[j]} |-> KeyInUse(j)]
           old == secrets[Sources[j]]
       IN  IF old.data = entry
           THEN UNCHANGED <<secrets, rev>>
           ELSE /\ secrets' = [secrets EXCEPT ![Sources[j]] = [rv |-> rev + 1, data |-> entry]]
                /\ rev' = rev + 1
    /\ UNCHANGED <<at, arg, seen, faults, tufVars, makeVars, setups, deployed, taken, clusterVars>>

WaitForJobs ==
    /\ sstep = "wait-jobs"
    /\ \A p \in Makers : Made(p)
    /\ sstep' = "wait-server"
    /\ UNCHANGED <<setups, deployed, taken, makeVars, clusterVars, vars>>

\* Mutant: the script does not wait for the server.
NoWaitForServer ==
    /\ sstep = "wait-server"
    /\ sstep' = "take-root"
    /\ UNCHANGED <<setups, deployed, taken, makeVars, clusterVars, vars>>

WaitForServer ==
    /\ sstep = "wait-server"
    /\ ready # "no"
    /\ sstep' = "take-root"
    /\ UNCHANGED <<setups, deployed, taken, makeVars, clusterVars, vars>>

TakeRoot ==
    /\ sstep = "take-root"
    /\ secrets["tuf-root"] # Missing
    /\ taken' = secrets["tuf-root"].data.root
    /\ sstep' = "done"
    /\ UNCHANGED <<setups, deployed, makeVars, clusterVars, vars>>

\* A command fails or a wait times out, errexit ends the script, and it is
\* run again from the start.
ScriptFails ==
    /\ sstep # "done"
    /\ setups < MaxSetups
    /\ setups' = setups + 1
    /\ sstep' = "apply"
    /\ Fault
    /\ UNCHANGED <<deployed, taken, makeVars, clusterVars, tufVars, secrets, rev, at, arg, seen>>

ScriptStep ==
    \/ Apply \/ (\E i \in DOMAIN CopyName : Copy(i))
    \/ WaitForJobs \/ WaitForServer \/ TakeRoot

----------------------------------------------------------------------------
\* The job and the server in the cluster.

JobStep(p) ==
    /\ deployed = "yes"
    /\ MakeStep(p)
    /\ UNCHANGED <<tufVars, scriptVars, clusterVars>>

JobFaults(p) ==
    /\ deployed = "yes"
    /\ MakeDies(p) \/ (RequestFails(p) /\ UNCHANGED makeVars)
    /\ UNCHANGED <<tufVars, scriptVars, clusterVars>>

\* initTUFRepo reads the mounted files one after the other, in the order of
\* their names; the kubelet may bring the volume up to date before the file
\* number k.
ReadOrder == <<"ctfe.pub", "fulcio_v1.crt.pem", "rekor.pub", "tsa.certchain.pem">>

ReadFiles(old, new, k) ==
    [f \in DOMAIN old |->
        IF \E i \in 1..(k - 1) : ReadOrder[i] = f THEN old[f] ELSE new[f]]

\* The pod starts when its volume can be mounted, and is ready when it serves.
ServerStep(s) ==
    /\ step[s] = "start" => deployed = "yes" /\ secrets["tuf-secrets"] # Missing
    /\ Step(s)
    /\ mount' = IF step[s] = "start"
                THEN [mount EXCEPT ![s] = secrets["tuf-secrets"].data] ELSE mount
    /\ IF made' = made
       THEN UNCHANGED targets
       ELSE \E k \in 1..Len(ReadOrder) + 1 :
                targets' = Append(targets, ReadFiles(mount[s], secrets["tuf-secrets"].data, k))
    /\ ready' = IF ready = "no" /\ step'[s] = "serve" THEN "yes" ELSE ready
    /\ UNCHANGED <<makeVars, scriptVars>>

ServerFaults(s) ==
    /\ Die(s) \/ (RequestFails(s) /\ UNCHANGED tufVars)
    /\ ready' = IF step[s] = "serve" THEN "died" ELSE ready
    /\ UNCHANGED <<makeVars, scriptVars, mount, targets>>

StackNext ==
    \/ ScriptStep \/ ScriptFails
    \/ \E p \in Makers : JobStep(p) \/ JobFaults(p)
    \/ \E s \in Servers : ServerStep(s) \/ ServerFaults(s)

\* The script goes on while its commands return, the job controller and the
\* kubelet keep running their pods.
StackSpec ==
    /\ StackInit /\ [][StackNext]_stackVars
    /\ WF_stackVars(ScriptStep)
    /\ \A p \in Makers : WF_stackVars(JobStep(p))
    /\ \A s \in Servers : WF_stackVars(ServerStep(s))

----------------------------------------------------------------------------
\* Properties.

\* On a fresh cluster every repository the server makes, and so the one it
\* serves when the script is done, has the four keys in use as its targets,
\* although the job and the server are started before the keys are copied.
TargetsAreKeysInUse ==
    setups = 1 =>
        \A g \in DOMAIN targets :
            targets[g] = [f \in OutNames |->
                KeyInUse(CHOOSE i \in DOMAIN SecretKeyOut : SecretKeyOut[i] = f)]

\* The root.json the script leaves behind is the one the server serves,
\* unless the server has died after it was ready.
RootIsServed ==
    sstep = "done" /\ ready = "yes" =>
        \A s \in Servers : step[s] = "serve" /\ target[s][RootPath] = taken

\* The script ends.
SetupCompletes == <>(sstep = "done")

=============================================================================
