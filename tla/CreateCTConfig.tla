--------------------------- MODULE CreateCTConfig ---------------------------
(***************************************************************************)
(* The createctconfig job                                                  *)
(* (tools/ctlog/cmd/ctlog/createctconfig/main.go): it reads the tree that  *)
(* createtree recorded, fetches the root of Fulcio and creates or updates  *)
(* two secrets: the configuration with the key pair of the CT log, and the *)
(* public key alone.  A pod that fails is started again.  The job is also  *)
(* run again later, for instance after Fulcio has rotated its root.        *)
(***************************************************************************)
EXTENDS CreateTree, SecretReconcile, CTLogConfig

CONSTANTS
    Chains,   \* the chains Fulcio serves, in the order of its rotations
    MaxRuns   \* bound: how often pods complete the job

ASSUME ChainsAssumption ==
    /\ Chains \in Seq(Range(Chains)) /\ Chains # <<>>
    /\ \A i \in DOMAIN Chains : Chains[i] # Unparsable
ASSUME MaxRunsAssumption == MaxRuns \in Nat

VARIABLES
    cmConfig,  \* BinaryData[config] of the ConfigMap: an old configuration or NoConfig
    importKey, \* whether the flag -private-secret names a key to import
    fulcio,    \* the index of the chain Fulcio serves now
    made,      \* how many private keys have been generated or encrypted
    runs,      \* how many runs have been completed
    step,      \* per pod: the next step of main
    tree,      \* per pod: treeIDInt
    chain,     \* per pod: root.ChainPEM
    pub        \* per pod: the public key to publish

ctInputs == <<cmConfig, importKey>>
ctVars == <<ctInputs, fulcio, made, runs, step, tree, chain, pub>>

CTSecret == "ctlog-secrets"
CTPubSecret == "ctlog-public-key"

NoConfig == [logID |-> 0, roots |-> <<>>, public |-> 0]

\* The key pair -private-secret names; generated ones are 1, 2, ...
ImportedKey == 0

CTInit ==
    /\ importKey \in BOOLEAN
    /\ fulcio = 1
    /\ runs = 0
    /\ step = [p \in Procs |-> "start"]
    /\ tree = [p \in Procs |-> 0]
    /\ chain = [p \in Procs |-> Unparsable]
    /\ pub = [p \in Procs |-> 0]

----------------------------------------------------------------------------
\* The steps of main.

\* Mutant: a missing tree ID is read as 0.
ReadTreeAlways(p) ==
    /\ step[p] = "start"
    /\ tree' = [tree EXCEPT ![p] = cm.treeID]
    /\ step' = [step EXCEPT ![p] = "fetch"]
    /\ UNCHANGED <<ctInputs, fulcio, made, runs, chain, pub, reconcileVars>>

\* Without a tree ID the pod exits with an error and is started again.
ReadTree(p) ==
    /\ step[p] = "start"
    /\ cm.treeID # 0
    /\ tree' = [tree EXCEPT ![p] = cm.treeID]
    /\ step' = [step EXCEPT ![p] = "fetch"]
    /\ UNCHANGED <<ctInputs, fulcio, made, runs, chain, pub, reconcileVars>>

\* client.RootCert returns the current chain, or bytes that do not decode.
FetchRoot(p) ==
    /\ step[p] = "fetch"
    /\ \/ chain' = [chain EXCEPT ![p] = Chains[fulcio]] /\ UNCHANGED faults
       \/ chain' = [chain EXCEPT ![p] = Unparsable] /\ Fault
    /\ step' = [step EXCEPT ![p] = "secret"]
    /\ UNCHANGED <<ctInputs, fulcio, made, runs, tree, pub, secrets, rev, at, arg, seen>>

\* Mutant: a configuration that is still in the ConfigMap does not count.
IncompleteSecret(d) == ~ {"private", "public", "config"} \subseteq DOMAIN d

\* The private key, the public key or the configuration is not there.
Incomplete(d) ==
    \/ ~ {"private", "public"} \subseteq DOMAIN d
    \/ "config" \notin DOMAIN d /\ cmConfig = NoConfig

\* createConfigWithKeys, or createConfigFromExistingSecret
NewKey == IF importKey THEN ImportedKey ELSE made + 1

NewConfig(p) == [key |-> NewKey, logID |-> tree[p], roots |-> <<>>]

\* The Get of the secret finds no complete configuration: a new one is handed
\* to ReconcileSecret.
CreateConfig(p) ==
    /\ step[p] = "secret"
    /\ Incomplete(secrets[CTSecret].data)
    /\ Invoke(p, CTSecret, MarshalConfig(AddFulcioRoot(NewConfig(p), chain[p]), made + 1))
    /\ made' = made + 1
    /\ pub' = [pub EXCEPT ![p] = NewKey]
    /\ step' = [step EXCEPT ![p] = "main"]
    /\ UNCHANGED <<ctInputs, fulcio, runs, tree, chain>>

\* The Data map of the Get, with the configuration in the ConfigMap if the
\* secret has none.
ExistingData(d) == With(d, [config |-> cmConfig])

\* Mutant: the public key is written back.
WithoutPrivateKey(m) == Restrict(m, DOMAIN m \ {"private"})

\* What is written back of an existing configuration: not the key pair.
WithoutKeys(m) == Restrict(m, DOMAIN m \ {"private", "public"})

\* The Get finds a complete configuration: the root is added to it.
UpdateConfig(p) ==
    /\ step[p] = "secret"
    /\ LET d == secrets[CTSecret].data
       IN  /\ ~ Incomplete(d)
           /\ \E c \in Unmarshal(ExistingData(d)) :
                 Invoke(p, CTSecret, WithoutKeys(MarshalConfig(AddFulcioRoot(c, chain[p]), 0)))
           /\ pub' = [pub EXCEPT ![p] = d.public]
    /\ step' = [step EXCEPT ![p] = "main"]
    /\ UNCHANGED <<ctInputs, fulcio, made, runs, tree, chain>>

\* Mutant: the public key is not published.
PublishKeySkipped(p) ==
    /\ step[p] = "main"
    /\ at[p] = "ok"
    /\ step' = [step EXCEPT ![p] = "pub"]
    /\ UNCHANGED <<ctInputs, fulcio, made, runs, tree, chain, pub, reconcileVars>>

PublishKey(p) ==
    /\ step[p] = "main"
    /\ at[p] = "ok"
    /\ Invoke(p, CTPubSecret, [public |-> pub[p]])
    /\ step' = [step EXCEPT ![p] = "pub"]
    /\ UNCHANGED <<ctInputs, fulcio, made, runs, tree, chain, pub>>

\* main returns.
Finish(p) ==
    /\ step[p] = "pub"
    /\ at[p] = "ok"
    /\ Reset(p)
    /\ step' = [step EXCEPT ![p] = "done"]
    /\ runs' = runs + 1
    /\ UNCHANGED <<ctInputs, fulcio, made, tree, chain, pub, faults>>

\* The pod starts from the beginning and has forgotten everything.
Restart(p) ==
    /\ Reset(p)
    /\ step' = [step EXCEPT ![p] = "start"]
    /\ tree' = [tree EXCEPT ![p] = 0]
    /\ chain' = [chain EXCEPT ![p] = Unparsable]
    /\ pub' = [pub EXCEPT ![p] = 0]
    /\ UNCHANGED <<ctInputs, fulcio, made, runs>>

\* Mutant: a pod that failed is not started again.
FailStops(p) ==
    /\ at[p] \in {"err", "panic"}
    /\ Reset(p)
    /\ step' = [step EXCEPT ![p] = "failed"]
    /\ UNCHANGED <<ctInputs, fulcio, made, runs, tree, chain, pub, faults>>

\* ReconcileSecret failed: Fatalf or Panicf.
Fail(p) ==
    /\ at[p] \in {"err", "panic"}
    /\ Restart(p)
    /\ UNCHANGED faults

\* The pod dies, reading the ConfigMap, Fulcio or a secret fails, or Fulcio
\* returns an empty chain, of which extractFulcioRoot takes the last
\* certificate: the panic comes before anything is written.
CTDie(p) ==
    /\ step[p] \notin {"start", "done"}
    /\ at[p] \notin {"err", "panic"}
    /\ Restart(p)
    /\ Fault

\* The job is deployed again.
Rerun(p) ==
    /\ step[p] = "done"
    /\ runs < MaxRuns
    /\ Restart(p)
    /\ UNCHANGED faults

CTStep(p) ==
    \/ ReadTree(p) \/ FetchRoot(p) \/ CreateConfig(p) \/ UpdateConfig(p)
    \/ PublishKey(p) \/ Finish(p) \/ Fail(p)
    \/ (ReconcileStep(p) /\ UNCHANGED ctVars)

\* Fulcio serves another chain from now on (external).
RotateFulcio ==
    /\ fulcio < Len(Chains)
    /\ fulcio' = fulcio + 1
    /\ UNCHANGED <<ctInputs, made, runs, step, tree, chain, pub, reconcileVars>>

CTNext ==
    \/ \E p \in Procs :
          CTStep(p) \/ CTDie(p) \/ Rerun(p) \/ (RequestFails(p) /\ UNCHANGED ctVars)
    \/ RotateFulcio

=============================================================================
