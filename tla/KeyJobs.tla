------------------------------ MODULE KeyJobs ------------------------------
(***************************************************************************)
(* The jobs that generate key material for Fulcio (createcerts), Rekor     *)
(* (rekor-createsecret) and the timestamp authority (createcertchain).     *)
(* The three have one shape: generate, reconcile the secret that the       *)
(* service mounts and then, for the first two, the secret with the public  *)
(* part.  createcertchain first looks whether there is anything to do.     *)
(*                                                                         *)
(* All that one run generates (key, password, certificates) is one         *)
(* generation, a number; 0 is material that was there before.              *)
(***************************************************************************)
EXTENDS SecretReconcile

CONSTANTS
    Runs     \* bound: how often pods complete the job

ASSUME RunsAssumption == Runs \in Nat

\* A job has a pod.
ASSUME JobPods == Procs # {}

\* A job writes two secrets: the one its service mounts and the public part.
ASSUME JobNames == Names = {"main", "pub"}

VARIABLES
    prog,      \* the program that is run
    made,      \* how many generations have been made
    completed, \* how many runs have been completed
    step,      \* per pod: the next step of main
    gen,       \* per pod: the generation it has made
    overlap    \* history: whether two pods have been at work at once

jobVars == <<prog, made, completed, step, gen, overlap>>
vars == <<jobVars, reconcileVars>>

Programs == {"createcerts", "rekor-createsecret", "createcertchain"}

Secret(n) == secrets[n].data

----------------------------------------------------------------------------
\* The Data maps of the programs.

createAll(g) == [cert |-> g, private |-> g, public |-> g, password |-> g]
fulcioPubData(g) == [cert |-> g, public |-> g]

\* Rekor's password is a flag, the same in every run, and is left out.
signingSecretData(g) == [signing |-> g]
publicKeyData(g) == [public |-> g]

\* Mutant: the password the key is encrypted with is not stored.
secretDataWithoutPassword(g) == [chain |-> g, signing |-> g]

secretData(g) == [chain |-> g, signing |-> g, password |-> g]

MainData(g) ==
    CASE prog = "createcerts" -> createAll(g)
      [] prog = "rekor-createsecret" -> signingSecretData(g)
      [] prog = "createcertchain" -> secretData(g)

PubData(g) ==
    CASE prog = "createcerts" -> fulcioPubData(g)
      [] prog = "rekor-createsecret" -> publicKeyData(g)

\* The keys that the services and the clients mount.
MainKeys ==
    CASE prog = "createcerts" -> {"cert", "private", "public", "password"}
      [] prog = "rekor-createsecret" -> {"signing"}
      [] prog = "createcertchain" -> {"chain", "signing", "password"}

PubKeys ==
    CASE prog = "createcerts" -> {"cert", "public"}
      [] prog = "rekor-createsecret" -> {"public"}
      [] prog = "createcertchain" -> {}

\* What the secrets may hold before: nothing, all of it, or a part.  The
\* manifests under config/ ask the user for such partly filled secrets.
Before ==
    LET Parts(keys) == {Missing} \cup {[rv |-> 1, data |-> [k \in K |-> 0]] :
                                          K \in (SUBSET keys) \ {{}}}
    IN  [main : Parts(MainKeys), pub : Parts(PubKeys)]

Init ==
    /\ prog \in Programs
    /\ secrets \in Before
    /\ rev = 1
    /\ made = 0
    /\ completed = 0
    /\ step = [p \in Procs |-> "start"]
    /\ gen = [p \in Procs |-> 0]
    /\ overlap = "no"
    /\ ReconcileInit

----------------------------------------------------------------------------
\* The steps of main.

AtWork(p) == step[p] \in {"main", "pub"}

Begin(p) ==
    /\ step' = [step EXCEPT ![p] = "main"]
    /\ overlap' = IF \E q \in Procs \ {p} : AtWork(q) THEN "yes" ELSE overlap

\* Only createcertchain looks before it generates.
NothingToDo(d) == prog = "createcertchain" /\ {"chain", "signing", "password"} \subseteq DOMAIN d

Skip(p) ==
    /\ step[p] = "start"
    /\ NothingToDo(Secret("main"))
    /\ step' = [step EXCEPT ![p] = "done"]
    /\ completed' = completed + 1
    /\ UNCHANGED <<prog, made, gen, overlap, reconcileVars>>

\* Mutant: createcertchain does not look either.
GenerateAlways(p) ==
    /\ step[p] = "start"
    /\ made' = made + 1
    /\ gen' = [gen EXCEPT ![p] = made + 1]
    /\ Invoke(p, "main", MainData(made + 1))
    /\ Begin(p)
    /\ UNCHANGED <<prog, completed>>

Generate(p) ==
    /\ step[p] = "start"
    /\ ~ NothingToDo(Secret("main"))
    /\ made' = made + 1
    /\ gen' = [gen EXCEPT ![p] = made + 1]
    /\ Invoke(p, "main", MainData(made + 1))
    /\ Begin(p)
    /\ UNCHANGED <<prog, completed>>

Publish(p) ==
    /\ step[p] = "main"
    /\ prog # "createcertchain"
    /\ at[p] = "ok"
    /\ Invoke(p, "pub", PubData(gen[p]))
    /\ step' = [step EXCEPT ![p] = "pub"]
    /\ UNCHANGED <<prog, made, completed, gen, overlap>>

Finish(p) ==
    /\ step[p] = IF prog = "createcertchain" THEN "main" ELSE "pub"
    /\ at[p] = "ok"
    /\ Reset(p)
    /\ step' = [step EXCEPT ![p] = "done"]
    /\ gen' = [gen EXCEPT ![p] = 0]
    /\ completed' = completed + 1
    /\ UNCHANGED <<prog, made, overlap, faults>>

Restart(p) ==
    /\ Reset(p)
    /\ step' = [step EXCEPT ![p] = "start"]
    /\ gen' = [gen EXCEPT ![p] = 0]
    /\ UNCHANGED <<prog, made, completed, overlap>>

\* Mutant: a failure is taken for success.
FailIgnored(p) ==
    /\ at[p] \in {"err", "panic"}
    /\ Reset(p)
    /\ step' = [step EXCEPT ![p] = "done"]
    /\ UNCHANGED <<prog, made, completed, gen, overlap, faults>>

\* Mutant: a pod that failed is not started again.
FailStops(p) ==
    /\ at[p] \in {"err", "panic"}
    /\ Reset(p)
    /\ step' = [step EXCEPT ![p] = "failed"]
    /\ UNCHANGED <<prog, made, completed, gen, overlap, faults>>

Fail(p) ==
    /\ at[p] \in {"err", "panic"}
    /\ Restart(p)
    /\ UNCHANGED faults

Die(p) ==
    /\ AtWork(p)
    /\ at[p] \notin {"err", "panic"}
    /\ Restart(p)
    /\ Fault

Rerun(p) ==
    /\ step[p] = "done"
    /\ completed < Runs
    /\ Restart(p)
    /\ UNCHANGED faults

Step(p) ==
    \/ Skip(p) \/ Generate(p) \/ Publish(p) \/ Finish(p) \/ Fail(p)
    \/ (ReconcileStep(p) /\ UNCHANGED jobVars)

Next ==
    \E p \in Procs :
        Step(p) \/ Die(p) \/ Rerun(p) \/ (RequestFails(p) /\ UNCHANGED jobVars)

\* Kubernetes runs the pods and starts a failed one again.
Spec == Init /\ [][Next]_vars /\ \A p \in Procs : WF_vars(Step(p))

----------------------------------------------------------------------------
\* Properties.

JobTypeOK ==
    /\ step \in [Procs -> {"start", "main", "pub", "done"}]
    /\ gen \in [Procs -> 0..made]
    /\ at \in [Procs -> {"idle"} \cup Running \cup Returned]
    /\ \A p \in Procs : at[p] # "idle" <=> step[p] \in {"main", "pub"}
    /\ \A n \in Names, k \in UNION {DOMAIN Secret(m) : m \in Names} :
          k \in DOMAIN Secret(n) => Secret(n)[k] \in 0..made

\* A service never mounts a key with the password or the certificate of
\* another generation, however many pods write the secret at the same time:
\* ReconcileSecret replaces all of a generation in one write.
MaterialNeverTorn ==
    \A n \in Names : \A j, k \in DOMAIN Secret(n) : Secret(n)[j] = Secret(n)[k]

\* When pods that were never at work at the same time have all finished, both
\* secrets are complete and of one generation: the public part belongs to the
\* key the service signs with, also after a crash, a lost reply or an error
\* between the two calls of ReconcileSecret.
FinishedJobMatches ==
    overlap = "no" /\ (\A p \in Procs : step[p] = "done") =>
        /\ MainKeys \subseteq DOMAIN Secret("main")
        /\ PubKeys \subseteq DOMAIN Secret("pub")
        /\ \A j \in MainKeys, k \in PubKeys : Secret("pub")[k] = Secret("main")[j]

\* Unless two of its pods have been at work at once, createcertchain never
\* replaces a complete certificate chain and key.
ChainIsKept ==
    [][overlap = "no" /\ NothingToDo(Secret("main")) => UNCHANGED secrets]_vars

\* Every pod finishes, whatever conflicts and (finitely many) faults it meets.
JobsFinish == <>[](\A p \in Procs : step[p] = "done")

============================================================================
