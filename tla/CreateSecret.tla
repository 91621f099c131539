---------------------------- MODULE CreateSecret ----------------------------
(***************************************************************************)
(* The job of the TUF installation that collects the public parts of the   *)
(* other services (tools/tuf/cmd/tuf/createsecret/main.go): it reads four  *)
(* secrets one after the other, panics if one of them or its entry is      *)
(* missing, and reconciles the secret tuf-secrets, which the TUF server    *)
(* mounts.                                                                 *)
(***************************************************************************)
EXTENDS SecretReconcile, Sequences

CONSTANTS
    Makers   \* the pods of the job among the processes

ASSUME MakersAssumption == Makers \subseteq Procs

VARIABLES
    mstep,   \* per pod: the Get that is next, or a later step
    got      \* per pod: the values it has read, in the order of Sources

makeVars == <<mstep, got>>

\* The flags' defaults, in the order of the Gets.
Sources == <<"fulcio-pub-key", "ctlog-public-key", "rekor-pub-key", "tsa-cert-chain">>

\* The entry of each that is read, and its name in tuf-secrets.
SecretKey == <<"cert", "public", "public", "cert-chain">>
SecretKeyOut == <<"fulcio_v1.crt.pem", "ctfe.pub", "rekor.pub", "tsa.certchain.pem">>

OutNames == {SecretKeyOut[i] : i \in DOMAIN Sources}

\* The Data map made of the values.
data(values) ==
    [k \in {SecretKeyOut[i] : i \in DOMAIN values} |->
        values[CHOOSE i \in DOMAIN values : SecretKeyOut[i] = k]]

MakeInit ==
    /\ mstep = [p \in Makers |-> 1]
    /\ got = [p \in Makers |-> <<>>]

MakeRestart(p) ==
    /\ mstep' = [mstep EXCEPT ![p] = 1]
    /\ got' = [got EXCEPT ![p] = <<>>]

\* Mutant: the entry is looked up in whatever Get returned.
GetSecretUnchecked(p) ==
    /\ mstep[p] \in DOMAIN Sources
    /\ LET d == secrets[Sources[mstep[p]]].data
           key == SecretKey[mstep[p]]
       IN  got' = [got EXCEPT ![p] = Append(@, IF key \in DOMAIN d THEN d[key] ELSE 0)]
    /\ mstep' = [mstep EXCEPT ![p] = @ + 1]
    /\ UNCHANGED reconcileVars

\* A Get and the check of its entry; the panic ends the pod and Kubernetes
\* starts another one.
GetSecret(p) ==
    /\ mstep[p] \in DOMAIN Sources
    /\ LET d == secrets[Sources[mstep[p]]].data
           key == SecretKey[mstep[p]]
       IN  IF key \in DOMAIN d
           THEN /\ got' = [got EXCEPT ![p] = Append(@, d[key])]
                /\ mstep' = [mstep EXCEPT ![p] = @ + 1]
           ELSE MakeRestart(p)
    /\ UNCHANGED reconcileVars

StoreSecret(p) ==
    /\ mstep[p] = Len(Sources) + 1
    /\ Invoke(p, "tuf-secrets", data(got[p]))
    /\ mstep' = [mstep EXCEPT ![p] = @ + 1]
    /\ got' = [got EXCEPT ![p] = <<>>]

Storing(p) == mstep[p] = Len(Sources) + 2
Made(p) == mstep[p] = Len(Sources) + 3

SecretStored(p) ==
    /\ Storing(p)
    /\ at[p] = "ok"
    /\ Reset(p)
    /\ mstep' = [mstep EXCEPT ![p] = @ + 1]
    /\ UNCHANGED <<got, faults>>

\* main panics on an error of ReconcileSecret.
MakeFails(p) ==
    /\ Storing(p)
    /\ at[p] \in {"err", "panic"}
    /\ Reset(p)
    /\ MakeRestart(p)
    /\ UNCHANGED faults

\* The pod is killed, or a Get fails.
MakeDies(p) ==
    /\ ~ Made(p)
    /\ at[p] \notin {"err", "panic"}
    /\ Reset(p)
    /\ MakeRestart(p)
    /\ Fault

MakeStep(p) ==
    \/ GetSecret(p) \/ StoreSecret(p) \/ SecretStored(p) \/ MakeFails(p)
    \/ (ReconcileStep(p) /\ UNCHANGED makeVars)

=============================================================================
