----------------------------- MODULE CTLogSetup -----------------------------
(***************************************************************************)
(* The setup of the CT log: createtree and createctconfig run side by side *)
(* (the second fails and is retried until the first has recorded a tree),  *)
(* on an empty cluster, on one that holds the old form of the              *)
(* configuration (in the ConfigMap, with its root under rootca), and on    *)
(* one whose secret holds a root but neither keys nor a configuration.     *)
(***************************************************************************)
EXTENDS CreateCTConfig

CONSTANT LegacyRoots  \* roots that an old secret may hold under rootca

ASSUME CTNames == {CTSecret, CTPubSecret} \subseteq Names

\* The roots that can get into the list.
AllRoots == LegacyRoots \cup {RootOf(Chains[i]) : i \in DOMAIN Chains}

\* No list without repetitions has more roots than there are keys for (the code
\* makes up as many keys as it needs).
ASSUME KeysSuffice == Injection(1..Len(FulcioKeys) + 1, AllRoots) = {}

vars == <<treeVars, ctVars, reconcileVars>>

----------------------------------------------------------------------------

\* What the API server holds: the two secrets, by their Data maps.
Holds(main, public) ==
    LET Object(d) == IF d = Nothing THEN Missing ELSE [rv |-> 1, data |-> d]
    IN  secrets = [n \in Names |-> Object(IF n = CTSecret THEN main ELSE public)]

Fresh ==
    /\ cm = [rv |-> 1, treeID |-> 0]
    /\ trees = 0
    /\ cmConfig = NoConfig
    /\ made = 0
    /\ \E main \in {Nothing} \cup {[rootca |-> r] : r \in LegacyRoots} : Holds(main, Nothing)

Legacy ==
    /\ cm = [rv |-> 1, treeID |-> 1]
    /\ trees = 1
    /\ cmConfig = [logID |-> 1, roots |-> <<"rootca">>, public |-> 1]
    /\ made = 1
    /\ \E r \in LegacyRoots, public \in {Nothing, [public |-> 1]} :
          Holds([private |-> [key |-> 1, enc |-> 1], public |-> 1, rootca |-> r], public)

Init ==
    /\ Fresh \/ Legacy
    /\ rev = 1
    /\ TreeProcsInit
    /\ ReconcileInit
    /\ CTInit

TreePart == TreeNext /\ UNCHANGED <<ctVars, secrets, rev, at, arg, seen>>

Next ==
    \/ TreePart
    \/ CTNext /\ UNCHANGED treeVars

\* Kubernetes runs the pods and starts a failed one again.
Fairness ==
    /\ \A p \in TreeProcs : WF_vars(TreeStep(p) /\ UNCHANGED <<ctVars, secrets, rev, at, arg, seen>>)
    /\ \A p \in Procs : WF_vars(CTStep(p) /\ UNCHANGED treeVars)

Spec == Init /\ [][Next]_vars /\ Fairness

----------------------------------------------------------------------------
\* Properties.

Main == secrets[CTSecret].data
Published == secrets[CTPubSecret].data

\* The configuration in force and the roots the CT log server loads with it.
InForce == IF "config" \in DOMAIN Main THEN Main.config ELSE cmConfig
TrustedRoots == {Main[f] : f \in Range(InForce.roots) \cap DOMAIN Main}

CTTypeOK ==
    /\ TreeTypeOK
    /\ step \in [Procs -> {"start", "fetch", "secret", "main", "pub", "done"}]
    /\ at \in [Procs -> {"idle"} \cup Running \cup Returned]
    /\ \A p \in Procs : at[p] # "idle" <=> step[p] \in {"main", "pub"}
    /\ tree \in [Procs -> 0..trees]
    /\ pub \in [Procs -> 0..made]
    /\ fulcio \in DOMAIN Chains

\* "What matters however is to ensure that the filenames match the keys in the
\* configmap / secret that we construct" (MarshalConfig): the server finds
\* every file that the configuration in force names.
RootFilesPresent == Range(InForce.roots) \subseteq DOMAIN Main

\* The configuration is for the tree that createtree recorded, as long as
\* nobody replaces that tree with --force.
LogIDIsTree == InForce # NoConfig => InForce.logID = cm.treeID

\* The private and the public key of the secret belong together.
KeyPairMatches == "private" \in DOMAIN Main => Main.private.key = Main.public

\* The configuration names the public key that the secret holds.
ConfigKeyMatches == InForce # NoConfig => InForce.public = Main.public

\* "we do not update public/private keys once set" (Unmarshal): the key pair of
\* a complete configuration is never replaced, since every certificate logged
\* so far was signed with it.
KeysOnceSet ==
    [][{"private", "public"} \subseteq DOMAIN Main /\ InForce # NoConfig =>
          Main'.private.key = Main.private.key /\ Main'.public = Main.public]_vars

\* A root that the CT log trusts stays trusted, through rotations of Fulcio,
\* migration of the old form, crashes and reruns.
RootsNeverLost == [][TrustedRoots \subseteq TrustedRoots']_vars

\* The secret with the public key never disagrees with the key pair, and it
\* exists when the job has finished.
PublishedKeyMatches ==
    /\ Published # Nothing => Main # Nothing /\ Published.public = Main.public
    /\ \A p \in Procs : step[p] = "done" => Published # Nothing

\* A finished job that got a chain from Fulcio has made its root trusted.
FetchedRootIsTrusted ==
    \A p \in Procs :
        step[p] = "done" /\ chain[p] # Unparsable => RootOf(chain[p]) \in TrustedRoots

\* The setup completes, whatever (finitely many) faults it meets.
SetupFinishes == <>[](\A p \in Procs : step[p] = "done")

=============================================================================
