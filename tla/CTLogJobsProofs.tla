-------------------------- MODULE CTLogJobsProofs --------------------------
(***************************************************************************)
(* What the setup of the CT log keeps when its jobs run as they are        *)
(* deployed.  If no pod of createtree is forced, everything is for one     *)
(* tree (OneTree).  If createctconfig has one pod at a time, as its Job    *)
(* says, keys and roots are kept and the published key is theirs           *)
(* (SoleJob).  Both rest on CTInv of CTLogSetupProofs.                     *)
(***************************************************************************)
EXTENDS CTLogSetupProofs

\* Most steps are for Zenon; those that need arithmetic or the theory of
\* functions say so.
USE ZenonT(20)

\* The tree of the configuration, when no createtree pod is forced.

\* Without --force there is one tree, and everything is for that tree.
ForTree(d) == "config" \in DOMAIN d => d.config.logID = cm.treeID /\ cm.treeID # 0

TreeOf(p) ==
    /\ tree[p] # 0 => tree[p] = cm.treeID
    /\ step[p] \in {"fetch", "secret"} => tree[p] # 0
    /\ step[p] = "main" => ForTree(arg[p].data) /\ (at[p] = "update" => ForTree(seen[p].data))

OneTree ==
    /\ ForTree(Main)
    /\ cmConfig # NoConfig => cmConfig.logID = cm.treeID
    /\ \A p \in Procs : TreeOf(p)

\* Where nothing names a tree yet, a new one changes nothing.
LEMMA TreeStepOneTree ==
    ASSUME CTInv, OneTree, Forced = {}, TreePart
    PROVE  OneTree'
<1>1. /\ secrets' = secrets /\ cmConfig' = cmConfig /\ step' = step /\ tree' = tree
      /\ arg' = arg /\ at' = at /\ seen' = seen /\ Main' = Main
  BY DEF TreePart, ctVars, ctInputs, Main
<1>2. CASE cm.treeID # 0
  <2>1. TreeIInv
    BY DEF CTInv, CTTypes
  <2>2. cm'.treeID = cm.treeID
    BY <1>2, <2>1, OnlyForcedReplaces DEF TreePart
  <2>3. \A d : ForTree(d)' <=> ForTree(d)
    BY <2>2 DEF ForTree
  <2>4. ForTree(Main)'
    BY <1>1, <2>2 DEF OneTree, ForTree
  <2>5. \A p \in Procs : TreeOf(p)'
    BY <1>1, <2>2 DEF OneTree, TreeOf, ForTree
  <2> QED
    BY <1>1, <2>2, <2>4, <2>5 DEF OneTree
<1>3. CASE cm.treeID = 0
  <2>1. "config" \notin DOMAIN Main
    BY <1>3 DEF OneTree, ForTree
  <2>2. cmConfig = NoConfig
    <3>1. cmConfig \in {NoConfig, OldConfig} /\ OldConfig.logID = 1
      BY DEF CTInv, CTTypes, OldConfig
    <3> QED
      BY SMT, <1>3, <3>1 DEF OneTree
  <2>3. \A p \in Procs : tree[p] = 0 /\ step[p] \notin {"fetch", "secret"}
    BY <1>3 DEF OneTree, TreeOf
  <2>4. \A p \in Procs : step[p] # "main"
    <3> SUFFICES ASSUME NEW p \in Procs, step[p] = "main" PROVE FALSE
      OBVIOUS
    <3>1. "config" \in DOMAIN arg[p].data
      BY DEF CTInv, CTCall
    <3> QED
      BY <1>3, <3>1 DEF OneTree, TreeOf, ForTree
  <2> QED
    BY <1>1, <2>1, <2>2, <2>3, <2>4 DEF OneTree, TreeOf, ForTree
<1> QED
  BY <1>2, <1>3

\* A pod configures the log for the tree it has read, or keeps the log that the
\* existing configuration names.
LEMMA PodStepOneTree ==
    ASSUME CTInv, OneTree, NEW p \in Procs, PodStep(p), UNCHANGED treeVars
    PROVE  OneTree'
<1>0. PodTypes /\ TreeIInv /\ Whole(Main, made) /\ CTCall(p)
  BY TypesSplit DEF CTInv
<1>1. PodTypes' /\ PodFrame(p)
  BY <1>0, PodStepTypes
<1>2. /\ chain[p] \in {Unparsable} \cup Range(Chains) /\ made \in Nat
      /\ cmConfig' = cmConfig /\ Main' = Main /\ cm' = cm
  BY <1>0, <1>1 DEF CTCall, PodTypes, PodFrame, Main, treeVars
<1>3. ForTree(Main)' /\ (cmConfig # NoConfig => cmConfig.logID = cm.treeID)'
  BY <1>2 DEF OneTree, ForTree
<1>4. ASSUME NEW q \in Procs \ {p} PROVE TreeOf(q)'
  <2>1. /\ tree'[q] = tree[q] /\ step'[q] = step[q] /\ at'[q] = at[q]
        /\ arg'[q] = arg[q] /\ seen'[q] = seen[q] /\ cm' = cm
    BY <1>1, <1>2 DEF PodFrame
  <2>2. TreeOf(q)
    BY DEF OneTree
  <2> QED
    BY <2>1, <2>2 DEF TreeOf, ForTree
<1>5. SUFFICES TreeOf(p)'
  BY <1>3, <1>4 DEF OneTree
<1>6. CASE ReadTree(p)
  <2>1. step'[p] = "fetch" /\ tree'[p] = cm.treeID /\ cm.treeID # 0
    BY <1>0, <1>6 DEF ReadTree, PodTypes
  <2> QED
    BY <1>2, <2>1 DEF TreeOf
<1>7. CASE FetchRoot(p) \/ Finish(p) \/ PublishKey(p)
  <2>1. /\ step'[p] \in {"secret", "pub", "done"} /\ tree' = tree
        /\ step'[p] = "secret" => step[p] = "fetch"
    BY <1>0, <1>7 DEF FetchRoot, Finish, PublishKey, PodTypes
  <2> QED
    BY <1>2, <2>1 DEF OneTree, TreeOf
<1>8. CASE Fail(p) \/ CTDie(p) \/ Rerun(p)
  <2>1. step'[p] = "start" /\ tree'[p] = 0
    BY <1>0, <1>8 DEF Fail, CTDie, Rerun, Restart, PodTypes
  <2> QED
    BY <2>1 DEF TreeOf
<1>9. ASSUME NEW m, Invoke(p, CTSecret, m), step'[p] = "main", tree' = tree,
             m["config"].logID = cm.treeID, cm.treeID # 0
      PROVE  TreeOf(p)'
  <2>1. arg'[p] = [name |-> CTSecret, data |-> m] /\ at'[p] = "get"
    BY <1>0, <1>9 DEF Invoke, PodTypes, CallTypes
  <2>2. arg'[p].data = m
    BY SMT, <2>1
  <2> QED
    BY <1>2, <1>9, <2>1, <2>2 DEF OneTree, TreeOf, ForTree
<1>10. CASE CreateConfig(p)
  <2> DEFINE m == MarshalConfig(AddFulcioRoot(NewConfig(p), chain[p]), made + 1)
  <2>1. /\ Invoke(p, CTSecret, m) /\ tree' = tree /\ step' = [step EXCEPT ![p] = "main"]
        /\ step[p] = "secret"
    BY <1>10 DEF CreateConfig
  <2>2. step'[p] = "main" /\ NewKey \in 0..(made + 1)
    BY SMT, <1>0, <1>2, <2>1 DEF PodTypes, NewKey, ImportedKey
  <2>d. IsNewData(m, made + 1, NewKey, tree[p], chain[p])
    BY <1>2, <2>2, NewData DEF NewConfig
  <2> HIDE DEF m
  <2>3. m["config"].logID = tree[p]
    BY <2>d DEF IsNewData
  <2>4. tree[p] = cm.treeID /\ cm.treeID # 0
    BY <2>1 DEF OneTree, TreeOf
  <2> QED
    BY <1>9, <2>1, <2>2, <2>3, <2>4
<1>11. CASE UpdateConfig(p)
  <2>1. PICK c \in Unmarshal(ExistingData(Main)) :
            Invoke(p, CTSecret, WithoutKeys(MarshalConfig(AddFulcioRoot(c, chain[p]), 0)))
    BY <1>11 DEF UpdateConfig, Main
  <2> DEFINE m == WithoutKeys(MarshalConfig(AddFulcioRoot(c, chain[p]), 0))
  <2>2. ~ Incomplete(Main) /\ step'[p] = "main" /\ tree' = tree /\ step[p] = "secret"
    BY <1>0, <1>11 DEF UpdateConfig, Main, PodTypes
  <2>3. Sound(Main, made)
    BY <1>0 DEF Whole
  <2>d. IsNextData(m, made, Main, chain[p])
    BY <1>2, <2>2, <2>3, NextData
  <2>5. Invoke(p, CTSecret, m)
    BY <2>1
  <2> HIDE DEF m
  <2>4. m["config"].logID = ConfigOf(Main).logID
    BY <2>d DEF IsNextData
  <2>6. ConfigOf(Main).logID = cm.treeID /\ cm.treeID # 0
    BY <2>2 DEF ConfigOf, OneTree, TreeOf, ForTree, Incomplete
  <2> QED
    BY <1>9, <2>2, <2>4, <2>5, <2>6
<1> QED
  BY <1>6, <1>7, <1>8, <1>10, <1>11 DEF PodStep

\* A call writes a configuration for that tree.
LEMMA CallStepOneTree ==
    ASSUME CTInv, OneTree, NEW p \in Procs, CallStep(p), UNCHANGED <<ctVars, treeVars>>
    PROVE  OneTree'
<1>0. /\ CTCall(p) /\ PodTypes /\ cm' = cm
      /\ cmConfig' = cmConfig /\ step' = step /\ tree' = tree
  BY TypesSplit DEF CTInv, ctVars, ctInputs, treeVars
<1>1. CallFrame(p)
  BY <1>0, CallStepTypes
<1>2. ForTree(Main)'
  <2>1. MainKept \/ MainCreated(p) \/ MainUpdated(p)
    BY MainOutcomes
  <2>2. CASE MainKept
    BY <1>0, <2>2 DEF MainKept, OneTree, ForTree
  <2>3. CASE MainCreated(p)
    BY <1>0, <2>3 DEF MainCreated, OneTree, TreeOf, ForTree
  <2>4. CASE MainUpdated(p)
    <3>1. "config" \in DOMAIN arg[p].data /\ Main' = Merge(seen[p].data, arg[p].data)
      BY <1>0, <2>4 DEF CTCall, MainUpdated
    <3>2. Main'["config"] = arg[p].data["config"]
      BY <3>1 DEF Merge
    <3>3. arg[p].data["config"].logID = cm.treeID /\ cm.treeID # 0
      BY <2>4, <3>1 DEF MainUpdated, OneTree, TreeOf, ForTree
    <3> QED
      BY <1>0, <3>2, <3>3 DEF ForTree
  <2> QED
    BY <2>1, <2>2, <2>3, <2>4
<1>3. ASSUME NEW q \in Procs \ {p} PROVE TreeOf(q)'
  <2>1. /\ tree'[q] = tree[q] /\ step'[q] = step[q] /\ at'[q] = at[q]
        /\ arg'[q] = arg[q] /\ seen'[q] = seen[q] /\ cm' = cm
    BY <1>0, <1>1 DEF CallFrame
  <2>2. TreeOf(q)
    BY DEF OneTree
  <2> QED
    BY <2>1, <2>2 DEF TreeOf, ForTree
<1>4. TreeOf(p)'
  <2>1. step[p] = "main" /\ at'[p] = "update" => seen'[p].data = Main
    BY <1>0, <1>1 DEF CallFrame, CTCall, Main
  <2> QED
    BY <1>0, <1>1, <2>1 DEF OneTree, TreeOf, ForTree, CallFrame
<1> QED
  BY <1>0, <1>2, <1>3, <1>4 DEF OneTree

\* Without --force, all that the pods read, hand over and store is for the one
\* tree that createtree recorded.
LEMMA OneTreeNext == CTInv /\ OneTree /\ Forced = {} /\ [Next]_vars => OneTree'
<1> SUFFICES ASSUME CTInv, OneTree, Forced = {}, [Next]_vars PROVE OneTree'
  OBVIOUS
<1>1. CASE TreePart
  BY <1>1, TreeStepOneTree
<1>2. ASSUME NEW p \in Procs, PodStep(p), UNCHANGED treeVars PROVE OneTree'
  BY <1>2, PodStepOneTree
<1>3. ASSUME NEW p \in Procs, CallStep(p), UNCHANGED <<ctVars, treeVars>> PROVE OneTree'
  BY <1>3, CallStepOneTree
<1>4. CASE (RotateFulcio /\ UNCHANGED treeVars) \/ UNCHANGED vars
  <2>1. /\ secrets' = secrets /\ cmConfig' = cmConfig /\ step' = step /\ tree' = tree
        /\ arg' = arg /\ at' = at /\ seen' = seen /\ Main' = Main /\ cm' = cm
    BY <1>4 DEF RotateFulcio, vars, ctVars, ctInputs, reconcileVars, treeVars, Main
  <2> QED
    BY <2>1 DEF OneTree, TreeOf, ForTree
<1> QED
  BY <1>1, <1>2, <1>3, <1>4, StepCases

LEMMA OneTreeInit == Init => OneTree
<1> SUFFICES ASSUME Init PROVE OneTree
  OBVIOUS
<1>1. "config" \notin DOMAIN Main
  <2>1. PICK main, public : Holds(main, public) /\ "config" \notin DOMAIN main
    <3>1. CASE Fresh
      <4>1. PICK main \in {Nothing} \cup {[rootca |-> r] : r \in LegacyRoots} : Holds(main, Nothing)
        BY <3>1 DEF Fresh
      <4>2. "config" \notin DOMAIN main
        BY SMT DEF Nothing
      <4> QED
        BY <4>1, <4>2
    <3>2. CASE Legacy
      BY SMT, <3>2 DEF Legacy
    <3> QED
      BY <3>1, <3>2 DEF Init
  <2> QED
    BY <2>1, CTNames DEF Holds, Main, Missing
<1>2. cmConfig # NoConfig => cmConfig.logID = cm.treeID
  BY SMT DEF Init, Fresh, Legacy
<1>3. \A p \in Procs : tree[p] = 0 /\ step[p] = "start"
  BY DEF Init, CTInit
<1> QED
  BY <1>1, <1>2, <1>3 DEF OneTree, TreeOf, ForTree

\* As long as nobody replaces the tree with --force, the configuration that
\* createctconfig stores is for the tree that createtree recorded, whichever
\* pods overlap, fail and start again.
THEOREM ConfigIsForTheTree == ASSUME Forced = {} PROVE Spec => []LogIDIsTree
<1>1. OneTree => LogIDIsTree
  BY DEF OneTree, ForTree, LogIDIsTree, InForce
<1>2. CTInv /\ OneTree /\ [Next]_vars => OneTree'
  BY OneTreeNext
<1> QED
  BY <1>1, <1>2, OneTreeInit, SetupIsSound, PTL DEF Spec

----------------------------------------------------------------------------
\* A single pod, one run after the other.

SingleJob == \A p, q \in Procs : p = q

\* The pod makes a key pair only for a secret without a configuration, and
\* otherwise lists every root of the secret again.
NewKeys(p) ==
    /\ Incomplete(Main)
    /\ KeyPair \subseteq DOMAIN arg[p].data
    /\ arg[p].data.config.public = arg[p].data.public
    /\ pub[p] = arg[p].data.public

SameKeys(p) ==
    /\ ~ Incomplete(Main)
    /\ KeyPair \cap DOMAIN arg[p].data = {}
    /\ arg[p].data.config.public = Main.public
    /\ pub[p] = Main.public
    /\ FulcioRoots(Main) \subseteq Listed(arg[p].data)

\* What holds once the configuration has been stored.
Configured(p) ==
    /\ ~ Incomplete(Main) /\ "config" \in DOMAIN Main
    /\ pub[p] = Main.public
    /\ chain[p] # Unparsable => RootOf(chain[p]) \in Listed(Main)

PublicKey == Published = [public |-> Main.public]

SoleRun(p) ==
    /\ at[p] = "update" => seen[p] = secrets[arg[p].name]
    /\ step[p] = "main" /\ at[p] \in Running =>
          /\ NewKeys(p) \/ SameKeys(p)
          /\ chain[p] # Unparsable => RootOf(chain[p]) \in Listed(arg[p].data)
    /\ step[p] = "main" /\ at[p] = "ok" => Configured(p)
    /\ step[p] \in {"pub", "done"} => Configured(p)
    /\ step[p] = "pub" => arg[p] = [name |-> CTPubSecret, data |-> [public |-> pub[p]]]
    /\ step[p] = "pub" /\ at[p] = "ok" => PublicKey
    /\ step[p] = "done" => PublicKey

SoleJob ==
    /\ ConfigKeyMatches
    /\ Published = Nothing \/ (PublicKey /\ ~ Incomplete(Main))
    /\ \A p \in Procs : SoleRun(p)

\* A single pod: what the secret holds once the data of a call is in it.

\* Merging sound data with a configuration lists what the data lists.
LEMMA MergeLists ==
    ASSUME NEW n, NEW old, NEW new, Sound(new, n), "config" \in DOMAIN new
    PROVE  /\ "config" \in DOMAIN Merge(old, new)
           /\ Merge(old, new)["config"] = new["config"]
           /\ Listed(Merge(old, new)) = Listed(new)
<1> DEFINE m == Merge(old, new)
<1>1. DOMAIN m = DOMAIN old \cup DOMAIN new /\ \A k \in DOMAIN new : m[k] = new[k]
  BY DEF Merge
<1>2. Range(new["config"].roots) \subseteq DOMAIN new
  BY DEF Sound
<1> HIDE DEF m
<1>3. "config" \in DOMAIN m /\ m["config"] = new["config"]
  BY <1>1
<1>4. Listed(m) = Listed(new)
  BY <1>1, <1>2, <1>3 DEF Listed
<1> QED
  BY <1>3, <1>4 DEF m

\* The data of pod p is in the secret.
Stored(p) == Main' = Merge(Main, arg[p].data)

\* The pod has seen the secret as it is, so that a call leaves it alone or
\* merges its data into it, and it succeeds only in the second case.
LEMMA SoleMerge ==
    ASSUME CTInv, NEW p \in Procs, SoleRun(p), CallStep(p), step[p] = "main"
    PROVE  /\ MainKept \/ Stored(p)
           /\ at'[p] = "ok" => Stored(p)
<1>1. CTCall(p)
  BY DEF CTInv
<1>2. /\ MainKept \/ MainCreated(p) \/ MainUpdated(p)
      /\ at'[p] = "ok" /\ MainKept => Merge(Main, arg[p].data) = Main
  BY MainOutcomes
<1>3. CASE MainKept
  BY <1>2, <1>3 DEF MainKept, Stored
<1>4. CASE MainCreated(p)
  <2>1. Main = Nothing /\ Main' = arg[p].data /\ Sound(arg[p].data, made)
    BY <1>1, <1>4 DEF MainCreated, CTCall
  <2>2. Merge(Nothing, arg[p].data) = arg[p].data
    <3>1. DOMAIN Nothing \subseteq DOMAIN arg[p].data
      BY DEF Nothing
    <3> QED
      BY <2>1, <3>1, MergeCovers DEF Sound
  <2> QED
    BY <2>1, <2>2 DEF Stored
<1>5. CASE MainUpdated(p)
  <2>1. seen[p] = secrets[CTSecret]
    BY <1>1, <1>5 DEF MainUpdated, SoleRun, CTCall
  <2> QED
    BY <1>5, <2>1 DEF MainUpdated, Stored, Main
<1> QED
  BY <1>2, <1>3, <1>4, <1>5

\* The key pair and the configuration that are in the secret then.
LEMMA WhatIsStored ==
    ASSUME CTInv, NEW p \in Procs, SoleRun(p), step[p] = "main", at[p] \in Running, Stored(p),
           cmConfig' = cmConfig, pub' = pub, chain' = chain
    PROVE  /\ Configured(p)'
           /\ Main'["config"].public = Main'["public"]
           /\ Listed(arg[p].data) = Listed(Main')
           /\ SameKeys(p) => Main'["private"] = Main["private"] /\ Main'["public"] = Main["public"]
<1> DEFINE d == arg[p].data
           m == Merge(Main, d)
<1>1. Sound(d, made) /\ "config" \in DOMAIN d
  BY DEF CTInv, CTCall
<1>2. NewKeys(p) \/ SameKeys(p)
  BY DEF SoleRun
<1>3. /\ DOMAIN m = DOMAIN Main \cup DOMAIN d /\ \A k \in DOMAIN d : m[k] = d[k]
      /\ \A k \in DOMAIN Main \ DOMAIN d : m[k] = Main[k]
  BY DEF Merge
<1>4. "config" \in DOMAIN m /\ m["config"] = d["config"] /\ Listed(m) = Listed(d)
  BY SMT, <1>1, MergeLists
<1>5. Main' = m
  BY DEF Stored
<1> HIDE DEF m
<1>6. /\ {"private", "public"} \subseteq DOMAIN m /\ m["public"] = pub[p] /\ m["config"].public = pub[p]
      /\ SameKeys(p) => m["private"] = Main["private"] /\ m["public"] = Main["public"]
  <2>1. CASE NewKeys(p)
    <3>1. /\ "private" \in DOMAIN d /\ "public" \in DOMAIN d
          /\ d["public"] = pub[p] /\ d["config"].public = pub[p] /\ Incomplete(Main)
      BY <2>1 DEF NewKeys, KeyPair
    <3>2. ~ SameKeys(p)
      BY <3>1 DEF SameKeys
    <3> QED
      BY <1>3, <1>4, <3>1, <3>2
  <2>2. CASE SameKeys(p)
    <3>1. /\ "private" \in DOMAIN Main \ DOMAIN d /\ "public" \in DOMAIN Main \ DOMAIN d
          /\ Main["public"] = pub[p] /\ d["config"].public = pub[p]
      BY <2>2 DEF SameKeys, KeyPair, Incomplete
    <3> QED
      BY <1>3, <1>4, <3>1
  <2> QED
    BY <1>2, <2>1, <2>2
<1>7. chain[p] # Unparsable => RootOf(chain[p]) \in Listed(d)
  BY DEF SoleRun
<1>8. ~ Incomplete(Main)'
  BY <1>4, <1>5, <1>6 DEF Incomplete
<1>9. Configured(p)'
  BY <1>4, <1>5, <1>6, <1>7, <1>8 DEF Configured
<1> QED
  BY <1>4, <1>5, <1>6, <1>9

\* A step of main keeps what holds of a single pod.
LEMMA PodStepSole ==
    ASSUME CTInv, SoleJob, NEW p \in Procs, PodStep(p), UNCHANGED treeVars
    PROVE  SoleRun(p)'
<1>0. PodTypes /\ TreeIInv /\ Whole(Main, made) /\ CTCall(p) /\ SoleRun(p)
  BY TypesSplit DEF CTInv, SoleJob
<1>1. PodTypes' /\ PodFrame(p)
  BY <1>0, PodStepTypes
<1>2. /\ chain[p] \in {Unparsable} \cup Range(Chains) /\ made \in Nat
      /\ cmConfig' = cmConfig /\ secrets' = secrets /\ Main' = Main /\ Published' = Published
  BY <1>0, <1>1 DEF CTCall, PodTypes, PodFrame, Main, Published
<1>3. \A d : Incomplete(d)' <=> Incomplete(d)
  BY <1>2 DEF Incomplete
<1>4. ASSUME step'[p] \in {"start", "fetch", "secret"} PROVE SoleRun(p)'
  <2>1. at'[p] = "idle"
    BY <1>1, <1>4 DEF PodTypes
  <2> QED
    BY <1>4, <2>1 DEF SoleRun
<1>5. CASE ReadTree(p) \/ FetchRoot(p) \/ Fail(p) \/ CTDie(p) \/ Rerun(p)
  <2>1. step'[p] \in {"start", "fetch", "secret"}
    BY <1>0, <1>5 DEF ReadTree, FetchRoot, Fail, CTDie, Rerun, Restart, PodTypes
  <2> QED
    BY <1>4, <2>1
<1>6. ASSUME chain' = chain, pub' = pub, Configured(p) PROVE Configured(p)'
  BY <1>2, <1>6 DEF Configured, Incomplete
<1>7. CASE PublishKey(p)
  <2>1. step'[p] = "pub" /\ chain' = chain /\ pub' = pub /\ step[p] = "main" /\ at[p] = "ok"
    BY <1>0, <1>7 DEF PublishKey, PodTypes
  <2>a. /\ at' = [at EXCEPT ![p] = "get"]
        /\ arg' = [arg EXCEPT ![p] = [name |-> CTPubSecret, data |-> [public |-> pub[p]]]]
    BY <1>7 DEF PublishKey, Invoke
  <2>2. at'[p] = "get" /\ arg'[p] = [name |-> CTPubSecret, data |-> [public |-> pub[p]]]
    BY <1>0, <2>a DEF PodTypes, CallTypes
  <2>3. Configured(p)'
    BY <1>0, <1>6, <2>1 DEF SoleRun
  <2> QED
    BY <2>1, <2>2, <2>3 DEF SoleRun
<1>8. CASE Finish(p)
  <2>1. step'[p] = "done" /\ chain' = chain /\ pub' = pub /\ step[p] = "pub" /\ at[p] = "ok"
    BY <1>0, <1>8 DEF Finish, PodTypes
  <2>2. at'[p] = "idle"
    BY <1>0, <1>8 DEF Finish, Reset, PodTypes, CallTypes
  <2>3. Configured(p)'
    BY <1>0, <1>6, <2>1 DEF SoleRun
  <2>4. PublicKey'
    BY <1>0, <1>2, <2>1 DEF SoleRun, PublicKey
  <2> QED
    BY <2>1, <2>2, <2>3, <2>4 DEF SoleRun
<1>9. ASSUME step'[p] = "main", at'[p] = "get", (NewKeys(p) \/ SameKeys(p))',
             chain'[p] # Unparsable => RootOf(chain'[p]) \in Listed(arg'[p].data)
      PROVE  SoleRun(p)'
  BY <1>9 DEF SoleRun
<1>d. ASSUME NEW a, NEW n, NEW d, a = [name |-> n, data |-> d] PROVE a.data = d
  BY <1>d
<1>10. CASE CreateConfig(p)
  <2> DEFINE m == MarshalConfig(AddFulcioRoot(NewConfig(p), chain[p]), made + 1)
  <2>1. /\ Invoke(p, CTSecret, m) /\ pub' = [pub EXCEPT ![p] = NewKey] /\ chain' = chain
        /\ step' = [step EXCEPT ![p] = "main"] /\ Incomplete(Main)
    BY <1>10 DEF CreateConfig, Main
  <2>2. step'[p] = "main" /\ NewKey \in 0..(made + 1) /\ pub'[p] = NewKey
    BY SMT, <1>0, <1>2, <2>1 DEF PodTypes, NewKey, ImportedKey
  <2>3. IsNewData(m, made + 1, NewKey, tree[p], chain[p])
    BY <1>2, <2>2, NewData DEF NewConfig
  <2> HIDE DEF m
  <2>a. /\ at' = [at EXCEPT ![p] = "get"]
        /\ arg' = [arg EXCEPT ![p] = [name |-> CTSecret, data |-> m]]
    BY <2>1 DEF Invoke
  <2>4. arg'[p] = [name |-> CTSecret, data |-> m] /\ at'[p] = "get"
    BY <1>0, <2>a DEF PodTypes, CallTypes
  <2>5. arg'[p].data = m
    BY <1>d, <2>4
  <2>6. NewKeys(p)'
    BY <1>2, <1>3, <2>1, <2>2, <2>3, <2>5 DEF NewKeys, IsNewData
  <2> QED
    BY <1>9, <2>1, <2>2, <2>3, <2>4, <2>5, <2>6 DEF IsNewData
<1>11. CASE UpdateConfig(p)
  <2>1. PICK c \in Unmarshal(ExistingData(Main)) :
            Invoke(p, CTSecret, WithoutKeys(MarshalConfig(AddFulcioRoot(c, chain[p]), 0)))
    BY <1>11 DEF UpdateConfig, Main
  <2> DEFINE m == WithoutKeys(MarshalConfig(AddFulcioRoot(c, chain[p]), 0))
  <2>2. /\ ~ Incomplete(Main) /\ step'[p] = "main" /\ chain' = chain
        /\ pub'[p] = Main["public"]
    BY <1>0, <1>11 DEF UpdateConfig, Main, PodTypes
  <2>3. IsNextData(m, made, Main, chain[p])
    <3>1. Sound(Main, made)
      BY <1>0 DEF Whole
    <3> QED
      BY <1>2, <2>2, <3>1, NextData
  <2>4. Invoke(p, CTSecret, m)
    BY <2>1
  <2> HIDE DEF m
  <2>a. /\ at' = [at EXCEPT ![p] = "get"]
        /\ arg' = [arg EXCEPT ![p] = [name |-> CTSecret, data |-> m]]
    BY <2>4 DEF Invoke
  <2>5. arg'[p] = [name |-> CTSecret, data |-> m] /\ at'[p] = "get"
    BY <1>0, <2>a DEF PodTypes, CallTypes
  <2>6. arg'[p].data = m
    BY <1>d, <2>5
  <2>7. SameKeys(p)'
    BY <1>2, <1>3, <2>2, <2>3, <2>6 DEF SameKeys, IsNextData
  <2> QED
    BY <1>9, <2>2, <2>3, <2>5, <2>6, <2>7 DEF IsNextData
<1> QED
  BY <1>5, <1>7, <1>8, <1>10, <1>11 DEF PodStep

\* The call for the public key: the secret holds it, or what it held before.
LEMMA PublicKeyCall ==
    ASSUME CTInv, SoleJob, NEW p \in Procs, CallStep(p), step[p] = "pub"
    PROVE  /\ MainKept
           /\ Published' = Published \/ Published' = [public |-> Main.public]
           /\ at'[p] = "ok" => Published' = [public |-> Main.public]
<1>0. CTCall(p) /\ CallTypes /\ SoleRun(p)
  BY DEF CTInv, CTTypes, SoleJob
<1>1. /\ arg[p] = [name |-> CTPubSecret, data |-> [public |-> pub[p]]] /\ pub[p] = Main.public
      /\ at[p] = "update" => seen[p] = secrets[arg[p].name]
  BY <1>0 DEF SoleRun, Configured
<1>a. arg[p] = [name |-> CTPubSecret, data |-> [public |-> Main.public]]
  BY <1>1
<1>2. arg[p].name = CTPubSecret /\ arg[p].data = [public |-> Main.public]
  BY SMT, <1>a
<1>3. CTSecret \in Names /\ CTPubSecret \in Names /\ CTSecret # CTPubSecret
  BY CTNames DEF CTSecret, CTPubSecret
<1>4. DOMAIN Published \subseteq {"public"}
  BY DEF SoleJob, PublicKey, Nothing
<1>5. Covers(p)
  <2>1. DOMAIN arg[p].data = {"public"} /\ arg[p].data = [k \in {"public"} |-> arg[p].data[k]]
    BY <1>2
  <2>2. /\ DOMAIN secrets[arg[p].name].data \subseteq {"public"}
        /\ at[p] = "update" => DOMAIN seen[p].data \subseteq {"public"}
    BY <1>1, <1>2, <1>4 DEF Published
  <2> QED
    BY <1>2, <1>3, <2>1, <2>2 DEF Covers
<1>6. CallFrame(p) /\ CallWrites(p)
  BY <1>0, <1>5, CallStaysInFrame, CoveringCall
<1>7. secrets'[CTSecret] = secrets[CTSecret]
  BY <1>2, <1>3, <1>6 DEF CallFrame
<1>8. \/ secrets' = secrets
      \/ secrets' = [secrets EXCEPT ![CTPubSecret] = [rv |-> rev + 1, data |-> arg[p].data]]
  BY <1>2, <1>6 DEF CallWrites
<1>9. Published' = Published \/ Published' = arg[p].data
  BY SMT, <1>0, <1>3, <1>8 DEF Published, CallTypes
<1>10. at'[p] = "ok" => Published' = arg[p].data
  BY <1>2, <1>6 DEF CallWrites, Published
<1> QED
  BY <1>2, <1>7, <1>9, <1>10 DEF MainKept, Main

\* A step of a call keeps what holds of a single pod.
LEMMA CallStepSole ==
    ASSUME CTInv, SoleJob, NEW p \in Procs, CallStep(p), UNCHANGED <<ctVars, treeVars>>
    PROVE  /\ ConfigKeyMatches'
           /\ (Published = Nothing \/ (PublicKey /\ ~ Incomplete(Main)))'
           /\ SoleRun(p)'
<1>0. /\ CTCall(p) /\ PodTypes /\ SoleRun(p)
      /\ cmConfig' = cmConfig /\ step' = step /\ pub' = pub /\ chain' = chain
  BY TypesSplit DEF CTInv, SoleJob, ctVars, ctInputs
<1>1. CallFrame(p)
  BY <1>0, CallStepTypes
<1>2. /\ at[p] \in Running /\ step[p] \in {"main", "pub"} /\ arg' = arg
      /\ at'[p] \in Running => secrets' = secrets
      /\ at'[p] = "update" => seen'[p] = secrets[arg[p].name]
  BY <1>0, <1>1 DEF CallFrame, Running, PodTypes, Ats
<1>3. at'[p] = "update" => seen'[p] = secrets'[arg'[p].name]
  BY <1>2 DEF Running
\* The secret of the configuration stays as it is.
<1>4. ASSUME MainKept PROVE ConfigKeyMatches' /\ (Configured(p) => Configured(p)')
  BY <1>0, <1>4 DEF MainKept, SoleJob, ConfigKeyMatches, InForce, Configured, Incomplete
<1>5. CASE step[p] = "pub"
  <2>1. /\ MainKept
        /\ Published' = Published \/ Published' = [public |-> Main.public]
        /\ at'[p] = "ok" => Published' = [public |-> Main.public]
    BY <1>5, PublicKeyCall
  <2>a. Configured(p)
    BY <1>0, <1>5 DEF SoleRun
  <2>2. Configured(p) /\ Configured(p)'
    BY <1>4, <2>1, <2>a
  <2>3. ~ Incomplete(Main)'
    BY <2>2 DEF Configured
  <2>4. (Published = Nothing \/ (PublicKey /\ ~ Incomplete(Main)))'
    BY <2>1, <2>3 DEF SoleJob, PublicKey, MainKept
  <2>5. at'[p] = "ok" => PublicKey'
    BY <2>1 DEF PublicKey, MainKept
  <2>6. arg'[p] = [name |-> CTPubSecret, data |-> [public |-> pub'[p]]]
    BY <1>0, <1>2, <1>5 DEF SoleRun
  <2>7. SoleRun(p)'
    BY <1>0, <1>3, <1>5, <2>2, <2>5, <2>6 DEF SoleRun
  <2> QED
    BY <1>4, <2>1, <2>4, <2>7
<1>6. CASE step[p] = "main"
  <2>0. arg[p].name = CTSecret /\ CTPubSecret \in Names /\ CTSecret # CTPubSecret
    BY <1>0, <1>6, CTNames DEF CTCall, CTSecret, CTPubSecret
  <2>1. Published' = Published
    BY <1>1, <2>0 DEF CallFrame, Published
  <2>2. (MainKept \/ Stored(p)) /\ (at'[p] = "ok" => Stored(p))
    BY <1>0, <1>6, SoleMerge
  <2>3. CASE MainKept /\ ~ Stored(p)
    <3>1. (Published = Nothing \/ (PublicKey /\ ~ Incomplete(Main)))'
      BY <1>0, <2>1, <2>3 DEF SoleJob, PublicKey, MainKept, Incomplete
    <3>2. at'[p] # "ok"
      BY <2>2, <2>3
    <3>3. ASSUME at'[p] \in Running
          PROVE  /\ (NewKeys(p) \/ SameKeys(p))'
                 /\ chain'[p] # Unparsable => RootOf(chain'[p]) \in Listed(arg'[p].data)
      <4>1. /\ NewKeys(p) \/ SameKeys(p)
            /\ chain[p] # Unparsable => RootOf(chain[p]) \in Listed(arg[p].data)
        BY <1>0, <1>2, <1>6 DEF SoleRun
      <4>2. NewKeys(p) => NewKeys(p)'
        BY <1>0, <1>2, <2>3 DEF NewKeys, Incomplete, MainKept
      <4>3. SameKeys(p) => SameKeys(p)'
        BY <1>0, <1>2, <2>3 DEF SameKeys, Incomplete, MainKept
      <4> QED
        BY <1>0, <1>2, <4>1, <4>2, <4>3
    <3>4. SoleRun(p)'
      BY <1>0, <1>3, <1>6, <3>2, <3>3 DEF SoleRun
    <3> QED
      BY SMT, <1>4, <2>3, <3>1, <3>4
  <2>4. CASE Stored(p)
    <3>1. Configured(p)' /\ Main'["config"].public = Main'["public"]
          /\ (SameKeys(p) => Main'["public"] = Main["public"])
      BY <1>0, <1>2, <1>6, <2>4, WhatIsStored
    <3>2. ConfigKeyMatches'
      BY <3>1 DEF ConfigKeyMatches, InForce, Configured
    <3>3. (Published = Nothing \/ (PublicKey /\ ~ Incomplete(Main)))'
      <4>1. CASE Published = Nothing
        BY <2>1, <4>1
      <4>2. CASE PublicKey /\ ~ Incomplete(Main)
        <5>1. SameKeys(p)
          BY SMT, <1>0, <1>2, <1>6, <4>2 DEF SoleRun, NewKeys
        <5> QED
          BY <2>1, <3>1, <4>2, <5>1 DEF PublicKey, Configured
      <4> QED
        BY <4>1, <4>2 DEF SoleJob
    <3>4. ASSUME at'[p] \in Running
          PROVE  /\ (NewKeys(p) \/ SameKeys(p))'
                 /\ chain'[p] # Unparsable => RootOf(chain'[p]) \in Listed(arg'[p].data)
      <4>1. /\ NewKeys(p) \/ SameKeys(p)
            /\ chain[p] # Unparsable => RootOf(chain[p]) \in Listed(arg[p].data)
        BY <1>0, <1>2, <1>6 DEF SoleRun
      <4>2. Main' = Main
        BY <1>2, <3>4 DEF Main
      <4>3. NewKeys(p) => NewKeys(p)'
        BY <1>0, <1>2, <4>2 DEF NewKeys, Incomplete
      <4>4. SameKeys(p) => SameKeys(p)'
        BY <1>0, <1>2, <4>2 DEF SameKeys, Incomplete
      <4> QED
        BY <1>0, <1>2, <4>1, <4>3, <4>4
    <3>5. SoleRun(p)'
      BY <1>0, <1>3, <1>6, <3>1, <3>4 DEF SoleRun
    <3> QED
      BY <3>2, <3>3, <3>5
  <2> QED
    BY <2>2, <2>3, <2>4
<1> QED
  BY <1>2, <1>5, <1>6

\* What holds of a single pod is inductive.
LEMMA SoleJobNext == CTInv /\ SoleJob /\ SingleJob /\ [Next]_vars => SoleJob'
<1> SUFFICES ASSUME CTInv, SoleJob, SingleJob, [Next]_vars PROVE SoleJob'
  OBVIOUS
<1>1. ASSUME NEW p \in Procs, PodStep(p), UNCHANGED treeVars PROVE SoleJob'
  <2>1. PodFrame(p)
    <3>1. PodTypes /\ TreeIInv /\ Whole(Main, made)
      BY TypesSplit DEF CTInv
    <3> QED
      BY <1>1, <3>1, PodStepTypes
  <2>2. cmConfig' = cmConfig /\ Main' = Main /\ Published' = Published
    BY <2>1 DEF PodFrame, Main, Published
  <2>3. ConfigKeyMatches' /\ (Published = Nothing \/ (PublicKey /\ ~ Incomplete(Main)))'
    BY <2>2 DEF SoleJob, ConfigKeyMatches, InForce, PublicKey, Incomplete
  <2>4. SoleRun(p)'
    BY <1>1, PodStepSole
  <2>5. \A q \in Procs : q = p
    BY <1>1 DEF SingleJob
  <2> QED
    BY <2>3, <2>4, <2>5 DEF SoleJob
<1>2. ASSUME NEW p \in Procs, CallStep(p), UNCHANGED <<ctVars, treeVars>> PROVE SoleJob'
  <2>1. /\ ConfigKeyMatches' /\ SoleRun(p)'
        /\ (Published = Nothing \/ (PublicKey /\ ~ Incomplete(Main)))'
    BY <1>2, CallStepSole
  <2>2. \A q \in Procs : q = p
    BY <1>2 DEF SingleJob
  <2> QED
    BY <2>1, <2>2 DEF SoleJob
<1>3. CASE TreePart \/ (RotateFulcio /\ UNCHANGED treeVars) \/ UNCHANGED vars
  <2>1. /\ cmConfig' = cmConfig /\ step' = step /\ chain' = chain /\ pub' = pub
        /\ secrets' = secrets /\ at' = at /\ arg' = arg /\ seen' = seen
    BY <1>3 DEF TreePart, RotateFulcio, vars, ctVars, ctInputs, reconcileVars
  <2>2. Main' = Main /\ Published' = Published
    BY <2>1 DEF Main, Published
  <2>3. ConfigKeyMatches' /\ (Published = Nothing \/ (PublicKey /\ ~ Incomplete(Main)))'
    BY <2>1, <2>2 DEF SoleJob, ConfigKeyMatches, InForce, PublicKey, Incomplete
  <2>4. ASSUME NEW p \in Procs PROVE SoleRun(p)'
    <3>1. /\ NewKeys(p)' <=> NewKeys(p)
          /\ SameKeys(p)' <=> SameKeys(p)
          /\ Configured(p)' <=> Configured(p)
          /\ PublicKey' <=> PublicKey
      BY <2>1, <2>2 DEF NewKeys, SameKeys, Configured, PublicKey, Incomplete
    <3> QED
      BY <2>1, <2>2, <3>1 DEF SoleJob, SoleRun
  <2> QED
    BY <2>3, <2>4 DEF SoleJob
<1> QED
  BY <1>1, <1>2, <1>3, StepCases

LEMMA SoleJobInit == Init => SoleJob
<1> SUFFICES ASSUME Init PROVE SoleJob
  OBVIOUS
<1>1. CTSecret \in Names /\ CTPubSecret \in Names /\ CTSecret # CTPubSecret
  BY CTNames DEF CTSecret, CTPubSecret
<1>2. ASSUME NEW main, NEW public, Holds(main, public) PROVE Main = main /\ Published = public
  BY <1>1, <1>2 DEF Holds, Main, Published, Missing
<1>3. CASE Fresh
  <2>1. PICK main \in {Nothing} \cup {[rootca |-> r] : r \in LegacyRoots} : Holds(main, Nothing)
    BY <1>3 DEF Fresh
  <2>2. "config" \notin DOMAIN main
    BY SMT DEF Nothing
  <2>3. Main = main /\ Published = Nothing /\ cmConfig = NoConfig
    BY <1>2, <1>3, <2>1 DEF Fresh
  <2>4. ConfigKeyMatches
    BY SMT, <2>2, <2>3 DEF ConfigKeyMatches, InForce
  <2> QED
    BY <2>3, <2>4 DEF Init, CTInit, ReconcileInit, SoleJob, SoleRun, Running
<1>4. CASE Legacy
  <2>1. PICK r \in LegacyRoots, public \in {Nothing, [public |-> 1]} :
            Holds([private |-> [key |-> 1, enc |-> 1], public |-> 1, rootca |-> r], public)
    BY <1>4 DEF Legacy
  <2> DEFINE main == [private |-> [key |-> 1, enc |-> 1], public |-> 1, rootca |-> r]
  <2>2. DOMAIN main = {"private", "public", "rootca"} /\ main.public = 1
    OBVIOUS
  <2>3. Main = main /\ Published = public
    BY <1>2, <2>1
  <2> HIDE DEF main
  <2>4. cmConfig # NoConfig /\ cmConfig.public = 1
    BY <1>4 DEF Legacy, NoConfig
  <2>5. ConfigKeyMatches /\ ~ Incomplete(Main)
    BY <2>2, <2>3, <2>4 DEF ConfigKeyMatches, InForce, Incomplete
  <2>6. Published = Nothing \/ PublicKey
    BY <2>2, <2>3 DEF PublicKey
  <2> QED
    BY <2>5, <2>6 DEF Init, CTInit, ReconcileInit, SoleJob, SoleRun, Running
<1> QED
  BY <1>3, <1>4 DEF Init

\* With one pod at a time, whatever its faults, restarts and reruns: a new key
\* pair is only made for a secret without a configuration, and it is stored
\* together with the configuration that names it.
THEOREM SoleJobInductive == ASSUME SingleJob PROVE Spec => []SoleJob
<1>1. CTInv /\ SoleJob /\ [Next]_vars => SoleJob'
  BY SoleJobNext
<1> QED
  BY <1>1, SoleJobInit, SetupIsSound, PTL DEF Spec

\* The configuration names the public key that the secret holds.
THEOREM ConfigNamesItsKey == ASSUME SingleJob PROVE Spec => []ConfigKeyMatches
<1>1. SoleJob => ConfigKeyMatches
  BY DEF SoleJob
<1> QED
  BY <1>1, SoleJobInductive, PTL

\* The secret that publishes the public key agrees with the key pair, and it is
\* there once createctconfig has returned.
THEOREM PublishedKeyIsTheKey == ASSUME SingleJob PROVE Spec => []PublishedKeyMatches
<1>1. SoleJob => PublishedKeyMatches
  <2> SUFFICES ASSUME SoleJob PROVE PublishedKeyMatches
    OBVIOUS
  <2>1. PublicKey => Published # Nothing /\ Published.public = Main.public
    BY SMT DEF PublicKey, Nothing
  <2>2. ~ Incomplete(Main) => Main # Nothing
    BY DEF Incomplete, Nothing
  <2>3. \A p \in Procs : step[p] = "done" => PublicKey
    BY DEF SoleJob, SoleRun
  <2> QED
    BY <2>1, <2>2, <2>3 DEF SoleJob, PublishedKeyMatches
<1> QED
  BY <1>1, SoleJobInductive, PTL

\* A finished job that got a chain from Fulcio has made its root trusted, even
\* if an earlier attempt had stored another one.
THEOREM FetchedRootsAreTrusted == ASSUME SingleJob PROVE Spec => []FetchedRootIsTrusted
<1>1. CTInv /\ SoleJob => FetchedRootIsTrusted
  <2> SUFFICES ASSUME CTInv, SoleJob, NEW p \in Procs, step[p] = "done", chain[p] # Unparsable
               PROVE  RootOf(chain[p]) \in TrustedRoots
    BY DEF FetchedRootIsTrusted
  <2>1. "config" \in DOMAIN Main /\ RootOf(chain[p]) \in Listed(Main)
    BY DEF SoleJob, SoleRun, Configured
  <2>2. Range(Main["config"].roots) \subseteq DOMAIN Main
    BY <2>1 DEF CTInv, Whole, Sound
  <2> QED
    BY <2>1, <2>2 DEF TrustedRoots, InForce, Listed
<1> QED
  BY <1>1, SetupIsSound, SoleJobInductive, PTL

----------------------------------------------------------------------------
\* What no step may do, with one pod at a time.

\* A step that changes the secret stores the data of the pod's call.
LEMMA OnlyCallsWrite ==
    ASSUME CTInv, SoleJob, [Next]_vars
    PROVE  \/ Main' = Main /\ cmConfig' = cmConfig
           \/ \E p \in Procs : /\ step[p] = "main" /\ at[p] \in Running /\ Stored(p)
                               /\ cmConfig' = cmConfig /\ pub' = pub /\ chain' = chain
<1>1. ASSUME NEW p \in Procs, PodStep(p), UNCHANGED treeVars
      PROVE  Main' = Main /\ cmConfig' = cmConfig
  <2>1. PodTypes /\ TreeIInv /\ Whole(Main, made)
    BY TypesSplit DEF CTInv
  <2> QED
    BY <1>1, <2>1, PodStepTypes DEF PodFrame, Main
<1>2. ASSUME NEW p \in Procs, CallStep(p), UNCHANGED <<ctVars, treeVars>>
      PROVE  \/ Main' = Main /\ cmConfig' = cmConfig
             \/ /\ step[p] = "main" /\ at[p] \in Running /\ Stored(p)
                /\ cmConfig' = cmConfig /\ pub' = pub /\ chain' = chain
  <2>1. PodTypes /\ SoleRun(p) /\ cmConfig' = cmConfig /\ pub' = pub /\ chain' = chain
    BY <1>2, TypesSplit DEF CTInv, SoleJob, ctVars, ctInputs
  <2>2. at[p] \in Running /\ step[p] \in {"main", "pub"}
    BY <1>2, <2>1, CallStepTypes DEF CallFrame, Running, PodTypes
  <2>3. CASE step[p] = "pub"
    BY <1>2, <2>1, <2>3, PublicKeyCall DEF MainKept
  <2>4. CASE step[p] = "main"
    BY <1>2, <2>1, <2>2, <2>4, SoleMerge DEF MainKept
  <2> QED
    BY <2>2, <2>3, <2>4
<1>3. CASE TreePart \/ (RotateFulcio /\ UNCHANGED treeVars) \/ UNCHANGED vars
  BY <1>3 DEF TreePart, RotateFulcio, vars, ctVars, ctInputs, reconcileVars, Main
<1> QED
  BY <1>1, <1>2, <1>3, StepCases

\* The key pair of a configured CT log is never replaced, neither by a run of
\* createctconfig nor by one that was interrupted and starts again.
THEOREM KeysAreKept == ASSUME SingleJob PROVE Spec => KeysOnceSet
<1>1. CTInv /\ SoleJob /\ [Next]_vars =>
        [{"private", "public"} \subseteq DOMAIN Main /\ InForce # NoConfig =>
            Main'.private.key = Main.private.key /\ Main'.public = Main.public]_vars
  <2> SUFFICES ASSUME CTInv, SoleJob, [Next]_vars,
                      {"private", "public"} \subseteq DOMAIN Main, InForce # NoConfig
               PROVE  Main'["private"].key = Main["private"].key /\ Main'["public"] = Main["public"]
    OBVIOUS
  <2>1. ~ Incomplete(Main)
    BY DEF Incomplete, InForce
  <2>2. CASE Main' = Main
    BY <2>2
  <2>3. ASSUME NEW p \in Procs, step[p] = "main", at[p] \in Running, Stored(p),
               cmConfig' = cmConfig, pub' = pub, chain' = chain
        PROVE  Main'["private"].key = Main["private"].key /\ Main'["public"] = Main["public"]
    <3>1. SoleRun(p)
      BY DEF SoleJob
    <3>2. SameKeys(p)
      BY <2>1, <2>3, <3>1 DEF SoleRun, NewKeys
    <3>3. Main'["private"] = Main["private"] /\ Main'["public"] = Main["public"]
      BY <2>3, <3>1, <3>2, WhatIsStored
    <3> QED
      BY <3>3
  <2> QED
    BY <2>2, <2>3, OnlyCallsWrite
<1> QED
  BY <1>1, SetupIsSound, SoleJobInductive, PTL DEF Spec, KeysOnceSet

\* A root that the CT log trusts stays trusted: every run writes back all of
\* the roots it has found, those of the old form included.
THEOREM TrustedRootsAreKept == ASSUME SingleJob PROVE Spec => RootsNeverLost
<1>1. CTInv /\ SoleJob /\ [Next]_vars => [TrustedRoots \subseteq TrustedRoots']_vars
  <2> SUFFICES ASSUME CTInv, SoleJob, [Next]_vars PROVE TrustedRoots \subseteq TrustedRoots'
    OBVIOUS
  <2>1. CASE Main' = Main /\ cmConfig' = cmConfig
    BY <2>1 DEF TrustedRoots, InForce
  <2>2. ASSUME NEW p \in Procs, step[p] = "main", at[p] \in Running, Stored(p),
               cmConfig' = cmConfig, pub' = pub, chain' = chain
        PROVE  TrustedRoots \subseteq TrustedRoots'
    <3>1. SoleRun(p) /\ CTCall(p) /\ Whole(Main, made) /\ cmConfig \in {NoConfig, OldConfig}
      BY DEF SoleJob, CTInv, CTTypes
    <3>2. Configured(p)' /\ Listed(arg[p].data) = Listed(Main')
      BY <2>2, <3>1, WhatIsStored
    <3>3. TrustedRoots' = Listed(Main')
      <4>1. Sound(arg[p].data, made) /\ "config" \in DOMAIN arg[p].data
        BY <2>2, <3>1 DEF CTCall
      <4>2. /\ Main'["config"] = arg[p].data["config"]
            /\ DOMAIN arg[p].data \subseteq DOMAIN Main'
        BY <2>2, <4>1 DEF Stored, Merge
      <4>3. Range(Main'["config"].roots) \subseteq DOMAIN Main'
        BY <4>1, <4>2 DEF Sound
      <4>4. "config" \in DOMAIN Main'
        BY <4>1, <4>2
      <4> QED
        BY <4>3, <4>4 DEF TrustedRoots, InForce, Listed
    <3>4. CASE NewKeys(p)
      <4>1. "config" \notin DOMAIN Main /\ cmConfig = NoConfig
        BY <3>1, <3>4 DEF NewKeys, Incomplete, Whole, KeyPair
      <4>2. InForce.roots = <<>>
        BY <4>1 DEF InForce, NoConfig
      <4> QED
        BY SMT, <4>2 DEF TrustedRoots, Range
    <3>5. CASE SameKeys(p)
      <4>1. FulcioRoots(Main) \subseteq Listed(Main')
        BY <3>2, <3>5 DEF SameKeys
      <4>2. Range(InForce.roots) \subseteq {"rootca"} \cup Range(FulcioKeys)
        <5>1. CASE "config" \in DOMAIN Main
          BY <3>1, <5>1 DEF InForce, Whole, Sound
        <5>2. CASE "config" \notin DOMAIN Main
          <6>1. InForce.roots \in {<<>>, <<"rootca">>}
            BY SMT, <3>1, <5>2 DEF InForce, NoConfig, OldConfig
          <6> QED
            BY SMT, <6>1 DEF Range
        <5> QED
          BY <5>1, <5>2
      <4>3. TrustedRoots \subseteq FulcioRoots(Main)
        BY <4>2 DEF TrustedRoots, FulcioRoots
      <4> QED
        BY <3>3, <4>1, <4>3
    <3> QED
      BY <2>2, <3>1, <3>4, <3>5 DEF SoleRun
  <2> QED
    BY <2>1, <2>2, OnlyCallsWrite
<1> QED
  BY <1>1, SetupIsSound, SoleJobInductive, PTL DEF Spec, RootsNeverLost

============================================================================
