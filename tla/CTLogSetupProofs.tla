-------------------------- MODULE CTLogSetupProofs --------------------------
(***************************************************************************)
(* Proofs about the setup of the CT log, for any number of pods of both    *)
(* jobs, forced or not, any faults, rotations and reruns, and from every   *)
(* initial state.                                                          *)
(*                                                                         *)
(* createtree, on its own: it records only trees that exist, and only a    *)
(* forced pod ever replaces a recorded tree (TreeIInv).                    *)
(*                                                                         *)
(* Both jobs together: the secret and the data of the calls under way are  *)
(* sound (CTInv), so the server finds its files and a whole key pair; and  *)
(* the secrets change only by atomic patches (CallLock).                   *)
(***************************************************************************)
EXTENDS CTLogSetup, SecretReconcileProofs

\* Most steps are for Zenon; those that need arithmetic or the theory of
\* functions say so.
USE ZenonT(20)

treeStateVars == <<treeVars, faults>>

\* The initial states are well typed.
LEMMA TreeInitType == TreeInit => TreeTypeOK
  BY SMT, FaultsAssumption DEF TreeInit, TreeProcsInit, TreeTypeOK, NoCM

\* Every step of a pod and every edit preserves the types.
LEMMA TreeNextType == TreeTypeOK /\ [TreeNext]_treeStateVars => TreeTypeOK'
<1> SUFFICES ASSUME TreeTypeOK, [TreeNext]_treeStateVars PROVE TreeTypeOK'
  OBVIOUS
<1> USE FaultsAssumption DEF TreeTypeOK
<1>1. ASSUME NEW p \in TreeProcs, ReadConfigMap(p) PROVE TreeTypeOK'
  BY <1>1 DEF ReadConfigMap
<1>2. ASSUME NEW p \in TreeProcs, createTree(p) PROVE TreeTypeOK'
  BY SMT, <1>2 DEF createTree
<1>3. ASSUME NEW p \in TreeProcs, UpdateConfigMap(p) PROVE TreeTypeOK'
  BY SMT, <1>3 DEF UpdateConfigMap, Fault
<1>4. ASSUME NEW p \in TreeProcs, UpdateConflict(p) PROVE TreeTypeOK'
  BY <1>4 DEF UpdateConflict
<1>5. ASSUME NEW p \in TreeProcs, createTreeFails(p) PROVE TreeTypeOK'
  BY SMT, <1>5 DEF createTreeFails, Fault
<1>6. ASSUME NEW p \in TreeProcs, TreeDie(p) PROVE TreeTypeOK'
  BY SMT, <1>6 DEF TreeDie, Fault
<1>7. CASE EditConfigMap
  BY SMT, <1>7 DEF EditConfigMap
<1>8. CASE UNCHANGED treeStateVars
  BY <1>8 DEF treeStateVars, treeVars
<1> QED
  BY <1>1, <1>2, <1>3, <1>4, <1>5, <1>6, <1>7, <1>8 DEF TreeNext, TreeStep

\* Every variable of createtree keeps its type.
THEOREM TreeTypeCorrect == TreeSpec => []TreeTypeOK
  BY TreeInitType, TreeNextType, PTL DEF TreeSpec, treeStateVars

----------------------------------------------------------------------------

\* No pod holds a ConfigMap or a tree at first.
LEMMA TreeInitInv == TreeInit => TreeIInv
  BY SMT, TreeInitType
  DEF TreeInit, TreeProcsInit, TreeIInv, SnapshotsAreOld, NewTreesExist, RecordedTreeExists

\* A write gives the ConfigMap a version newer than any that was read.
LEMMA TreeNextInv == TreeIInv /\ [TreeNext]_treeStateVars => TreeIInv'
<1> SUFFICES ASSUME TreeIInv, [TreeNext]_treeStateVars PROVE TreeIInv'
  OBVIOUS
<1>t. TreeTypeOK /\ TreeTypeOK'
  BY TreeNextType DEF TreeIInv
<1> USE <1>t DEF TreeTypeOK, TreeIInv, SnapshotsAreOld, NewTreesExist, RecordedTreeExists
<1>1. ASSUME NEW p \in TreeProcs, ReadConfigMap(p) PROVE TreeIInv'
  BY SMT, <1>1 DEF ReadConfigMap
<1>2. ASSUME NEW p \in TreeProcs, createTree(p) PROVE TreeIInv'
  BY SMT, <1>2 DEF createTree
<1>3. ASSUME NEW p \in TreeProcs, UpdateConfigMap(p) PROVE TreeIInv'
  BY SMT, <1>3 DEF UpdateConfigMap
<1>4. ASSUME NEW p \in TreeProcs, UpdateConflict(p) PROVE TreeIInv'
  BY SMT, <1>4 DEF UpdateConflict
<1>5. ASSUME NEW p \in TreeProcs, createTreeFails(p) PROVE TreeIInv'
  BY SMT, <1>5 DEF createTreeFails
<1>6. ASSUME NEW p \in TreeProcs, TreeDie(p) PROVE TreeIInv'
  BY <1>6 DEF TreeDie
<1>7. CASE EditConfigMap
  BY SMT, <1>7 DEF EditConfigMap
<1>8. CASE UNCHANGED treeStateVars
  BY <1>8 DEF treeStateVars, treeVars
<1> QED
  BY <1>1, <1>2, <1>3, <1>4, <1>5, <1>6, <1>7, <1>8 DEF TreeNext, TreeStep

\* What pods have read and created stays consistent with the ConfigMap and with
\* Trillian: the inductive invariant the two results below rest on.
THEOREM TreeInductive == TreeSpec => []TreeIInv
  BY TreeInitInv, TreeNextInv, PTL DEF TreeSpec, treeStateVars

\* The ConfigMap only ever names an existing tree, and names one as soon as any
\* pod has finished.
THEOREM RecordedTreesExist == TreeSpec => []RecordedTreeExists
<1>1. TreeIInv => RecordedTreeExists
  BY DEF TreeIInv
<1> QED
  BY <1>1, TreeInductive, PTL

----------------------------------------------------------------------------

\* The step that replaces a recorded tree is the Update of a forced pod.
LEMMA OnlyForcedReplaces ==
  ASSUME TreeIInv, TreeNext, cm.treeID # 0, cm'.treeID # cm.treeID
  PROVE  \E p \in Forced : tstep[p] = "update" /\ tnew[p] = cm'.treeID
<1>1. PICK p \in TreeProcs : UpdateConfigMap(p)
  <2>1. ASSUME NEW p \in TreeProcs,
               ReadConfigMap(p) \/ createTree(p) \/ UpdateConflict(p)
                   \/ createTreeFails(p) \/ TreeDie(p)
        PROVE  FALSE
    BY <2>1 DEF ReadConfigMap, createTree, UpdateConflict, createTreeFails, TreeDie
  <2>2. ~ EditConfigMap
    BY DEF EditConfigMap, TreeIInv, TreeTypeOK
  <2> QED
    BY <2>1, <2>2 DEF TreeNext, TreeStep
<1>2. tstep[p] = "update" /\ tnew[p] = cm'.treeID /\ tcm[p].treeID = cm.treeID
  BY <1>1 DEF UpdateConfigMap, TreeIInv, TreeTypeOK, SnapshotsAreOld
<1>3. p \in Forced
  BY <1>2 DEF TreeIInv, SnapshotsAreOld
<1> QED
  BY <1>2, <1>3

\* Pods that run without --force never overwrite one another's tree.
THEOREM RecordedTreesAreKept == TreeSpec => RecordedTreeIsKept
<1>1. TreeIInv /\ [TreeNext]_treeStateVars =>
        [cm.treeID # 0 /\ cm'.treeID # cm.treeID =>
            \E p \in Forced : tstep[p] = "update" /\ tnew[p] = cm'.treeID]_treeVars
  BY OnlyForcedReplaces DEF treeStateVars, treeVars
<1> QED
  BY <1>1, TreeInductive, PTL DEF TreeSpec, treeStateVars, RecordedTreeIsKept

----------------------------------------------------------------------------
\* The conversions of a Config.

\* What the keys are.
LEMMA KeysAre ==
    /\ Len(FulcioKeys) \in Nat /\ DOMAIN FulcioKeys = 1..Len(FulcioKeys)
    /\ \A i \in 1..Len(FulcioKeys) : FulcioKeys[i] \in Range(FulcioKeys)
    /\ \A i, j \in 1..Len(FulcioKeys) : FulcioKeys[i] = FulcioKeys[j] => i = j
    /\ {"config", "private", "public", "rootca"} \cap Range(FulcioKeys) = {}
<1>1. Len(FulcioKeys) \in Nat /\ DOMAIN FulcioKeys = 1..Len(FulcioKeys)
  BY SMT, FulcioKeysAssumption
<1>2. \A i \in DOMAIN FulcioKeys : FulcioKeys[i] \in Range(FulcioKeys)
  BY DEF Range
<1> QED
  BY <1>1, <1>2, FulcioKeysAssumption

\* A Config: its key pair, its log and a list of different roots, no longer
\* than the list of keys.
IsConfig(c) ==
    /\ c = [key |-> c.key, logID |-> c.logID, roots |-> c.roots]
    /\ \E n \in 0..Len(FulcioKeys) : DOMAIN c.roots = 1..n

Files(c) == {FulcioKeys[i] : i \in DOMAIN c.roots}

\* What MarshalConfig makes of a Config.
IsMarshalled(m, c, enc) ==
    /\ DOMAIN m = {"config", "private", "public"} \cup Files(c)
    /\ m = [k \in DOMAIN m |-> m[k]]
    /\ Files(c) \subseteq Range(FulcioKeys)
    /\ m["config"] = [logID |-> c.logID, roots |-> RootsPemFile(c), public |-> c.key]
    /\ m["private"] = [key |-> c.key, enc |-> enc]
    /\ m["public"] = c.key
    /\ Range(RootsPemFile(c)) = Files(c)
    /\ \A i \in DOMAIN c.roots : m[FulcioKeys[i]] = c.roots[i]

LEMMA Marshalled ==
    ASSUME NEW c, IsConfig(c), NEW enc
    PROVE  IsMarshalled(MarshalConfig(c, enc), c, enc)
<1> DEFINE root(k) == c.roots[CHOOSE i \in DOMAIN c.roots : FulcioKeys[i] = k]
           files == [k \in Files(c) |-> root(k)]
           keys == [private |-> [key |-> c.key, enc |-> enc], public |-> c.key]
           conf == [config |-> [logID |-> c.logID, roots |-> RootsPemFile(c), public |-> c.key]]
           m == MarshalConfig(c, enc)
<1>1. m = With(conf, With(keys, files))
  BY DEF MarshalConfig, marshalSecrets, Files
<1>2. /\ DOMAIN c.roots \subseteq 1..Len(FulcioKeys)
      /\ Files(c) \subseteq Range(FulcioKeys)
      /\ {"config", "private", "public"} \cap Files(c) = {}
  BY SMT, KeysAre DEF IsConfig, Files
<1>3. \A i \in DOMAIN c.roots : root(FulcioKeys[i]) = c.roots[i]
  BY <1>2, KeysAre
<1>4. /\ DOMAIN conf = {"config"} /\ DOMAIN keys = {"private", "public"} /\ DOMAIN files = Files(c)
      /\ conf["config"] = [logID |-> c.logID, roots |-> RootsPemFile(c), public |-> c.key]
      /\ keys["private"] = [key |-> c.key, enc |-> enc] /\ keys["public"] = c.key
      /\ \A k \in Files(c) : files[k] = root(k)
  OBVIOUS
<1>5. Range(RootsPemFile(c)) = Files(c)
  BY DEF Range, RootsPemFile, Files
<1> HIDE DEF conf, keys, files, root, m
<1>6. /\ DOMAIN m = {"config", "private", "public"} \cup Files(c)
      /\ m = [k \in DOMAIN m |-> m[k]]
      /\ m["config"] = conf["config"] /\ m["private"] = keys["private"]
      /\ m["public"] = keys["public"] /\ \A k \in Files(c) : m[k] = files[k]
  BY <1>1, <1>2, <1>4 DEF With
<1>7. \A i \in DOMAIN c.roots : m[FulcioKeys[i]] = c.roots[i]
  BY SMT, <1>3, <1>4, <1>6 DEF Files
<1>8. IsMarshalled(m, c, enc)
  BY <1>2, <1>4, <1>5, <1>6, <1>7 DEF IsMarshalled
<1> QED
  BY <1>8 DEF m
----------------------------------------------------------------------------
\* What the pods hand to the API server and what it holds, for any number of
\* pods.

KeyPair == {"private", "public"}
DataKeys == {"config", "rootca"} \cup KeyPair \cup Range(FulcioKeys)

\* The configuration of the ConfigMap on an old cluster.
OldConfig == [logID |-> 1, roots |-> <<"rootca">>, public |-> 1]

\* A Data map of the secret when n key pairs have been made: a matching key pair
\* or none, and every file that the configuration names.
Sound(d, n) ==
    /\ d = [k \in DOMAIN d |-> d[k]]
    /\ DOMAIN d \subseteq DataKeys
    /\ "private" \in DOMAIN d <=> "public" \in DOMAIN d
    /\ "private" \in DOMAIN d => d.private.key = d.public /\ d.public \in 0..n
    /\ "config" \in DOMAIN d => Range(d.config.roots) \subseteq DOMAIN d \cap Range(FulcioKeys)
    /\ FulcioRoots(d) \subseteq AllRoots

\* Where there is a configuration there is a key pair, and the root that an old
\* configuration names.
Whole(d, n) ==
    /\ Sound(d, n)
    /\ "config" \in DOMAIN d \/ cmConfig # NoConfig => KeyPair \subseteq DOMAIN d
    /\ cmConfig # NoConfig => "rootca" \in DOMAIN d

\* The call of pod p.  What it writes has a configuration; if it brings no key
\* pair then it is for a secret that has one.
CTCall(p) ==
    /\ chain[p] \in {Unparsable} \cup Range(Chains)
    /\ step[p] = "main" =>
          /\ arg[p].name = CTSecret
          /\ Sound(arg[p].data, made)
          /\ "config" \in DOMAIN arg[p].data
          /\ KeyPair \subseteq DOMAIN arg[p].data \/ KeyPair \subseteq DOMAIN Main
          /\ at[p] = "update" =>
                /\ Whole(seen[p].data, made)
                /\ KeyPair \subseteq DOMAIN arg[p].data \/ KeyPair \subseteq DOMAIN seen[p].data
    /\ step[p] = "pub" => arg[p].name = CTPubSecret

CTTypes ==
    /\ TreeIInv /\ CallTypes /\ CTTypeOK /\ made \in Nat
    /\ chain = [p \in Procs |-> chain[p]]
    /\ cmConfig \in {NoConfig, OldConfig}

CTInv == CTTypes /\ Whole(Main, made) /\ \A p \in Procs : CTCall(p)

\* The roots that the configuration in d lists.
Listed(d) == {d[f] : f \in Range(d.config.roots)}

----------------------------------------------------------------------------
\* Lists of roots.

\* s lists the roots of S, each once.
ListOf(s, S) ==
    /\ S \subseteq AllRoots
    /\ Len(s) \in 0..Len(FulcioKeys)
    /\ s \in [1..Len(s) -> S]
    /\ IsInjective(s)
    /\ Range(s) = S

LEMMA Enumerated ==
    ASSUME NEW S \in SUBSET AllRoots, NEW s \in Listings(S)
    PROVE  ListOf(s, S)
<1>1. PICK n \in 0..Len(FulcioKeys) : s \in Bijection(1..n, S)
  BY DEF Listings
<1>2. s \in [1..n -> S] /\ IsInjective(s) /\ \A t \in S : \E i \in 1..n : s[i] = t
  BY <1>1 DEF Bijection, Injection, Surjection
<1>3. Len(s) = n
  BY SMT, <1>2, KeysAre
<1>4. Range(s) = S
  BY <1>2 DEF Range
<1> QED
  BY <1>2, <1>3, <1>4 DEF ListOf

\* What Unmarshal makes of a Data map.
LEMMA Unmarshalled ==
    ASSUME NEW m, FulcioRoots(m) \subseteq AllRoots, NEW c \in Unmarshal(m)
    PROVE  /\ c = [key |-> c.key, logID |-> c.logID, roots |-> c.roots]
           /\ c.key = m["private"].key /\ c.logID = m["config"].logID
           /\ ListOf(c.roots, FulcioRoots(m))
<1>1. PICK s \in Listings(FulcioRoots(m)) :
          c = [key |-> m["private"].key, logID |-> m["config"].logID, roots |-> s]
  BY DEF Unmarshal
<1>2. ListOf(s, FulcioRoots(m))
  BY Enumerated
<1> QED
  BY <1>1, <1>2

\* Append puts an element that is not there behind the others.
LEMMA Appended ==
    ASSUME NEW S, NEW q \in Seq(S), IsInjective(q), NEW x, x \notin Range(q)
    PROVE  /\ Append(q, x) \in [1..(Len(q) + 1) -> Range(q) \cup {x}]
           /\ Range(Append(q, x)) = Range(q) \cup {x}
           /\ IsInjective(Append(q, x))
<1> DEFINE n == Len(q)
           a == Append(q, x)
<1>1. n \in Nat /\ DOMAIN q = 1..n
  BY SMT
<1>2. a \in Seq(S \cup {x}) /\ Len(a) = n + 1
  BY SMT
<1>3. DOMAIN a = 1..(n + 1) /\ a[n + 1] = x /\ \A i \in 1..n : a[i] = q[i]
  BY SMT
<1> HIDE DEF n, a
<1>4. (n + 1) \in 1..(n + 1) /\ \A i \in 1..(n + 1) : i \in 1..n \/ i = n + 1
  BY SMT, <1>1
<1>5. 1..n \subseteq 1..(n + 1)
  BY SMT, <1>1
<1>6. Range(a) = Range(q) \cup {x}
  BY <1>1, <1>3, <1>4, <1>5 DEF Range
<1>7. IsInjective(a)
  <2> SUFFICES ASSUME NEW i \in 1..(n + 1), NEW j \in 1..(n + 1), a[i] = a[j]
               PROVE  i = j
    BY <1>3 DEF IsInjective
  <2>1. \A k \in 1..n : a[k] # x
    BY <1>1, <1>3 DEF Range
  <2>2. CASE i \in 1..n /\ j \in 1..n
    BY <1>1, <1>3, <2>2 DEF IsInjective
  <2>3. CASE i = n + 1 \/ j = n + 1
    BY <1>3, <1>4, <2>1, <2>3
  <2> QED
    BY <1>4, <2>2, <2>3
<1>8. a \in [1..(n + 1) -> Range(q) \cup {x}]
  <2>1. \A i \in 1..(n + 1) : a[i] \in Range(q) \cup {x}
    BY <1>3, <1>6 DEF Range
  <2>2. ASSUME NEW T, NEW b \in Seq(T) PROVE b = [i \in 1..Len(b) |-> b[i]]
    BY SMT
  <2>3. a = [i \in 1..(n + 1) |-> a[i]]
    BY <1>2, <2>2
  <2> QED
    BY <2>1, <2>3
<1> QED
  BY <1>6, <1>7, <1>8 DEF n, a

\* AddFulcioRoot adds the root of a chain that decodes, unless it is there.
LEMMA RootAdded ==
    ASSUME NEW c, c = [key |-> c.key, logID |-> c.logID, roots |-> c.roots],
           NEW S, ListOf(c.roots, S), NEW ch \in {Unparsable} \cup Range(Chains)
    PROVE  LET c1 == AddFulcioRoot(c, ch)
           IN  /\ IsConfig(c1) /\ c1.key = c.key /\ c1.logID = c.logID
               /\ S \subseteq Range(c1.roots) /\ Range(c1.roots) \subseteq AllRoots
               /\ ch # Unparsable => RootOf(ch) \in Range(c1.roots)
<1> DEFINE c1 == AddFulcioRoot(c, ch)
           n == Len(c.roots)
           r == RootOf(ch)
<1>0. /\ n \in 0..Len(FulcioKeys) /\ DOMAIN c.roots = 1..n
      /\ c.roots \in Seq(S) /\ Range(c.roots) = S /\ S \subseteq AllRoots
      /\ IsInjective(c.roots) /\ Len(FulcioKeys) \in Nat
  BY SMT, KeysAre DEF ListOf
<1>2. ch # Unparsable => r \in AllRoots
  BY DEF AllRoots, Range
<1>3. CASE ch = Unparsable \/ r \in S
  <2>1. c1 = c
    BY <1>0, <1>3 DEF AddFulcioRoot, extractFulcioRoot
  <2> QED
    BY <1>0, <1>3, <2>1 DEF IsConfig
<1>4. CASE ch # Unparsable /\ r \notin S
  <2>1. c1 = [c EXCEPT !.roots = Append(c.roots, r)]
    BY <1>0, <1>4 DEF AddFulcioRoot, extractFulcioRoot
  <2>2. c1 = [key |-> c.key, logID |-> c.logID, roots |-> Append(c.roots, r)]
    BY <2>1
  <2> DEFINE a == Append(c.roots, r)
  <2>3. a \in [1..(n + 1) -> S \cup {r}] /\ Range(a) = S \cup {r} /\ IsInjective(a)
    <3>1. c.roots \in Seq(S) /\ IsInjective(c.roots) /\ Range(c.roots) = S /\ r \notin S
      BY <1>0, <1>4
    <3> QED
      BY <3>1, Appended
  <2>4. n + 1 \in 0..Len(FulcioKeys)
    <3>1. a \in [1..(n + 1) -> AllRoots]
      <4>1. (S \cup {r}) \subseteq AllRoots
        BY <1>0, <1>2, <1>4
      <4> HIDE DEF a, n
      <4> QED
        BY SMT, <2>3, <4>1
    <3>2. a \in Injection(1..(n + 1), AllRoots)
      BY <2>3, <3>1 DEF Injection
    <3>3. n # Len(FulcioKeys)
      BY <3>2, KeysSuffice
    <3> HIDE DEF a, n
    <3> QED
      BY SMT, <1>0, <3>3
  <2> HIDE DEF a
  <2>5. c1.key = c.key /\ c1.logID = c.logID /\ c1.roots = a
        /\ c1 = [key |-> c1.key, logID |-> c1.logID, roots |-> c1.roots]
    BY SMT, <2>2 DEF a
  <2>6. IsConfig(c1)
    BY <2>3, <2>4, <2>5 DEF IsConfig
  <2> QED
    BY <1>0, <1>2, <1>4, <2>3, <2>5, <2>6
<1> QED
  BY <1>3, <1>4

----------------------------------------------------------------------------
\* Data maps.

\* The loop of ReconcileSecret over two sound maps leaves a sound one.
LEMMA MergeIsSound ==
    ASSUME NEW n, NEW old, NEW new, Sound(old, n), Sound(new, n)
    PROVE  /\ Sound(Merge(old, new), n)
           /\ DOMAIN Merge(old, new) = DOMAIN old \cup DOMAIN new
           /\ \A k \in DOMAIN new : Merge(old, new)[k] = new[k]
           /\ \A k \in DOMAIN old \ DOMAIN new : Merge(old, new)[k] = old[k]
<1> DEFINE m == Merge(old, new)
<1>1. /\ m = [k \in DOMAIN m |-> m[k]]
      /\ DOMAIN m = DOMAIN old \cup DOMAIN new
      /\ \A k \in DOMAIN new : m[k] = new[k]
      /\ \A k \in DOMAIN old \ DOMAIN new : m[k] = old[k]
  BY DEF Merge
<1> HIDE DEF m
<1>2. DOMAIN m \subseteq DataKeys /\ ("private" \in DOMAIN m <=> "public" \in DOMAIN m)
  BY <1>1 DEF Sound
<1>3. "private" \in DOMAIN m => m["private"].key = m["public"] /\ m["public"] \in 0..n
  BY <1>1 DEF Sound
<1>4. "config" \in DOMAIN m => Range(m["config"].roots) \subseteq DOMAIN m \cap Range(FulcioKeys)
  BY <1>1 DEF Sound
<1>5. FulcioRoots(m) \subseteq FulcioRoots(old) \cup FulcioRoots(new)
  BY <1>1 DEF FulcioRoots
<1>6. FulcioRoots(m) \subseteq AllRoots
  BY <1>5 DEF Sound
<1>7. Sound(m, n)
  BY <1>1, <1>2, <1>3, <1>4, <1>6 DEF Sound
<1> QED
  BY <1>1, <1>7 DEF m

\* So does MarshalConfig, for roots that there are.
LEMMA MarshalIsSound ==
    ASSUME NEW n, NEW c, IsConfig(c), Range(c.roots) \subseteq AllRoots, c.key \in 0..n, NEW enc
    PROVE  Sound(MarshalConfig(c, enc), n)
<1> DEFINE m == MarshalConfig(c, enc)
<1>m. IsMarshalled(m, c, enc)
  BY Marshalled
<1> HIDE DEF m
<1>0. /\ DOMAIN m = {"config", "private", "public"} \cup Files(c)
      /\ m = [k \in DOMAIN m |-> m[k]]
      /\ Files(c) \subseteq Range(FulcioKeys)
      /\ m["config"] = [logID |-> c.logID, roots |-> RootsPemFile(c), public |-> c.key]
      /\ m["private"] = [key |-> c.key, enc |-> enc]
      /\ m["public"] = c.key
      /\ Range(RootsPemFile(c)) = Files(c)
      /\ \A i \in DOMAIN c.roots : m[FulcioKeys[i]] = c.roots[i]
  BY <1>m DEF IsMarshalled
<1>1. m["config"].roots = RootsPemFile(c) /\ m["private"].key = c.key
  BY SMT, <1>0
<1>2. DOMAIN m \cap ({"rootca"} \cup Range(FulcioKeys)) = Files(c)
  BY <1>0, KeysAre
<1>3. FulcioRoots(m) \subseteq Range(c.roots)
  <2> SUFFICES ASSUME NEW x \in FulcioRoots(m) PROVE x \in Range(c.roots)
    OBVIOUS
  <2>1. PICK k \in Files(c) : x = m[k]
    BY <1>2 DEF FulcioRoots
  <2>2. PICK i \in DOMAIN c.roots : k = FulcioKeys[i]
    BY DEF Files
  <2> QED
    BY <1>0, <2>1, <2>2 DEF Range
<1>4. DOMAIN m \subseteq DataKeys
  BY <1>0 DEF DataKeys, KeyPair
<1>5. Range(m["config"].roots) \subseteq DOMAIN m \cap Range(FulcioKeys)
  BY SMT, <1>0, <1>1
<1> QED
  BY <1>0, <1>1, <1>3, <1>4, <1>5 DEF Sound, m

\* A map that is written back without its key pair stays sound.
LEMMA RestIsSound ==
    ASSUME NEW n, NEW m, Sound(m, n)
    PROVE  /\ Sound(WithoutKeys(m), n)
           /\ DOMAIN WithoutKeys(m) = DOMAIN m \ KeyPair
           /\ \A k \in DOMAIN m \ KeyPair : WithoutKeys(m)[k] = m[k]
<1> DEFINE w == WithoutKeys(m)
<1>1. /\ w = [k \in DOMAIN w |-> w[k]]
      /\ DOMAIN w = DOMAIN m \ KeyPair
      /\ \A k \in DOMAIN m \ KeyPair : w[k] = m[k]
  BY DEF WithoutKeys, Restrict, KeyPair
<1> HIDE DEF w
<1>2. DOMAIN w \subseteq DataKeys /\ "private" \notin DOMAIN w /\ "public" \notin DOMAIN w
  BY <1>1 DEF Sound, KeyPair
<1>3. "config" \in DOMAIN w => Range(w["config"].roots) \subseteq DOMAIN w \cap Range(FulcioKeys)
  BY <1>1, KeysAre DEF Sound, KeyPair
<1>4. FulcioRoots(w) \subseteq FulcioRoots(m)
  BY <1>1 DEF FulcioRoots
<1>5. FulcioRoots(w) \subseteq AllRoots
  BY <1>4 DEF Sound
<1>6. Sound(w, n)
  BY <1>1, <1>2, <1>3, <1>5 DEF Sound
<1> QED
  BY <1>1, <1>6 DEF w

\* More key pairs do no harm.
LEMMA StillSound ==
    ASSUME NEW n \in Nat, NEW m \in Nat, n <= m, NEW d, Sound(d, n)
    PROVE  Sound(d, m)
BY SMT DEF Sound

\* The configuration of a marshalled Config lists its roots.
LEMMA MarshalLists ==
    ASSUME NEW c, IsConfig(c), NEW enc
    PROVE  Listed(MarshalConfig(c, enc)) = Range(c.roots)
<1> DEFINE m == MarshalConfig(c, enc)
<1>m. IsMarshalled(m, c, enc)
  BY Marshalled
<1> HIDE DEF m
<1>1. /\ m["config"] = [logID |-> c.logID, roots |-> RootsPemFile(c), public |-> c.key]
      /\ Range(RootsPemFile(c)) = Files(c)
      /\ \A i \in DOMAIN c.roots : m[FulcioKeys[i]] = c.roots[i]
  BY <1>m DEF IsMarshalled
<1>2. Listed(m) = {m[f] : f \in Files(c)}
  BY SMT, <1>1 DEF Listed
<1>3. {m[f] : f \in Files(c)} = {m[FulcioKeys[i]] : i \in DOMAIN c.roots}
  BY DEF Files
<1>4. {m[FulcioKeys[i]] : i \in DOMAIN c.roots} = Range(c.roots)
  BY SMT, <1>1 DEF Range
<1> QED
  BY <1>2, <1>3, <1>4 DEF m

\* The key pair takes no part in that.
LEMMA RestLists ==
    ASSUME NEW n, NEW m, Sound(m, n), "config" \in DOMAIN m
    PROVE  Listed(WithoutKeys(m)) = Listed(m)
<1> DEFINE w == WithoutKeys(m)
<1>1. \A k \in DOMAIN m \ KeyPair : w[k] = m[k]
  BY RestIsSound
<1>2. w["config"] = m["config"]
  BY <1>1 DEF KeyPair
<1>3. Range(m["config"].roots) \subseteq DOMAIN m \ KeyPair
  BY KeysAre DEF Sound, KeyPair
<1> HIDE DEF w
<1>4. Listed(w) = {w[f] : f \in Range(m["config"].roots)}
  BY <1>2 DEF Listed
<1> QED
  BY <1>1, <1>3, <1>4 DEF Listed, w

\* The Data map m for a new configuration, with key pair k, for the log id and
\* the chain ch.
IsNewData(m, n, k, id, ch) ==
    /\ Sound(m, n)
    /\ "config" \in DOMAIN m /\ KeyPair \subseteq DOMAIN m
    /\ m["config"].logID = id /\ m["config"].public = k /\ m["public"] = k
    /\ ch # Unparsable => RootOf(ch) \in Listed(m)

LEMMA NewData ==
    ASSUME NEW n, NEW k \in 0..n, NEW id, NEW enc, NEW ch \in {Unparsable} \cup Range(Chains)
    PROVE  IsNewData(MarshalConfig(AddFulcioRoot([key |-> k, logID |-> id, roots |-> <<>>], ch), enc),
                     n, k, id, ch)
<1> DEFINE c == [key |-> k, logID |-> id, roots |-> <<>>]
           c1 == AddFulcioRoot(c, ch)
           m == MarshalConfig(c1, enc)
<1>1. ListOf(<<>>, {})
  BY SMT, KeysAre DEF ListOf, IsInjective, Range
<1>2. /\ c = [key |-> c.key, logID |-> c.logID, roots |-> c.roots]
      /\ c.key = k /\ c.logID = id /\ ListOf(c.roots, {})
  BY <1>1
<1> HIDE DEF c
<1>3. /\ IsConfig(c1) /\ c1.key = k /\ c1.logID = id
      /\ Range(c1.roots) \subseteq AllRoots
      /\ ch # Unparsable => RootOf(ch) \in Range(c1.roots)
  BY <1>2, RootAdded
<1> HIDE DEF c1
<1>4. Sound(m, n)
  BY <1>3, MarshalIsSound
<1>m. IsMarshalled(m, c1, enc)
  BY <1>3, Marshalled
<1>6. Listed(m) = Range(c1.roots)
  BY <1>3, MarshalLists
<1> HIDE DEF m
<1>5. /\ "config" \in DOMAIN m /\ KeyPair \subseteq DOMAIN m /\ m["public"] = k
      /\ m["config"] = [logID |-> id, roots |-> RootsPemFile(c1), public |-> k]
  BY <1>3, <1>m DEF KeyPair, IsMarshalled
<1>7. m["config"].logID = id /\ m["config"].public = k
  BY SMT, <1>5
<1>8. IsNewData(m, n, k, id, ch)
  BY <1>3, <1>4, <1>5, <1>6, <1>7 DEF IsNewData
<1> QED
  BY <1>8 DEF m, c1, c

\* The configuration in force next to the Data map d.
ConfigOf(d) == IF "config" \in DOMAIN d THEN d["config"] ELSE cmConfig

\* The Data map m that is written back for the existing configuration in d: its
\* log and its public key are kept and all of its roots are listed.
IsNextData(m, n, d, ch) ==
    /\ Sound(m, n)
    /\ "config" \in DOMAIN m /\ KeyPair \cap DOMAIN m = {}
    /\ m["config"].logID = ConfigOf(d).logID /\ m["config"].public = d["public"]
    /\ FulcioRoots(d) \subseteq Listed(m)
    /\ ch # Unparsable => RootOf(ch) \in Listed(m)

LEMMA NextData ==
    ASSUME NEW n, NEW d, Sound(d, n), ~ Incomplete(d),
           NEW c \in Unmarshal(ExistingData(d)), NEW ch \in {Unparsable} \cup Range(Chains)
    PROVE  IsNextData(WithoutKeys(MarshalConfig(AddFulcioRoot(c, ch), 0)), n, d, ch)
<1> DEFINE e == ExistingData(d)
           c1 == AddFulcioRoot(c, ch)
           m1 == MarshalConfig(c1, 0)
           m == WithoutKeys(m1)
<1>1. "private" \in DOMAIN d /\ "public" \in DOMAIN d
  BY DEF Incomplete
<1>2. /\ DOMAIN e = DOMAIN d \cup {"config"}
      /\ \A k \in DOMAIN d : e[k] = d[k]
      /\ e["config"] = ConfigOf(d)
  BY DEF ExistingData, With, ConfigOf
<1> HIDE DEF e
<1>3. FulcioRoots(e) = FulcioRoots(d)
  <2>1. DOMAIN e \cap ({"rootca"} \cup Range(FulcioKeys))
          = DOMAIN d \cap ({"rootca"} \cup Range(FulcioKeys))
    BY <1>2, KeysAre
  <2> QED
    BY <1>2, <2>1 DEF FulcioRoots
<1>4. /\ c = [key |-> c.key, logID |-> c.logID, roots |-> c.roots]
      /\ c.key = e["private"].key /\ c.logID = e["config"].logID
      /\ ListOf(c.roots, FulcioRoots(e))
  <2>1. FulcioRoots(e) \subseteq AllRoots /\ c \in Unmarshal(e)
    BY <1>3 DEF Sound, e
  <2> QED
    BY <2>1, Unmarshalled
<1>5. c.key = d["public"] /\ c.key \in 0..n /\ c.logID = ConfigOf(d).logID
  BY <1>1, <1>2, <1>4 DEF Sound
<1>6. /\ IsConfig(c1) /\ c1.key = c.key /\ c1.logID = c.logID
      /\ FulcioRoots(d) \subseteq Range(c1.roots) /\ Range(c1.roots) \subseteq AllRoots
      /\ ch # Unparsable => RootOf(ch) \in Range(c1.roots)
  BY <1>3, <1>4, RootAdded
<1> HIDE DEF c1
<1>7. Sound(m1, n)
  BY <1>5, <1>6, MarshalIsSound
<1>m. IsMarshalled(m1, c1, 0)
  BY <1>6, Marshalled
<1>9. Listed(m1) = Range(c1.roots)
  BY <1>6, MarshalLists
<1> HIDE DEF m1
<1>8. /\ "config" \in DOMAIN m1
      /\ m1["config"] = [logID |-> c1.logID, roots |-> RootsPemFile(c1), public |-> c1.key]
  BY <1>m DEF IsMarshalled
<1>10. /\ Sound(m, n) /\ DOMAIN m = DOMAIN m1 \ KeyPair /\ m["config"] = m1["config"]
  BY <1>7, <1>8, RestIsSound DEF KeyPair
<1>11. Listed(m) = Range(c1.roots)
  BY <1>7, <1>8, <1>9, RestLists
<1> HIDE DEF m
<1>12. m["config"].logID = ConfigOf(d).logID /\ m["config"].public = d["public"]
  BY SMT, <1>5, <1>6, <1>8, <1>10
<1>13. "config" \in DOMAIN m /\ KeyPair \cap DOMAIN m = {}
  BY <1>8, <1>10 DEF KeyPair
<1>14. IsNextData(m, n, d, ch)
  BY <1>6, <1>10, <1>11, <1>12, <1>13 DEF IsNextData
<1> QED
  BY <1>14 DEF m, m1, c1

----------------------------------------------------------------------------
\* Types, for any number of pods.

\* The steps of main of pod p and its restarts: everything but its calls.
PodStep(p) ==
    \/ ReadTree(p) \/ FetchRoot(p) \/ CreateConfig(p) \/ UpdateConfig(p)
    \/ PublishKey(p) \/ Finish(p) \/ Fail(p) \/ CTDie(p) \/ Rerun(p)

\* A step is one of createtree, of main, of a call, or of Fulcio.
LEMMA StepCases ==
    ASSUME [Next]_vars
    PROVE  \/ TreePart
           \/ \E p \in Procs : PodStep(p) /\ UNCHANGED treeVars
           \/ \E p \in Procs : CallStep(p) /\ UNCHANGED <<ctVars, treeVars>>
           \/ RotateFulcio /\ UNCHANGED treeVars
           \/ UNCHANGED vars
BY DEF Next, CTNext, CTStep, PodStep, CallStep

Steps == {"start", "fetch", "secret", "main", "pub", "done"}

\* The types of what the steps of createctconfig change.
PodTypes ==
    /\ CallTypes
    /\ step \in [Procs -> Steps]
    /\ \A p \in Procs : at[p] # "idle" <=> step[p] \in {"main", "pub"}
    /\ tree \in [Procs -> 0..trees]
    /\ made \in Nat /\ pub \in [Procs -> 0..made]
    /\ fulcio \in DOMAIN Chains
    /\ chain = [p \in Procs |-> chain[p]]
    /\ cmConfig \in {NoConfig, OldConfig}
    /\ faults \in 0..MaxFaults

LEMMA TypesSplit == CTTypes <=> TreeIInv /\ PodTypes
<1>1. {"idle"} \cup Running \cup Returned = Ats
  BY DEF Running, Returned, Ats
<1> QED
  BY <1>1 DEF CTTypes, CTTypeOK, TreeIInv, TreeTypeOK, PodTypes, CallTypes, Steps

\* The types of createtree do not notice the other job.
LEMMA TreePartStays ==
    ASSUME TreeIInv, UNCHANGED treeVars, faults' \in 0..MaxFaults
    PROVE  TreeIInv'
BY DEF TreeIInv, TreeTypeOK, SnapshotsAreOld, NewTreesExist, RecordedTreeExists, treeVars

\* What a step of main leaves alone.
PodFrame(p) ==
    /\ secrets' = secrets /\ cmConfig' = cmConfig /\ fulcio' = fulcio
    /\ made <= made'
    /\ \A q \in Procs \ {p} :
          /\ step'[q] = step[q] /\ tree'[q] = tree[q] /\ chain'[q] = chain[q] /\ pub'[q] = pub[q]
          /\ at'[q] = at[q] /\ arg'[q] = arg[q] /\ seen'[q] = seen[q]

\* A step of main assigns to the variables of its pod.
Assigns(p, s, t, c, b, a, g, e) ==
    /\ step' = [step EXCEPT ![p] = s] /\ tree' = [tree EXCEPT ![p] = t]
    /\ chain' = [chain EXCEPT ![p] = c] /\ pub' = [pub EXCEPT ![p] = b]
    /\ at' = [at EXCEPT ![p] = a] /\ arg' = [arg EXCEPT ![p] = g]
    /\ seen' = [seen EXCEPT ![p] = e]
    /\ UNCHANGED <<secrets, cmConfig, fulcio, trees>>
    /\ made' \in Nat /\ made <= made' /\ faults' \in 0..MaxFaults
    /\ s \in Steps /\ t \in 0..trees /\ b \in 0..made' /\ a \in Ats
    /\ a # "idle" <=> s \in {"main", "pub"}

LEMMA AssignTypes ==
    ASSUME PodTypes, NEW p \in Procs, trees \in Nat,
           NEW s, NEW t, NEW c, NEW b, NEW a, NEW g, NEW e,
           Assigns(p, s, t, c, b, a, g, e)
    PROVE  PodTypes' /\ PodFrame(p)
<1>1. step' \in [Procs -> Steps] /\ tree' \in [Procs -> 0..trees]
  BY DEF Assigns, PodTypes
<1>2. pub' \in [Procs -> 0..made']
  <2>1. pub \in [Procs -> 0..made']
    BY SMT DEF Assigns, PodTypes
  <2> QED
    BY <2>1 DEF Assigns
<1>3. CallTypes' /\ chain' = [q \in Procs |-> chain'[q]]
  BY DEF Assigns, PodTypes, CallTypes
<1>4. \A q \in Procs : at'[q] # "idle" <=> step'[q] \in {"main", "pub"}
  BY DEF Assigns, PodTypes, CallTypes
<1>5. PodTypes'
  BY <1>1, <1>2, <1>3, <1>4 DEF Assigns, PodTypes
<1>6. PodFrame(p)
  BY SMT DEF Assigns, PodTypes, CallTypes, PodFrame
<1> QED
  BY <1>5, <1>6

\* The steps of main keep the types.
LEMMA PodStepTypes ==
    ASSUME TreeIInv, PodTypes, Whole(Main, made), NEW p \in Procs, PodStep(p), UNCHANGED treeVars
    PROVE  PodTypes' /\ PodFrame(p)
<1>0. trees' = trees /\ cm.treeID \in 0..trees /\ trees \in Nat /\ MaxFaults \in Nat
  BY FaultsAssumption DEF TreeIInv, TreeTypeOK, RecordedTreeExists, treeVars
<1>f. /\ step = [step EXCEPT ![p] = step[p]] /\ tree = [tree EXCEPT ![p] = tree[p]]
      /\ chain = [chain EXCEPT ![p] = chain[p]] /\ pub = [pub EXCEPT ![p] = pub[p]]
      /\ at = [at EXCEPT ![p] = at[p]] /\ arg = [arg EXCEPT ![p] = arg[p]]
      /\ seen = [seen EXCEPT ![p] = seen[p]]
      /\ step[p] \in Steps /\ tree[p] \in 0..trees /\ pub[p] \in 0..made /\ at[p] \in Ats
      /\ at[p] # "idle" <=> step[p] \in {"main", "pub"}
      /\ made \in Nat /\ faults \in 0..MaxFaults
  BY DEF PodTypes, CallTypes
<1>1. CASE ReadTree(p)
  <2>1. Assigns(p, "fetch", cm.treeID, chain[p], pub[p], "idle", arg[p], seen[p])
    BY SMT, <1>0, <1>1, <1>f DEF ReadTree, reconcileVars, Assigns, ctInputs, Steps, Ats
  <2> QED
    BY <1>0, <2>1, AssignTypes
<1>2. CASE FetchRoot(p)
  <2>1. PICK c : chain' = [chain EXCEPT ![p] = c] /\ faults' \in 0..MaxFaults
    BY SMT, <1>0, <1>2, <1>f DEF FetchRoot, Fault
  <2>2. Assigns(p, "secret", tree[p], c, pub[p], "idle", arg[p], seen[p])
    BY SMT, <1>0, <1>2, <1>f, <2>1 DEF FetchRoot, Assigns, ctInputs, Steps, Ats
  <2> QED
    BY <1>0, <2>2, AssignTypes
<1>i. ASSUME NEW n, NEW d, Invoke(p, n, d)
      PROVE  \E g : /\ arg' = [arg EXCEPT ![p] = g] /\ at' = [at EXCEPT ![p] = "get"]
                    /\ UNCHANGED <<secrets, seen>> /\ faults' = faults
  BY <1>i DEF Invoke
<1>3. CASE CreateConfig(p)
  <2>1. NewKey \in 0..made'
    BY SMT, <1>3, <1>f DEF CreateConfig, NewKey, ImportedKey
  <2>2. PICK g : /\ arg' = [arg EXCEPT ![p] = g] /\ at' = [at EXCEPT ![p] = "get"]
                 /\ UNCHANGED <<secrets, seen>> /\ faults' = faults
    BY <1>3, <1>i DEF CreateConfig
  <2>3. /\ step' = [step EXCEPT ![p] = "main"] /\ pub' = [pub EXCEPT ![p] = NewKey]
        /\ UNCHANGED <<tree, chain, cmConfig, fulcio>> /\ made' = made + 1
    BY <1>3 DEF CreateConfig, ctInputs
  <2>4. Assigns(p, "main", tree[p], chain[p], NewKey, "get", g, seen[p])
    BY SMT, <1>0, <1>f, <2>1, <2>2, <2>3 DEF Assigns, Steps, Ats
  <2> QED
    BY <1>0, <2>4, AssignTypes
<1>4. CASE UpdateConfig(p)
  <2>1. Main["public"] \in 0..made /\ pub' = [pub EXCEPT ![p] = Main["public"]]
    BY <1>4 DEF UpdateConfig, Incomplete, Whole, Sound, Main
  <2>2. PICK g : /\ arg' = [arg EXCEPT ![p] = g] /\ at' = [at EXCEPT ![p] = "get"]
                 /\ UNCHANGED <<secrets, seen>> /\ faults' = faults
    BY <1>4, <1>i DEF UpdateConfig
  <2>3. /\ step' = [step EXCEPT ![p] = "main"]
        /\ UNCHANGED <<tree, chain, cmConfig, fulcio>> /\ made' = made
    BY <1>4 DEF UpdateConfig, ctInputs
  <2>4. Assigns(p, "main", tree[p], chain[p], Main["public"], "get", g, seen[p])
    BY SMT, <1>0, <1>f, <2>1, <2>2, <2>3 DEF Assigns, Steps, Ats
  <2> QED
    BY <1>0, <2>4, AssignTypes
<1>5. CASE PublishKey(p)
  <2>1. PICK g : /\ arg' = [arg EXCEPT ![p] = g] /\ at' = [at EXCEPT ![p] = "get"]
                 /\ UNCHANGED <<secrets, seen>> /\ faults' = faults
    BY <1>5, <1>i DEF PublishKey
  <2>2. /\ step' = [step EXCEPT ![p] = "pub"]
        /\ UNCHANGED <<tree, chain, pub, cmConfig, fulcio>> /\ made' = made
    BY <1>5 DEF PublishKey, ctInputs
  <2>3. Assigns(p, "pub", tree[p], chain[p], pub[p], "get", g, seen[p])
    BY SMT, <1>0, <1>f, <2>1, <2>2 DEF Assigns, Steps, Ats
  <2> QED
    BY <1>0, <2>3, AssignTypes
<1>6. CASE Finish(p)
  <2>1. Assigns(p, "done", tree[p], chain[p], pub[p], "idle", NoArg, Missing)
    BY SMT, <1>0, <1>6, <1>f DEF Finish, Reset, Assigns, ctInputs, Steps, Ats
  <2> QED
    BY <1>0, <2>1, AssignTypes
<1>7. ASSUME Restart(p), faults' \in 0..MaxFaults PROVE PodTypes' /\ PodFrame(p)
  <2>1. Assigns(p, "start", 0, Unparsable, 0, "idle", NoArg, Missing)
    BY SMT, <1>0, <1>7, <1>f DEF Restart, Reset, Assigns, ctInputs, Steps, Ats
  <2> QED
    BY <1>0, <2>1, AssignTypes
<1>8. CASE Fail(p) \/ CTDie(p) \/ Rerun(p)
  BY SMT, <1>0, <1>7, <1>8, <1>f DEF Fail, CTDie, Rerun, Fault
<1> QED
  BY <1>1, <1>2, <1>3, <1>4, <1>5, <1>6, <1>8 DEF PodStep

\* So do the steps of the calls.
LEMMA CallStepTypes ==
    ASSUME PodTypes, NEW p \in Procs, CallStep(p), UNCHANGED <<ctVars, treeVars>>
    PROVE  PodTypes' /\ CallFrame(p)
<1>1. CallFrame(p) /\ CallTypes'
  BY CallStaysInFrame DEF PodTypes
<1>2. faults' \in 0..MaxFaults
  <2>1. faults \in 0..MaxFaults /\ MaxFaults \in Nat
    BY FaultsAssumption DEF PodTypes
  <2>2. faults' = faults \/ Fault
    BY DEF CallStep, ReconcileStep, Get, Create, Update, Refused, RequestFails, Reply
  <2> QED
    BY SMT, <2>1, <2>2 DEF Fault
<1>3. \A q \in Procs : at'[q] # "idle" <=> at[q] # "idle"
  BY <1>1 DEF CallFrame, Running
<1>4. /\ step' = step /\ tree' = tree /\ pub' = pub /\ chain' = chain /\ fulcio' = fulcio
      /\ cmConfig' = cmConfig /\ made' = made /\ trees' = trees
  BY DEF ctVars, ctInputs, treeVars
<1> QED
  BY <1>1, <1>2, <1>3, <1>4 DEF PodTypes

\* And the steps of createtree, since Trillian only gets more trees.
LEMMA TreePartTypes ==
    ASSUME TreeIInv, PodTypes, TreePart
    PROVE  TreeIInv' /\ PodTypes'
<1>1. TreeIInv'
  BY TreeNextInv DEF TreePart
<1>2. trees <= trees'
  BY SMT DEF TreePart, TreeNext, TreeStep, ReadConfigMap, createTree, UpdateConfigMap, UpdateConflict,
         createTreeFails, TreeDie, EditConfigMap, treeVars, TreeIInv, TreeTypeOK
<1>3. faults' \in 0..MaxFaults /\ trees \in Nat /\ trees' \in Nat
  BY <1>1 DEF TreeIInv, TreeTypeOK
<1>4. tree \in [Procs -> 0..trees']
  <2>1. \A x \in 0..trees : x \in 0..trees'
    BY SMT, <1>2, <1>3
  <2> QED
    BY <2>1 DEF PodTypes
<1>5. /\ step' = step /\ tree' = tree /\ pub' = pub /\ chain' = chain /\ fulcio' = fulcio
      /\ cmConfig' = cmConfig /\ made' = made
      /\ secrets' = secrets /\ at' = at /\ arg' = arg /\ seen' = seen
  BY DEF TreePart, ctVars, ctInputs
<1>6. CallTypes'
  BY <1>5 DEF PodTypes, CallTypes
<1>7. PodTypes'
  BY <1>3, <1>4, <1>5, <1>6 DEF PodTypes
<1> QED
  BY <1>1, <1>7

----------------------------------------------------------------------------
\* The invariant CTInv.

\* A call that is under way keeps its promises while others write the secret.
LEMMA OthersKeep ==
    ASSUME NEW q, CTCall(q), made \in Nat, made' \in Nat, made <= made', cmConfig' = cmConfig,
           step'[q] = step[q], chain'[q] = chain[q], arg'[q] = arg[q], at'[q] = at[q],
           at[q] = "update" => seen'[q] = seen[q],
           KeyPair \subseteq DOMAIN Main => KeyPair \subseteq DOMAIN Main'
    PROVE  CTCall(q)'
<1>1. \A d : Sound(d, made) => Sound(d, made')
  BY StillSound
<1>2. ASSUME at[q] = "update", Whole(seen[q].data, made) PROVE Whole(seen[q].data, made)'
  BY <1>1, <1>2 DEF Whole
<1> QED
  BY <1>1, <1>2 DEF CTCall

\* A step of main hands sound data to ReconcileSecret.
LEMMA PodStepCall ==
    ASSUME CTInv, NEW p \in Procs, PodStep(p), UNCHANGED treeVars
    PROVE  CTCall(p)'
<1>0. PodTypes /\ TreeIInv /\ Whole(Main, made) /\ CTCall(p)
  BY TypesSplit DEF CTInv
<1>1. PodTypes' /\ PodFrame(p)
  BY <1>0, PodStepTypes
<1>2. /\ chain[p] \in {Unparsable} \cup Range(Chains) /\ made \in Nat
      /\ secrets' = secrets /\ cmConfig' = cmConfig
  BY <1>0, <1>1 DEF CTCall, PodTypes, PodFrame
<1>3. CASE ReadTree(p) \/ Finish(p)
  <2>1. step'[p] \notin {"main", "pub"} /\ chain' = chain
    BY <1>0, <1>3 DEF ReadTree, Finish, PodTypes
  <2> QED
    BY <1>2, <2>1 DEF CTCall
<1>4. CASE FetchRoot(p)
  <2>1. step'[p] = "secret"
    BY <1>0, <1>4 DEF FetchRoot, PodTypes
  <2>2. chain'[p] \in {Unparsable, Chains[fulcio]} /\ fulcio \in DOMAIN Chains
    BY <1>0, <1>4 DEF FetchRoot, PodTypes
  <2>3. chain'[p] \in {Unparsable} \cup Range(Chains)
    BY <2>2 DEF Range
  <2> QED
    BY <2>1, <2>3 DEF CTCall
<1>5. CASE Fail(p) \/ CTDie(p) \/ Rerun(p)
  <2>1. step'[p] = "start" /\ chain'[p] = Unparsable
    BY <1>0, <1>5 DEF Fail, CTDie, Rerun, Restart, PodTypes
  <2> QED
    BY <2>1 DEF CTCall
<1>6. CASE PublishKey(p)
  <2>1. step'[p] = "pub" /\ chain' = chain
    BY <1>0, <1>6 DEF PublishKey, PodTypes
  <2>2. arg'[p].name = CTPubSecret
    BY <1>0, <1>6 DEF PublishKey, Invoke, PodTypes, CallTypes
  <2> QED
    BY <1>2, <2>1, <2>2 DEF CTCall
<1>7. ASSUME NEW m, Invoke(p, CTSecret, m), step'[p] = "main", chain' = chain, Sound(m, made'),
             "config" \in DOMAIN m, KeyPair \subseteq DOMAIN m \/ KeyPair \subseteq DOMAIN Main
      PROVE  CTCall(p)'
  <2>1. arg'[p] = [name |-> CTSecret, data |-> m] /\ at'[p] = "get"
    BY <1>0, <1>7 DEF Invoke, PodTypes, CallTypes
  <2>2. arg'[p].name = CTSecret /\ arg'[p].data = m
    BY SMT, <2>1
  <2>3. Main' = Main
    BY <1>2 DEF Main
  <2> QED
    BY <1>2, <1>7, <2>1, <2>2, <2>3 DEF CTCall
<1>8. CASE CreateConfig(p)
  <2> DEFINE m == MarshalConfig(AddFulcioRoot(NewConfig(p), chain[p]), made + 1)
  <2>1. /\ Invoke(p, CTSecret, m) /\ made' = made + 1 /\ chain' = chain
        /\ step' = [step EXCEPT ![p] = "main"]
    BY <1>8 DEF CreateConfig
  <2>2. step'[p] = "main" /\ NewKey \in 0..made'
    BY SMT, <1>0, <1>2, <2>1 DEF PodTypes, NewKey, ImportedKey
  <2>3. IsNewData(m, made', NewKey, tree[p], chain[p])
    BY <1>2, <2>2, NewData DEF NewConfig
  <2> HIDE DEF m
  <2> QED
    BY <1>7, <2>1, <2>2, <2>3 DEF IsNewData
<1>9. CASE UpdateConfig(p)
  <2>1. PICK c \in Unmarshal(ExistingData(Main)) :
            Invoke(p, CTSecret, WithoutKeys(MarshalConfig(AddFulcioRoot(c, chain[p]), 0)))
    BY <1>9 DEF UpdateConfig, Main
  <2> DEFINE m == WithoutKeys(MarshalConfig(AddFulcioRoot(c, chain[p]), 0))
  <2>2. ~ Incomplete(Main) /\ step'[p] = "main" /\ chain' = chain /\ made' = made
    BY <1>0, <1>9 DEF UpdateConfig, Main, PodTypes
  <2>3. Sound(Main, made)
    BY <1>0 DEF Whole
  <2>4. IsNextData(m, made, Main, chain[p])
    BY <1>2, <2>2, <2>3, NextData
  <2>5. KeyPair \subseteq DOMAIN Main
    BY <2>2 DEF Incomplete, KeyPair
  <2>6. Invoke(p, CTSecret, m)
    BY <2>1
  <2> HIDE DEF m
  <2> QED
    BY <1>7, <2>2, <2>4, <2>5, <2>6 DEF IsNextData
<1> QED
  BY <1>3, <1>4, <1>5, <1>6, <1>8, <1>9 DEF PodStep

\* What a step of a call does to the secret of the configuration: the secret
\* stays whole, and once it has been written it has a key pair.
MainKept == Main' = Main

MainCreated(p) ==
    /\ step[p] = "main" /\ at'[p] \in {"ok", "err"}
    /\ secrets[CTSecret] = Missing /\ Main = Nothing
    /\ Main' = arg[p].data

MainUpdated(p) ==
    /\ step[p] = "main" /\ at[p] = "update" /\ at'[p] \in {"ok", "err"}
    /\ secrets[CTSecret].rv = seen[p].rv
    /\ Main' = Merge(seen[p].data, arg[p].data)

LEMMA MainOutcomes ==
    ASSUME CTInv, NEW p \in Procs, CallStep(p)
    PROVE  /\ MainKept \/ MainCreated(p) \/ MainUpdated(p)
           /\ step[p] = "main" /\ at'[p] = "ok" /\ MainKept => Merge(Main, arg[p].data) = Main
<1>0. PodTypes /\ CTCall(p) /\ CallTypes
  BY TypesSplit DEF CTInv, PodTypes
<1>1. CallFrame(p)
  BY <1>0, CallStaysInFrame
<1>2. step[p] \in {"main", "pub"}
  BY <1>0, <1>1 DEF CallFrame, Running, PodTypes
<1>3. CTSecret \in Names /\ CTPubSecret \in Names /\ CTSecret # CTPubSecret
  BY CTNames DEF CTSecret, CTPubSecret
<1>4. CASE step[p] = "pub"
  <2>1. arg[p].name = CTPubSecret
    BY <1>0, <1>4 DEF CTCall
  <2>2. secrets'[CTSecret] = secrets[CTSecret]
    BY <1>1, <1>3, <2>1 DEF CallFrame
  <2> QED
    BY <1>4, <2>2 DEF MainKept, Main
<1>5. CASE step[p] = "main"
  <2>1. arg[p].name = CTSecret
    BY <1>0, <1>5 DEF CTCall
  <2>2. CallUnchanged(p) \/ CallCreates(p) \/ CallUpdates(p)
    BY <1>0, <1>3, <2>1, CallOutcomes
  <2>3. CASE CallUnchanged(p)
    BY <1>5, <2>1, <2>3 DEF CallUnchanged, MainKept, Main
  <2>4. CASE CallCreates(p)
    <3>1. MainCreated(p)
      BY SMT, <1>5, <2>1, <2>4 DEF CallCreates, MainCreated, Main, Missing
    <3>2. Main' = Main => Merge(Main, arg[p].data) = Main
      <4>1. Sound(arg[p].data, made)
        BY <1>0, <1>5 DEF CTCall
      <4> QED
        BY <3>1, <4>1, MergeCovers DEF MainCreated, Sound
    <3> QED
      BY <3>1, <3>2 DEF MainKept
  <2>5. CASE CallUpdates(p)
    <3>1. MainUpdated(p)
      BY <1>5, <2>1, <2>5 DEF CallUpdates, MainUpdated, Main
    <3>2. Main' = Main => Merge(Main, arg[p].data) = Main
      BY <3>1 DEF MainUpdated, Merge
    <3> QED
      BY <3>1, <3>2 DEF MainKept
  <2> QED
    BY <2>2, <2>3, <2>4, <2>5
<1> QED
  BY <1>2, <1>4, <1>5

\* A step of a call keeps the secret whole, with a key pair once written.
LEMMA CallStepMain ==
    ASSUME CTInv, NEW p \in Procs, CallStep(p), UNCHANGED <<ctVars, treeVars>>
    PROVE  /\ Whole(Main, made)'
           /\ MainKept \/ KeyPair \subseteq DOMAIN Main'
<1>0. CTCall(p) /\ Whole(Main, made) /\ made' = made /\ cmConfig' = cmConfig
  BY DEF CTInv, ctVars, ctInputs
<1>1. MainKept \/ MainCreated(p) \/ MainUpdated(p)
  BY MainOutcomes
<1>2. CASE MainKept
  BY <1>0, <1>2 DEF MainKept, Whole
<1>3. CASE MainCreated(p)
  <2>1. DOMAIN Main = {}
    BY <1>3 DEF MainCreated, Nothing
  <2>2. Sound(arg[p].data, made) /\ KeyPair \subseteq DOMAIN arg[p].data
    BY <1>0, <1>3, <2>1 DEF CTCall, MainCreated, KeyPair
  <2>3. cmConfig = NoConfig
    BY <1>0, <2>1 DEF Whole
  <2> QED
    BY <1>0, <1>3, <2>2, <2>3 DEF MainCreated, Whole
<1>4. CASE MainUpdated(p)
  <2>1. /\ Sound(arg[p].data, made) /\ Whole(seen[p].data, made)
        /\ KeyPair \subseteq DOMAIN arg[p].data \/ KeyPair \subseteq DOMAIN seen[p].data
    BY <1>0, <1>4 DEF CTCall, MainUpdated
  <2>2. /\ Sound(Main', made)
        /\ DOMAIN Main' = DOMAIN seen[p].data \cup DOMAIN arg[p].data
    <3> DEFINE m == Merge(seen[p].data, arg[p].data)
    <3>1. Sound(seen[p].data, made)
      BY <2>1 DEF Whole
    <3>2. Sound(m, made) /\ DOMAIN m = DOMAIN seen[p].data \cup DOMAIN arg[p].data
      <4>1. Sound(m, made)
        BY <2>1, <3>1, MergeIsSound
      <4> QED
        BY <4>1 DEF Merge
    <3>3. Main' = m
      BY <1>4 DEF MainUpdated
    <3> QED
      BY <3>2, <3>3
  <2>3. KeyPair \subseteq DOMAIN Main'
    BY <2>1, <2>2
  <2>4. cmConfig # NoConfig => "rootca" \in DOMAIN Main'
    BY <2>1, <2>2 DEF Whole
  <2> QED
    BY <1>0, <2>2, <2>3, <2>4 DEF Whole
<1> QED
  BY <1>1, <1>2, <1>3, <1>4

\* A step of a call keeps the promises of its pod.
LEMMA CallStepCall ==
    ASSUME CTInv, NEW p \in Procs, CallStep(p), UNCHANGED <<ctVars, treeVars>>
    PROVE  CTCall(p)'
<1>0. /\ CTCall(p) /\ Whole(Main, made) /\ PodTypes
      /\ made' = made /\ cmConfig' = cmConfig /\ step' = step /\ chain' = chain
  BY TypesSplit DEF CTInv, ctVars, ctInputs
<1>1. CallFrame(p)
  BY <1>0, CallStepTypes
<1>2. KeyPair \subseteq DOMAIN Main => KeyPair \subseteq DOMAIN Main'
  BY CallStepMain DEF MainKept
<1>3. \A d : Sound(d, made)' <=> Sound(d, made)
  BY <1>0 DEF Sound
<1>4. ASSUME step[p] = "main", at'[p] = "update"
      PROVE  /\ Whole(seen[p].data, made)'
             /\ KeyPair \subseteq DOMAIN arg[p].data \/ KeyPair \subseteq DOMAIN seen'[p].data
  <2>1. seen'[p] = secrets[CTSecret]
    BY <1>0, <1>1, <1>4 DEF CallFrame, CTCall
  <2>2. seen'[p].data = Main
    BY <2>1 DEF Main
  <2>3. KeyPair \subseteq DOMAIN arg[p].data \/ KeyPair \subseteq DOMAIN Main
    BY <1>0, <1>4 DEF CTCall
  <2> QED
    BY <1>0, <2>2, <2>3 DEF Whole
<1>5. arg' = arg
  BY <1>1 DEF CallFrame
<1> QED
  BY <1>0, <1>2, <1>4, <1>5 DEF CTCall

\* The initial states.
LEMMA CTInitInv == Init => CTInv
<1> SUFFICES ASSUME Init PROVE CTInv
  OBVIOUS
<1>1. TreeIInv
  <2>1. cm = [rv |-> 1, treeID |-> trees] /\ trees \in {0, 1}
    BY DEF Init, Fresh, Legacy
  <2> QED
    BY SMT, <2>1, FaultsAssumption
    DEF Init, TreeProcsInit, ReconcileInit, NoCM, TreeIInv, TreeTypeOK, SnapshotsAreOld,
        NewTreesExist, RecordedTreeExists
<1>2. PICK main, public : Holds(main, public) /\ Whole(main, made)
  <2>1. CASE Fresh
    <3>1. PICK main \in {Nothing} \cup {[rootca |-> r] : r \in LegacyRoots} : Holds(main, Nothing)
      BY <2>1 DEF Fresh
    <3>2. cmConfig = NoConfig
      BY <2>1 DEF Fresh
    <3>3. CASE main = Nothing
      <4>1. DOMAIN main = {} /\ main = [k \in DOMAIN main |-> main[k]]
        BY <3>3 DEF Nothing
      <4> QED
        BY <3>1, <3>2, <4>1 DEF Whole, Sound, FulcioRoots
    <3>4. ASSUME NEW r \in LegacyRoots, main = [rootca |-> r]
          PROVE  Whole(main, made)
      <4>1. DOMAIN main = {"rootca"} /\ main = [k \in DOMAIN main |-> main[k]] /\ main["rootca"] = r
        BY <3>4
      <4>2. FulcioRoots(main) \subseteq AllRoots
        BY <4>1 DEF FulcioRoots, AllRoots
      <4> QED
        BY <3>2, <4>1, <4>2 DEF Whole, Sound, DataKeys
    <3> QED
      BY <3>1, <3>3, <3>4
  <2>2. CASE Legacy
    <3>1. PICK r \in LegacyRoots, public \in {Nothing, [public |-> 1]} :
              Holds([private |-> [key |-> 1, enc |-> 1], public |-> 1, rootca |-> r], public)
      BY <2>2 DEF Legacy
    <3> DEFINE main == [private |-> [key |-> 1, enc |-> 1], public |-> 1, rootca |-> r]
    <3>2. /\ DOMAIN main = {"private", "public", "rootca"} /\ main = [k \in DOMAIN main |-> main[k]]
          /\ main["private"].key = 1 /\ main["public"] = 1 /\ main["rootca"] = r
      OBVIOUS
    <3>3. Holds(main, public)
      BY <3>1
    <3> HIDE DEF main
    <3>4. made = 1
      BY <2>2 DEF Legacy
    <3>5. FulcioRoots(main) \subseteq AllRoots
      BY <3>2, KeysAre DEF FulcioRoots, AllRoots
    <3>6. Whole(main, made)
      BY SMT, <3>2, <3>4, <3>5 DEF Whole, Sound, DataKeys, KeyPair
    <3> QED
      BY <3>3, <3>6
  <2> QED
    BY <2>1, <2>2 DEF Init
<1>3. secrets = [n \in Names |-> secrets[n]] /\ Main = main
  <2>1. CTSecret \in Names
    BY CTNames
  <2> QED
    BY <1>2, <2>1 DEF Holds, Main, Missing
<1>4. made \in Nat /\ cmConfig \in {NoConfig, OldConfig}
  BY SMT DEF Init, Fresh, Legacy, OldConfig
<1>5. CallTypes
  BY <1>3 DEF Init, ReconcileInit, CallTypes, Ats
<1>6. PodTypes
  <2>1. fulcio \in DOMAIN Chains
    BY SMT, ChainsAssumption DEF Init, CTInit
  <2>2. faults \in 0..MaxFaults /\ trees \in Nat
    BY <1>1 DEF TreeIInv, TreeTypeOK
  <2> QED
    BY SMT, <1>4, <1>5, <2>1, <2>2 DEF Init, CTInit, ReconcileInit, PodTypes, Steps
<1>7. \A p \in Procs : CTCall(p)
  BY DEF Init, CTInit, CTCall
<1> QED
  BY <1>1, <1>2, <1>3, <1>6, <1>7, TypesSplit DEF CTInv

\* Every step keeps the invariant.
LEMMA CTNextInv == CTInv /\ [Next]_vars => CTInv'
<1> SUFFICES ASSUME CTInv, [Next]_vars PROVE CTInv'
  OBVIOUS
<1>0. TreeIInv /\ PodTypes /\ Whole(Main, made) /\ made \in Nat /\ \A q \in Procs : CTCall(q)
  BY TypesSplit DEF CTInv, PodTypes
<1>t. ASSUME TreeIInv', PodTypes' PROVE CTTypes'
  <2>1. {"idle"} \cup Running \cup Returned = Ats
    BY DEF Running, Returned, Ats
  <2> QED
    BY <1>t, <2>1 DEF CTTypes, CTTypeOK, TreeIInv, PodTypes, CallTypes, Steps
\* Nothing happens to the pods or to the secrets.
<1>1. ASSUME TreeIInv', PodTypes',
             UNCHANGED <<cmConfig, made, step, chain, secrets, at, arg, seen>>
      PROVE  CTInv'
  <2>1. Main' = Main
    BY <1>1 DEF Main
  <2>2. Whole(Main, made)'
    BY <1>0, <1>1, <2>1 DEF Whole
  <2>3. \A q \in Procs : CTCall(q)'
    BY SMT, <1>0, <1>1, <2>1, OthersKeep
  <2> QED
    BY <1>1, <2>2, <2>3, <1>t DEF CTInv
<1>2. CASE TreePart
  <2>1. TreeIInv' /\ PodTypes'
    BY <1>0, <1>2, TreePartTypes
  <2> QED
    BY <1>1, <1>2, <2>1 DEF TreePart, ctVars, ctInputs
<1>3. ASSUME NEW p \in Procs, PodStep(p), UNCHANGED treeVars PROVE CTInv'
  <2>1. PodTypes' /\ PodFrame(p)
    BY <1>0, <1>3, PodStepTypes
  <2>2. TreeIInv'
    BY <1>0, <1>3, <2>1, TreePartStays DEF PodTypes
  <2>3. /\ Main' = Main /\ cmConfig' = cmConfig /\ made' \in Nat /\ made <= made'
    BY <2>1 DEF PodFrame, PodTypes, Main
  <2>4. Whole(Main, made)'
    BY <1>0, <2>3, StillSound DEF Whole
  <2>5. CTCall(p)'
    BY <1>3, PodStepCall
  <2>6. \A q \in Procs \ {p} : CTCall(q)'
    BY <1>0, <2>1, <2>3, OthersKeep DEF PodFrame
  <2> QED
    BY <2>1, <2>2, <2>4, <2>5, <2>6, <1>t DEF CTInv
<1>4. ASSUME NEW p \in Procs, CallStep(p), UNCHANGED <<ctVars, treeVars>> PROVE CTInv'
  <2>1. PodTypes' /\ CallFrame(p)
    BY <1>0, <1>4, CallStepTypes
  <2>2. TreeIInv'
    BY <1>0, <1>4, <2>1, TreePartStays DEF PodTypes
  <2>3. Whole(Main, made)' /\ (MainKept \/ KeyPair \subseteq DOMAIN Main')
    BY <1>4, CallStepMain
  <2>4. KeyPair \subseteq DOMAIN Main => KeyPair \subseteq DOMAIN Main'
    BY <2>3 DEF MainKept
  <2>5. CTCall(p)'
    BY <1>4, CallStepCall
  <2>6. made' = made /\ cmConfig' = cmConfig /\ step' = step /\ chain' = chain
    BY <1>4 DEF ctVars, ctInputs
  <2>7. \A q \in Procs \ {p} : CTCall(q)'
    BY SMT, <1>0, <2>1, <2>4, <2>6, OthersKeep DEF CallFrame
  <2> QED
    BY <2>1, <2>2, <2>3, <2>5, <2>7, <1>t DEF CTInv
<1>5. CASE RotateFulcio /\ UNCHANGED treeVars
  <2>1. /\ fulcio' \in DOMAIN Chains
        /\ UNCHANGED <<cmConfig, made, step, tree, chain, pub, secrets, at, arg, seen, faults, trees>>
    <3>1. Len(Chains) \in Nat /\ DOMAIN Chains = 1..Len(Chains)
      BY SMT, ChainsAssumption
    <3> QED
      BY SMT, <1>0, <1>5, <3>1 DEF RotateFulcio, ctInputs, reconcileVars, treeVars, PodTypes
  <2>2. PodTypes'
    BY <1>0, <2>1 DEF PodTypes, CallTypes
  <2>3. TreeIInv'
    BY <1>0, <1>5, <2>2, TreePartStays DEF PodTypes
  <2> QED
    BY <1>1, <2>1, <2>2, <2>3
<1>6. CASE UNCHANGED vars
  <2>1. /\ UNCHANGED <<cmConfig, made, step, tree, chain, pub, secrets, at, arg, seen, faults, fulcio>>
        /\ UNCHANGED treeVars /\ UNCHANGED trees
    BY <1>6 DEF vars, ctVars, ctInputs, reconcileVars, treeVars
  <2>2. PodTypes'
    BY <1>0, <2>1 DEF PodTypes, CallTypes
  <2>3. TreeIInv'
    BY <1>0, <2>1, <2>2, TreePartStays DEF PodTypes
  <2> QED
    BY <1>1, <2>1, <2>2, <2>3
<1> QED
  BY <1>2, <1>3, <1>4, <1>5, <1>6, StepCases

\* What is sound about the secret and about every call under way.
THEOREM SetupIsSound == Spec => []CTInv
  BY CTInitInv, CTNextInv, PTL DEF Spec

\* Whatever the pods, the faults and the rotations, the variables of the two
\* jobs keep their types: a pod holds a call exactly in the steps that make one.
THEOREM SetupTypeCorrect == Spec => []CTTypeOK
<1>1. CTInv => CTTypeOK
  BY DEF CTInv, CTTypes
<1> QED
  BY <1>1, SetupIsSound, PTL

\* MarshalConfig names the files of the configuration after the keys of the
\* secret, and the merge of ReconcileSecret keeps every key: the server finds
\* every file that the configuration in force names, for any number of pods.
THEOREM RootFilesAreThere == Spec => []RootFilesPresent
<1>1. CTInv => RootFilesPresent
  <2> SUFFICES ASSUME CTInv PROVE RootFilesPresent
    OBVIOUS
  <2>1. Whole(Main, made) /\ cmConfig \in {NoConfig, OldConfig}
    BY DEF CTInv, CTTypes
  <2>2. CASE "config" \in DOMAIN Main
    BY <2>1, <2>2 DEF RootFilesPresent, InForce, Whole, Sound
  <2>3. CASE "config" \notin DOMAIN Main /\ cmConfig = NoConfig
    <3>1. InForce.roots = <<>>
      BY <2>3 DEF InForce, NoConfig
    <3> QED
      BY SMT, <3>1 DEF RootFilesPresent, Range
  <2>4. CASE "config" \notin DOMAIN Main /\ cmConfig = OldConfig
    <3>1. InForce.roots = <<"rootca">>
      BY <2>4 DEF InForce, OldConfig
    <3>2. OldConfig # NoConfig
      BY DEF OldConfig, NoConfig
    <3>3. "rootca" \in DOMAIN Main
      BY <2>1, <2>4, <3>2 DEF Whole
    <3> QED
      BY SMT, <3>1, <3>3 DEF RootFilesPresent, Range
  <2> QED
    BY <2>1, <2>2, <2>3, <2>4
<1> QED
  BY <1>1, SetupIsSound, PTL

\* Pods that race with key pairs of their own never leave the private key of
\* one next to the public key of another: the pair is written in one Update.
THEOREM KeyPairsMatch == Spec => []KeyPairMatches
<1>1. CTInv => KeyPairMatches
  BY DEF CTInv, Whole, Sound, KeyPairMatches
<1> QED
  BY <1>1, SetupIsSound, PTL

----------------------------------------------------------------------------
\* The lock, among the pods of createctconfig.

\* Before the first call nobody has read a secret.
LEMMA CTLockInit == Init => CallLock
<1> SUFFICES ASSUME Init PROVE CallLock
  OBVIOUS
<1>1. ASSUME NEW main, NEW public, Holds(main, public), NEW n \in Names
      PROVE  secrets[n] = Missing \/ secrets[n].rv = 1
  BY SMT, <1>1 DEF Holds
<1>2. \E main, public : Holds(main, public)
  BY DEF Init, Fresh, Legacy
<1> QED
  BY <1>1, <1>2, LockInit DEF Init

\* The Data maps that createctconfig passes.
LEMMA CTMaps ==
    /\ \A c, enc : IsMap(MarshalConfig(c, enc)) /\ IsMap(WithoutKeys(MarshalConfig(c, enc)))
    /\ \A k : IsMap([public |-> k])
<1>1. \A a, b : IsMap(With(a, b))
  BY DEF With, IsMap
<1>2. \A m : IsMap(WithoutKeys(m))
  BY DEF WithoutKeys, Restrict, IsMap
<1>3. \A k : IsMap([public |-> k])
  BY SMT DEF IsMap
<1> QED
  BY <1>1, <1>2, <1>3 DEF MarshalConfig

\* Every step keeps the lock, and a step that changes a secret is a patch.
LEMMA CTLockNext ==
    ASSUME CTInv, CallLock, [Next]_vars
    PROVE  CallLock' /\ OnlyPatches
<1>t. CallTypes /\ CTSecret \in Names /\ CTPubSecret \in Names
  BY CTNames, TypesSplit DEF CTInv, PodTypes
<1>1. ASSUME UNCHANGED <<secrets, rev, at, arg, seen>> PROVE CallLock' /\ OnlyPatches
  BY <1>1, LockStays DEF OnlyPatches
<1>i. ASSUME NEW p \in Procs, NEW n \in Names, NEW d, IsMap(d), Invoke(p, n, d)
      PROVE  CallLock' /\ OnlyPatches
  BY <1>t, <1>i, LockInvoke DEF Invoke, OnlyPatches
<1>2. ASSUME NEW p \in Procs, ReadTree(p) \/ FetchRoot(p) PROVE CallLock' /\ OnlyPatches
  BY <1>1, <1>2 DEF ReadTree, FetchRoot, reconcileVars
<1>3. ASSUME NEW p \in Procs, CreateConfig(p) PROVE CallLock' /\ OnlyPatches
  BY <1>3, <1>i, <1>t, CTMaps DEF CreateConfig
<1>4. ASSUME NEW p \in Procs, UpdateConfig(p) PROVE CallLock' /\ OnlyPatches
  BY <1>4, <1>i, <1>t, CTMaps DEF UpdateConfig
<1>5. ASSUME NEW p \in Procs, PublishKey(p) PROVE CallLock' /\ OnlyPatches
  BY <1>5, <1>i, <1>t, CTMaps DEF PublishKey
<1>6. ASSUME NEW p \in Procs, Finish(p) \/ Fail(p) \/ CTDie(p) \/ Rerun(p)
      PROVE  CallLock' /\ OnlyPatches
  <2>1. Reset(p)
    BY <1>6 DEF Finish, Fail, CTDie, Rerun, Restart
  <2> QED
    BY <1>t, <2>1, LockReset DEF Reset, OnlyPatches
<1>7. ASSUME NEW p \in Procs, CallStep(p) PROVE CallLock' /\ OnlyPatches
  BY <1>7, <1>t, LockedStep DEF OnlyPatches
<1>8. CASE TreePart \/ RotateFulcio \/ UNCHANGED vars
  BY <1>1, <1>8 DEF TreePart, RotateFulcio, vars, reconcileVars
<1> QED
  BY <1>2, <1>3, <1>4, <1>5, <1>6, <1>7, <1>8, StepCases DEF PodStep

\* The invariant behind it: no pod holds a version that is yet to be given out.
LEMMA CTLockInductive == Spec => [](CTInv /\ CallLock)
<1>1. CTInv /\ CallLock /\ [Next]_vars => CTInv' /\ CallLock'
  BY CTNextInv, CTLockNext
<1> QED
  BY <1>1, CTInitInv, CTLockInit, PTL DEF Spec

\* However many pods of createctconfig overlap, the secrets change only by one
\* call's data being merged into what its secret holds at that moment.
THEOREM SetupWritesArePatches == Spec => [][OnlyPatches]_vars
<1>1. CTInv /\ CallLock /\ [Next]_vars => [OnlyPatches]_vars
  BY CTLockNext
<1> QED
  BY <1>1, CTLockInductive, PTL DEF Spec

\* So no file of the CT log's secret is ever removed, whoever has written it.
THEOREM SetupEntriesStay == Spec => [][EntriesStay]_vars
<1>1. CTInv /\ CallLock /\ [Next]_vars => [EntriesStay]_vars
  BY CTLockNext, PatchesRemoveNothing, TypesSplit DEF CTInv, PodTypes
<1> QED
  BY <1>1, CTLockInductive, PTL DEF Spec

=============================================================================
