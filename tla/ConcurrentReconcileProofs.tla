--------------------- MODULE ConcurrentReconcileProofs ---------------------
(***************************************************************************)
(* Proofs about ReconcileSecret for any set of processes, secrets, keys,   *)
(* values and data maps, and any number of edits and faults.               *)
(***************************************************************************)
EXTENDS ConcurrentReconcile, TLAPS

\* Most steps are for Zenon; those that need arithmetic or the theory of
\* functions say so.
USE ZenonT(20)

\* The empty map is a data map.
LEMMA NothingIsMap == Nothing \in Maps
<1>1. Nothing \in [{} -> Values]
  BY DEF Nothing
<1> QED
  BY <1>1 DEF Maps

\* Patching a data map gives a data map (the loop of ReconcileSecret only
\* assigns values of data to keys of data).
LEMMA MergeIsMap ==
    ASSUME NEW old \in Maps, NEW new \in Maps
    PROVE  Merge(old, new) \in Maps
<1>1. PICK K \in SUBSET Keys : old \in [K -> Values]
  BY DEF Maps
<1>2. PICK L \in SUBSET Keys : new \in [L -> Values]
  BY DEF Maps
<1>3. Merge(old, new) \in [K \cup L -> Values]
  BY <1>1, <1>2 DEF Merge
<1>4. K \cup L \in SUBSET Keys
  BY <1>1, <1>2
<1> QED
  BY <1>3, <1>4 DEF Maps

\* Patching the empty map gives the data itself: Create is a patch too.
LEMMA MergeIntoNothing ==
    ASSUME NEW new \in Maps
    PROVE  Merge(Nothing, new) = new
<1>1. PICK L \in SUBSET Keys : new \in [L -> Values]
  BY DEF Maps
<1> QED
  BY <1>1 DEF Merge, Nothing

\* A process outside a call holds well-typed parameters.
LEMMA NoArgType == NoArg \in [name : Names, data : Maps]
  BY NamesAssumption, NothingIsMap DEF NoArg

\* The absent secret is in the range of the store.
LEMMA MissingType == Missing \in Secrets
  BY NothingIsMap DEF Missing, Secrets

\* What callers pass is a data map.
LEMMA DataMapsAreMaps == DataMaps \subseteq Maps
  BY DataMapsAssumption

----------------------------------------------------------------------------
\* The type invariant.

\* The initial states are well typed.
LEMMA InitTypeOK == Init => TypeOK
<1> SUFFICES ASSUME Init PROVE TypeOK
  OBVIOUS
<1>1. secrets \in [Names -> Secrets]
  <2>1. {Missing} \cup [rv : {1}, data : Maps] \subseteq Secrets
    BY SMT, MissingType DEF Secrets
  <2> QED
    BY <2>1 DEF Init
<1> QED
  BY SMT, <1>1, NoArgType, MissingType, FaultsAssumption
  DEF Init, ReconcileInit, TypeOK

\* Every step of a call, an editor or a fault preserves the types.
LEMMA NextTypeOK == TypeOK /\ [Next]_reconcileVars => TypeOK'
<1> SUFFICES ASSUME TypeOK, [Next]_reconcileVars PROVE TypeOK'
  OBVIOUS
<1> USE DEF TypeOK
<1> USE DEF Running, Returned
<1>1. ASSUME NEW p \in Procs, Call(p) PROVE TypeOK'
  BY SMT, <1>1, DataMapsAreMaps DEF Call, Invoke
<1>2. ASSUME NEW p \in Procs, Get(p) PROVE TypeOK'
  <2>1. AfterGet(secrets[arg[p].name], arg[p].data) \in {"create", "ok", "panic", "update"}
    BY DEF AfterGet
  <2> QED
    BY <1>2, <2>1 DEF Get
<1>3. ASSUME NEW p \in Procs, NEW d \in Maps, Commit(p, d), Reply(p) PROVE TypeOK'
  <2>1. [rv |-> rev + 1, data |-> d] \in Secrets
    BY SMT DEF Secrets
  <2>2. faults' \in 0..MaxFaults
    BY SMT, <1>3, FaultsAssumption DEF Reply, Fault
  <2>3. secrets' \in [Names -> Secrets]
    BY <1>3, <2>1 DEF Commit
  <2>4. rev' \in Nat /\ UNCHANGED <<arg, seen>>
    BY SMT, <1>3 DEF Commit
  <2>5. at' \in [Procs -> {"idle"} \cup Running \cup Returned]
    BY <1>3 DEF Reply
  <2> QED
    BY <2>2, <2>3, <2>4, <2>5
<1>4. ASSUME NEW p \in Procs, Create(p) PROVE TypeOK'
  BY <1>3, <1>4 DEF Create
<1>5. ASSUME NEW p \in Procs, Update(p) PROVE TypeOK'
  <2>1. Merge(seen[p].data, arg[p].data) \in Maps
    BY MergeIsMap DEF Secrets
  <2> QED
    BY <1>3, <1>5, <2>1 DEF Update
<1>6. ASSUME NEW p \in Procs, Refused(p) PROVE TypeOK'
  BY <1>6 DEF Refused
<1>7. ASSUME NEW p \in Procs, RequestFails(p) PROVE TypeOK'
  BY SMT, <1>7, FaultsAssumption DEF RequestFails, Fault
<1>8. ASSUME NEW p \in Procs, Return(p) PROVE TypeOK'
  BY <1>8, NoArgType, MissingType DEF Return, Reset
<1>9. ASSUME NEW p \in Procs, Die(p) PROVE TypeOK'
  BY SMT, <1>9, NoArgType, MissingType, FaultsAssumption DEF Die, Reset, Fault
<1>10. ASSUME NEW n \in Names, Edit(n) PROVE TypeOK'
  <2>1. \A d \in Maps : [rv |-> rev + 1, data |-> d] \in Secrets
    BY SMT DEF Secrets
  <2>2. secrets' \in [Names -> Secrets]
    BY SMT, <1>10, <2>1, MissingType DEF Edit
  <2> QED
    BY SMT, <1>10, <2>2 DEF Edit
<1>11. CASE UNCHANGED reconcileVars
  BY <1>11 DEF reconcileVars
<1> QED
  BY <1>1, <1>2, <1>4, <1>5, <1>6, <1>7, <1>8, <1>9, <1>10, <1>11 DEF Next, ReconcileStep

\* The state of the store and of the calls stays well typed, whatever the
\* callers, the editors and the faults do.
THEOREM TypeCorrect == Spec => []TypeOK
  BY InitTypeOK, NextTypeOK, PTL DEF Spec

----------------------------------------------------------------------------
\* The optimistic lock.

\* No call is running at first, so there is no snapshot to be stale.
LEMMA InitIInv == Init => IInv
<1> SUFFICES ASSUME Init PROVE IInv
  OBVIOUS
<1>1. TypeOK
  BY InitTypeOK
<1>2. VersionsAreFresh
  BY SMT DEF Init, ReconcileInit, VersionsAreFresh, Missing
<1>3. SnapshotIsCurrent
  BY DEF Init, ReconcileInit, SnapshotIsCurrent
<1> QED
  BY <1>1, <1>2, <1>3 DEF IInv

\* A step by which p leaves the store alone and at most drops its own call or
\* moves it to a state other than "update" preserves the invariant.
LEMMA QuietStep ==
    ASSUME IInv, TypeOK', NEW p \in Procs,
           UNCHANGED <<secrets, rev>>,
           \A q \in Procs \ {p} : at'[q] = at[q] /\ arg'[q] = arg[q] /\ seen'[q] = seen[q],
           at'[p] # "update",
           seen'[p] \in {seen[p], Missing, secrets[arg[p].name]}
    PROVE  IInv'
<1> USE DEF IInv
<1>1. VersionsAreFresh'
  <2>1. Missing.rv <= rev /\ arg[p].name \in Names
    BY SMT DEF Missing, TypeOK
  <2>2. \A q \in Procs : seen'[q].rv <= rev /\ (seen'[q].rv = 0 => seen'[q] = Missing)
    BY <2>1 DEF VersionsAreFresh
  <2> QED
    BY <2>2 DEF VersionsAreFresh
<1>2. SnapshotIsCurrent'
  BY SMT DEF SnapshotIsCurrent, TypeOK
<1> QED
  BY <1>1, <1>2

\* A write that the API server accepts, of a call or of another client, gets a
\* resourceVersion nobody has seen, so every snapshot of that secret is stale.
LEMMA WriteStep ==
    ASSUME IInv, TypeOK', NEW n \in Names,
           rev' = rev + 1,
           secrets'[n].rv = rev + 1 \/ secrets'[n] = Missing,
           \A m \in Names \ {n} : secrets'[m] = secrets[m],
           UNCHANGED <<arg, seen>>,
           \A q \in Procs : at'[q] = "update" => at[q] = "update"
    PROVE  IInv'
<1> USE DEF IInv
<1>1. VersionsAreFresh'
  <2>1. \A q \in Procs : seen[q].rv <= rev + 1 /\ (seen[q].rv = 0 => seen[q] = Missing)
    BY SMT DEF VersionsAreFresh, TypeOK, Secrets
  <2>2. \A m \in Names \ {n} :
           secrets[m].rv <= rev + 1 /\ (secrets[m].rv = 0 => secrets[m] = Missing)
    BY SMT DEF VersionsAreFresh, TypeOK, Secrets
  <2>3. secrets'[n].rv <= rev + 1 /\ (secrets'[n].rv = 0 => secrets'[n] = Missing)
    BY SMT DEF TypeOK, Secrets, Missing
  <2> QED
    BY <2>1, <2>2, <2>3 DEF VersionsAreFresh
<1>2. SnapshotIsCurrent'
  <2> SUFFICES ASSUME NEW q \in Procs, at'[q] = "update"
               PROVE  /\ seen[q] # Missing
                      /\ secrets'[arg[q].name].rv = seen[q].rv => secrets'[arg[q].name] = seen[q]
    BY DEF SnapshotIsCurrent
  <2>1. seen[q] # Missing /\ seen[q].rv # 0 /\ seen[q].rv <= rev
    BY DEF SnapshotIsCurrent, VersionsAreFresh
  <2>2. CASE arg[q].name = n
    <3>1. secrets'[n].rv # seen[q].rv
      BY SMT, <2>1 DEF TypeOK, Secrets, Missing
    <3> QED
      BY <2>1, <2>2, <3>1
  <2>3. CASE arg[q].name # n
    BY <2>1, <2>3 DEF TypeOK, SnapshotIsCurrent
  <2> QED
    BY <2>2, <2>3
<1> QED
  BY <1>1, <1>2

\* The steps of a call are quiet steps or writes; Get takes a current snapshot.
LEMMA NextIInv == IInv /\ [Next]_reconcileVars => IInv'
<1> SUFFICES ASSUME IInv, [Next]_reconcileVars PROVE IInv'
  OBVIOUS
<1>t. TypeOK /\ TypeOK'
  BY NextTypeOK DEF IInv
<1>1. ASSUME NEW p \in Procs, Call(p) PROVE IInv'
  BY <1>1, <1>t, QuietStep DEF Call, Invoke, TypeOK
<1>2. ASSUME NEW p \in Procs, Get(p) PROVE IInv'
  <2>1. CASE at'[p] # "update"
    BY <1>2, <1>t, <2>1, QuietStep DEF Get, TypeOK
  <2>2. CASE at'[p] = "update"
    <3>1. secrets[arg[p].name] # Missing
      BY <1>2, <1>t, <2>2 DEF Get, AfterGet, TypeOK
    <3>2. VersionsAreFresh'
      BY <1>2, <1>t DEF Get, IInv, VersionsAreFresh, TypeOK
    <3>3. SnapshotIsCurrent'
      BY <1>2, <1>t, <3>1 DEF Get, IInv, SnapshotIsCurrent, TypeOK
    <3> QED
      BY <1>t, <3>2, <3>3 DEF IInv
  <2> QED
    BY <2>1, <2>2
<1>3. ASSUME NEW p \in Procs, NEW d, Commit(p, d), Reply(p) PROVE IInv'
  <2>1. arg[p].name \in Names
    BY <1>t DEF TypeOK
  <2>2. secrets'[arg[p].name].rv = rev + 1
    BY <1>3, <1>t DEF Commit, TypeOK
  <2>3. \A q \in Procs : at'[q] = "update" => at[q] = "update"
    BY <1>3, <1>t DEF Reply, TypeOK
  <2> QED
    BY <1>3, <1>t, <2>1, <2>2, <2>3, WriteStep DEF Commit, TypeOK
<1>4. ASSUME NEW p \in Procs, Create(p) PROVE IInv'
  BY <1>3, <1>4 DEF Create
<1>5. ASSUME NEW p \in Procs, Update(p) PROVE IInv'
  BY <1>3, <1>5 DEF Update
<1>6. ASSUME NEW p \in Procs, Refused(p) PROVE IInv'
  BY <1>6, <1>t, QuietStep DEF Refused, TypeOK
<1>7. ASSUME NEW p \in Procs, RequestFails(p) PROVE IInv'
  BY <1>7, <1>t, QuietStep DEF RequestFails, TypeOK
<1>8. ASSUME NEW p \in Procs, Return(p) PROVE IInv'
  BY <1>8, <1>t, QuietStep DEF Return, Reset, TypeOK
<1>9. ASSUME NEW p \in Procs, Die(p) PROVE IInv'
  BY <1>9, <1>t, QuietStep DEF Die, Reset, TypeOK
<1>10. ASSUME NEW n \in Names, Edit(n) PROVE IInv'
  <2>1. secrets'[n].rv = rev + 1 \/ secrets'[n] = Missing
    BY SMT, <1>10, <1>t DEF Edit, TypeOK
  <2> QED
    BY <1>10, <1>t, <2>1, WriteStep DEF Edit, TypeOK
<1>11. CASE UNCHANGED reconcileVars
  BY <1>11, <1>t DEF reconcileVars, IInv, VersionsAreFresh, SnapshotIsCurrent
<1> QED
  BY <1>1, <1>2, <1>4, <1>5, <1>6, <1>7, <1>8, <1>9, <1>10, <1>11 DEF Next, ReconcileStep

\* resourceVersions are fresh and snapshots with the current one are current:
\* the inductive invariant of ReconcileSecret's Get and Update.
THEOREM Inductive == Spec => []IInv
  BY InitIInv, NextIInv, PTL DEF Spec

\* A call whose resourceVersion is still the current one holds the current
\* data: the optimistic lock of ReconcileSecret works.
THEOREM SnapshotsAreCurrent == Spec => []SnapshotIsCurrent
  BY Inductive, PTL DEF IInv

----------------------------------------------------------------------------
\* What a write may change.

\* A patch leaves the keys that data does not name as they were.
LEMMA MergeKeepsOthers ==
    ASSUME NEW old, NEW new, NEW k, k \notin DOMAIN new
    PROVE  /\ k \in DOMAIN old <=> k \in DOMAIN Merge(old, new)
           /\ k \in DOMAIN old => Merge(old, new)[k] = old[k]
  BY DEF Merge

\* Any step by which a call leaves its write leaves the other keys alone.
LEMMA StepKeepsOthers ==
    ASSUME IInv, [Next]_reconcileVars,
           NEW p \in Procs, at[p] \in {"create", "update"}, at'[p] # at[p],
           NEW k \in Keys \ DOMAIN arg[p].data
    PROVE  LET old == secrets[arg[p].name].data
               new == secrets'[arg[p].name].data
           IN  /\ k \in DOMAIN old <=> k \in DOMAIN new
               /\ k \in DOMAIN old => new[k] = old[k]
<1> DEFINE n == arg[p].name
<1>t. TypeOK /\ n \in Names /\ arg[p].data \in Maps
  BY DEF IInv, TypeOK
<1>m. \A old : /\ k \in DOMAIN old <=> k \in DOMAIN Merge(old, arg[p].data)
               /\ k \in DOMAIN old => Merge(old, arg[p].data)[k] = old[k]
  BY SMT, MergeKeepsOthers
<1>0. CASE UNCHANGED secrets
  BY <1>0
<1>2. CASE Create(p)
  <2>1. secrets'[n].data = Merge(secrets[n].data, arg[p].data)
    BY SMT, <1>2, <1>t, MergeIntoNothing DEF Create, Commit, TypeOK, Missing
  <2> QED
    BY <1>m, <2>1
<1>3. CASE Update(p)
  <2>1. secrets[n] = seen[p]
    BY <1>3, <1>t DEF Update, IInv, SnapshotIsCurrent
  <2>2. secrets'[n].data = Merge(secrets[n].data, arg[p].data)
    BY <1>3, <1>t, <2>1 DEF Update, Commit, TypeOK
  <2> QED
    BY <1>m, <2>2
<1>4. ASSUME NEW q \in Procs, q # p, Create(q) \/ Update(q) PROVE FALSE
  BY <1>4, <1>t DEF Create, Update, Reply, TypeOK
<1>5. ASSUME NEW m \in Names, Edit(m) PROVE FALSE
  BY <1>5 DEF Edit
<1>6. \/ UNCHANGED secrets
      \/ \E q \in Procs : Create(q) \/ Update(q)
      \/ \E m \in Names : Edit(m)
  BY DEF Next, ReconcileStep, reconcileVars, Call, Invoke, Get, Refused, RequestFails,
         Return, Die, Reset
<1> QED
  BY <1>0, <1>2, <1>3, <1>4, <1>5, <1>6

\* "If the secret contains other keys, we do not check / delete / update
\* those": no write of a call touches a key outside its data map, for any
\* interleaving with other writers.
THEOREM OtherKeysAreUntouched == Spec => OtherKeysUntouched
<1>1. IInv /\ [Next]_reconcileVars =>
        [\A p \in Procs :
          at[p] \in {"create", "update"} /\ at'[p] # at[p] =>
              LET old == secrets[arg[p].name].data
                  new == secrets'[arg[p].name].data
              IN  \A k \in Keys \ DOMAIN arg[p].data :
                     /\ k \in DOMAIN old <=> k \in DOMAIN new
                     /\ k \in DOMAIN old => new[k] = old[k]]_reconcileVars
  BY StepKeepsOthers
<1> QED
  BY <1>1, Inductive, PTL DEF Spec, OtherKeysUntouched

----------------------------------------------------------------------------
\* Refinement: the calls implement atomic patches.

\* Initial states map to initial states.
LEMMA InitRefines == Init => Atomic!Init
<1> SUFFICES ASSUME Init PROVE Atomic!Init
  OBVIOUS
<1> DEFINE content == [n \in Names |-> [is |-> Presence(secrets[n]), data |-> secrets[n].data]]
<1>1. ASSUME NEW n \in Names
      PROVE  content[n] \in {[is |-> "absent", data |-> Nothing]} \cup [is : {"present"}, data : Maps]
  <2>1. CASE secrets[n] = Missing
    BY SMT, <2>1 DEF Missing, Presence
  <2>2. CASE secrets[n] # Missing
    <3>1. secrets[n].data \in Maps
      BY <2>2 DEF Init
    <3> QED
      BY <2>2, <3>1 DEF Presence
  <2> QED
    BY <2>1, <2>2
<1>2. content \in [Names -> {[is |-> "absent", data |-> Nothing]} \cup [is : {"present"}, data : Maps]]
  BY <1>1
<1>3. [p \in Procs |-> IF at[p] \in Running THEN "pending" ELSE at[p]] = [p \in Procs |-> "idle"]
  BY DEF Init, ReconcileInit, Running
<1>4. arg \in [Procs -> [name : Names, data : Maps]]
  BY NoArgType DEF Init, ReconcileInit
<1> QED
  BY <1>2, <1>3, <1>4 DEF Atomic!Init

\* The step of a call on the abstract level depends only on where the call
\* stood and where it goes.
LEMMA NextRefines == IInv /\ [Next]_reconcileVars => [Atomic!Next]_Atomic!vars
<1> SUFFICES ASSUME IInv, [Next]_reconcileVars PROVE [Atomic!Next]_Atomic!vars
  OBVIOUS
<1> DEFINE Content(ss) == [n \in Names |-> [is |-> Presence(ss[n]), data |-> ss[n].data]]
           Op(aa) == [p \in Procs |-> IF aa[p] \in Running THEN "pending" ELSE aa[p]]
<1> USE DEF Running, Returned
<1>t. TypeOK
  BY DEF IInv
<1>1. ASSUME NEW p \in Procs, NEW v, v \notin Running,
             at' = [at EXCEPT ![p] = v]
      PROVE  Op(at') = [Op(at) EXCEPT ![p] = v]
  BY <1>1, <1>t DEF TypeOK
<1>2. ASSUME NEW p \in Procs, Call(p) PROVE Atomic!Begin(p)
  <2>1. PICK n \in Names, d \in DataMaps : Invoke(p, n, d)
    BY <1>2 DEF Call
  <2>2. Op(at)[p] = "idle" /\ Op(at') = [Op(at) EXCEPT ![p] = "pending"]
    BY <1>2, <2>1, <1>t DEF Call, Invoke, TypeOK
  <2>3. arg' = [arg EXCEPT ![p] = [name |-> n, data |-> d]] /\ d \in Maps
    BY <2>1, DataMapsAreMaps DEF Invoke
  <2>4. Content(secrets') = Content(secrets)
    BY <2>1 DEF Invoke
  <2> QED
    BY <2>2, <2>3, <2>4 DEF Atomic!Begin
<1>3. ASSUME NEW p \in Procs, at[p] \in Running, NEW d, NEW r \in {"ok", "err"},
             d = Merge(secrets[arg[p].name].data, arg[p].data),
             secrets' = [secrets EXCEPT ![arg[p].name] = [rv |-> rev + 1, data |-> d]],
             at' = [at EXCEPT ![p] = r], UNCHANGED arg
      PROVE  Atomic!Apply(p)
  <2>1. Op(at)[p] = "pending" /\ Op(at') = [Op(at) EXCEPT ![p] = r]
    BY <1>1, <1>3
  <2>2. Content(secrets') = [Content(secrets) EXCEPT ![arg[p].name] =
                                [is |-> "present", data |-> Merge(@.data, arg[p].data)]]
    BY SMT, <1>3, <1>t DEF TypeOK, Missing, Presence
  <2> QED
    BY <1>3, <2>1, <2>2 DEF Atomic!Apply
<1>4. ASSUME NEW p \in Procs, Create(p) PROVE Atomic!Apply(p)
  <2>1. arg[p].data = Merge(secrets[arg[p].name].data, arg[p].data)
    BY SMT, <1>4, <1>t, MergeIntoNothing DEF Create, TypeOK, Missing
  <2> QED
    BY <1>3, <1>4, <2>1 DEF Create, Commit, Reply
<1>5. ASSUME NEW p \in Procs, Update(p) PROVE Atomic!Apply(p)
  <2>1. secrets[arg[p].name] = seen[p]
    BY <1>5 DEF Update, IInv, SnapshotIsCurrent
  <2> QED
    BY <1>3, <1>5, <2>1 DEF Update, Commit, Reply
<1>6. ASSUME NEW p \in Procs, at[p] \in Running, NEW r \in {"err", "panic"},
             at' = [at EXCEPT ![p] = r], UNCHANGED <<secrets, arg>>
      PROVE  Atomic!Abort(p)
  <2>1. Op(at)[p] = "pending" /\ Op(at') = [Op(at) EXCEPT ![p] = r]
    BY <1>1, <1>6
  <2> QED
    BY <1>6, <2>1 DEF Atomic!Abort
<1>7. ASSUME NEW p \in Procs, Get(p)
      PROVE  Atomic!Apply(p) \/ Atomic!Abort(p) \/ UNCHANGED Atomic!vars
  <2> DEFINE s == secrets[arg[p].name]
  <2>1. at' = [at EXCEPT ![p] = AfterGet(s, arg[p].data)] /\ UNCHANGED <<secrets, arg>>
    BY <1>7 DEF Get
  <2>2. CASE AfterGet(s, arg[p].data) \in {"create", "update"}
    <3>1. Op(at') = Op(at)
      BY <1>7, <2>1, <2>2, <1>t DEF Get, TypeOK
    <3> QED
      BY <2>1, <3>1 DEF Atomic!vars
  <2>3. CASE AfterGet(s, arg[p].data) = "ok"
    <3>1. s # Missing /\ Merge(s.data, arg[p].data) = s.data
      BY <2>3 DEF AfterGet
    <3>2. Op(at)[p] = "pending" /\ Op(at') = [Op(at) EXCEPT ![p] = "ok"]
      BY <1>1, <1>7, <2>1, <2>3 DEF Get
    <3>3. Content(secrets') = [Content(secrets) EXCEPT ![arg[p].name] =
                                [is |-> "present", data |-> Merge(@.data, arg[p].data)]]
      BY <2>1, <3>1, <1>t DEF TypeOK, Presence
    <3> QED
      BY <2>1, <3>2, <3>3 DEF Atomic!Apply
  <2>4. CASE AfterGet(s, arg[p].data) = "panic"
    BY <1>6, <1>7, <2>1, <2>4 DEF Get
  <2> QED
    BY <2>2, <2>3, <2>4 DEF AfterGet
<1>8. ASSUME NEW p \in Procs, Refused(p) PROVE Atomic!Abort(p)
  BY <1>6, <1>8 DEF Refused
<1>9. ASSUME NEW p \in Procs, RequestFails(p) PROVE Atomic!Abort(p)
  BY <1>6, <1>9 DEF RequestFails
<1>10. ASSUME NEW p \in Procs, Reset(p) PROVE Atomic!End(p)
  <2>1. Op(at') = [Op(at) EXCEPT ![p] = "idle"]
    BY <1>1, <1>10 DEF Reset
  <2> QED
    BY <1>10, <2>1, NoArgType DEF Reset, Atomic!End
<1>11. ASSUME NEW n \in Names, Edit(n) PROVE Atomic!Outside(n)
  <2>1. ASSUME NEW d \in Maps, secrets' = [secrets EXCEPT ![n] = [rv |-> rev + 1, data |-> d]]
        PROVE  Content(secrets') = [Content(secrets) EXCEPT ![n] = [is |-> "present", data |-> d]]
    <3>1. [rv |-> rev + 1, data |-> d] # Missing
      BY SMT, <1>t DEF TypeOK, Missing
    <3> QED
      BY <2>1, <3>1, <1>t DEF TypeOK, Presence
  <2>2. ASSUME secrets' = [secrets EXCEPT ![n] = Missing]
        PROVE  Content(secrets') = [Content(secrets) EXCEPT ![n] = [is |-> "absent", data |-> Nothing]]
    BY <2>2, <1>t DEF TypeOK, Missing, Presence
  <2>3. Op(at') = Op(at) /\ UNCHANGED arg
    BY <1>11 DEF Edit
  <2> QED
    BY <1>11, <2>1, <2>2, <2>3 DEF Edit, Atomic!Outside
<1>12. CASE UNCHANGED reconcileVars
  BY <1>12 DEF reconcileVars, Atomic!vars
<1> QED
  BY <1>2, <1>4, <1>5, <1>7, <1>8, <1>9, <1>10, <1>11, <1>12
  DEF Next, ReconcileStep, Return, Die, Atomic!Next

\* Get-compare-Update of ReconcileSecret implements an atomic patch of the
\* secret, for any number of concurrent callers, editors, deletions and faults.
THEOREM RefinesAtomicPatch == Spec => AtomicPatch
  BY InitRefines, NextRefines, Inductive, PTL DEF Spec, AtomicPatch, Atomic!Spec

============================================================================
