----------------------- MODULE SecretReconcileProofs -----------------------
(***************************************************************************)
(* What the jobs rely on when they call ReconcileSecret, as lemmas about   *)
(* the single steps of a call: which variables a step leaves alone, what   *)
(* it writes, what the secret holds when the call has succeeded, and that  *)
(* a write is a patch of what the secret holds at that moment.             *)
(***************************************************************************)
EXTENDS SecretReconcile, TLAPS

Ats == {"idle", "get", "create", "update", "ok", "err", "panic"}

\* The variables of the calls are functions with the right domains.
CallTypes ==
    /\ at \in [Procs -> Ats]
    /\ arg = [p \in Procs |-> arg[p]]
    /\ seen = [p \in Procs |-> seen[p]]
    /\ secrets = [n \in Names |-> secrets[n]]

\* A step of a call, or its failure.
CallStep(p) == ReconcileStep(p) \/ RequestFails(p)

\* No step of a call touches what belongs to other processes.
CallFrame(p) ==
    /\ at[p] \in Running
    /\ at'[p] \in Ats \ {"idle", "get"}
    /\ arg' = arg
    /\ \A q \in Procs \ {p} : at'[q] = at[q] /\ seen'[q] = seen[q]
    /\ at'[p] = "update" => seen'[p] = secrets[arg[p].name] /\ seen'[p] # Missing
    /\ at'[p] \in {"create", "update", "panic"} => secrets' = secrets /\ at[p] = "get"
    /\ \A n \in Names \ {arg[p].name} : secrets'[n] = secrets[n]

\* The data of the call, written whole: the caller passes every key that the
\* secret may hold.
CallWrites(p) ==
    /\ \/ secrets' = secrets
       \/ /\ at'[p] \in {"ok", "err"}
          /\ secrets' = [secrets EXCEPT ![arg[p].name] = [rv |-> rev + 1, data |-> arg[p].data]]
    /\ at'[p] = "ok" => secrets'[arg[p].name].data = arg[p].data

Covers(p) ==
    LET d == arg[p].data
    IN  /\ arg[p].name \in Names
        /\ d = [k \in DOMAIN d |-> d[k]]
        /\ DOMAIN secrets[arg[p].name].data \subseteq DOMAIN d
        /\ at[p] = "update" => DOMAIN seen[p].data \subseteq DOMAIN d

----------------------------------------------------------------------------

\* Where no call moves, the types stay.
LEMMA CallsStay ==
    ASSUME CallTypes, UNCHANGED <<at, arg, seen, secrets>>
    PROVE  CallTypes'
BY DEF CallTypes

\* A map whose keys include those of old replaces it.
LEMMA MergeCovers ==
    ASSUME NEW old, NEW new, DOMAIN old \subseteq DOMAIN new,
           new = [k \in DOMAIN new |-> new[k]]
    PROVE  Merge(old, new) = new
BY DEF Merge

\* The outcomes of the Get of a call.
LEMMA AfterGetCases ==
    ASSUME NEW s, NEW d
    PROVE  /\ AfterGet(s, d) \in {"create", "ok", "panic", "update"}
           /\ AfterGet(s, d) = "create" <=> s = Missing
           /\ AfterGet(s, d) = "ok" => Merge(s.data, d) = s.data
BY DEF AfterGet

\* Every step of a call stays within the frame and keeps the types.
LEMMA CallStaysInFrame ==
    ASSUME CallTypes, NEW p \in Procs, CallStep(p)
    PROVE  CallFrame(p) /\ CallTypes'
<1> DEFINE n == arg[p].name
           d == arg[p].data
<1> HIDE DEF n, d
<1>1. CASE Get(p)
  <2>1. /\ at[p] = "get"
        /\ at' = [at EXCEPT ![p] = AfterGet(secrets[n], d)]
        /\ seen' = [seen EXCEPT ![p] = secrets[n]]
        /\ UNCHANGED <<secrets, arg>>
    BY <1>1 DEF Get, n, d
  <2>2. /\ AfterGet(secrets[n], d) \in {"create", "ok", "panic", "update"}
        /\ AfterGet(secrets[n], d) = "create" <=> secrets[n] = Missing
    BY AfterGetCases
  <2> QED
    BY <2>1, <2>2 DEF CallFrame, CallTypes, Ats, Running, n
<1>2. ASSUME NEW w, at[p] \in {"create", "update"}, Commit(p, w), Reply(p)
      PROVE  CallFrame(p) /\ CallTypes'
  <2>1. /\ secrets' = [m \in Names |-> secrets'[m]]
        /\ \A m \in Names \ {n} : secrets'[m] = secrets[m]
        /\ UNCHANGED <<arg, seen>>
    BY <1>2 DEF Commit, CallTypes, n
  <2>2. /\ at'[p] \in {"ok", "err"} /\ at' \in [Procs -> Ats]
        /\ \A q \in Procs \ {p} : at'[q] = at[q]
    BY <1>2 DEF Reply, CallTypes, Ats
  <2> QED
    BY <1>2, <2>1, <2>2 DEF CallFrame, CallTypes, Ats, Running, n
<1>3. CASE Create(p) \/ Update(p)
  BY <1>2, <1>3 DEF Create, Update
<1>4. CASE Refused(p) \/ RequestFails(p)
  <2>1. /\ at[p] \in Running
        /\ at' = [at EXCEPT ![p] = "err"]
        /\ UNCHANGED <<secrets, arg, seen>>
    BY <1>4 DEF Refused, RequestFails, Running
  <2> QED
    BY <2>1 DEF CallFrame, CallTypes, Ats, Running
<1> QED
  BY <1>1, <1>3, <1>4 DEF CallStep, ReconcileStep

\* A call whose data covers the secret writes exactly its data, and the secret
\* holds just that when the call succeeds, whether it was written or found.
LEMMA CoveringCall ==
    ASSUME CallTypes, NEW p \in Procs, CallStep(p), Covers(p)
    PROVE  CallWrites(p)
<1> DEFINE n == arg[p].name
           d == arg[p].data
<1>1. n \in Names /\ \A old : DOMAIN old \subseteq DOMAIN d => Merge(old, d) = d
  BY MergeCovers DEF Covers
<1>2. /\ Merge(secrets[n].data, d) = d
      /\ at[p] = "update" => Merge(seen[p].data, d) = d
  BY <1>1 DEF Covers
<1> HIDE DEF n, d
<1>3. CASE Get(p)
  <2>1. at'[p] = AfterGet(secrets[n], d) /\ secrets' = secrets
    BY <1>3 DEF Get, CallTypes, n, d
  <2> QED
    BY <1>2, <2>1, AfterGetCases DEF CallWrites, n, d
<1>4. ASSUME Commit(p, d), Reply(p) PROVE CallWrites(p)
  <2>1. /\ secrets' = [secrets EXCEPT ![n] = [rv |-> rev + 1, data |-> d]]
        /\ secrets'[n].data = d
    BY <1>1, <1>4 DEF Commit, CallTypes, n
  <2>2. at'[p] \in {"ok", "err"}
    BY <1>4 DEF Reply, CallTypes
  <2> QED
    BY <2>1, <2>2 DEF CallWrites, n, d
<1>5. CASE Create(p)
  BY <1>4, <1>5 DEF Create, d
<1>6. CASE Update(p)
  BY <1>2, <1>4, <1>6 DEF Update, d
<1>7. CASE Refused(p) \/ RequestFails(p)
  BY <1>7 DEF Refused, RequestFails, CallWrites, CallTypes
<1> QED
  BY <1>3, <1>5, <1>6, <1>7 DEF CallStep, ReconcileStep

\* What a step of a call does to its secret: nothing (and it reports success
\* only if the secret has all of the data), a Create or an Update.
CallUnchanged(p) ==
    /\ secrets' = secrets
    /\ at'[p] = "ok" =>
          Merge(secrets[arg[p].name].data, arg[p].data) = secrets[arg[p].name].data

CallCreates(p) ==
    /\ at[p] = "create" /\ at'[p] \in {"ok", "err"}
    /\ secrets[arg[p].name] = Missing
    /\ secrets'[arg[p].name].data = arg[p].data

CallUpdates(p) ==
    /\ at[p] = "update" /\ at'[p] \in {"ok", "err"}
    /\ secrets[arg[p].name].rv = seen[p].rv
    /\ secrets'[arg[p].name].data = Merge(seen[p].data, arg[p].data)

LEMMA CallOutcomes ==
    ASSUME CallTypes, NEW p \in Procs, CallStep(p), arg[p].name \in Names
    PROVE  CallUnchanged(p) \/ CallCreates(p) \/ CallUpdates(p)
<1> DEFINE n == arg[p].name
           d == arg[p].data
<1>1. n \in Names
  OBVIOUS
<1> HIDE DEF n, d
<1>2. CASE Get(p)
  <2>1. at'[p] = AfterGet(secrets[n], d) /\ secrets' = secrets
    BY <1>2 DEF Get, CallTypes, n, d
  <2> QED
    BY <2>1, AfterGetCases DEF CallUnchanged, n, d
<1>3. ASSUME NEW w, Commit(p, w), Reply(p)
      PROVE  secrets'[n].data = w /\ at'[p] \in {"ok", "err"}
  <2>1. secrets' = [secrets EXCEPT ![n] = [rv |-> rev + 1, data |-> w]]
    BY <1>3 DEF Commit, n
  <2>2. secrets'[n].data = w
    BY <1>1, <2>1 DEF CallTypes
  <2>3. at'[p] \in {"ok", "err"}
    BY <1>3 DEF Reply, CallTypes
  <2> QED
    BY <2>2, <2>3
<1>4. CASE Create(p)
  BY <1>3, <1>4 DEF Create, CallCreates, n, d
<1>5. CASE Update(p)
  BY <1>3, <1>5 DEF Update, CallUpdates, n, d
<1>6. CASE Refused(p) \/ RequestFails(p)
  BY <1>6 DEF Refused, RequestFails, CallUnchanged, CallTypes
<1> QED
  BY <1>2, <1>4, <1>5, <1>6 DEF CallStep, ReconcileStep

----------------------------------------------------------------------------
\* The optimistic lock, whoever calls.

\* A version that has been given out; only what is missing has none.
Versioned(s) == s.rv \in 0..rev /\ (s.rv = 0 => s = Missing)

IsMap(d) == d = [k \in DOMAIN d |-> d[k]]

\* Nobody holds a version that is yet to be given out, so that an unchanged
\* version means an unchanged secret.
CallLock ==
    /\ rev \in Nat
    /\ \A n \in Names : Versioned(secrets[n])
    /\ \A p \in Procs :
          /\ Versioned(seen[p])
          /\ arg[p].name \in Names /\ IsMap(arg[p].data)
          /\ at[p] = "update" =>
                LET s == secrets[arg[p].name] IN s.rv = seen[p].rv => s = seen[p]

\* One call takes effect at once: its data is merged into what its secret holds
\* at that moment, and no other secret changes.
Patches(p) ==
    secrets' = [secrets EXCEPT ![arg[p].name] =
                   [rv |-> rev + 1, data |-> Merge(@.data, arg[p].data)]]

\* The secrets change by such a patch of one process, or not at all.
OnlyPatches == secrets' = secrets \/ \E p \in Procs : Patches(p)

\* No secret loses an entry.
EntriesStay == \A n \in Names : DOMAIN secrets[n].data \subseteq DOMAIN secrets'[n].data

\* No process has read anything yet.
LEMMA LockInit ==
    ASSUME ReconcileInit, rev = 1,
           \A n \in Names : secrets[n] = Missing \/ secrets[n].rv = 1
    PROVE  CallLock
<1>1. NoArg.name \in Names /\ IsMap(NoArg.data)
  BY NamesAssumption DEF NoArg, Nothing, IsMap
<1>2. Versioned(Missing) /\ \A n \in Names : Versioned(secrets[n])
  BY DEF Versioned, Missing
<1> QED
  BY <1>1, <1>2 DEF CallLock, ReconcileInit

\* Versions stay given out.
LEMMA VersionedStays ==
    ASSUME rev \in Nat, rev' \in {rev, rev + 1}, NEW s, Versioned(s)
    PROVE  Versioned(s)'
BY DEF Versioned, Missing

\* A step of one process that writes nothing.
LEMMA LockOthers ==
    ASSUME CallLock, NEW p \in Procs, UNCHANGED <<secrets, rev>>,
           \A q \in Procs \ {p} : at'[q] = at[q] /\ arg'[q] = arg[q] /\ seen'[q] = seen[q],
           Versioned(seen'[p]), arg'[p].name \in Names, IsMap(arg'[p].data),
           at'[p] = "update" => seen'[p] = secrets[arg'[p].name]
    PROVE  CallLock'
<1>1. \A s : Versioned(s) => Versioned(s)'
  BY DEF Versioned
<1>2. rev' \in Nat /\ \A n \in Names : Versioned(secrets[n])'
  BY <1>1 DEF CallLock
<1>3. ASSUME NEW q \in Procs
      PROVE  /\ Versioned(seen[q])'
             /\ arg'[q].name \in Names /\ IsMap(arg'[q].data)
             /\ at'[q] = "update" =>
                   (secrets'[arg'[q].name].rv = seen'[q].rv => secrets'[arg'[q].name] = seen'[q])
  <2>1. CASE q = p
    BY <1>1, <2>1 DEF Versioned
  <2>2. CASE q # p
    BY <1>1, <2>2 DEF CallLock, Versioned
  <2> QED
    BY <2>1, <2>2
<1> QED
  BY <1>2, <1>3 DEF CallLock, IsMap

\* A process begins a call.
LEMMA LockInvoke ==
    ASSUME CallTypes, CallLock, NEW p \in Procs, NEW n \in Names, NEW d, IsMap(d),
           Invoke(p, n, d)
    PROVE  CallLock'
<1>1. /\ UNCHANGED <<secrets, rev>>
      /\ \A q \in Procs \ {p} : at'[q] = at[q] /\ arg'[q] = arg[q] /\ seen'[q] = seen[q]
      /\ at'[p] = "get" /\ seen'[p] = seen[p]
      /\ arg'[p].name = n /\ arg'[p].data = d
  BY DEF Invoke, CallTypes
<1>2. Versioned(seen'[p])
  BY <1>1 DEF CallLock
<1> QED
  BY <1>1, <1>2, LockOthers

\* A process has ended its call, or dies.
LEMMA LockReset ==
    ASSUME CallTypes, CallLock, NEW p \in Procs, Reset(p)
    PROVE  CallLock'
<1>1. /\ UNCHANGED <<secrets, rev>>
      /\ \A q \in Procs \ {p} : at'[q] = at[q] /\ arg'[q] = arg[q] /\ seen'[q] = seen[q]
      /\ at'[p] = "idle" /\ seen'[p] = Missing /\ arg'[p] = NoArg
  BY DEF Reset, CallTypes
<1>2. NoArg.name \in Names /\ IsMap(NoArg.data)
  BY NamesAssumption DEF NoArg, Nothing, IsMap
<1>3. Versioned(Missing)
  BY DEF Versioned, Missing, CallLock
<1> QED
  BY <1>1, <1>2, <1>3, LockOthers

\* Nothing happens to the secrets or the calls.
LEMMA LockStays ==
    ASSUME CallLock, UNCHANGED <<secrets, rev, at, arg, seen>>
    PROVE  CallLock'
BY DEF CallLock, Versioned

\* The API server accepts the write of a process, whatever it writes.
LEMMA LockCommit ==
    ASSUME CallTypes, CallLock, NEW p \in Procs, NEW d, Commit(p, d), Reply(p)
    PROVE  CallLock'
<1> DEFINE n == arg[p].name
<1>1. /\ secrets' = [secrets EXCEPT ![n] = [rv |-> rev + 1, data |-> d]]
      /\ rev' = rev + 1 /\ UNCHANGED <<arg, seen>>
      /\ n \in Names /\ rev \in Nat
  BY DEF Commit, CallLock
<1> HIDE DEF n
<1>2. /\ secrets'[n] = [rv |-> rev + 1, data |-> d]
      /\ \A m \in Names \ {n} : secrets'[m] = secrets[m]
  BY <1>1 DEF CallTypes
<1>3. at'[p] # "update" /\ \A q \in Procs \ {p} : at'[q] = at[q]
  BY DEF Reply, CallTypes
<1>4. \A s : Versioned(s) => Versioned(s)'
  BY <1>1, VersionedStays
<1>5. ASSUME NEW m \in Names PROVE Versioned(secrets[m])'
  <2>1. CASE m = n
    <3>1. secrets'[m].rv = rev + 1
      BY <1>2, <2>1
    <3>2. rev + 1 \in 0..rev' /\ rev + 1 # 0
      BY <1>1
    <3> QED
      BY <3>1, <3>2 DEF Versioned
  <2>2. CASE m # n
    <3>1. Versioned(secrets[m]) /\ secrets'[m] = secrets[m]
      BY <1>2, <2>2 DEF CallLock
    <3> QED
      BY <1>4, <3>1 DEF Versioned
  <2> QED
    BY <2>1, <2>2
<1>6. ASSUME NEW q \in Procs
      PROVE  /\ Versioned(seen[q])'
             /\ arg'[q].name \in Names /\ IsMap(arg'[q].data)
             /\ at'[q] = "update" =>
                   (secrets'[arg'[q].name].rv = seen'[q].rv => secrets'[arg'[q].name] = seen'[q])
  <2>1. /\ Versioned(seen[q]) /\ seen'[q] = seen[q] /\ arg'[q] = arg[q]
        /\ arg[q].name \in Names /\ IsMap(arg[q].data)
    BY <1>1 DEF CallLock
  <2>2. Versioned(seen[q])'
    BY <1>4, <2>1 DEF Versioned
  <2>3. ASSUME at'[q] = "update", secrets'[arg'[q].name].rv = seen'[q].rv
        PROVE  secrets'[arg'[q].name] = seen'[q]
    <3>1. at[q] = "update"
      BY <1>3, <2>3
    <3>2. CASE arg[q].name = n
      <4>1. seen[q].rv = rev + 1
        BY <1>2, <2>1, <2>3, <3>2
      <4> QED
        BY <1>1, <2>1, <4>1 DEF Versioned
    <3>3. CASE arg[q].name # n
      BY <1>2, <2>1, <2>3, <3>1, <3>3 DEF CallLock
    <3> QED
      BY <3>2, <3>3
  <2> QED
    BY <2>1, <2>2, <2>3
<1> QED
  BY <1>1, <1>5, <1>6 DEF CallLock, IsMap

\* Every step of a call keeps the lock; if it writes, the data of the call is
\* merged into what the secret holds then, also where others have written since
\* the call began.
LEMMA LockedStep ==
    ASSUME CallTypes, CallLock, NEW p \in Procs, CallStep(p)
    PROVE  CallLock' /\ (secrets' = secrets \/ Patches(p))
<1> DEFINE n == arg[p].name
           d == arg[p].data
<1>1. n \in Names /\ IsMap(d)
  BY DEF CallLock
<1> HIDE DEF n, d
<1>2. CASE Get(p)
  <2>1. /\ UNCHANGED <<secrets, rev, arg>>
        /\ \A q \in Procs \ {p} : at'[q] = at[q] /\ arg'[q] = arg[q] /\ seen'[q] = seen[q]
        /\ seen'[p] = secrets[n]
    BY <1>2 DEF Get, CallTypes, n
  <2>2. Versioned(seen'[p])
    BY <1>1, <2>1 DEF CallLock
  <2> QED
    BY <1>1, <2>1, <2>2, LockOthers DEF n, d
<1>3. CASE Create(p)
  <2>1. Merge(Nothing, d) = d
    BY <1>1, MergeCovers DEF Nothing, IsMap
  <2>2. secrets[n].data = Nothing /\ Commit(p, d) /\ Reply(p)
    BY <1>3 DEF Create, Missing, n, d
  <2>3. Patches(p)
    BY Zenon, <2>1, <2>2 DEF Commit, Patches, n, d
  <2> QED
    BY <2>2, <2>3, LockCommit
<1>4. CASE Update(p)
  <2>1. secrets[n] = seen[p]
    BY <1>4 DEF Update, CallLock, n
  <2>2. Commit(p, Merge(secrets[n].data, d)) /\ Reply(p)
    BY <1>4, <2>1 DEF Update, n, d
  <2>3. Patches(p)
    BY <2>2 DEF Commit, Patches, n, d
  <2> QED
    BY <2>2, <2>3, LockCommit
<1>5. CASE Refused(p) \/ RequestFails(p)
  <2>1. /\ UNCHANGED <<secrets, rev, arg, seen>>
        /\ at' = [at EXCEPT ![p] = "err"]
    BY <1>5 DEF Refused, RequestFails
  <2>2. at'[p] = "err" /\ \A q \in Procs \ {p} : at'[q] = at[q]
    BY <2>1 DEF CallTypes
  <2>3. Versioned(seen'[p])
    BY <2>1 DEF CallLock
  <2> QED
    BY <1>1, <2>1, <2>2, <2>3, LockOthers DEF n, d
<1> QED
  BY <1>2, <1>3, <1>4, <1>5 DEF CallStep, ReconcileStep

\* A patch removes nothing.
LEMMA PatchesRemoveNothing ==
    ASSUME CallTypes, CallLock, OnlyPatches
    PROVE  EntriesStay
<1>1. CASE secrets' = secrets
  BY <1>1 DEF EntriesStay
<1>2. ASSUME NEW p \in Procs, Patches(p) PROVE EntriesStay
  <2> SUFFICES ASSUME NEW n \in Names
               PROVE  DOMAIN secrets[n].data \subseteq DOMAIN secrets'[n].data
    BY DEF EntriesStay
  <2>1. CASE n = arg[p].name
    <3>1. secrets'[n].data = Merge(secrets[n].data, arg[p].data)
      BY <1>2, <2>1 DEF Patches, CallTypes
    <3> QED
      BY <3>1 DEF Merge
  <2>2. CASE n # arg[p].name
    BY <1>2, <2>2 DEF Patches, CallTypes
  <2> QED
    BY <2>1, <2>2
<1> QED
  BY <1>1, <1>2 DEF OnlyPatches

=============================================================================
