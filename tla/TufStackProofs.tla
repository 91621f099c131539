--------------------------- MODULE TufStackProofs ---------------------------
(***************************************************************************)
(* Proofs about the TUF server and its deployment.                         *)
(*                                                                         *)
(* Of the server alone: what a replica serves is one whole repository, for *)
(* any number of replicas (TufInv), and with a single replica it is the    *)
(* one whose root and keys the secrets hold (PublishedInv).  Of the server *)
(* deployed by the script beside the pods of createsecret: the root that   *)
(* the script takes is the one a single replica serves (TakenInv), and in  *)
(* the first run every repository has all four keys in use as its targets  *)
(* (FirstRun).                                                             *)
(***************************************************************************)
EXTENDS TufStack, SecretReconcileProofs

\* Most steps are for Zenon; those that need arithmetic or the theory of
\* functions say so.
USE ZenonT(20)

----------------------------------------------------------------------------
\* What a replica has unpacked.

TufTypes == made \in Nat \ {0} /\ CallTypes /\ TufTypeOK

\* The directory of p has the file f of generation g.
Has(p, f, g) == target[p][Path(f, g)] = Content(f, g)

\* From the creation of a repository until all of it is unpacked the files up
\* to the current entry are of that repository.
Unpacked(p) ==
    /\ step[p] \in {"root", "keys", "copy", "write"} => repo[p] \in 2..made
    /\ step[p] \notin {"copy", "write"} => next[p] = 1
    /\ step[p] \in {"copy", "write"} =>
          \A j \in 1..(next[p] - 1) : Has(p, Files[j], repo[p])
    /\ step[p] = "serve" /\ mode # "init-no-overwrite" =>
          repo[p] \in 2..made /\ \A f \in FileNames : Has(p, f, repo[p])

TufInv == TufTypes /\ \A p \in Servers : Unpacked(p)

\* A step of a replica or of its environment.
TufStep(p) == Step(p) \/ Die(p) \/ (RequestFails(p) /\ UNCHANGED tufVars)

\* Files is a sequence of different names.
LEMMA FilesAre ==
    /\ Len(Files) \in Nat /\ DOMAIN Files = 1..Len(Files)
    /\ \A i \in 1..Len(Files) : Files[i] \in FileNames
    /\ \A f \in FileNames : \E i \in 1..Len(Files) : Files[i] = f
    /\ \A i, j \in 1..Len(Files) : Files[i] = Files[j] => i = j
    /\ 1 \in DOMAIN Files
<1>1. Len(Files) \in Nat /\ DOMAIN Files = 1..Len(Files)
  BY SMT, FilesAssumption
<1>2. \E i \in 1..Len(Files) : Files[i] = RootJSON
  BY <1>1, FilesAssumption DEF FileNames
<1>3. 1 \in 1..Len(Files)
  BY SMT, <1>1, <1>2
<1> QED
  BY <1>1, <1>3, FilesAssumption DEF FileNames

\* The files of a generation are stored under different paths.
LEMMA PathsAre ==
    ASSUME NEW f \in FileNames, NEW g \in 2..MaxGen
    PROVE  /\ Path(f, g) \in Paths /\ Content(f, g) \in 2..g
           /\ \A e \in FileNames : Path(e, g) = Path(f, g) => e = f
           /\ f = RootJSON => Path(f, g) = RootPath /\ Content(f, g) = g
<1>1. CASE f \in Targets
  <2>1. Hash[f][g] \in 2..g /\ f # RootJSON
    BY <1>1, HashAssumption, TargetsAssumption
  <2>2. Hash[f][g] \in 0..MaxGen
    BY SMT, <2>1, MaxGenAssumption
  <2> QED
    BY <1>1, <2>1, <2>2 DEF Path, Paths, Content
<1>2. CASE f \notin Targets
  <2>1. 0 \in 0..MaxGen /\ g \in 2..g
    BY SMT, MaxGenAssumption
  <2> QED
    BY <1>2, <2>1 DEF Path, Paths, Content, RootPath
<1> QED
  BY <1>1, <1>2

LEMMA RootIsStored == RootPath \in Paths
BY SMT, FilesAssumption, MaxGenAssumption DEF RootPath, Paths

\* A step of one replica leaves the others as they are.
LEMMA OneReplica ==
    ASSUME TufInv, NEW p \in Servers, TufTypes', mode' = mode, made <= made',
           \A q \in Servers \ {p} : /\ step'[q] = step[q] /\ repo'[q] = repo[q]
                                    /\ next'[q] = next[q] /\ target'[q] = target[q],
           Unpacked(p)'
    PROVE  TufInv'
<1>1. ASSUME NEW q \in Servers \ {p} PROVE Unpacked(q)'
  <2>1. Unpacked(q) /\ made \in Nat /\ made' \in Nat
    BY DEF TufInv, TufTypes
  <2> QED
    BY SMT, <2>1 DEF Unpacked, Has
<1> QED
  BY <1>1 DEF TufInv

\* The replica goes on to a step that calls nothing.
TufSteps == {"start", "create", "root", "keys", "copy", "write", "serve"}

LEMMA StepWithoutCall ==
    ASSUME TufTypeOK, NEW p \in Servers, step[p] \notin {"root", "keys"}, UNCHANGED at,
           NEW v \in TufSteps \ {"root", "keys"}, step' = [step EXCEPT ![p] = v]
    PROVE  /\ step' \in [Servers -> TufSteps]
           /\ \A q \in Servers : at'[q] # "idle" <=> step'[q] \in {"root", "keys"}
<1>1. step \in [Servers -> TufSteps]
  BY DEF TufTypeOK, TufSteps
<1> QED
  BY <1>1 DEF TufTypeOK

\* The replica starts again.
LEMMA RestartUnpacks ==
    ASSUME TufInv, NEW p \in Servers, Restart(p)
    PROVE  TufInv'
<1>0. p \in Procs /\ made \in Nat \ {0} /\ made \in 1..MaxGen
  BY ServersAssumption DEF TufInv, TufTypes, TufTypeOK
<1>1. /\ step'[p] = "start" /\ next'[p] = 1 /\ at'[p] = "idle"
      /\ \A q \in Servers \ {p} : /\ step'[q] = step[q] /\ repo'[q] = repo[q]
                                  /\ next'[q] = next[q] /\ at'[q] = at[q]
      /\ UNCHANGED <<mode, made, secrets>>
  BY SMT, <1>0 DEF Restart, Reset, Go, flags, TufInv, TufTypes, TufTypeOK, CallTypes
<1>2. /\ target' \in [Servers -> [Paths -> 0..made]]
      /\ \A q \in Servers \ {p} : target'[q] = target[q]
  <2>1. target' = target \/ target' = [target EXCEPT ![p] = Empty]
    BY DEF Restart
  <2>2. Empty \in [Paths -> 0..made]
    BY SMT, <1>0 DEF Empty, Absent
  <2> QED
    BY <2>1, <2>2 DEF TufInv, TufTypes, TufTypeOK
<1>3. tmp' \in [Servers -> {"none", "there"}]
  <2>1. tmp' = tmp \/ tmp' = [tmp EXCEPT ![p] = "none"]
    BY DEF Restart
  <2> QED
    BY <2>1 DEF TufInv, TufTypes, TufTypeOK
<1>4. CallTypes'
  BY <1>0 DEF Restart, Reset, TufInv, TufTypes, CallTypes, Ats
<1>5. TufTypeOK'
  <2>1. /\ step' \in [Servers -> {"start", "create", "root", "keys", "copy", "write", "serve"}]
        /\ repo' \in [Servers -> 0..made]
    BY SMT, <1>0 DEF Restart, Go, TufInv, TufTypes, TufTypeOK
  <2>2. next' \in [Servers -> DOMAIN Files]
    BY FilesAre DEF Restart, TufInv, TufTypes, TufTypeOK
  <2>3. \A q \in Servers : at'[q] # "idle" <=> step'[q] \in {"root", "keys"}
    BY <1>1 DEF TufInv, TufTypes, TufTypeOK
  <2> QED
    BY <1>0, <1>1, <1>2, <1>3, <2>1, <2>2, <2>3 DEF TufTypeOK
<1>6. Unpacked(p)'
  BY <1>1 DEF Unpacked
<1> QED
  BY SMT, <1>0, <1>1, <1>2, <1>4, <1>5, <1>6, OneReplica DEF TufTypes

\* Uncompress opens or writes the file f of the replica's repository: every
\* other file, of this or of another generation, stays as it is.
WroteOne(p, f, v) ==
    /\ target' \in [Servers -> [Paths -> 0..made]]
    /\ \A q \in Servers \ {p} : target'[q] = target[q]
    /\ target'[p][Path(f, repo[p])] = v
    /\ \A q \in Paths \ {Path(f, repo[p])} : target'[p][q] = target[p][q]
    /\ \A e \in FileNames \ {f} : target'[p][Path(e, repo[p])] = target[p][Path(e, repo[p])]
    /\ \A e \in FileNames \ {f} : Has(p, e, repo[p]) => Has(p, e, repo[p])'

LEMMA UnpackOne ==
    ASSUME TufInv, NEW p \in Servers, step[p] \in {"copy", "write"}, NEW v \in 0..made,
           target' = [target EXCEPT ![p][Path(Files[next[p]], repo[p])] = v], repo' = repo
    PROVE  WroteOne(p, Files[next[p]], v)
<1> DEFINE f == Files[next[p]]
<1>1. /\ target \in [Servers -> [Paths -> 0..made]] /\ next[p] \in 1..Len(Files)
      /\ repo[p] \in 2..made /\ made \in 1..MaxGen
  BY FilesAre DEF TufInv, TufTypes, TufTypeOK, Unpacked
<1>2. f \in FileNames /\ repo[p] \in 2..MaxGen
  BY SMT, <1>1, FilesAre, MaxGenAssumption
<1> HIDE DEF f
<1>3. Path(f, repo[p]) \in Paths
  BY <1>2, PathsAre
<1>4. ASSUME NEW e \in FileNames \ {f} PROVE Path(e, repo[p]) \in Paths \ {Path(f, repo[p])}
  BY <1>2, PathsAre
<1>5. target' = [target EXCEPT ![p][Path(f, repo[p])] = v]
  BY DEF f
<1>6. /\ target' \in [Servers -> [Paths -> 0..made]]
      /\ \A q \in Servers \ {p} : target'[q] = target[q]
      /\ target'[p][Path(f, repo[p])] = v
      /\ \A q \in Paths \ {Path(f, repo[p])} : target'[p][q] = target[p][q]
  <2> DEFINE q0 == Path(f, repo[p])
             d == [target[p] EXCEPT ![q0] = v]
  <2> HIDE DEF q0
  <2>1. target[p] \in [Paths -> 0..made] /\ q0 \in Paths
    BY <1>1, <1>3 DEF q0
  <2>2. d \in [Paths -> 0..made] /\ d[q0] = v /\ \A q \in Paths \ {q0} : d[q] = target[p][q]
    BY <2>1
  <2>3. target' = [target EXCEPT ![p] = d]
    BY <1>5 DEF q0
  <2> HIDE DEF d
  <2>4. target'[p] = d /\ target' \in [Servers -> [Paths -> 0..made]]
    BY <1>1, <2>2, <2>3
  <2>5. \A q \in Servers \ {p} : target'[q] = target[q]
    BY <1>1, <2>3
  <2> QED
    BY <2>2, <2>4, <2>5 DEF q0
<1>7. \A e \in FileNames \ {f} : target'[p][Path(e, repo[p])] = target[p][Path(e, repo[p])]
  BY <1>4, <1>6
<1>8. \A e \in FileNames \ {f} : Has(p, e, repo[p]) => Has(p, e, repo[p])'
  BY <1>7 DEF Has
<1> QED
  BY <1>6, <1>7, <1>8 DEF WroteOne, f

\* Whatever a replica or its environment does keeps the invariant.
LEMMA TufStepInv ==
    ASSUME TufInv, NEW p \in Servers, TufStep(p)
    PROVE  TufInv'
<1>0. /\ p \in Procs /\ made \in Nat \ {0} /\ Unpacked(p)
      /\ CallTypes /\ TufTypeOK
      /\ next[p] \in 1..Len(Files)
  BY ServersAssumption, FilesAre DEF TufInv, TufTypes, TufTypeOK
<1>1. CASE Start(p)
  <2>1. /\ step' = [step EXCEPT ![p] = step'[p]]
        /\ step'[p] = "serve" => mode = "init-no-overwrite"
        /\ step'[p] \in {"serve", "create"} /\ step[p] = "start"
        /\ UNCHANGED <<mode, made, repo, tmp, target, next, at, arg, seen, secrets>>
    BY <1>0, <1>1 DEF Start, SkipInit, Go, TufTypeOK, flags, reconcileVars
  <2>2. TufTypes'
    <3>1. /\ step' \in [Servers -> TufSteps]
          /\ \A q \in Servers : at'[q] # "idle" <=> step'[q] \in {"root", "keys"}
      BY <1>0, <2>1, StepWithoutCall DEF TufSteps
    <3>2. CallTypes'
      BY <1>0, <2>1, CallsStay
    <3> QED
      BY <1>0, <2>1, <3>1, <3>2 DEF TufTypes, TufTypeOK, TufSteps
  <2>3. Unpacked(p)'
    BY <1>0, <2>1 DEF Unpacked
  <2> QED
    BY SMT, <1>0, <2>1, <2>2, <2>3, OneReplica DEF TufTypeOK
<1>2. CASE CreateRepo(p)
  <2>1. /\ step[p] = "create" /\ made < MaxGen /\ made' = made + 1 /\ repo' = [repo EXCEPT ![p] = made + 1]
        /\ tmp' = [tmp EXCEPT ![p] = "there"]
        /\ UNCHANGED <<mode, target, next>>
    BY <1>2 DEF CreateRepo, flags
  <2>2. \/ step' = [step EXCEPT ![p] = "copy"] /\ UNCHANGED reconcileVars
        \/ step' = [step EXCEPT ![p] = "root"] /\ Invoke(p, "tuf-root", RootData(made + 1))
    BY <1>2 DEF CreateRepo, Go
  <2>3. CallTypes' /\ at[p] = "idle"
        /\ \/ step'[p] = "copy" /\ at'[p] = "idle"
           \/ step'[p] = "root" /\ at'[p] # "idle"
        /\ \A q \in Servers \ {p} : at'[q] = at[q] /\ step'[q] = step[q]
    <3>1. at[p] = "idle"
      BY <1>0, <2>1, ServersAssumption DEF TufTypeOK
    <3>2. CASE step' = [step EXCEPT ![p] = "copy"] /\ UNCHANGED reconcileVars
      BY <1>0, <3>1, <3>2 DEF CallTypes, TufTypeOK, reconcileVars
    <3>3. CASE step' = [step EXCEPT ![p] = "root"] /\ Invoke(p, "tuf-root", RootData(made + 1))
      <4>1. /\ at' = [at EXCEPT ![p] = "get"] /\ UNCHANGED <<secrets, seen>>
            /\ arg' = [arg EXCEPT ![p] = [name |-> "tuf-root", data |-> RootData(made + 1)]]
        BY <3>3 DEF Invoke
      <4>2. CallTypes'
        BY <1>0, <4>1 DEF CallTypes, Ats
      <4>3. at'[p] = "get" /\ \A q \in Servers \ {p} : at'[q] = at[q]
        BY <1>0, <4>1, ServersAssumption DEF CallTypes
      <4>4. step'[p] = "root" /\ \A q \in Servers \ {p} : step'[q] = step[q]
        BY <1>0, <3>3 DEF TufTypeOK
      <4> QED
        BY <3>1, <4>2, <4>3, <4>4
    <3> QED
      BY <2>2, <3>2, <3>3
  <2>4. TufTypeOK'
    <3>0. made' \in 1..MaxGen
      BY SMT, <1>0, <2>1, MaxGenAssumption
    <3>1. repo' \in [Servers -> 0..made'] /\ target' \in [Servers -> [Paths -> 0..made']]
      BY SMT, <1>0, <2>1 DEF TufTypeOK
    <3>2. /\ step' \in [Servers -> {"start", "create", "root", "keys", "copy", "write", "serve"}]
          /\ tmp' \in [Servers -> {"none", "there"}]
      BY <1>0, <2>1, <2>2 DEF TufTypeOK
    <3>3. \A q \in Servers : at'[q] # "idle" <=> step'[q] \in {"root", "keys"}
      BY <1>0, <2>3 DEF TufTypeOK
    <3> QED
      BY <1>0, <2>1, <3>0, <3>1, <3>2, <3>3 DEF TufTypeOK
  <2>5. Unpacked(p)'
    <3>1. next'[p] = 1 /\ repo'[p] = made + 1
      BY <1>0, <2>1 DEF Unpacked, TufTypeOK
    <3> QED
      BY SMT, <1>0, <2>1, <2>3, <3>1 DEF Unpacked
  <2>6. made <= made' /\ made' \in Nat \ {0} /\ \A q \in Servers \ {p} : repo'[q] = repo[q]
    BY SMT, <1>0, <2>1 DEF TufTypeOK
  <2> QED
    BY <2>1, <2>3, <2>4, <2>5, <2>6, OneReplica DEF TufTypes
<1>3. CASE StoreKeys(p)
  <2>1. /\ step[p] = "root" /\ step' = [step EXCEPT ![p] = "keys"] /\ at'[p] = "get"
        /\ \A q \in Servers \ {p} : at'[q] = at[q]
        /\ UNCHANGED <<mode, made, repo, tmp, target, next>>
    BY <1>0, <1>3, ServersAssumption DEF StoreKeys, Invoke, Go, flags, CallTypes
  <2>2. CallTypes'
    BY <1>0, <1>3 DEF StoreKeys, Invoke, CallTypes, Ats
  <2>3. TufTypes'
    BY <1>0, <2>1, <2>2 DEF TufTypes, TufTypeOK
  <2>4. Unpacked(p)'
    BY <1>0, <2>1 DEF Unpacked, TufTypeOK
  <2> QED
    BY SMT, <1>0, <2>1, <2>3, <2>4, OneReplica DEF TufTypeOK
<1>4. CASE Stored(p)
  <2>1. /\ step[p] \in {"root", "keys"} /\ step' = [step EXCEPT ![p] = "copy"] /\ at'[p] = "idle"
        /\ \A q \in Servers \ {p} : at'[q] = at[q]
        /\ UNCHANGED <<mode, made, repo, tmp, target, next>>
    BY <1>0, <1>4, ServersAssumption DEF Stored, Reset, Go, flags, CallTypes
  <2>2. CallTypes'
    BY <1>0, <1>4 DEF Stored, Reset, CallTypes, Ats
  <2>3. TufTypes'
    BY <1>0, <2>1, <2>2 DEF TufTypes, TufTypeOK
  <2>4. Unpacked(p)'
    BY SMT, <1>0, <2>1 DEF Unpacked, TufTypeOK
  <2> QED
    BY SMT, <1>0, <2>1, <2>3, <2>4, OneReplica DEF TufTypeOK
<1>5. CASE OpenFile(p)
  <2>1. /\ step[p] = "copy" /\ step' = [step EXCEPT ![p] = "write"]
        /\ target' = [target EXCEPT ![p][Path(Files[next[p]], repo[p])] = Truncated]
        /\ UNCHANGED <<mode, made, repo, tmp, next, at, arg, seen, secrets>>
    BY <1>5 DEF OpenFile, Go, flags, reconcileVars
  <2>2. /\ target' \in [Servers -> [Paths -> 0..made]]
        /\ \A q \in Servers \ {p} : target'[q] = target[q]
        /\ \A f \in FileNames \ {Files[next[p]]} : Has(p, f, repo[p]) => Has(p, f, repo[p])'
    <3>1. Truncated \in 0..made
      BY SMT, <1>0 DEF Truncated
    <3> QED
      BY <1>0, <2>1, <3>1, UnpackOne DEF WroteOne
  <2>3. TufTypes'
    <3>1. /\ step' \in [Servers -> TufSteps]
          /\ \A q \in Servers : at'[q] # "idle" <=> step'[q] \in {"root", "keys"}
      BY <1>0, <2>1, StepWithoutCall DEF TufSteps
    <3>2. CallTypes'
      BY <1>0, <2>1, CallsStay
    <3> QED
      BY <1>0, <2>1, <2>2, <3>1, <3>2 DEF TufTypes, TufTypeOK, TufSteps
  <2>4. Unpacked(p)'
    <3>1. \A j \in 1..(next[p] - 1) : Files[j] \in FileNames \ {Files[next[p]]}
      BY SMT, <1>0, FilesAre
    <3>2. step'[p] = "write"
      BY <1>0, <2>1 DEF TufTypeOK
    <3> QED
      BY <1>0, <2>1, <2>2, <3>1, <3>2 DEF Unpacked
  <2> QED
    BY SMT, <1>0, <2>1, <2>2, <2>3, <2>4, OneReplica DEF TufTypeOK
<1>6. CASE WriteFile(p)
  <2>0. PICK f0 : f0 = Files[next[p]]
    OBVIOUS
  <2>1. /\ step[p] = "write"
        /\ target' = [target EXCEPT ![p][Path(f0, repo[p])] = Content(f0, repo[p])]
        /\ \/ /\ next[p] = Len(Files)
              /\ step' = [step EXCEPT ![p] = "serve"] /\ next' = [next EXCEPT ![p] = 1]
           \/ /\ next[p] # Len(Files)
              /\ step' = [step EXCEPT ![p] = "copy"] /\ next' = [next EXCEPT ![p] = @ + 1]
        /\ UNCHANGED <<mode, made, repo, tmp, at, arg, seen, secrets>>
    BY <1>6, <2>0 DEF WriteFile, Go, flags, reconcileVars
  <2>2. /\ target' \in [Servers -> [Paths -> 0..made]]
        /\ \A q \in Servers \ {p} : target'[q] = target[q]
        /\ \A j \in 1..next[p] : Has(p, Files[j], repo[p])'
    <3>1. \A j \in 1..(next[p] - 1) : Files[j] \in FileNames /\ Has(p, Files[j], repo[p])
      BY SMT, <1>0, <2>1, FilesAre DEF Unpacked
    <3>2. f0 \in FileNames /\ repo[p] \in 2..MaxGen /\ repo[p] \in 2..made
      <4>1. f0 \in FileNames /\ repo[p] \in 2..made /\ made \in 1..MaxGen
        BY <1>0, <2>0, <2>1, FilesAre DEF Unpacked, TufTypeOK
      <4> QED
        BY SMT, <4>1, MaxGenAssumption
    <3>3. Content(f0, repo[p]) \in 0..made
      <4>1. Content(f0, repo[p]) \in 2..repo[p]
        BY <3>2, PathsAre
      <4> QED
        BY SMT, <1>0, <3>2, <4>1
    <3>4. \A j \in 1..next[p] : j \in 1..(next[p] - 1) \/ j = next[p]
      BY SMT, <1>0
    <3>5. WroteOne(p, f0, Content(f0, repo[p]))
      <4>1. target' = [target EXCEPT ![p][Path(Files[next[p]], repo[p])] = Content(f0, repo[p])]
        BY <2>0, <2>1
      <4>2. WroteOne(p, Files[next[p]], Content(f0, repo[p]))
        BY <2>1, <3>3, <4>1, UnpackOne
      <4> QED
        BY <2>0, <4>2
    <3>6. Has(p, f0, repo[p])'
      BY <2>1, <3>5 DEF WroteOne, Has
    <3>7. ASSUME NEW j \in 1..next[p] PROVE Has(p, Files[j], repo[p])'
      <4>1. CASE Files[j] = f0
        BY <3>6, <4>1 DEF Has
      <4>2. CASE Files[j] # f0
        BY <2>0, <3>1, <3>4, <3>5, <4>2 DEF WroteOne
      <4> QED
        BY <4>1, <4>2
    <3> QED
      BY <3>5, <3>7 DEF WroteOne
  <2>3. next' \in [Servers -> DOMAIN Files]
    <3>1. next[p] # Len(Files) => next[p] + 1 \in DOMAIN Files
      BY SMT, <1>0, FilesAre
    <3>2. next \in [Servers -> DOMAIN Files] /\ 1 \in DOMAIN Files
      BY <1>0, FilesAre DEF TufTypeOK
    <3> QED
      BY <2>1, <3>1, <3>2
  <2>4. TufTypes'
    <3>1. /\ step' \in [Servers -> TufSteps]
          /\ \A q \in Servers : at'[q] # "idle" <=> step'[q] \in {"root", "keys"}
      BY <1>0, <2>1, StepWithoutCall DEF TufSteps
    <3>2. CallTypes'
      BY <1>0, <2>1, CallsStay
    <3> QED
      BY <1>0, <2>1, <2>2, <2>3, <3>1, <3>2 DEF TufTypes, TufTypeOK, TufSteps
  <2>5. Unpacked(p)'
    <3>1. CASE next[p] = Len(Files)
      <4>1. \A f \in FileNames : Has(p, f, repo[p])'
        BY <2>2, <3>1, FilesAre DEF Has
      <4> QED
        BY <1>0, <2>1, <3>1, <4>1 DEF Unpacked, TufTypeOK
    <3>2. CASE next[p] # Len(Files)
      <4>1. next'[p] - 1 = next[p] /\ step'[p] = "copy"
        BY SMT, <1>0, <2>1, <3>2 DEF TufTypeOK
      <4> QED
        BY <1>0, <2>1, <2>2, <3>2, <4>1 DEF Unpacked
    <3> QED
      BY <3>1, <3>2
  <2> QED
    BY SMT, <1>0, <2>1, <2>2, <2>4, <2>5, OneReplica DEF TufTypeOK
<1>7. CASE Fail(p) \/ Die(p)
  BY <1>7, RestartUnpacks DEF Fail, Die
<1>8. CASE CallStep(p) /\ UNCHANGED tufVars
  <2>1. CallFrame(p) /\ CallTypes'
    BY <1>0, <1>8, CallStaysInFrame
  <2>2. UNCHANGED <<mode, made, step, repo, tmp, target, next>>
    BY <1>8 DEF tufVars, flags
  <2>3. TufTypes'
    <3>1. \A q \in Servers : at'[q] # "idle" <=> step'[q] \in {"root", "keys"}
      BY <1>0, <2>1, <2>2, ServersAssumption DEF CallFrame, Running, TufTypeOK
    <3> QED
      BY <1>0, <2>1, <2>2, <3>1 DEF TufTypes, TufTypeOK
  <2>4. Unpacked(p)'
    BY <1>0, <2>2 DEF Unpacked, Has
  <2> QED
    BY SMT, <1>0, <2>2, <2>3, <2>4, OneReplica
<1> QED
  BY <1>1, <1>2, <1>3, <1>4, <1>5, <1>6, <1>7, <1>8 DEF TufStep, Step, CallStep

----------------------------------------------------------------------------
\* What a single replica has published.

SingleServer == \A p, q \in Servers : p = q

PublishedRoot == secrets["tuf-root"].data.root

RootStored(p) == secrets["tuf-root"].data = RootData(repo[p])
KeysStored(p) == secrets["tuf-keys"].data = [keys |-> repo[p]]

\* The replica passes every key of the secret it writes, and unpacks a
\* repository only after its root and its keys have been stored.
StoredFirst(p) ==
    /\ DOMAIN secrets["tuf-root"].data \subseteq {"root", "repository"}
    /\ DOMAIN secrets["tuf-keys"].data \subseteq {"keys"}
    /\ step[p] = "root" => arg[p] = [name |-> "tuf-root", data |-> RootData(repo[p])]
    /\ step[p] = "keys" =>
          arg[p] = [name |-> "tuf-keys", data |-> [keys |-> repo[p]]] /\ RootStored(p)
    /\ at[p] = "update" => DOMAIN seen[p].data \subseteq DOMAIN arg[p].data
    /\ step[p] = "root" /\ at[p] = "ok" => RootStored(p)
    /\ step[p] = "keys" /\ at[p] = "ok" => KeysStored(p)
    /\ step[p] \in {"copy", "write"} \/ (step[p] = "serve" /\ mode # "init-no-overwrite") =>
          RootStored(p) /\ (keepKeys => KeysStored(p))

\* The repository of generation g is the published one, and each of its files
\* in the directory of p is finished or not.
PublishedAs(p, g) ==
    /\ secrets["tuf-root"].data = RootData(g)
    /\ keepKeys => secrets["tuf-keys"].data = [keys |-> g]
    /\ \A f \in FileNames : target[p][Path(f, g)] \in {Content(f, g), Absent, Truncated}

\* Under init-no-overwrite the presence of root.json decides: without it no
\* later file of any archive is there and nothing is served; with it no new
\* repository is made, and the files are of the published one or unfinished.
KeptAsPublished(p) ==
    mode = "init-no-overwrite" =>
        \/ /\ target[p][RootPath] = Absent
           /\ step[p] # "serve"
           /\ \A i, j \in DOMAIN Files : Files[i] = RootJSON /\ i < j =>
                 \A g \in 2..MaxGen : target[p][Path(Files[j], g)] = Absent
        \/ /\ target[p][RootPath] # Absent
           /\ step[p] \notin {"create", "root", "keys"}
           /\ \E g \in 2..made : PublishedAs(p, g)

Published(p) == StoredFirst(p) /\ KeptAsPublished(p)

\* Nobody writes the secrets of the server.
SecretsStay ==
    secrets'["tuf-root"] = secrets["tuf-root"] /\ secrets'["tuf-keys"] = secrets["tuf-keys"]

PublishedInv == noK8s \/ \A p \in Servers : Published(p)

\* Nothing that the invariant is about has changed.
LEMMA PublishedStays ==
    ASSUME NEW p \in Servers, Published(p), SecretsStay, UNCHANGED <<made, repo, target, flags>>,
           at'[p] = at[p], arg'[p] = arg[p], seen'[p] = seen[p], step'[p] = step[p]
    PROVE  Published(p)'
<1>1. StoredFirst(p)'
  BY SMT DEF Published, StoredFirst, RootStored, KeysStored, RootData, SecretsStay, flags
<1>2. \A g : PublishedAs(p, g) => PublishedAs(p, g)'
  BY DEF PublishedAs, RootData, SecretsStay, Absent, Truncated, flags
<1>3. KeptAsPublished(p)'
  BY <1>2 DEF Published, KeptAsPublished, RootPath, RootJSON, Absent, flags
<1> QED
  BY <1>1, <1>3 DEF Published

\* The container starts again.
LEMMA RestartIsPublished ==
    ASSUME TufInv, NEW p \in Servers, Published(p), Restart(p)
    PROVE  Published(p)'
<1>1. p \in Procs /\ CallTypes /\ TufTypeOK
  BY ServersAssumption DEF TufInv, TufTypes
<1>2. step'[p] = "start" /\ at'[p] = "idle" /\ secrets' = secrets /\ mode' = mode
  BY <1>1 DEF Restart, Reset, Go, flags, TufTypeOK, CallTypes
<1>3. StoredFirst(p)'
  BY <1>2 DEF Published, StoredFirst
<1>4. CASE target' = target
  <2>1. keepKeys' = keepKeys /\ made' = made
    BY DEF Restart, flags
  <2>2. \A g : PublishedAs(p, g) => PublishedAs(p, g)'
    BY <1>2, <1>4, <2>1 DEF PublishedAs, RootData, Absent, Truncated
  <2> QED
    BY <1>2, <1>3, <1>4, <2>1, <2>2 DEF Published, KeptAsPublished, RootPath, RootJSON, Absent
<1>5. CASE target'[p] = Empty
  <2>1. \A q \in Paths : target'[p][q] = Absent
    BY <1>5 DEF Empty
  <2>2. target'[p][RootPath] = Absent
    BY <2>1, RootIsStored
  <2>3. \A j \in DOMAIN Files : \A g \in 2..MaxGen : target'[p][Path(Files[j], g)] = Absent
    BY <2>1, FilesAre, PathsAre
  <2> QED
    BY <1>2, <1>3, <2>2, <2>3 DEF Published, KeptAsPublished
<1>6. target' = target \/ target'[p] = Empty
  BY <1>1 DEF Restart, TufTypeOK
<1> QED
  BY <1>3, <1>4, <1>5, <1>6 DEF Published

\* Unpacking the archive of the published repository: the replica opens or
\* writes one more file.
LEMMA UnpackingIsPublished ==
    ASSUME TufInv, NEW p \in Servers, Published(p), OpenFile(p) \/ WriteFile(p)
    PROVE  Published(p)'
<1> DEFINE f0 == Files[next[p]]
           g0 == repo[p]
<1>0. /\ p \in Procs /\ made \in 1..MaxGen /\ Unpacked(p) /\ TufTypeOK /\ CallTypes
      /\ next[p] \in 1..Len(Files) /\ f0 \in FileNames
  BY ServersAssumption, FilesAre DEF TufInv, TufTypes, TufTypeOK
<1> HIDE DEF f0, g0
<1>1. /\ step[p] \in {"copy", "write"} /\ step'[p] \in {"write", "copy", "serve"}
      /\ UNCHANGED <<mode, keepKeys, made, repo, secrets, at, arg, seen>>
  BY <1>0 DEF OpenFile, WriteFile, Go, flags, reconcileVars, TufTypeOK
<1>2. g0 \in 2..MaxGen /\ g0 \in 2..made /\ g0 = repo[p] /\ g0' = g0
  BY SMT, <1>0, <1>1, MaxGenAssumption DEF Unpacked, g0
<1>3. /\ Path(f0, g0) \in Paths /\ Content(f0, g0) \in 2..g0
      /\ f0 = RootJSON <=> Path(f0, g0) = RootPath
      /\ Path(RootJSON, g0) = RootPath
  BY <1>0, <1>2, PathsAre, FilesAssumption
<1>4. PICK v \in {Truncated, Content(f0, g0)} : target' = [target EXCEPT ![p][Path(f0, g0)] = v]
  BY DEF OpenFile, WriteFile, f0, g0
<1>5. v \in 0..made /\ v # Absent
  BY SMT, <1>0, <1>2, <1>3, <1>4 DEF Absent, Truncated
<1>6. /\ target'[p][Path(f0, g0)] = v
      /\ \A q \in Paths \ {Path(f0, g0)} : target'[p][q] = target[p][q]
      /\ \A f \in FileNames \ {f0} : target'[p][Path(f, g0)] = target[p][Path(f, g0)]
  BY <1>1, <1>4, <1>5, UnpackOne DEF WroteOne, f0, g0
<1>7. RootStored(p) /\ (keepKeys => KeysStored(p))
  BY <1>1 DEF Published, StoredFirst
<1>8. StoredFirst(p)'
  <2>1. RootStored(p)' /\ (keepKeys => KeysStored(p))'
    BY <1>1, <1>7 DEF RootStored, KeysStored, RootData
  <2> QED
    BY <1>1, <2>1 DEF Published, StoredFirst
<1>9. ASSUME mode = "init-no-overwrite" PROVE KeptAsPublished(p)'
  <2>0. ASSUME \A f \in FileNames \ {f0} : target[p][Path(f, g0)] \in {Content(f, g0), Absent, Truncated},
               target'[p][RootPath] # Absent
        PROVE  KeptAsPublished(p)'
    <3>1. \A f \in FileNames : target'[p][Path(f, g0)] \in {Content(f, g0), Absent, Truncated}
      BY <1>4, <1>6, <2>0
    <3>2. PublishedAs(p, g0)'
      BY <1>1, <1>2, <1>7, <3>1 DEF PublishedAs, RootStored, KeysStored, RootData
    <3> QED
      BY <1>1, <1>2, <2>0, <3>2 DEF KeptAsPublished
  <2>1. CASE target[p][RootPath] # Absent
    <3>1. PICK g \in 2..made : PublishedAs(p, g)
      BY <1>9, <2>1 DEF Published, KeptAsPublished
    <3>2. g = g0
      <4>1. RootData(g).root = RootData(g0).root
        BY <1>2, <1>7, <3>1 DEF PublishedAs, RootStored
      <4> QED
        BY SMT, <4>1 DEF RootData
    <3>3. target'[p][RootPath] # Absent
      BY <1>5, <1>6, <2>1, RootIsStored
    <3> QED
      BY <2>0, <3>1, <3>2, <3>3 DEF PublishedAs
  <2>2. CASE target[p][RootPath] = Absent
    <3>1. PICK i \in 1..Len(Files) : Files[i] = RootJSON
      BY FilesAre, FilesAssumption
    <3>2. \A j \in DOMAIN Files : i < j => \A g \in 2..MaxGen : target[p][Path(Files[j], g)] = Absent
      BY <1>9, <2>2, <3>1, FilesAre DEF Published, KeptAsPublished
    <3>3. \A j \in 1..(next[p] - 1) : target[p][Path(Files[j], g0)] = Content(Files[j], g0)
      BY <1>0, <1>1, <1>2 DEF Unpacked, Has
    <3>4. next[p] <= i
      <4>1. Content(RootJSON, g0) # Absent
        <5>1. Content(RootJSON, g0) \in 2..g0
          BY <1>2, PathsAre, FilesAssumption
        <5> QED
          BY SMT, <1>2, <5>1 DEF Absent
      <4>2. i \notin 1..(next[p] - 1)
        BY <1>3, <2>2, <3>1, <3>3, <4>1
      <4> QED
        BY SMT, <1>0, <4>2
    <3>5. CASE next[p] = i
      <4>1. f0 = RootJSON
        BY <3>1, <3>5 DEF f0
      <4>2. ASSUME NEW f \in FileNames \ {f0}
            PROVE  target[p][Path(f, g0)] \in {Content(f, g0), Absent, Truncated}
        <5>1. PICK j \in 1..Len(Files) : Files[j] = f
          BY FilesAre
        <5>2. j \in 1..(next[p] - 1) \/ j = next[p] \/ i < j
          BY SMT, <1>0, <3>5
        <5>3. j # next[p]
          BY <5>1 DEF f0
        <5>4. i < j => target[p][Path(f, g0)] = Absent
          BY <1>2, <3>2, <5>1, FilesAre
        <5> QED
          BY <3>3, <5>1, <5>2, <5>3, <5>4
      <4>3. target'[p][RootPath] # Absent
        BY <1>3, <1>5, <1>6, <4>1
      <4> QED
        BY <2>0, <4>2, <4>3
    <3>6. CASE next[p] # i
      <4>1. f0 # RootJSON /\ \A j \in DOMAIN Files : i < j => Files[j] # f0
        BY SMT, <1>0, <3>1, <3>4, <3>6, FilesAre DEF f0
      <4>2. target'[p][RootPath] = Absent
        BY <1>3, <1>6, <2>2, <4>1, RootIsStored
      <4>3. ASSUME NEW j \in DOMAIN Files, i < j, NEW g \in 2..MaxGen
            PROVE  target'[p][Path(Files[j], g)] = Absent
        <5>1. Files[j] \in FileNames /\ Files[j] # f0
          BY <4>1, <4>3, FilesAre
        <5>2. Path(Files[j], g) \in Paths /\ Path(Files[j], g) # Path(f0, g0)
          <6>1. Path(Files[j], g)[1] = Files[j] /\ Path(f0, g0)[1] = f0
            BY SMT DEF Path
          <6> QED
            BY <5>1, <6>1, PathsAre
        <5> QED
          BY <1>6, <3>2, <4>3, <5>2
      <4>4. \A k \in DOMAIN Files : Files[k] = RootJSON => k = i
        BY <3>1, FilesAre
      <4>5. step'[p] # "serve"
        <5>1. next[p] # Len(Files)
          BY SMT, <1>0, <3>4, <3>6
        <5> QED
          BY <1>0, <5>1 DEF OpenFile, WriteFile, Go, TufTypeOK
      <4> QED
        BY <1>1, <4>2, <4>3, <4>4, <4>5 DEF KeptAsPublished, RootJSON, RootPath, Absent
    <3> QED
      BY <3>5, <3>6
  <2> QED
    BY <2>1, <2>2
<1>10. mode # "init-no-overwrite" => KeptAsPublished(p)'
  BY <1>1 DEF KeptAsPublished
<1> QED
  BY <1>8, <1>9, <1>10 DEF Published

\* A step of the replica's call of ReconcileSecret: it writes the whole data
\* of the secret the replica is at.
LEMMA CallIsPublished ==
    ASSUME TufInv, NEW p \in Servers, Published(p), CallStep(p), UNCHANGED tufVars
    PROVE  Published(p)'
<1>0. p \in Procs /\ CallTypes /\ TufTypeOK
  BY ServersAssumption DEF TufInv, TufTypes
<1>1. CallFrame(p)
  BY <1>0, CallStaysInFrame
<1>2. /\ UNCHANGED <<mode, keepKeys, step, repo, target>> /\ arg'[p] = arg[p]
      /\ step[p] \in {"root", "keys"}
  BY <1>0, <1>1 DEF tufVars, flags, CallFrame, Running, TufTypeOK
<1>3. /\ "tuf-root" \in Names /\ "tuf-keys" \in Names /\ StoredFirst(p)
      /\ step[p] = "root" => arg[p].name = "tuf-root" /\ arg[p].data = RootData(repo[p])
      /\ step[p] = "keys" => arg[p].name = "tuf-keys" /\ arg[p].data = [keys |-> repo[p]]
  <2>1. StoredFirst(p)
    BY DEF Published
  <2>2. /\ step[p] = "root" => arg[p] = [name |-> "tuf-root", data |-> RootData(repo[p])]
        /\ step[p] = "keys" => arg[p] = [name |-> "tuf-keys", data |-> [keys |-> repo[p]]]
    BY <2>1 DEF StoredFirst
  <2>3. step[p] = "root" => arg[p].name = "tuf-root" /\ arg[p].data = RootData(repo[p])
    BY SMT, <2>2
  <2>4. step[p] = "keys" => arg[p].name = "tuf-keys" /\ arg[p].data = [keys |-> repo[p]]
    BY SMT, <2>2
  <2> QED
    BY TufNames, <2>1, <2>3, <2>4
<1>4. Covers(p)
  <2>1. CASE step[p] = "root"
    BY <1>3, <2>1 DEF Covers, StoredFirst, RootData
  <2>2. CASE step[p] = "keys"
    BY <1>3, <2>2 DEF Covers, StoredFirst
  <2> QED
    BY <1>2, <2>1, <2>2
<1>5. CallWrites(p)
  BY <1>0, <1>4, CoveringCall
<1>6. at'[p] = "update" => DOMAIN seen'[p].data \subseteq DOMAIN arg'[p].data
  BY <1>1, <1>2, <1>4 DEF CallFrame, Covers
<1>7. /\ \/ secrets'[arg[p].name].data = secrets[arg[p].name].data
         \/ secrets'[arg[p].name].data = arg[p].data
      /\ \A n \in Names \ {arg[p].name} : secrets'[n] = secrets[n]
      /\ at'[p] = "ok" => secrets'[arg[p].name].data = arg[p].data
  BY SMT, <1>0, <1>1, <1>4, <1>5 DEF CallWrites, CallFrame, CallTypes, Covers
<1>8. StoredFirst(p)'
  <2>1. CASE step[p] = "root"
    <3>1. /\ DOMAIN secrets'["tuf-root"].data \subseteq {"root", "repository"}
          /\ secrets'["tuf-keys"] = secrets["tuf-keys"]
          /\ at'[p] = "ok" => RootStored(p)'
      BY SMT, <1>2, <1>3, <1>7, <2>1 DEF StoredFirst, RootStored, RootData
    <3> QED
      BY <1>2, <1>3, <1>6, <2>1, <3>1 DEF StoredFirst, RootData
  <2>2. CASE step[p] = "keys"
    <3>1. /\ DOMAIN secrets'["tuf-keys"].data \subseteq {"keys"}
          /\ secrets'["tuf-root"] = secrets["tuf-root"]
          /\ at'[p] = "ok" => KeysStored(p)'
      <4>1. /\ \/ secrets'["tuf-keys"].data = secrets["tuf-keys"].data
               \/ secrets'["tuf-keys"].data = [keys |-> repo[p]]
            /\ at'[p] = "ok" => secrets'["tuf-keys"].data = [keys |-> repo[p]]
            /\ \A n \in Names \ {"tuf-keys"} : secrets'[n] = secrets[n]
        BY <1>3, <1>7, <2>2
      <4>2. DOMAIN secrets["tuf-keys"].data \subseteq {"keys"}
        BY <1>3 DEF StoredFirst
      <4>3. "tuf-root" \in Names \ {"tuf-keys"} /\ DOMAIN [keys |-> repo[p]] = {"keys"}
        BY <1>3
      <4> QED
        BY <1>2, <4>1, <4>2, <4>3 DEF KeysStored
    <3> QED
      BY <1>2, <1>3, <1>6, <2>2, <3>1 DEF StoredFirst, RootData, RootStored
  <2> QED
    BY <1>2, <2>1, <2>2
<1>9. KeptAsPublished(p)'
  BY <1>2 DEF Published, KeptAsPublished, RootPath, RootJSON, Absent
<1> QED
  BY <1>8, <1>9 DEF Published

\* Whatever a replica or its environment does keeps what it has published.
LEMMA PublishedStep ==
    ASSUME TufInv, NEW p \in Servers, ~ noK8s, Published(p), TufStep(p)
    PROVE  Published(p)'
<1>0. p \in Procs /\ CallTypes /\ TufTypeOK /\ StoredFirst(p) /\ KeptAsPublished(p)
  BY ServersAssumption DEF TufInv, TufTypes, Published
<1>1. CASE Start(p)
  <2>1. /\ step[p] = "start" /\ at[p] = "idle"
        /\ step'[p] = IF SkipInit(p) THEN "serve" ELSE "create"
        /\ UNCHANGED <<mode, keepKeys, made, repo, target, secrets, at>>
    BY <1>0, <1>1, ServersAssumption DEF Start, Go, TufTypeOK, flags, reconcileVars
  <2>2. StoredFirst(p)'
    BY <1>0, <2>1 DEF StoredFirst, SkipInit
  <2>3. KeptAsPublished(p)'
    <3>1. \A g : PublishedAs(p, g) => PublishedAs(p, g)'
      BY <2>1 DEF PublishedAs, RootData, Absent, Truncated
    <3> QED
      BY <1>0, <2>1, <3>1 DEF KeptAsPublished, SkipInit, RootPath, RootJSON, Absent
  <2> QED
    BY <2>2, <2>3 DEF Published
<1>2. CASE CreateRepo(p)
  <2>1. /\ step[p] = "create" /\ repo' = [repo EXCEPT ![p] = made + 1]
        /\ step' = [step EXCEPT ![p] = "root"] /\ Invoke(p, "tuf-root", RootData(made + 1))
        /\ UNCHANGED <<mode, target>>
    BY <1>2 DEF CreateRepo, Go, flags
  <2>2. /\ repo'[p] = made + 1 /\ step'[p] = "root" /\ at'[p] = "get" /\ secrets' = secrets
        /\ arg'[p] = [name |-> "tuf-root", data |-> RootData(made + 1)]
    BY <1>0, <2>1 DEF Invoke, CallTypes, TufTypeOK
  <2>3. StoredFirst(p)'
    BY <1>0, <2>2 DEF StoredFirst, RootData
  <2>4. KeptAsPublished(p)'
    BY <1>0, <2>1, <2>2 DEF KeptAsPublished, RootPath, RootJSON, Absent
  <2> QED
    BY <2>3, <2>4 DEF Published
<1>3. CASE StoreKeys(p)
  <2>1. /\ step[p] = "root" /\ at[p] = "ok" /\ step' = [step EXCEPT ![p] = "keys"]
        /\ Invoke(p, "tuf-keys", [keys |-> repo[p]])
        /\ UNCHANGED <<mode, repo, target>>
    BY <1>3 DEF StoreKeys, Go, flags
  <2>2. /\ step'[p] = "keys" /\ at'[p] = "get" /\ secrets' = secrets
        /\ arg'[p] = [name |-> "tuf-keys", data |-> [keys |-> repo[p]]]
    BY <1>0, <2>1 DEF Invoke, CallTypes, TufTypeOK
  <2>3. StoredFirst(p)'
    BY <1>0, <2>1, <2>2 DEF StoredFirst, RootStored, RootData
  <2>4. KeptAsPublished(p)'
    BY <1>0, <2>1, <2>2 DEF KeptAsPublished, RootPath, RootJSON, Absent
  <2> QED
    BY <2>3, <2>4 DEF Published
<1>4. CASE Stored(p)
  <2>1. /\ step[p] = IF keepKeys THEN "keys" ELSE "root"
        /\ at[p] = "ok" /\ step' = [step EXCEPT ![p] = "copy"] /\ Reset(p)
        /\ UNCHANGED <<mode, keepKeys, repo, target>>
    BY <1>4 DEF Stored, Go, flags
  <2>2. step'[p] = "copy" /\ at'[p] = "idle" /\ secrets' = secrets /\ step[p] \in {"root", "keys"}
    BY <1>0, <2>1 DEF Reset, CallTypes, TufTypeOK
  <2>3. RootStored(p) /\ (keepKeys => KeysStored(p))
    BY <1>0, <2>1 DEF StoredFirst
  <2>4. StoredFirst(p)'
    BY <1>0, <2>1, <2>2, <2>3 DEF StoredFirst, RootStored, KeysStored, RootData
  <2>5. KeptAsPublished(p)'
    BY <1>0, <2>1, <2>2 DEF KeptAsPublished, RootPath, RootJSON, Absent
  <2> QED
    BY <2>4, <2>5 DEF Published
<1>5. CASE OpenFile(p) \/ WriteFile(p)
  BY <1>5, UnpackingIsPublished
<1>6. CASE Fail(p) \/ Die(p)
  BY <1>6, RestartIsPublished DEF Fail, Die
<1>7. CASE CallStep(p) /\ UNCHANGED tufVars
  BY <1>7, CallIsPublished
<1> QED
  BY <1>1, <1>2, <1>3, <1>4, <1>5, <1>6, <1>7 DEF TufStep, Step, CallStep

----------------------------------------------------------------------------
\* The server.

LEMMA TufInitInv ==
    ASSUME Init
    PROVE  TufInv /\ \A p \in Servers : Published(p)
<1>1. CallTypes
  BY DEF Init, ReconcileInit, CallTypes, Ats
<1>2. TufTypeOK
  BY SMT, FilesAre, ServersAssumption, MaxGenAssumption
     DEF Init, ReconcileInit, TufTypeOK, Empty, Absent
<1>3. made \in Nat \ {0} /\ \A p \in Servers : Unpacked(p)
  BY SMT DEF Init, Unpacked
<1>4. ASSUME NEW p \in Servers PROVE Published(p)
  <2>1. /\ step[p] = "start" /\ at[p] = "idle" /\ target[p] = Empty
        /\ secrets["tuf-root"] = Missing /\ secrets["tuf-keys"] = Missing
    BY ServersAssumption, TufNames DEF Init, ReconcileInit
  <2>2. StoredFirst(p)
    BY SMT, <2>1 DEF StoredFirst, Missing, Nothing
  <2>3. /\ target[p][RootPath] = Absent
        /\ \A j \in DOMAIN Files : \A g \in 2..MaxGen : target[p][Path(Files[j], g)] = Absent
    BY <2>1, FilesAre, PathsAre, RootIsStored DEF Empty
  <2> QED
    BY <2>1, <2>2, <2>3 DEF Published, KeptAsPublished
<1> QED
  BY <1>1, <1>2, <1>3, <1>4 DEF TufInv, TufTypes

\* Nothing that the invariant is about has changed.
LEMMA TufStays ==
    ASSUME TufInv, UNCHANGED tufVars, CallTypes', \A q \in Servers : at'[q] = at[q]
    PROVE  TufInv'
<1>1. UNCHANGED <<mode, made, step, repo, tmp, target, next>>
  BY DEF tufVars, flags
<1>2. TufTypes'
  BY <1>1 DEF TufInv, TufTypes, TufTypeOK
<1>3. ASSUME NEW p \in Servers PROVE Unpacked(p)'
  BY <1>1 DEF TufInv, Unpacked, Has
<1> QED
  BY <1>2, <1>3 DEF TufInv

LEMMA TufStutters ==
    ASSUME TufInv, UNCHANGED vars
    PROVE  TufInv' /\ (PublishedInv => PublishedInv')
<1>1. UNCHANGED <<noK8s, step, secrets, at, arg, seen>>
  BY DEF vars, tufVars, flags, reconcileVars
<1>2. TufInv'
  <2>1. CallTypes'
    BY <1>1 DEF TufInv, TufTypes, CallTypes, Ats
  <2> QED
    BY <1>1, <2>1, TufStays DEF vars
<1>3. ASSUME NEW p \in Servers, Published(p) PROVE Published(p)'
  BY <1>1, <1>3, PublishedStays DEF SecretsStay, vars, tufVars
<1> QED
  BY <1>1, <1>2, <1>3 DEF PublishedInv

LEMMA FlagsStay ==
    ASSUME NEW p \in Servers, TufStep(p)
    PROVE  UNCHANGED flags
BY DEF TufStep, Step, Start, CreateRepo, StoreKeys, Stored, OpenFile, WriteFile, Fail, Die, Restart,
       tufVars

LEMMA TufInductive == Spec => []TufInv
<1>1. Init => TufInv
  BY TufInitInv
<1>2. TufInv /\ [Next]_vars => TufInv'
  BY TufStepInv, TufStutters DEF Next, TufStep
<1> QED
  BY <1>1, <1>2, PTL DEF Spec

\* A replica is always at one of the steps of main, with at most one call of
\* ReconcileSecret open, and then at the step that makes it.
THEOREM TufTypeCorrect == Spec => []TufTypeOK
<1>1. TufInv => TufTypeOK
  BY DEF TufInv, TufTypes
<1> QED
  BY <1>1, TufInductive, PTL

\* For any number of replicas, files, faults and generations: what initTUFRepo
\* leaves for the file server is one whole repository, because Uncompress goes
\* through the archive from its start after every restart.
THEOREM ServedRepositoryIsComplete == Spec => []ServedIsComplete
<1>1. TufInv => ServedIsComplete
  BY DEF TufInv, Unpacked, Has, ServedIsComplete
<1> QED
  BY <1>1, TufInductive, PTL

LEMMA PublishedInductive ==
    ASSUME SingleServer
    PROVE  Spec => [](TufInv /\ PublishedInv)
<1>1. Init => TufInv /\ PublishedInv
  BY TufInitInv DEF PublishedInv
<1>2. TufInv /\ PublishedInv /\ [Next]_vars => (TufInv /\ PublishedInv)'
  <2>1. ASSUME TufInv, PublishedInv, NEW p \in Servers, TufStep(p)
        PROVE  (TufInv /\ PublishedInv)'
    <3>1. noK8s' = noK8s
      BY <2>1, FlagsStay DEF flags
    <3>2. ~ noK8s => Published(p)'
      BY <2>1, PublishedStep DEF PublishedInv
    <3>3. \A q \in Servers : q = p
      BY DEF SingleServer
    <3> QED
      BY <2>1, <3>1, <3>2, <3>3, TufStepInv DEF PublishedInv
  <2> QED
    BY <2>1, TufStutters DEF Next, TufStep
<1> QED
  BY <1>1, <1>2, PTL DEF Spec

\* The invariants imply the property in every mode.
LEMMA PublishedIsServed ==
    ASSUME TufInv, PublishedInv
    PROVE  ServedIsPublished
<1> SUFFICES ASSUME NEW p \in Servers, step[p] = "serve", ~ noK8s
             PROVE  \E g \in 2..made :
                        /\ PublishedAs(p, g)
                        /\ mode # "init-no-overwrite" => \A f \in FileNames : Has(p, f, g)
  BY DEF ServedIsPublished, PublishedAs, Has
<1>1. Published(p) /\ Unpacked(p)
  BY DEF PublishedInv, TufInv
<1>2. CASE mode = "init-no-overwrite"
  BY <1>1, <1>2 DEF Published, KeptAsPublished
<1>3. CASE mode # "init-no-overwrite"
  <2>1. /\ RootStored(p) /\ (keepKeys => KeysStored(p))
        /\ repo[p] \in 2..made /\ \A f \in FileNames : Has(p, f, repo[p])
    BY <1>1, <1>3 DEF Published, StoredFirst, Unpacked
  <2>2. PublishedAs(p, repo[p])
    BY <2>1 DEF PublishedAs, RootStored, KeysStored, Has
  <2> QED
    BY <2>1, <2>2
<1> QED
  BY <1>2, <1>3

\* With one replica, whatever dies and is started again, and whichever reply
\* of the API server is lost: a client that takes the root from tuf-root finds
\* its metadata served and every target they name, also in a directory where
\* the targets of earlier repositories have stayed; the archive in tuf-root and
\* the keys in tuf-keys are of the same repository.
THEOREM ServedRootIsPublished ==
    ASSUME SingleServer
    PROVE  Spec => []ServedIsPublished
<1>1. TufInv /\ PublishedInv => ServedIsPublished
  BY PublishedIsServed
<1> QED
  BY <1>1, PublishedInductive, PTL

----------------------------------------------------------------------------
\* The installation: who writes which secret.

\* A pod of the job, or its environment, takes a step.
MakerStep(p) == MakeStep(p) \/ MakeDies(p) \/ (RequestFails(p) /\ UNCHANGED makeVars)

\* A pod of the job has an open call only while it stores tuf-secrets.
Collecting(p) ==
    /\ at[p] # "idle" <=> Storing(p)
    /\ at[p] # "idle" => arg[p].name = "tuf-secrets"

StackCalls ==
    /\ mode = "init-and-serve"
    /\ mstep \in [Makers -> 1..7]
    /\ got = [p \in Makers |-> got[p]]
    /\ \A p \in Makers : Collecting(p)
    /\ \A s \in Servers : at[s] # "idle" => arg[s].name \in {"tuf-root", "tuf-keys"}

StackBase == TufInv /\ StackCalls

\* The script takes the root from the secret while the server serves it.
\* The service is ready from the moment it serves, and stays so until the
\* server dies.
TakenInv ==
    /\ ready \in {"no", "yes", "died"}
    /\ sstep \in {"take-root", "done"} => ready # "no"
    /\ ready = "yes" => \A s \in Servers : step[s] = "serve"
    /\ sstep = "done" /\ ready = "yes" => \A s \in Servers : target[s][RootPath] = taken

----------------------------------------------------------------------------
\* The first run of the script: every key in use is the first one.

FirstKeys == [f \in OutNames |-> 1]

\* The copies of the keys, and what the pod p has made of them.
FirstCopies ==
    \A i \in DOMAIN Sources : \/ secrets[Sources[i]] = Missing
                              \/ secrets[Sources[i]].data = [k \in {SecretKey[i]} |-> 1]

FirstMade(p) ==
    /\ mstep[p] <= 5 => got[p] = [i \in 1..(mstep[p] - 1) |-> 1]
    /\ Storing(p) => arg[p].data = FirstKeys
    /\ at[p] = "update" => seen[p].data = FirstKeys

\* The secret the server mounts is made once and stays as it is.
FirstMounted ==
    /\ secrets["tuf-secrets"] = Missing \/ secrets["tuf-secrets"].data = FirstKeys
    /\ \A s \in Servers : step[s] # "start" =>
          mount[s] = FirstKeys /\ secrets["tuf-secrets"].data = FirstKeys
    /\ mount = [s \in Servers |-> mount[s]]
    /\ targets \in Seq({FirstKeys})

FirstRun ==
    /\ setups \in Nat \ {0}
    /\ setups = 1 => FirstCopies /\ (\A p \in Makers : FirstMade(p)) /\ FirstMounted

----------------------------------------------------------------------------
\* Steps of the pods stay within their frames.

\* Process p leaves the calls of the others alone, and all secrets but those
\* of N.
Within(p, N) ==
    /\ \A q \in Procs \ {p} : at'[q] = at[q] /\ arg'[q] = arg[q] /\ seen'[q] = seen[q]
    /\ \A n \in Names \ N : secrets'[n] = secrets[n]

LEMMA CallStaysWithin ==
    ASSUME CallTypes, NEW p \in Procs, NEW N, CallStep(p), at[p] # "idle" => arg[p].name \in N
    PROVE  Within(p, N) /\ CallTypes' /\ at'[p] # "idle" /\ at[p] # "idle" /\ arg' = arg
BY SMT, CallStaysInFrame DEF CallFrame, Within, Ats, Running

LEMMA InvokeStaysWithin ==
    ASSUME CallTypes, NEW p \in Procs, NEW N, NEW n, NEW d, Invoke(p, n, d)
    PROVE  /\ Within(p, N) /\ CallTypes' /\ at'[p] = "get" /\ secrets' = secrets /\ seen' = seen
           /\ arg'[p].name = n /\ arg'[p].data = d
BY DEF Invoke, Within, CallTypes, Ats

LEMMA ResetStaysWithin ==
    ASSUME CallTypes, NEW p \in Procs, NEW N, Reset(p)
    PROVE  Within(p, N) /\ CallTypes' /\ at'[p] = "idle" /\ secrets' = secrets
BY DEF Reset, Within, CallTypes, Ats

LEMMA ServerStaysWithin ==
    ASSUME StackBase, NEW s \in Servers, TufStep(s)
    PROVE  /\ Within(s, {"tuf-root", "tuf-keys"})
           /\ at'[s] # "idle" => arg'[s].name \in {"tuf-root", "tuf-keys"}
<1> DEFINE N == {"tuf-root", "tuf-keys"}
<1>0. s \in Procs /\ CallTypes /\ (at[s] # "idle" => arg[s].name \in N)
  BY ServersAssumption DEF StackBase, StackCalls, TufInv, TufTypes
<1> HIDE DEF N
<1> SUFFICES Within(s, N) /\ (at'[s] # "idle" => arg'[s].name \in N)
  BY DEF N
<1>1. CASE UNCHANGED reconcileVars
  BY <1>0, <1>1 DEF Within, reconcileVars
<1>2. CASE \E n \in N : \E d : Invoke(s, n, d)
  BY <1>0, <1>2, InvokeStaysWithin
<1>3. CASE Reset(s)
  BY <1>0, <1>3, ResetStaysWithin
<1>4. CASE CallStep(s)
  BY <1>0, <1>4, CallStaysWithin
<1> QED
  BY <1>1, <1>2, <1>3, <1>4 DEF TufStep, Step, CallStep, Start, CreateRepo, StoreKeys, Stored,
     OpenFile, WriteFile, Fail, Die, Restart, N

\* The pod p of the job: its call, its own steps, and its restart.
LEMMA MakerStaysWithin ==
    ASSUME StackBase, NEW p \in Makers, MakerStep(p)
    PROVE  /\ Within(p, {"tuf-secrets"}) /\ CallTypes' /\ Collecting(p)'
           /\ mstep' \in [Makers -> 1..7]
           /\ got' = [q \in Makers |-> got'[q]]
           /\ \A q \in Makers \ {p} : mstep'[q] = mstep[q] /\ got'[q] = got[q]
<1> DEFINE N == {"tuf-secrets"}
<1>0. /\ p \in Procs /\ CallTypes /\ Collecting(p) /\ mstep \in [Makers -> 1..7]
      /\ got = [q \in Makers |-> got[q]] /\ (at[p] # "idle" => arg[p].name \in N)
  BY MakersAssumption DEF StackBase, StackCalls, TufInv, TufTypes, Collecting
<1> HIDE DEF N
<1> SUFFICES /\ Within(p, N) /\ CallTypes' /\ Collecting(p)'
             /\ mstep' \in [Makers -> 1..7]
             /\ got' = [q \in Makers |-> got'[q]]
             /\ \A q \in Makers \ {p} : mstep'[q] = mstep[q] /\ got'[q] = got[q]
  BY DEF N
<1>1. CASE GetSecret(p)
  <2>1. /\ mstep[p] \in 1..4 /\ UNCHANGED <<secrets, at, arg, seen>>
        /\ \/ mstep' = [mstep EXCEPT ![p] = mstep[p] + 1]
           \/ mstep' = [mstep EXCEPT ![p] = 1]
        /\ \E v : got' = [got EXCEPT ![p] = v]
    BY SMT, <1>1 DEF GetSecret, MakeRestart, Sources, reconcileVars
  <2>2. CallTypes' /\ Within(p, N)
    BY <1>0, <2>1 DEF CallTypes, Within, Ats
  <2>3. Collecting(p)'
    BY SMT, <1>0, <2>1 DEF Collecting, Storing, Sources
  <2>4. mstep[p] + 1 \in 1..7 /\ 1 \in 1..7
    BY SMT, <2>1
  <2> QED
    BY <1>0, <2>1, <2>2, <2>3, <2>4
<1>2. CASE StoreSecret(p)
  <2>1. /\ mstep[p] = 5 /\ mstep' = [mstep EXCEPT ![p] = 6] /\ got' = [got EXCEPT ![p] = <<>>]
        /\ Invoke(p, "tuf-secrets", data(got[p]))
    BY SMT, <1>0, <1>2 DEF StoreSecret, Sources
  <2>2. Within(p, N) /\ CallTypes' /\ at'[p] = "get" /\ arg'[p].name = "tuf-secrets"
    BY SMT, <1>0, <2>1, InvokeStaysWithin
  <2>3. Collecting(p)'
    BY SMT, <1>0, <2>1, <2>2 DEF Collecting, Storing, Sources
  <2>4. mstep' \in [Makers -> 1..7] /\ \A q \in Makers \ {p} : mstep'[q] = mstep[q]
    BY SMT, <1>0, <2>1
  <2>5. /\ got' = [q \in Makers |-> got'[q]]
        /\ \A q \in Makers \ {p} : got'[q] = got[q]
    BY <1>0, <2>1
  <2> QED
    BY <2>2, <2>3, <2>4, <2>5
<1>3. CASE SecretStored(p) \/ MakeFails(p) \/ MakeDies(p)
  <2>1. /\ \/ mstep[p] = 6 /\ mstep' = [mstep EXCEPT ![p] = 7] /\ got' = got
           \/ mstep' = [mstep EXCEPT ![p] = 1] /\ got' = [got EXCEPT ![p] = <<>>]
        /\ Reset(p)
    BY SMT, <1>0, <1>3 DEF SecretStored, MakeFails, MakeDies, MakeRestart, Storing, Sources
  <2>2. Within(p, N) /\ CallTypes' /\ at'[p] = "idle"
    BY <1>0, <2>1, ResetStaysWithin
  <2>3. Collecting(p)'
    BY SMT, <1>0, <2>1, <2>2 DEF Collecting, Storing, Sources
  <2>4. 1 \in 1..7 /\ 7 \in 1..7
    BY SMT
  <2> QED
    BY <1>0, <2>1, <2>2, <2>3, <2>4
<1>4. CASE CallStep(p) /\ UNCHANGED makeVars
  <2>1. Within(p, N) /\ CallTypes' /\ at'[p] # "idle" /\ at[p] # "idle" /\ arg' = arg
    BY <1>0, <1>4, CallStaysWithin
  <2>2. UNCHANGED <<mstep, got>>
    BY <1>4 DEF makeVars
  <2>3. Collecting(p)'
    BY <1>0, <2>1, <2>2 DEF Collecting, Storing
  <2>4. mstep' \in [Makers -> 1..7] /\ got' = [q \in Makers |-> got'[q]]
    BY <1>0, <2>2
  <2> QED
    BY <2>1, <2>2, <2>3, <2>4
<1> QED
  BY <1>1, <1>2, <1>3, <1>4 DEF MakerStep, MakeStep, CallStep

\* A copy of the script is none of the other secrets.
CopyMove ==
    \E j \in DOMAIN Sources :
        /\ \/ secrets' = secrets
           \/ \E r : secrets' = [secrets EXCEPT ![Sources[j]] =
                                     [rv |-> r, data |-> [k \in {SecretKey[j]} |-> KeyInUse(j)]]]
        /\ UNCHANGED <<at, arg, seen, tufVars, makeVars, setups, clusterVars>>
        /\ sstep \notin {"take-root", "done"} /\ sstep' \notin {"take-root", "done"}

LEMMA CopyMoves ==
    ASSUME NEW i \in DOMAIN CopyName, Copy(i)
    PROVE  CopyMove
<1>1. i \in 1..4
  BY SMT DEF CopyName
<1> DEFINE j == CopyOrder[i]
<1>2. j \in DOMAIN Sources
  BY SMT, <1>1 DEF CopyOrder, Sources
<1>3. \/ secrets' = secrets
      \/ secrets' = [secrets EXCEPT ![Sources[j]] =
                         [rv |-> rev + 1, data |-> [k \in {SecretKey[j]} |-> KeyInUse(j)]]]
  BY DEF Copy
<1>4. sstep \notin {"take-root", "done"} /\ sstep' \notin {"take-root", "done"}
  <2>1. sstep = CopyName[i] /\ sstep' = AfterCopy[i]
    BY DEF Copy
  <2>2. \A k \in 1..4 : CopyName[k] \notin {"take-root", "done"}
    BY SMT DEF CopyName
  <2>3. \A k \in 1..4 : AfterCopy[k] \notin {"take-root", "done"}
    BY SMT DEF AfterCopy
  <2> QED
    BY <1>1, <2>1, <2>2, <2>3
<1>5. UNCHANGED <<at, arg, seen, tufVars, makeVars, setups, clusterVars>>
  BY DEF Copy
<1> HIDE DEF j
<1> QED
  BY <1>2, <1>3, <1>4, <1>5 DEF CopyMove

\* What the steps of the installation do to the pods.
ScriptMove ==
    /\ UNCHANGED <<at, arg, seen, secrets, tufVars, clusterVars>>
    /\ setups' \in {setups, setups + 1}
    /\ \/ UNCHANGED makeVars
       \/ /\ \A p \in Makers : Made(p)
          /\ mstep' = [p \in Makers |-> 1] /\ got' = [p \in Makers |-> <<>>]

LEMMA StackMoves ==
    ASSUME [StackNext]_stackVars
    PROVE  \/ ScriptMove \/ CopyMove
           \/ \E p \in Makers : MakerStep(p) /\ UNCHANGED <<tufVars, scriptVars, clusterVars>>
           \/ \E s \in Servers : TufStep(s) /\ (ServerStep(s) \/ ServerFaults(s))
                                 /\ UNCHANGED <<makeVars, scriptVars>>
<1>1. CASE Apply
  BY <1>1 DEF Apply, ScriptMove, makeVars, vars, reconcileVars
<1>2. CASE \E i \in DOMAIN CopyName : Copy(i)
  BY <1>2, CopyMoves
<1>3. CASE WaitForJobs \/ WaitForServer \/ TakeRoot \/ ScriptFails \/ UNCHANGED stackVars
  BY <1>3 DEF WaitForJobs, WaitForServer, TakeRoot, ScriptFails, stackVars, vars, reconcileVars,
     scriptVars, ScriptMove
<1>4. CASE \E p \in Makers : JobStep(p) \/ JobFaults(p)
  BY <1>4 DEF JobStep, JobFaults, MakerStep
<1>5. CASE \E s \in Servers : ServerStep(s) \/ ServerFaults(s)
  BY <1>5 DEF ServerStep, ServerFaults, TufStep
<1> QED
  BY <1>1, <1>2, <1>3, <1>4, <1>5 DEF StackNext, ScriptStep

\* The names of the copies are not those of the other secrets.
LEMMA CopyNames ==
    /\ \A j \in DOMAIN Sources : /\ Sources[j] \in Names
                                 /\ Sources[j] \notin {"tuf-root", "tuf-keys", "tuf-secrets"}
                                 /\ \A i \in DOMAIN Sources : Sources[i] = Sources[j] => i = j
    /\ {"tuf-root", "tuf-keys", "tuf-secrets"} \subseteq Names
<1>1. DOMAIN Sources = 1..4
  BY SMT DEF Sources
<1>2. \A j \in 1..4 : Sources[j] \notin {"tuf-root", "tuf-keys", "tuf-secrets"}
  BY SMT DEF Sources
<1>3. \A i, j \in 1..4 : Sources[i] = Sources[j] => i = j
  BY SMT DEF Sources
<1> QED
  BY <1>1, <1>2, <1>3, StackNames, TufNames

\* The script leaves the pods and the secrets of the server alone.
LEMMA ScriptKeepsBase ==
    ASSUME StackBase, ScriptMove \/ CopyMove
    PROVE  /\ StackBase' /\ SecretsStay
           /\ secrets'["tuf-secrets"] = secrets["tuf-secrets"]
<1>1. UNCHANGED <<at, arg, seen, tufVars>>
  BY DEF ScriptMove, CopyMove
<1>2. /\ secrets' = [n \in Names |-> secrets'[n]]
      /\ \A n \in {"tuf-root", "tuf-keys", "tuf-secrets"} : secrets'[n] = secrets[n]
  <2>1. secrets = [n \in Names |-> secrets[n]]
    BY DEF StackBase, TufInv, TufTypes, CallTypes
  <2>2. \/ secrets' = secrets
        \/ \E j \in DOMAIN Sources : \E x : secrets' = [secrets EXCEPT ![Sources[j]] = x]
    BY DEF ScriptMove, CopyMove
  <2> QED
    BY <2>1, <2>2, CopyNames
<1>3. CallTypes'
  BY <1>1, <1>2 DEF StackBase, TufInv, TufTypes, CallTypes, Ats
<1>4. TufInv'
  BY <1>1, <1>3, TufStays DEF StackBase
<1>5. /\ mstep' \in [Makers -> 1..7] /\ got' = [p \in Makers |-> got'[p]]
      /\ \A p \in Makers : Storing(p)' <=> Storing(p)
  <2>1. mstep \in [Makers -> 1..7] /\ got = [p \in Makers |-> got[p]]
    BY DEF StackBase, StackCalls
  <2>2. CASE UNCHANGED makeVars
    <3>1. UNCHANGED <<mstep, got>>
      BY <2>2 DEF makeVars
    <3> QED
      BY <2>1, <3>1 DEF Storing
  <2>3. CASE /\ \A p \in Makers : Made(p)
             /\ mstep' = [p \in Makers |-> 1] /\ got' = [p \in Makers |-> <<>>]
    BY SMT, <2>1, <2>3 DEF Made, Storing, Sources
  <2> QED
    BY <2>2, <2>3 DEF ScriptMove, CopyMove
<1>6. StackCalls'
  BY <1>1, <1>5 DEF StackBase, StackCalls, Collecting, tufVars, flags
<1> QED
  BY <1>2, <1>4, <1>6 DEF StackBase, SecretsStay

LEMMA MakerKeepsBase ==
    ASSUME StackBase, NEW p \in Makers, MakerStep(p), UNCHANGED tufVars
    PROVE  /\ StackBase' /\ SecretsStay
           /\ \A s \in Servers : at'[s] = at[s] /\ arg'[s] = arg[s] /\ seen'[s] = seen[s]
<1>1. /\ Within(p, {"tuf-secrets"}) /\ CallTypes' /\ Collecting(p)'
      /\ mstep' \in [Makers -> 1..7]
      /\ got' = [q \in Makers |-> got'[q]]
      /\ \A q \in Makers \ {p} : mstep'[q] = mstep[q] /\ got'[q] = got[q]
  BY MakerStaysWithin
<1>2. \A s \in Servers : at'[s] = at[s] /\ arg'[s] = arg[s] /\ seen'[s] = seen[s]
  BY <1>1, ServersAssumption, PodsAssumption DEF Within
<1>3. TufInv'
  BY <1>1, <1>2, TufStays DEF StackBase
<1>4. ASSUME NEW q \in Makers \ {p} PROVE Collecting(q)'
  BY SMT, <1>1, MakersAssumption DEF Within, Collecting, Storing, StackBase, StackCalls
<1>5. StackCalls'
  BY <1>1, <1>2, <1>4 DEF StackBase, StackCalls, tufVars, flags
<1>6. SecretsStay
  BY <1>1, TufNames DEF Within, SecretsStay
<1> QED
  BY <1>2, <1>3, <1>5, <1>6 DEF StackBase

LEMMA ServerKeepsBase ==
    ASSUME StackBase, NEW s \in Servers, TufStep(s), UNCHANGED makeVars
    PROVE  StackBase'
<1>1. /\ Within(s, {"tuf-root", "tuf-keys"})
      /\ at'[s] # "idle" => arg'[s].name \in {"tuf-root", "tuf-keys"}
  BY ServerStaysWithin
<1>2. ASSUME NEW p \in Makers PROVE Collecting(p)'
  <2>1. at'[p] = at[p] /\ arg'[p] = arg[p]
    BY <1>1, MakersAssumption, PodsAssumption DEF Within
  <2> QED
    BY <2>1 DEF Collecting, Storing, StackBase, StackCalls, makeVars
<1>3. ASSUME NEW q \in Servers PROVE at'[q] # "idle" => arg'[q].name \in {"tuf-root", "tuf-keys"}
  BY <1>1, ServersAssumption DEF Within, StackBase, StackCalls
<1>4. mode' = mode
  BY FlagsStay DEF flags
<1>5. StackCalls'
  BY <1>2, <1>3, <1>4 DEF StackBase, StackCalls, makeVars
<1> QED
  BY <1>5, TufStepInv DEF StackBase

LEMMA StackBaseNext ==
    ASSUME StackBase, [StackNext]_stackVars
    PROVE  StackBase'
BY StackMoves, ScriptKeepsBase, MakerKeepsBase, ServerKeepsBase

LEMMA StackInitBase ==
    ASSUME StackInit
    PROVE  StackBase
<1>1. TufInv
  BY TufInitInv DEF StackInit
<1>2. \A p \in Procs : at[p] = "idle"
  BY DEF StackInit, Init, ReconcileInit
<1>3. StackCalls
  BY SMT, <1>2, ServersAssumption, MakersAssumption
     DEF StackInit, MakeInit, StackCalls, Collecting, Storing, Sources
<1> QED
  BY <1>1, <1>3 DEF StackBase

----------------------------------------------------------------------------
\* The root the script takes.

StackPublished == ~ noK8s /\ \A s \in Servers : Published(s)

LEMMA StackPublishedNext ==
    ASSUME SingleServer, StackBase, StackPublished, [StackNext]_stackVars
    PROVE  StackPublished'
<1>1. CASE ScriptMove \/ CopyMove
  <2>1. SecretsStay /\ UNCHANGED <<at, arg, seen, tufVars>>
    BY <1>1, ScriptKeepsBase DEF ScriptMove, CopyMove
  <2>2. UNCHANGED <<at, arg, seen, made, step, repo, target, flags, noK8s>>
    BY <2>1 DEF tufVars, flags
  <2> QED
    BY <2>1, <2>2, PublishedStays DEF StackPublished
<1>2. CASE \E p \in Makers : MakerStep(p) /\ UNCHANGED <<tufVars, scriptVars, clusterVars>>
  <2>1. /\ SecretsStay /\ UNCHANGED tufVars
        /\ \A s \in Servers : at'[s] = at[s] /\ arg'[s] = arg[s] /\ seen'[s] = seen[s]
    BY <1>2, MakerKeepsBase
  <2>2. UNCHANGED <<made, step, repo, target, flags, noK8s>>
    BY <2>1 DEF tufVars, flags
  <2> QED
    BY <2>1, <2>2, PublishedStays DEF StackPublished
<1>3. CASE \E s \in Servers : TufStep(s)
  <2>1. PICK s \in Servers : TufStep(s)
    BY <1>3
  <2>2. Published(s)'
    BY <2>1, PublishedStep DEF StackBase, StackPublished
  <2>3. noK8s' = noK8s
    BY <2>1, FlagsStay DEF flags
  <2> QED
    BY <2>2, <2>3 DEF StackPublished, SingleServer
<1> QED
  BY <1>1, <1>2, <1>3, StackMoves

\* A replica that serves does nothing more until it dies.
LEMMA ServingStays ==
    ASSUME StackBase, NEW s \in Servers, step[s] = "serve"
    PROVE  ~ Step(s)
<1>1. at[s] = "idle"
  BY DEF StackBase, TufInv, TufTypes, TufTypeOK
<1>2. ~ ReconcileStep(s)
  BY <1>1 DEF ReconcileStep, Get, Create, Update, Refused
<1>3. step[s] # IF keepKeys THEN "keys" ELSE "root"
  OBVIOUS
<1> QED
  BY <1>1, <1>2, <1>3 DEF Step, Start, CreateRepo, StoreKeys, Stored, OpenFile, WriteFile, Fail

LEMMA TakenNext ==
    ASSUME SingleServer, StackBase, StackPublished, TakenInv, [StackNext]_stackVars
    PROVE  TakenInv'
<1>1. CASE TakeRoot
  <2>1. /\ sstep = "take-root" /\ sstep' = "done" /\ taken' = PublishedRoot
        /\ UNCHANGED <<ready, step, target>>
    BY <1>1 DEF TakeRoot, PublishedRoot, clusterVars, vars, tufVars
  <2>2. ASSUME ready = "yes", NEW s \in Servers PROVE target[s][RootPath] = PublishedRoot
    <3>1. step[s] = "serve" /\ mode # "init-no-overwrite" /\ RootJSON \in FileNames
      BY <2>2, FilesAssumption DEF TakenInv, StackBase, StackCalls
    <3>2. Has(s, RootJSON, repo[s]) /\ repo[s] \in 2..made /\ made \in 1..MaxGen /\ RootStored(s)
      BY <3>1 DEF StackBase, TufInv, TufTypes, TufTypeOK, Unpacked, StackPublished, Published,
         StoredFirst
    <3>3. repo[s] \in 2..MaxGen
      BY SMT, <3>2, MaxGenAssumption
    <3>4. target[s][RootPath] = repo[s]
      BY <3>1, <3>2, <3>3, PathsAre DEF Has
    <3> QED
      BY SMT, <3>2, <3>4 DEF RootStored, RootData, PublishedRoot
  <2> QED
    BY <2>1, <2>2 DEF TakenInv, RootPath, RootJSON
<1>2. CASE /\ UNCHANGED <<ready, step, target, taken>>
           /\ sstep' \in {"take-root", "done"} => ready # "no"
           /\ sstep' = "done" => sstep = "done"
  BY <1>2 DEF TakenInv, RootPath, RootJSON
<1>3. CASE \E s \in Servers : TufStep(s) /\ (ServerStep(s) \/ ServerFaults(s))
                              /\ UNCHANGED <<makeVars, scriptVars>>
  <2>1. PICK s \in Servers : TufStep(s) /\ (ServerStep(s) \/ ServerFaults(s))
                             /\ UNCHANGED <<makeVars, scriptVars>>
    BY <1>3
  <2>2. UNCHANGED <<sstep, taken>>
    BY <2>1 DEF scriptVars
  <2>3. CASE ServerFaults(s)
    <3>1. ready' = IF step[s] = "serve" THEN "died" ELSE ready
      BY <2>3 DEF ServerFaults
    <3>2. ready' # "yes"
      BY <2>1, <3>1 DEF TakenInv
    <3> QED
      BY <2>2, <3>1, <3>2 DEF TakenInv
  <2>4. CASE ServerStep(s) /\ step[s] # "serve"
    <3>1. ready' = IF ready = "no" /\ step'[s] = "serve" THEN "yes" ELSE ready
      BY <2>4 DEF ServerStep
    <3>2. ready # "yes" /\ \A q \in Servers : q = s
      BY <2>4 DEF TakenInv, SingleServer
    <3> QED
      BY <2>2, <3>1, <3>2 DEF TakenInv
  <2>5. CASE ServerStep(s) /\ step[s] = "serve"
    BY <2>5, ServingStays DEF ServerStep
  <2> QED
    BY <2>1, <2>3, <2>4, <2>5
<1>4. CASE Apply \/ WaitForJobs \/ WaitForServer \/ ScriptFails \/ UNCHANGED stackVars
  <2>1. UNCHANGED <<ready, step, target, taken>>
    BY <1>4 DEF Apply, WaitForJobs, WaitForServer, ScriptFails, stackVars, vars, tufVars, scriptVars,
       clusterVars
  <2>2. \/ sstep' \in {"copy-1", "wait-server", "apply"} \/ sstep' = sstep
        \/ sstep' = "take-root" /\ ready # "no"
    BY <1>4 DEF Apply, WaitForJobs, WaitForServer, ScriptFails, stackVars, scriptVars
  <2> QED
    BY <1>2, <2>1, <2>2 DEF TakenInv
<1>5. CASE \/ CopyMove
           \/ \E p \in Makers : MakerStep(p) /\ UNCHANGED <<tufVars, scriptVars, clusterVars>>
  <2>1. UNCHANGED <<ready, step, target>> /\ (sstep' = sstep \/ sstep' \notin {"take-root", "done"})
    BY <1>5 DEF CopyMove, tufVars, scriptVars, clusterVars
  <2>2. taken' = taken \/ (CopyMove /\ sstep' # "done")
    BY <1>5 DEF CopyMove, scriptVars
  <2> QED
    BY <2>1, <2>2 DEF TakenInv, RootPath, RootJSON
<1>6. CASE ScriptStep
  BY <1>1, <1>4, <1>5, <1>6, CopyMoves DEF ScriptStep
<1>7. CASE \E p \in Makers : JobStep(p) \/ JobFaults(p)
  BY <1>5, <1>7 DEF JobStep, JobFaults, MakerStep
<1>8. CASE \E s \in Servers : ServerStep(s) \/ ServerFaults(s)
  BY <1>3, <1>8 DEF ServerStep, ServerFaults, TufStep
<1> QED
  BY <1>4, <1>6, <1>7, <1>8 DEF StackNext
LEMMA StackInductive ==
    ASSUME SingleServer
    PROVE  StackSpec => [](StackBase /\ StackPublished /\ TakenInv)
<1>1. StackInit => StackBase /\ StackPublished /\ TakenInv
  <2>1. StackInit => StackPublished
    BY TufInitInv DEF StackInit, StackPublished
  <2>2. StackInit => TakenInv
    BY DEF StackInit, TakenInv
  <2> QED
    BY <2>1, <2>2, StackInitBase
<1>2. StackBase /\ StackPublished /\ TakenInv /\ [StackNext]_stackVars
          => (StackBase /\ StackPublished /\ TakenInv)'
  BY StackBaseNext, StackPublishedNext, TakenNext
<1> QED
  BY <1>1, <1>2, PTL DEF StackSpec

\* With one replica, for any number of pods of the job, runs of the script and
\* faults: the root.json the script leaves behind is the one being served,
\* because it is taken from tuf-root after the service was ready.
THEOREM TakenRootIsServed ==
    ASSUME SingleServer
    PROVE  StackSpec => []RootIsServed
<1>1. TakenInv => RootIsServed
  BY DEF TakenInv, RootIsServed
<1> QED
  BY <1>1, StackInductive, PTL

----------------------------------------------------------------------------
\* The targets of the first run.

\* The values of the four Gets make the whole Data map.
LEMMA FirstData == data([i \in 1..4 |-> 1]) = FirstKeys
<1>1. DOMAIN Sources = 1..4 /\ DOMAIN [i \in 1..4 |-> 1] = 1..4
  BY SMT DEF Sources
<1>2. ASSUME NEW k \in OutNames
      PROVE  (CHOOSE i \in 1..4 : SecretKeyOut[i] = k) \in 1..4
  <2>1. \E i \in 1..4 : SecretKeyOut[i] = k
    BY <1>1 DEF OutNames
  <2> QED
    BY <2>1
<1> QED
  BY <1>1, <1>2 DEF data, FirstKeys, OutNames
\* What the steps of the pods of the job may do to tuf-secrets.
FirstWritten ==
    \/ secrets'["tuf-secrets"] = secrets["tuf-secrets"]
    \/ secrets'["tuf-secrets"].data = FirstKeys

\* A step of a call that stores the four keys.
LEMMA FirstCall ==
    ASSUME StackBase, NEW p \in Makers, FirstMade(p), FirstMounted,
           CallStep(p), UNCHANGED makeVars
    PROVE  FirstMade(p)' /\ FirstWritten
<1>0. p \in Procs /\ CallTypes /\ Collecting(p) /\ "tuf-secrets" \in Names
  BY MakersAssumption, CopyNames DEF StackBase, StackCalls, TufInv, TufTypes
<1>1. CallFrame(p)
  BY <1>0, CallStaysInFrame
<1>2. /\ Storing(p) /\ arg[p].name = "tuf-secrets" /\ arg[p].data = FirstKeys /\ arg' = arg
  BY <1>0, <1>1 DEF CallFrame, Running, Collecting, FirstMade
<1>3. /\ DOMAIN FirstKeys = OutNames /\ FirstKeys = [k \in DOMAIN FirstKeys |-> FirstKeys[k]]
      /\ DOMAIN Missing.data = {}
  BY DEF FirstKeys, Missing, Nothing
<1>4. Covers(p)
  BY <1>0, <1>2, <1>3 DEF Covers, FirstMade, FirstMounted
<1>5. CallWrites(p)
  BY <1>0, <1>4, CoveringCall
<1>6. FirstWritten
  BY SMT, <1>0, <1>2, <1>5 DEF CallWrites, FirstWritten, CallTypes
<1>7. at'[p] = "update" => seen'[p].data = FirstKeys
  BY <1>1, <1>2 DEF CallFrame, FirstMounted
<1>8. UNCHANGED <<mstep, got>> /\ FirstKeys' = FirstKeys
  BY DEF makeVars, FirstKeys, OutNames
<1>9. FirstMade(p)'
  BY <1>2, <1>7, <1>8 DEF FirstMade, Storing
<1> QED
  BY <1>6, <1>9

LEMMA OneMore ==
    ASSUME NEW n \in Nat \ {0}
    PROVE  Append([i \in 1..(n - 1) |-> 1], 1) = [i \in 1..n |-> 1]
<1> DEFINE s == [i \in 1..(n - 1) |-> 1]
<1>1. s \in Seq({1}) /\ Len(s) = n - 1
  BY SMT
<1>2. /\ Append(s, 1) \in Seq({1}) /\ Len(Append(s, 1)) = n
  BY SMT, <1>1
<1>3. \A i \in 1..n : Append(s, 1)[i] = 1
  BY SMT, <1>2
<1> QED
  BY SMT, <1>2, <1>3

\* One more Get of a copy.
LEMMA FirstGet ==
    ASSUME StackBase, NEW p \in Makers, FirstMade(p), FirstCopies, GetSecret(p)
    PROVE  FirstMade(p)' /\ secrets' = secrets
<1>0. /\ p \in Procs /\ mstep \in [Makers -> 1..7] /\ got = [q \in Makers |-> got[q]]
      /\ Collecting(p) /\ mstep[p] \in 1..4 /\ mstep[p] \in DOMAIN Sources
  BY SMT, MakersAssumption DEF StackBase, StackCalls, GetSecret, Sources
<1>1. UNCHANGED <<secrets, at, arg, seen>> /\ at[p] = "idle"
  BY SMT, <1>0 DEF GetSecret, reconcileVars, Collecting, Storing, Sources
<1> DEFINE m == mstep[p]
           d == secrets[Sources[m]].data
<1>2. CASE SecretKey[m] \in DOMAIN d
  <2>1. d[SecretKey[m]] = 1
    <3>1. secrets[Sources[m]] = Missing \/ d = [k \in {SecretKey[m]} |-> 1]
      BY <1>0 DEF FirstCopies
    <3>2. DOMAIN Missing.data = {}
      BY DEF Missing, Nothing
    <3> HIDE DEF m
    <3> QED
      BY <1>2, <3>1, <3>2
  <2>2. /\ mstep' = [mstep EXCEPT ![p] = m + 1]
        /\ got' = [got EXCEPT ![p] = Append(got[p], 1)]
    BY <1>2, <2>1 DEF GetSecret
  <2>3. mstep'[p] = m + 1 /\ got'[p] = Append([i \in 1..(m - 1) |-> 1], 1)
    BY SMT, <1>0, <2>2 DEF FirstMade
  <2>4. Append([i \in 1..(m - 1) |-> 1], 1) = [i \in 1..m |-> 1]
    <3>1. m \in Nat \ {0}
      BY SMT, <1>0
    <3> HIDE DEF m
    <3> QED
      BY <3>1, OneMore, Zenon
  <2>5. mstep'[p] - 1 = m /\ ~ Storing(p)'
    BY SMT, <1>0, <2>3 DEF Storing, Sources
  <2> QED
    BY <1>1, <2>3, <2>4, <2>5 DEF FirstMade
<1>3. CASE SecretKey[m] \notin DOMAIN d
  <2>1. mstep'[p] = 1 /\ got'[p] = <<>>
    BY <1>0, <1>3 DEF GetSecret, MakeRestart
  <2>2. <<>> = [i \in 1..0 |-> 1]
    BY SMT
  <2> QED
    BY SMT, <1>1, <2>1, <2>2 DEF FirstMade, Storing, Sources
<1> QED
  BY <1>2, <1>3

LEMMA FirstMaker ==
    ASSUME StackBase, NEW p \in Makers, FirstMade(p), FirstCopies, FirstMounted, MakerStep(p)
    PROVE  FirstMade(p)' /\ FirstWritten
<1>0. /\ p \in Procs /\ CallTypes /\ mstep \in [Makers -> 1..7] /\ got = [q \in Makers |-> got[q]]
      /\ Collecting(p)
  BY MakersAssumption DEF StackBase, StackCalls, TufInv, TufTypes
<1>1. CASE GetSecret(p)
  <2>1. FirstMade(p)' /\ secrets' = secrets
    BY <1>1, FirstGet
  <2> QED
    BY <2>1 DEF FirstWritten
<1>2. CASE StoreSecret(p)
  <2>1. /\ mstep[p] = 5 /\ mstep' = [mstep EXCEPT ![p] = 6]
        /\ Invoke(p, "tuf-secrets", data(got[p]))
    BY SMT, <1>0, <1>2 DEF StoreSecret, Sources
  <2>2. got[p] = [i \in 1..4 |-> 1]
    BY SMT, <2>1 DEF FirstMade
  <2>3. data(got[p]) = FirstKeys
    BY <2>2, FirstData
  <2>4. at'[p] = "get" /\ secrets' = secrets /\ arg'[p].data = FirstKeys
    BY <1>0, <2>1, <2>3 DEF Invoke, CallTypes
  <2>5. mstep'[p] = 6 /\ FirstKeys' = FirstKeys
    BY <1>0, <2>1 DEF FirstKeys, OutNames
  <2> QED
    BY SMT, <2>4, <2>5 DEF FirstMade, FirstWritten
<1>3. CASE SecretStored(p) \/ MakeFails(p) \/ MakeDies(p)
  <2>1. /\ \/ mstep'[p] = 7
           \/ mstep'[p] = 1 /\ got'[p] = <<>>
        /\ Reset(p)
    BY SMT, <1>0, <1>3 DEF SecretStored, MakeFails, MakeDies, MakeRestart, Storing, Sources
  <2>2. at'[p] = "idle" /\ secrets' = secrets
    BY <1>0, <2>1, ResetStaysWithin
  <2>3. mstep'[p] <= 5 => got'[p] = [i \in 1..(mstep'[p] - 1) |-> 1]
    <3>1. <<>> = [i \in 1..(1 - 1) |-> 1]
      BY SMT
    <3> QED
      BY SMT, <2>1, <3>1
  <2>4. ~ Storing(p)'
    BY SMT, <2>1 DEF Storing, Sources
  <2>5. FirstWritten
    BY <2>2 DEF FirstWritten
  <2> QED
    BY <2>2, <2>3, <2>4, <2>5 DEF FirstMade
<1>4. CASE CallStep(p) /\ UNCHANGED makeVars
  BY <1>4, FirstCall
<1> QED
  BY <1>1, <1>2, <1>3, <1>4 DEF MakerStep, MakeStep, CallStep

\* Both contents of the volume are the same, whenever the kubelet changes it.
LEMMA FirstRead ==
    ASSUME NEW k
    PROVE  ReadFiles(FirstKeys, FirstKeys, k) = FirstKeys
BY DEF ReadFiles, FirstKeys

\* A server mounts, and reads, the secret the job has stored.
LEMMA FirstServer ==
    ASSUME StackBase, FirstMounted, NEW s \in Servers, TufStep(s), ServerStep(s) \/ ServerFaults(s)
    PROVE  FirstMounted'
<1>0. /\ CallTypes /\ TufTypeOK /\ made \in Nat
      /\ Within(s, {"tuf-root", "tuf-keys"}) /\ "tuf-secrets" \in Names
  <2>1. Within(s, {"tuf-root", "tuf-keys"})
    BY ServerStaysWithin
  <2>2. "tuf-secrets" \in Names
    BY CopyNames
  <2> QED
    BY <2>1, <2>2 DEF StackBase, TufInv, TufTypes
<1>1. secrets'["tuf-secrets"] = secrets["tuf-secrets"]
  BY <1>0 DEF Within
<1>2. \A q \in Servers \ {s} : step'[q] = step[q]
  BY SMT, <1>0 DEF TufStep, Step, Start, CreateRepo, StoreKeys, Stored, OpenFile, WriteFile, Fail, Die,
     Restart, Go, tufVars, TufTypeOK
<1>3. FirstKeys' = FirstKeys
  BY DEF FirstKeys, OutNames
<1>4. CASE ServerStep(s)
  <2>1. /\ secrets["tuf-secrets"].data = FirstKeys
        /\ step[s] # "start" => mount[s] = FirstKeys
    BY <1>4 DEF ServerStep, FirstMounted
  <2>2. mount' = [q \in Servers |-> mount'[q]] /\ mount'[s] = FirstKeys
        /\ \A q \in Servers \ {s} : mount'[q] = mount[q]
    BY <1>4, <2>1 DEF ServerStep, FirstMounted
  <2>3. targets' \in Seq({FirstKeys})
    <3>1. CASE made' = made
      BY <1>4, <3>1 DEF ServerStep, FirstMounted
    <3>2. CASE made' # made
      <4>1. CreateRepo(s)
        BY <1>4, <3>2 DEF ServerStep, Step, Start, StoreKeys, Stored, OpenFile, WriteFile, Fail,
           Restart, tufVars
      <4>2. mount[s] = FirstKeys
        BY <2>1, <4>1 DEF CreateRepo
      <4>3. targets' = Append(targets, FirstKeys)
        BY <1>4, <2>1, <3>2, <4>2, FirstRead DEF ServerStep
      <4> QED
        BY SMT, <4>3 DEF FirstMounted
    <3> QED
      BY <3>1, <3>2
  <2> QED
    BY <1>1, <1>2, <1>3, <2>1, <2>2, <2>3 DEF FirstMounted
<1>5. CASE ServerFaults(s)
  <2>1. UNCHANGED <<mount, targets>> /\ (step'[s] = "start" \/ step'[s] = step[s])
    BY <1>0, <1>5 DEF ServerFaults, Die, Restart, Go, tufVars, TufTypeOK
  <2> QED
    BY <1>1, <1>2, <1>3, <2>1 DEF FirstMounted
<1> QED
  BY <1>4, <1>5

\* The copies are of the first keys as long as the script is in its first run.
LEMMA FirstCopied ==
    ASSUME StackBase, setups = 1, FirstCopies, CopyMove
    PROVE  FirstCopies'
<1>1. PICK j \in DOMAIN Sources :
          \/ secrets' = secrets
          \/ \E r : secrets' = [secrets EXCEPT ![Sources[j]] =
                                    [rv |-> r, data |-> [k \in {SecretKey[j]} |-> KeyInUse(j)]]]
  BY DEF CopyMove
<1>2. KeyInUse(j) = 1
  BY DEF KeyInUse
<1>3. \/ secrets' = secrets
      \/ /\ secrets'[Sources[j]].data = [k \in {SecretKey[j]} |-> 1]
         /\ \A n \in Names \ {Sources[j]} : secrets'[n] = secrets[n]
  BY SMT, <1>1, <1>2, CopyNames DEF StackBase, TufInv, TufTypes, CallTypes
<1> SUFFICES ASSUME NEW i \in DOMAIN Sources
             PROVE  \/ secrets'[Sources[i]] = Missing
                    \/ secrets'[Sources[i]].data = [k \in {SecretKey[i]} |-> 1]
  BY DEF FirstCopies, Sources, SecretKey, Missing, Nothing
<1>4. CASE i = j
  BY <1>3, <1>4 DEF FirstCopies
<1>5. CASE i # j
  BY <1>3, <1>5, CopyNames DEF FirstCopies
<1> QED
  BY <1>4, <1>5

LEMMA FirstRunNext ==
    ASSUME StackBase, FirstRun, [StackNext]_stackVars
    PROVE  FirstRun'
<1>0. FirstKeys' = FirstKeys
  BY DEF FirstKeys, OutNames
<1>1. CASE ScriptMove
  <2>1. setups' \in Nat \ {0} /\ (setups' = 1 => setups = 1)
    BY SMT, <1>1 DEF ScriptMove, FirstRun
  <2>2. UNCHANGED <<at, arg, seen, secrets, step, mount, targets>>
    BY <1>1 DEF ScriptMove, tufVars, clusterVars
  <2>3. ASSUME setups = 1, NEW p \in Makers PROVE FirstMade(p)'
    <3>1. FirstMade(p) /\ Collecting(p)
      BY <2>3 DEF FirstRun, StackBase, StackCalls
    <3>2. CASE UNCHANGED makeVars
      BY <1>0, <2>2, <3>1, <3>2 DEF FirstMade, makeVars, Storing
    <3>3. CASE mstep'[p] = 1 /\ got'[p] = <<>> /\ Made(p)
      <4>1. at[p] = "idle"
        BY SMT, <3>1, <3>3 DEF Collecting, Storing, Made, Sources
      <4>2. <<>> = [i \in 1..0 |-> 1]
        BY SMT
      <4> QED
        BY SMT, <2>2, <3>3, <4>1, <4>2 DEF FirstMade, Storing, Sources
    <3> QED
      BY <1>1, <3>2, <3>3 DEF ScriptMove
  <2>4. setups = 1 => FirstCopies' /\ FirstMounted'
    BY <1>0, <2>2 DEF FirstRun, FirstCopies, FirstMounted, Sources, SecretKey, Missing, Nothing
  <2> QED
    BY <2>1, <2>3, <2>4 DEF FirstRun
<1>2. CASE CopyMove
  <2>1. UNCHANGED <<at, arg, seen, step, mstep, got, setups, mount, targets>>
    BY <1>2 DEF CopyMove, tufVars, makeVars, clusterVars
  <2>2. secrets'["tuf-secrets"] = secrets["tuf-secrets"]
    BY <1>2, ScriptKeepsBase
  <2>3. ASSUME setups = 1, NEW p \in Makers PROVE FirstMade(p)'
    BY <1>0, <2>1, <2>3 DEF FirstRun, FirstMade, Storing
  <2>4. setups = 1 => FirstMounted'
    BY <1>0, <2>1, <2>2 DEF FirstRun, FirstMounted, Missing, Nothing
  <2>5. setups = 1 => FirstCopies'
    BY <1>2, FirstCopied DEF FirstRun
  <2> QED
    BY <2>1, <2>3, <2>4, <2>5 DEF FirstRun
<1>3. CASE \E p \in Makers : MakerStep(p) /\ UNCHANGED <<tufVars, scriptVars, clusterVars>>
  <2>1. PICK p \in Makers : MakerStep(p) /\ UNCHANGED <<tufVars, scriptVars, clusterVars>>
    BY <1>3
  <2>2. UNCHANGED <<step, setups, mount, targets>>
    BY <2>1 DEF tufVars, scriptVars, clusterVars
  <2>3. /\ Within(p, {"tuf-secrets"})
        /\ \A q \in Makers \ {p} : mstep'[q] = mstep[q] /\ got'[q] = got[q]
    BY <2>1, MakerStaysWithin
  <2>4. setups = 1 => FirstMade(p)' /\ FirstWritten
    BY <2>1, FirstMaker DEF FirstRun
  <2>5. ASSUME setups = 1, NEW q \in Makers \ {p} PROVE FirstMade(q)'
    <3>1. at'[q] = at[q] /\ arg'[q] = arg[q] /\ seen'[q] = seen[q]
      BY <2>3, MakersAssumption DEF Within
    <3> QED
      BY SMT, <1>0, <2>3, <2>5, <3>1 DEF FirstRun, FirstMade, Storing
  <2>6. setups = 1 => FirstMounted'
    BY <1>0, <2>2, <2>4 DEF FirstRun, FirstMounted, FirstWritten, Missing, Nothing
  <2>7. setups = 1 => FirstCopies'
    <3>1. \A i \in DOMAIN Sources : secrets'[Sources[i]] = secrets[Sources[i]]
      BY <2>3, CopyNames DEF Within
    <3> QED
      BY <3>1 DEF FirstRun, FirstCopies, Sources, SecretKey, Missing, Nothing
  <2> QED
    BY <2>2, <2>4, <2>5, <2>6, <2>7 DEF FirstRun
<1>4. CASE \E s \in Servers : TufStep(s) /\ (ServerStep(s) \/ ServerFaults(s))
                              /\ UNCHANGED <<makeVars, scriptVars>>
  <2>1. PICK s \in Servers : TufStep(s) /\ (ServerStep(s) \/ ServerFaults(s))
                             /\ UNCHANGED <<makeVars, scriptVars>>
    BY <1>4
  <2>2. UNCHANGED <<mstep, got, setups>>
    BY <2>1 DEF makeVars, scriptVars
  <2>3. Within(s, {"tuf-root", "tuf-keys"})
    BY <2>1, ServerStaysWithin
  <2>4. ASSUME setups = 1, NEW p \in Makers PROVE FirstMade(p)'
    <3>1. at'[p] = at[p] /\ arg'[p] = arg[p] /\ seen'[p] = seen[p]
      BY <2>3, MakersAssumption, PodsAssumption DEF Within
    <3> QED
      BY <1>0, <2>2, <2>4, <3>1 DEF FirstRun, FirstMade, Storing
  <2>5. setups = 1 => FirstMounted'
    BY <2>1, FirstServer DEF FirstRun
  <2>6. setups = 1 => FirstCopies'
    <3>1. \A i \in DOMAIN Sources : secrets'[Sources[i]] = secrets[Sources[i]]
      BY <2>3, CopyNames DEF Within
    <3> QED
      BY <3>1 DEF FirstRun, FirstCopies, Sources, SecretKey, Missing, Nothing
  <2> QED
    BY <2>2, <2>4, <2>5, <2>6 DEF FirstRun
<1> QED
  BY <1>1, <1>2, <1>3, <1>4, StackMoves

LEMMA FirstRunInit ==
    ASSUME StackInit
    PROVE  FirstRun
<1>1. \A n \in Names : secrets[n] = Missing
  BY DEF StackInit, Init
<1>2. FirstCopies /\ secrets["tuf-secrets"] = Missing
  BY <1>1, CopyNames DEF FirstCopies
<1>3. <<>> = [i \in 1..0 |-> 1]
  BY SMT
<1>4. ASSUME NEW p \in Makers PROVE FirstMade(p)
  <2>1. mstep[p] = 1 /\ got[p] = <<>> /\ at[p] = "idle"
    BY MakersAssumption DEF StackInit, Init, ReconcileInit, MakeInit
  <2> QED
    BY SMT, <1>3, <2>1 DEF FirstMade, Storing, Sources
<1>5. FirstMounted
  BY SMT, <1>2 DEF FirstMounted, StackInit, Init
<1> QED
  BY SMT, <1>2, <1>4, <1>5 DEF FirstRun, StackInit

\* For any number of replicas, of pods of the job and of faults: in the first
\* run of the script no repository is made of a part of the keys, although
\* the manifests are applied before the keys are copied.  The job stores its
\* secret only when it has read all four, and the server waits for its volume.
THEOREM FirstTargetsAreComplete == StackSpec => []TargetsAreKeysInUse
<1>1. StackInit => StackBase /\ FirstRun
  BY StackInitBase, FirstRunInit
<1>2. StackBase /\ FirstRun /\ [StackNext]_stackVars => (StackBase /\ FirstRun)'
  BY StackBaseNext, FirstRunNext
<1>3. FirstRun => TargetsAreKeysInUse
  <2>1. ASSUME setups = 1 PROVE \A i : KeyInUse(i) = 1
    BY <2>1 DEF KeyInUse
  <2>2. ASSUME FirstRun, setups = 1, NEW g \in DOMAIN targets PROVE targets[g] = FirstKeys
    BY SMT, <2>2 DEF FirstRun, FirstMounted
  <2> QED
    BY <2>1, <2>2 DEF TargetsAreKeysInUse, FirstKeys
<1> QED
  BY <1>1, <1>2, <1>3, PTL DEF StackSpec

=============================================================================
