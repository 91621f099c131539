--------------------------- MODULE KeyJobsProofs ---------------------------
(***************************************************************************)
(* Proofs about the key jobs, for any number of pods, runs and faults and  *)
(* for every content the secrets may have before: no secret ever mixes two *)
(* generations, and if pods do not overlap both secrets are of the same    *)
(* generation in the end and a complete chain is never replaced.           *)
(***************************************************************************)
EXTENDS KeyJobs, SecretReconcileProofs

\* Most steps are for Zenon; those that need arithmetic or the theory of
\* functions say so.
USE ZenonT(20)

Steps == {"start", "main", "pub", "done"}

\* The entries of the two secrets, and a whole generation of them.
Keys(n) == IF n = "main" THEN MainKeys ELSE PubKeys
Whole(n, g) == [k \in Keys(n) |-> g]

\* Some of the entries of secret n, all of one generation.
IsPart(n, d) ==
    /\ DOMAIN d \subseteq Keys(n)
    /\ \E g \in 0..made : d = [k \in DOMAIN d |-> g]

JobTypes ==
    /\ prog \in Programs
    /\ made \in Nat
    /\ step \in [Procs -> Steps]
    /\ gen \in [Procs -> 0..made]
    /\ CallTypes
    /\ \A p \in Procs : at[p] # "idle" <=> AtWork(p)

\* A pod at work hands a whole generation, its own, to ReconcileSecret.
Target(p) == IF step[p] = "main" THEN "main" ELSE "pub"

ArgsAreWhole ==
    \A p \in Procs : AtWork(p) =>
        arg[p].name = Target(p) /\ arg[p].data = Whole(Target(p), gen[p])

\* createcertchain has no public part.
ChainHasNoPub == prog = "createcertchain" => \A p \in Procs : step[p] # "pub"

\* What secrets hold, and what pods have read of them, is of one generation.
DataIsUniform ==
    /\ \A n \in Names : IsPart(n, Secret(n))
    /\ \A p \in Procs : at[p] = "update" => IsPart(arg[p].name, seen[p].data)

JobInv == JobTypes /\ ArgsAreWhole /\ ChainHasNoPub /\ DataIsUniform

\* Without overlap one pod at most is at work, what it has written stays until
\* it has finished, and createcertchain has something to do until then.
OneAtWork == \A p, q \in Procs : AtWork(p) /\ AtWork(q) => p = q

WrittenStays ==
    \A p \in Procs :
        /\ step[p] = "pub" \/ (step[p] = "main" /\ at[p] = "ok") =>
              Secret("main") = Whole("main", gen[p])
        /\ step[p] = "pub" /\ at[p] = "ok" => Secret("pub") = Whole("pub", gen[p])

ChainIsNeeded ==
    \A p \in Procs : at[p] \in Running => ~ NothingToDo(Secret("main"))

Alone == overlap = "no" => OneAtWork /\ WrittenStays /\ ChainIsNeeded

----------------------------------------------------------------------------
\* Data maps.

\* The Data maps the programs build are whole generations.
LEMMA MainDataIsWhole ==
    ASSUME prog \in Programs, NEW g
    PROVE  MainData(g) = Whole("main", g)
<1>1. CASE prog = "createcerts"
  <2>1. MainData(g) = createAll(g) /\ MainKeys = {"cert", "private", "public", "password"}
    BY <1>1 DEF MainData, MainKeys
  <2> QED
    BY SMT, <2>1 DEF createAll, Whole, Keys
<1>2. CASE prog = "rekor-createsecret"
  <2>1. MainData(g) = signingSecretData(g) /\ MainKeys = {"signing"}
    BY <1>2 DEF MainData, MainKeys
  <2> QED
    BY SMT, <2>1 DEF signingSecretData, Whole, Keys
<1>3. CASE prog = "createcertchain"
  <2>1. MainData(g) = secretData(g) /\ MainKeys = {"chain", "signing", "password"}
    BY <1>3 DEF MainData, MainKeys
  <2> QED
    BY SMT, <2>1 DEF secretData, Whole, Keys
<1> QED
  BY <1>1, <1>2, <1>3 DEF Programs

LEMMA PubDataIsWhole ==
    ASSUME prog \in Programs, prog # "createcertchain", NEW g
    PROVE  PubData(g) = Whole("pub", g)
<1>1. CASE prog = "createcerts"
  <2>1. PubData(g) = fulcioPubData(g) /\ PubKeys = {"cert", "public"}
    BY <1>1 DEF PubData, PubKeys
  <2> QED
    BY SMT, <2>1 DEF fulcioPubData, Whole, Keys
<1>2. CASE prog = "rekor-createsecret"
  <2>1. PubData(g) = publicKeyData(g) /\ PubKeys = {"public"}
    BY <1>2 DEF PubData, PubKeys
  <2> QED
    BY SMT, <2>1 DEF publicKeyData, Whole, Keys
<1> QED
  BY <1>1, <1>2 DEF Programs

\* The program never changes, and with it what its secrets hold.
LEMMA ProgramStays ==
    ASSUME prog' = prog
    PROVE  /\ \A n : Keys(n)' = Keys(n)
           /\ \A n, g : Whole(n, g)' = Whole(n, g)
           /\ \A d : NothingToDo(d)' <=> NothingToDo(d)
<1>1. MainKeys' = MainKeys /\ PubKeys' = PubKeys
  BY DEF MainKeys, PubKeys
<1> QED
  BY <1>1 DEF Keys, Whole, NothingToDo

\* A part stays a part when further generations are made.
LEMMA PartStays ==
    ASSUME prog' = prog, made \in Nat, made' \in Nat, made <= made',
           NEW n, NEW d, IsPart(n, d)
    PROVE  IsPart(n, d)'
<1>1. DOMAIN d \subseteq Keys(n)'
  BY ProgramStays DEF IsPart
<1>2. PICK g \in 0..made : d = [k \in DOMAIN d |-> g]
  BY DEF IsPart
<1>3. g \in 0..made'
  BY SMT
<1> QED
  BY <1>1, <1>2, <1>3 DEF IsPart

\* A whole generation is a part.
LEMMA WholeIsPart ==
    ASSUME NEW n, NEW g \in 0..made
    PROVE  IsPart(n, Whole(n, g))
BY DEF IsPart, Whole

----------------------------------------------------------------------------
\* ReconcileSecret, called by a job.

\* Every step of a call writes nothing, or all of the generation it was called
\* with, and if it succeeds the secret holds that generation.
CallEffect(p) == CallFrame(p) /\ CallWrites(p) /\ CallTypes'

LEMMA CallsWriteWhole ==
    ASSUME JobInv, NEW p \in Procs, CallStep(p)
    PROVE  CallEffect(p) /\ AtWork(p)
<1>1. CallFrame(p) /\ CallTypes'
  BY CallStaysInFrame DEF JobInv, JobTypes
<1>2. AtWork(p)
  BY <1>1 DEF CallFrame, Running, JobInv, JobTypes
<1> DEFINE n == arg[p].name
           d == arg[p].data
<1>3. n \in Names /\ d = Whole(n, gen[p])
  BY <1>2, JobNames DEF JobInv, ArgsAreWhole, Target
<1>4. \A old : IsPart(n, old) => DOMAIN old \subseteq DOMAIN d
  BY <1>3 DEF IsPart, Whole
<1>5. Covers(p)
  <2>1. d = [k \in DOMAIN d |-> d[k]]
    BY <1>3 DEF Whole
  <2>2. IsPart(n, secrets[n].data) /\ (at[p] = "update" => IsPart(n, seen[p].data))
    BY <1>3 DEF JobInv, DataIsUniform, Secret
  <2> QED
    BY <1>3, <1>4, <2>1, <2>2 DEF Covers
<1> QED
  BY <1>1, <1>2, <1>5, CoveringCall DEF CallEffect, JobInv, JobTypes

----------------------------------------------------------------------------
\* No secret mixes generations.

\* The initial secrets hold parts of generation 0.
LEMMA JobInitInv == Init => JobInv
<1> SUFFICES ASSUME Init PROVE JobInv
  OBVIOUS
<1>1. \A p \in Procs : step[p] = "start" /\ at[p] = "idle"
  BY DEF Init, ReconcileInit
<1>2. JobTypes
  <2>1. secrets = [n \in Names |-> secrets[n]]
    BY JobNames DEF Init, Before
  <2> QED
    BY SMT, <1>1, <2>1 DEF Init, ReconcileInit, JobTypes, CallTypes, Steps, Ats, AtWork
<1>3. ASSUME NEW n \in Names PROVE IsPart(n, Secret(n))
  <2> DEFINE Parts(keys) == {Missing} \cup {[rv |-> 1, data |-> [k \in K |-> 0]] :
                                               K \in (SUBSET keys) \ {{}}}
  <2>1. secrets[n] \in Parts(Keys(n))
    BY <1>3, JobNames DEF Init, Before, Keys
  <2>2. CASE secrets[n] = Missing
    BY SMT, <2>2 DEF Missing, Nothing, IsPart, Secret, Init
  <2>3. CASE secrets[n] # Missing
    <3>1. PICK K \in SUBSET Keys(n) : secrets[n] = [rv |-> 1, data |-> [k \in K |-> 0]]
      BY <2>1, <2>3
    <3> QED
      BY SMT, <3>1 DEF IsPart, Secret, Init
  <2> QED
    BY <2>2, <2>3
<1> QED
  BY <1>1, <1>2, <1>3 DEF JobInv, ArgsAreWhole, ChainHasNoPub, DataIsUniform, AtWork

\* Steps that leave secrets and the API server alone and move one pod.
LEMMA PodMoves ==
    ASSUME JobInv, NEW p \in Procs, JobTypes', prog' = prog, made <= made',
           secrets' = secrets,
           \A q \in Procs \ {p} :
              /\ step'[q] = step[q] /\ gen'[q] = gen[q] /\ at'[q] = at[q]
              /\ arg'[q] = arg[q] /\ seen'[q] = seen[q],
           (AtWork(p) => arg[p] = [name |-> Target(p), data |-> Whole(Target(p), gen[p])])',
           step'[p] = "pub" => prog # "createcertchain",
           at'[p] # "update"
    PROVE  JobInv'
<1>1. ArgsAreWhole'
  <2> SUFFICES ASSUME NEW q \in Procs, AtWork(q)'
               PROVE  (arg[q].name = Target(q) /\ arg[q].data = Whole(Target(q), gen[q]))'
    BY DEF ArgsAreWhole
  <2>1. \A n, g : Whole(n, g)' = Whole(n, g)
    BY ProgramStays
  <2>2. CASE q = p
    BY SMT, <2>1, <2>2
  <2>3. CASE q # p
    <3>1. AtWork(q) /\ Target(q)' = Target(q)
      BY <2>3 DEF AtWork, Target
    <3> QED
      BY SMT, <2>1, <2>3, <3>1 DEF JobInv, ArgsAreWhole
  <2> QED
    BY <2>2, <2>3
<1>2. ChainHasNoPub'
  BY DEF JobInv, ChainHasNoPub
<1>3. DataIsUniform'
  <2>0. made \in Nat /\ made' \in Nat
    BY DEF JobInv, JobTypes
  <2>1. ASSUME NEW n \in Names PROVE IsPart(n, Secret(n))'
    BY <2>0, PartStays DEF JobInv, DataIsUniform, Secret
  <2>2. ASSUME NEW q \in Procs, at'[q] = "update" PROVE IsPart(arg[q].name, seen[q].data)'
    <3>1. q # p /\ IsPart(arg[q].name, seen[q].data)
      BY <2>2 DEF JobInv, DataIsUniform
    <3> QED
      BY <2>0, <3>1, PartStays
  <2> QED
    BY <2>1, <2>2 DEF DataIsUniform
<1> QED
  BY <1>1, <1>2, <1>3 DEF JobInv

\* A step of ReconcileSecret, on behalf of a job.
LEMMA CallKeepsInv ==
    ASSUME JobInv, NEW p \in Procs, CallEffect(p), AtWork(p), UNCHANGED jobVars
    PROVE  JobInv'
<1> DEFINE n == arg[p].name
<1>0. /\ n \in Names /\ arg[p].data = Whole(n, gen[p]) /\ gen[p] \in 0..made
      /\ UNCHANGED <<prog, made, step, gen, arg>> /\ made \in Nat
  BY SMT, JobNames
  DEF JobInv, JobTypes, CallTypes, ArgsAreWhole, Target, jobVars, CallEffect, CallFrame, CallWrites
<1>1. JobTypes'
  <2>1. secrets' = [m \in Names |-> secrets'[m]]
    BY DEF CallEffect, CallFrame, CallWrites, JobInv, JobTypes, CallTypes
  <2>2. \A q \in Procs : at'[q] # "idle" <=> at[q] # "idle"
    BY DEF CallEffect, CallFrame, CallWrites, Running
  <2>3. \A q \in Procs : AtWork(q)' <=> AtWork(q)
    BY <1>0 DEF AtWork
  <2> QED
    BY <1>0, <2>1, <2>2, <2>3 DEF JobInv, JobTypes, CallEffect
<1>2. ArgsAreWhole' /\ ChainHasNoPub'
  BY <1>0, ProgramStays DEF JobInv, ArgsAreWhole, ChainHasNoPub, AtWork, Target
<1>3. DataIsUniform'
  <2>1. ASSUME NEW m \in Names PROVE IsPart(m, Secret(m))'
    <3>1. IsPart(m, Secret(m)')
      <4>1. CASE secrets' = secrets
        BY <4>1 DEF JobInv, DataIsUniform, Secret
      <4>2. CASE secrets' = [secrets EXCEPT ![n] = [rv |-> rev + 1, data |-> arg[p].data]]
        <5>1. CASE m = n
          BY <1>0, <4>2, <5>1, WholeIsPart DEF JobInv, JobTypes, CallTypes, Secret
        <5>2. CASE m # n
          BY SMT, <4>2, <5>2 DEF JobInv, JobTypes, DataIsUniform, Secret
        <5> QED
          BY <5>1, <5>2
      <4> QED
        BY <4>1, <4>2 DEF CallEffect, CallFrame, CallWrites
    <3> QED
      BY SMT, <1>0, <3>1, PartStays
  <2>2. ASSUME NEW q \in Procs, at'[q] = "update" PROVE IsPart(arg[q].name, seen[q].data)'
    <3>1. IsPart(arg[q].name, seen'[q].data)
      BY <1>0, <2>2 DEF CallEffect, CallFrame, CallWrites, JobInv, DataIsUniform, Secret
    <3> QED
      BY SMT, <1>0, <3>1, PartStays
  <2> QED
    BY <2>1, <2>2 DEF DataIsUniform
<1> QED
  BY <1>1, <1>2, <1>3 DEF JobInv

\* The pod takes the result of its call, or dies: it is at work no longer.
LEMMA ResetKeepsInv ==
    ASSUME JobInv, NEW p \in Procs, Reset(p), NEW s \in {"start", "done"},
           step' = [step EXCEPT ![p] = s], gen' = [gen EXCEPT ![p] = 0],
           prog' = prog, made' = made
    PROVE  JobInv'
<1>1. /\ step'[p] = s /\ at'[p] = "idle"
      /\ \A q \in Procs \ {p} :
            /\ step'[q] = step[q] /\ gen'[q] = gen[q] /\ at'[q] = at[q]
            /\ arg'[q] = arg[q] /\ seen'[q] = seen[q]
  BY DEF JobInv, JobTypes, CallTypes, Reset
<1>2. JobTypes'
  <2>1. \A q \in Procs : at'[q] # "idle" <=> AtWork(q)'
    BY <1>1 DEF JobInv, JobTypes, AtWork
  <2>2. step' \in [Procs -> Steps] /\ at' \in [Procs -> Ats]
    BY DEF JobInv, JobTypes, CallTypes, Reset, Steps, Ats
  <2>3. gen' \in [Procs -> 0..made']
    BY SMT DEF JobInv, JobTypes
  <2>4. arg' = [q \in Procs |-> arg'[q]] /\ seen' = [q \in Procs |-> seen'[q]]
    BY DEF JobInv, JobTypes, CallTypes, Reset
  <2>5. secrets' = [n \in Names |-> secrets'[n]]
    BY DEF JobInv, JobTypes, CallTypes, Reset
  <2> QED
    BY <2>1, <2>2, <2>3, <2>4, <2>5 DEF JobInv, JobTypes, CallTypes
<1>3. ~ AtWork(p)' /\ step'[p] # "pub" /\ at'[p] # "update"
  BY <1>1 DEF AtWork
<1>4. made <= made' /\ secrets' = secrets
  BY SMT DEF JobInv, JobTypes, Reset
<1> QED
  BY <1>1, <1>2, <1>3, <1>4, PodMoves

\* Whatever a pod or the environment does keeps the invariant.
LEMMA JobNextInv == JobInv /\ [Next]_vars => JobInv'
<1> SUFFICES ASSUME JobInv, [Next]_vars PROVE JobInv'
  OBVIOUS
<1>1. CASE UNCHANGED vars
  <2>1. UNCHANGED <<prog, made, step, gen, at, arg, seen, secrets>>
    BY <1>1 DEF vars, jobVars, reconcileVars
  <2>2. JobTypes' /\ ArgsAreWhole' /\ ChainHasNoPub'
    BY SMT, <2>1, ProgramStays DEF JobInv, JobTypes, CallTypes, ArgsAreWhole, ChainHasNoPub, AtWork, Target
  <2>3. DataIsUniform'
    BY SMT, <2>1, PartStays DEF JobInv, JobTypes, DataIsUniform, Secret
  <2> QED
    BY <2>2, <2>3 DEF JobInv
<1>2. ASSUME NEW p \in Procs, Skip(p) PROVE JobInv'
  <2>1. /\ step'[p] = "done" /\ \A q \in Procs \ {p} : step'[q] = step[q]
        /\ UNCHANGED <<prog, made, gen, at, arg, seen, secrets>>
        /\ at[p] = "idle"
    BY <1>2 DEF Skip, reconcileVars, JobInv, JobTypes, AtWork
  <2>2. JobTypes'
    <3>1. \A q \in Procs : at'[q] # "idle" <=> AtWork(q)'
      BY <2>1 DEF JobInv, JobTypes, AtWork
    <3> QED
      BY <1>2, <2>1, <3>1 DEF Skip, JobInv, JobTypes, CallTypes, Steps
  <2>3. ~ AtWork(p)' /\ step'[p] # "pub" /\ at'[p] # "update"
    BY <2>1 DEF AtWork
  <2> QED
    BY SMT, <2>1, <2>2, <2>3, PodMoves DEF JobInv, JobTypes, CallTypes
<1>3. ASSUME NEW p \in Procs, Generate(p) PROVE JobInv'
  <2>1. /\ step'[p] = "main" /\ gen'[p] = made + 1 /\ at'[p] = "get"
        /\ arg'[p] = [name |-> "main", data |-> MainData(made + 1)]
        /\ \A q \in Procs \ {p} :
              /\ step'[q] = step[q] /\ gen'[q] = gen[q] /\ at'[q] = at[q] /\ arg'[q] = arg[q]
        /\ UNCHANGED <<prog, seen, secrets>> /\ made' = made + 1
        /\ made \in Nat
    BY <1>3 DEF Generate, Begin, Invoke, JobInv, JobTypes, CallTypes
  <2>2. JobTypes'
    <3>1. \A q \in Procs : at'[q] # "idle" <=> AtWork(q)'
      BY <2>1 DEF JobInv, JobTypes, AtWork
    <3>2. gen' \in [Procs -> 0..made']
      BY SMT, <1>3, <2>1 DEF Generate, JobInv, JobTypes
    <3>3. step' \in [Procs -> Steps] /\ at' \in [Procs -> Ats]
          /\ arg' = [q \in Procs |-> arg'[q]]
      BY <1>3 DEF Generate, Begin, Invoke, JobInv, JobTypes, CallTypes, Steps, Ats
    <3> QED
      BY SMT, <2>1, <3>1, <3>2, <3>3 DEF JobInv, JobTypes, CallTypes
  <2>3. (arg[p] = [name |-> Target(p), data |-> Whole(Target(p), gen[p])])'
    <3>1. Target(p)' = "main"
      BY <2>1 DEF Target
    <3>2. MainData(made + 1) = Whole("main", made + 1)
      BY MainDataIsWhole DEF JobInv, JobTypes
    <3>3. \A g : Whole("main", g)' = Whole("main", g)
      BY <2>1, ProgramStays
    <3> QED
      BY <2>1, <3>1, <3>2, <3>3
  <2> QED
    BY SMT, <2>1, <2>2, <2>3, PodMoves
<1>4. ASSUME NEW p \in Procs, Publish(p) PROVE JobInv'
  <2>1. /\ step'[p] = "pub" /\ at'[p] = "get" /\ prog # "createcertchain"
        /\ arg'[p] = [name |-> "pub", data |-> PubData(gen[p])]
        /\ \A q \in Procs \ {p} : step'[q] = step[q] /\ at'[q] = at[q] /\ arg'[q] = arg[q]
        /\ UNCHANGED <<prog, made, gen, seen, secrets>>
        /\ made \in Nat
    BY <1>4 DEF Publish, Invoke, JobInv, JobTypes, CallTypes
  <2>2. JobTypes'
    <3>1. \A q \in Procs : at'[q] # "idle" <=> AtWork(q)'
      BY <2>1 DEF JobInv, JobTypes, AtWork
    <3>2. step' \in [Procs -> Steps] /\ at' \in [Procs -> Ats]
          /\ arg' = [q \in Procs |-> arg'[q]]
      BY <1>4 DEF Publish, Invoke, JobInv, JobTypes, CallTypes, Steps, Ats
    <3> QED
      BY <2>1, <3>1, <3>2 DEF JobInv, JobTypes, CallTypes
  <2>3. (arg[p] = [name |-> Target(p), data |-> Whole(Target(p), gen[p])])'
    <3>1. Target(p)' = "pub"
      BY <2>1 DEF Target
    <3>2. PubData(gen[p]) = Whole("pub", gen[p])
      BY <2>1, PubDataIsWhole DEF JobInv, JobTypes
    <3>3. \A g : Whole("pub", g)' = Whole("pub", g)
      BY <2>1, ProgramStays
    <3> QED
      BY <2>1, <3>1, <3>2, <3>3
  <2> QED
    BY SMT, <2>1, <2>2, <2>3, PodMoves
<1>5. ASSUME NEW p \in Procs, Finish(p) PROVE JobInv'
  BY <1>5, ResetKeepsInv DEF Finish
<1>6. ASSUME NEW p \in Procs, Fail(p) \/ Die(p) \/ Rerun(p) PROVE JobInv'
  BY <1>6, ResetKeepsInv DEF Fail, Die, Rerun, Restart
<1>7. ASSUME NEW p \in Procs, CallStep(p), UNCHANGED jobVars
      PROVE  JobInv'
  BY <1>7, CallsWriteWhole, CallKeepsInv
<1> QED
  BY <1>1, <1>2, <1>3, <1>4, <1>5, <1>6, <1>7 DEF Next, Step, CallStep

\* The inductive invariant of the key jobs.
LEMMA JobInductive == Spec => []JobInv
  BY JobInitInv, JobNextInv, PTL DEF Spec

\* Every variable of the key jobs keeps its type, and a secret only ever holds
\* generations that have been made.
THEOREM JobTypeCorrect == Spec => []JobTypeOK
<1>1. JobInv => JobTypeOK
  <2> SUFFICES ASSUME JobInv PROVE JobTypeOK
    OBVIOUS
  <2>1. ASSUME NEW n \in Names, NEW k \in DOMAIN Secret(n) PROVE Secret(n)[k] \in 0..made
    <3>1. PICK g \in 0..made : Secret(n) = [j \in DOMAIN Secret(n) |-> g]
      BY DEF JobInv, DataIsUniform, IsPart
    <3> QED
      BY <3>1
  <2>2. \A p \in Procs : at[p] # "idle" <=> step[p] \in {"main", "pub"}
    BY DEF JobInv, JobTypes, AtWork
  <2>3. at \in [Procs -> {"idle"} \cup Running \cup Returned]
    BY DEF JobInv, JobTypes, CallTypes, Ats, Running, Returned
  <2> QED
    BY <2>1, <2>2, <2>3 DEF JobTypeOK, JobInv, JobTypes, Steps
<1> QED
  BY <1>1, JobInductive, PTL

\* However many pods of createcerts, rekor-createsecret or createcertchain
\* write at the same time, and whatever part of the material was there before,
\* the entries of a secret are always of one generation: ReconcileSecret
\* replaces all entries of a generation in one write.
THEOREM NoSecretIsTorn == Spec => []MaterialNeverTorn
<1>1. JobInv => MaterialNeverTorn
  <2> SUFFICES ASSUME JobInv, NEW n \in Names,
                      NEW j \in DOMAIN Secret(n), NEW k \in DOMAIN Secret(n)
               PROVE  Secret(n)[j] = Secret(n)[k]
    BY DEF MaterialNeverTorn
  <2>1. PICK g \in 0..made : Secret(n) = [i \in DOMAIN Secret(n) |-> g]
    BY DEF JobInv, DataIsUniform, IsPart
  <2> QED
    BY <2>1
<1> QED
  BY <1>1, JobInductive, PTL

----------------------------------------------------------------------------
\* Pods that do not overlap.

\* The keys of the two secrets are those the finished job must have.
LEMMA WholeHasAllKeys ==
    ASSUME NEW g
    PROVE  /\ DOMAIN Whole("main", g) = MainKeys /\ DOMAIN Whole("pub", g) = PubKeys
           /\ \A k \in MainKeys : Whole("main", g)[k] = g
           /\ \A k \in PubKeys : Whole("pub", g)[k] = g
BY DEF Whole, Keys

\* A pod that is at work no longer disturbs nobody.
LEMMA LeavingKeepsAlone ==
    ASSUME JobInv, Alone, NEW p \in Procs, prog' = prog, secrets' = secrets,
           overlap' = overlap, ~ AtWork(p)', at'[p] = "idle",
           \A q \in Procs \ {p} : step'[q] = step[q] /\ gen'[q] = gen[q] /\ at'[q] = at[q]
    PROVE  Alone'
<1> SUFFICES ASSUME overlap = "no" PROVE OneAtWork' /\ WrittenStays' /\ ChainIsNeeded'
  BY DEF Alone
<1>0. OneAtWork /\ WrittenStays /\ ChainIsNeeded
  BY DEF Alone
<1>1. OneAtWork'
  BY <1>0 DEF OneAtWork, AtWork
<1>2. ASSUME NEW q \in Procs
      PROVE  (/\ step[q] = "pub" \/ (step[q] = "main" /\ at[q] = "ok") =>
                    Secret("main") = Whole("main", gen[q])
              /\ step[q] = "pub" /\ at[q] = "ok" => Secret("pub") = Whole("pub", gen[q]))'
  <2>1. CASE q = p
    BY <2>1 DEF AtWork
  <2>2. CASE q # p
    BY SMT, <1>0, <2>2, ProgramStays DEF WrittenStays, Secret
  <2> QED
    BY <2>1, <2>2
<1>3. ChainIsNeeded'
  <2> SUFFICES ASSUME NEW q \in Procs, at'[q] \in Running PROVE ~ NothingToDo(Secret("main"))'
    BY DEF ChainIsNeeded
  <2>1. q # p
    BY DEF Running
  <2> QED
    BY <1>0, <2>1, ProgramStays DEF ChainIsNeeded, Secret
<1> QED
  BY <1>1, <1>2, <1>3 DEF WrittenStays

\* Whatever a pod or the environment does keeps the invariant.
LEMMA AloneNext ==
    ASSUME JobInv, Alone, FinishedJobMatches, [Next]_vars
    PROVE  Alone' /\ FinishedJobMatches'
<1>0. /\ prog \in Programs
      /\ \A p \in Procs : at[p] # "idle" <=> AtWork(p)
  BY DEF JobInv, JobTypes
<1>1. CASE UNCHANGED vars
  <2>1. UNCHANGED <<prog, overlap, step, gen, at, secrets>>
    BY <1>1 DEF vars, jobVars, reconcileVars
  <2>2. FinishedJobMatches'
    <3>1. MainKeys' = MainKeys /\ PubKeys' = PubKeys
      BY <2>1 DEF MainKeys, PubKeys
    <3> QED
      BY <2>1, <3>1 DEF FinishedJobMatches, Secret
  <2>3. Alone'
    BY <2>1, ProgramStays
       DEF Alone, OneAtWork, WrittenStays, ChainIsNeeded, AtWork, Secret
  <2> QED
    BY <2>2, <2>3
<1>2. ASSUME NEW p \in Procs, Skip(p) PROVE Alone' /\ FinishedJobMatches'
  <2>1. /\ step'[p] = "done" /\ \A q \in Procs \ {p} : step'[q] = step[q]
        /\ UNCHANGED <<prog, gen, at, secrets, overlap>>
        /\ at[p] = "idle"
    BY <1>0, <1>2 DEF Skip, reconcileVars, JobInv, JobTypes, AtWork
  <2>2. Alone'
    <3>1. ~ AtWork(p)'
      BY <2>1 DEF AtWork
    <3> QED
      BY <2>1, <3>1, LeavingKeepsAlone
  <2>3. MainKeys' = {"chain", "signing", "password"} /\ PubKeys' = {}
    BY <1>2, <2>1 DEF Skip, NothingToDo, MainKeys, PubKeys
  <2>4. {"chain", "signing", "password"} \subseteq DOMAIN Secret("main")'
    BY <1>2, <2>1 DEF Skip, NothingToDo, Secret
  <2> QED
    BY <2>2, <2>3, <2>4 DEF FinishedJobMatches
<1>3. ASSUME NEW p \in Procs, Generate(p) PROVE Alone' /\ FinishedJobMatches'
  <2>1. /\ step'[p] = "main" /\ at'[p] = "get"
        /\ \A q \in Procs \ {p} : step'[q] = step[q] /\ gen'[q] = gen[q] /\ at'[q] = at[q]
        /\ UNCHANGED <<prog, secrets>>
        /\ ~ NothingToDo(Secret("main"))
    BY <1>3 DEF Generate, Begin, Invoke, JobInv, JobTypes, CallTypes
  <2>2. FinishedJobMatches'
    BY <2>1 DEF FinishedJobMatches
  <2>3. ASSUME overlap' = "no" PROVE OneAtWork' /\ WrittenStays' /\ ChainIsNeeded'
    <3>1. \A q \in Procs \ {p} : ~ AtWork(q)
      BY <1>3, <2>3 DEF Generate, Begin
    <3>2. \A q \in Procs \ {p} : step'[q] \notin {"main", "pub"} /\ at'[q] = "idle"
      BY <1>0, <2>1, <3>1 DEF AtWork
    <3>3. OneAtWork'
      BY <3>2 DEF OneAtWork, AtWork
    <3>4. WrittenStays'
      BY <2>1, <3>2 DEF WrittenStays
    <3>5. ChainIsNeeded'
      BY <2>1, ProgramStays DEF ChainIsNeeded, Secret
    <3> QED
      BY <3>3, <3>4, <3>5
  <2> QED
    BY <2>2, <2>3 DEF Alone
<1>4. ASSUME NEW p \in Procs, Publish(p) PROVE Alone' /\ FinishedJobMatches'
  <2>1. /\ step'[p] = "pub" /\ at'[p] = "get" /\ step[p] = "main" /\ at[p] = "ok"
        /\ \A q \in Procs \ {p} : step'[q] = step[q] /\ at'[q] = at[q]
        /\ UNCHANGED <<prog, secrets, gen, overlap>>
        /\ prog # "createcertchain"
    BY <1>4 DEF Publish, Invoke, JobInv, JobTypes, CallTypes
  <2>2. FinishedJobMatches'
    BY <2>1 DEF FinishedJobMatches
  <2>3. ASSUME overlap = "no" PROVE OneAtWork' /\ WrittenStays' /\ ChainIsNeeded'
    <3>0. OneAtWork /\ WrittenStays
      BY <2>3 DEF Alone
    <3>1. OneAtWork'
      BY <2>1, <3>0 DEF OneAtWork, AtWork
    <3>2. WrittenStays'
      BY SMT, <2>1, <3>0, ProgramStays DEF WrittenStays, Secret
    <3>3. ChainIsNeeded'
      BY <2>1 DEF ChainIsNeeded, NothingToDo
    <3> QED
      BY <3>1, <3>2, <3>3
  <2> QED
    BY <2>1, <2>2, <2>3 DEF Alone
<1>5. ASSUME NEW p \in Procs, Finish(p) PROVE Alone' /\ FinishedJobMatches'
  <2>1. /\ step'[p] = "done" /\ at'[p] = "idle" /\ at[p] = "ok"
        /\ \A q \in Procs \ {p} : step'[q] = step[q] /\ gen'[q] = gen[q] /\ at'[q] = at[q]
        /\ UNCHANGED <<prog, secrets, overlap>>
    BY <1>5 DEF Finish, Reset, JobInv, JobTypes, CallTypes
  <2>2. Alone'
    <3>1. ~ AtWork(p)'
      BY <2>1 DEF AtWork
    <3> QED
      BY <2>1, <3>1, LeavingKeepsAlone
  <2>3. ASSUME overlap = "no"
        PROVE  /\ MainKeys \subseteq DOMAIN Secret("main")
               /\ PubKeys \subseteq DOMAIN Secret("pub")
               /\ \A j \in MainKeys, k \in PubKeys : Secret("pub")[k] = Secret("main")[j]
    <3>1. WrittenStays
      BY <2>3 DEF Alone
    <3>2. CASE prog = "createcertchain"
      <4>1. Secret("main") = Whole("main", gen[p])
        BY <1>5, <2>1, <3>1, <3>2 DEF Finish, WrittenStays
      <4>2. PubKeys = {}
        BY <3>2 DEF PubKeys
      <4> QED
        BY <4>1, <4>2, WholeHasAllKeys
    <3>3. CASE prog # "createcertchain"
      <4>1. Secret("main") = Whole("main", gen[p]) /\ Secret("pub") = Whole("pub", gen[p])
        BY <1>5, <2>1, <3>1, <3>3 DEF Finish, WrittenStays
      <4> QED
        BY SMT, <4>1, WholeHasAllKeys
    <3> QED
      BY <3>2, <3>3
  <2>4. MainKeys' = MainKeys /\ PubKeys' = PubKeys
    BY <2>1 DEF MainKeys, PubKeys
  <2> QED
    BY <2>1, <2>2, <2>3, <2>4 DEF FinishedJobMatches, Secret
<1>6. ASSUME NEW p \in Procs, Fail(p) \/ Die(p) \/ Rerun(p) PROVE Alone' /\ FinishedJobMatches'
  <2>1. /\ step'[p] = "start" /\ at'[p] = "idle"
        /\ \A q \in Procs \ {p} : step'[q] = step[q] /\ gen'[q] = gen[q] /\ at'[q] = at[q]
        /\ UNCHANGED <<prog, secrets, overlap>>
    BY <1>6 DEF Fail, Die, Rerun, Restart, Reset, JobInv, JobTypes, CallTypes
  <2>2. ~ AtWork(p)'
    BY <2>1 DEF AtWork
  <2> QED
    BY <2>1, <2>2, LeavingKeepsAlone DEF FinishedJobMatches
<1>7. ASSUME NEW p \in Procs, CallStep(p), UNCHANGED jobVars
      PROVE  Alone' /\ FinishedJobMatches'
  <2>1. CallEffect(p) /\ AtWork(p) /\ UNCHANGED <<prog, step, gen, overlap>>
    BY <1>7, CallsWriteWhole DEF jobVars
  <2>2. FinishedJobMatches'
    BY <2>1 DEF FinishedJobMatches, AtWork
  <2>3. ASSUME overlap = "no" PROVE OneAtWork' /\ WrittenStays' /\ ChainIsNeeded'
    <3>0. OneAtWork /\ WrittenStays /\ ChainIsNeeded
      BY <2>3 DEF Alone
    <3>1. OneAtWork'
      BY <2>1, <3>0 DEF OneAtWork, AtWork
    <3>2. \A q \in Procs \ {p} : ~ AtWork(q) /\ at'[q] = "idle"
      BY <1>0, <2>1, <3>0 DEF OneAtWork, CallEffect, CallFrame, CallWrites
    <3>3. ASSUME NEW q \in Procs
          PROVE  (/\ step[q] = "pub" \/ (step[q] = "main" /\ at[q] = "ok") =>
                        Secret("main") = Whole("main", gen[q])
                  /\ step[q] = "pub" /\ at[q] = "ok" => Secret("pub") = Whole("pub", gen[q]))'
      <4>1. CASE q # p
        BY <2>1, <3>2, <4>1 DEF AtWork
      <4>2. CASE q = p
        <5>1. arg[p].name = Target(p) /\ arg[p].data = Whole(Target(p), gen[p])
          BY <2>1 DEF JobInv, ArgsAreWhole
        <5>2. \A n, g : Whole(n, g)' = Whole(n, g)
          BY <2>1, ProgramStays
        <5>3. CASE step[p] = "main"
          BY <2>1, <4>2, <5>1, <5>2, <5>3 DEF CallEffect, CallFrame, CallWrites, Target, Secret
        <5>4. CASE step[p] = "pub"
          <6>1. Secret("main") = Whole("main", gen[p])
            BY <3>0, <5>4 DEF WrittenStays
          <6>2. secrets'["main"] = secrets["main"]
            BY <2>1, <5>1, <5>4, JobNames
            DEF CallEffect, CallFrame, CallWrites, Target, JobInv, JobTypes, CallTypes
          <6>3. at'[p] = "ok" => secrets'["pub"].data = Whole("pub", gen[p])
            BY <2>1, <5>1, <5>4 DEF CallEffect, CallFrame, CallWrites, Target
          <6> QED
            BY <2>1, <4>2, <5>2, <5>4, <6>1, <6>2, <6>3 DEF Secret
        <5> QED
          BY <2>1, <5>3, <5>4 DEF AtWork
      <4> QED
        BY <4>1, <4>2
    <3>4. ChainIsNeeded'
      <4> SUFFICES ASSUME NEW q \in Procs, at'[q] \in Running
                   PROVE  ~ NothingToDo(Secret("main"))'
        BY DEF ChainIsNeeded
      <4>1. q = p
        BY SMT, <3>2 DEF Running
      <4>2. secrets' = secrets /\ at[p] \in Running
        BY <2>1, <4>1 DEF CallEffect, CallFrame, CallWrites, Running
      <4> QED
        BY <2>1, <3>0, <4>2, ProgramStays DEF ChainIsNeeded, Secret
    <3> QED
      BY <3>1, <3>3, <3>4 DEF WrittenStays
  <2> QED
    BY <2>1, <2>2, <2>3 DEF Alone
<1> QED
  BY <1>1, <1>2, <1>3, <1>4, <1>5, <1>6, <1>7 DEF Next, Step, CallStep

\* The inductive invariant of pods that do not overlap.
LEMMA AloneInductive == Spec => [](JobInv /\ Alone /\ FinishedJobMatches)
<1>1. Init => Alone /\ FinishedJobMatches
  BY JobPods DEF Init, ReconcileInit, Alone, OneAtWork, WrittenStays, ChainIsNeeded, Running,
                 AtWork, FinishedJobMatches
<1>2. JobInv /\ Alone /\ FinishedJobMatches /\ [Next]_vars =>
        JobInv' /\ Alone' /\ FinishedJobMatches'
  BY JobNextInv, AloneNext
<1> QED
  BY <1>1, <1>2, JobInitInv, PTL DEF Spec

\* When the pods of a key job, none of which worked at the same time as
\* another, have all finished, both secrets are complete and the public part
\* belongs to the key: through any crashes, lost replies and errors between the
\* two calls of ReconcileSecret, and whatever was there before.
THEOREM FinishedJobsMatch == Spec => []FinishedJobMatches
  BY AloneInductive, PTL

\* Without overlap createcertchain never replaces a complete chain: a pod that
\* has found something to do is the only one to write until it is through.
THEOREM CompleteChainIsKept == Spec => ChainIsKept
<1>1. JobInv /\ Alone /\ [Next]_vars =>
        [overlap = "no" /\ NothingToDo(Secret("main")) => UNCHANGED secrets]_vars
  <2> SUFFICES ASSUME JobInv, Alone, Next, overlap = "no", NothingToDo(Secret("main"))
               PROVE  UNCHANGED secrets
    OBVIOUS
  <2>1. ASSUME NEW p \in Procs, CallStep(p) PROVE UNCHANGED secrets
    <3>1. CallEffect(p)
      BY <2>1, CallsWriteWhole
    <3>2. at[p] \notin Running
      BY DEF Alone, ChainIsNeeded
    <3> QED
      BY <3>1, <3>2 DEF CallEffect, CallFrame, CallWrites
  <2>2. ASSUME NEW p \in Procs, Skip(p) \/ Generate(p) \/ Publish(p) PROVE UNCHANGED secrets
    BY <2>2 DEF Skip, Generate, Publish, Invoke, reconcileVars
  <2>3. ASSUME NEW p \in Procs, Finish(p) \/ Fail(p) \/ Die(p) \/ Rerun(p)
        PROVE  UNCHANGED secrets
    BY <2>3 DEF Finish, Fail, Die, Rerun, Restart, Reset
  <2> QED
    BY <2>1, <2>2, <2>3 DEF Next, Step, CallStep
<1> QED
  BY <1>1, AloneInductive, PTL DEF Spec, ChainIsKept

=============================================================================
