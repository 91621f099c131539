--------------------------- MODULE TrillianProofs ---------------------------
(***************************************************************************)
(* Proofs about the two commands that prepare Trillian.                    *)
(*                                                                         *)
(* createdb logs whatever it leaves missing, and leaves nothing missing    *)
(* when nothing fails, for any number of pods, any schema at the           *)
(* beginning, any number of pings and of faults.                           *)
(*                                                                         *)
(* A successful updatetree lasts, and the tree only ever changes as some   *)
(* invocation asked for, for any number of invocations with any flags and  *)
(* any number of requests given up.                                        *)
(***************************************************************************)
EXTENDS CreateDB, UpdateTree, TLAPS

\* Most steps are for Zenon; those that need arithmetic or the theory of
\* functions say so.
USE ZenonT(20)

----------------------------------------------------------------------------
\* createdb.

\* The steps of main, the indices included.
Steps == {"start", "ping", "ping again", "show tables", "create", "done", "panicked",
          "killed", "TreeHeadRevisionIdx", "SequencedLeafMerkleIdx"}

\* What is missing is logged or still to be looked at, what a pod takes for
\* existing exists, and nothing is left to be looked at when main returns.
Accounted ==
    /\ main \in [Pods -> Steps]
    /\ existing \in [Pods -> SUBSET Objects]
    /\ todo \in [Pods -> SUBSET Objects]
    /\ log \in [Pods -> SUBSET Objects]
    /\ \A p \in Pods :
          /\ existing[p] \subseteq schema
          /\ Objects \ schema \subseteq log[p] \cup todo[p]
          /\ main[p] = "done" => todo[p] = {}

----------------------------------------------------------------------------

\* The names of indices are not steps of main.
LEMMA IndexNamesAre == IndexNames = {"TreeHeadRevisionIdx", "SequencedLeafMerkleIdx"}
BY DEF IndexNames, createIndices

\* Pod p goes to a step other than "done", the others stay where they are.
Moves(p) ==
    /\ main' \in [Pods -> Steps]
    /\ main'[p] # "done"
    /\ \A q \in Pods \ {p} : main'[q] = main[q]

\* Blank forgets everything and accounts for all objects again.
LEMMA BlankAccounts ==
    ASSUME Accounted, NEW p \in Pods, Moves(p), Blank(p), schema' = schema
    PROVE  Accounted'
BY DEF Accounted, Blank, Moves

\* main panics.
LEMMA PanicAccounts ==
    ASSUME Accounted, NEW p \in Pods, Panic(p)
    PROVE  Accounted'
<1>1. Moves(p)
  BY DEF Accounted, Panic, Go, Moves, Steps
<1>2. Blank(p) /\ schema' = schema
  BY DEF Panic
<1> QED
  BY <1>1, <1>2, BlankAccounts

\* The steps that touch nothing the invariant speaks of but main.
LEMMA MoveAccounts ==
    ASSUME Accounted, NEW p \in Pods, Moves(p),
           schema' = schema, existing' = existing, todo' = todo, log' = log
    PROVE  Accounted'
BY DEF Accounted, Moves

\* Exec of a statement for o keeps every object accounted for when o leaves
\* todo, as may any others that exist or are not in todo.
LEMMA ExecAccounts ==
    ASSUME Accounted, NEW p \in Pods, NEW o \in Objects, Exec(p, o),
           NEW gone \in SUBSET Objects,
           gone \cap todo[p] \subseteq existing[p] \cup {o},
           todo' = [todo EXCEPT ![p] = @ \ gone],
           main' \in [Pods -> Steps], UNCHANGED existing,
           \A q \in Pods : main'[q] = "done" => main[q] = "done"
    PROVE  Accounted'
<1>1. /\ schema' = schema \cup {o} \/ schema' = schema
      /\ log' = log \/ log' = [log EXCEPT ![p] = @ \cup {o}]
      /\ o \in schema' \/ o \in log'[p]
  BY SMT DEF Exec, Accounted
<1>2. /\ todo' \in [Pods -> SUBSET Objects]
      /\ log' \in [Pods -> SUBSET Objects]
      /\ schema \subseteq schema'
      /\ \A q \in Pods : log[q] \subseteq log'[q]
  BY SMT, <1>1 DEF Accounted
<1>3. ASSUME NEW q \in Pods
      PROVE  /\ existing'[q] \subseteq schema'
             /\ main'[q] = "done" => todo'[q] = {}
  BY <1>2 DEF Accounted
<1>4. ASSUME NEW q \in Pods, NEW x \in Objects, x \notin schema', x \notin log'[q]
      PROVE  x \in todo'[q]
  <2>1. x \in todo[q]
    BY <1>2, <1>4 DEF Accounted
  <2>2. CASE q # p
    BY <2>1, <2>2 DEF Accounted
  <2>3. CASE q = p
    <3>1. x # o /\ x \notin existing[p]
      BY <1>1, <1>2, <1>4, <2>3 DEF Accounted
    <3>2. x \notin gone
      BY <2>1, <2>3, <3>1
    <3> QED
      BY <2>1, <2>3, <3>2 DEF Accounted
  <2> QED
    BY <2>2, <2>3
<1> QED
  BY <1>2, <1>3, <1>4 DEF Accounted

\* Whatever a pod, its proxy or Kubernetes does keeps the invariant.
LEMMA AccountedNext == Accounted /\ [DBNext]_dbVars => Accounted'
<1> SUFFICES ASSUME Accounted, [DBNext]_dbVars PROVE Accounted'
  OBVIOUS
<1>0. CASE UNCHANGED dbVars
  BY <1>0 DEF Accounted, dbVars, mainVars
<1>1. ASSUME NEW p \in Pods, Start(p) PROVE Accounted'
  <2>1. CASE Panic(p)
    BY <2>1, PanicAccounts
  <2>2. CASE Go(p, "ping") /\ UNCHANGED <<schema, tries, existing, todo, log, exit>>
    <3>1. Moves(p)
      BY <2>2 DEF Accounted, Go, Moves, Steps
    <3> QED
      BY <2>2, <3>1, MoveAccounts
  <2> QED
    BY <1>1, <2>1, <2>2 DEF Start
<1>2. ASSUME NEW p \in Pods, Ping(p) PROVE Accounted'
  <2>1. CASE Go(p, "ping again")
    <3>1. Moves(p)
      BY <2>1 DEF Accounted, Go, Moves, Steps
    <3> QED
      BY <1>2, <3>1, MoveAccounts DEF Ping
  <2>2. CASE UNCHANGED main
    BY <1>2, <2>2 DEF Ping, Accounted
  <2> QED
    BY <1>2, <2>1, <2>2 DEF Ping
<1>3. ASSUME NEW p \in Pods, PingAgain(p) PROVE Accounted'
  <2>1. CASE Panic(p)
    BY <2>1, PanicAccounts
  <2>2. CASE Go(p, "show tables") /\ UNCHANGED <<schema, existing, todo, log>>
    <3>1. Moves(p)
      BY <2>2 DEF Accounted, Go, Moves, Steps
    <3> QED
      BY <2>2, <3>1, MoveAccounts
  <2> QED
    BY <1>3, <2>1, <2>2 DEF PingAgain
<1>4. ASSUME NEW p \in Pods, ShowTables(p) PROVE Accounted'
  <2>1. CASE Panic(p)
    BY <2>1, PanicAccounts
  <2>2. ASSUME NEW rows \in SUBSET (schema \cap TableNames),
               existing' = [existing EXCEPT ![p] = rows],
               Go(p, "create"), UNCHANGED <<schema, todo, log>>
        PROVE  Accounted'
    BY <2>2 DEF Accounted, Go, Objects, Steps
  <2> QED
    BY <1>4, <2>1, <2>2 DEF ShowTables
<1>5. ASSUME NEW p \in Pods, CreateTable(p) PROVE Accounted'
  <2>1. PICK i \in DOMAIN tables :
          /\ tables[i] \in todo[p] \ existing[p]
          /\ \A j \in 1..(i - 1) : tables[j] \notin todo[p] \ existing[p]
          /\ Exec(p, tables[i])
          /\ todo' = [todo EXCEPT ![p] = @ \ {tables[j] : j \in 1..i}]
    BY <1>5 DEF CreateTable
  <2>2. DOMAIN tables = 1..7
    BY SMT DEF tables
  <2> DEFINE gone == {tables[j] : j \in 1..i}
  <2>3. gone \in SUBSET Objects /\ tables[i] \in Objects
    BY SMT, <2>2 DEF Objects, TableNames
  <2>4. gone \cap todo[p] \subseteq existing[p] \cup {tables[i]}
    <3> SUFFICES ASSUME NEW j \in 1..i, tables[j] \in todo[p], tables[j] # tables[i]
                 PROVE  tables[j] \in existing[p]
      OBVIOUS
    <3>1. j \in 1..(i - 1)
      BY SMT, <2>2
    <3> QED
      BY <2>1, <3>1
  <2>5. main' = main /\ UNCHANGED existing
    BY <1>5 DEF CreateTable
  <2> HIDE DEF gone
  <2>6. todo' = [todo EXCEPT ![p] = @ \ gone]
    BY <2>1 DEF gone
  <2>7. main' \in [Pods -> Steps] /\ \A q \in Pods : main'[q] = "done" => main[q] = "done"
    BY <2>5 DEF Accounted
  <2> QED
    BY <2>1, <2>3, <2>4, <2>5, <2>6, <2>7, ExecAccounts
<1>6. ASSUME NEW p \in Pods, CheckIndex(p) PROVE Accounted'
  <2>1. PICK i \in todo[p] \cap IndexNames :
          \/ /\ indexExists(p, i)
             /\ todo' = [todo EXCEPT ![p] = @ \ {i}]
             /\ UNCHANGED <<schema, main, existing, log>>
          \/ /\ Go(p, i)
             /\ UNCHANGED <<schema, existing, todo, log>>
          \/ Panic(p)
    BY <1>6 DEF CheckIndex
  <2>2. CASE Panic(p)
    BY <2>2, PanicAccounts
  <2>3. CASE Go(p, i) /\ UNCHANGED <<schema, existing, todo, log>>
    <3>1. Moves(p)
      BY <2>3, IndexNamesAre DEF Accounted, Go, Moves, Steps
    <3> QED
      BY <2>3, <3>1, MoveAccounts
  <2>4. CASE /\ indexExists(p, i)
             /\ todo' = [todo EXCEPT ![p] = @ \ {i}]
             /\ UNCHANGED <<schema, main, existing, log>>
    BY <2>4 DEF Accounted, indexExists
  <2> QED
    BY <2>1, <2>2, <2>3, <2>4
<1>7. ASSUME NEW p \in Pods, CreateIndex(p) PROVE Accounted'
  <2> DEFINE i == main[p]
  <2>1. i \in Objects /\ {i} \in SUBSET Objects
    BY <1>7 DEF CreateIndex, Objects
  <2>2. main' \in [Pods -> Steps] /\ \A q \in Pods : main'[q] = "done" => main[q] = "done"
    BY <1>7 DEF CreateIndex, Go, Accounted, Steps
  <2>3. /\ Exec(p, i)
        /\ todo' = [todo EXCEPT ![p] = @ \ {i}]
        /\ UNCHANGED existing
    BY <1>7 DEF CreateIndex
  <2> QED
    BY <2>1, <2>2, <2>3, ExecAccounts
<1>8. ASSUME NEW p \in Pods, Finish(p) PROVE Accounted'
  <2>1. /\ todo[p] \subseteq existing[p]
        /\ main' = [main EXCEPT ![p] = "done"]
        /\ todo' = [todo EXCEPT ![p] = {}]
        /\ existing' = [existing EXCEPT ![p] = {}]
        /\ UNCHANGED <<schema, log>>
    BY <1>8 DEF Finish, Go
  <2>2. Objects \ schema \subseteq log[p]
    BY <2>1 DEF Accounted
  <2> QED
    BY <2>1, <2>2 DEF Accounted, Steps
<1>9. ASSUME NEW p \in Pods, ProxyStep(p) \/ ChildEnds(p) PROVE Accounted'
  BY <1>9 DEF ProxyStep, StartProxy, StopProxy, ChildEnds, mainVars, Accounted
<1>10. ASSUME NEW p \in Pods, KillMain(p) PROVE Accounted'
  <2>1. Moves(p)
    BY <1>10 DEF Accounted, KillMain, Go, Moves, Steps
  <2>2. Blank(p) /\ schema' = schema
    BY <1>10 DEF KillMain
  <2> QED
    BY <2>1, <2>2, BlankAccounts
<1>11. ASSUME NEW p \in Pods, Retry(p) \/ LosePod(p) PROVE Accounted'
  <2>1. Moves(p)
    BY <1>11 DEF Accounted, Retry, LosePod, NewPod, Go, Moves, Steps
  <2>2. Blank(p) /\ schema' = schema
    BY <1>11 DEF Retry, LosePod, NewPod
  <2> QED
    BY <2>1, <2>2, BlankAccounts
<1> QED
  BY <1>0, <1>1, <1>2, <1>3, <1>4, <1>5, <1>6, <1>7, <1>8, <1>9, <1>10, <1>11
     DEF DBNext, MainStep

\* Whatever is missing from the schema when main returns has been logged by
\* this pod, for any pods, faults and initial schema: with the statements that
\* only log their failure the log is complete.
THEOREM MissingObjectsAreLogged == DBSpec => []MissingIsLogged
<1>1. DBInit => Accounted
  BY SMT DEF DBInit, Accounted, Steps
<1>2. Accounted => MissingIsLogged
  BY DEF Accounted, MissingIsLogged
<1> QED
  BY <1>1, <1>2, AccountedNext, PTL DEF DBSpec

----------------------------------------------------------------------------
\* What createdb leaves behind when nothing fails.

\* The steps in which main talks to the database after its last ping.
Working == {"show tables", "create", "TreeHeadRevisionIdx", "SequencedLeafMerkleIdx"}

\* A pod that met no fault keeps its connection, since the exit file that ends
\* the proxy is written only when main ends; it has logged no table, has logged
\* an index only if the index is there, and looks at indices when all tables
\* are there.
Healthy(p) ==
    /\ log[p] \cap TableNames = {}
    /\ log[p] \subseteq schema
    /\ main[p] \in Working => Connected(p)
    /\ main[p] \in IndexNames => TableNames \subseteq schema

Unharmed ==
    /\ faults \in Nat
    /\ schema \subseteq Objects
    /\ proxy = [p \in Pods |-> proxy[p]]
    /\ exit = [p \in Pods |-> exit[p]]
    /\ \A p \in Pods : exit[p] = "there" => main[p] \in Ended
    /\ faults = 0 => \A p \in Pods : Healthy(p)

\* A fault leaves the counter above zero.
LEMMA FaultCounts ==
    ASSUME Unharmed, Fault
    PROVE  faults' \in Nat /\ faults' # 0
BY SMT DEF Unharmed, Fault

\* A table whose predecessors are all there or passed over has its foreign keys.
LEMMA OrderRespectsForeignKeys ==
    ASSUME NEW i \in DOMAIN tables,
           \A j \in 1..(i - 1) : tables[j] \in schema
    PROVE  ForeignKeys(tables[i]) \subseteq schema
<1>1. /\ DOMAIN tables = 1..7
      /\ tables[1] = "Trees" /\ tables[2] = "TreeControl" /\ tables[3] = "Subtree"
      /\ tables[4] = "TreeHead" /\ tables[5] = "LeafData"
      /\ tables[6] = "SequencedLeafData" /\ tables[7] = "Unsequenced"
  BY SMT DEF tables
<1>2. i \in 2..7 => "Trees" \in schema
  BY SMT, <1>1
<1>3. i \in 6..7 => "LeafData" \in schema
  BY SMT, <1>1
<1>4. CASE i = 1 \/ i = 7
  BY <1>1, <1>4 DEF ForeignKeys
<1>5. CASE i \in 2..5
  <2>1. tables[i] \in {"TreeControl", "Subtree", "TreeHead", "LeafData"}
    BY SMT, <1>1, <1>5
  <2> QED
    BY SMT, <1>2, <1>5, <2>1 DEF ForeignKeys
<1>6. CASE i = 6
  BY SMT, <1>1, <1>2, <1>3, <1>6 DEF ForeignKeys
<1> QED
  BY SMT, <1>1, <1>4, <1>5, <1>6

\* The tables and the indices are different names, and every index is on a table.
LEMMA NamesDiffer ==
    /\ TableNames \cap IndexNames = {}
    /\ \A i \in IndexNames : createIndices[i] \in TableNames
<1>1. TableNames = {"Trees", "TreeControl", "Subtree", "TreeHead", "LeafData",
                    "SequencedLeafData", "Unsequenced"}
  <2>1. DOMAIN tables = 1..7
    BY SMT DEF tables
  <2> QED
    BY SMT, <2>1 DEF TableNames, tables
<1>2. createIndices["TreeHeadRevisionIdx"] = "TreeHead"
      /\ createIndices["SequencedLeafMerkleIdx"] = "SequencedLeafData"
  BY DEF createIndices
<1> QED
  BY <1>1, <1>2, IndexNamesAre

\* Steps that only a fault makes harmful: whoever stays healthy without one.
LEMMA UnharmedStep ==
    ASSUME Unharmed, NEW p \in Pods,
           Fault \/ UNCHANGED faults,
           schema \subseteq schema', schema' \subseteq Objects,
           proxy' = [q \in Pods |-> proxy'[q]],
           exit' = [q \in Pods |-> exit'[q]],
           \A q \in Pods \ {p} : /\ proxy'[q] = proxy[q]
                                 /\ exit'[q] = exit[q]
                                 /\ main'[q] = main[q]
                                 /\ log'[q] = log[q],
           exit'[p] = "there" => main'[p] \in Ended,
           faults = 0 /\ UNCHANGED faults => Healthy(p)'
    PROVE  Unharmed'
<1>1. faults' \in Nat /\ (faults' = 0 => faults = 0 /\ UNCHANGED faults)
  BY FaultCounts DEF Unharmed
<1>2. ASSUME faults' = 0, NEW q \in Pods \ {p} PROVE Healthy(q)'
  BY <1>1, <1>2 DEF Unharmed, Healthy, Connected
<1>3. \A q \in Pods : exit'[q] = "there" => main'[q] \in Ended
  BY DEF Unharmed
<1> QED
  BY <1>1, <1>2, <1>3 DEF Unharmed

\* Exec for o by a healthy pod whose tables are in order: a table is created,
\* an index is created or is there already.
LEMMA ExecIsHealthy ==
    ASSUME Unharmed, Accounted, NEW p \in Pods, NEW o \in Objects, Exec(p, o),
           Healthy(p), Connected(p), UNCHANGED faults, faults = 0,
           o \in TableNames => ForeignKeys(o) \subseteq schema,
           o \in IndexNames => TableNames \subseteq schema
    PROVE  /\ log'[p] \cap TableNames = {}
           /\ log'[p] \subseteq schema'
<1>0. ~ Fault
  BY SMT DEF Fault
<1>1. CASE o \in TableNames
  <2>1. Accepted(o)
    BY <1>1 DEF Accepted
  <2>2. schema' = schema \cup {o} /\ log' = log
    BY <1>0, <2>1 DEF Exec, Lost
  <2> QED
    BY <2>2 DEF Healthy
<1>2. CASE o \in IndexNames
  <2>1. o \notin TableNames /\ createIndices[o] \in schema
    BY <1>2, NamesDiffer
  <2>2. CASE Accepted(o)
    <3>1. schema' = schema \cup {o} /\ log' = log
      BY <1>0, <2>2 DEF Exec, Lost
    <3> QED
      BY <3>1 DEF Healthy
  <2>3. CASE ~ Accepted(o)
    <3>1. o \in schema
      BY <2>1, <2>3 DEF Accepted
    <3>2. schema' = schema /\ log' = [log EXCEPT ![p] = @ \cup {o}]
      BY <2>3 DEF Exec
    <3>3. log'[p] = log[p] \cup {o}
      BY <3>2 DEF Accounted
    <3> QED
      BY <2>1, <3>1, <3>2, <3>3 DEF Healthy
  <2> QED
    BY <2>2, <2>3
<1> QED
  BY <1>1, <1>2 DEF Objects

\* A panic blanks the pod: nothing is logged, and main has ended.
LEMMA PanicIsHealthy ==
    ASSUME Accounted, Unharmed, NEW p \in Pods, Panic(p), UNCHANGED proxy,
           Fault \/ UNCHANGED faults
    PROVE  Unharmed'
<1>1. /\ main'[p] = "panicked" /\ log'[p] = {} /\ schema' = schema
      /\ \A q \in Pods \ {p} : main'[q] = main[q] /\ log'[q] = log[q] /\ exit'[q] = exit[q]
      /\ exit' = [q \in Pods |-> exit'[q]]
  BY DEF Panic, Go, Blank, Accounted, Unharmed
<1>2. Healthy(p)' /\ main'[p] \in Ended
  BY <1>1, IndexNamesAre DEF Healthy, Working, Ended
<1> QED
  BY <1>1, <1>2, UnharmedStep DEF Unharmed

\* Whatever a pod, its proxy or Kubernetes does keeps the invariant.
LEMMA UnharmedNext == Accounted /\ Unharmed /\ [DBNext]_dbVars => Unharmed'
<1> SUFFICES ASSUME Accounted, Unharmed, [DBNext]_dbVars PROVE Unharmed'
  OBVIOUS
<1>0. CASE UNCHANGED dbVars
  BY <1>0 DEF Unharmed, Healthy, Connected, dbVars, mainVars
<1>1. ASSUME NEW p \in Pods, Start(p) PROVE Unharmed'
  <2>1. CASE Panic(p)
    BY <1>1, <2>1, PanicIsHealthy DEF Start
  <2>2. CASE Go(p, "ping") /\ UNCHANGED <<schema, tries, existing, todo, log, exit>>
    <3>1. /\ main'[p] = "ping" /\ \A q \in Pods \ {p} : main'[q] = main[q]
          /\ exit[p] # "there"
      BY <1>1, <2>2 DEF Start, Go, Accounted, Unharmed, Ended
    <3>2. faults = 0 => Healthy(p)'
      BY <2>2, <3>1, IndexNamesAre DEF Unharmed, Healthy, Working
    <3> QED
      BY <1>1, <2>2, <3>1, <3>2, UnharmedStep DEF Start, Unharmed
  <2> QED
    BY <1>1, <2>1, <2>2 DEF Start
<1>2. ASSUME NEW p \in Pods, Ping(p) PROVE Unharmed'
  <2>1. /\ main'[p] \in {"ping", "ping again"} /\ \A q \in Pods \ {p} : main'[q] = main[q]
        /\ exit[p] # "there"
    BY <1>2 DEF Ping, Go, Accounted, Unharmed, Ended
  <2>2. faults = 0 => Healthy(p)'
    BY <1>2, <2>1, IndexNamesAre DEF Ping, Unharmed, Healthy, Working
  <2>3. Fault \/ UNCHANGED faults
    BY <1>2 DEF Ping, Lost
  <2> QED
    BY <1>2, <2>1, <2>2, <2>3, UnharmedStep DEF Ping, Unharmed
<1>3. ASSUME NEW p \in Pods, PingAgain(p) PROVE Unharmed'
  <2>1. CASE Panic(p)
    BY <1>3, <2>1, PanicIsHealthy DEF PingAgain
  <2>2. CASE /\ Connected(p)
             /\ Go(p, "show tables")
             /\ UNCHANGED <<schema, tries, existing, todo, log, exit, faults>>
    <3>1. /\ main'[p] = "show tables" /\ \A q \in Pods \ {p} : main'[q] = main[q]
          /\ exit[p] # "there"
      BY <1>3, <2>2 DEF PingAgain, Go, Accounted, Unharmed, Ended
    <3>2. faults = 0 => Healthy(p)'
      BY <1>3, <2>2, <3>1, IndexNamesAre DEF PingAgain, Unharmed, Healthy, Connected
    <3> QED
      BY <1>3, <2>2, <3>1, <3>2, UnharmedStep DEF PingAgain, Unharmed
  <2> QED
    BY <1>3, <2>1, <2>2 DEF PingAgain
<1>4. ASSUME NEW p \in Pods, ShowTables(p) PROVE Unharmed'
  <2>1. CASE Panic(p)
    BY <1>4, <2>1, PanicIsHealthy DEF ShowTables, Lost
  <2>2. CASE /\ Connected(p)
             /\ Go(p, "create")
             /\ Fault \/ UNCHANGED faults
             /\ UNCHANGED <<schema, tries, todo, log, exit>>
    <3>1. /\ main'[p] = "create" /\ \A q \in Pods \ {p} : main'[q] = main[q]
          /\ exit[p] # "there"
      BY <1>4, <2>2 DEF ShowTables, Go, Accounted, Unharmed, Ended
    <3>2. faults = 0 => Healthy(p)'
      BY <1>4, <2>2, <3>1, IndexNamesAre DEF ShowTables, Unharmed, Healthy, Connected
    <3> QED
      BY <1>4, <2>2, <3>1, <3>2, UnharmedStep DEF ShowTables, Unharmed
  <2> QED
    BY <1>4, <2>1, <2>2 DEF ShowTables
<1>5. ASSUME NEW p \in Pods, CreateTable(p) PROVE Unharmed'
  <2>1. PICK i \in DOMAIN tables :
          /\ \A j \in 1..(i - 1) : tables[j] \notin todo[p] \ existing[p]
          /\ Exec(p, tables[i])
    BY <1>5 DEF CreateTable
  <2>2. tables[i] \in TableNames /\ tables[i] \in Objects /\ tables[i] \notin IndexNames
    BY NamesDiffer DEF TableNames, Objects
  <2>3. ASSUME faults = 0, NEW j \in 1..(i - 1) PROVE tables[j] \in schema
    <3>1. tables[j] \in TableNames /\ tables[j] \in Objects
      <4>1. j \in DOMAIN tables
        BY SMT DEF tables
      <4> QED
        BY <4>1 DEF TableNames, Objects
    <3>2. tables[j] \notin log[p]
      BY <2>3, <3>1 DEF Unharmed, Healthy
    <3>3. CASE tables[j] \in existing[p]
      BY <3>3 DEF Accounted
    <3>4. CASE tables[j] \notin todo[p]
      BY <3>1, <3>2, <3>4 DEF Accounted
    <3> QED
      BY <2>1, <3>3, <3>4
  <2>4. /\ main' = main /\ main[p] = "create" /\ exit' = exit /\ proxy' = proxy
        /\ exit[p] # "there"
    BY <1>5 DEF CreateTable, Unharmed, Ended
  <2>5. ASSUME faults = 0, UNCHANGED faults PROVE Healthy(p)'
    <3>1. Healthy(p) /\ Connected(p)
      BY <2>4, <2>5 DEF Unharmed, Healthy, Working
    <3>2. ForeignKeys(tables[i]) \subseteq schema
      BY <2>3, <2>5, OrderRespectsForeignKeys
    <3>3. log'[p] \cap TableNames = {} /\ log'[p] \subseteq schema'
      BY <2>1, <2>2, <2>5, <3>1, <3>2, ExecIsHealthy
    <3>4. Connected(p)'
      BY <2>4, <3>1 DEF Connected
    <3> QED
      BY <2>4, <3>3, <3>4, IndexNamesAre DEF Healthy
  <2>6. /\ Fault \/ UNCHANGED faults
        /\ schema' = schema \/ schema' = schema \cup {tables[i]}
        /\ \A q \in Pods \ {p} : log'[q] = log[q]
    BY <2>1 DEF Exec, Lost, Accounted
  <2> QED
    BY <2>2, <2>4, <2>5, <2>6, UnharmedStep DEF Unharmed
<1>6. ASSUME NEW p \in Pods, CheckIndex(p) PROVE Unharmed'
  <2>1. CASE Panic(p)
    BY <1>6, <2>1, PanicIsHealthy DEF CheckIndex, Lost
  <2>2. ASSUME NEW s \in {"create"} \cup IndexNames, main' = [main EXCEPT ![p] = s],
               UNCHANGED <<schema, log, exit>>, Fault \/ UNCHANGED faults
        PROVE  Unharmed'
    <3>1. /\ main'[p] = s /\ \A q \in Pods \ {p} : main'[q] = main[q]
          /\ main[p] = "create" /\ exit[p] # "there"
      BY <1>6, <2>2 DEF CheckIndex, Accounted, Unharmed, Ended
    <3>2. ASSUME faults = 0 PROVE Healthy(p)'
      <4>1. Healthy(p) /\ Connected(p)
        BY <3>1, <3>2 DEF Unharmed, Healthy, Working
      <4>2. TableNames \subseteq schema
        BY <1>6, <4>1 DEF CheckIndex, Accounted, Objects, Healthy
      <4>3. Connected(p)'
        BY <1>6, <4>1 DEF CheckIndex, Connected
      <4> QED
        BY <2>2, <4>1, <4>2, <4>3 DEF Healthy
    <3> QED
      BY <1>6, <2>2, <3>1, <3>2, UnharmedStep DEF CheckIndex, Unharmed
  <2>3. CASE UNCHANGED <<schema, main, tries, existing, log, exit, faults>>
    <3>1. main' = [main EXCEPT ![p] = "create"]
      BY <1>6, <2>3 DEF CheckIndex, Accounted
    <3> QED
      BY <2>2, <2>3, <3>1
  <2> QED
    BY <1>6, <2>1, <2>2, <2>3 DEF CheckIndex, Go
<1>7. ASSUME NEW p \in Pods, CreateIndex(p) PROVE Unharmed'
  <2>1. /\ main[p] \in IndexNames /\ main[p] \in Objects /\ main[p] \notin TableNames
        /\ Exec(p, main[p])
    BY <1>7, NamesDiffer DEF CreateIndex, Objects
  <2>2. /\ main'[p] = "create" /\ \A q \in Pods \ {p} : main'[q] = main[q]
        /\ exit' = exit /\ proxy' = proxy
        /\ exit[p] # "there"
    BY <1>7, <2>1, IndexNamesAre DEF CreateIndex, Go, Accounted, Unharmed, Ended
  <2>3. ASSUME faults = 0, UNCHANGED faults PROVE Healthy(p)'
    <3>1. Healthy(p) /\ Connected(p) /\ TableNames \subseteq schema
      BY <2>1, <2>3, IndexNamesAre DEF Unharmed, Healthy, Working
    <3>2. log'[p] \cap TableNames = {} /\ log'[p] \subseteq schema'
      BY <2>1, <2>3, <3>1, ExecIsHealthy
    <3>3. Connected(p)'
      BY <2>2, <3>1 DEF Connected
    <3> QED
      BY <2>2, <3>2, <3>3, IndexNamesAre DEF Healthy
  <2>4. /\ Fault \/ UNCHANGED faults
        /\ schema' = schema \/ schema' = schema \cup {main[p]}
        /\ \A q \in Pods \ {p} : log'[q] = log[q]
    BY <2>1 DEF Exec, Lost, Accounted
  <2> QED
    BY <2>1, <2>2, <2>3, <2>4, UnharmedStep DEF Unharmed
<1>8. ASSUME NEW p \in Pods, Finish(p) PROVE Unharmed'
  <2>1. /\ main'[p] = "done" /\ \A q \in Pods \ {p} : main'[q] = main[q] /\ exit'[q] = exit[q]
        /\ exit' = [q \in Pods |-> exit'[q]]
        /\ UNCHANGED <<schema, log, proxy, faults>>
    BY <1>8 DEF Finish, Go, Accounted, Unharmed
  <2>2. faults = 0 => Healthy(p)'
    BY <2>1, IndexNamesAre DEF Unharmed, Healthy, Working
  <2>3. main'[p] \in Ended
    BY <2>1 DEF Ended
  <2> QED
    BY <2>1, <2>2, <2>3, UnharmedStep DEF Unharmed
<1>9. ASSUME NEW p \in Pods, ProxyStep(p) PROVE Unharmed'
  <2>1. /\ UNCHANGED <<schema, main, log, exit, faults>>
        /\ proxy' = [q \in Pods |-> proxy'[q]]
        /\ \A q \in Pods \ {p} : proxy'[q] = proxy[q]
    BY <1>9 DEF ProxyStep, StartProxy, StopProxy, mainVars, Unharmed
  <2>2. main[p] \in Working => proxy'[p] = "up" /\ main[p] \notin Ended
    BY <1>9 DEF ProxyStep, StartProxy, StopProxy, Unharmed, Ended, Working
  <2>3. faults = 0 => Healthy(p)'
    BY <2>1, <2>2 DEF Unharmed, Healthy, Connected
  <2> QED
    BY <2>1, <2>3, UnharmedStep DEF Unharmed
<1>10. ASSUME NEW p \in Pods, ChildEnds(p) PROVE Unharmed'
  <2>1. /\ UNCHANGED <<schema, main, log, exit>> /\ Fault
        /\ proxy' = [q \in Pods |-> proxy'[q]]
        /\ \A q \in Pods \ {p} : proxy'[q] = proxy[q]
    BY <1>10 DEF ChildEnds, mainVars, Unharmed
  <2> QED
    BY <2>1, FaultCounts DEF Unharmed
<1>11. ASSUME NEW p \in Pods, KillMain(p) PROVE Unharmed'
  <2>1. /\ UNCHANGED <<schema, proxy, exit>> /\ Fault
        /\ main'[p] = "killed" /\ \A q \in Pods \ {p} : main'[q] = main[q]
    BY <1>11 DEF KillMain, Go, Accounted
  <2> QED
    BY <2>1, FaultCounts DEF Unharmed, Ended
<1>12. ASSUME NEW p \in Pods, Retry(p) \/ LosePod(p) PROVE Unharmed'
  <2>1. /\ main'[p] = "start" /\ log'[p] = {} /\ exit'[p] = "none" /\ schema' = schema
        /\ \A q \in Pods \ {p} : /\ main'[q] = main[q] /\ log'[q] = log[q]
                                 /\ exit'[q] = exit[q] /\ proxy'[q] = proxy[q]
        /\ exit' = [q \in Pods |-> exit'[q]]
        /\ proxy' = [q \in Pods |-> proxy'[q]]
        /\ Fault \/ UNCHANGED faults
    BY SMT, <1>12 DEF Retry, LosePod, NewPod, Go, Blank, Accounted, Unharmed
  <2>2. Healthy(p)'
    BY <2>1, IndexNamesAre DEF Healthy, Working
  <2> QED
    BY SMT, <2>1, <2>2, UnharmedStep DEF Unharmed
<1> QED
  BY <1>0, <1>1, <1>2, <1>3, <1>4, <1>5, <1>6, <1>7, <1>8, <1>9, <1>10, <1>11, <1>12
     DEF DBNext, MainStep

\* As long as nothing fails createdb logs no table as not created and leaves
\* the whole schema behind, from any schema MySQL can hold and with any number
\* of pods at work: the order of tables respects their foreign keys.
THEOREM SchemaIsComplete == DBSpec => []CompleteWithoutFaults
<1>1. DBInit => Accounted /\ Unharmed
  <2> SUFFICES ASSUME DBInit PROVE Accounted /\ Unharmed
    OBVIOUS
  <2>1. Accounted
    BY DEF DBInit, Accounted, Steps
  <2>2. \A p \in Pods : main[p] = "start" /\ log[p] = {} /\ exit[p] = "none"
    BY DEF DBInit
  <2>3. \A p \in Pods : Healthy(p)
    BY <2>2, IndexNamesAre DEF Healthy, Working
  <2>4. schema \subseteq Objects
    BY SchemasAssumption DEF DBInit
  <2>5. proxy = [p \in Pods |-> proxy[p]] /\ exit = [p \in Pods |-> exit[p]] /\ faults = 0
    BY DEF DBInit
  <2> QED
    BY <2>1, <2>2, <2>3, <2>4, <2>5 DEF Unharmed
<1>2. Accounted /\ Unharmed => CompleteWithoutFaults
  <2> SUFFICES ASSUME Accounted, Unharmed, faults = 0, NEW p \in Pods
               PROVE  /\ log[p] \cap TableNames = {}
                      /\ main[p] = "done" => schema = Objects
    BY DEF CompleteWithoutFaults
  <2>1. Healthy(p) /\ schema \subseteq Objects
    BY DEF Unharmed
  <2>2. main[p] = "done" => Objects \ schema \subseteq log[p]
    BY DEF Accounted
  <2> QED
    BY <2>1, <2>2 DEF Healthy
<1> QED
  BY <1>1, <1>2, AccountedNext, UnharmedNext, PTL DEF DBSpec

----------------------------------------------------------------------------
\* updatetree.

Fields == {"tree_state", "tree_type"}

\* From the first time the server has applied a request of u the tree keeps
\* what the request says, unless there is a rival.
Lasting(u) ==
    applied[u] = "yes" /\ Unrivalled(u) => \A f \in Fields : flag[u][f] \in {"", tree[f]}

\* What was reported as applied was applied, and lasts.
Applied ==
    /\ DOMAIN tree = Fields
    /\ pc = [u \in Updaters |-> pc[u]]
    /\ request = [u \in Updaters |-> request[u]]
    /\ applied = [u \in Updaters |-> applied[u]]
    /\ \A u \in Updaters :
          /\ request[u] = "applied" => applied[u] = "yes"
          /\ pc[u] = "ok" => applied[u] = "yes"
          /\ Lasting(u)

----------------------------------------------------------------------------

\* Whether there is a rival depends on the flags only.
LEMMA RivalsStay ==
    ASSUME NEW u \in Updaters, flag' = flag, DOMAIN tree' = DOMAIN tree
    PROVE  Unrivalled(u)' <=> Unrivalled(u)
<1>1. ASSUME NEW v \in Updaters \ {u}, NEW f
      PROVE  (flag[v].tree_id = 0 \/ flag[v][f] \in {"", flag[u][f]} \/ flag[u][f] = "")'
             <=> (flag[v].tree_id = 0 \/ flag[v][f] \in {"", flag[u][f]} \/ flag[u][f] = "")
  OBVIOUS
<1> QED
  BY <1>1, Zenon DEF Unrivalled

\* Steps that touch neither the flags nor the tree change nothing about it.
LEMMA LastingStays ==
    ASSUME NEW u \in Updaters, flag' = flag, tree' = tree, applied' = applied, Lasting(u)
    PROVE  Lasting(u)'
BY RivalsStay DEF Lasting

\* A request that is applied, now or late, leaves every earlier one in force.
LEMMA ApplyLasts ==
    ASSUME Applied, NEW v \in Updaters, flag[v].tree_id = 1, Apply(v), UNCHANGED flag
    PROVE  /\ DOMAIN tree' = Fields
           /\ applied' = [u \in Updaters |-> applied'[u]]
           /\ \A u \in Updaters : applied[u] = "yes" => applied'[u] = "yes"
           /\ applied'[v] = "yes"
           /\ \A u \in Updaters : Lasting(u)'
<1>1. /\ DOMAIN tree' = Fields
      /\ \A f \in Fields : tree'[f] = IF flag[v][f] # "" THEN flag[v][f] ELSE tree[f]
  BY DEF Applied, Apply, paths, Value, Fields
<1>2. /\ applied' = [u \in Updaters |-> applied'[u]]
      /\ \A u \in Updaters \ {v} : applied'[u] = applied[u]
      /\ applied'[v] = "yes"
  BY DEF Applied, Apply
<1>3. ASSUME NEW u \in Updaters PROVE Lasting(u)'
  <2> SUFFICES ASSUME applied'[u] = "yes", Unrivalled(u)', NEW f \in Fields
               PROVE  flag[u][f] \in {"", tree'[f]}
    BY DEF Lasting
  <2>1. CASE u = v
    BY <1>1, <2>1
  <2>2. CASE u # v
    <3>1. Unrivalled(u)
      BY <1>1, RivalsStay DEF Applied
    <3>2. flag[u][f] \in {"", tree[f]}
      BY <1>2, <2>2, <3>1 DEF Applied, Lasting
    <3>3. flag[v][f] \in {"", flag[u][f]} \/ flag[u][f] = ""
      <4>1. flag[v].tree_id # 0
        BY SMT
      <4>2. v \in Updaters \ {u} /\ f \in DOMAIN tree
        BY <2>2 DEF Applied
      <4> QED
        BY <3>1, <4>1, <4>2, Zenon DEF Unrivalled
    <3> QED
      BY <1>1, <3>2, <3>3
  <2> QED
    BY <2>1, <2>2
<1> QED
  BY <1>1, <1>2, <1>3

\* Whatever the command, the server or the clock does keeps the invariant.
LEMMA AppliedNext == Applied /\ [UpdateNext]_updateVars => Applied'
<1> SUFFICES ASSUME Applied, [UpdateNext]_updateVars PROVE Applied'
  OBVIOUS
<1>1. CASE UNCHANGED updateVars
  BY <1>1, LastingStays DEF Applied, updateVars
<1>2. ASSUME NEW u \in Updaters, CheckFlags(u) \/ Wake(u) PROVE Applied'
  <2>1. UNCHANGED <<flag, tree, applied, request>>
    BY <1>2 DEF CheckFlags, Wake
  <2>2. /\ pc' = [v \in Updaters |-> pc'[v]]
        /\ \A v \in Updaters : pc'[v] = "ok" => pc[v] = "ok"
    BY <1>2 DEF CheckFlags, Wake, Goto, Applied
  <2> QED
    BY <2>1, <2>2, LastingStays DEF Applied
<1>3. ASSUME NEW u \in Updaters, Call(u) \/ Unavailable(u) \/ DeadlineExceeded(u) PROVE Applied'
  <2>1. UNCHANGED <<flag, tree, applied>>
    BY <1>3 DEF Call, Unavailable, DeadlineExceeded
  <2>2. /\ pc' = [v \in Updaters |-> pc'[v]]
        /\ \A v \in Updaters : pc'[v] = "ok" => pc[v] = "ok"
    BY <1>3 DEF Call, Unavailable, DeadlineExceeded, Goto, Applied
  <2>3. /\ request' = [v \in Updaters |-> request'[v]]
        /\ \A v \in Updaters : request'[v] = "applied" => request[v] = "applied"
    BY <1>3 DEF Call, Unavailable, DeadlineExceeded, Abandon, Applied
  <2> QED
    BY <2>1, <2>2, <2>3, LastingStays DEF Applied
<1>4. ASSUME NEW u \in Updaters, Reply(u) PROVE Applied'
  <2>1. UNCHANGED <<flag, tree, applied>>
    BY <1>4 DEF Reply
  <2>2. /\ pc' = [v \in Updaters |-> pc'[v]]
        /\ \A v \in Updaters : pc'[v] = "ok" => applied[v] = "yes"
    BY <1>4 DEF Reply, Goto, Applied
  <2>3. /\ request' = [v \in Updaters |-> request'[v]]
        /\ \A v \in Updaters : request'[v] = "applied" => request[v] = "applied"
    BY <1>4 DEF Reply, Applied
  <2> QED
    BY <2>1, <2>2, <2>3, LastingStays DEF Applied
<1>5. ASSUME NEW u \in Updaters, Serve(u) PROVE Applied'
  <2>1. /\ UNCHANGED <<flag, pc>>
        /\ request' = [v \in Updaters |-> request'[v]]
        /\ \A v \in Updaters \ {u} : request'[v] = request[v]
    BY <1>5 DEF Serve, Applied
  <2>2. CASE flag[u].tree_id = 1 /\ Apply(u)
    BY <2>1, <2>2, ApplyLasts DEF Applied
  <2>3. CASE request' = [request EXCEPT ![u] = "refused"] /\ UNCHANGED <<tree, applied>>
    <3>1. request'[u] = "refused"
      BY <2>3 DEF Applied
    <3> QED
      BY <2>1, <2>3, <3>1, LastingStays DEF Applied
  <2> QED
    BY <1>5, <2>2, <2>3 DEF Serve
<1>6. ASSUME NEW u \in Updaters, ServeLate(u) PROVE Applied'
  <2>1. UNCHANGED <<flag, pc, request>>
    BY <1>6 DEF ServeLate
  <2>2. CASE flag[u].tree_id = 1 /\ Apply(u)
    BY <2>1, <2>2, ApplyLasts DEF Applied
  <2>3. CASE UNCHANGED <<tree, applied>>
    BY <2>1, <2>3, LastingStays DEF Applied
  <2> QED
    BY <1>6, <2>2, <2>3 DEF ServeLate
<1>7. ASSUME NEW u \in Updaters, DeadlinePasses(u) PROVE Applied'
  BY <1>7, LastingStays DEF DeadlinePasses, Applied
<1> QED
  BY <1>1, <1>2, <1>3, <1>4, <1>5, <1>6, <1>7 DEF UpdateNext, UpdateStep

\* When updatetree reports success the server has applied the request, and
\* unless another invocation asks for something different the tree stays that
\* way, whatever requests that were given up reach the server afterwards.
THEOREM SuccessLasts == UpdateSpec => []SuccessIsLasting
<1>1. UpdateInit => Applied
  BY SMT DEF UpdateInit, Applied, Lasting, Fields
<1>2. Applied => SuccessIsLasting
  BY DEF Applied, Lasting, SuccessIsLasting
<1> QED
  BY <1>1, <1>2, AppliedNext, PTL DEF UpdateSpec

----------------------------------------------------------------------------
\* Only what was asked for.

\* A request exists, in whatever state, only on behalf of an invocation whose
\* flags were checked before: CheckFlags lets no other one reach Call.
Checked ==
    /\ DOMAIN tree = Fields
    /\ pc = [u \in Updaters |-> pc[u]]
    /\ request = [u \in Updaters |-> request[u]]
    /\ late \in [Updaters -> Nat]
    /\ \A u \in Updaters :
          \/ Valid(u)
          \/ /\ pc[u] \notin {"call", "wait", "sleep"}
             /\ request[u] # "sent"
             /\ late[u] = 0

\* Whether the flags make sense depends on the flags only.
LEMMA ValidStays ==
    ASSUME NEW u \in Updaters, flag' = flag
    PROVE  Valid(u)' <=> Valid(u)
BY DEF Valid, paths

\* Whatever the command, the server or the clock does keeps the invariant.
LEMMA CheckedNext == Checked /\ [UpdateNext]_updateVars => Checked'
<1> SUFFICES ASSUME Checked, [UpdateNext]_updateVars PROVE Checked'
  OBVIOUS
<1>1. CASE UNCHANGED updateVars
  BY <1>1, ValidStays DEF Checked, updateVars
<1>2. ASSUME NEW u \in Updaters, CheckFlags(u) PROVE Checked'
  <2>1. pc' = [pc EXCEPT ![u] = pc'[u]] /\ (pc'[u] = "call" => Valid(u))
        /\ pc'[u] \in {"skipped", "call", "error"}
    BY <1>2 DEF CheckFlags, Goto, Checked
  <2> QED
    BY <1>2, <2>1, ValidStays DEF CheckFlags, Checked
<1>3. ASSUME NEW u \in Updaters, Call(u) PROVE Checked'
  BY <1>3, ValidStays DEF Call, Goto, Checked
<1>4. ASSUME NEW u \in Updaters, Reply(u) PROVE Checked'
  BY <1>4, ValidStays DEF Reply, Goto, Checked
<1>5. ASSUME NEW u \in Updaters, Unavailable(u) \/ DeadlineExceeded(u) PROVE Checked'
  BY SMT, <1>5, ValidStays DEF Unavailable, DeadlineExceeded, Abandon, Goto, Checked
<1>6. ASSUME NEW u \in Updaters, Wake(u) PROVE Checked'
  BY <1>6, ValidStays DEF Wake, Goto, Checked
<1>7. ASSUME NEW u \in Updaters, Serve(u) PROVE Checked'
  <2>1. DOMAIN tree' = Fields
    BY <1>7 DEF Serve, Apply, Checked
  <2> QED
    BY <1>7, <2>1, ValidStays DEF Serve, Checked
<1>8. ASSUME NEW u \in Updaters, ServeLate(u) PROVE Checked'
  <2>1. DOMAIN tree' = Fields
    BY <1>8 DEF ServeLate, Apply, Checked
  <2> QED
    BY SMT, <1>8, <2>1, ValidStays DEF ServeLate, Checked
<1>9. ASSUME NEW u \in Updaters, DeadlinePasses(u) PROVE Checked'
  BY <1>9, ValidStays DEF DeadlinePasses, Checked
<1> QED
  BY <1>1, <1>2, <1>3, <1>4, <1>5, <1>6, <1>7, <1>8, <1>9 DEF UpdateNext, UpdateStep

\* The steps that change the tree are the server's, for a checked request, and
\* change a field only to what its flag says.
LEMMA ChangeWasAsked ==
    ASSUME Checked, UpdateNext, NEW f \in DOMAIN tree, tree'[f] # tree[f]
    PROVE  \E u \in Updaters :
              /\ flag[u].tree_id = 1
              /\ flag[u][f] = tree'[f]
              /\ flag[u].tree_state \in KnownStates \cup {""}
              /\ flag[u].tree_type \in KnownTypes \cup {""}
<1>1. PICK u \in Updaters : Serve(u) \/ ServeLate(u)
  <2>1. ASSUME NEW u \in Updaters, UpdateStep(u) \/ Unavailable(u) \/ DeadlinePasses(u)
        PROVE  tree' = tree
    BY <2>1 DEF UpdateStep, CheckFlags, Call, Reply, Wake, DeadlineExceeded, Unavailable,
                DeadlinePasses
  <2> QED
    BY <2>1 DEF UpdateNext
<1>2. flag[u].tree_id = 1 /\ Apply(u)
  BY <1>1 DEF Serve, ServeLate
<1>3. Valid(u)
  BY SMT, <1>1 DEF Serve, ServeLate, Checked
<1>4. flag[u][f] = tree'[f]
  BY <1>2 DEF Apply, paths, Value
<1> QED
  BY <1>2, <1>3, <1>4 DEF Valid

\* updatetree changes only the fields its flags name, only to the values they
\* give and never if one of them does not make sense, for any number of
\* invocations and whenever abandoned requests reach the server.
THEOREM ChangesWereAsked == UpdateSpec => OnlyWhatWasAsked
<1>1. UpdateInit => Checked
  BY SMT DEF UpdateInit, Checked, Fields
<1>2. Checked /\ [UpdateNext]_updateVars =>
        [\A f \in DOMAIN tree : tree'[f] # tree[f] =>
            \E u \in Updaters :
                /\ flag[u].tree_id = 1
                /\ flag[u][f] = tree'[f]
                /\ flag[u].tree_state \in KnownStates \cup {""}
                /\ flag[u].tree_type \in KnownTypes \cup {""}]_updateVars
  BY ChangeWasAsked
<1> QED
  BY <1>1, <1>2, CheckedNext, PTL DEF UpdateSpec, OnlyWhatWasAsked

=============================================================================
