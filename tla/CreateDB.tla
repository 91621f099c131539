------------------------------ MODULE CreateDB ------------------------------
(***************************************************************************)
(* The job that creates the schema of Trillian                             *)
(* (tools/trillian/cmd/trillian/createdb/main.go), and the Cloud SQL proxy *)
(* (tools/cloudsqlproxy/cmd/cloudsqlproxy/main.go) that may run beside it  *)
(* in its pod.  Statements that fail are logged and passed over, everything*)
(* else that fails is a panic, and main tells the proxy through a file     *)
(* (exitdir) that it has ended.                                            *)
(*                                                                         *)
(* External: MySQL, which refuses a table whose foreign keys name a table  *)
(* that does not exist and an index that exists or has no table; exitdir;  *)
(* and the Job controller, which starts a pod again when one of its        *)
(* containers has failed.                                                  *)
(***************************************************************************)
EXTENDS Faults, Sequences

CONSTANTS
    Pods,      \* pods of the job, more than one if they overlap
    MaxPings,  \* rounds of the loop around Ping (five in the code)
    Schemas    \* what the database may hold at the beginning

VARIABLES
    configured, \* whether the flags name a database
    sidecar,    \* whether the database is reached through the proxy
    schema,     \* the database: its tables and indices
    main,       \* per pod: the next step of main, or how it ended
    tries,      \* per pod: failed rounds of the loop around Ping
    existing,   \* per pod: existingTables
    todo,       \* per pod: tables, then indices, still to be looked at
    log,        \* per pod: tables and indices logged as not created
    proxy,      \* per pod: the proxy
    exit        \* per pod: "there" if the exit file exists

env == <<configured, sidecar>>
mainVars == <<main, tries, existing, todo, log, exit>>
dbVars == <<env, schema, mainVars, proxy, faults>>

----------------------------------------------------------------------------
\* The statements.

\* Mutant: a table comes before the one it depends on.
tablesOutOfOrder == <<"Trees", "TreeControl", "Subtree", "TreeHead",
                      "SequencedLeafData", "LeafData", "Unsequenced">>

tables == <<"Trees", "TreeControl", "Subtree", "TreeHead", "LeafData",
            "SequencedLeafData", "Unsequenced">>

TableNames == {tables[i] : i \in DOMAIN tables}

\* The tables that the FOREIGN KEYs of a createTable... statement name.
ForeignKeys(t) ==
    CASE t \in {"Trees", "Unsequenced"} -> {}
      [] t \in {"TreeControl", "Subtree", "TreeHead", "LeafData"} -> {"Trees"}
      [] t = "SequencedLeafData" -> {"Trees", "LeafData"}

createIndices ==
    [TreeHeadRevisionIdx |-> "TreeHead", SequencedLeafMerkleIdx |-> "SequencedLeafData"]

IndexNames == DOMAIN createIndices
Objects == TableNames \cup IndexNames

\* CREATE TABLE IF NOT EXISTS also succeeds for a table that exists,
\* CREATE INDEX does not.
Accepted(o) ==
    IF o \in TableNames THEN o \in schema \/ ForeignKeys(o) \subseteq schema
    ELSE o \notin schema /\ createIndices[o] \in schema

ASSUME MaxPingsAssumption == MaxPings \in Nat \ {0}

\* Schemas that MySQL can hold.
ASSUME SchemasAssumption ==
    \A s \in Schemas :
        /\ s \subseteq Objects
        /\ \A o \in s : IF o \in TableNames THEN ForeignKeys(o) \subseteq s
                        ELSE createIndices[o] \in s

----------------------------------------------------------------------------
\* The life of a pod.

DBInit ==
    /\ configured \in BOOLEAN
    /\ sidecar \in BOOLEAN
    /\ schema \in Schemas
    /\ main = [p \in Pods |-> "start"]
    /\ tries = [p \in Pods |-> 0]
    /\ existing = [p \in Pods |-> {}]
    /\ todo = [p \in Pods |-> Objects]
    /\ log = [p \in Pods |-> {}]
    /\ proxy = [p \in Pods |-> IF sidecar THEN "starting" ELSE "none"]
    /\ exit = [p \in Pods |-> "none"]
    /\ faults = 0

\* The address in mysql_uri answers.
Connected(p) == proxy[p] \in {"none", "up"}

Ended == {"done", "panicked", "killed"}

Go(p, s) == main' = [main EXCEPT ![p] = s]

\* The memory of a process at its start, and when it has failed.
Blank(p) ==
    /\ tries' = [tries EXCEPT ![p] = 0]
    /\ existing' = [existing EXCEPT ![p] = {}]
    /\ todo' = [todo EXCEPT ![p] = Objects]
    /\ log' = [log EXCEPT ![p] = {}]

\* Mutant: the file is written at the end of main, not by a deferred function.
PanicWithoutFile(p) ==
    /\ Go(p, "panicked")
    /\ Blank(p)
    /\ UNCHANGED <<schema, exit>>

\* main panics: its deferred functions run, and write the file.
Panic(p) ==
    /\ Go(p, "panicked")
    /\ exit' = [exit EXCEPT ![p] = "there"]
    /\ Blank(p)
    /\ UNCHANGED schema

\* A request that fails: the proxy is not there, or a fault.
Lost(p) == IF Connected(p) THEN Fault ELSE UNCHANGED faults

----------------------------------------------------------------------------
\* The steps of main.

Start(p) ==
    /\ main[p] = "start"
    /\ IF configured THEN Go(p, "ping") /\ UNCHANGED <<schema, tries, existing, todo, log, exit>>
       ELSE Panic(p)
    /\ UNCHANGED <<env, proxy, faults>>

\* The loop: at most five pings, two seconds apart.
Ping(p) ==
    /\ main[p] = "ping"
    /\ \/ /\ Connected(p)
          /\ Go(p, "ping again")
          /\ tries' = [tries EXCEPT ![p] = 0]
          /\ UNCHANGED faults
       \/ /\ Lost(p)
          /\ IF tries[p] + 1 < MaxPings
             THEN UNCHANGED main /\ tries' = [tries EXCEPT ![p] = @ + 1]
             ELSE Go(p, "ping again") /\ tries' = [tries EXCEPT ![p] = 0]
    /\ UNCHANGED <<env, schema, existing, todo, log, proxy, exit>>

\* The last ping.  A proxy that takes longer than the loop is a fault.
PingAgain(p) ==
    /\ main[p] = "ping again"
    /\ \/ /\ Connected(p)
          /\ Go(p, "show tables")
          /\ UNCHANGED <<schema, tries, existing, todo, log, exit, faults>>
       \/ /\ IF proxy[p] \in {"failed", "idle"} THEN UNCHANGED faults ELSE Fault
          /\ Panic(p)
    /\ UNCHANGED <<env, proxy>>

\* A connection that breaks while the rows are read ends the loop over them
\* without an error: what was read until then is taken for the whole.
ShowTables(p) ==
    /\ main[p] = "show tables"
    /\ \/ /\ Connected(p)
          /\ \E rows \in SUBSET (schema \cap TableNames) :
                /\ existing' = [existing EXCEPT ![p] = rows]
                /\ IF rows = schema \cap TableNames THEN UNCHANGED faults ELSE Fault
          /\ Go(p, "create")
          /\ UNCHANGED <<schema, tries, todo, log, exit>>
       \/ Lost(p) /\ Panic(p)
    /\ UNCHANGED <<env, proxy>>

\* db.Exec of the statement that creates o: accepted, accepted although main
\* gets an error, refused, or lost.  An error is logged.
Exec(p, o) ==
    \/ /\ Connected(p) /\ Accepted(o)
       /\ schema' = schema \cup {o}
       /\ \/ UNCHANGED <<log, faults>>
          \/ log' = [log EXCEPT ![p] = @ \cup {o}] /\ Fault
    \/ /\ log' = [log EXCEPT ![p] = @ \cup {o}]
       /\ IF Connected(p) /\ ~ Accepted(o) THEN UNCHANGED faults ELSE Lost(p)
       /\ UNCHANGED schema

\* The loop over tables, in their order; those that exist are passed over.
CreateTable(p) ==
    /\ main[p] = "create"
    /\ \E i \in DOMAIN tables :
          /\ tables[i] \in todo[p] \ existing[p]
          /\ \A j \in 1..(i - 1) : tables[j] \notin todo[p] \ existing[p]
          /\ Exec(p, tables[i])
          /\ todo' = [todo EXCEPT ![p] = @ \ {tables[j] : j \in 1..i}]
    /\ UNCHANGED <<env, main, tries, existing, proxy, exit>>

\* Mutant: the index is looked for by name only, and one is taken for all.
IndexExistsByAny(p, i) == schema \cap IndexNames # {}

indexExists(p, i) == i \in schema

\* The loop over createIndices, a map, in any order.  As above, rows that are
\* cut short give no error: the count stays 0.
CheckIndex(p) ==
    /\ main[p] = "create"
    /\ todo[p] \cap TableNames \subseteq existing[p]
    /\ \E i \in todo[p] \cap IndexNames :
          \/ /\ Connected(p) /\ indexExists(p, i)
             /\ todo' = [todo EXCEPT ![p] = @ \ {i}]
             /\ UNCHANGED <<schema, main, tries, existing, log, exit, faults>>
          \/ /\ Connected(p)
             /\ Go(p, i)
             /\ IF indexExists(p, i) THEN Fault ELSE UNCHANGED faults
             /\ UNCHANGED <<schema, tries, existing, todo, log, exit>>
          \/ Lost(p) /\ Panic(p)
    /\ UNCHANGED <<env, proxy>>

CreateIndex(p) ==
    /\ main[p] \in IndexNames
    /\ Exec(p, main[p])
    /\ todo' = [todo EXCEPT ![p] = @ \ {main[p]}]
    /\ Go(p, "create")
    /\ UNCHANGED <<env, tries, existing, proxy, exit>>

\* main returns, and its deferred function writes the file.
Finish(p) ==
    /\ main[p] = "create"
    /\ todo[p] \subseteq existing[p]
    /\ Go(p, "done")
    /\ exit' = [exit EXCEPT ![p] = "there"]
    /\ todo' = [todo EXCEPT ![p] = {}]
    /\ existing' = [existing EXCEPT ![p] = {}]
    /\ UNCHANGED <<env, schema, tries, log, proxy, faults>>

MainStep(p) ==
    \/ Start(p) \/ Ping(p) \/ PingAgain(p) \/ ShowTables(p)
    \/ CreateTable(p) \/ CheckIndex(p) \/ CreateIndex(p) \/ Finish(p)

----------------------------------------------------------------------------
\* The proxy.

\* A context that has ended before the child is started makes Run fail with
\* "context canceled", which is not the error main expects at the end.
StartProxy(p) ==
    /\ proxy[p] = "starting"
    /\ \E s \in {"up"} \cup (IF exit[p] = "there" THEN {"failed"} ELSE {}) :
          proxy' = [proxy EXCEPT ![p] = s]
    /\ UNCHANGED <<env, schema, mainVars, faults>>

\* Mutant: "signal: killed" is an error like any other.
StopProxyPanics(p) ==
    /\ proxy[p] \in {"up", "idle"}
    /\ exit[p] = "there"
    /\ proxy' = [proxy EXCEPT ![p] = IF @ = "up" THEN "failed" ELSE "exited"]
    /\ UNCHANGED <<env, schema, mainVars, faults>>

\* The child is killed, or has ended before, and the context is done.
StopProxy(p) ==
    /\ proxy[p] \in {"up", "idle"}
    /\ exit[p] = "there"
    /\ proxy' = [proxy EXCEPT ![p] = "exited"]
    /\ UNCHANGED <<env, schema, mainVars, faults>>

\* The child ends by itself: with an error main panics, without it main waits
\* for the context.
ChildEnds(p) ==
    /\ proxy[p] = "up"
    /\ \E s \in {"failed", "idle"} : proxy' = [proxy EXCEPT ![p] = s]
    /\ Fault
    /\ UNCHANGED <<env, schema, mainVars>>

ProxyStep(p) == StartProxy(p) \/ StopProxy(p)

----------------------------------------------------------------------------
\* Kubernetes.

\* main alone is killed (out of memory): no deferred function runs.
KillMain(p) ==
    /\ main[p] \notin Ended
    /\ Go(p, "killed")
    /\ Blank(p)
    /\ Fault
    /\ UNCHANGED <<env, schema, proxy, exit>>

NewPod(p) ==
    /\ Go(p, "start")
    /\ Blank(p)
    /\ proxy' = [proxy EXCEPT ![p] = IF sidecar THEN "starting" ELSE "none"]
    /\ exit' = [exit EXCEPT ![p] = "none"]
    /\ UNCHANGED <<env, schema>>

\* The pod has failed: all containers have ended, one with an error.
Retry(p) ==
    /\ main[p] \in Ended
    /\ proxy[p] \in {"none", "exited", "failed"}
    /\ main[p] # "done" \/ proxy[p] = "failed"
    /\ NewPod(p)
    /\ UNCHANGED faults

\* The pod is lost as a whole.
LosePod(p) ==
    /\ main[p] \notin Ended
    /\ NewPod(p)
    /\ Fault

DBNext ==
    \E p \in Pods :
        \/ MainStep(p) \/ ProxyStep(p) \/ ChildEnds(p)
        \/ KillMain(p) \/ Retry(p) \/ LosePod(p)

\* The containers run, and the Job controller starts failed pods again.
DBSpec ==
    /\ DBInit /\ [][DBNext]_dbVars
    /\ \A p \in Pods : WF_dbVars(MainStep(p)) /\ WF_dbVars(ProxyStep(p)) /\ WF_dbVars(Retry(p))

----------------------------------------------------------------------------
\* Properties.

\* The job succeeds although statements have failed, so the log is all that
\* tells: whatever is missing when main returns has been logged by this pod,
\* also if the list of tables was cut short, a reply was lost or another pod
\* worked at the same time.
MissingIsLogged ==
    \A p \in Pods : main[p] = "done" => Objects \ schema \subseteq log[p]

\* The order of tables respects the foreign keys: as long as nothing fails no
\* table is refused, from any schema, with any number of pods at work, and
\* main leaves the whole schema.
CompleteWithoutFaults ==
    faults = 0 =>
        \A p \in Pods :
            /\ log[p] \cap TableNames = {}
            /\ main[p] = "done" => schema = Objects

\* The proxy does not outlive main, however early or late main ends and
\* whether it returns or panics: the file is written in all cases and the
\* proxy sees it even if it starts later.  (If main is killed it is not.)
ProxyStops ==
    \A p \in Pods :
        main[p] \in {"done", "panicked"}
            ~> proxy[p] \in {"none", "exited", "failed"} \/ main[p] \notin {"done", "panicked"}

\* With the flags set every pod finishes in the end, unless main was killed
\* under a proxy that nobody stops.
DBJobFinishes ==
    configured => <>[](\A p \in Pods : main[p] = "done" \/ (main[p] = "killed" /\ sidecar))

=============================================================================
