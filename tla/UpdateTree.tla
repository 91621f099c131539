----------------------------- MODULE UpdateTree -----------------------------
(***************************************************************************)
(* The updatetree command                                                  *)
(* (tools/trillian/cmd/trillian/updatetree/main.go): it changes the state  *)
(* or the type of a tree, usually to freeze a log, and repeats the request *)
(* while the admin server is unavailable, under one deadline for all       *)
(* attempts.  Several people may run it at the same time.                  *)
(*                                                                         *)
(* External: the admin server, with one tree, whose ID is 1.  It applies   *)
(* the masked fields of a request or refuses it.  gRPC reports Unavailable *)
(* also when the connection breaks after the request was sent: the server  *)
(* may have applied it, or apply it later.                                 *)
(***************************************************************************)
EXTENDS Naturals

CONSTANTS
    Updaters,    \* invocations of the command
    TreeIDs,     \* values of -tree_id
    TreeStates,  \* values of -tree_state
    TreeTypes,   \* values of -tree_type
    MaxLate      \* bound: abandoned requests of an invocation under way

ASSUME MaxLateAssumption == MaxLate \in Nat

VARIABLES
    flag,     \* per invocation: its flags
    tree,     \* the tree of the admin server
    pc,       \* per invocation: where updateTree stands, or how main ended
    request,  \* per invocation: what became of the request it waits for
    late,     \* per invocation: requests it gave up that are still under way
    deadline, \* per invocation: "passed" if its context has ended
    applied   \* history, per invocation: "yes" once the server applied it

updateVars == <<flag, tree, pc, request, late, deadline, applied>>

\* The enums trillian.TreeState and trillian.TreeType, and their zero values.
KnownStates == {"UNKNOWN_TREE_STATE", "ACTIVE", "FROZEN", "DRAINING",
                "DEPRECATED_SOFT_DELETED", "DEPRECATED_HARD_DELETED"}
KnownTypes == {"UNKNOWN_TREE_TYPE", "LOG", "PREORDERED_LOG"}
Unset == [tree_state |-> "UNKNOWN_TREE_STATE", tree_type |-> "UNKNOWN_TREE_TYPE"]

Over == {"skipped", "ok", "error"}

UpdateInit ==
    /\ flag \in [Updaters -> [tree_id : TreeIDs, tree_state : TreeStates, tree_type : TreeTypes]]
    /\ tree = [tree_state |-> "ACTIVE", tree_type |-> "PREORDERED_LOG"]
    /\ pc = [u \in Updaters |-> "start"]
    /\ request = [u \in Updaters |-> "none"]
    /\ late = [u \in Updaters |-> 0]
    /\ deadline = [u \in Updaters |-> "ahead"]
    /\ applied = [u \in Updaters |-> "no"]

Goto(u, s) == pc' = [pc EXCEPT ![u] = s]

----------------------------------------------------------------------------
\* The request.

\* Mutant: both fields are always in the mask.
pathsAll(u) == {"tree_state", "tree_type"}

\* The field mask: a flag that is empty leaves its field out.
paths(u) == {f \in {"tree_state", "tree_type"} : flag[u][f] # ""}

\* A flag that is set must be the name of a value of its enum.
Valid(u) ==
    /\ flag[u].tree_state \in KnownStates \cup {""}
    /\ flag[u].tree_type \in KnownTypes \cup {""}
    /\ paths(u) # {}

\* A field that is in the mask but was never set has the enum's zero value.
Value(u, f) == IF flag[u][f] = "" THEN Unset[f] ELSE flag[u][f]

\* The server updates the fields of the mask.
Apply(u) ==
    /\ tree' = [f \in DOMAIN tree |-> IF f \in paths(u) THEN Value(u, f) ELSE tree[f]]
    /\ applied' = [applied EXCEPT ![u] = "yes"]

----------------------------------------------------------------------------
\* main and updateTree.

CheckFlags(u) ==
    /\ pc[u] = "start"
    /\ Goto(u, IF flag[u].tree_id = 0 THEN "skipped" ELSE IF Valid(u) THEN "call" ELSE "error")
    /\ UNCHANGED <<flag, tree, request, late, deadline, applied>>

\* client.UpdateTree sends the request unless the context has ended.
Call(u) ==
    /\ pc[u] = "call"
    /\ deadline[u] = "ahead"
    /\ Goto(u, "wait")
    /\ request' = [request EXCEPT ![u] = "sent"]
    /\ UNCHANGED <<flag, tree, late, deadline, applied>>

\* The reply to the request it waits for: the new tree, or an error status
\* other than Unavailable.
Reply(u) ==
    /\ pc[u] = "wait"
    /\ request[u] \in {"applied", "refused"}
    /\ Goto(u, IF request[u] = "applied" THEN "ok" ELSE "error")
    /\ request' = [request EXCEPT ![u] = "none"]
    /\ UNCHANGED <<flag, tree, late, deadline, applied>>

\* The call ends without an answer of the server, which may still be at it.
Abandon(u) ==
    /\ request' = [request EXCEPT ![u] = "none"]
    /\ \/ UNCHANGED late
       \/ /\ request[u] = "sent" /\ late[u] < MaxLate
          /\ late' = [late EXCEPT ![u] = @ + 1]

\* Mutant: an unavailable server is taken for a success.
UnavailableIsFine(u) ==
    /\ pc[u] \in {"call", "wait"}
    /\ deadline[u] = "ahead"
    /\ Goto(u, "ok")
    /\ Abandon(u)
    /\ UNCHANGED <<flag, tree, deadline, applied>>

\* codes.Unavailable: there is no connection, or it broke.
Unavailable(u) ==
    /\ pc[u] \in {"call", "wait"}
    /\ deadline[u] = "ahead"
    /\ Goto(u, "sleep")
    /\ Abandon(u)
    /\ UNCHANGED <<flag, tree, deadline, applied>>

\* time.Sleep does not look at the context.
Wake(u) ==
    /\ pc[u] = "sleep"
    /\ Goto(u, "call")
    /\ UNCHANGED <<flag, tree, request, late, deadline, applied>>

\* Mutant: every error leads to another attempt.
DeadlineRetried(u) ==
    /\ pc[u] \in {"call", "wait"}
    /\ deadline[u] = "passed"
    /\ Goto(u, "sleep")
    /\ Abandon(u)
    /\ UNCHANGED <<flag, tree, deadline, applied>>

\* codes.DeadlineExceeded is returned.
DeadlineExceeded(u) ==
    /\ pc[u] \in {"call", "wait"}
    /\ deadline[u] = "passed"
    /\ Goto(u, "error")
    /\ Abandon(u)
    /\ UNCHANGED <<flag, tree, deadline, applied>>

----------------------------------------------------------------------------
\* The environment.

\* The server applies or refuses the request that is waited for.
Serve(u) ==
    /\ request[u] = "sent"
    /\ \/ /\ flag[u].tree_id = 1
          /\ Apply(u)
          /\ request' = [request EXCEPT ![u] = "applied"]
       \/ /\ request' = [request EXCEPT ![u] = "refused"]
          /\ UNCHANGED <<tree, applied>>
    /\ UNCHANGED <<flag, pc, late, deadline>>

\* The server gets to a request that was given up.
ServeLate(u) ==
    /\ late[u] > 0
    /\ late' = [late EXCEPT ![u] = @ - 1]
    /\ \/ flag[u].tree_id = 1 /\ Apply(u)
       \/ UNCHANGED <<tree, applied>>
    /\ UNCHANGED <<flag, pc, request, deadline>>

DeadlinePasses(u) ==
    /\ pc[u] \notin Over
    /\ deadline[u] = "ahead"
    /\ deadline' = [deadline EXCEPT ![u] = "passed"]
    /\ UNCHANGED <<flag, tree, pc, request, late, applied>>

UpdateStep(u) == CheckFlags(u) \/ Call(u) \/ Reply(u) \/ Wake(u) \/ DeadlineExceeded(u)

UpdateNext ==
    \E u \in Updaters :
        \/ UpdateStep(u) \/ Unavailable(u)
        \/ Serve(u) \/ ServeLate(u) \/ DeadlinePasses(u)

\* The command runs and time passes.  Nothing is assumed of the server.
UpdateSpec ==
    /\ UpdateInit /\ [][UpdateNext]_updateVars
    /\ \A u \in Updaters : WF_updateVars(UpdateStep(u)) /\ WF_updateVars(DeadlinePasses(u))

----------------------------------------------------------------------------
\* Properties.

\* A tree changes only in fields that some invocation names, only to the value
\* it gives, and never on behalf of one whose flags do not all make sense:
\* freezing a log leaves its type alone, changing the type of a log with an
\* empty -tree_state leaves it as active or frozen as it was.
OnlyWhatWasAsked ==
    [][\A f \in DOMAIN tree : tree'[f] # tree[f] =>
          \E u \in Updaters :
              /\ flag[u].tree_id = 1
              /\ flag[u][f] = tree'[f]
              /\ flag[u].tree_state \in KnownStates \cup {""}
              /\ flag[u].tree_type \in KnownTypes \cup {""}]_updateVars

\* u's fields are given another value by nobody else.
Unrivalled(u) ==
    \A v \in Updaters \ {u} : \A f \in DOMAIN tree :
        flag[v].tree_id = 0 \/ flag[v][f] \in {"", flag[u][f]} \/ flag[u][f] = ""

\* When the command reports success the server has applied its request, and
\* unless somebody else asks for something different the tree stays that way:
\* the attempts that were given up before, and reach the server afterwards,
\* repeat the update and undo nothing.
SuccessIsLasting ==
    \A u \in Updaters : pc[u] = "ok" =>
        /\ applied[u] = "yes"
        /\ Unrivalled(u) =>
              \A f \in DOMAIN tree : flag[u][f] \in {"", tree[f]}

\* The command ends, also if the server never answers.
UpdatesEnd == <>[](\A u \in Updaters : pc[u] \in Over)

=============================================================================
