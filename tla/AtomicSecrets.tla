--------------------------- MODULE AtomicSecrets ---------------------------
(***************************************************************************)
(* What ReconcileSecret promises its callers: each call patches the secret *)
(* in one indivisible step, creating it if need be, or leaves it alone.    *)
(* Get, resourceVersions and conflicts do not exist at this level.         *)
(***************************************************************************)

CONSTANTS Procs, Names, Maps, Nothing, Merge(_, _)

VARIABLES
    content,  \* per secret: does it exist, and its data
    op,       \* per process: idle, pending, or how its call returned
    req       \* per process: the parameters of its call

vars == <<content, op, req>>

Begin(p) ==
    /\ op[p] = "idle"
    /\ op' = [op EXCEPT ![p] = "pending"]
    /\ \E n \in Names, d \in Maps : req' = [req EXCEPT ![p] = [name |-> n, data |-> d]]
    /\ UNCHANGED content

\* The whole effect of a call.  It may be reported as an error (a lost reply).
Apply(p) ==
    /\ op[p] = "pending"
    /\ content' = [content EXCEPT ![req[p].name] =
                      [is |-> "present", data |-> Merge(@.data, req[p].data)]]
    /\ \E result \in {"ok", "err"} : op' = [op EXCEPT ![p] = result]
    /\ UNCHANGED req

Abort(p) ==
    /\ op[p] = "pending"
    /\ \E result \in {"err", "panic"} : op' = [op EXCEPT ![p] = result]
    /\ UNCHANGED <<content, req>>

End(p) ==
    /\ op' = [op EXCEPT ![p] = "idle"]
    /\ \E r \in [name : Names, data : Maps] : req' = [req EXCEPT ![p] = r]
    /\ UNCHANGED content

\* Somebody else (kubectl, another controller) writes or deletes a secret.
Outside(n) ==
    /\ \/ \E d \in Maps : content' = [content EXCEPT ![n] = [is |-> "present", data |-> d]]
       \/ content' = [content EXCEPT ![n] = [is |-> "absent", data |-> Nothing]]
    /\ UNCHANGED <<op, req>>

Init ==
    /\ content \in [Names -> {[is |-> "absent", data |-> Nothing]}
                              \cup [is : {"present"}, data : Maps]]
    /\ op = [p \in Procs |-> "idle"]
    /\ req \in [Procs -> [name : Names, data : Maps]]

Next ==
    \/ \E p \in Procs : Begin(p) \/ Apply(p) \/ Abort(p) \/ End(p)
    \/ \E n \in Names : Outside(n)

Spec == Init /\ [][Next]_vars

============================================================================
