----------------------- MODULE MCConcurrentReconcile -----------------------
(***************************************************************************)
(* Two callers and an editor on one secret with two keys.  The callers     *)
(* write one key or both, so that each key is at times a key of the call   *)
(* and at times a key of somebody else.                                    *)
(***************************************************************************)
EXTENDS ConcurrentReconcile

MCKeys == {"private", "public"}
MCValues == {"a", "b"}

MCDataMaps ==
    {[private |-> "a", public |-> "a"], [private |-> "b", public |-> "b"], [public |-> "a"]}

============================================================================
