----------------------------- MODULE MCTufStack -----------------------------
(***************************************************************************)
(* The root of a repository, a target that is new in every generation, and *)
(* metadata that come after it in the archive.                             *)
(***************************************************************************)
EXTENDS TufStack

MCFiles == <<"root.json", "trusted_root.json", "targets.json">>

MCHash == [f \in Targets |-> [g \in 2..MaxGen |-> g]]

=============================================================================
