---------------------------- MODULE MCTufServer ----------------------------
(***************************************************************************)
(* Some of the files of a repository, around root.json and the directory   *)
(* of the targets in archive order.  (The targets are ordered by hash; no  *)
(* property depends on their order.)  Rekor gets a new key once.           *)
(***************************************************************************)
EXTENDS TufServer

MCFiles == <<"1.root.json", "root.json", "rekor.pub", "trusted_root.json",
             "targets.json", "timestamp.json">>

MCHash == [f \in Targets |-> [g \in 2..MaxGen |->
               IF f = "trusted_root.json" THEN g ELSE IF g < 4 THEN 2 ELSE 4]]

============================================================================
