---------------------------- MODULE MCCreateDB ----------------------------
(***************************************************************************)
(* An empty database, and one in which an earlier job has left gaps.       *)
(***************************************************************************)
EXTENDS CreateDB

MCSchemas == {{}, {"Trees", "TreeHead", "TreeHeadRevisionIdx", "Unsequenced"}}

============================================================================
