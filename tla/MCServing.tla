----------------------------- MODULE MCServing -----------------------------
(***************************************************************************)
(* Three calls on two lineages and one that may be created between them:   *)
(* one that reads, one that corrects or creates, one that deletes or reads *)
(* one.                                                                    *)
(***************************************************************************)
EXTENDS Serving

CONSTANTS c1, c2, c3

KindsOfCall ==
  c1 :> {"retrieve", "walk"} @@ c2 :> {"correct", "create"} @@ c3 :> {"delete", "lineage"}
=============================================================================
