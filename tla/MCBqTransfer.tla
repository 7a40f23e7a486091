---------------------------- MODULE MCBqTransfer ----------------------------
(***************************************************************************)
(* BqTransfer with three jobs: one of three shards, of which the threshold *)
(* asks for two, one of one shard that a restarted controller made on the  *)
(* same day, and one announced on another day with an empty inventory.     *)
(***************************************************************************)
EXTENDS BqTransfer

Sizes == [j \in Jobs |-> CASE j = 1 -> 3 [] j = 2 -> 1 [] OTHER -> 0]

Days == [j \in Jobs |-> IF j \in {1, 2} THEN "first" ELSE "second"]
=============================================================================
