--------------------------- MODULE MCShardWorkers ---------------------------
(***************************************************************************)
(* ShardWorkers with one shard of two repositories.                        *)
(***************************************************************************)
EXTENDS ShardWorkers

TwoRepos == [s \in Shards |-> {1, 2}]
=============================================================================
