-------------------------------- MODULE MCCache --------------------------------
(* A small instance of Cache: one shard, since shards share nothing. *)
EXTENDS Cache

MCShardOf == [k \in Keys |-> CHOOSE s \in Shards : TRUE]
===============================================================================
