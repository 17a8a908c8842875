------------------------------ MODULE MCShard ------------------------------
(* One caller, one shard, for TLC. *)
EXTENDS Shard

CONSTANTS k1, s1, t1, v1

MCShardOf == [k \in Keys |-> s1]
=============================================================================
