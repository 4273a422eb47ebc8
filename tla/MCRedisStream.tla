---------------------------- MODULE MCRedisStream ----------------------------
(* Small instances of RedisStream. *)
EXTENDS RedisStream, TLC
=============================================================================
