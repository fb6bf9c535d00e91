--------------------------- MODULE MCRedisRestart ---------------------------
(* An instance of RedisRestart for TLC. *)
EXTENDS RedisRestart

MCOneRetry == [w \in Writers |-> 1]

=============================================================================
