--------------------------- MODULE MCRedisLimiter ---------------------------
(* Two nodes, one of them a tick ahead of the other. *)
EXTENDS RedisLimiter

CONSTANTS n1, n2

MCNodes == {n1, n2}
MCSkew == [n \in MCNodes |-> IF n = n2 THEN 1 ELSE 0]
=============================================================================
