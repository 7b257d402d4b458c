------------------------------ MODULE MCRedis ------------------------------
(***************************************************************************)
(* A small instance of RedisStore for TLC: t1 calls the synchronous        *)
(* methods, t2 the asynchronous ones.                                      *)
(***************************************************************************)
EXTENDS RedisStore

CONSTANTS t1, t2

Limits == [t \in Threads |-> IF t = t1 THEN 3 ELSE 2]
=============================================================================
