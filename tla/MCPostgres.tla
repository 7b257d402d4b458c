----------------------------- MODULE MCPostgres -----------------------------
(***************************************************************************)
(* A small instance of PostgresStore for TLC: two processes, of which p2    *)
(* uses the asynchronous methods.                                          *)
(***************************************************************************)
EXTENDS PostgresStore

CONSTANTS t1, t2, t3, p1, p2

Homes  == [t \in Threads |-> IF t = t3 THEN p2 ELSE p1]
Limits == [t \in Threads |-> IF t = t2 THEN 1 ELSE 2]
=============================================================================
