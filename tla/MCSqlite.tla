------------------------------ MODULE MCSqlite ------------------------------
(***************************************************************************)
(* A small instance of SqliteStore for TLC: two processes, one of them     *)
(* with two threads.                                                       *)
(***************************************************************************)
EXTENDS SqliteStore

CONSTANTS t1, t2, t3, p1, p2

Homes  == [t \in {t1, t2, t3} |-> IF t = t3 THEN p2 ELSE p1]
Limits == [t \in {t1, t2, t3} |-> IF t = t3 THEN 3 ELSE 1]
=============================================================================
