---------------------------- MODULE MCGuardStack ----------------------------
(* Two blocks and two decorated calls on two keys, a call and a block on     *)
(* each; a task or a thread beside the main context.                         *)
EXTENDS GuardStack

CONSTANTS main, other, w1, w2, f1, f2, k1, k2

MCKey == (w1 :> k1) @@ (w2 :> k2) @@ (f1 :> k2) @@ (f2 :> k1)
=============================================================================
