----------------------------- MODULE MCOnchain -----------------------------
(***************************************************************************)
(* Small instances of Onchain for TLC.                                     *)
(***************************************************************************)
EXTENDS Onchain, TLC

CONSTANTS c1, c2, c3

Symmetry == Permutations(Calls)
=============================================================================
