------------------------------- MODULE Ledger -------------------------------
(***************************************************************************)
(* The ledger row of one idempotency key, and what the operations of the   *)
(* Store contract do to it (src/src/exactly_once/stores/base.py).  Every   *)
(* adapter makes an operation one atomic step on one key (a lock, BEGIN    *)
(* IMMEDIATE, ON CONFLICT, a Lua script), so an operation is a function    *)
(* from row to row.                                                        *)
(*                                                                         *)
(* A lease is kept as the time left of it on the store's clock,            *)
(* lease_expires_at - now(), cut off at 0: a lease of 0 has expired.       *)
(* `None' is Python's None (SQL NULL, an empty Redis field).               *)
(***************************************************************************)
EXTENDS Naturals

CONSTANT None

ASSUME NoneAssumption == None \notin Nat

States == {"fresh", "in_flight", "committed"}

\* The rows with results R, fingerprints F and tokens T.
RowsOf(R, F, T) ==
    [state: States, result: R \cup {None}, fp: F \cup {None},
     token: T \cup {None}, left: Nat \cup {None}]

\* The key has no record.
NoRow == [state |-> "fresh", result |-> None, fp |-> None,
          token |-> None, left |-> None]

\* A record left by a version of the library whose table had no token column:
\* the migration adds the column and fills it with NULL.
LegacyRow == [NoRow EXCEPT !.state = "in_flight"]

-----------------------------------------------------------------------------
\* Wrong variants, which only the mutation runs put in place of the right ones.

CommitRowOverwrites(row, res) ==
    [row EXCEPT !.state = "committed", !.result = res, !.left = None]

ReleaseRowUnfenced(row, tok) ==
    IF row.state = "in_flight" THEN NoRow ELSE row

ReleaseRowKeepsRow(row, tok) ==
    IF row.state # "in_flight" \/ (tok # None /\ row.token # tok)
    THEN row ELSE [row EXCEPT !.state = "released"]

ClaimRowForgetsToken(row, tok, fp, ttl) ==
    IF row.state # "fresh" THEN row
    ELSE [state |-> "in_flight", result |-> None, fp |-> fp, left |-> ttl]

-----------------------------------------------------------------------------
\* claim: create the record if there is none, otherwise only read it.
ClaimRow(row, tok, fp, ttl) ==
    IF row.state # "fresh" THEN row
    ELSE [state |-> "in_flight", result |-> None, fp |-> fp,
          token |-> tok, left |-> ttl]

\* commit: no token is compared; the first result stays; a missing record is
\* created without fingerprint and token.  Nobody reads the lease of a
\* committed record, so it is dropped here.
CommitRow(row, res) ==
    IF row.state = "committed" THEN row
    ELSE [state |-> "committed", result |-> res, fp |-> row.fp,
          token |-> row.token, left |-> None]

\* release: compare-and-delete of an in-flight record; a caller without a
\* token skips the comparison.
ReleaseRow(row, tok) ==
    IF row.state # "in_flight" \/ (tok # None /\ row.token # tok)
    THEN row ELSE NoRow

\* heartbeat answers True exactly when the record is the caller's claim ...
Owns(row, tok) == row.state = "in_flight" /\ row.token = tok

\* ... and then the lease is a whole one again.
BeatRow(row, tok, ttl) ==
    IF Owns(row, tok) THEN [row EXCEPT !.left = ttl] ELSE row

\* What is left of a lease one unit of the store's time later.
Aged(left) == IF left = None \/ left = 0 THEN left ELSE left - 1

\* policies._lease_valid of a lease with that much left now.
Live(left) == left # None /\ left # 0
=============================================================================
