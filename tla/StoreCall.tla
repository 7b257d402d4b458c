----------------------------- MODULE StoreCall -----------------------------
(***************************************************************************)
(* A call of a Store method (src/src/exactly_once/stores/base.py) on one   *)
(* key as a value: what it does to the record, and what it answers.        *)
(***************************************************************************)
EXTENDS Ledger, Bags

\* Leases as far as the contract needs them: 1 as claimed, 2 as renewed.
Apply(r, rec) ==
    CASE r.op = "claim"     -> ClaimRow(rec, r.tok, None, 1)
      [] r.op = "commit"    -> CommitRow(rec, r.res)
      [] r.op = "release"   -> ReleaseRow(rec, r.tok)
      [] r.op = "heartbeat" -> BeatRow(rec, r.tok, 2)
      [] r.op = "get"       -> rec

Fresh(t)     == <<"claim", "fresh", t, None>>
Existing(rec) == <<"claim", rec.state, rec.token, rec.result>>
Read(rec)    == <<"get", rec.state, rec.token, rec.result>>
Renewed(b)   == <<"heartbeat", b>>
Done         == <<"done">>
Error        == <<"error">>

\* The answer to r on the record rec: claim answers the record, or FRESH with
\* the caller's token; get answers the record; heartbeat whether it renewed;
\* the others nothing.
Answer(r, rec) ==
    CASE r.op = "claim" /\ rec.state = "fresh" -> Fresh(r.tok)
      [] r.op = "claim" /\ rec.state # "fresh" -> Existing(rec)
      [] r.op = "get"       -> Read(rec)
      [] r.op = "heartbeat" -> Renewed(Owns(rec, r.tok))
      [] OTHER -> Done
=============================================================================
