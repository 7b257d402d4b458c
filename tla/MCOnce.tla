------------------------------- MODULE MCOnce -------------------------------
(***************************************************************************)
(* Small instances of Once for TLC.                                        *)
(***************************************************************************)
EXTENDS Once, TLC

CONSTANTS c1, c2, c3

Symmetry == Permutations(Calls)

Args(policies, fps, ttls, opens, aios) ==
    [policy: policies, fp: fps, ttl: ttls, beat: {1}, open: opens, aio: aios]

\* The policies that never retire a claim, with and without a lease.
SafeConfigs ==
    Args({"quarantine", "wait"}, {"p", "q"}, {2}, {FALSE}, BOOLEAN)

\* Callers that look before they adopt, or wait, all with a lease; and callers
\* that look without one, each on its own.
AdoptingConfigs ==
    Args({"check_then_decide", "wait"}, {None}, {3}, {FALSE}, {FALSE})
        \cup Args({"check_then_decide"}, {None}, {None}, {FALSE}, {FALSE})

\* Adoption without looking, and waiting: with a lease that nobody renews in
\* time or without one, failing open or closed.
HastyConfigs ==
    Args({"auto_retry", "wait"}, {None}, {2, None}, BOOLEAN, {FALSE})

\* AutoRetry where the callers' payloads differ.
PayloadConfigs ==
    Args({"auto_retry"}, {"p", "q"}, {None}, {FALSE}, {FALSE})

\* Adoption without looking, by callers that all have a lease.
LeasedConfigs == Args({"auto_retry"}, {None}, {3}, {FALSE}, {FALSE})

\* A coroutine with a lease.
CoroutineConfigs == Args({"quarantine"}, {None}, {3}, {FALSE}, {TRUE})
=============================================================================
