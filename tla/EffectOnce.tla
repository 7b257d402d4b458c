----------------------------- MODULE EffectOnce -----------------------------
(***************************************************************************)
(* What the library promises about one idempotency key                     *)
(* (src/docs/ARCHITECTURE.md, G-1 to G-4), without claims, leases or       *)
(* stores: the effect happens at most once, only the result of an effect   *)
(* that happened is stored, it is stored once, and every caller who is     *)
(* given a result is given the stored one.                                 *)
(***************************************************************************)
CONSTANTS Calls, None

VARIABLES
    done,       \* the calls whose effect happened
    stored,     \* the call whose result is stored, or None
    answers     \* the pairs <<call, result it was given>>

vars == <<done, stored, answers>>

Init ==
    /\ done = {}
    /\ stored = None
    /\ answers = {}

Happen(c) ==
    /\ done = {}
    /\ done' = {c}
    /\ UNCHANGED <<stored, answers>>

\* Somebody stores the result of the effect that happened, and is given it,
\* unless the news of the storing is lost.
Store(c) ==
    /\ c \in done
    /\ stored = None
    /\ stored' = c
    /\ \/ UNCHANGED answers
       \/ \E d \in Calls : answers' = answers \cup {<<d, c>>}
    /\ UNCHANGED done

Answer(d) ==
    /\ stored # None
    /\ answers' = answers \cup {<<d, stored>>}
    /\ UNCHANGED <<done, stored>>

Next == \E c \in Calls : Happen(c) \/ Store(c) \/ Answer(c)

Spec == Init /\ [][Next]_vars
=============================================================================
