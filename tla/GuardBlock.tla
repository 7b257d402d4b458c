----------------------------- MODULE GuardBlock -----------------------------
(***************************************************************************)
(* What the blocks and calls guarded by one once(...) object do to the     *)
(* ledger (src/src/exactly_once/core.py), each with a guard of its own:    *)
(* `with once(...) as guard' blocks, `async with' blocks and decorated     *)
(* calls, each on some key.  How a call in flight is reconciled is the     *)
(* business of Once; here the policy decides by itself: it adopts the      *)
(* claim, commits and replays its result, settles for a sentinel, or       *)
(* refuses.                                                                *)
(***************************************************************************)
EXTENDS Naturals

CONSTANTS
    Blocks,     \* the blocks and calls, each made once
    Key,        \* Key[b]: the key of b
    None

VARIABLES
    ledger,     \* ledger[k]: the record of k; the result is the block whose it is
    phase,      \* phase[b]: "new", "open" or "over"
    guard,      \* guard[b]: the _Guard of b, by what it says of the effect
    result,     \* result[b]: guard.result, or what the decorated call returned
    beating     \* the guards whose heartbeat runs

blockVars == <<ledger, phase, guard, result, beating>>

Keys == {Key[b] : b \in Blocks}

Record == [state: {"fresh", "in_flight", "committed"},
           by: Blocks \cup {None}, result: Blocks \cup {None}]

\* "fresh": fresh=True with a claim; "unguarded": fresh=True without one;
\* "settled": fresh=False, a replayed result or the policy's sentinel.
Guards == {"fresh", "unguarded", "settled"}

ASSUME NoneAssumption == None \notin Blocks \cup Guards

BlockTypeOK ==
    /\ ledger \in [Keys -> Record]
    /\ phase \in [Blocks -> {"new", "open", "over"}]
    /\ guard \in [Blocks -> Guards \cup {None}]
    /\ result \in [Blocks -> Blocks \cup {None}]
    /\ beating \subseteq Blocks

BlockInit ==
    /\ ledger = [k \in Keys |-> [state |-> "fresh", by |-> None, result |-> None]]
    /\ phase = [b \in Blocks |-> "new"]
    /\ guard = [b \in Blocks |-> None]
    /\ result = [b \in Blocks |-> None]
    /\ beating = {}

-----------------------------------------------------------------------------
Opened(b, g, r) ==
    /\ phase' = [phase EXCEPT ![b] = "open"]
    /\ guard' = [guard EXCEPT ![b] = g]
    /\ result' = [result EXCEPT ![b] = r]

\* A fresh claim, or a second one after a policy retired the first: the guard
\* is fresh and, with a lease, its heartbeat starts.
Takes(b) ==
    /\ ledger' = [ledger EXCEPT ![Key[b]] =
                    [state |-> "in_flight", by |-> b, result |-> None]]
    /\ Opened(b, "fresh", None)
    /\ beating' = beating \cup {b}

\* The result is replayed, or the policy's sentinel stands for it.
Settles(b, r) == Opened(b, "settled", r) /\ UNCHANGED <<ledger, beating>>

\* Entering raises: QuarantinedError, KeyReuseError, StoreUnavailableError.
Refuses(b) ==
    /\ phase' = [phase EXCEPT ![b] = "over"]
    /\ UNCHANGED <<ledger, guard, result, beating>>

\* __enter__ and _resolve_in_flight_cm, or _run up to the call of the effect.
\* The last two: the store is down.
Enter(b) ==
    /\ phase[b] = "new"
    /\ LET k == Key[b] IN
       \/ ledger[k].state = "fresh" /\ Takes(b)
       \/ ledger[k].state = "committed" /\ Settles(b, ledger[k].result)
       \/ ledger[k].state = "in_flight" /\ (Takes(b) \/ Settles(b, None))
       \/ /\ ledger[k].state = "in_flight"
          /\ ledger' = [ledger EXCEPT ![k].state = "committed",
                                      ![k].result = ledger[k].by]
          /\ Opened(b, "settled", ledger[k].by)
          /\ UNCHANGED beating
       \/ Opened(b, "unguarded", None) /\ UNCHANGED <<ledger, beating>>
       \/ Refuses(b)

\* The body assigns guard.result, whatever the guard says of the effect.
Assign(b) ==
    /\ phase[b] = "open"
    /\ result' = [result EXCEPT ![b] = b]
    /\ UNCHANGED <<ledger, phase, guard, beating>>

\* b is left, resolving the guard g: the heartbeat of a fresh guard stops, and
\* after a body that did not raise its result is committed, unless stopping
\* or committing raises.
Resolve(b, g) ==
    /\ phase' = [phase EXCEPT ![b] = "over"]
    /\ beating' = beating \ {g}
    /\ \/ UNCHANGED ledger
       \/ /\ g # None /\ guard[g] = "fresh" /\ ledger[Key[g]].state # "committed"
          /\ ledger' = [ledger EXCEPT ![Key[g]].state = "committed",
                                      ![Key[g]].result = result[g]]
    /\ UNCHANGED <<guard, result>>

\* Every block resolves its own guard.
BlockNext ==
    \E b \in Blocks : \/ Enter(b) \/ Assign(b)
                      \/ phase[b] = "open" /\ Resolve(b, b)

BlockSpec == BlockInit /\ [][BlockNext]_blockVars
=============================================================================
