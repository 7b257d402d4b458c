------------------------------ MODULE Onchain ------------------------------
(***************************************************************************)
(* The onchain adapter (src/src/exactly_once/onchain.py) with its default  *)
(* policy and no lease: repeated and concurrent calls of one wrapped       *)
(* function, with one intent and one account.  Signing is deterministic,   *)
(* so the intent's transaction (its hash) is named by its nonce, and so is *)
(* the ledger key.                                                         *)
(***************************************************************************)
EXTENDS Ledger, FiniteSets

CONSTANTS
    Calls,      \* the calls of the wrapped function
    MaxNonce,   \* bound: nonces 0 .. MaxNonce; the chain stops at the last
    Pinned      \* onchain_once's `nonce' argument, or None

ASSUME BoundAssumption == MaxNonce \in Nat
ASSUME PinnedAssumption == Pinned = None \/ Pinned \in 0 .. MaxNonce
ASSUME CallsAssumption == None \notin Calls

Nonces == 0 .. MaxNonce

VARIABLES
    rows,       \* rows[n]: the ledger record of the key with nonce n
    pc,         \* pc[c]: what c does next
    nonce,      \* nonce[c]: the nonce c works at
    seen,       \* seen[c]: the token of the claim that c reconciles
    ret,        \* ret[c]: the hash c replays or returns
    slot,       \* slot[n]: whose transaction was mined at nonce n
    sent,       \* the nonces at which the transaction was ever broadcast
    pool        \* ... and at which it is in the node's mempool now

vars == <<rows, pc, nonce, seen, ret, slot, sent, pool>>
chain == <<slot, sent, pool>>

Ended == {"returned", "denied", "raised", "crashed"}

\* c's first claim and its re-claim have their own tokens.
Tokens == Calls \X {1, 2}

\* The type invariant; nothing is in the mempool that was not broadcast.
TypeOK ==
    /\ rows \in [Nonces -> RowsOf(Nonces, {}, Tokens)]
    /\ pc \in [Calls -> Ended \cup {"idle", "claim", "status", "latest", "backfill",
                                    "release", "reclaim", "send", "commit"}]
    /\ nonce \in [Calls -> Nonces \cup {None}]
    /\ seen \in [Calls -> Tokens \cup {None}]
    /\ ret \in [Calls -> Nonces \cup {None}]
    /\ slot \in [Nonces -> {"free", "ours", "foreign"}]
    /\ sent \subseteq Nonces /\ pool \subseteq sent

Init ==
    /\ rows = [n \in Nonces |-> NoRow]
    /\ pc = [c \in Calls |-> "idle"]
    /\ nonce = [c \in Calls |-> None]
    /\ seen = [c \in Calls |-> None]
    /\ ret = [c \in Calls |-> None]
    /\ slot = [n \in Nonces |-> "free"]
    /\ sent = {}
    /\ pool = {}

-----------------------------------------------------------------------------
(***************************************************************************)
(* Wrong variants, which only the mutation runs put in place of the right  *)
(* definitions below.                                                      *)
(***************************************************************************)
\* The module docstring's own reading: the nonce advanced, so our tx mined.
AdvancedMeansOurs(c) ==
    /\ pc[c] = "latest"
    /\ \/ /\ slot[nonce[c]] # "free"
          /\ pc' = [pc EXCEPT ![c] = "backfill"]
          /\ ret' = [ret EXCEPT ![c] = nonce[c]]
       \/ /\ slot[nonce[c]] = "free"
          /\ pc' = [pc EXCEPT ![c] = "release"]
          /\ UNCHANGED ret
    /\ UNCHANGED <<rows, nonce, seen, chain>>

-----------------------------------------------------------------------------
(***************************************************************************)
(* The chain, as the ChainClient protocol shows it.                        *)
(***************************************************************************)
\* The confirmed transaction count: nonces are used in order.
LatestNonce == Cardinality({n \in Nonces : slot[n] # "free"})

\* The next nonce that neither a block nor the mempool holds.
PendingNonces ==
    {n \in Nonces : slot[n] = "free" /\ n \notin pool
                    /\ \A m \in 0 .. n - 1 : slot[m] # "free" \/ m \in pool}

\* A block takes our transaction, which the node's own mempool may have
\* dropped long ago, or another one of the account, at the next nonce.
Mine(who) ==
    \E n \in Nonces :
       /\ n = LatestNonce
       /\ who = "ours" => n \in sent
       /\ slot' = [slot EXCEPT ![n] = who]
       /\ pool' = pool \ {n}
       /\ UNCHANGED <<rows, pc, nonce, seen, ret, sent>>

\* The mempool drops the transaction.
Drop(n) ==
    /\ n \in pool
    /\ pool' = pool \ {n}
    /\ UNCHANGED <<rows, pc, nonce, seen, ret, slot, sent>>

-----------------------------------------------------------------------------
(***************************************************************************)
(* A call of the wrapped function.                                         *)
(***************************************************************************)
\* The wrapper settles the nonce, and with it the key.
Start(c) ==
    /\ pc[c] = "idle"
    /\ \E n \in IF Pinned # None THEN {Pinned} ELSE PendingNonces :
          nonce' = [nonce EXCEPT ![c] = n]
    /\ pc' = [pc EXCEPT ![c] = "claim"]
    /\ UNCHANGED <<rows, seen, ret, chain>>

\* The claim of the guard, and the dispatch on what it answers.
Claim(c) ==
    LET n == nonce[c] IN
    /\ pc[c] = "claim"
    /\ rows' = [rows EXCEPT ![n] = ClaimRow(@, <<c, 1>>, None, None)]
    /\ \/ /\ rows[n].state = "fresh"
          /\ pc' = [pc EXCEPT ![c] = "send"]
          /\ UNCHANGED <<seen, ret>>
       \/ /\ rows[n].state = "committed"
          /\ pc' = [pc EXCEPT ![c] = "returned"]
          /\ ret' = [ret EXCEPT ![c] = rows[n].result]
          /\ UNCHANGED seen
       \/ /\ rows[n].state = "in_flight"
          /\ pc' = [pc EXCEPT ![c] = "status"]
          /\ seen' = [seen EXCEPT ![c] = rows[n].token]
          /\ UNCHANGED ret
    /\ UNCHANGED <<nonce, chain>>

\* The prober's first question: the status of the transaction it re-signs.
ProbeStatus(c) ==
    LET n == nonce[c] IN
    /\ pc[c] = "status"
    /\ \/ /\ slot[n] = "ours"
          /\ pc' = [pc EXCEPT ![c] = "backfill"]
          /\ ret' = [ret EXCEPT ![c] = n]
       \/ /\ n \in pool
          /\ pc' = [pc EXCEPT ![c] = "denied"]
          /\ UNCHANGED ret
       \/ /\ slot[n] # "ours" /\ n \notin pool
          /\ pc' = [pc EXCEPT ![c] = "latest"]
          /\ UNCHANGED ret
    /\ UNCHANGED <<rows, nonce, seen, chain>>

\* Its second question, some time later: has the nonce been used?
ProbeNonce(c) ==
    /\ pc[c] = "latest"
    /\ pc' = [pc EXCEPT ![c] = IF LatestNonce > nonce[c] THEN "denied" ELSE "release"]
    /\ UNCHANGED <<rows, nonce, seen, ret, chain>>

\* Verdict COMMITTED: commit the hash and replay it.
Backfill(c) ==
    /\ pc[c] = "backfill"
    /\ rows' = [rows EXCEPT ![nonce[c]] = CommitRow(@, ret[c])]
    /\ pc' = [pc EXCEPT ![c] = "returned"]
    /\ UNCHANGED <<nonce, seen, ret, chain>>

\* Verdict NOT_COMMITTED: retire the orphan by its token, then claim again.
Release(c) ==
    /\ pc[c] = "release"
    /\ rows' = [rows EXCEPT ![nonce[c]] = ReleaseRow(@, seen[c])]
    /\ pc' = [pc EXCEPT ![c] = "reclaim"]
    /\ UNCHANGED <<nonce, seen, ret, chain>>

Reclaim(c) ==
    LET n == nonce[c] IN
    /\ pc[c] = "reclaim"
    /\ rows' = [rows EXCEPT ![n] = ClaimRow(@, <<c, 2>>, None, None)]
    /\ \/ /\ rows[n].state = "fresh"
          /\ pc' = [pc EXCEPT ![c] = "send"]
          /\ UNCHANGED ret
       \/ /\ rows[n].state = "committed"
          /\ pc' = [pc EXCEPT ![c] = "returned"]
          /\ ret' = [ret EXCEPT ![c] = rows[n].result]
       \/ /\ rows[n].state = "in_flight"
          /\ pc' = [pc EXCEPT ![c] = "denied"]
          /\ UNCHANGED ret
    /\ UNCHANGED <<nonce, seen, chain>>

\* The effect signs and broadcasts.  A node takes the transaction while its
\* nonce is unused, and one that it knows it accepts once more.  Any
\* broadcast may raise: refused, or taken with the answer lost.
Send(c) ==
    LET n == nonce[c] IN
    /\ pc[c] = "send"
    /\ \/ /\ slot[n] = "free"
          /\ sent' = sent \cup {n}
          /\ pool' = pool \cup {n}
          /\ pc' \in {[pc EXCEPT ![c] = next] : next \in {"commit", "raised"}}
          /\ ret' = [ret EXCEPT ![c] = n]
       \/ /\ n \in pool \/ slot[n] = "ours"
          /\ pc' = [pc EXCEPT ![c] = "commit"]
          /\ ret' = [ret EXCEPT ![c] = n]
          /\ UNCHANGED <<sent, pool>>
       \/ /\ pc' = [pc EXCEPT ![c] = "raised"]
          /\ UNCHANGED <<ret, sent, pool>>
    /\ UNCHANGED <<rows, nonce, seen, slot>>

\* The hash is committed as soon as the broadcast returned, mined or not.
Commit(c) ==
    /\ pc[c] = "commit"
    /\ rows' = [rows EXCEPT ![nonce[c]] = CommitRow(@, ret[c])]
    /\ pc' = [pc EXCEPT ![c] = "returned"]
    /\ UNCHANGED <<nonce, seen, ret, chain>>

Crash(c) ==
    /\ pc[c] \notin Ended \cup {"idle"}
    /\ pc' = [pc EXCEPT ![c] = "crashed"]
    /\ UNCHANGED <<rows, nonce, seen, ret, chain>>

\* All calls have ended (an unpinned one cannot start past the bound).
Terminating ==
    /\ \A c \in Calls : pc[c] \in Ended \cup {"idle"}
    /\ UNCHANGED vars

Next ==
    \/ \E c \in Calls :
          \/ Start(c) \/ Claim(c) \/ ProbeStatus(c) \/ ProbeNonce(c)
          \/ Backfill(c) \/ Release(c) \/ Reclaim(c)
          \/ Send(c) \/ Commit(c) \/ Crash(c)
    \/ Mine("ours") \/ Mine("foreign")
    \/ \E n \in Nonces : Drop(n)
    \/ Terminating

Spec == Init /\ [][Next]_vars

-----------------------------------------------------------------------------
\* The hash that the ledger stores, and those that calls were given.
Stored == IF Pinned = None THEN None ELSE rows[Pinned].result

Answers == {<<c, ret[c]>> : c \in {d \in Calls : pc[d] = "returned"}}

\* With a pinned nonce all broadcasts are of one transaction, which the chain takes
\* once: sending it again changes nothing.  What the adapter has to see to is the
\* ledger (onchain.py:93-105): although live callers adopt each other's claims
\* without a lease, and a foreign transaction may take the nonce, only the hash of a
\* transaction that was broadcast is stored or returned, it is stored once, and every
\* caller is given it.
Promise == INSTANCE EffectOnce
           WITH Calls <- Calls \cup Nonces, done <- sent, stored <- Stored,
                answers <- Answers

ImplementsEffectOnce == Promise!Spec

\* Calls with the same intent broadcast one transaction between them.
\* (src/src/exactly_once/onchain.py:110-114, "signed + broadcast once; replays the hash after".)
BroadcastOnce == Cardinality(sent) <= 1
=============================================================================
