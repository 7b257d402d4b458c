--------------------------- MODULE PostgresStore ---------------------------
(***************************************************************************)
(* The Postgres adapter (src/src/exactly_once/stores/postgres.py),         *)
(* statement by statement, for one key: processes with one connection      *)
(* each, which the process's threads share under a threading.Lock, or its  *)
(* tasks under an asyncio.Lock.                                            *)
(*                                                                         *)
(* The server runs the transactions SERIALIZABLE: a transaction reads the  *)
(* snapshot of its first statement, waits for a concurrent transaction     *)
(* that wrote the record, and fails instead of touching a version of the   *)
(* record that its snapshot does not hold.                                 *)
(***************************************************************************)
EXTENDS StoreCall

CONSTANTS
    Threads,        \* threads and tasks
    Processes,
    Home,           \* Home[t]: the process of t
    Async,          \* the processes that use the a... methods
    MaxCalls,       \* bound: MaxCalls[t] is how many store calls t makes
    MaxRetries,     \* max_retries
    MaxFaults       \* bound: statements, connections and processes that fail

ASSUME HomeAssumption == Home \in [Threads -> Processes] /\ Async \subseteq Processes
ASSUME BoundsAssumption ==
    MaxCalls \in [Threads -> Nat] /\ MaxRetries \in Nat \ {0} /\ MaxFaults \in Nat

VARIABLES
    db,         \* the committed record
    snap,       \* snap[p]: the record in the snapshot of p's transaction, or None
    wrote,      \* wrote[p]: the record as p's transaction wrote it, or None
    stale,      \* stale[p]: the record was changed since p's snapshot
    broken,     \* the processes whose connection is lost
    lock,       \* lock[p]: the thread that holds p's lock, or None
    pc,         \* pc[t]: what t does next
    req,        \* req[t]: the store call t is in, or None
    ans,        \* ans[t]: what t's last call answered, or None
    known,      \* known[t]: the token in the last claim t was answered
    tries,      \* tries[t]: attempts that ended in a serialization failure
    calls,      \* calls[t]: calls t has made
    faults      \* failed statements, connections and processes

txs    == <<snap, wrote, stale>>
vars   == <<db, txs, broken, lock, pc, req, ans, known, tries, calls, faults>>

\* The statements of a transaction, and its COMMIT.
InTransaction == {"insert", "select", "upsert", "change", "end"}

\* A serialization failure that reaches the caller: psycopg's own exception,
\* not StoreUnavailableError.
Contention == <<"contention">>

\* The tokens of t's claims: uuid4 never repeats.
Tokens == UNION {{t} \X (1 .. MaxCalls[t]) : t \in Threads}

Requests ==
    [op: {"claim", "commit", "release", "heartbeat"},
     tok: Tokens \cup {None}, res: Threads \cup {None}]

Rows == RowsOf(Threads, {}, Tokens)

Answers ==
    {Done, Error, Contention} \cup ({"heartbeat"} \X BOOLEAN)
        \cup ({"claim"} \X States \X (Tokens \cup {None}) \X (Threads \cup {None}))

ASSUME NoneIsNoneOfThese ==
    None \notin Threads \cup Processes \cup Requests \cup Rows \cup Answers

\* The type invariant.
TypeOK ==
    /\ db \in Rows
    /\ snap \in [Processes -> Rows \cup {None}]
    /\ wrote \in [Processes -> Rows \cup {None}]
    /\ stale \in [Processes -> BOOLEAN]
    /\ broken \subseteq Processes
    /\ lock \in [Processes -> Threads \cup {None}]
    /\ pc \in [Threads -> {"idle", "lock", "begin"} \cup InTransaction]
    /\ req \in [Threads -> Requests \cup {None}]
    /\ ans \in [Threads -> Answers \cup {None}]
    /\ known \in [Threads -> Tokens \cup {None}]
    /\ tries \in [Threads -> 0 .. MaxRetries]
    /\ calls \in [Threads -> Nat] /\ \A t \in Threads : calls[t] <= MaxCalls[t]
    /\ faults \in 0 .. MaxFaults

Init ==
    /\ db = NoRow
    /\ snap = [p \in Processes |-> None]
    /\ wrote = [p \in Processes |-> None]
    /\ stale = [p \in Processes |-> FALSE]
    /\ broken = {}
    /\ lock = [p \in Processes |-> None]
    /\ pc = [t \in Threads |-> "idle"]
    /\ req = [t \in Threads |-> None]
    /\ ans = [t \in Threads |-> None]
    /\ known = [t \in Threads |-> None]
    /\ tries = [t \in Threads |-> 0]
    /\ calls = [t \in Threads |-> 0]
    /\ faults = 0

-----------------------------------------------------------------------------
(***************************************************************************)
(* Wrong variants, which only the mutation runs put in place of the right  *)
(* definitions below.                                                      *)
(***************************************************************************)
\* A record that is in the way always counts as one that the snapshot holds.
NeverTooNew(p) == FALSE

\* The token is not compared.
MatchesAnyClaim(r, rec) == rec.state = "in_flight"

\* The retry loop inside the `with' block.
RetryUnderLock(t) == pc' = [pc EXCEPT ![t] = "lock"] /\ UNCHANGED lock

-----------------------------------------------------------------------------
(***************************************************************************)
(* Calls, and the beginning and the end of an attempt.                     *)
(***************************************************************************)
\* A call: a claim has a token of its own; a caller that was answered a claim,
\* FRESH or not, may commit its result, or release or renew by that token; a
\* release without a token is unconditional.
Request(t, op) ==
    [op  |-> op,
     tok |-> CASE op = "claim"  -> <<t, calls[t] + 1>>
               [] op = "commit" -> None
               [] OTHER         -> known[t],
     res |-> IF op = "commit" THEN t ELSE None]

Call(t) ==
    /\ pc[t] = "idle" /\ calls[t] < MaxCalls[t]
    /\ \E op \in {"claim", "commit", "release", "heartbeat"} :
          /\ op \in {"commit", "heartbeat"} => known[t] # None
          /\ req' = [req EXCEPT ![t] = Request(t, op)]
    /\ pc' = [pc EXCEPT ![t] = "lock"]
    /\ ans' = [ans EXCEPT ![t] = None]
    /\ tries' = [tries EXCEPT ![t] = 0]
    /\ calls' = [calls EXCEPT ![t] = @ + 1]
    /\ UNCHANGED <<db, txs, broken, lock, known, faults>>

\* with self._lock / async with self._alock
Lock(t) ==
    /\ pc[t] = "lock" /\ lock[Home[t]] = None
    /\ lock' = [lock EXCEPT ![Home[t]] = t]
    /\ pc' = [pc EXCEPT ![t] = "begin"]
    /\ UNCHANGED <<db, txs, broken, req, ans, known, tries, calls, faults>>

Unlock(t) == lock' = [lock EXCEPT ![Home[t]] = None]

\* The call leaves the `with' blocks with an answer, or with an exception.
Leave(t, answer) ==
    /\ pc' = [pc EXCEPT ![t] = "idle"]
    /\ req' = [req EXCEPT ![t] = None]
    /\ ans' = [ans EXCEPT ![t] = answer]
    /\ Unlock(t)

FirstStatement(op) ==
    CASE op = "claim" -> "insert" [] op = "commit" -> "upsert" [] OTHER -> "change"

\* conn.transaction() and the start of the first statement, which fixes the
\* snapshot; nothing reconnects a lost connection.
Begin(t) ==
    LET p == Home[t] IN
    /\ pc[t] = "begin"
    /\ \/ /\ p \notin broken
          /\ snap' = [snap EXCEPT ![p] = db]
          /\ pc' = [pc EXCEPT ![t] = FirstStatement(req[t].op)]
          /\ UNCHANGED <<lock, req, ans>>
       \/ /\ p \in broken
          /\ Leave(t, Error)
          /\ UNCHANGED snap
    /\ UNCHANGED <<db, wrote, stale, broken, known, tries, calls, faults>>

\* The server forgets the transaction of p.
Ended(p) ==
    /\ snap' = [snap EXCEPT ![p] = None]
    /\ wrote' = [wrote EXCEPT ![p] = None]

Rollback(p) == Ended(p) /\ stale' = [stale EXCEPT ![p] = FALSE] /\ UNCHANGED db

\* What p wrote becomes the record; other open snapshots hold an old version.
Publish(p) ==
    /\ Ended(p)
    /\ db' = IF wrote[p] = None THEN db ELSE wrote[p]
    /\ stale' = [q \in Processes |->
          /\ q # p /\ snap[q] # None
          /\ stale[q] \/ wrote[p] # None]

-----------------------------------------------------------------------------
(***************************************************************************)
(* The statements.                                                         *)
(***************************************************************************)
\* Another transaction has written the record and is not over.
Blocked(p) == \E q \in Processes \ {p} : wrote[q] # None

\* There is a record, in a version that the snapshot does not hold.
TooNew(p) == stale[p] /\ db.state # "fresh"

\* The loop of _tx gives up the lock between two attempts.
RetryLater(t) == pc' = [pc EXCEPT ![t] = "lock"] /\ Unlock(t)

\* SerializationFailure: _tx tries again, and aclaim does without letting go
\* of the lock; the other async methods do not.
Retry(t) ==
    LET p == Home[t]
        retried == p \notin Async \/ req[t].op = "claim" IN
    /\ Rollback(p)
    /\ tries' = [tries EXCEPT ![t] = @ + 1]
    /\ \/ /\ retried /\ tries'[t] < MaxRetries
          /\ \/ p \notin Async /\ RetryLater(t)
             \/ p \in Async /\ pc' = [pc EXCEPT ![t] = "begin"] /\ UNCHANGED lock
          /\ UNCHANGED <<req, ans>>
       \/ /\ ~retried \/ tries'[t] = MaxRetries
          /\ Leave(t, Contention)
    /\ UNCHANGED <<broken, known, calls>>

\* The statement did its work and the transaction goes on at `next'.
Executed(t, rec, next) ==
    /\ wrote' = [wrote EXCEPT ![Home[t]] = rec]
    /\ pc' = [pc EXCEPT ![t] = next]
    /\ UNCHANGED <<db, snap, stale, broken, lock, req, ans, known, tries, calls,
                   faults>>

\* claim: INSERT ... ON CONFLICT DO NOTHING.  The conflict is looked for in
\* the present, not in the snapshot.
Insert(t) ==
    LET p == Home[t] IN
    /\ pc[t] = "insert" /\ ~Blocked(p)
    /\ \/ /\ db.state = "fresh"
          /\ Executed(t, ClaimRow(db, req[t].tok, None, 1), "end")
       \/ /\ db.state # "fresh" /\ ~TooNew(p)
          /\ Executed(t, None, "select")
       \/ TooNew(p) /\ Retry(t) /\ UNCHANGED faults

\* claim: SELECT, from the snapshot.
Select(t) == pc[t] = "select" /\ Executed(t, None, "end")

\* commit: INSERT ... ON CONFLICT DO UPDATE ... WHERE state <> 'committed'.
Upsert(t) ==
    LET p == Home[t] IN
    /\ pc[t] = "upsert" /\ ~Blocked(p)
    /\ \/ /\ ~TooNew(p)
          /\ Executed(t, IF db.state = "committed" THEN None
                         ELSE CommitRow(db, req[t].res), "end")
       \/ TooNew(p) /\ Retry(t) /\ UNCHANGED faults

\* The WHERE clause of DELETE and UPDATE; a release without a token does not
\* compare it.
Matches(r, rec) ==
    rec.state = "in_flight" /\ (rec.token = r.tok \/ (r.op = "release" /\ r.tok = None))

Changed(r, rec) == IF r.op = "release" THEN NoRow ELSE [rec EXCEPT !.left = 2]

\* release, heartbeat: DELETE, UPDATE.  The record is looked up in the
\* snapshot, and must still be there in that version.
Change(t) ==
    LET p == Home[t] IN
    /\ pc[t] = "change"
    /\ \/ /\ ~Matches(req[t], snap[p])
          /\ Executed(t, None, "end")
       \/ /\ Matches(req[t], snap[p]) /\ ~Blocked(p)
          /\ \/ ~stale[p] /\ Executed(t, Changed(req[t], db), "end")
             \/ stale[p] /\ Retry(t) /\ UNCHANGED faults

\* The answer of a transaction that read s, depending on whether it wrote.
Result(r, s, hasWritten) ==
    CASE r.op = "claim"     -> IF hasWritten THEN Fresh(r.tok) ELSE Existing(s)
      [] r.op = "heartbeat" -> Renewed(hasWritten)
      [] OTHER              -> Done

\* COMMIT.
End(t) ==
    LET p == Home[t] IN
    /\ pc[t] = "end"
    /\ Publish(p)
    /\ Leave(t, Result(req[t], snap[p], wrote[p] # None))
    /\ known' = IF req[t].op # "claim" THEN known
                ELSE [known EXCEPT ![t] = IF wrote[p] # None THEN req[t].tok
                                          ELSE snap[p].token]
    /\ UNCHANGED <<broken, tries, calls, faults>>

-----------------------------------------------------------------------------
(***************************************************************************)
(* Failures.                                                               *)
(***************************************************************************)
\* The server fails a transaction as unserializable on weaker evidence than
\* a version conflict, at any statement or at COMMIT.
Unserializable(t) ==
    /\ pc[t] \in InTransaction
    /\ faults < MaxFaults
    /\ faults' = faults + 1
    /\ Retry(t)

\* OperationalError inside the transaction, which is rolled back: the
\* statement was cancelled or the connection is lost.  When the connection
\* is lost at COMMIT the server may have committed.
StatementFails(t) ==
    LET p == Home[t] IN
    /\ pc[t] \in InTransaction
    /\ faults < MaxFaults
    /\ faults' = faults + 1
    /\ \/ Rollback(p) /\ broken' \in {broken, broken \cup {p}}
       \/ pc[t] = "end" /\ Publish(p) /\ broken' = broken \cup {p}
    /\ Leave(t, Error)
    /\ UNCHANGED <<known, tries, calls>>

\* A process dies and its transaction is rolled back.  Its threads start over
\* in a new process with a new connection.
Crash(p) ==
    /\ faults < MaxFaults
    /\ faults' = faults + 1
    /\ Rollback(p)
    /\ broken' = broken \ {p}
    /\ lock' = [lock EXCEPT ![p] = None]
    /\ pc' = [t \in Threads |-> IF Home[t] = p THEN "idle" ELSE pc[t]]
    /\ req' = [t \in Threads |-> IF Home[t] = p THEN None ELSE req[t]]
    /\ ans' = [t \in Threads |-> IF Home[t] = p THEN None ELSE ans[t]]
    /\ known' = [t \in Threads |-> IF Home[t] = p THEN None ELSE known[t]]
    /\ UNCHANGED <<tries, calls>>

Step(t) ==
    \/ Lock(t) \/ Begin(t) \/ Insert(t) \/ Select(t)
    \/ Upsert(t) \/ Change(t) \/ End(t)

\* Every thread is through with its calls.
Terminating ==
    /\ \A t \in Threads : pc[t] = "idle" /\ calls[t] = MaxCalls[t]
    /\ UNCHANGED vars

Next ==
    \/ \E t \in Threads : Call(t) \/ Step(t) \/ Unserializable(t) \/ StatementFails(t)
    \/ \E p \in Processes : Crash(p)
    \/ Terminating

Spec == Init /\ [][Next]_vars

\* A thread in a store call goes on whenever it can; the server decides whom
\* a waiting statement waits for, and every transaction it waits for ends.
FairSpec == Spec /\ \A t \in Threads : WF_vars(Step(t))

-----------------------------------------------------------------------------
\* What a transaction that writes nothing will answer: what its snapshot held.
Found ==
    [t \in Threads |->
       LET s == snap[Home[t]] IN
       IF pc[t] \in InTransaction /\ wrote[Home[t]] = None /\ Apply(req[t], s) = s
       THEN Answer(req[t], s) ELSE None]

Told == [t \in Threads |-> IF ans[t] = Contention THEN Error ELSE ans[t]]

\* The adapter implements the Store contract: every call that answers took
\* place at one instant while it was under way, though it answers from an
\* older snapshot and may have been tried several times; what a call that
\* raised left behind is the whole operation or nothing.
Contract == INSTANCE LedgerStore
            WITH row <- db, out <- Found, ans <- Told, Lossy <- TRUE,
                 late <- EmptyBag, stuck <- [t \in Threads |-> None],
                 Sharing <- [t \in Threads |-> {}], Straying <- FALSE, Expiring <- FALSE

ImplementsStore == Contract!Spec

\* A claim that ran into a record reads that record: the SELECT after the
\* conflict finds a row (its fetchone is unpacked unchecked).
ConflictIsReadable ==
    \A t \in Threads : pc[t] = "select" => snap[Home[t]].state # "fresh"

\* Every store call is answered, however often it is tried.
CallsEnd == \A t \in Threads : req[t] # None ~> req[t] = None
=============================================================================
