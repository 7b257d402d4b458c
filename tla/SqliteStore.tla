---------------------------- MODULE SqliteStore ----------------------------
(***************************************************************************)
(* The SQLite adapter (src/src/exactly_once/stores/sqlite.py), statement   *)
(* by statement, for one key: processes that share a database file, the    *)
(* threads of a process sharing one connection under a lock.               *)
(***************************************************************************)
EXTENDS StoreCall

CONSTANTS
    Threads,
    Processes,
    Home,           \* Home[t]: the process of thread t
    MaxCalls,       \* bound: MaxCalls[t] is how many store calls t makes
    MaxAttempts,    \* _MAX_CLAIM_ATTEMPTS
    MaxFaults,      \* bound: statements that raise inside a transaction
    MaxCrashes      \* bound: process deaths

ASSUME HomeAssumption == Home \in [Threads -> Processes]
ASSUME BoundsAssumption ==
    /\ MaxCalls \in [Threads -> Nat] /\ MaxAttempts \in Nat \ {0}
    /\ MaxFaults \in Nat /\ MaxCrashes \in Nat

VARIABLES
    db,         \* the committed record
    tx,         \* the record as the open transaction sees it
    writer,     \* the process whose connection has a transaction open, or None
    lock,       \* lock[p]: the thread that holds p's lock, or None
    pc,         \* pc[t]: the statement that t executes next
    req,        \* req[t]: the store call t is in, or None
    ans,        \* ans[t]: what t's last call answered, or None
    known,      \* known[t]: the token in the last claim t was answered
    tries,      \* tries[t]: attempts of the claim that are used up
    calls,      \* calls[t]: calls t has made
    faults,     \* statements that raised
    crashes     \* processes that died

vars == <<db, tx, writer, lock, pc, req, ans, known, tries, calls, faults, crashes>>

\* The statements between BEGIN and COMMIT or ROLLBACK.
InTransaction == {"insert", "rollback", "exists", "write", "end"}

\* The threads on t's connection.
Sharers == [t \in Threads |-> {u \in Threads : Home[u] = Home[t]}]

\* The record in a transaction that a call which raised left open there.
LeftOpen ==
    [t \in Threads |->
       IF writer = Home[t] /\ \A u \in Sharers[t] : pc[u] \notin InTransaction
       THEN tx ELSE None]

\* What raises inside a transaction leaves the record alone, and nobody answers late.
Contract == INSTANCE LedgerStore
            WITH row <- db, out <- [t \in Threads |-> None], Lossy <- FALSE,
                 late <- EmptyBag, Straying <- FALSE, Expiring <- FALSE,
                 stuck <- LeftOpen, Sharing <- Sharers

\* The tokens of t's claims: uuid4 never repeats.
Tokens == UNION {{t} \X (1 .. MaxCalls[t]) : t \in Threads}

Requests ==
    [op: {"claim", "commit", "release", "heartbeat", "get"},
     tok: Tokens \cup {None}, res: Threads \cup {None}]

Rows == RowsOf(Threads, {}, Tokens)

ASSUME NoneIsNoneOfThese ==
    None \notin Threads \cup Processes \cup Requests /\ None \notin Rows

Answers ==
    {None, Done, Error} \cup ({"heartbeat"} \X BOOLEAN)
        \cup ({"claim", "get"} \X States \X (Tokens \cup {None}) \X (Threads \cup {None}))

\* The type invariant.
TypeOK ==
    /\ db \in Rows /\ tx \in Rows
    /\ writer \in Processes \cup {None}
    /\ lock \in [Processes -> Threads \cup {None}]
    /\ pc \in [Threads -> {"idle", "lock", "read", "begin", "insert", "rollback",
                           "select", "exists", "write", "end"}]
    /\ req \in [Threads -> Requests \cup {None}]
    /\ ans \in [Threads -> Answers]
    /\ known \in [Threads -> Tokens \cup {None}]
    /\ tries \in [Threads -> 0 .. MaxAttempts]
    /\ calls \in [Threads -> Nat] /\ \A t \in Threads : calls[t] <= MaxCalls[t]
    /\ faults \in 0 .. MaxFaults /\ crashes \in 0 .. MaxCrashes

Init ==
    /\ db = NoRow /\ tx = NoRow
    /\ writer = None
    /\ lock = [p \in Processes |-> None]
    /\ pc = [t \in Threads |-> "idle"]
    /\ req = [t \in Threads |-> None]
    /\ ans = [t \in Threads |-> None]
    /\ known = [t \in Threads |-> None]
    /\ tries = [t \in Threads |-> 0]
    /\ calls = [t \in Threads |-> 0]
    /\ faults = 0 /\ crashes = 0

-----------------------------------------------------------------------------
(***************************************************************************)
(* Wrong variants, which only the mutation runs put in place of the right  *)
(* definitions below.                                                      *)
(***************************************************************************)
\* BEGIN (deferred) instead of BEGIN IMMEDIATE.
DeferredMayBegin(t) == TRUE

\* The thread lock is never given back after an error.
LockKept(t) == UNCHANGED lock

-----------------------------------------------------------------------------
\* A call (of get for list too, which reads the same way): a claim has a token
\* of its own, a commit its caller's result, a get neither, a
\* release or a heartbeat the token of the claim that its caller last saw
\* (None of a pre-token record, or for an unconditional release).
Request(t, op) ==
    [op  |-> op,
     tok |-> CASE op = "claim"  -> <<t, calls[t] + 1>>
               [] op \in {"commit", "get"} -> None
               [] OTHER         -> known[t],
     res |-> IF op = "commit" THEN t ELSE None]

Call(t) ==
    /\ pc[t] = "idle" /\ calls[t] < MaxCalls[t]
    /\ \E op \in {"claim", "commit", "release", "heartbeat", "get"} :
          /\ op = "heartbeat" => known[t] # None
          /\ req' = [req EXCEPT ![t] = Request(t, op)]
    /\ pc' = [pc EXCEPT ![t] = "lock"]
    /\ ans' = [ans EXCEPT ![t] = None]
    /\ tries' = [tries EXCEPT ![t] = 0]
    /\ calls' = [calls EXCEPT ![t] = @ + 1]
    /\ UNCHANGED <<db, tx, writer, lock, known, faults, crashes>>

\* with self._lock
Lock(t) ==
    /\ pc[t] = "lock" /\ lock[Home[t]] = None
    /\ lock' = [lock EXCEPT ![Home[t]] = t]
    /\ pc' = [pc EXCEPT ![t] = IF req[t].op = "get" THEN "read" ELSE "begin"]
    /\ UNCHANGED <<db, tx, writer, req, ans, known, tries, calls, faults, crashes>>

\* SQLite gives the write lock of the file to one connection at a time.
MayBegin(t) == writer = None

FirstStatement(op) ==
    CASE op = "claim" -> "insert" [] op = "commit" -> "exists" [] OTHER -> "write"

\* BEGIN IMMEDIATE
Begin(t) ==
    /\ pc[t] = "begin" /\ MayBegin(t)
    /\ writer' = Home[t]
    /\ tx' = db
    /\ pc' = [pc EXCEPT ![t] = FirstStatement(req[t].op)]
    /\ UNCHANGED <<db, lock, req, ans, known, tries, calls, faults, crashes>>

Unlock(t) == lock' = [lock EXCEPT ![Home[t]] = None]

\* The call leaves the `with' block with an answer, or with an exception.
Leave(t, answer) ==
    /\ pc' = [pc EXCEPT ![t] = "idle"]
    /\ req' = [req EXCEPT ![t] = None]
    /\ ans' = [ans EXCEPT ![t] = answer]
    /\ Unlock(t)

\* BEGIN IMMEDIATE raises: another connection kept the write lock longer than
\* busy_timeout, or this connection has a transaction open already.
BeginFails(t) ==
    /\ pc[t] = "begin" /\ ~MayBegin(t)
    /\ Leave(t, Error)
    /\ UNCHANGED <<db, tx, writer, known, tries, calls, faults, crashes>>

\* claim: INSERT, which raises IntegrityError when there is a record.
Insert(t) ==
    /\ pc[t] = "insert"
    /\ \/ /\ tx.state = "fresh"
          /\ tx' = ClaimRow(tx, req[t].tok, None, 1)
          /\ pc' = [pc EXCEPT ![t] = "end"]
       \/ /\ tx.state # "fresh"
          /\ pc' = [pc EXCEPT ![t] = "rollback"]
          /\ UNCHANGED tx
    /\ UNCHANGED <<db, writer, lock, req, ans, known, tries, calls, faults, crashes>>

\* claim: ROLLBACK gives up the write lock before the record is read.
Rollback(t) ==
    /\ pc[t] = "rollback"
    /\ writer' = None
    /\ tx' = NoRow
    /\ pc' = [pc EXCEPT ![t] = "select"]
    /\ UNCHANGED <<db, lock, req, ans, known, tries, calls, faults, crashes>>

\* claim: SELECT outside a transaction.  The record may have vanished since.
Select(t) ==
    /\ pc[t] = "select"
    /\ \/ /\ db.state # "fresh"
          /\ Leave(t, Existing(db))
          /\ known' = [known EXCEPT ![t] = db.token]
          /\ UNCHANGED tries
       \/ /\ db.state = "fresh"
          /\ tries' = [tries EXCEPT ![t] = @ + 1]
          /\ \/ /\ tries'[t] < MaxAttempts
                /\ pc' = [pc EXCEPT ![t] = "begin"]
                /\ UNCHANGED <<req, ans, lock>>
             \/ /\ tries'[t] = MaxAttempts
                /\ Leave(t, Error)
          /\ UNCHANGED known
    /\ UNCHANGED <<db, tx, writer, calls, faults, crashes>>

\* commit: SELECT state; a committed record is left as it is.
Exists(t) ==
    /\ pc[t] = "exists"
    /\ pc' = [pc EXCEPT ![t] = IF tx.state = "committed" THEN "end" ELSE "write"]
    /\ UNCHANGED <<db, tx, writer, lock, req, ans, known, tries, calls, faults, crashes>>

\* commit: INSERT ... ON CONFLICT DO UPDATE, whatever the state is by now.
Upsert(rec, res) ==
    [rec EXCEPT !.state = "committed", !.result = res, !.left = None]

\* The UPSERT of commit, the DELETE of release, the UPDATE of heartbeat.
Write(t) ==
    /\ pc[t] = "write"
    /\ tx' = CASE req[t].op = "commit"    -> Upsert(tx, req[t].res)
               [] req[t].op = "release"   -> ReleaseRow(tx, req[t].tok)
               [] req[t].op = "heartbeat" -> BeatRow(tx, req[t].tok, 2)
    /\ pc' = [pc EXCEPT ![t] = "end"]
    /\ UNCHANGED <<db, writer, lock, req, ans, known, tries, calls, faults, crashes>>

\* COMMIT.  A claim that got here inserted; a heartbeat answers its rowcount.
End(t) ==
    /\ pc[t] = "end"
    /\ db' = tx
    /\ writer' = None
    /\ tx' = NoRow
    /\ Leave(t, CASE req[t].op = "claim" -> Fresh(req[t].tok)
                  [] req[t].op = "heartbeat" ->
                       Renewed(Owns(tx, req[t].tok))
                  [] OTHER -> Done)
    /\ known' = IF req[t].op = "claim" THEN [known EXCEPT ![t] = req[t].tok] ELSE known
    /\ UNCHANGED <<tries, calls, faults, crashes>>

\* get, list: SELECT, no BEGIN.  In a transaction that is open on the connection
\* it sees what that has written; otherwise what is committed.
Get(t) ==
    /\ pc[t] = "read"
    /\ Leave(t, Read(IF writer = Home[t] THEN tx ELSE db))
    /\ UNCHANGED <<db, tx, writer, known, tries, calls, faults, crashes>>

\* A statement raises something else (disk full, I/O error, an interrupt after it).  The
\* adapter does not roll back; SQLite itself does on some errors, and on the
\* others the transaction stays open on the connection.
StatementFails(t) ==
    /\ pc[t] \in InTransaction \cup {"select", "read"}
    /\ faults < MaxFaults
    /\ faults' = faults + 1
    /\ \/ UNCHANGED <<tx, writer>>
       \/ writer = Home[t] /\ tx' = NoRow /\ writer' = None
    /\ Leave(t, Error)
    /\ UNCHANGED <<db, known, tries, calls, crashes>>

\* A process dies: its open transaction is rolled back, its lock is gone.
\* Its threads start over in a new process on the same file.
Crash(p) ==
    /\ crashes < MaxCrashes
    /\ crashes' = crashes + 1
    /\ writer' = IF writer = p THEN None ELSE writer
    /\ tx' = IF writer = p THEN NoRow ELSE tx
    /\ lock' = [lock EXCEPT ![p] = None]
    /\ pc' = [t \in Threads |-> IF Home[t] = p THEN "idle" ELSE pc[t]]
    /\ req' = [t \in Threads |-> IF Home[t] = p THEN None ELSE req[t]]
    /\ ans' = [t \in Threads |-> IF Home[t] = p THEN None ELSE ans[t]]
    /\ known' = [t \in Threads |-> IF Home[t] = p THEN None ELSE known[t]]
    /\ UNCHANGED <<db, tries, calls, faults>>

Step(t) ==
    \/ Lock(t) \/ Begin(t) \/ BeginFails(t) \/ Insert(t) \/ Rollback(t)
    \/ Select(t) \/ Exists(t) \/ Write(t) \/ End(t) \/ Get(t)

\* Every thread is through with its calls.
Terminating ==
    /\ \A t \in Threads : pc[t] = "idle" /\ calls[t] = MaxCalls[t]
    /\ UNCHANGED vars

Next ==
    \/ \E t \in Threads : Call(t) \/ Step(t) \/ StatementFails(t)
    \/ \E p \in Processes : Crash(p)
    \/ Terminating

Spec == Init /\ [][Next]_vars

\* A thread in a store call goes on whenever it can.
FairSpec == Spec /\ \A t \in Threads : WF_vars(Step(t))

-----------------------------------------------------------------------------
\* The adapter implements the Store contract: every call that answers took
\* place at one instant, no claim is answered FRESH but the one that created
\* the record, no commit overwrites another, and a call that raises or a process
\* that dies in the middle left the record as it was.  Only a get on the connection
\* on which a call that raised left its transaction open sees what that call wrote,
\* as long as the process lives.
ImplementsStore == Contract!Spec

\* A record that get shows as committed is committed in the file, where it survives
\* the death of the process ("A committed record is fsync-durable in the WAL",
\* src/src/exactly_once/stores/sqlite.py:11): Wait returns it as the result.
CommittedReadIsStored ==
    \A t \in Threads :
       ans[t] # None /\ ans[t][1] = "get" /\ ans[t][2] = "committed" => ans[t] = Read(db)

\* Every store call is answered: with a result, or with an error.
CallsEnd == \A t \in Threads : req[t] # None ~> req[t] = None
=============================================================================
