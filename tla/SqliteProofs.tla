---------------------------- MODULE SqliteProofs ----------------------------
(***************************************************************************)
(* Theorems about SqliteStore, for any number of threads, processes,       *)
(* calls, attempts and failures: the types, and that the adapter           *)
(* implements the Store contract.                                          *)
(***************************************************************************)
EXTENDS SqliteStore, TLAPS

-----------------------------------------------------------------------------
(***************************************************************************)
(* The invariants.                                                         *)
(***************************************************************************)
\* A thread is in a call from its request to its answer, executes the
\* statements of that call only, and has an attempt left while it claims.
CallInv ==
    \A t \in Threads :
       /\ pc[t] = "idle" <=> req[t] = None
       /\ pc[t] \in {"insert", "rollback", "select"} => req[t].op = "claim"
       /\ pc[t] = "exists" => req[t].op = "commit"
       /\ pc[t] = "write" => req[t].op \notin {"claim", "get"}
       /\ pc[t] \in {"begin", "end"} => req[t].op # "get"
       /\ pc[t] = "read" => req[t].op = "get"
       /\ pc[t] \in {"lock", "begin", "insert", "rollback", "select"} =>
             tries[t] < MaxAttempts

\* A thread that executes statements holds the lock of its process.
LockInv == \A t \in Threads : pc[t] \notin {"idle", "lock"} => lock[Home[t]] = t

\* A transaction has the write lock of the file, so what it sees is what is
\* committed, until its last statement did what the whole operation does.
InTx(t) ==
    /\ pc[t] \in InTransaction => writer = Home[t]
    /\ pc[t] \in InTransaction \ {"end"} => tx = db
    /\ pc[t] = "write" /\ req[t].op = "commit" => db.state # "committed"
    /\ pc[t] = "end" => tx = Apply(req[t], db)
    /\ pc[t] = "end" /\ req[t].op = "claim" => db.state = "fresh"

TxInv == \A t \in Threads : InTx(t)

Inv == TypeOK /\ CallInv /\ LockInv /\ TxInv

-----------------------------------------------------------------------------
(***************************************************************************)
(* The record and the requests.                                            *)
(***************************************************************************)
\* No record is a record.
LEMMA NoRowType == NoRow \in Rows
BY DEF NoRow, Rows, RowsOf, States

\* What claim, release and heartbeat make of a record is a record ...
LEMMA RowTypes ==
    ASSUME NEW rec \in Rows, NEW tok \in Tokens \cup {None}
    PROVE  /\ ClaimRow(rec, tok, None, 1) \in Rows
           /\ ReleaseRow(rec, tok) \in Rows
           /\ BeatRow(rec, tok, 2) \in Rows
<1>1. ClaimRow(rec, tok, None, 1) \in Rows
  BY SMTT(30) DEF ClaimRow, Rows, RowsOf, States
<1>2. ReleaseRow(rec, tok) \in Rows
  BY SMTT(30), NoRowType DEF ReleaseRow
<1>3. BeatRow(rec, tok, 2) \in Rows
  BY SMTT(30) DEF BeatRow, Rows, RowsOf, States
<1> QED
  BY <1>1, <1>2, <1>3

\* ... and so is what the UPSERT makes of it, which, unless it is committed, is
\* what commit does to it.
LEMMA UpsertIsCommit ==
    ASSUME NEW rec \in Rows, NEW res \in Threads \cup {None}
    PROVE  /\ Upsert(rec, res) \in Rows
           /\ rec.state # "committed" => Upsert(rec, res) = CommitRow(rec, res)
<1>1. Upsert(rec, res) = [state |-> "committed", result |-> res, fp |-> rec.fp,
                          token |-> rec.token, left |-> None]
  <2> DEFINE r1 == [rec EXCEPT !.state = "committed"]
             r2 == [r1 EXCEPT !.result = res]
             r3 == [r2 EXCEPT !.left = None]
  <2>1. r1 = [state |-> "committed", result |-> rec.result, fp |-> rec.fp,
              token |-> rec.token, left |-> rec.left]
    BY SMTT(30) DEF Rows, RowsOf
  <2> HIDE DEF r1
  <2>2. r2 = [state |-> "committed", result |-> res, fp |-> rec.fp,
              token |-> rec.token, left |-> rec.left]
    BY <2>1, SMTT(30)
  <2> HIDE DEF r2
  <2>3. r3 = [state |-> "committed", result |-> res, fp |-> rec.fp,
              token |-> rec.token, left |-> None]
    BY <2>2, SMTT(30)
  <2>4. Upsert(rec, res) = r3
    BY Zenon DEF Upsert, r1, r2
  <2> QED
    BY <2>3, <2>4
<1>2. Upsert(rec, res) \in Rows
  BY <1>1, SMTT(30) DEF Rows, RowsOf, States
<1> QED
  BY <1>1, <1>2 DEF CommitRow

\* A heartbeat finds the record its own after it renewed it iff it was before.
LEMMA OwnsAfterBeat ==
    ASSUME NEW rec \in Rows, NEW tok
    PROVE  Owns(BeatRow(rec, tok, 2), tok) = Owns(rec, tok)
BY SMTT(30) DEF BeatRow, Owns, Rows, RowsOf, States

\* The token of a claim.
LEMMA TokenType ==
    ASSUME NEW t \in Threads, NEW n \in Nat, n < MaxCalls[t]
    PROVE  <<t, n + 1>> \in Tokens
<1>1. <<t, n + 1>> \in {t} \X (1 .. MaxCalls[t])
  BY BoundsAssumption
<1> QED
  BY <1>1, Zenon DEF Tokens

\* What a thread in a call asks for.
LEMMA RequestType ==
    ASSUME TypeOK, CallInv, NEW t \in Threads, pc[t] # "idle"
    PROVE  /\ req[t] \in Requests /\ req[t] # None
           /\ req[t].op \in {"claim", "commit", "release", "heartbeat", "get"}
           /\ req[t].tok \in Tokens \cup {None} /\ req[t].res \in Threads \cup {None}
<1>1. req[t] \in Requests /\ req[t] # None
  BY DEF TypeOK, CallInv
<1> QED
  BY <1>1 DEF Requests

-----------------------------------------------------------------------------
(***************************************************************************)
(* Type correctness.                                                       *)
(***************************************************************************)
\* What the initial states hold.
LEMMA InitType == Init => TypeOK
BY NoRowType, HomeAssumption, BoundsAssumption DEF Init, TypeOK, Answers

\* An answer is an answer.
LEMMA AnswerTypes ==
    ASSUME NEW rec \in Rows, NEW tok \in Tokens \cup {None}, NEW b \in BOOLEAN
    PROVE  /\ Fresh(tok) \in Answers /\ Existing(rec) \in Answers
           /\ Renewed(b) \in Answers /\ Done \in Answers /\ Error \in Answers
BY DEF Fresh, Existing, Renewed, Answers, Rows, RowsOf, States

\* A call that is left has answered.
LEMMA LeaveType ==
    ASSUME TypeOK, NEW t \in Threads, NEW a \in Answers, Leave(t, a)
    PROVE  /\ lock' \in [Processes -> Threads \cup {None}]
           /\ pc' \in [Threads -> {"idle", "lock", "read", "begin", "insert", "rollback",
                                   "select", "exists", "write", "end"}]
           /\ req' \in [Threads -> Requests \cup {None}]
           /\ ans' \in [Threads -> Answers]
BY HomeAssumption DEF TypeOK, Leave, Unlock

\* Every step keeps the types.
LEMMA NextType == TypeOK /\ CallInv /\ [Next]_vars => TypeOK'
<1> SUFFICES ASSUME TypeOK, CallInv, [Next]_vars PROVE TypeOK'
  OBVIOUS
<1> USE DEF TypeOK
<1>0. ASSUME NEW t \in Threads
      PROVE  Home[t] \in Processes /\ Error \in Answers /\ None \in Answers
  BY HomeAssumption DEF Answers
<1>1. ASSUME NEW t \in Threads, Call(t) PROVE TypeOK'
  <2>2. MaxCalls[t] \in Nat /\ calls[t] \in Nat /\ calls[t] < MaxCalls[t]
    BY <1>1, BoundsAssumption DEF Call
  <2>3. <<t, calls[t] + 1>> \in Tokens
    BY <2>2, TokenType
  <2>4. \A op \in {"claim", "commit", "release", "heartbeat", "get"} : Request(t, op) \in Requests
    BY <2>3 DEF Request, Requests
  <2>5. req' \in [Threads -> Requests \cup {None}]
    BY <1>1, <2>4 DEF Call
  <2>6. tries' \in [Threads -> 0 .. MaxAttempts]
    BY <1>1, BoundsAssumption DEF Call
  <2>7. calls' \in [Threads -> Nat] /\ \A u \in Threads : calls'[u] <= MaxCalls[u]
    BY <1>1, <2>2 DEF Call
  <2> QED
    BY <1>0, <1>1, <2>5, <2>6, <2>7 DEF Call
<1>2. ASSUME NEW t \in Threads, Lock(t) PROVE TypeOK'
  BY <1>0, <1>2 DEF Lock
<1>3. ASSUME NEW t \in Threads, Begin(t) PROVE TypeOK'
  <2>1. FirstStatement(req[t].op) \in {"insert", "exists", "write"}
    BY DEF FirstStatement
  <2> QED
    BY <1>0, <1>3, <2>1 DEF Begin
<1>4. ASSUME NEW t \in Threads, BeginFails(t) PROVE TypeOK'
  BY <1>0, <1>4, LeaveType DEF BeginFails
<1>5. ASSUME NEW t \in Threads, Insert(t) PROVE TypeOK'
  <2>1. req[t].tok \in Tokens \cup {None}
    BY <1>5, RequestType DEF Insert
  <2> QED
    BY <1>5, <2>1, RowTypes DEF Insert
<1>6. ASSUME NEW t \in Threads, Rollback(t) PROVE TypeOK'
  BY <1>6, NoRowType DEF Rollback
<1>7. ASSUME NEW t \in Threads, Select(t) PROVE TypeOK'
  <2>1. tries[t] + 1 \in 0 .. MaxAttempts
    BY <1>7, BoundsAssumption DEF Select, CallInv
  <2>2. db.token \in Tokens \cup {None} /\ Existing(db) \in Answers
    BY AnswerTypes DEF Rows, RowsOf
  <2>3. tries' \in [Threads -> 0 .. MaxAttempts] /\ known' \in [Threads -> Tokens \cup {None}]
    BY <1>7, <2>1, <2>2 DEF Select
  <2>4. CASE Leave(t, Existing(db)) \/ Leave(t, Error)
    BY <1>0, <1>7, <2>2, <2>3, <2>4, LeaveType DEF Select
  <2>5. CASE pc' = [pc EXCEPT ![t] = "begin"] /\ UNCHANGED <<req, ans, lock>>
    BY <1>7, <2>3, <2>5 DEF Select
  <2> QED
    BY <1>7, <2>4, <2>5 DEF Select
<1>8. ASSUME NEW t \in Threads, Exists(t) PROVE TypeOK'
  BY <1>8 DEF Exists
<1>9. ASSUME NEW t \in Threads, Write(t) PROVE TypeOK'
  <2>1. /\ req[t].tok \in Tokens \cup {None} /\ req[t].res \in Threads \cup {None}
        /\ req[t].op \in {"commit", "release", "heartbeat"}
    BY <1>9, RequestType DEF Write, CallInv
  <2>2. tx' \in Rows
    BY <1>9, <2>1, RowTypes, UpsertIsCommit DEF Write
  <2> QED
    BY <1>9, <2>2 DEF Write
<1>10. ASSUME NEW t \in Threads, End(t) PROVE TypeOK'
  <2>1. req[t].tok \in Tokens \cup {None}
    BY <1>10, RequestType DEF End
  <2>2. Owns(tx, req[t].tok) \in BOOLEAN
    BY DEF Owns
  <2>3. /\ Fresh(req[t].tok) \in Answers /\ Renewed(Owns(tx, req[t].tok)) \in Answers
        /\ Done \in Answers
    BY <2>1, <2>2, AnswerTypes
  <2> DEFINE a == CASE req[t].op = "claim" -> Fresh(req[t].tok)
                    [] req[t].op = "heartbeat" -> Renewed(Owns(tx, req[t].tok))
                    [] OTHER -> Done
  <2>4. a \in Answers /\ Leave(t, a)
    BY <1>10, <2>3 DEF End
  <2> HIDE DEF a
  <2>5. known' \in [Threads -> Tokens \cup {None}]
    BY <1>10, <2>1 DEF End
  <2> QED
    BY <1>10, <2>4, <2>5, LeaveType, NoRowType DEF End
<1>11. ASSUME NEW t \in Threads, StatementFails(t) PROVE TypeOK'
  BY <1>0, <1>11, LeaveType, NoRowType, BoundsAssumption DEF StatementFails
<1>14. ASSUME NEW t \in Threads, Get(t) PROVE TypeOK'
  <2> DEFINE a == Read(IF writer = Home[t] THEN tx ELSE db)
  <2>1. a \in Answers
    BY DEF Read, Answers, Rows, RowsOf, States
  <2>2. Leave(t, a)
    BY <1>14 DEF Get
  <2> HIDE DEF a
  <2> QED
    BY <1>14, <2>1, <2>2, LeaveType DEF Get
<1>12. ASSUME NEW p \in Processes, Crash(p) PROVE TypeOK'
  BY <1>12, NoRowType, BoundsAssumption DEF Crash, Answers
<1>13. CASE UNCHANGED vars
  BY <1>13 DEF vars
<1> QED
  BY <1>1, <1>2, <1>3, <1>4, <1>5, <1>6, <1>7, <1>8, <1>9, <1>10, <1>11, <1>12,
     <1>13, <1>14 DEF Next, Step, Terminating

-----------------------------------------------------------------------------
(***************************************************************************)
(* The calls and the locks.                                                *)
(***************************************************************************)
\* A request is not None.
LEMMA RequestIsNotNone ==
    ASSUME TypeOK, NEW t \in Threads, NEW op \in {"claim", "commit", "release", "heartbeat", "get"},
           calls[t] < MaxCalls[t]
    PROVE  Request(t, op) # None
<1>1. <<t, calls[t] + 1>> \in Tokens
  BY TokenType DEF TypeOK
<1>2. Request(t, op) \in Requests
  BY <1>1 DEF Request, Requests, TypeOK
<1> QED
  BY <1>2, NoneIsNoneOfThese

\* Every step leaves the threads in a call where the calls lead them.
LEMMA NextCall == Inv /\ [Next]_vars => CallInv'
<1> SUFFICES ASSUME Inv, [Next]_vars PROVE CallInv'
  OBVIOUS
<1> USE DEF Inv, CallInv
<1>p. /\ pc \in [Threads -> {"idle", "lock", "read", "begin", "insert", "rollback",
                             "select", "exists", "write", "end"}]
      /\ req \in [Threads -> Requests \cup {None}]
      /\ tries \in [Threads -> 0 .. MaxAttempts]
  BY DEF TypeOK
<1>1. ASSUME NEW t \in Threads, Call(t) PROVE CallInv'
  <2>1. req'[t] # None
    BY <1>1, <1>p, RequestIsNotNone DEF Call
  <2> QED
    BY <1>1, <1>p, <2>1, BoundsAssumption DEF Call
<1>2. ASSUME NEW t \in Threads, Lock(t) PROVE CallInv'
  BY <1>2, <1>p DEF Lock
<1>3. ASSUME NEW t \in Threads, Begin(t) PROVE CallInv'
  <2>1. req[t].op \in {"claim", "commit", "release", "heartbeat", "get"}
    BY <1>3, RequestType DEF Begin
  <2> QED
    BY <1>3, <1>p, <2>1 DEF Begin, FirstStatement
<1>4. ASSUME NEW t \in Threads, NEW a, Leave(t, a), UNCHANGED tries PROVE CallInv'
  BY <1>4, <1>p DEF Leave
<1>5. ASSUME NEW t \in Threads, Insert(t) PROVE CallInv'
  BY <1>5, <1>p DEF Insert
<1>6. ASSUME NEW t \in Threads, Rollback(t) PROVE CallInv'
  BY <1>6, <1>p DEF Rollback
<1>7. ASSUME NEW t \in Threads, Select(t) PROVE CallInv'
  <2>1. CASE Leave(t, Existing(db)) \/ Leave(t, Error)
    BY <1>7, <1>p, <2>1, BoundsAssumption DEF Select, Leave
  <2>2. CASE tries'[t] < MaxAttempts /\ pc' = [pc EXCEPT ![t] = "begin"] /\ UNCHANGED req
    BY <1>7, <1>p, <2>2, BoundsAssumption DEF Select
  <2> QED
    BY <1>7, <2>1, <2>2 DEF Select
<1>8. ASSUME NEW t \in Threads, Exists(t) PROVE CallInv'
  BY <1>8, <1>p DEF Exists
<1>9. ASSUME NEW t \in Threads, Write(t) PROVE CallInv'
  BY <1>9, <1>p DEF Write
<1>10. ASSUME NEW t \in Threads, End(t) PROVE CallInv'
  BY <1>4, <1>10 DEF End
<1>11. ASSUME NEW t \in Threads, StatementFails(t) \/ BeginFails(t) \/ Get(t)
       PROVE  CallInv'
  BY <1>4, <1>11 DEF StatementFails, BeginFails, Get
<1>12. ASSUME NEW p \in Processes, Crash(p) PROVE CallInv'
  BY <1>12, <1>p DEF Crash
<1>13. CASE UNCHANGED vars
  BY <1>13 DEF vars
<1> QED
  BY <1>1, <1>2, <1>3, <1>5, <1>6, <1>7, <1>8, <1>9, <1>10, <1>11, <1>12, <1>13
     DEF Next, Step, Terminating

\* A lock that a thread holds is given to no other.
LEMMA NextLock == Inv /\ [Next]_vars => LockInv'
<1> SUFFICES ASSUME Inv, [Next]_vars PROVE LockInv'
  OBVIOUS
<1> USE DEF Inv, LockInv
<1>p. /\ pc \in [Threads -> {"idle", "lock", "read", "begin", "insert", "rollback",
                             "select", "exists", "write", "end"}]
      /\ lock \in [Processes -> Threads \cup {None}]
      /\ \A t \in Threads : t # None /\ Home[t] \in Processes
  BY NoneIsNoneOfThese, HomeAssumption DEF TypeOK
<1>1. ASSUME NEW t \in Threads, pc[t] \notin {"idle", "lock"}, UNCHANGED lock,
             \A u \in Threads \ {t} : pc'[u] = pc[u]
      PROVE  LockInv'
  BY <1>1, <1>p
<1>2. ASSUME NEW t \in Threads, pc[t] \notin {"idle", "lock"}, NEW a, Leave(t, a)
      PROVE  LockInv'
  BY <1>2, <1>p DEF Leave, Unlock
<1>3. ASSUME NEW t \in Threads, Call(t) PROVE LockInv'
  BY <1>3, <1>p DEF Call
<1>4. ASSUME NEW t \in Threads, Lock(t) PROVE LockInv'
  BY <1>4, <1>p DEF Lock
<1>5. ASSUME NEW t \in Threads,
             Begin(t) \/ Insert(t) \/ Rollback(t) \/ Exists(t) \/ Write(t)
      PROVE  LockInv'
  BY <1>1, <1>5, <1>p DEF Begin, Insert, Rollback, Exists, Write
<1>6. ASSUME NEW t \in Threads, Select(t) PROVE LockInv'
  <2>1. CASE Leave(t, Existing(db)) \/ Leave(t, Error)
    BY <1>2, <1>6, <2>1 DEF Select
  <2>2. CASE pc' = [pc EXCEPT ![t] = "begin"] /\ UNCHANGED lock
    BY <1>1, <1>6, <1>p, <2>2 DEF Select
  <2> QED
    BY <1>6, <2>1, <2>2 DEF Select
<1>7. ASSUME NEW t \in Threads, End(t) \/ BeginFails(t) \/ StatementFails(t) \/ Get(t)
      PROVE  LockInv'
  BY <1>2, <1>7 DEF End, BeginFails, StatementFails, Get, InTransaction
<1>8. ASSUME NEW p \in Processes, Crash(p) PROVE LockInv'
  BY <1>8, <1>p DEF Crash
<1>9. CASE UNCHANGED vars
  BY <1>9 DEF vars
<1> QED
  BY <1>3, <1>4, <1>5, <1>6, <1>7, <1>8, <1>9 DEF Next, Step, Terminating

-----------------------------------------------------------------------------
(***************************************************************************)
(* The transactions.                                                       *)
(***************************************************************************)
\* While one thread is in a transaction, or the write lock is free, or held by
\* the process whose lock the thread has, no other thread is in one.
LEMMA Alone ==
    ASSUME Inv, NEW t \in Threads, pc[t] \notin {"idle", "lock"},
           writer \in {None, Home[t]}
    PROVE  \A u \in Threads \ {t} : pc[u] \notin InTransaction
<1> SUFFICES ASSUME NEW u \in Threads, pc[u] \in InTransaction PROVE u = t
  OBVIOUS
<1>1. writer = Home[u] /\ lock[Home[u]] = u /\ lock[Home[t]] = t
  BY DEF Inv, TxInv, InTx, LockInv, InTransaction
<1>2. Home[u] # None
  BY NoneIsNoneOfThese, HomeAssumption
<1> QED
  BY <1>1, <1>2

\* A step of t leaves the transactions of the others alone.
LEMMA OthersInTx ==
    ASSUME TxInv, NEW t \in Threads,
           \A u \in Threads \ {t} : pc'[u] = pc[u] /\ req'[u] = req[u],
           \/ UNCHANGED <<db, tx, writer>>
           \/ \A u \in Threads \ {t} : pc[u] \notin InTransaction,
           InTx(t)'
    PROVE  TxInv'
<1> SUFFICES ASSUME NEW u \in Threads \ {t} PROVE InTx(u)'
  BY DEF TxInv
<1>1. CASE UNCHANGED <<db, tx, writer>>
  BY <1>1 DEF TxInv, InTx
<1>2. CASE pc[u] \notin InTransaction
  BY <1>2 DEF InTx, InTransaction
<1> QED
  BY <1>1, <1>2

\* Every step keeps the transactions isolated, and what they see up to date.
LEMMA NextTx == Inv /\ [Next]_vars => TxInv'
<1> SUFFICES ASSUME Inv, [Next]_vars PROVE TxInv'
  OBVIOUS
<1> USE DEF Inv
<1>p. /\ pc \in [Threads -> {"idle", "lock", "read", "begin", "insert", "rollback",
                             "select", "exists", "write", "end"}]
      /\ req \in [Threads -> Requests \cup {None}]
      /\ db \in Rows /\ tx \in Rows
  BY DEF TypeOK
<1>a. ASSUME NEW t \in Threads, pc[t] \in InTransaction
      PROVE  /\ InTx(t) /\ writer = Home[t] /\ pc[t] \notin {"idle", "lock"}
             /\ \A u \in Threads \ {t} : pc[u] \notin InTransaction
  <2>1. InTx(t) /\ writer = Home[t] /\ pc[t] \notin {"idle", "lock"}
    BY <1>a DEF TxInv, InTx, InTransaction
  <2> QED
    BY <2>1, Alone
<1>b. ASSUME NEW t \in Threads, pc'[t] \notin InTransaction,
             \A u \in Threads \ {t} : pc'[u] = pc[u] /\ req'[u] = req[u],
             \/ UNCHANGED <<db, tx, writer>>
             \/ \A u \in Threads \ {t} : pc[u] \notin InTransaction
      PROVE  TxInv'
  <2>1. InTx(t)'
    BY <1>b DEF InTx, InTransaction
  <2> QED
    BY <1>b, <2>1, OthersInTx
<1>1. ASSUME NEW t \in Threads, Call(t) PROVE TxInv'
  BY <1>1, <1>b, <1>p DEF Call, InTransaction
<1>2. ASSUME NEW t \in Threads, Lock(t) PROVE TxInv'
  BY <1>2, <1>b, <1>p DEF Lock, InTransaction
<1>3. ASSUME NEW t \in Threads, Begin(t) PROVE TxInv'
  <2>1. \A u \in Threads \ {t} : pc[u] \notin InTransaction
    BY <1>3, Alone DEF Begin, MayBegin
  <2>2. InTx(t)'
    <3>1. pc'[t] \in {"insert", "exists", "write"}
      BY <1>3, <1>p DEF Begin, FirstStatement
    <3>2. pc'[t] = "write" => req'[t].op # "commit"
      BY <1>3, <1>p DEF Begin, FirstStatement
    <3> QED
      BY <1>3, <3>1, <3>2 DEF Begin, InTx
  <2> QED
    BY <1>3, <1>p, <2>1, <2>2, OthersInTx DEF Begin
<1>4. ASSUME NEW t \in Threads, BeginFails(t) PROVE TxInv'
  BY <1>4, <1>b, <1>p DEF BeginFails, Leave, InTransaction
<1>5. ASSUME NEW t \in Threads, Insert(t) PROVE TxInv'
  <2>1. pc[t] \in InTransaction /\ req[t].op = "claim"
    BY <1>5 DEF Insert, InTransaction, CallInv
  <2>2. InTx(t)'
    BY <1>5, <1>a, <1>p, <2>1 DEF Insert, InTx, InTransaction, Apply
  <2> QED
    BY <1>5, <1>a, <1>p, <2>1, <2>2, OthersInTx DEF Insert
<1>6. ASSUME NEW t \in Threads, Rollback(t) PROVE TxInv'
  <2>1. pc[t] \in InTransaction
    BY <1>6 DEF Rollback, InTransaction
  <2>2. pc'[t] \notin InTransaction
    BY <1>6, <1>p DEF Rollback, InTransaction
  <2> QED
    BY <1>6, <1>a, <1>b, <1>p, <2>1, <2>2 DEF Rollback
<1>7. ASSUME NEW t \in Threads, Select(t) PROVE TxInv'
  <2>1. pc'[t] \notin InTransaction
    BY <1>7, <1>p DEF Select, Leave, InTransaction
  <2>2. \A u \in Threads \ {t} : pc'[u] = pc[u] /\ req'[u] = req[u]
    BY <1>7, <1>p DEF Select, Leave
  <2> QED
    BY <1>7, <1>b, <2>1, <2>2 DEF Select
<1>8. ASSUME NEW t \in Threads, Exists(t) PROVE TxInv'
  <2>1. pc[t] \in InTransaction /\ req[t].op = "commit"
    BY <1>8 DEF Exists, InTransaction, CallInv
  <2>2. InTx(t)'
    BY <1>8, <1>a, <1>p, <2>1 DEF Exists, InTx, InTransaction, Apply, CommitRow
  <2> QED
    BY <1>8, <1>p, <2>2, OthersInTx DEF Exists
<1>9. ASSUME NEW t \in Threads, Write(t) PROVE TxInv'
  <2>1. /\ pc[t] \in InTransaction /\ req[t].res \in Threads \cup {None}
        /\ req[t].op \in {"commit", "release", "heartbeat"}
    BY <1>9, RequestType DEF Write, InTransaction, CallInv
  <2>2. tx = db /\ (req[t].op = "commit" => db.state # "committed")
    BY <1>9, <1>a, <2>1 DEF Write, InTx, InTransaction
  <2>3. tx' = Apply(req[t], db)
    BY <1>9, <1>p, <2>1, <2>2, UpsertIsCommit DEF Write, Apply
  <2>4. InTx(t)'
    BY <1>9, <1>a, <1>p, <2>1, <2>3 DEF Write, InTx, InTransaction
  <2> QED
    BY <1>9, <1>a, <1>p, <2>1, <2>4, OthersInTx DEF Write
<1>10. ASSUME NEW t \in Threads, End(t) PROVE TxInv'
  <2>1. pc[t] \in InTransaction
    BY <1>10 DEF End, InTransaction
  <2>2. pc'[t] \notin InTransaction
    BY <1>10, <1>p DEF End, Leave, InTransaction
  <2> QED
    BY <1>10, <1>a, <1>b, <1>p, <2>1, <2>2 DEF End, Leave
<1>11. ASSUME NEW t \in Threads, StatementFails(t) PROVE TxInv'
  <2>1. pc'[t] \notin InTransaction
    BY <1>11, <1>p DEF StatementFails, Leave, InTransaction
  <2>2. \/ UNCHANGED <<db, tx, writer>>
        \/ \A u \in Threads \ {t} : pc[u] \notin InTransaction
    BY <1>11, Alone DEF StatementFails, InTransaction
  <2>3. \A u \in Threads \ {t} : pc'[u] = pc[u] /\ req'[u] = req[u]
    BY <1>11, <1>p DEF StatementFails, Leave
  <2> QED
    BY <1>b, <2>1, <2>2, <2>3
<1>14. ASSUME NEW t \in Threads, Get(t) PROVE TxInv'
  BY <1>14, <1>b, <1>p DEF Get, Leave, InTransaction
<1>12. ASSUME NEW p \in Processes, Crash(p) PROVE TxInv'
  <2> SUFFICES ASSUME NEW u \in Threads PROVE InTx(u)'
    BY DEF TxInv
  <2>1. CASE Home[u] = p
    BY <1>12, <2>1 DEF Crash, InTx, InTransaction
  <2>2. CASE Home[u] # p
    BY <1>12, <2>2 DEF Crash, TxInv, InTx, InTransaction
  <2> QED
    BY <2>1, <2>2
<1>13. CASE UNCHANGED vars
  BY <1>13 DEF vars, TxInv, InTx
<1> QED
  BY <1>1, <1>2, <1>3, <1>4, <1>5, <1>6, <1>7, <1>8, <1>9, <1>10, <1>11, <1>12,
     <1>13, <1>14 DEF Next, Step, Terminating

-----------------------------------------------------------------------------
(***************************************************************************)
(* The steps as the contract sees them.                                    *)
(***************************************************************************)
\* The contract means the same record, operations and answers.
LEMMA SameOperations ==
    /\ Contract!NoRow = NoRow /\ Contract!Error = Error
    /\ Contract!EmptyBag = EmptyBag /\ EmptyBag' = EmptyBag
    /\ \A r, rec : /\ Contract!Apply(r, rec) = Apply(r, rec)
                  /\ Contract!Answer(r, rec) = Answer(r, rec)
<1>1. /\ Contract!NoRow = NoRow /\ Contract!Error = Error
      /\ Contract!EmptyBag = EmptyBag /\ EmptyBag' = EmptyBag
  BY DEF Contract!NoRow, NoRow, Contract!Error, Error,
         Contract!EmptyBag, EmptyBag, Contract!SetToBag, SetToBag
<1>2. \A r, rec : Contract!Apply(r, rec) = Apply(r, rec)
  BY DEF Contract!Apply, Apply, Contract!ClaimRow, ClaimRow, Contract!CommitRow,
         CommitRow, Contract!ReleaseRow, ReleaseRow, Contract!BeatRow, BeatRow,
         Contract!Owns, Owns, Contract!NoRow, NoRow
<1>3. \A r, rec : Contract!Answer(r, rec) = Answer(r, rec)
  BY DEF Contract!Answer, Answer, Contract!Fresh, Fresh, Contract!Existing, Existing,
         Contract!Read, Read, Contract!Renewed, Renewed, Contract!Owns, Owns,
         Contract!Done, Done
<1> QED
  BY <1>1, <1>2, <1>3

\* No call has left a transaction open while the write lock is free, or is held by
\* the process of a thread that is in a transaction.
LEMMA NoneLeftOpen ==
    /\ writer = None \/ (\E t \in Threads : writer = Home[t] /\ pc[t] \in InTransaction)
          => LeftOpen = [t \in Threads |-> None]
    /\ writer' = None \/ (\E t \in Threads : writer' = Home[t] /\ pc'[t] \in InTransaction)
          => LeftOpen' = [t \in Threads |-> None]
<1>1. \A t \in Threads : Home[t] # None
  BY HomeAssumption, NoneIsNoneOfThese
<1> QED
  BY <1>1 DEF LeftOpen, Sharers

\* What a call left open stays as it is while no thread enters or leaves a
\* transaction and none is written in, begun or ended.
LEMMA SameLeftOpen ==
    ASSUME UNCHANGED <<tx, writer>>,
           \A t \in Threads : pc'[t] \in InTransaction <=> pc[t] \in InTransaction
    PROVE  UNCHANGED LeftOpen
BY DEF LeftOpen, Sharers

\* A statement that raises leaves the transaction of its call open, in which the
\* operation took place or did not yet, or closes one that it found open.
LEMMA FailureLeavesOpen ==
    ASSUME Inv, NEW t \in Threads, StatementFails(t)
    PROVE  Contract!LeavesOpen(t)
<1> USE DEF Inv
<1>p. /\ pc \in [Threads -> {"idle", "lock", "read", "begin", "insert", "rollback",
                             "select", "exists", "write", "end"}]
      /\ \A u \in Threads : Home[u] # None
      /\ pc' = [pc EXCEPT ![t] = "idle"] /\ pc[t] \notin {"idle", "lock"}
      /\ "idle" \notin InTransaction
  <2>1. \A u \in Threads : Home[u] # None
    BY HomeAssumption, NoneIsNoneOfThese
  <2>2. pc' = [pc EXCEPT ![t] = "idle"] /\ pc[t] \in InTransaction \cup {"select", "read"}
    BY DEF StatementFails, Leave
  <2> QED
    BY <2>1, <2>2 DEF TypeOK, InTransaction
<1> DEFINE Opens(rec) == [u \in Threads |-> IF u \in Sharers[t] THEN rec ELSE LeftOpen[u]]
<1>0. ASSUME NEW rec \in {None, db, Apply(req[t], db)}, LeftOpen' = Opens(rec)
      PROVE  Contract!LeavesOpen(t)
  BY <1>0, SameOperations DEF Contract!LeavesOpen
<1>1. CASE pc[t] \notin InTransaction /\ UNCHANGED <<tx, writer>>
  <2>1. UNCHANGED LeftOpen
    BY <1>1, <1>p, SameLeftOpen
  <2> QED
    BY <2>1 DEF Contract!LeavesOpen
<1>2. CASE writer = Home[t] /\ writer' = None
  <2>1. LeftOpen' = [u \in Threads |-> None]
    BY <1>2, NoneLeftOpen
  <2>2. \A u \in Threads \ Sharers[t] : LeftOpen[u] = None
    BY <1>2 DEF LeftOpen, Sharers
  <2>3. LeftOpen' = Opens(None)
    BY <2>1, <2>2
  <2> QED
    BY <2>3, <1>0
<1>3. CASE pc[t] \in InTransaction /\ UNCHANGED <<tx, writer>>
  <2>1. writer = Home[t] /\ tx \in {db, Apply(req[t], db)}
    BY <1>3 DEF TxInv, InTx
  <2>2. \A u \in Threads : pc'[u] \notin InTransaction
    <3>1. \A u \in Threads \ {t} : pc[u] \notin InTransaction
      BY <1>p, <2>1, Alone
    <3> QED
      BY <1>p, <3>1
  <2>3. LeftOpen = [u \in Threads |-> None]
    BY <1>3, <2>1, NoneLeftOpen
  <2>4. LeftOpen' = [u \in Threads |-> IF u \in Sharers[t] THEN tx ELSE None]
    BY <1>3, <2>1, <2>2 DEF LeftOpen, Sharers
  <2>5. LeftOpen' = Opens(tx)
    BY <2>3, <2>4
  <2> QED
    BY <1>0, <2>1, <2>5
<1> QED
  BY <1>1, <1>2, <1>3 DEF StatementFails

\* A call that raises leaves the record alone.
LEMMA FailsIsFails ==
    ASSUME Inv, NEW t \in Threads, pc[t] # "idle", Leave(t, Error), UNCHANGED db,
           Contract!LeavesOpen(t)
    PROVE  Contract!Fails(t)
<1>1. req[t] # None
  BY DEF Inv, CallInv
<1>2. Contract!Answered(t, Error)
  BY <1>1 DEF Contract!Answered, Leave
<1> QED
  BY <1>2, SameOperations DEF Contract!Fails, Contract!GivesUp

\* A call that answers what the record was, and did to it what it should, took
\* place there and then.
LEMMA TakesPlaceNow ==
    ASSUME Inv, NEW t \in Threads, pc[t] # "idle",
           Leave(t, Answer(req[t], db)), db' = Apply(req[t], db), UNCHANGED LeftOpen
    PROVE  Contract!TakesPlace(t)
<1>1. req[t] # None
  BY DEF Inv, CallInv
<1>2. Contract!Answered(t, Answer(req[t], db))
  BY <1>1 DEF Contract!Answered, Leave
<1> QED
  BY <1>2, SameOperations DEF Contract!TakesPlace, Contract!HasTakenPlace

\* COMMIT is where a call that writes takes place,
LEMMA EndTakesPlace ==
    ASSUME Inv, NEW t \in Threads, End(t)
    PROVE  Contract!TakesPlace(t)
<1> USE DEF Inv
<1>1. /\ pc[t] = "end" /\ db' = tx /\ tx = Apply(req[t], db)
      /\ req[t].op = "claim" => db.state = "fresh"
  BY DEF End, TxInv, InTx
<1>2. /\ req[t].op \in {"claim", "commit", "release", "heartbeat"} /\ db \in Rows
      /\ UNCHANGED LeftOpen
  <2>1. req[t].op # "get" /\ writer = Home[t] /\ writer' = None
    BY <1>1 DEF CallInv, TxInv, InTx, InTransaction, End
  <2>2. LeftOpen = [u \in Threads |-> None] /\ LeftOpen' = [u \in Threads |-> None]
    BY <1>1, <2>1, NoneLeftOpen DEF InTransaction
  <2> QED
    BY <1>1, <2>1, <2>2, RequestType DEF TypeOK
<1>3. CASE req[t].op = "claim"
  <2>1. Leave(t, Fresh(req[t].tok)) /\ Answer(req[t], db) = Fresh(req[t].tok)
    BY <1>1, <1>3 DEF End, Answer
  <2> QED
    BY <1>1, <1>2, <2>1, TakesPlaceNow
<1>4. CASE req[t].op = "heartbeat"
  <2>1. tx = BeatRow(db, req[t].tok, 2)
    BY <1>1, <1>4 DEF Apply
  <2>2. Owns(tx, req[t].tok) = Owns(db, req[t].tok)
    BY <1>2, <2>1, OwnsAfterBeat
  <2>3. Leave(t, Renewed(Owns(tx, req[t].tok)))
    BY <1>4 DEF End
  <2>4. Answer(req[t], db) = Renewed(Owns(db, req[t].tok))
    BY <1>4 DEF Answer
  <2> QED
    BY <1>1, <1>2, <2>2, <2>3, <2>4, TakesPlaceNow
<1>5. CASE req[t].op \in {"commit", "release"}
  <2>1. Leave(t, Done) /\ Answer(req[t], db) = Done
    BY <1>5 DEF End, Answer
  <2> QED
    BY <1>1, <1>2, <2>1, TakesPlaceNow
<1> QED
  BY <1>2, <1>3, <1>4, <1>5

\* and the SELECT where a claim that only reads does.
LEMMA SelectTakesPlace ==
    ASSUME Inv, NEW t \in Threads, Select(t)
    PROVE  \/ Contract!TakesPlace(t) \/ Contract!Fails(t)
           \/ UNCHANGED <<db, req, ans, LeftOpen>>
<1>1. pc[t] = "select" /\ req[t].op = "claim" /\ db' = db
  BY DEF Select, Inv, CallInv
<1>4. UNCHANGED LeftOpen
  <2>1. pc'[t] \notin InTransaction /\ \A u \in Threads \ {t} : pc'[u] = pc[u]
    BY DEF Select, Leave, Inv, TypeOK, InTransaction
  <2> QED
    BY <1>1, <2>1, SameLeftOpen DEF Select, InTransaction
<1>2. CASE db.state # "fresh"
  <2>1. /\ Leave(t, Existing(db)) /\ Answer(req[t], db) = Existing(db)
        /\ db' = Apply(req[t], db)
    BY <1>1, <1>2 DEF Select, Answer, Apply, ClaimRow
  <2> QED
    BY <1>1, <1>4, <2>1, TakesPlaceNow
<1>3. CASE Leave(t, Error)
  BY <1>1, <1>3, <1>4, FailsIsFails DEF Contract!LeavesOpen
<1> QED
  BY <1>1, <1>2, <1>3, <1>4 DEF Select

\* A get answers what is committed, or what a call that raised left open.
LEMMA GetTakesPlace ==
    ASSUME Inv, NEW t \in Threads, Get(t)
    PROVE  Contract!TakesPlace(t) \/ Contract!Peeks(t)
<1> USE DEF Inv
<1>1. /\ pc[t] = "read" /\ req[t].op = "get" /\ req[t] # None /\ db' = db
      /\ tx \in Rows /\ tx # None
  BY NoneIsNoneOfThese DEF Get, CallInv, TypeOK
<1>2. UNCHANGED LeftOpen
  <2>1. pc'[t] \notin InTransaction /\ \A u \in Threads \ {t} : pc'[u] = pc[u]
    BY DEF Get, Leave, TypeOK, InTransaction
  <2> QED
    BY <1>1, <2>1, SameLeftOpen DEF Get, InTransaction
<1>3. CASE writer = Home[t]
  <2>1. \A u \in Threads : pc[u] \notin InTransaction
    BY <1>1, <1>3, Alone DEF InTransaction
  <2>2. LeftOpen[t] = tx
    BY <1>3, <2>1 DEF LeftOpen, Sharers
  <2>3. Contract!Answered(t, Read(tx))
    BY <1>1, <1>3 DEF Get, Leave, Contract!Answered
  <2> QED
    BY <1>1, <1>2, <2>2, <2>3 DEF Contract!Peeks, Contract!Read, Read
<1>4. CASE writer # Home[t]
  <2>1. /\ Leave(t, Answer(req[t], db)) /\ db' = Apply(req[t], db)
    BY <1>1, <1>4 DEF Get, Answer, Apply
  <2> QED
    BY <1>1, <1>2, <2>1, TakesPlaceNow
<1> QED
  BY <1>3, <1>4

\* A process that dies in the middle of its calls leaves the record alone.
LEMMA CrashIsDies ==
    ASSUME NEW p \in Processes, Crash(p)
    PROVE  \E T \in SUBSET Threads : Contract!Dies(T)
<1> DEFINE T == {t \in Threads : Home[t] = p}
<1>1. LeftOpen' = [t \in Threads |-> IF t \in T THEN None ELSE LeftOpen[t]]
  <2>1. \A t \in Threads : Home[t] # None
    BY HomeAssumption, NoneIsNoneOfThese
  <2>2. \A t \in T : writer' # Home[t]
    BY <2>1 DEF Crash
  <2>3. \A t \in Threads \ T : /\ writer' = Home[t] <=> writer = Home[t]
                               /\ writer = Home[t] => tx' = tx
                               /\ \A u \in Sharers[t] : pc'[u] = pc[u]
    BY <2>1 DEF Crash, Sharers
  <2> QED
    BY <2>2, <2>3 DEF LeftOpen
<1>2. Contract!Dies(T)
  BY <1>1 DEF Crash, Contract!Dies
<1> QED
  BY <1>2

\* Every step is a step of the contract, or one that the callers do not see.
LEMMA StepImplements ==
    ASSUME Inv, [Next]_vars
    PROVE  [Contract!Next]_(Contract!vars)
<1>u. ASSUME UNCHANGED <<db, req, ans, LeftOpen>> PROVE UNCHANGED Contract!vars
  BY <1>u DEF Contract!vars
<1>t. \A t \in Threads : pc[t] \in InTransaction => writer = Home[t]
  BY DEF Inv, TxInv, InTx
<1>1. ASSUME NEW t \in Threads, Call(t) PROVE Contract!Next
  <2>1. PICK op \in {"claim", "commit", "release", "heartbeat", "get"} :
           req' = [req EXCEPT ![t] = Request(t, op)]
    BY <1>1 DEF Call
  <2>2. Request(t, op) # None
    BY <1>1, RequestIsNotNone DEF Call, Inv
  <2>3. req'[t] = Request(t, op) /\ req[t] = None
    BY <1>1, <2>1 DEF Call, Inv, TypeOK, CallInv
  <2>5. UNCHANGED LeftOpen
    BY <1>1, SameLeftOpen DEF Call, Inv, TypeOK, InTransaction
  <2>4. Contract!Call(t, req'[t])
    BY <1>1, <2>1, <2>3, <2>5 DEF Call, Contract!Call
  <2> QED
    BY <2>2, <2>3, <2>4 DEF Contract!Next
<1>2. ASSUME NEW t \in Threads,
             Lock(t) \/ Begin(t) \/ Insert(t) \/ Rollback(t) \/ Exists(t) \/ Write(t)
      PROVE  UNCHANGED <<db, req, ans, LeftOpen>>
  <2>1. CASE Lock(t)
    BY <2>1, SameLeftOpen DEF Lock, Inv, TypeOK, InTransaction
  <2>2. CASE Begin(t)
    <3>1. pc'[t] \in InTransaction
      BY <2>2 DEF Begin, FirstStatement, Inv, TypeOK, InTransaction
    <3> QED
      BY <2>2, <3>1, NoneLeftOpen DEF Begin, MayBegin
  <2>3. CASE Insert(t) \/ Exists(t) \/ Write(t)
    <3>1. pc[t] \in InTransaction /\ pc'[t] \in InTransaction
      BY <2>3 DEF Insert, Exists, Write, Inv, TypeOK, InTransaction
    <3>2. writer = Home[t] /\ writer' = Home[t]
      BY <1>t, <2>3, <3>1 DEF Insert, Exists, Write
    <3>3. UNCHANGED LeftOpen
      BY <3>1, <3>2, NoneLeftOpen
    <3> QED
      BY <2>3, <3>3 DEF Insert, Exists, Write
  <2>4. CASE Rollback(t)
    <3>1. pc[t] \in InTransaction
      BY <2>4 DEF Rollback, InTransaction
    <3> QED
      BY <1>t, <2>4, <3>1, NoneLeftOpen DEF Rollback
  <2> QED
    BY <1>2, <2>1, <2>2, <2>3, <2>4
<1>3. ASSUME NEW t \in Threads, BeginFails(t) \/ StatementFails(t)
      PROVE  Contract!Next
  <2>1. Contract!LeavesOpen(t)
    <3>1. CASE BeginFails(t)
      <4>1. UNCHANGED LeftOpen
        BY <3>1, SameLeftOpen DEF BeginFails, Leave, Inv, TypeOK, InTransaction
      <4> QED
        BY <4>1 DEF Contract!LeavesOpen
    <3> QED
      BY <1>3, <3>1, FailureLeavesOpen
  <2>2. Contract!Fails(t)
    BY <1>3, <2>1, FailsIsFails DEF BeginFails, StatementFails, InTransaction
  <2> QED
    BY <2>2 DEF Contract!Next
<1>4. ASSUME NEW t \in Threads, Select(t) \/ End(t) \/ Get(t)
      PROVE  Contract!Next \/ UNCHANGED <<db, req, ans, LeftOpen>>
  <2>1. \/ Contract!TakesPlace(t) \/ Contract!Peeks(t) \/ Contract!Fails(t)
        \/ UNCHANGED <<db, req, ans, LeftOpen>>
    BY <1>4, SelectTakesPlace, EndTakesPlace, GetTakesPlace
  <2> QED
    BY <2>1 DEF Contract!Next
<1>5. ASSUME NEW p \in Processes, Crash(p) PROVE Contract!Next
  BY <1>5, CrashIsDies DEF Contract!Next
<1>6. CASE UNCHANGED vars
  BY <1>6, <1>u DEF vars, LeftOpen
<1> QED
  BY <1>u, <1>1, <1>2, <1>3, <1>4, <1>5, <1>6 DEF Next, Step, Terminating

-----------------------------------------------------------------------------
(***************************************************************************)
(* The theorems.                                                           *)
(***************************************************************************)
\* The inductive invariant holds.
LEMMA InvAlways == Spec => []Inv
<1>1. Init => Inv
  <2> SUFFICES ASSUME Init PROVE Inv
    OBVIOUS
  <2>1. CallInv /\ LockInv /\ TxInv
    BY DEF Init, CallInv, LockInv, TxInv, InTx, InTransaction
  <2> QED
    BY <2>1, InitType DEF Inv
<1>2. Inv /\ [Next]_vars => Inv'
  BY NextType, NextCall, NextLock, NextTx DEF Inv
<1> QED
  BY <1>1, <1>2, PTL DEF Spec

\* Whatever fails and whoever dies, the record is one a record can be, and the
\* claim loop never goes past its last attempt.
THEOREM TypeCorrect == Spec => []TypeOK
<1>1. Inv => TypeOK
  BY DEF Inv
<1> QED
  BY <1>1, InvAlways, PTL

\* The statements of the SQLite adapter implement the Store contract: every
\* call takes place at one instant, or raises and leaves the record as it was; only
\* a get on a connection with a transaction that a call left open sees what is in it.
THEOREM StoreImplemented == Spec => ImplementsStore
<1>1. Init => Contract!Init
  BY SameOperations, NoneLeftOpen DEF Init, Contract!Init
<1>2. Inv /\ [Next]_vars => [Contract!Next]_(Contract!vars)
  BY StepImplements
<1> QED
  BY <1>1, <1>2, InvAlways, PTL DEF Spec, ImplementsStore, Contract!Spec

-----------------------------------------------------------------------------
(***************************************************************************)
(* What the callers rely on.                                               *)
(***************************************************************************)
\* No operation changes a committed record, and only a release, with its token
\* or with none, deletes one in flight.
LEMMA ApplyKeeps ==
    ASSUME NEW r, NEW rec \in Rows, r.op \in {"claim", "commit", "release", "heartbeat", "get"}
    PROVE  /\ rec.state = "committed" => Apply(r, rec) = rec
           /\ rec.state = "in_flight" /\ Apply(r, rec).state = "fresh"
                 => r.op = "release" /\ r.tok \in {None, rec.token}
<1>1. CASE r.op = "heartbeat"
  <2>1. Apply(r, rec) = BeatRow(rec, r.tok, 2)
    BY <1>1 DEF Apply
  <2>2. BeatRow(rec, r.tok, 2).state = rec.state
    BY SMTT(30) DEF BeatRow, Rows, RowsOf
  <2> QED
    BY <2>1, <2>2 DEF BeatRow, Owns
<1>2. CASE r.op \in {"claim", "commit", "release"}
  BY <1>2 DEF Apply, ClaimRow, CommitRow, ReleaseRow
<1>3. CASE r.op = "get"
  BY <1>3 DEF Apply
<1> QED
  BY <1>1, <1>2, <1>3

\* What changes the record is an operation that some thread asked for.
LEMMA RecordStep ==
    ASSUME Inv, [Next]_vars, db' # db
    PROVE  \E t \in Threads : req[t] # None /\ db' = Apply(req[t], db)
<1>1. Contract!Next
  BY StepImplements DEF Contract!vars
<1>2. ~Contract!Expires /\ \A r \in BagToSet(EmptyBag) : ~Contract!Strays(r)
  BY DEF Contract!Expires, Contract!Strays, BagToSet, EmptyBag, SetToBag
<1>3. \A r \in Contract!BagToSet(EmptyBag) : ~Contract!Strays(r)
  BY DEF Contract!BagToSet, EmptyBag, SetToBag
<1>4. PICK t \in Threads :
         /\ Contract!TakesPlace(t) \/ Contract!Happens(t) \/ Contract!Fails(t)
  BY <1>1, <1>2, <1>3
  DEF Contract!Next, Contract!Call, Contract!Looks, Contract!Drops, Contract!Returns,
      Contract!Resends, Contract!Dies, Contract!Peeks
<1>5. req[t] # None /\ db' = Contract!Apply(req[t], db)
  BY <1>4 DEF Contract!TakesPlace, Contract!Happens, Contract!Fails, Contract!Answered
<1> QED
  BY <1>5, SameOperations

\* A result that was stored stays, whatever call, retry, failure or crash comes
\* after it (commit "MUST be idempotent", src/src/exactly_once/stores/base.py:104-108).
THEOREM ResultKept == Spec => [][db.state = "committed" => db' = db]_vars
<1> DEFINE Kept == db.state = "committed" => db' = db
<1>1. ASSUME Inv, [Next]_vars PROVE Kept
  <2>1. ASSUME NEW t \in Threads, req[t] # None, db' = Apply(req[t], db) PROVE Kept
    <3>1. pc[t] # "idle" /\ db \in Rows
      BY <1>1, <2>1 DEF Inv, CallInv, TypeOK
    <3> QED
      BY <1>1, <2>1, <3>1, RequestType, ApplyKeeps DEF Inv
  <2> QED
    BY <1>1, <2>1, RecordStep
<1>2. Inv /\ [Next]_vars => [Kept]_vars
  BY <1>1
<1> QED
  BY <1>2, InvAlways, PTL DEF Spec

\* A claim is never lost: a record in flight disappears only while a release is
\* under way that names its token or none, however the calls interleave.
THEOREM ClaimKept ==
    Spec => [][db.state = "in_flight" /\ db'.state = "fresh" =>
                  \E t \in Threads : /\ req[t] # None /\ req[t].op = "release"
                                     /\ req[t].tok \in {None, db.token}]_vars
<1> DEFINE Released == \E t \in Threads : /\ req[t] # None /\ req[t].op = "release"
                                          /\ req[t].tok \in {None, db.token}
           Justified == db.state = "in_flight" /\ db'.state = "fresh" => Released
<1>1. ASSUME Inv, [Next]_vars PROVE Justified
  <2>1. ASSUME NEW t \in Threads, req[t] # None, db' = Apply(req[t], db) PROVE Justified
    <3>1. pc[t] # "idle" /\ db \in Rows
      BY <1>1, <2>1 DEF Inv, CallInv, TypeOK
    <3> QED
      BY <1>1, <2>1, <3>1, RequestType, ApplyKeeps DEF Inv
  <2> QED
    BY <1>1, <2>1, RecordStep
<1>2. Inv /\ [Next]_vars => [Justified]_vars
  BY <1>1
<1> QED
  BY <1>2, InvAlways, PTL DEF Spec

\* Only a claim on no record answers FRESH, and creates the record with the
\* token it answers.
LEMMA FreshAnswer ==
    ASSUME NEW r, NEW rec, NEW tok, Answer(r, rec) = Fresh(tok),
           r.op \in {"claim", "commit", "release", "heartbeat", "get"}
    PROVE  /\ rec.state = "fresh"
           /\ Apply(r, rec).state = "in_flight" /\ Apply(r, rec).token = tok
<1>1. /\ Fresh(tok)[1] = "claim" /\ Fresh(tok)[2] = "fresh" /\ Fresh(tok)[3] = tok
      /\ Done[1] = "done" /\ Read(rec)[1] = "get" /\ Renewed(Owns(rec, r.tok))[1] = "heartbeat"
      /\ Existing(rec)[2] = rec.state /\ Fresh(r.tok)[3] = r.tok
  BY DEF Fresh, Done, Renewed, Existing, Read
<1>2. r.op = "claim" /\ rec.state = "fresh"
  BY <1>1 DEF Answer
<1>3. tok = r.tok
  BY <1>1, <1>2 DEF Answer
<1> QED
  BY <1>2, <1>3 DEF Apply, ClaimRow

\* A caller that is answered FRESH is the one whose token the record carries
\* from that instant on, and the key had no record before: with ClaimKept, at most
\* one of concurrent claims sees FRESH until that claim is released
\* ("exactly one caller sees FRESH", src/src/exactly_once/stores/base.py:50).
THEOREM FreshIsOwner ==
    Spec => [][\A t \in Threads, tok \in Tokens :
                  ans'[t] = Fresh(tok) /\ ans'[t] \notin {ans[t], None} =>
                     /\ db.state = "fresh"
                     /\ db'.state = "in_flight" /\ db'.token = tok]_vars
<1> DEFINE Owner == \A t \in Threads, tok \in Tokens :
                       ans'[t] = Fresh(tok) /\ ans'[t] \notin {ans[t], None} =>
                          /\ db.state = "fresh"
                          /\ db'.state = "in_flight" /\ db'.token = tok
<1>1. ASSUME Inv, [Next]_vars PROVE Owner
  <2> SUFFICES ASSUME NEW t \in Threads, NEW tok \in Tokens,
                      ans'[t] = Fresh(tok), ans'[t] \notin {ans[t], None}
               PROVE  /\ db.state = "fresh"
                      /\ db'.state = "in_flight" /\ db'.token = tok
    OBVIOUS
  <2>0. /\ ans'[t] # Error /\ ans \in [Threads -> Answers]
        /\ \A u \in Threads : ~Contract!HasTakenPlace(u)
    BY <1>1 DEF Fresh, Error, Inv, TypeOK, Contract!HasTakenPlace
  <2>1. Contract!Next
    BY <1>1, StepImplements DEF Contract!vars
  <2>2. ASSUME NEW u \in Threads, NEW a, Contract!Answered(u, a) PROVE u = t /\ a = ans'[t]
    BY <2>0, <2>2 DEF Contract!Answered
  <2>3. ~Contract!Fails(t) /\ ~Contract!Returns(t)
    BY <2>0, <2>2, SameOperations DEF Contract!Fails, Contract!Returns
  <2>4. Contract!TakesPlace(t)
    <3>1. \A r \in Contract!BagToSet(EmptyBag) : ~Contract!Strays(r)
      BY DEF Contract!BagToSet, EmptyBag, SetToBag
    <3>2. ~Contract!Expires
      BY DEF Contract!Expires
    <3>3. \A u \in Threads : /\ ~Contract!Call(u, req'[u]) /\ ~Contract!Happens(u)
                             /\ ~Contract!Looks(u) /\ ~Contract!Drops(u)
                             /\ ~Contract!Resends(u)
      BY <2>0 DEF Contract!Call, Contract!Happens, Contract!Looks, Contract!Drops,
                  Contract!Resends
    <3>4. \A T \in SUBSET Threads : ~Contract!Dies(T)
      BY DEF Contract!Dies
    <3>7. \A u \in Threads : ~Contract!Peeks(u)
      <4> SUFFICES ASSUME NEW u \in Threads, Contract!Peeks(u) PROVE FALSE
        OBVIOUS
      <4>1. ans'[t] = Contract!Read(LeftOpen[u])
        BY <2>2 DEF Contract!Peeks
      <4>2. Contract!Read(LeftOpen[u])[1] = "get" /\ Fresh(tok)[1] = "claim"
        BY DEF Contract!Read, Fresh
      <4> QED
        BY <4>1, <4>2
    <3>5. PICK u \in Threads :
             Contract!TakesPlace(u) \/ Contract!Returns(u) \/ Contract!Fails(u)
      BY <2>1, <3>1, <3>2, <3>3, <3>4, <3>7 DEF Contract!Next
    <3>6. u = t
      BY <2>2, <3>5 DEF Contract!TakesPlace, Contract!Returns, Contract!Fails
    <3> QED
      BY <2>3, <3>5, <3>6
  <2>5. /\ req[t] # None /\ Answer(req[t], db) = Fresh(tok)
        /\ db' = Apply(req[t], db)
    BY <2>2, <2>4, SameOperations DEF Contract!TakesPlace, Contract!Answered
  <2>6. req[t].op \in {"claim", "commit", "release", "heartbeat", "get"}
    BY <1>1, <2>5, RequestType DEF Inv, CallInv
  <2> QED
    BY <2>5, <2>6, FreshAnswer
<1>2. Inv /\ [Next]_vars => [Owner]_vars
  BY <1>1
<1> QED
  BY <1>2, InvAlways, PTL DEF Spec
=============================================================================
