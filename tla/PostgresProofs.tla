--------------------------- MODULE PostgresProofs ---------------------------
(***************************************************************************)
(* Theorems about PostgresStore, for any number of threads, processes,     *)
(* calls, retries and failures: the types, that a claim finds the record   *)
(* it ran into, and that the adapter implements the Store contract.        *)
(***************************************************************************)
EXTENDS PostgresStore, TLAPS

-----------------------------------------------------------------------------
(***************************************************************************)
(* The invariants.                                                         *)
(***************************************************************************)
\* A thread is in a call from its request to its answer, executes the
\* statements of that call only, and has an attempt left.
CallInv ==
    \A t \in Threads :
       /\ pc[t] = "idle" <=> req[t] = None
       /\ pc[t] \in {"insert", "select"} => req[t].op = "claim"
       /\ pc[t] = "upsert" => req[t].op = "commit"
       /\ pc[t] = "change" => req[t].op \in {"release", "heartbeat"}
       /\ pc[t] # "idle" => tries[t] < MaxRetries

\* A thread that executes statements holds the lock of its process.
LockInv == \A t \in Threads : pc[t] \notin {"idle", "lock"} => lock[Home[t]] = t

\* A snapshot belongs to a thread in a transaction and holds the record unless
\* it is stale; at most one transaction has written.
SnapOf(p) ==
    /\ snap[p] # None => \E t \in Threads : Home[t] = p /\ pc[t] \in InTransaction
    /\ wrote[p] # None \/ stale[p] => snap[p] # None
    /\ snap[p] # None /\ ~stale[p] => snap[p] = db
    /\ \A q \in Processes : wrote[p] # None /\ wrote[q] # None => p = q

SnapInv == \A p \in Processes : SnapOf(p)

\* A call whose transaction wrote nothing has no more to do on its snapshot;
\* one that wrote did the whole operation on the record as it is now.
ReadOnly(t) ==
    LET s == snap[Home[t]] IN
    Apply(req[t], s) = s /\ Result(req[t], s, FALSE) = Answer(req[t], s)

Wrote(t, rec) ==
    /\ rec = Apply(req[t], db)
    /\ Result(req[t], snap[Home[t]], TRUE) = Answer(req[t], db)

InTx(t) ==
    LET p == Home[t] IN
    /\ pc[t] \in InTransaction => snap[p] # None
    /\ pc[t] \in InTransaction \ {"end"} => wrote[p] = None
    /\ pc[t] = "select" => snap[p].state # "fresh"
    /\ pc[t] = "end" /\ wrote[p] = None => ReadOnly(t)
    /\ pc[t] = "end" /\ wrote[p] # None => Wrote(t, wrote[p])

TxInv == \A t \in Threads : InTx(t)

Inv == TypeOK /\ CallInv /\ LockInv /\ SnapInv /\ TxInv

-----------------------------------------------------------------------------
(***************************************************************************)
(* The record, the requests and the answers.                               *)
(***************************************************************************)
\* No record is a record.
LEMMA NoRowType == NoRow \in Rows
BY DEF NoRow, Rows, RowsOf, States

\* An operation makes a record of a record.
LEMMA ApplyType ==
    ASSUME NEW r \in Requests, NEW rec \in Rows
    PROVE  Apply(r, rec) \in Rows
<1>0. /\ r.op \in {"claim", "commit", "release", "heartbeat"}
      /\ r.tok \in Tokens \cup {None} /\ r.res \in Threads \cup {None}
  BY DEF Requests
<1>1. ClaimRow(rec, r.tok, None, 1) \in Rows
  BY <1>0, SMTT(30) DEF ClaimRow, Rows, RowsOf, States
<1>2. CommitRow(rec, r.res) \in Rows
  BY <1>0, SMTT(30) DEF CommitRow, Rows, RowsOf, States
<1>3. ReleaseRow(rec, r.tok) \in Rows
  BY <1>0, SMTT(30), NoRowType DEF ReleaseRow
<1>4. BeatRow(rec, r.tok, 2) \in Rows
  BY <1>0, SMTT(30) DEF BeatRow, Rows, RowsOf, States
<1> QED
  BY <1>0, <1>1, <1>2, <1>3, <1>4 DEF Apply

\* What a thread in a call asks for.
LEMMA RequestType ==
    ASSUME TypeOK, CallInv, NEW t \in Threads, pc[t] # "idle"
    PROVE  /\ req[t] \in Requests /\ req[t] # None
           /\ req[t].op \in {"claim", "commit", "release", "heartbeat"}
           /\ req[t].tok \in Tokens \cup {None} /\ req[t].res \in Threads \cup {None}
<1>1. req[t] \in Requests /\ req[t] # None
  BY DEF TypeOK, CallInv
<1> QED
  BY <1>1 DEF Requests

\* A call asks for something.
LEMMA CallRequests ==
    ASSUME TypeOK, NEW t \in Threads, NEW op \in {"claim", "commit", "release", "heartbeat"},
           calls[t] < MaxCalls[t]
    PROVE  Request(t, op) \in Requests /\ Request(t, op) # None
<1>1. <<t, calls[t] + 1>> \in {t} \X (1 .. MaxCalls[t])
  BY BoundsAssumption DEF TypeOK
<1>2. <<t, calls[t] + 1>> \in Tokens
  BY <1>1, Zenon DEF Tokens
<1>3. Request(t, op) \in Requests
  BY <1>2 DEF Request, Requests, TypeOK
<1> QED
  BY <1>3, NoneIsNoneOfThese

\* What a transaction answers, and what the contract would, is an answer, not
\* None, and not the exception of a serialization failure.
LEMMA AnswerType ==
    ASSUME NEW r \in Requests, NEW rec \in Rows, NEW b \in BOOLEAN
    PROVE  /\ Result(r, rec, b) \in Answers \ {None, Contention}
           /\ Answer(r, rec) \in Answers \ {None, Contention}
           /\ Answer(r, rec)[1] # "did"
<1>0. /\ r.op \in {"claim", "commit", "release", "heartbeat"}
      /\ r.tok \in Tokens \cup {None}
      /\ rec.state \in States /\ "fresh" \in States
      /\ rec.token \in Tokens \cup {None} /\ rec.result \in Threads \cup {None}
  BY DEF Requests, Rows, RowsOf, States
<1>1. \A a \in Answers : a # None
  BY NoneIsNoneOfThese
<1>2. /\ Fresh(r.tok) \in Answers /\ Existing(rec) \in Answers /\ Done \in Answers
      /\ \A c \in BOOLEAN : Renewed(c) \in Answers
  BY <1>0 DEF Fresh, Existing, Renewed, Answers
<1>3. /\ Fresh(r.tok)[1] = "claim" /\ Existing(rec)[1] = "claim" /\ Done[1] = "done"
      /\ \A c \in BOOLEAN : Renewed(c)[1] = "heartbeat"
      /\ Contention[1] = "contention"
  BY DEF Fresh, Existing, Renewed, Done, Contention
<1>4. Owns(rec, r.tok) \in BOOLEAN
  BY DEF Owns
<1>5. /\ Result(r, rec, b) \in {Fresh(r.tok), Existing(rec), Done, Renewed(b)}
      /\ Answer(r, rec) \in {Fresh(r.tok), Existing(rec), Done, Renewed(Owns(rec, r.tok))}
  BY <1>0 DEF Result, Answer
<1>6. \A a \in {Fresh(r.tok), Existing(rec), Done, Renewed(b), Renewed(Owns(rec, r.tok))} :
         a \in Answers \ {None} /\ a[1] \in {"claim", "done", "heartbeat"}
  BY <1>1, <1>2, <1>3, <1>4
<1> QED
  BY <1>3, <1>5, <1>6

-----------------------------------------------------------------------------
(***************************************************************************)
(* What a statement does.                                                  *)
(***************************************************************************)
\* In a transaction the snapshot is a record, the present one unless stale.
LEMMA InTransactionFacts ==
    ASSUME Inv, NEW t \in Threads, pc[t] \in InTransaction
    PROVE  /\ Home[t] \in Processes /\ pc[t] \notin {"idle", "lock", "begin"}
           /\ snap[Home[t]] \in Rows
           /\ ~stale[Home[t]] => snap[Home[t]] = db
           /\ pc[t] # "end" => wrote[Home[t]] = None
           /\ req[t] \in Requests
<1>1. Home[t] \in Processes /\ pc[t] \notin {"idle", "lock", "begin"}
  BY HomeAssumption DEF InTransaction
<1>2. snap[Home[t]] # None /\ (pc[t] # "end" => wrote[Home[t]] = None)
  BY DEF Inv, TxInv, InTx
<1> QED
  BY <1>1, <1>2, RequestType DEF Inv, TypeOK, SnapInv, SnapOf

\* What remains of the transaction of t when it goes on at `next' after it wrote
\* rec, or None.
Did(t, rec, next) ==
    /\ next \in {"select", "end"} /\ rec \in Rows \cup {None}
    /\ rec # None => next = "end" /\ ~Blocked(Home[t]) /\ Wrote(t, rec)
    /\ rec = None /\ next = "end" => ReadOnly(t)
    /\ next = "select" =>
          rec = None /\ req[t].op = "claim" /\ snap[Home[t]].state # "fresh"

\* INSERT: a claim that ran into a record in its snapshot will read it there.
LEMMA InsertDoes ==
    ASSUME Inv, NEW t \in Threads, Insert(t)
    PROVE  \/ Retry(t) /\ UNCHANGED faults
           \/ \E rec, next : Did(t, rec, next) /\ Executed(t, rec, next)
<1> DEFINE p == Home[t]
           rec == ClaimRow(db, req[t].tok, None, 1)
<1>1. pc[t] \in InTransaction /\ req[t].op = "claim" /\ ~Blocked(p)
  BY DEF Insert, InTransaction, Inv, CallInv
<1>2. snap[p] \in Rows /\ req[t] \in Requests /\ (~stale[p] => snap[p] = db) /\ db \in Rows
  BY <1>1, InTransactionFacts DEF Inv, TypeOK
<1>3. CASE db.state = "fresh" /\ Executed(t, rec, "end")
  <2>1. rec = Apply(req[t], db)
    BY <1>1 DEF Apply
  <2>2. Result(req[t], snap[p], TRUE) = Answer(req[t], db)
    BY <1>1, <1>3 DEF Result, Answer
  <2>3. rec \in Rows /\ rec # None
    BY <1>2, <2>1, ApplyType, NoneIsNoneOfThese
  <2>4. Did(t, rec, "end")
    BY <1>1, <2>1, <2>2, <2>3 DEF Did, Wrote
  <2> QED
    BY <1>3, <2>4
<1>4. CASE db.state # "fresh" /\ ~TooNew(p) /\ Executed(t, None, "select")
  <2>1. snap[p].state # "fresh"
    BY <1>2, <1>4 DEF TooNew
  <2>2. Did(t, None, "select")
    BY <1>1, <2>1 DEF Did
  <2> QED
    BY <1>4, <2>2
<1> QED
  BY <1>3, <1>4 DEF Insert

\* SELECT.
LEMMA SelectDoes ==
    ASSUME Inv, NEW t \in Threads, Select(t)
    PROVE  \E rec, next : Did(t, rec, next) /\ Executed(t, rec, next)
<1>1. req[t].op = "claim" /\ snap[Home[t]].state # "fresh"
  BY DEF Select, Inv, CallInv, TxInv, InTx
<1>2. ReadOnly(t)
  BY <1>1 DEF ReadOnly, Apply, ClaimRow, Result, Answer
<1>3. Did(t, None, "end")
  BY <1>2 DEF Did
<1> QED
  BY <1>3 DEF Select

\* The UPSERT of commit.
LEMMA UpsertDoes ==
    ASSUME Inv, NEW t \in Threads, Upsert(t)
    PROVE  \/ Retry(t) /\ UNCHANGED faults
           \/ \E rec, next : Did(t, rec, next) /\ Executed(t, rec, next)
<1> DEFINE p == Home[t]
           rec == CommitRow(db, req[t].res)
<1>1. pc[t] \in InTransaction /\ req[t].op = "commit" /\ ~Blocked(p)
  BY DEF Upsert, InTransaction, Inv, CallInv
<1>2. snap[p] \in Rows /\ req[t] \in Requests /\ (~stale[p] => snap[p] = db) /\ db \in Rows
  BY <1>1, InTransactionFacts DEF Inv, TypeOK
<1>3. CASE db.state # "committed" /\ Executed(t, rec, "end")
  <2>1. rec = Apply(req[t], db)
    BY <1>1 DEF Apply
  <2>2. Result(req[t], snap[p], TRUE) = Answer(req[t], db)
    BY <1>1 DEF Result, Answer
  <2>3. rec \in Rows /\ rec # None
    BY <1>2, <2>1, ApplyType, NoneIsNoneOfThese
  <2>4. Did(t, rec, "end")
    BY <1>1, <2>1, <2>2, <2>3 DEF Did, Wrote
  <2> QED
    BY <1>3, <2>4
<1>4. CASE db.state = "committed" /\ ~TooNew(p) /\ Executed(t, None, "end")
  <2>1. snap[p].state = "committed"
    BY <1>2, <1>4 DEF TooNew
  <2>2. ReadOnly(t)
    BY <1>1, <2>1 DEF ReadOnly, Apply, CommitRow, Result, Answer
  <2>3. Did(t, None, "end")
    BY <2>2 DEF Did
  <2> QED
    BY <1>4, <2>3
<1> QED
  BY <1>3, <1>4 DEF Upsert

\* The DELETE of release and the UPDATE of heartbeat.
LEMMA ChangeDoes ==
    ASSUME Inv, NEW t \in Threads, Change(t)
    PROVE  \/ Retry(t) /\ UNCHANGED faults
           \/ \E rec, next : Did(t, rec, next) /\ Executed(t, rec, next)
<1> DEFINE p == Home[t]
           rec == Changed(req[t], db)
<1>1. pc[t] \in InTransaction /\ req[t].op \in {"release", "heartbeat"}
  BY DEF Change, InTransaction, Inv, CallInv
<1>2. snap[p] \in Rows /\ req[t] \in Requests /\ (~stale[p] => snap[p] = db) /\ db \in Rows
  BY <1>1, InTransactionFacts DEF Inv, TypeOK
<1>3. CASE ~Matches(req[t], snap[p]) /\ Executed(t, None, "end")
  <2>1. ReadOnly(t)
    BY <1>1, <1>3 DEF Matches, ReadOnly, Apply, ReleaseRow, BeatRow, Owns, Result, Answer
  <2>2. Did(t, None, "end")
    BY <2>1 DEF Did
  <2> QED
    BY <1>3, <2>2
<1>4. CASE Matches(req[t], snap[p]) /\ ~Blocked(p) /\ ~stale[p] /\ Executed(t, rec, "end")
  <2>1. rec = Apply(req[t], db)
    BY <1>1, <1>2, <1>4 DEF Matches, Changed, Apply, ReleaseRow, BeatRow, Owns
  <2>2. Result(req[t], snap[p], TRUE) = Answer(req[t], db)
    BY <1>1, <1>2, <1>4 DEF Matches, Result, Answer, Owns
  <2>3. rec \in Rows /\ rec # None
    BY <1>2, <2>1, ApplyType, NoneIsNoneOfThese
  <2>4. Did(t, rec, "end")
    BY <1>4, <2>1, <2>2, <2>3 DEF Did, Wrote
  <2> QED
    BY <1>4, <2>4
<1> QED
  BY <1>3, <1>4 DEF Change

\* The steps of a thread, as the invariants see them.
LEMMA ThreadSteps ==
    ASSUME Inv, NEW t \in Threads,
           Call(t) \/ Step(t) \/ Unserializable(t) \/ StatementFails(t)
    PROVE  \/ Call(t) \/ Lock(t) \/ Begin(t) \/ End(t) \/ StatementFails(t)
           \/ /\ pc[t] \in InTransaction
              /\ Retry(t) /\ faults' \in 0 .. MaxFaults
           \/ /\ pc[t] \in InTransaction \ {"end"}
              /\ \E rec, next : Did(t, rec, next) /\ Executed(t, rec, next)
<1>1. faults \in 0 .. MaxFaults /\ MaxFaults \in Nat
  BY BoundsAssumption DEF Inv, TypeOK
<1>2. CASE Unserializable(t)
  BY <1>1, <1>2 DEF Unserializable
<1>3. CASE Insert(t) \/ Select(t) \/ Upsert(t) \/ Change(t)
  <2>1. pc[t] \in InTransaction \ {"end"}
    BY <1>3 DEF Insert, Select, Upsert, Change, InTransaction
  <2>2. \/ Retry(t) /\ UNCHANGED faults
        \/ \E rec, next : Did(t, rec, next) /\ Executed(t, rec, next)
    BY <1>3, InsertDoes, SelectDoes, UpsertDoes, ChangeDoes
  <2> QED
    BY <1>1, <2>1, <2>2
<1> QED
  BY <1>2, <1>3 DEF Step

-----------------------------------------------------------------------------
(***************************************************************************)
(* Type correctness, the calls and the locks.                              *)
(***************************************************************************)
\* Every step keeps the types.
LEMMA NextType == Inv /\ [Next]_vars => TypeOK'
<1> SUFFICES ASSUME Inv, [Next]_vars PROVE TypeOK'
  OBVIOUS
<1>a. TypeOK
  BY DEF Inv
<1> USE <1>a DEF TypeOK
<1>0. /\ \A t \in Threads : Home[t] \in Processes
      /\ Error \in Answers /\ Contention \in Answers
      /\ MaxFaults \in Nat /\ MaxRetries \in Nat \ {0}
  BY HomeAssumption, BoundsAssumption DEF Answers
<1>1. ASSUME NEW t \in Threads, Call(t) PROVE TypeOK'
  <2>1. \A op \in {"claim", "commit", "release", "heartbeat"} : Request(t, op) \in Requests
    BY <1>1, CallRequests DEF Call
  <2>2. req' \in [Threads -> Requests \cup {None}]
    BY <1>1, <2>1 DEF Call
  <2>3. tries' \in [Threads -> 0 .. MaxRetries]
    BY <1>0, <1>1 DEF Call
  <2>4. calls' \in [Threads -> Nat] /\ \A u \in Threads : calls'[u] <= MaxCalls[u]
    <3>1. /\ calls[t] < MaxCalls[t] /\ calls' = [calls EXCEPT ![t] = @ + 1]
          /\ MaxCalls \in [Threads -> Nat]
      BY <1>1, BoundsAssumption DEF Call
    <3>2. calls[t] + 1 \in Nat /\ calls[t] + 1 <= MaxCalls[t]
      BY <3>1
    <3> QED
      BY <3>1, <3>2
  <2> QED
    BY <1>0, <1>1, <2>2, <2>3, <2>4 DEF Call, txs
<1>2. ASSUME NEW t \in Threads, Lock(t) PROVE TypeOK'
  BY <1>0, <1>2 DEF Lock, txs
<1>3. ASSUME NEW t \in Threads, NEW a \in Answers, Leave(t, a)
      PROVE  /\ lock' \in [Processes -> Threads \cup {None}]
             /\ pc' \in [Threads -> {"idle", "lock", "begin"} \cup InTransaction]
             /\ req' \in [Threads -> Requests \cup {None}]
             /\ ans' \in [Threads -> Answers \cup {None}]
  BY <1>0, <1>3 DEF Leave, Unlock
<1>4. ASSUME NEW t \in Threads, Begin(t) PROVE TypeOK'
  <2>1. CASE Leave(t, Error) /\ UNCHANGED snap
    BY <1>0, <1>3, <1>4, <2>1 DEF Begin
  <2>2. CASE /\ snap' = [snap EXCEPT ![Home[t]] = db]
             /\ pc' = [pc EXCEPT ![t] = FirstStatement(req[t].op)]
             /\ UNCHANGED <<lock, req, ans>>
    <3>1. FirstStatement(req[t].op) \in InTransaction
      BY DEF FirstStatement, InTransaction
    <3> QED
      BY <1>4, <2>2, <3>1 DEF Begin
  <2> QED
    BY <1>4, <2>1, <2>2 DEF Begin
<1>5. ASSUME NEW p \in Processes, Ended(p)
      PROVE  snap' \in [Processes -> Rows \cup {None}] /\ wrote' \in [Processes -> Rows \cup {None}]
  BY <1>5 DEF Ended
<1>6. ASSUME NEW t \in Threads, pc[t] \in InTransaction, Retry(t), faults' \in 0 .. MaxFaults
      PROVE  TypeOK'
  <2>1. tries' \in [Threads -> 0 .. MaxRetries]
    <3>1. tries[t] < MaxRetries
      BY <1>6, InTransactionFacts DEF Inv, CallInv
    <3>2. tries[t] + 1 \in 0 .. MaxRetries
      BY <1>0, <3>1
    <3> QED
      BY <1>6, <3>2 DEF Retry
  <2>2. /\ snap' \in [Processes -> Rows \cup {None}] /\ wrote' \in [Processes -> Rows \cup {None}]
        /\ stale' \in [Processes -> BOOLEAN] /\ db' = db
    BY <1>0, <1>5, <1>6 DEF Retry, Rollback
  <2>3. CASE Leave(t, Contention)
    BY <1>0, <1>3, <1>6, <2>1, <2>2, <2>3 DEF Retry
  <2>4. CASE RetryLater(t) /\ UNCHANGED <<req, ans>>
    BY <1>0, <1>6, <2>1, <2>2, <2>4 DEF Retry, RetryLater, Unlock
  <2>5. CASE pc' = [pc EXCEPT ![t] = "begin"] /\ UNCHANGED lock /\ UNCHANGED <<req, ans>>
    BY <1>6, <2>1, <2>2, <2>5 DEF Retry
  <2> QED
    BY <1>6, <2>3, <2>4, <2>5 DEF Retry
<1>7. ASSUME NEW t \in Threads, NEW rec, NEW next, Did(t, rec, next), Executed(t, rec, next)
      PROVE  TypeOK'
  <2>1. rec \in Rows \cup {None} /\ next \in InTransaction
    BY <1>7 DEF Did, InTransaction
  <2> QED
    BY <1>0, <1>7, <2>1 DEF Executed
<1>8. ASSUME NEW p \in Processes, Publish(p)
      PROVE  db' \in Rows /\ stale' \in [Processes -> BOOLEAN]
             /\ snap' \in [Processes -> Rows \cup {None}]
             /\ wrote' \in [Processes -> Rows \cup {None}]
  <2>1. db' \in Rows
    BY <1>8 DEF Publish
  <2>2. stale' \in [Processes -> BOOLEAN]
    BY <1>8, Zenon DEF Publish
  <2> QED
    BY <1>5, <1>8, <2>1, <2>2 DEF Publish
<1>9. ASSUME NEW t \in Threads, End(t) PROVE TypeOK'
  <2>1. pc[t] \in InTransaction /\ pc[t] # "idle"
    BY <1>9 DEF End, InTransaction
  <2>2. snap[Home[t]] \in Rows /\ req[t] \in Requests
    BY <2>1, InTransactionFacts
  <2> DEFINE b == wrote[Home[t]] # None
             a == Result(req[t], snap[Home[t]], b)
  <2>3. a \in Answers /\ Leave(t, a)
    BY <1>9, <2>2, AnswerType DEF End
  <2> HIDE DEF a
  <2>4. known' \in [Threads -> Tokens \cup {None}]
    <3>1. req[t].tok \in Tokens \cup {None} /\ snap[Home[t]].token \in Tokens \cup {None}
      BY <2>2 DEF Requests, Rows, RowsOf
    <3> QED
      BY <1>9, <3>1 DEF End
  <2> QED
    BY <1>0, <1>3, <1>8, <1>9, <2>3, <2>4 DEF End
<1>10. ASSUME NEW t \in Threads, StatementFails(t) PROVE TypeOK'
  <2>1. faults' \in 0 .. MaxFaults
    BY <1>0, <1>10 DEF StatementFails
  <2>2. /\ snap' \in [Processes -> Rows \cup {None}] /\ wrote' \in [Processes -> Rows \cup {None}]
        /\ stale' \in [Processes -> BOOLEAN] /\ db' \in Rows
    BY <1>0, <1>5, <1>8, <1>10 DEF StatementFails, Rollback
  <2>3. broken' \subseteq Processes
    BY <1>0, <1>10 DEF StatementFails
  <2> QED
    BY <1>0, <1>3, <1>10, <2>1, <2>2, <2>3 DEF StatementFails
<1>11. ASSUME NEW p \in Processes, Crash(p) PROVE TypeOK'
  <2>1. faults' \in 0 .. MaxFaults
    BY <1>0, <1>11 DEF Crash
  <2>2. /\ snap' \in [Processes -> Rows \cup {None}] /\ wrote' \in [Processes -> Rows \cup {None}]
        /\ stale' \in [Processes -> BOOLEAN] /\ db' \in Rows
    BY <1>5, <1>11 DEF Crash, Rollback
  <2> QED
    BY <1>11, <2>1, <2>2 DEF Crash
<1>12. CASE UNCHANGED vars
  BY <1>12 DEF vars, txs
<1> QED
  BY <1>1, <1>2, <1>4, <1>6, <1>7, <1>9, <1>10, <1>11, <1>12, ThreadSteps
     DEF Next, Terminating

\* Every step leaves the threads in a call where the calls lead them.
LEMMA NextCall == Inv /\ [Next]_vars => CallInv'
<1> SUFFICES ASSUME Inv, [Next]_vars PROVE CallInv'
  OBVIOUS
<1>a. TypeOK /\ CallInv
  BY DEF Inv
<1> USE <1>a DEF CallInv
<1>p. /\ pc \in [Threads -> {"idle", "lock", "begin"} \cup InTransaction]
      /\ req \in [Threads -> Requests \cup {None}]
      /\ tries \in [Threads -> 0 .. MaxRetries] /\ MaxRetries \in Nat \ {0}
  BY BoundsAssumption DEF TypeOK
<1>1. ASSUME NEW t \in Threads, Call(t) PROVE CallInv'
  <2>1. req'[t] # None
    BY <1>1, <1>p, CallRequests DEF Call
  <2> QED
    BY <1>1, <1>p, <2>1 DEF Call
<1>2. ASSUME NEW t \in Threads, Lock(t) PROVE CallInv'
  BY <1>2, <1>p DEF Lock
<1>3. ASSUME NEW t \in Threads, NEW a, Leave(t, a),
             \A u \in Threads \ {t} : tries'[u] = tries[u]
      PROVE  CallInv'
  BY <1>3, <1>p DEF Leave
<1>4. ASSUME NEW t \in Threads, Begin(t) PROVE CallInv'
  <2>1. CASE Leave(t, Error) /\ UNCHANGED tries
    BY <1>3, <2>1
  <2>2. CASE pc' = [pc EXCEPT ![t] = FirstStatement(req[t].op)] /\ UNCHANGED <<req, tries>>
    <3>1. req[t].op \in {"claim", "commit", "release", "heartbeat"}
      BY <1>4, RequestType DEF Begin
    <3> QED
      BY <1>4, <1>p, <2>2, <3>1 DEF Begin, FirstStatement
  <2> QED
    BY <1>4, <2>1, <2>2 DEF Begin
<1>5. ASSUME NEW t \in Threads, pc[t] \in InTransaction, Retry(t) PROVE CallInv'
  <2>1. pc[t] # "idle" /\ \A u \in Threads \ {t} : tries'[u] = tries[u]
    BY <1>5, <1>p DEF InTransaction, Retry
  <2>2. CASE Leave(t, Contention)
    BY <1>3, <2>1, <2>2
  <2>3. CASE tries'[t] < MaxRetries /\ pc' = [pc EXCEPT ![t] = "lock"] /\ UNCHANGED req
    BY <1>p, <2>1, <2>3
  <2>4. CASE tries'[t] < MaxRetries /\ pc' = [pc EXCEPT ![t] = "begin"] /\ UNCHANGED req
    BY <1>p, <2>1, <2>4
  <2> QED
    BY <1>5, <2>2, <2>3, <2>4 DEF Retry, RetryLater
<1>6. ASSUME NEW t \in Threads, pc[t] \in InTransaction,
             NEW rec, NEW next, Did(t, rec, next), Executed(t, rec, next)
      PROVE  CallInv'
  BY <1>6, <1>p DEF Did, Executed, InTransaction
<1>7. ASSUME NEW t \in Threads, End(t) \/ StatementFails(t) PROVE CallInv'
  BY <1>3, <1>7 DEF End, StatementFails
<1>8. ASSUME NEW p \in Processes, Crash(p) PROVE CallInv'
  BY <1>8, <1>p DEF Crash
<1>9. CASE UNCHANGED vars
  BY <1>9 DEF vars
<1> QED
  BY <1>1, <1>2, <1>4, <1>5, <1>6, <1>7, <1>8, <1>9, ThreadSteps DEF Next, Terminating

\* A lock that a thread holds is given to no other.
LEMMA NextLock == Inv /\ [Next]_vars => LockInv'
<1> SUFFICES ASSUME Inv, [Next]_vars PROVE LockInv'
  OBVIOUS
<1>a. TypeOK /\ LockInv
  BY DEF Inv
<1> USE <1>a DEF LockInv
<1>p. /\ pc \in [Threads -> {"idle", "lock", "begin"} \cup InTransaction]
      /\ lock \in [Processes -> Threads \cup {None}]
      /\ \A t \in Threads : t # None /\ Home[t] \in Processes
      /\ "idle" \notin InTransaction /\ "lock" \notin InTransaction
  BY NoneIsNoneOfThese, HomeAssumption DEF TypeOK, InTransaction
<1>1. ASSUME NEW t \in Threads, pc[t] \notin {"idle", "lock"}, UNCHANGED lock,
             \A u \in Threads \ {t} : pc'[u] = pc[u]
      PROVE  LockInv'
  BY <1>1, <1>p
<1>2. ASSUME NEW t \in Threads, pc[t] \notin {"idle", "lock"},
             pc'[t] \in {"idle", "lock"}, Unlock(t),
             \A u \in Threads \ {t} : pc'[u] = pc[u]
      PROVE  LockInv'
  BY <1>2, <1>p DEF Unlock
<1>3. ASSUME NEW t \in Threads, pc[t] \notin {"idle", "lock"}, NEW a, Leave(t, a)
      PROVE  LockInv'
  BY <1>2, <1>3, <1>p DEF Leave
<1>4. ASSUME NEW t \in Threads, Call(t) PROVE LockInv'
  BY <1>4, <1>p DEF Call
<1>5. ASSUME NEW t \in Threads, Lock(t) PROVE LockInv'
  BY <1>5, <1>p DEF Lock
<1>6. ASSUME NEW t \in Threads, Begin(t) PROVE LockInv'
  <2>1. CASE Leave(t, Error)
    BY <1>3, <1>6, <2>1 DEF Begin
  <2>2. CASE pc' = [pc EXCEPT ![t] = FirstStatement(req[t].op)] /\ UNCHANGED lock
    BY <1>1, <1>6, <1>p, <2>2 DEF Begin
  <2> QED
    BY <1>6, <2>1, <2>2 DEF Begin
<1>7. ASSUME NEW t \in Threads, pc[t] \in InTransaction, Retry(t) PROVE LockInv'
  <2>1. pc[t] \notin {"idle", "lock"}
    BY <1>7, <1>p
  <2>2. CASE Leave(t, Contention)
    BY <1>3, <2>1, <2>2
  <2>3. CASE RetryLater(t)
    BY <1>2, <1>p, <2>1, <2>3 DEF RetryLater
  <2>4. CASE pc' = [pc EXCEPT ![t] = "begin"] /\ UNCHANGED lock
    BY <1>1, <1>p, <2>1, <2>4
  <2> QED
    BY <1>7, <2>2, <2>3, <2>4 DEF Retry
<1>8. ASSUME NEW t \in Threads, pc[t] \in InTransaction, NEW rec, NEW next,
             Executed(t, rec, next)
      PROVE  LockInv'
  BY <1>1, <1>8, <1>p DEF Executed
<1>9. ASSUME NEW t \in Threads, End(t) \/ StatementFails(t) PROVE LockInv'
  BY <1>3, <1>9, <1>p DEF End, StatementFails
<1>10. ASSUME NEW p \in Processes, Crash(p) PROVE LockInv'
  BY <1>10, <1>p DEF Crash
<1>11. CASE UNCHANGED vars
  BY <1>11 DEF vars
<1> QED
  BY <1>4, <1>5, <1>6, <1>7, <1>8, <1>9, <1>10, <1>11, ThreadSteps DEF Next, Terminating

-----------------------------------------------------------------------------
(***************************************************************************)
(* Snapshots and transactions.                                             *)
(***************************************************************************)
\* While a thread has the lock of its process, no other thread of the process
\* is in a transaction.
LEMMA Alone ==
    ASSUME LockInv, NEW t \in Threads, pc[t] \notin {"idle", "lock"}
    PROVE  \A u \in Threads \ {t} : Home[u] = Home[t] => pc[u] \notin InTransaction
BY DEF LockInv, InTransaction

\* Before it begins one, its process has no transaction.
LEMMA NoneBefore ==
    ASSUME Inv, NEW t \in Threads, pc[t] = "begin"
    PROVE  /\ snap[Home[t]] = None /\ wrote[Home[t]] = None /\ stale[Home[t]] = FALSE
           /\ Home[t] \in Processes
<1>1. \A u \in Threads : Home[u] = Home[t] => pc[u] \notin InTransaction
  BY Alone DEF Inv, InTransaction
<1> QED
  BY <1>1, HomeAssumption DEF Inv, TypeOK, SnapInv, SnapOf

\* The end of a transaction, committed or not, takes its snapshot away, leaves
\* those of the others, and marks them stale if it changed the record.
LEMMA EndedSnap ==
    ASSUME TypeOK, SnapInv, NEW p \in Processes, Rollback(p) \/ Publish(p),
           \A u \in Threads : Home[u] # p => pc'[u] = pc[u]
    PROVE  SnapInv'
<1>0. /\ snap'[p] = None /\ wrote'[p] = None /\ stale'[p] = FALSE
      /\ \A q \in Processes \ {p} : snap'[q] = snap[q] /\ wrote'[q] = wrote[q]
  BY DEF Rollback, Publish, Ended, TypeOK
<1>1. ASSUME NEW q \in Processes \ {p}
      PROVE  /\ stale'[q] => snap[q] # None
             /\ snap[q] # None /\ ~stale'[q] => ~stale[q] /\ db' = db
  BY DEF Rollback, Publish, TypeOK, SnapInv, SnapOf
<1> SUFFICES ASSUME NEW q \in Processes PROVE SnapOf(q)'
  BY DEF SnapInv
<1>2. CASE q = p
  BY <1>0, <1>2 DEF SnapOf
<1>3. CASE q # p
  <2>1. snap'[q] # None => \E t \in Threads : Home[t] = q /\ pc'[t] \in InTransaction
    BY <1>0, <1>3 DEF SnapInv, SnapOf
  <2>2. \A r \in Processes : wrote'[q] # None /\ wrote'[r] # None => q = r
    BY <1>0, <1>3 DEF SnapInv, SnapOf
  <2>3. wrote'[q] # None \/ stale'[q] => snap'[q] # None
    BY <1>0, <1>1, <1>3 DEF SnapInv, SnapOf
  <2>4. snap'[q] # None /\ ~stale'[q] => snap'[q] = db'
    BY <1>0, <1>1, <1>3 DEF SnapInv, SnapOf
  <2> QED
    BY <2>1, <2>2, <2>3, <2>4 DEF SnapOf
<1> QED
  BY <1>2, <1>3

\* It does not disturb the calls of other processes either: the record changes
\* only when no other has written.
LEMMA EndedTx ==
    ASSUME TypeOK, SnapInv, TxInv, NEW p \in Processes, Rollback(p) \/ Publish(p),
           \A u \in Threads : Home[u] # p => pc'[u] = pc[u] /\ req'[u] = req[u],
           \A u \in Threads : Home[u] = p => pc'[u] \notin InTransaction
    PROVE  TxInv'
<1> SUFFICES ASSUME NEW u \in Threads PROVE InTx(u)'
  BY DEF TxInv
<1>1. CASE Home[u] = p
  BY <1>1 DEF InTx, InTransaction
<1>2. CASE Home[u] # p
  <2> DEFINE q == Home[u]
  <2>1. q \in Processes /\ snap'[q] = snap[q] /\ wrote'[q] = wrote[q]
    BY <1>2, HomeAssumption DEF Rollback, Publish, Ended, TypeOK
  <2>2. wrote[q] # None => db' = db
    BY <1>2, <2>1 DEF Rollback, Publish, SnapInv, SnapOf
  <2>3. pc'[u] = pc[u] /\ req'[u] = req[u] /\ InTx(u)
    BY <1>2 DEF TxInv
  <2> QED
    BY <2>1, <2>2, <2>3 DEF InTx, ReadOnly, Wrote
<1> QED
  BY <1>1, <1>2

\* A step that touches no transaction leaves snapshots and calls alone,
LEMMA Elsewhere ==
    ASSUME SnapInv, TxInv, UNCHANGED <<db, snap, wrote, stale>>,
           NEW t \in Threads, pc[t] \notin InTransaction, pc'[t] \notin InTransaction,
           \A u \in Threads \ {t} : pc'[u] = pc[u] /\ req'[u] = req[u]
    PROVE  SnapInv' /\ TxInv'
<1>1. SnapInv'
  <2>1. \A p \in Processes : snap[p] # None =>
           \E u \in Threads : Home[u] = p /\ pc'[u] \in InTransaction
    BY DEF SnapInv, SnapOf
  <2> QED
    BY <2>1 DEF SnapInv, SnapOf
<1>2. TxInv'
  <2> SUFFICES ASSUME NEW u \in Threads PROVE InTx(u)'
    BY DEF TxInv
  <2>1. CASE u = t
    BY <2>1 DEF InTx, InTransaction
  <2>2. CASE u # t
    BY <2>2 DEF TxInv, InTx, ReadOnly, Wrote
  <2> QED
    BY <2>1, <2>2
<1> QED
  BY <1>1, <1>2

\* a transaction that begins has the present record,
LEMMA BeginTx ==
    ASSUME Inv, NEW t \in Threads, pc[t] = "begin",
           snap' = [snap EXCEPT ![Home[t]] = db],
           pc' = [pc EXCEPT ![t] = FirstStatement(req[t].op)],
           UNCHANGED <<db, wrote, stale, req>>
    PROVE  SnapInv' /\ TxInv'
<1> DEFINE p == Home[t]
<1>0. /\ p \in Processes /\ snap[p] = None /\ wrote[p] = None /\ stale[p] = FALSE
      /\ db # None
  BY NoneBefore, NoneIsNoneOfThese DEF Inv, TypeOK
<1>1. pc'[t] \in {"insert", "upsert", "change"}
  BY DEF FirstStatement, Inv, TypeOK
<1>2. /\ snap'[p] = db /\ \A q \in Processes \ {p} : snap'[q] = snap[q]
      /\ \A u \in Threads \ {t} : pc'[u] = pc[u]
  BY <1>0 DEF Inv, TypeOK
<1>3. \A u \in Threads \ {t} : Home[u] = p => pc[u] \notin InTransaction
  BY Alone DEF Inv
<1> HIDE DEF p
<1>4. SnapInv'
  <2> SUFFICES ASSUME NEW q \in Processes PROVE SnapOf(q)'
    BY DEF SnapInv
  <2>1. CASE q = p
    BY <1>0, <1>1, <1>2, <2>1 DEF SnapOf, InTransaction, p
  <2>2. CASE q # p
    <3>1. SnapOf(q) /\ snap'[q] = snap[q]
      BY <1>2, <2>2 DEF Inv, SnapInv
    <3>2. snap[q] # None => \E u \in Threads : Home[u] = q /\ pc'[u] \in InTransaction
      BY <1>2, <2>2, <3>1 DEF SnapOf, p
    <3> QED
      BY <3>1, <3>2 DEF SnapOf
  <2> QED
    BY <2>1, <2>2
<1>5. TxInv'
  <2> SUFFICES ASSUME NEW u \in Threads PROVE InTx(u)'
    BY DEF TxInv
  <2>1. CASE u = t
    BY <1>0, <1>1, <1>2, <2>1 DEF InTx, p
  <2>2. CASE u # t /\ Home[u] = p
    BY <1>2, <1>3, <2>2 DEF InTx, InTransaction
  <2>3. CASE u # t /\ Home[u] # p
    <3>1. snap'[Home[u]] = snap[Home[u]] /\ pc'[u] = pc[u] /\ InTx(u)
      BY <1>2, <2>3, HomeAssumption DEF Inv, TxInv
    <3> QED
      BY <3>1 DEF InTx, ReadOnly, Wrote
  <2> QED
    BY <2>1, <2>2, <2>3
<1> QED
  BY <1>4, <1>5

\* and a statement writes while no other transaction has.
LEMMA ExecutedTx ==
    ASSUME Inv, NEW t \in Threads, pc[t] \in InTransaction \ {"end"},
           NEW rec, NEW next, Did(t, rec, next), Executed(t, rec, next)
    PROVE  SnapInv' /\ TxInv'
<1> DEFINE p == Home[t]
<1>0. /\ p \in Processes /\ snap[p] \in Rows /\ snap[p] # None /\ wrote[p] = None
      /\ pc[t] \notin {"idle", "lock"}
  BY InTransactionFacts, NoneIsNoneOfThese
<1>1. /\ pc'[t] = next /\ \A u \in Threads \ {t} : pc'[u] = pc[u]
      /\ wrote'[p] = rec /\ \A q \in Processes \ {p} : wrote'[q] = wrote[q]
      /\ UNCHANGED <<db, snap, stale, req>>
  BY <1>0 DEF Executed, Inv, TypeOK
<1>2. /\ next \in {"select", "end"}
      /\ rec # None => next = "end" /\ Wrote(t, rec)
      /\ rec = None /\ next = "end" => ReadOnly(t)
      /\ next = "select" => rec = None /\ snap[p].state # "fresh"
      /\ rec # None => \A q \in Processes \ {p} : wrote[q] = None
  BY DEF Did, Blocked
<1>3. \A u \in Threads \ {t} : Home[u] = p => pc[u] \notin InTransaction
  BY <1>0, Alone DEF Inv
<1> HIDE DEF p
<1>4. SnapInv'
  <2> SUFFICES ASSUME NEW q \in Processes PROVE SnapOf(q)'
    BY DEF SnapInv
  <2>0. SnapOf(q)
    BY DEF Inv, SnapInv
  <2>1. snap[q] # None => \E u \in Threads : Home[u] = q /\ pc'[u] \in InTransaction
    BY <1>1, <1>2, <2>0 DEF SnapOf, InTransaction
  <2>2. \A r \in Processes : wrote'[q] # None /\ wrote'[r] # None => q = r
    BY <1>0, <1>1, <1>2, <2>0 DEF SnapOf
  <2>3. wrote'[q] # None => snap[q] # None
    BY <1>0, <1>1, <2>0 DEF SnapOf
  <2> QED
    BY <1>1, <2>0, <2>1, <2>2, <2>3 DEF SnapOf
<1>5. TxInv'
  <2> SUFFICES ASSUME NEW u \in Threads PROVE InTx(u)'
    BY DEF TxInv
  <2>1. CASE u = t
    BY <1>0, <1>1, <1>2, <2>1 DEF InTx, ReadOnly, Wrote, InTransaction, p
  <2>2. CASE u # t /\ Home[u] = p
    BY <1>1, <1>3, <2>2 DEF InTx, InTransaction
  <2>3. CASE u # t /\ Home[u] # p
    <3>1. wrote'[Home[u]] = wrote[Home[u]] /\ pc'[u] = pc[u] /\ InTx(u)
      BY <1>1, <2>3, HomeAssumption DEF Inv, TxInv
    <3> QED
      BY <1>1, <3>1 DEF InTx, ReadOnly, Wrote
  <2> QED
    BY <2>1, <2>2, <2>3
<1> QED
  BY <1>4, <1>5

\* What ends t's transaction keeps all of this.
LEMMA EndedBy ==
    ASSUME Inv, NEW t \in Threads, pc[t] \in InTransaction,
           Rollback(Home[t]) \/ Publish(Home[t]), pc'[t] \notin InTransaction,
           \A u \in Threads \ {t} : pc'[u] = pc[u] /\ req'[u] = req[u]
    PROVE  SnapInv' /\ TxInv'
<1>1. Home[t] \in Processes /\ pc[t] \notin {"idle", "lock"}
  BY InTransactionFacts
<1>2. \A u \in Threads : Home[u] = Home[t] => pc'[u] \notin InTransaction
  BY <1>1, Alone DEF Inv
<1>3. \A u \in Threads : Home[u] # Home[t] => pc'[u] = pc[u] /\ req'[u] = req[u]
  OBVIOUS
<1> QED
  BY <1>1, <1>2, <1>3, EndedSnap, EndedTx DEF Inv

\* Every step keeps the transactions serializable.
LEMMA NextTx == Inv /\ [Next]_vars => SnapInv' /\ TxInv'
<1> SUFFICES ASSUME Inv, [Next]_vars PROVE SnapInv' /\ TxInv'
  OBVIOUS
<1>p. /\ pc \in [Threads -> {"idle", "lock", "begin"} \cup InTransaction]
      /\ req \in [Threads -> Requests \cup {None}]
      /\ SnapInv /\ TxInv
      /\ {"idle", "lock", "begin"} \cap InTransaction = {}
  BY DEF Inv, TypeOK, InTransaction
<1>1. ASSUME NEW t \in Threads, Call(t) \/ Lock(t) PROVE SnapInv' /\ TxInv'
  BY <1>1, <1>p, Elsewhere DEF Call, Lock, txs
<1>2. ASSUME NEW t \in Threads, Begin(t) PROVE SnapInv' /\ TxInv'
  <2>1. CASE Leave(t, Error) /\ UNCHANGED snap
    BY <1>2, <1>p, <2>1, Elsewhere DEF Begin, Leave
  <2>2. CASE /\ snap' = [snap EXCEPT ![Home[t]] = db]
             /\ pc' = [pc EXCEPT ![t] = FirstStatement(req[t].op)]
             /\ UNCHANGED <<lock, req, ans>>
    BY <1>2, <2>2, BeginTx DEF Begin
  <2> QED
    BY <1>2, <2>1, <2>2 DEF Begin
<1>3. ASSUME NEW t \in Threads, pc[t] \in InTransaction, Retry(t)
      PROVE  SnapInv' /\ TxInv'
  <2>1. /\ pc'[t] \notin InTransaction
        /\ \A u \in Threads \ {t} : pc'[u] = pc[u] /\ req'[u] = req[u]
    BY <1>3, <1>p DEF Retry, RetryLater, Leave
  <2>2. Rollback(Home[t])
    BY <1>3 DEF Retry
  <2> QED
    BY <1>3, <2>1, <2>2, EndedBy
<1>4. ASSUME NEW t \in Threads, End(t) \/ StatementFails(t) PROVE SnapInv' /\ TxInv'
  <2>1. /\ pc'[t] \notin InTransaction
        /\ \A u \in Threads \ {t} : pc'[u] = pc[u] /\ req'[u] = req[u]
    BY <1>4, <1>p DEF End, StatementFails, Leave
  <2>2. pc[t] \in InTransaction /\ (Rollback(Home[t]) \/ Publish(Home[t]))
    BY <1>4 DEF End, StatementFails, InTransaction
  <2> QED
    BY <2>1, <2>2, EndedBy
<1>5. ASSUME NEW p \in Processes, Crash(p) PROVE SnapInv' /\ TxInv'
  <2>1. /\ \A u \in Threads : Home[u] # p => pc'[u] = pc[u] /\ req'[u] = req[u]
        /\ \A u \in Threads : Home[u] = p => pc'[u] \notin InTransaction
        /\ Rollback(p)
    BY <1>5, <1>p DEF Crash
  <2> QED
    BY <1>p, <2>1, EndedSnap, EndedTx DEF Inv
<1>6. CASE UNCHANGED vars
  BY <1>6, <1>p DEF vars, txs, SnapInv, SnapOf, TxInv, InTx, ReadOnly, Wrote
<1> QED
  BY <1>1, <1>2, <1>3, <1>4, <1>5, <1>6, ThreadSteps, ExecutedTx DEF Next, Terminating

-----------------------------------------------------------------------------
(***************************************************************************)
(* The steps as the contract sees them.                                    *)
(***************************************************************************)
\* The contract means the same record, operations and answers.
LEMMA SameOperations ==
    /\ Contract!NoRow = NoRow /\ Contract!Error = Error
    /\ Contract!EmptyBag = EmptyBag /\ EmptyBag' = EmptyBag
    /\ \A r, rec : /\ Contract!Apply(r, rec) = Apply(r, rec)
                  /\ Contract!Answer(r, rec) = Answer(r, rec)
<1>1. /\ Contract!NoRow = NoRow /\ Contract!Error = Error
      /\ Contract!EmptyBag = EmptyBag /\ EmptyBag' = EmptyBag
  BY DEF Contract!NoRow, NoRow, Contract!Error, Error,
         Contract!EmptyBag, EmptyBag, Contract!SetToBag, SetToBag
<1>2. \A r, rec : Contract!Apply(r, rec) = Apply(r, rec)
  BY DEF Contract!Apply, Apply, Contract!ClaimRow, ClaimRow, Contract!CommitRow,
         CommitRow, Contract!ReleaseRow, ReleaseRow, Contract!BeatRow, BeatRow,
         Contract!Owns, Owns, Contract!NoRow, NoRow
<1>3. \A r, rec : Contract!Answer(r, rec) = Answer(r, rec)
  BY DEF Contract!Answer, Answer, Contract!Fresh, Fresh, Contract!Existing, Existing,
         Contract!Read, Read, Contract!Renewed, Renewed, Contract!Owns, Owns,
         Contract!Done, Done
<1> QED
  BY <1>1, <1>2, <1>3

\* What a call has found, and what it was told.
FoundBy(t) ==
    IF /\ pc[t] \in InTransaction /\ wrote[Home[t]] = None
       /\ Apply(req[t], snap[Home[t]]) = snap[Home[t]]
    THEN Answer(req[t], snap[Home[t]]) ELSE None

ToldTo(t) == IF ans[t] = Contention THEN Error ELSE ans[t]

LEMMA FoundIs ==
    Found = [t \in Threads |-> FoundBy(t)] /\ Told = [t \in Threads |-> ToldTo(t)]
BY Zenon DEF Found, FoundBy, Told, ToldTo

\* A call never has taken place before its transaction commits.
LEMMA NotYet ==
    ASSUME Inv, NEW t \in Threads
    PROVE  ~Contract!HasTakenPlace(t)
<1>1. CASE FoundBy(t) = None
  BY <1>1, FoundIs DEF Contract!HasTakenPlace
<1>2. CASE FoundBy(t) # None
  <2>1. pc[t] \in InTransaction /\ FoundBy(t) = Answer(req[t], snap[Home[t]])
    BY <1>2 DEF FoundBy
  <2>2. FoundBy(t)[1] # "did"
    BY <2>1, InTransactionFacts, AnswerType
  <2> QED
    BY <2>2, FoundIs DEF Contract!HasTakenPlace
<1> QED
  BY <1>1, <1>2

\* A step of t leaves what the other calls have found.
LEMMA FoundStays ==
    ASSUME Inv, NEW t \in Threads,
           pc[t] \notin {"idle", "lock"} \/ UNCHANGED <<snap, wrote>>,
           \A u \in Threads \ {t} : pc'[u] = pc[u] /\ req'[u] = req[u],
           \A q \in Processes \ {Home[t]} : snap'[q] = snap[q] /\ wrote'[q] = wrote[q]
    PROVE  Found' = [Found EXCEPT ![t] = FoundBy(t)']
<1>1. ASSUME NEW u \in Threads \ {t} PROVE FoundBy(u)' = FoundBy(u)
  <2>1. CASE Home[u] # Home[t] \/ UNCHANGED <<snap, wrote>>
    BY <2>1, HomeAssumption DEF FoundBy
  <2>2. CASE Home[u] = Home[t] /\ pc[t] \notin {"idle", "lock"}
    <3>1. pc[u] \notin InTransaction /\ pc'[u] = pc[u]
      BY <2>2, Alone DEF Inv
    <3> QED
      BY <3>1 DEF FoundBy
  <2> QED
    BY <2>1, <2>2
<1>2. Found = [u \in Threads |-> FoundBy(u)]
  BY FoundIs
<1>3. Found' = [u \in Threads |-> FoundBy(u)']
  BY Zenon DEF Found, FoundBy
<1> QED
  BY <1>1, <1>2, <1>3

\* A call that is left has answered the contract's caller.
LEMMA LeaveAnswers ==
    ASSUME Inv, NEW t \in Threads, pc[t] \notin {"idle", "lock"}, NEW a, Leave(t, a),
           \A q \in Processes \ {Home[t]} : snap'[q] = snap[q] /\ wrote'[q] = wrote[q]
    PROVE  Contract!Answered(t, IF a = Contention THEN Error ELSE a)
<1> DEFINE told == IF a = Contention THEN Error ELSE a
<1>0. /\ pc'[t] = "idle" /\ req[t] # None
      /\ req' = [req EXCEPT ![t] = None] /\ ans' = [ans EXCEPT ![t] = a]
      /\ \A u \in Threads \ {t} : pc'[u] = pc[u] /\ req'[u] = req[u]
  BY DEF Leave, Inv, TypeOK, CallInv
<1>1. Found' = [Found EXCEPT ![t] = None]
  <2>1. FoundBy(t)' = None
    BY <1>0 DEF FoundBy, InTransaction
  <2>2. Found' = [Found EXCEPT ![t] = FoundBy(t)']
    BY <1>0, FoundStays
  <2> QED
    BY <2>1, <2>2
<1>2. Told' = [Told EXCEPT ![t] = told]
  <2>1. \A u \in Threads : ToldTo(u)' = IF u = t THEN told ELSE ToldTo(u)
    BY <1>0 DEF ToldTo, Inv, TypeOK
  <2>2. Told = [u \in Threads |-> ToldTo(u)]
    BY FoundIs
  <2>3. Told' = [u \in Threads |-> ToldTo(u)']
    BY Zenon DEF Told, ToldTo
  <2> HIDE DEF told
  <2> QED
    BY <2>1, <2>2, <2>3
<1> QED
  BY <1>0, <1>1, <1>2 DEF Contract!Answered

\* A call that is not left has looked, has dropped what it had found, or has
\* done nothing that the contract sees.
LEMMA StaysUnseen ==
    ASSUME Inv, NEW t \in Threads, UNCHANGED <<db, req, ans>>, req[t] # None,
           pc[t] \notin {"idle", "lock"} \/ UNCHANGED <<snap, wrote>>,
           \A u \in Threads \ {t} : pc'[u] = pc[u],
           \A q \in Processes \ {Home[t]} : snap'[q] = snap[q] /\ wrote'[q] = wrote[q],
           \/ FoundBy(t)' \in {None, FoundBy(t)}
           \/ Apply(req[t], db) = db /\ FoundBy(t)' = Answer(req[t], db)
    PROVE  Contract!Looks(t) \/ Contract!Drops(t) \/ UNCHANGED Contract!vars
<1>1. Found' = [Found EXCEPT ![t] = FoundBy(t)']
  BY FoundStays
<1>2. Found = [u \in Threads |-> FoundBy(u)] /\ Found[t] = FoundBy(t)
  BY FoundIs
<1>3. UNCHANGED Told
  BY DEF Told
<1>4. CASE FoundBy(t)' = None
  <2>1. Contract!Drops(t)
    BY <1>1, <1>3, <1>4, NotYet, SameOperations DEF Contract!Drops
  <2> QED
    BY <2>1
<1>5. CASE FoundBy(t)' = FoundBy(t)
  <2>1. Found' = Found
    BY <1>1, <1>2, <1>5
  <2> QED
    BY <1>3, <2>1, SameOperations DEF Contract!vars
<1>6. CASE Apply(req[t], db) = db /\ FoundBy(t)' = Answer(req[t], db)
  <2>1. Contract!Looks(t)
    BY <1>1, <1>3, <1>6, NotYet, SameOperations DEF Contract!Looks
  <2> QED
    BY <2>1
<1> QED
  BY <1>4, <1>5, <1>6

\* A call that raises left nothing, or, when the connection was lost at COMMIT,
\* the whole operation.
LEMMA FailsIsFails ==
    ASSUME Inv, NEW t \in Threads, Contract!Answered(t, Error),
           db' = db \/ db' = Apply(req[t], db)
    PROVE  Contract!Fails(t)
BY NotYet, SameOperations DEF Contract!Fails, Contract!GivesUp, Contract!LeavesOpen

\* What COMMIT of t's transaction does to the record.
LEMMA PublishFacts ==
    ASSUME Inv, NEW t \in Threads, pc[t] = "end", Publish(Home[t])
    PROVE  db' = IF wrote[Home[t]] = None THEN db ELSE Apply(req[t], db)
BY DEF Inv, TxInv, InTx, Wrote, Publish

\* COMMIT is where a call that writes takes place; one that does not returns
\* what it found.
LEMMA EndReturns ==
    ASSUME Inv, NEW t \in Threads, End(t)
    PROVE  Contract!TakesPlace(t) \/ Contract!Returns(t)
<1> DEFINE p == Home[t]
           a == Result(req[t], snap[p], wrote[p] # None)
<1>0. /\ pc[t] = "end" /\ pc[t] \in InTransaction /\ p \in Processes
      /\ snap[p] \in Rows /\ req[t] \in Requests /\ db \in Rows
  BY InTransactionFacts DEF End, InTransaction, Inv, TypeOK
<1>1. a \notin {None, Contention}
  BY <1>0, AnswerType
<1>2. Leave(t, a) /\ Publish(p)
  BY DEF End
<1>3. Contract!Answered(t, a)
  <2>1. \A q \in Processes \ {p} : snap'[q] = snap[q] /\ wrote'[q] = wrote[q]
    BY <1>2 DEF Publish, Ended, Inv, TypeOK
  <2> HIDE DEF a
  <2> QED
    BY <1>0, <1>1, <1>2, <2>1, LeaveAnswers
<1>4. CASE wrote[p] = None
  <2>1. /\ Apply(req[t], snap[p]) = snap[p] /\ a = Answer(req[t], snap[p])
        /\ db' = db
    BY <1>0, <1>2, <1>4, PublishFacts DEF Inv, TxInv, InTx, ReadOnly
  <2>2. FoundBy(t) = a
    BY <1>0, <1>4, <2>1 DEF FoundBy
  <2> HIDE DEF a
  <2>3. Found[t] = a /\ Found[t] # None
    BY <1>1, <2>2, FoundIs
  <2>4. Contract!Returns(t)
    BY <1>3, <2>1, <2>3, NotYet, SameOperations DEF Contract!Returns
  <2> QED
    BY <2>4
<1>5. CASE wrote[p] # None
  <2>1. a = Answer(req[t], db) /\ db' = Apply(req[t], db)
    BY <1>0, <1>2, <1>5, PublishFacts DEF Inv, TxInv, InTx, Wrote
  <2> HIDE DEF a
  <2>2. Contract!TakesPlace(t)
    BY <1>3, <2>1, NotYet, SameOperations DEF Contract!TakesPlace
  <2> QED
    BY <2>2
<1> QED
  BY <1>4, <1>5

\* A process that dies leaves the record, and its calls unanswered.
LEMMA CrashIsDies ==
    ASSUME Inv, NEW p \in Processes, Crash(p)
    PROVE  \E T \in SUBSET Threads : Contract!Dies(T)
<1> DEFINE T == {t \in Threads : Home[t] = p}
<1>0. /\ db' = db /\ \A q \in Processes \ {p} : snap'[q] = snap[q] /\ wrote'[q] = wrote[q]
      /\ \A t \in Threads : IF Home[t] = p THEN pc'[t] = "idle" /\ ans'[t] = None
                            ELSE pc'[t] = pc[t] /\ ans'[t] = ans[t] /\ req'[t] = req[t]
  BY DEF Crash, Rollback, Ended, Inv, TypeOK
<1>1. Found' = [t \in Threads |-> IF t \in T THEN None ELSE Found[t]]
  <2>1. \A t \in Threads : FoundBy(t)' = IF Home[t] = p THEN None ELSE FoundBy(t)
    BY <1>0, HomeAssumption DEF FoundBy, InTransaction
  <2>2. Found = [u \in Threads |-> FoundBy(u)]
    BY FoundIs
  <2>3. Found' = [u \in Threads |-> FoundBy(u)']
    BY Zenon DEF Found, FoundBy
  <2> QED
    BY <2>1, <2>2, <2>3
<1>2. Told' = [t \in Threads |-> IF t \in T THEN None ELSE Told[t]]
  <2>1. \A t \in Threads : ToldTo(t)' = IF Home[t] = p THEN None ELSE ToldTo(t)
    <3>1. None # Contention
      BY NoneIsNoneOfThese DEF Answers
    <3> QED
      BY <1>0, <3>1 DEF ToldTo
  <2>2. Told = [u \in Threads |-> ToldTo(u)]
    BY FoundIs
  <2>3. Told' = [u \in Threads |-> ToldTo(u)']
    BY Zenon DEF Told, ToldTo
  <2> QED
    BY <2>1, <2>2, <2>3
<1>3. req' = [t \in Threads |-> IF t \in T THEN None ELSE req[t]]
  BY DEF Crash
<1>4. Contract!Dies(T)
  BY <1>0, <1>1, <1>2, <1>3, SameOperations DEF Contract!Dies
<1> QED
  BY <1>4

\* A call begins for the contract when it begins for the adapter.
LEMMA CallIsCall ==
    ASSUME Inv, NEW t \in Threads, Call(t)
    PROVE  req'[t] # None /\ Contract!Call(t, req'[t])
<1>1. PICK op \in {"claim", "commit", "release", "heartbeat"} :
         req' = [req EXCEPT ![t] = Request(t, op)]
  BY DEF Call
<1>2. Request(t, op) # None
  BY CallRequests DEF Call, Inv
<1>3. req'[t] = Request(t, op) /\ req[t] = None
  BY <1>1 DEF Call, Inv, TypeOK, CallInv
<1>4. Found' = Found
  <2>1. pc[t] = "idle" /\ pc' = [pc EXCEPT ![t] = "lock"] /\ UNCHANGED <<snap, wrote>>
    BY DEF Call, txs
  <2>2. \A u \in Threads : FoundBy(u)' = FoundBy(u)
    BY <1>1, <2>1 DEF FoundBy, InTransaction, Inv, TypeOK
  <2>3. Found = [u \in Threads |-> FoundBy(u)]
    BY FoundIs
  <2>4. Found' = [u \in Threads |-> FoundBy(u)']
    BY Zenon DEF Found, FoundBy
  <2> QED
    BY <2>2, <2>3, <2>4
<1>5. Told' = [Told EXCEPT ![t] = None]
  <2>1. \A u \in Threads : ToldTo(u)' = IF u = t THEN None ELSE ToldTo(u)
    <3>1. None # Contention /\ ans' = [ans EXCEPT ![t] = None]
      BY NoneIsNoneOfThese DEF Answers, Call
    <3> QED
      BY <3>1 DEF ToldTo, Inv, TypeOK
  <2>2. Told = [u \in Threads |-> ToldTo(u)]
    BY FoundIs
  <2>3. Told' = [u \in Threads |-> ToldTo(u)']
    BY Zenon DEF Told, ToldTo
  <2> QED
    BY <2>1, <2>2, <2>3
<1>6. db' = db
  BY DEF Call
<1> QED
  BY <1>1, <1>2, <1>3, <1>4, <1>5, <1>6, SameOperations DEF Contract!Call

\* Every step is a step of the contract, or one that the callers do not see.
LEMMA StepImplements ==
    ASSUME Inv, [Next]_vars
    PROVE  [Contract!Next]_(Contract!vars)
<1>p. /\ pc \in [Threads -> {"idle", "lock", "begin"} \cup InTransaction]
      /\ snap \in [Processes -> Rows \cup {None}]
      /\ wrote \in [Processes -> Rows \cup {None}]
      /\ {"idle", "lock", "begin"} \cap InTransaction = {}
      /\ \A t \in Threads : pc[t] # "idle" => req[t] # None
  BY DEF Inv, TypeOK, InTransaction, CallInv
<1>n. ASSUME NEW t \in Threads,
             \/ Contract!TakesPlace(t) \/ Contract!Looks(t) \/ Contract!Drops(t)
             \/ Contract!Returns(t) \/ Contract!Fails(t)
      PROVE  Contract!Next
  BY <1>n DEF Contract!Next
<1>1. ASSUME NEW t \in Threads, Call(t) PROVE Contract!Next
  BY <1>1, CallIsCall DEF Contract!Next
<1>2. ASSUME NEW t \in Threads, Lock(t) PROVE [Contract!Next]_(Contract!vars)
  <2>1. /\ pc[t] = "lock" /\ pc' = [pc EXCEPT ![t] = "begin"]
        /\ UNCHANGED <<db, req, ans, snap, wrote>>
    BY <1>2 DEF Lock, txs
  <2>2. FoundBy(t)' = None
    BY <1>p, <2>1 DEF FoundBy
  <2>3. \A u \in Threads \ {t} : pc'[u] = pc[u]
    BY <1>p, <2>1
  <2>4. Contract!Looks(t) \/ Contract!Drops(t) \/ UNCHANGED Contract!vars
    BY <1>p, <2>1, <2>2, <2>3, StaysUnseen
  <2> QED
    BY <1>n, <2>4
<1>3. ASSUME NEW t \in Threads, Begin(t) PROVE [Contract!Next]_(Contract!vars)
  <2>1. pc[t] = "begin" /\ db' = db /\ UNCHANGED wrote
    BY <1>3 DEF Begin
  <2>2. CASE Leave(t, Error) /\ UNCHANGED snap
    <3>1. Contract!Answered(t, Error)
      BY <2>1, <2>2, LeaveAnswers
    <3> QED
      BY <1>n, <2>1, <3>1, FailsIsFails
  <2>3. CASE /\ snap' = [snap EXCEPT ![Home[t]] = db]
             /\ pc' = [pc EXCEPT ![t] = FirstStatement(req[t].op)]
             /\ UNCHANGED <<lock, req, ans>>
    <3>1. /\ snap'[Home[t]] = db /\ wrote[Home[t]] = None
          /\ \A q \in Processes \ {Home[t]} : snap'[q] = snap[q]
      BY <1>p, <2>1, <2>3, NoneBefore
    <3>2. /\ pc'[t] = FirstStatement(req[t].op)
          /\ \A u \in Threads \ {t} : pc'[u] = pc[u]
      BY <1>p, <2>3
    <3>3. FoundBy(t)' = IF Apply(req[t], db) = db THEN Answer(req[t], db) ELSE None
      <4>1. pc'[t] \in InTransaction
        BY <3>2 DEF FirstStatement, InTransaction
      <4> QED
        BY <2>1, <2>3, <3>1, <4>1 DEF FoundBy
    <3>4. Contract!Looks(t) \/ Contract!Drops(t) \/ UNCHANGED Contract!vars
      BY <1>p, <2>1, <2>3, <3>1, <3>2, <3>3, StaysUnseen
    <3> QED
      BY <1>n, <3>4
  <2> QED
    BY <1>3, <2>2, <2>3 DEF Begin
<1>4. ASSUME NEW t \in Threads, pc[t] \in InTransaction, Retry(t)
      PROVE  [Contract!Next]_(Contract!vars)
  <2>1. /\ db' = db /\ pc[t] \notin {"idle", "lock"}
        /\ \A q \in Processes \ {Home[t]} : snap'[q] = snap[q] /\ wrote'[q] = wrote[q]
    BY <1>4, <1>p DEF Retry, Rollback, Ended
  <2>2. CASE Leave(t, Contention)
    <3>1. Contract!Answered(t, Error)
      BY <2>1, <2>2, LeaveAnswers
    <3> QED
      BY <1>n, <2>1, <3>1, FailsIsFails
  <2>3. CASE /\ pc' = [pc EXCEPT ![t] = "lock"] \/ pc' = [pc EXCEPT ![t] = "begin"]
             /\ UNCHANGED <<req, ans>>
    <3>1. /\ pc'[t] \notin InTransaction
          /\ \A u \in Threads \ {t} : pc'[u] = pc[u]
      BY <1>p, <2>3
    <3>2. FoundBy(t)' = None
      BY <3>1 DEF FoundBy
    <3>3. Contract!Looks(t) \/ Contract!Drops(t) \/ UNCHANGED Contract!vars
      BY <1>p, <2>1, <2>3, <3>1, <3>2, StaysUnseen
    <3> QED
      BY <1>n, <3>3
  <2> QED
    BY <1>4, <2>2, <2>3 DEF Retry, RetryLater
<1>5. ASSUME NEW t \in Threads, pc[t] \in InTransaction \ {"end"},
             NEW rec, NEW next, Did(t, rec, next), Executed(t, rec, next)
      PROVE  [Contract!Next]_(Contract!vars)
  <2>1. /\ Home[t] \in Processes /\ wrote[Home[t]] = None /\ pc[t] \notin {"idle", "lock"}
        /\ next \in InTransaction
    BY <1>5, InTransactionFacts DEF Did, InTransaction
  <2>2. /\ pc'[t] = next /\ \A u \in Threads \ {t} : pc'[u] = pc[u]
        /\ wrote'[Home[t]] = rec
        /\ \A q \in Processes \ {Home[t]} : wrote'[q] = wrote[q]
        /\ UNCHANGED <<db, snap, req, ans>>
    BY <1>5, <1>p, <2>1 DEF Executed
  <2>3. FoundBy(t)' \in {None, FoundBy(t)}
    BY <1>5, <2>1, <2>2 DEF FoundBy
  <2>4. Contract!Looks(t) \/ Contract!Drops(t) \/ UNCHANGED Contract!vars
    BY <1>p, <2>1, <2>2, <2>3, StaysUnseen
  <2> QED
    BY <1>n, <2>4
<1>6. ASSUME NEW t \in Threads, End(t) PROVE Contract!Next
  BY <1>6, <1>n, EndReturns
<1>7. ASSUME NEW t \in Threads, StatementFails(t) PROVE Contract!Next
  <2>1. /\ pc[t] \notin {"idle", "lock"} /\ Home[t] \in Processes /\ Leave(t, Error)
    BY <1>7, InTransactionFacts DEF StatementFails
  <2>2. \A q \in Processes \ {Home[t]} : snap'[q] = snap[q] /\ wrote'[q] = wrote[q]
    BY <1>7, <1>p DEF StatementFails, Rollback, Publish, Ended
  <2>3. db' = db \/ db' = Apply(req[t], db)
    BY <1>7, PublishFacts DEF StatementFails, Rollback
  <2>4. Contract!Answered(t, Error)
    BY <2>1, <2>2, LeaveAnswers
  <2> QED
    BY <1>n, <2>3, <2>4, FailsIsFails
<1>8. ASSUME NEW p \in Processes, Crash(p) PROVE Contract!Next
  BY <1>8, CrashIsDies DEF Contract!Next
<1>9. CASE UNCHANGED vars
  BY <1>9, SameOperations DEF vars, txs, Contract!vars, Found, Told
<1> QED
  BY <1>1, <1>2, <1>3, <1>4, <1>5, <1>6, <1>7, <1>8, <1>9, ThreadSteps
     DEF Next, Terminating

-----------------------------------------------------------------------------
(***************************************************************************)
(* The theorems.                                                           *)
(***************************************************************************)
\* In the initial states nobody is in a call or in a transaction.
LEMMA InvInit == Init => Inv
<1> SUFFICES ASSUME Init PROVE Inv
  OBVIOUS
<1>1. TypeOK
  BY NoRowType, HomeAssumption, BoundsAssumption DEF Init, TypeOK
<1>2. CallInv /\ LockInv /\ SnapInv /\ TxInv
  BY DEF Init, CallInv, LockInv, SnapInv, SnapOf, TxInv, InTx, InTransaction
<1> QED
  BY <1>1, <1>2 DEF Inv

\* The inductive invariant holds.
LEMMA InvAlways == Spec => []Inv
<1>1. Init => Inv
  BY InvInit
<1>2. Inv /\ [Next]_vars => Inv'
  BY NextType, NextCall, NextLock, NextTx DEF Inv
<1> QED
  BY <1>1, <1>2, PTL DEF Spec

\* Whatever is retried, fails or dies, the record and every snapshot is one a
\* record can be, and no call is tried more often than max_retries.
THEOREM TypeCorrect == Spec => []TypeOK
<1>1. Inv => TypeOK
  BY DEF Inv
<1> QED
  BY <1>1, InvAlways, PTL

\* The SELECT of a claim that ran into a record finds it in its snapshot.
THEOREM ConflictReadable == Spec => []ConflictIsReadable
<1>1. Inv => ConflictIsReadable
  BY DEF Inv, TxInv, InTx, ConflictIsReadable
<1> QED
  BY <1>1, InvAlways, PTL

\* The statements of the Postgres adapter, retries included, implement the
\* Store contract: every call that answers took place at one instant, and what
\* a call that raised left behind is the whole operation or nothing.
THEOREM StoreImplemented == Spec => ImplementsStore
<1>1. Init => Contract!Init
  <2> SUFFICES ASSUME Init PROVE Contract!Init
    OBVIOUS
  <2>1. None # Contention
    BY NoneIsNoneOfThese DEF Answers
  <2>2. Found = [t \in Threads |-> None] /\ Told = [t \in Threads |-> None]
    <3>1. \A t \in Threads : FoundBy(t) = None /\ ToldTo(t) = None
      BY <2>1 DEF Init, FoundBy, ToldTo, InTransaction
    <3> QED
      BY <3>1, FoundIs
  <2> QED
    BY <2>2, SameOperations DEF Init, Contract!Init
<1>2. Inv /\ [Next]_vars => [Contract!Next]_(Contract!vars)
  BY StepImplements
<1> QED
  BY <1>1, <1>2, InvAlways, PTL DEF Spec, ImplementsStore, Contract!Spec

-----------------------------------------------------------------------------
(***************************************************************************)
(* What the callers rely on.                                               *)
(***************************************************************************)
\* No operation changes a committed record, and only a release, with its token
\* or with none, deletes one in flight.
LEMMA ApplyKeeps ==
    ASSUME NEW r, NEW rec \in Rows, r.op \in {"claim", "commit", "release", "heartbeat"}
    PROVE  /\ rec.state = "committed" => Apply(r, rec) = rec
           /\ rec.state = "in_flight" /\ Apply(r, rec).state = "fresh"
                 => r.op = "release" /\ r.tok \in {None, rec.token}
<1>1. CASE r.op = "heartbeat"
  <2>1. Apply(r, rec) = BeatRow(rec, r.tok, 2)
    BY <1>1 DEF Apply
  <2>2. BeatRow(rec, r.tok, 2).state = rec.state
    BY SMTT(30) DEF BeatRow, Rows, RowsOf
  <2> QED
    BY <2>1, <2>2 DEF BeatRow, Owns
<1>2. CASE r.op \in {"claim", "commit", "release"}
  BY <1>2 DEF Apply, ClaimRow, CommitRow, ReleaseRow
<1> QED
  BY <1>1, <1>2

\* What changes the record is an operation that some thread asked for.
LEMMA RecordStep ==
    ASSUME Inv, [Next]_vars, db' # db
    PROVE  \E t \in Threads : req[t] # None /\ db' = Apply(req[t], db)
<1>1. Contract!Next
  BY StepImplements DEF Contract!vars
<1>2. ~Contract!Expires /\ \A r \in BagToSet(EmptyBag) : ~Contract!Strays(r)
  BY DEF Contract!Expires, Contract!Strays, BagToSet, EmptyBag, SetToBag
<1>3. \A r \in Contract!BagToSet(EmptyBag) : ~Contract!Strays(r)
  BY DEF Contract!BagToSet, EmptyBag, SetToBag
<1>4. PICK t \in Threads :
         /\ Contract!TakesPlace(t) \/ Contract!Happens(t) \/ Contract!Fails(t)
  BY <1>1, <1>2, <1>3
  DEF Contract!Next, Contract!Call, Contract!Looks, Contract!Drops, Contract!Returns,
      Contract!Resends, Contract!Dies, Contract!Peeks
<1>5. req[t] # None /\ db' = Contract!Apply(req[t], db)
  BY <1>4 DEF Contract!TakesPlace, Contract!Happens, Contract!Fails, Contract!Answered
<1> QED
  BY <1>5, SameOperations

\* A result that was stored stays, whatever call, retry, failure or crash comes
\* after it (commit "MUST be idempotent", src/src/exactly_once/stores/base.py:104-108).
THEOREM ResultKept == Spec => [][db.state = "committed" => db' = db]_vars
<1> DEFINE Kept == db.state = "committed" => db' = db
<1>1. ASSUME Inv, [Next]_vars PROVE Kept
  <2>1. ASSUME NEW t \in Threads, req[t] # None, db' = Apply(req[t], db) PROVE Kept
    <3>1. pc[t] # "idle" /\ db \in Rows
      BY <1>1, <2>1 DEF Inv, CallInv, TypeOK
    <3> QED
      BY <1>1, <2>1, <3>1, RequestType, ApplyKeeps DEF Inv
  <2> QED
    BY <1>1, <2>1, RecordStep
<1>2. Inv /\ [Next]_vars => [Kept]_vars
  BY <1>1
<1> QED
  BY <1>2, InvAlways, PTL DEF Spec

\* A claim is never lost: a record in flight disappears only while a release is
\* under way that names its token or none, however the calls interleave.
THEOREM ClaimKept ==
    Spec => [][db.state = "in_flight" /\ db'.state = "fresh" =>
                  \E t \in Threads : /\ req[t] # None /\ req[t].op = "release"
                                     /\ req[t].tok \in {None, db.token}]_vars
<1> DEFINE Released == \E t \in Threads : /\ req[t] # None /\ req[t].op = "release"
                                          /\ req[t].tok \in {None, db.token}
           Justified == db.state = "in_flight" /\ db'.state = "fresh" => Released
<1>1. ASSUME Inv, [Next]_vars PROVE Justified
  <2>1. ASSUME NEW t \in Threads, req[t] # None, db' = Apply(req[t], db) PROVE Justified
    <3>1. pc[t] # "idle" /\ db \in Rows
      BY <1>1, <2>1 DEF Inv, CallInv, TypeOK
    <3> QED
      BY <1>1, <2>1, <3>1, RequestType, ApplyKeeps DEF Inv
  <2> QED
    BY <1>1, <2>1, RecordStep
<1>2. Inv /\ [Next]_vars => [Justified]_vars
  BY <1>1
<1> QED
  BY <1>2, InvAlways, PTL DEF Spec

\* Only a claim on no record answers FRESH, and creates the record with the
\* token it answers.
LEMMA FreshAnswer ==
    ASSUME NEW r, NEW rec, NEW tok, Answer(r, rec) = Fresh(tok),
           r.op \in {"claim", "commit", "release", "heartbeat"}
    PROVE  /\ rec.state = "fresh"
           /\ Apply(r, rec).state = "in_flight" /\ Apply(r, rec).token = tok
<1>1. /\ Fresh(tok)[1] = "claim" /\ Fresh(tok)[2] = "fresh" /\ Fresh(tok)[3] = tok
      /\ Done[1] = "done" /\ Renewed(Owns(rec, r.tok))[1] = "heartbeat"
      /\ Existing(rec)[2] = rec.state /\ Fresh(r.tok)[3] = r.tok
  BY DEF Fresh, Done, Renewed, Existing
<1>2. r.op = "claim" /\ rec.state = "fresh"
  BY <1>1 DEF Answer
<1>3. tok = r.tok
  BY <1>1, <1>2 DEF Answer
<1> QED
  BY <1>2, <1>3 DEF Apply, ClaimRow

\* A caller that is answered FRESH is the one whose token the record carries
\* from that instant on, and the key had no record before: with ClaimKept, at most
\* one of concurrent claims sees FRESH until that claim is released
\* ("exactly one caller sees FRESH", src/src/exactly_once/stores/base.py:50).
THEOREM FreshIsOwner ==
    Spec => [][\A t \in Threads, tok \in Tokens :
                  ans'[t] = Fresh(tok) /\ ans'[t] \notin {ans[t], None} =>
                     /\ db.state = "fresh"
                     /\ db'.state = "in_flight" /\ db'.token = tok]_vars
<1> DEFINE Owner == \A t \in Threads, tok \in Tokens :
                       ans'[t] = Fresh(tok) /\ ans'[t] \notin {ans[t], None} =>
                          /\ db.state = "fresh"
                          /\ db'.state = "in_flight" /\ db'.token = tok
<1>1. ASSUME Inv, [Next]_vars PROVE Owner
  <2> SUFFICES ASSUME NEW t \in Threads, NEW tok \in Tokens,
                      ans'[t] = Fresh(tok), ans'[t] \notin {ans[t], None}
               PROVE  /\ db.state = "fresh"
                      /\ db'.state = "in_flight" /\ db'.token = tok
    OBVIOUS
  <2>0. /\ Told'[t] = Fresh(tok) /\ Told[t] # Fresh(tok) /\ Fresh(tok) \notin {Error, None}
        /\ Told = [u \in Threads |-> ToldTo(u)]
        /\ \A u \in Threads : ~Contract!HasTakenPlace(u)
    <3>1. Fresh(tok) # Contention /\ Fresh(tok) # Error
      BY DEF Fresh, Contention, Error
    <3>2. Told'[t] = ToldTo(t)' /\ Told[t] = ToldTo(t)
      BY Zenon DEF Told, ToldTo
    <3> QED
      BY <1>1, <3>1, <3>2, NotYet, FoundIs DEF ToldTo
  <2>1. Contract!Next
    BY <1>1, <2>0, StepImplements DEF Contract!vars
  <2>2. ASSUME NEW u \in Threads, NEW a, Contract!Answered(u, a) PROVE u = t /\ a = Fresh(tok)
    BY <2>0, <2>2 DEF Contract!Answered
  <2>3. ~Contract!Fails(t) /\ ~Contract!Returns(t)
    <3>1. ~Contract!Fails(t)
      BY <2>0, <2>2, SameOperations DEF Contract!Fails
    <3>2. CASE Contract!Returns(t)
      <4>1. FoundBy(t) = Fresh(tok) /\ FoundBy(t) # None
        BY <2>0, <2>2, <3>2, FoundIs DEF Contract!Returns
      <4>2. /\ pc[t] \in InTransaction
            /\ Apply(req[t], snap[Home[t]]) = snap[Home[t]]
            /\ Answer(req[t], snap[Home[t]]) = Fresh(tok)
        BY <4>1 DEF FoundBy
      <4>3. req[t].op \in {"claim", "commit", "release", "heartbeat"}
        BY <1>1, <4>2, RequestType DEF Inv, InTransaction
      <4>4. FALSE
        BY <4>2, <4>3, FreshAnswer
      <4> QED
        BY <4>4
    <3> QED
      BY <3>1, <3>2
  <2>4. Contract!TakesPlace(t)
    <3>1. \A r \in Contract!BagToSet(EmptyBag) : ~Contract!Strays(r)
      BY DEF Contract!BagToSet, EmptyBag, SetToBag
    <3>2. ~Contract!Expires
      BY DEF Contract!Expires
    <3>3. \A u \in Threads : /\ ~Contract!Call(u, req'[u]) /\ ~Contract!Happens(u)
                             /\ ~Contract!Looks(u) /\ ~Contract!Drops(u)
                             /\ ~Contract!Resends(u)
      BY <2>0 DEF Contract!Call, Contract!Happens, Contract!Looks, Contract!Drops,
                  Contract!Resends
    <3>4. \A T \in SUBSET Threads : ~Contract!Dies(T)
      BY <2>0 DEF Contract!Dies
    <3>7. \A u \in Threads : ~Contract!Peeks(u)
      BY DEF Contract!Peeks
    <3>5. PICK u \in Threads :
             Contract!TakesPlace(u) \/ Contract!Returns(u) \/ Contract!Fails(u)
      BY <2>1, <3>1, <3>2, <3>3, <3>4, <3>7 DEF Contract!Next
    <3>6. u = t
      BY <2>2, <3>5 DEF Contract!TakesPlace, Contract!Returns, Contract!Fails
    <3> QED
      BY <2>3, <3>5, <3>6
  <2>5. /\ req[t] # None /\ Answer(req[t], db) = Fresh(tok)
        /\ db' = Apply(req[t], db)
    <3>1. /\ Contract!Answered(t, Contract!Answer(req[t], db))
          /\ db' = Contract!Apply(req[t], db)
      BY <2>4 DEF Contract!TakesPlace
    <3>2. Contract!Answer(req[t], db) = Fresh(tok)
      BY <2>2, <3>1
    <3>3. req[t] # None
      BY <3>1 DEF Contract!Answered
    <3> QED
      BY <3>1, <3>2, <3>3, SameOperations
  <2>6. req[t].op \in {"claim", "commit", "release", "heartbeat"}
    BY <1>1, <2>5, RequestType DEF Inv, CallInv
  <2> QED
    BY <2>5, <2>6, FreshAnswer
<1>2. Inv /\ [Next]_vars => [Owner]_vars
  BY <1>1
<1> QED
  BY <1>2, InvAlways, PTL DEF Spec
=============================================================================
