--------------------------- MODULE OnchainProofs ---------------------------
(***************************************************************************)
(* With a pinned nonce, which by itself makes all broadcasts one           *)
(* transaction, the ledger of the onchain adapter keeps to what was        *)
(* broadcast, for any number of concurrent callers that adopt each other's *)
(* claims without a lease, and any chain.                                  *)
(***************************************************************************)
EXTENDS Onchain, TLAPS

\* The row operations keep a row's type.
LEMMA RowType ==
    ASSUME NEW row \in RowsOf(Nonces, {}, Tokens), NEW t \in Tokens,
           NEW h \in Nonces \cup {None}, NEW s \in Tokens \cup {None}
    PROVE  /\ ClaimRow(row, t, None, None) \in RowsOf(Nonces, {}, Tokens)
           /\ CommitRow(row, h) \in RowsOf(Nonces, {}, Tokens)
           /\ ReleaseRow(row, s) \in RowsOf(Nonces, {}, Tokens)
BY SMTT(30) DEF RowsOf, States, ClaimRow, CommitRow, ReleaseRow, NoRow

\* A call that has started has its nonce.
Placed == \A c \in Calls : pc[c] # "idle" => nonce[c] \in Nonces

TypeInv == TypeOK /\ Placed

\* Every step keeps the types of TypeOK, and the nonces of started calls.
LEMMA NextType == TypeInv /\ [Next]_vars => TypeInv'
<1> SUFFICES ASSUME TypeInv, [Next]_vars PROVE TypeInv'
  OBVIOUS
<1> USE DEF TypeInv, TypeOK, Placed, Ended, chain
<1>t. \A c \in Calls : <<c, 1>> \in Tokens /\ <<c, 2>> \in Tokens
  BY DEF Tokens
<1>n. ASSUME NEW c \in Calls, pc[c] # "idle"
      PROVE  /\ nonce[c] \in Nonces
             /\ rows[nonce[c]] \in RowsOf(Nonces, {}, Tokens)
             /\ rows[nonce[c]].token \in Tokens \cup {None}
             /\ rows[nonce[c]].result \in Nonces \cup {None}
  BY <1>n DEF RowsOf
<1>c. ASSUME NEW c \in Calls, Claim(c) \/ Reclaim(c) \/ Release(c)
                              \/ Backfill(c) \/ Commit(c)
      PROVE  rows' \in [Nonces -> RowsOf(Nonces, {}, Tokens)]
  <2>1. /\ nonce[c] \in Nonces /\ rows[nonce[c]] \in RowsOf(Nonces, {}, Tokens)
    BY <1>c, <1>n, SMTT(30) DEF Claim, Reclaim, Release, Backfill, Commit
  <2>2. \E row \in RowsOf(Nonces, {}, Tokens) :
           rows' = [rows EXCEPT ![nonce[c]] = row]
    <3>1. CASE Claim(c)
      BY <3>1, <2>1, <1>t, RowType DEF Claim
    <3>2. CASE Reclaim(c)
      BY <3>2, <2>1, <1>t, RowType DEF Reclaim
    <3>3. CASE Release(c)
      BY <3>3, <2>1, <1>t, RowType DEF Release
    <3>4. CASE Backfill(c) \/ Commit(c)
      BY <3>4, <2>1, <1>t, RowType DEF Backfill, Commit
    <3> QED
      BY <1>c, <3>1, <3>2, <3>3, <3>4
  <2> QED
    BY <2>1, <2>2
<1>1. ASSUME NEW c \in Calls, Start(c) PROVE TypeInv'
  BY <1>1, PinnedAssumption, SMTT(30) DEF Start, Nonces, PendingNonces
<1>2. ASSUME NEW c \in Calls, Claim(c) PROVE TypeInv'
  <2>1. rows' \in [Nonces -> RowsOf(Nonces, {}, Tokens)]
    BY <1>2, <1>c
  <2>2. /\ pc[c] # "idle" /\ rows[nonce[c]].token \in Tokens \cup {None}
        /\ rows[nonce[c]].result \in Nonces \cup {None}
    BY <1>2, <1>n DEF Claim
  <2>3. TypeOK'
    BY <1>2, <2>1, <2>2, SMTT(30) DEF Claim
  <2>4. Placed'
    BY <1>2, SMTT(30) DEF Claim
  <2> QED
    BY <2>3, <2>4
<1>3. ASSUME NEW c \in Calls, ProbeStatus(c) \/ ProbeNonce(c) PROVE TypeInv'
  BY <1>3, SMTT(30) DEF ProbeStatus, ProbeNonce
<1>4. ASSUME NEW c \in Calls, Backfill(c) \/ Release(c) \/ Commit(c) PROVE TypeInv'
  BY <1>4, <1>c, SMTT(30) DEF Backfill, Release, Commit
<1>5. ASSUME NEW c \in Calls, Reclaim(c) PROVE TypeInv'
  <2>1. rows' \in [Nonces -> RowsOf(Nonces, {}, Tokens)]
    BY <1>5, <1>c
  <2>2. /\ pc[c] # "idle" /\ rows[nonce[c]].token \in Tokens \cup {None}
        /\ rows[nonce[c]].result \in Nonces \cup {None}
    BY <1>5, <1>n DEF Reclaim
  <2>3. TypeOK'
    BY <1>5, <2>1, <2>2, SMTT(30) DEF Reclaim
  <2>4. Placed'
    BY <1>5, SMTT(30) DEF Reclaim
  <2> QED
    BY <2>3, <2>4
<1>6. ASSUME NEW c \in Calls, Send(c) PROVE TypeInv'
  BY <1>6, <1>n, SMTT(30) DEF Send
<1>7. ASSUME NEW c \in Calls, Crash(c) PROVE TypeInv'
  BY <1>7, SMTT(30) DEF Crash
<1>8. ASSUME Mine("ours") \/ Mine("foreign") PROVE TypeInv'
  BY <1>8, SMTT(30) DEF Mine
<1>9. ASSUME NEW n \in Nonces, Drop(n) PROVE TypeInv'
  BY <1>9, SMTT(30) DEF Drop
<1>10. CASE UNCHANGED vars
  BY <1>10 DEF vars
<1> QED
  BY <1>1, <1>2, <1>3, <1>4, <1>5, <1>6, <1>7, <1>8, <1>9, <1>10
  DEF Next, Terminating

\* Every variable of the adapter's model keeps its type, for any calls.
THEOREM OnchainType == Spec => []TypeOK
<1>1. Init => TypeInv
  BY SMTT(30) DEF Init, TypeInv, TypeOK, Placed, NoRow, RowsOf, States
<1>2. TypeInv => TypeOK
  BY DEF TypeInv
<1> QED
  BY <1>1, <1>2, NextType, PTL DEF Spec

-----------------------------------------------------------------------------
(***************************************************************************)
(* One hash, when the nonce is pinned.                                     *)
(***************************************************************************)
\* Only the pinned nonce is used; a hash that somebody is about to store or
\* was given, and the one stored, is that of a transaction that was broadcast.
CallHash ==
    \A c \in Calls :
       /\ pc[c] # "idle" => nonce[c] = Pinned
       /\ ret[c] \in {None, Pinned}
       /\ pc[c] \in {"backfill", "commit", "returned"}
             => ret[c] = Pinned /\ Pinned \in sent

RowHash ==
    /\ rows[Pinned].result \in {None, Pinned}
    /\ rows[Pinned].result = Pinned => Pinned \in sent
    /\ rows[Pinned].state = "committed" <=> rows[Pinned].result = Pinned

ChainHash ==
    /\ sent \subseteq {Pinned}
    /\ slot[Pinned] = "ours" => Pinned \in sent

HashInv == TypeInv /\ CallHash /\ RowHash /\ ChainHash

\* The pinned nonce is a nonce.
LEMMA PinnedIsNonce == ASSUME Pinned # None PROVE Pinned \in Nonces /\ None \notin Nonces
BY PinnedAssumption, NoneAssumption DEF Nonces

\* What a call observes and writes keeps to the one hash.
LEMMA HashNext == ASSUME Pinned # None, HashInv, [Next]_vars PROVE HashInv'
<1>t. TypeInv'
  BY NextType DEF HashInv
<1>p. Pinned \in Nonces /\ None \notin Nonces
  BY PinnedIsNonce
<1>y. /\ rows \in [Nonces -> RowsOf(Nonces, {}, Tokens)]
      /\ pc \in [Calls -> Ended \cup {"idle", "claim", "status", "latest", "backfill",
                                      "release", "reclaim", "send", "commit"}]
      /\ nonce \in [Calls -> Nonces \cup {None}]
      /\ ret \in [Calls -> Nonces \cup {None}]
      /\ slot \in [Nonces -> {"free", "ours", "foreign"}]
      /\ sent \subseteq Nonces /\ pool \subseteq sent
  BY DEF HashInv, TypeInv, TypeOK
<1>i. CallHash /\ RowHash /\ ChainHash
  BY DEF HashInv
<1>n. ASSUME NEW c \in Calls
      PROVE  /\ pc[c] # "idle" => nonce[c] = Pinned
             /\ ret[c] \in {None, Pinned}
             /\ pc[c] \in {"backfill", "commit", "returned"}
                   => ret[c] = Pinned /\ Pinned \in sent
  BY <1>i DEF CallHash
<1>m. ASSUME NEW c \in Calls, NEW p, UNCHANGED <<nonce, ret, sent>>,
             pc[c] # "idle", pc' = [pc EXCEPT ![c] = p],
             p \notin {"backfill", "commit", "returned"}
                \/ (ret[c] = Pinned /\ Pinned \in sent)
      PROVE  CallHash'
  BY <1>m, <1>i, <1>y, SMTT(30) DEF CallHash
<1>r. ASSUME NEW c \in Calls, NEW h, nonce' = nonce, sent \subseteq sent',
             pc[c] # "idle", h = Pinned, Pinned \in sent', NEW p, p # "idle",
             pc' = [pc EXCEPT ![c] = p], ret' = [ret EXCEPT ![c] = h]
      PROVE  CallHash'
  BY <1>r, <1>i, <1>y, SMTT(30) DEF CallHash
<1>c. ASSUME UNCHANGED <<pc, nonce, ret, sent>> PROVE CallHash'
  BY <1>c, <1>i DEF CallHash
<1>s. ASSUME UNCHANGED <<rows, sent>> PROVE RowHash'
  BY <1>s, <1>i DEF RowHash
<1>h. ASSUME UNCHANGED <<slot, sent>> PROVE ChainHash'
  BY <1>h, <1>i DEF ChainHash
<1>1. ASSUME NEW c \in Calls, Start(c) PROVE HashInv'
  <2>1. CallHash'
    BY <1>1, <1>y, <1>i, SMTT(30) DEF Start, CallHash, chain
  <2> QED
    BY <1>1, <2>1, <1>t, <1>s, <1>h DEF Start, chain, HashInv
<1>2. ASSUME NEW c \in Calls, Claim(c) \/ Reclaim(c) PROVE HashInv'
  <2>1. /\ nonce[c] = Pinned /\ pc[c] # "idle"
        /\ UNCHANGED <<nonce, slot, sent>>
    BY <1>2, <1>n DEF Claim, Reclaim, chain
  <2>2. RowHash'
    <3>1. PICK tk : rows' = [rows EXCEPT ![Pinned] = ClaimRow(@, tk, None, None)]
      BY <1>2, <2>1 DEF Claim, Reclaim
    <3>2. rows'[Pinned] = ClaimRow(rows[Pinned], tk, None, None)
      BY <3>1, <1>y, <1>p
    <3>3. /\ rows'[Pinned].result = rows[Pinned].result \/ rows'[Pinned].result = None
          /\ rows[Pinned].state = "fresh" =>
                rows'[Pinned].state = "in_flight" /\ rows'[Pinned].result = None
          /\ rows[Pinned].state # "fresh" => rows'[Pinned] = rows[Pinned]
      BY <3>2, SMTT(30) DEF ClaimRow
    <3> QED
      BY <3>3, <2>1, <1>i, <1>p, SMTT(30) DEF RowHash
  <2>3. CallHash'
    <3>1. \/ \E p \in {"send", "status", "denied"} :
                pc' = [pc EXCEPT ![c] = p] /\ ret' = ret
          \/ /\ rows[Pinned].state = "committed"
             /\ pc' = [pc EXCEPT ![c] = "returned"]
             /\ ret' = [ret EXCEPT ![c] = rows[Pinned].result]
      BY <1>2, <2>1, Zenon DEF Claim, Reclaim
    <3>2. CASE \E p \in {"send", "status", "denied"} :
                pc' = [pc EXCEPT ![c] = p] /\ ret' = ret
      BY <3>2, <2>1, <1>m
    <3>3. CASE /\ rows[Pinned].state = "committed"
               /\ pc' = [pc EXCEPT ![c] = "returned"]
               /\ ret' = [ret EXCEPT ![c] = rows[Pinned].result]
      <4>1. rows[Pinned].result = Pinned /\ Pinned \in sent
        BY <3>3, <1>i DEF RowHash
      <4> QED
        BY <3>3, <4>1, <2>1, <1>r
    <3> QED
      BY <3>1, <3>2, <3>3
  <2> QED
    BY <2>1, <2>2, <2>3, <1>t, <1>h DEF HashInv
<1>3. ASSUME NEW c \in Calls, ProbeStatus(c) PROVE HashInv'
  <2>1. /\ nonce[c] = Pinned /\ pc[c] # "idle"
        /\ UNCHANGED <<rows, nonce, slot, sent>>
    BY <1>3, <1>n DEF ProbeStatus, chain
  <2>2. CallHash'
    <3>1. CASE /\ slot[Pinned] = "ours"
               /\ pc' = [pc EXCEPT ![c] = "backfill"]
               /\ ret' = [ret EXCEPT ![c] = Pinned]
      BY <3>1, <2>1, <1>r, <1>i DEF ChainHash
    <3>2. CASE \E p \in {"denied", "latest"} :
                  pc' = [pc EXCEPT ![c] = p] /\ ret' = ret
      BY <3>2, <2>1, <1>m
    <3> QED
      BY <3>1, <3>2, <2>1, <1>3, Zenon DEF ProbeStatus
  <2> QED
    BY <2>1, <2>2, <1>t, <1>s, <1>h DEF HashInv
<1>4. ASSUME NEW c \in Calls, ProbeNonce(c) \/ Crash(c) PROVE HashInv'
  <2>1. UNCHANGED <<rows, nonce, ret, slot, sent>> /\ pc[c] # "idle"
    BY <1>4 DEF ProbeNonce, Crash, chain
  <2>2. \E p \in {"denied", "release", "crashed"} : pc' = [pc EXCEPT ![c] = p]
    BY <1>4, SMTT(30) DEF ProbeNonce, Crash
  <2>3. CallHash'
    BY <2>1, <2>2, <1>m
  <2> QED
    BY <2>1, <2>3, <1>t, <1>s, <1>h DEF HashInv
<1>5. ASSUME NEW c \in Calls, Backfill(c) \/ Commit(c) PROVE HashInv'
  <2>1. /\ nonce[c] = Pinned /\ ret[c] = Pinned /\ Pinned \in sent
        /\ pc[c] # "idle" /\ pc' = [pc EXCEPT ![c] = "returned"]
        /\ UNCHANGED <<nonce, ret, slot, sent>>
    BY <1>5, <1>n DEF Backfill, Commit, chain
  <2>2. rows'[Pinned] = CommitRow(rows[Pinned], Pinned)
    BY <1>5, <2>1, <1>y, <1>p DEF Backfill, Commit
  <2>3. RowHash'
    BY <2>1, <2>2, <1>i, <1>p, SMTT(30) DEF RowHash, CommitRow
  <2>4. CallHash'
    BY <2>1, <1>m
  <2> QED
    BY <2>1, <2>3, <2>4, <1>t, <1>h DEF HashInv
<1>6. ASSUME NEW c \in Calls, Release(c) PROVE HashInv'
  <2>1. /\ nonce[c] = Pinned /\ pc[c] # "idle"
        /\ pc' = [pc EXCEPT ![c] = "reclaim"]
        /\ UNCHANGED <<nonce, ret, slot, sent>>
    BY <1>6, <1>n DEF Release, chain
  <2>2. rows'[Pinned] = ReleaseRow(rows[Pinned], seen[c])
    BY <1>6, <2>1, <1>y, <1>p DEF Release
  <2>3. RowHash'
    BY <2>1, <2>2, <1>i, <1>p, SMTT(30) DEF RowHash, ReleaseRow, NoRow
  <2>4. CallHash'
    BY <2>1, <1>m
  <2> QED
    BY <2>1, <2>3, <2>4, <1>t, <1>h DEF HashInv
<1>7. ASSUME NEW c \in Calls, Send(c) PROVE HashInv'
  <2>1. nonce[c] = Pinned /\ pc[c] = "send" /\ UNCHANGED <<rows, nonce, slot>>
    BY <1>7, <1>n DEF Send
  <2>2. \/ /\ sent' = sent \cup {Pinned}
           /\ \E p \in {"commit", "raised"} : pc' = [pc EXCEPT ![c] = p]
           /\ ret' = [ret EXCEPT ![c] = Pinned]
        \/ /\ Pinned \in pool \/ slot[Pinned] = "ours"
           /\ pc' = [pc EXCEPT ![c] = "commit"]
           /\ ret' = [ret EXCEPT ![c] = Pinned]
           /\ UNCHANGED sent
        \/ pc' = [pc EXCEPT ![c] = "raised"] /\ UNCHANGED <<ret, sent>>
    BY <1>7, <2>1, Zenon DEF Send
  <2>3. CASE /\ sent' = sent \cup {Pinned}
             /\ \E p \in {"commit", "raised"} : pc' = [pc EXCEPT ![c] = p]
             /\ ret' = [ret EXCEPT ![c] = Pinned]
    <3>1. CallHash'
      BY <2>3, <2>1, <1>r
    <3>2. RowHash' /\ ChainHash'
      BY <2>3, <2>1, <1>i DEF RowHash, ChainHash
    <3> QED
      BY <3>1, <3>2, <1>t DEF HashInv
  <2>4. CASE /\ Pinned \in pool \/ slot[Pinned] = "ours"
             /\ pc' = [pc EXCEPT ![c] = "commit"]
             /\ ret' = [ret EXCEPT ![c] = Pinned]
             /\ UNCHANGED sent
    <3>1. Pinned \in sent
      BY <2>4, <1>i, <1>y DEF ChainHash
    <3>2. CallHash'
      BY <2>4, <3>1, <2>1, <1>r
    <3> QED
      BY <2>4, <2>1, <3>2, <1>t, <1>s, <1>h DEF HashInv
  <2>5. CASE pc' = [pc EXCEPT ![c] = "raised"] /\ UNCHANGED <<ret, sent>>
    BY <2>5, <2>1, <1>m, <1>t, <1>s, <1>h DEF HashInv
  <2> QED
    BY <2>2, <2>3, <2>4, <2>5
<1>8. ASSUME Mine("ours") \/ Mine("foreign") PROVE HashInv'
  <2>1. UNCHANGED <<rows, pc, nonce, ret, sent>>
    BY <1>8 DEF Mine
  <2>2. ChainHash'
    BY <1>8, <2>1, <1>i, <1>y, <1>p, SMTT(30) DEF Mine, ChainHash
  <2> QED
    BY <2>1, <2>2, <1>t, <1>c, <1>s DEF HashInv
<1>9. ASSUME NEW n \in Nonces, Drop(n) PROVE HashInv'
  BY <1>9, <1>t, <1>c, <1>s, <1>h DEF Drop, HashInv
<1>10. CASE UNCHANGED vars
  BY <1>10, <1>t, <1>c, <1>s, <1>h DEF vars, HashInv
<1> QED
  BY <1>1, <1>2, <1>3, <1>4, <1>5, <1>6, <1>7, <1>8, <1>9, <1>10
  DEF Next, Terminating

\* The one hash is an invariant of every run with a pinned nonce.
THEOREM OneHash == ASSUME Pinned # None PROVE Spec => []HashInv
<1>1. Init => HashInv
  <2> SUFFICES ASSUME Init PROVE HashInv
    OBVIOUS
  <2>1. TypeInv
    BY SMTT(30) DEF Init, TypeInv, TypeOK, Placed, NoRow, RowsOf, States
  <2>2. CallHash /\ RowHash /\ ChainHash
    BY PinnedIsNonce, SMTT(30) DEF Init, CallHash, RowHash, ChainHash, NoRow
  <2> QED
    BY <2>1, <2>2 DEF HashInv
<1>2. HashInv /\ [Next]_vars => HashInv'
  BY HashNext
<1> QED
  BY <1>1, <1>2, PTL DEF Spec

\* A call that returns adds its answer, and only that.
LEMMA AnswerAdded ==
    ASSUME TypeOK, NEW c \in Calls, NEW r, pc[c] # "returned",
           pc' = [pc EXCEPT ![c] = "returned"], ret'[c] = r,
           \A d \in Calls \ {c} : ret'[d] = ret[d]
    PROVE  Answers' = Answers \cup {<<c, r>>}
BY SMTT(30) DEF Answers, TypeOK

\* A step with which nobody returns, and which changes what no call that
\* returned was given, changes no answer.
LEMMA AnswersKept ==
    ASSUME NEW R \in SUBSET Calls,
           R = {c \in Calls : pc[c] = "returned"},
           R = {c \in Calls : pc'[c] = "returned"},
           \A c \in R : ret'[c] = ret[c]
    PROVE  Answers' = Answers
BY SMTT(30) DEF Answers

\* Every step of the adapter is a step of the promise, or changes nothing
\* that it speaks of.
LEMMA PromiseStep ==
    ASSUME Pinned # None, HashInv, [Next]_vars
    PROVE  [Promise!Next]_(Promise!vars)
<1> USE DEF Promise!vars
<1>p. Pinned \in Nonces /\ None \notin Nonces
  BY PinnedIsNonce
<1>y. /\ TypeOK
      /\ rows \in [Nonces -> RowsOf(Nonces, {}, Tokens)]
      /\ pc \in [Calls -> Ended \cup {"idle", "claim", "status", "latest", "backfill",
                                      "release", "reclaim", "send", "commit"}]
      /\ ret \in [Calls -> Nonces \cup {None}]
      /\ pool \subseteq sent
  BY DEF HashInv, TypeInv, TypeOK
<1>s. Stored = rows[Pinned].result /\ Stored' = rows'[Pinned].result
  BY DEF Stored
<1>i. /\ sent \subseteq {Pinned}
      /\ rows[Pinned].result \in {None, Pinned}
      /\ rows[Pinned].result = Pinned => Pinned \in sent
      /\ rows[Pinned].state = "committed" <=> rows[Pinned].result = Pinned
      /\ slot[Pinned] = "ours" => Pinned \in sent
  BY DEF HashInv, RowHash, ChainHash
<1>n. ASSUME NEW c \in Calls
      PROVE  /\ pc[c] # "idle" => nonce[c] = Pinned
             /\ pc[c] \in {"backfill", "commit", "returned"}
                   => ret[c] = Pinned /\ Pinned \in sent
  BY DEF HashInv, CallHash
<1>a. ASSUME NEW c \in Calls, NEW p, pc[c] # "returned", p # "returned",
             pc' = [pc EXCEPT ![c] = p], \A d \in Calls \ {c} : ret'[d] = ret[d]
      PROVE  Answers' = Answers
  <2> DEFINE R == {d \in Calls : pc[d] = "returned"}
  <2>1. R = {d \in Calls : pc'[d] = "returned"}
    BY <1>a, <1>y, SMTT(30)
  <2>2. \A d \in R : ret'[d] = ret[d]
    BY <1>a
  <2> QED
    BY <2>1, <2>2, AnswersKept
<1>k. ASSUME NEW c \in Calls, NEW p, pc[c] # "returned", p # "returned",
             pc' = [pc EXCEPT ![c] = p], \A d \in Calls \ {c} : ret'[d] = ret[d],
             sent' = sent, rows'[Pinned].result = rows[Pinned].result
      PROVE  UNCHANGED Promise!vars
  BY <1>k, <1>a, <1>s
<1>g. ASSUME UNCHANGED <<sent, pc, ret, rows>> PROVE UNCHANGED Promise!vars
  BY <1>g, <1>s DEF Answers
<1>1. ASSUME NEW c \in Calls, Start(c) PROVE UNCHANGED Promise!vars
  BY <1>1, <1>k DEF Start, chain
<1>2. ASSUME NEW c \in Calls, Claim(c) \/ Reclaim(c)
      PROVE  [Promise!Next]_(Promise!vars)
  <2>1. /\ nonce[c] = Pinned /\ pc[c] \notin {"idle", "returned"}
        /\ sent' = sent
    BY <1>2, <1>n DEF Claim, Reclaim, chain
  <2>2. PICK tk : rows' = [rows EXCEPT ![Pinned] = ClaimRow(@, tk, None, None)]
    BY <1>2, <2>1 DEF Claim, Reclaim
  <2>3. rows'[Pinned] = ClaimRow(rows[Pinned], tk, None, None)
    BY <2>2, <1>y, <1>p
  <2>4. rows'[Pinned].result = rows[Pinned].result
    BY <2>3, <1>i, <1>p, SMTT(30) DEF ClaimRow
  <2>5. \/ \E p \in {"send", "status", "denied"} :
              pc' = [pc EXCEPT ![c] = p] /\ ret' = ret
        \/ /\ rows[Pinned].state = "committed"
           /\ pc' = [pc EXCEPT ![c] = "returned"]
           /\ ret' = [ret EXCEPT ![c] = rows[Pinned].result]
    BY <1>2, <2>1, Zenon DEF Claim, Reclaim
  <2>6. CASE \E p \in {"send", "status", "denied"} :
              pc' = [pc EXCEPT ![c] = p] /\ ret' = ret
    BY <2>6, <2>1, <2>4, <1>k
  <2>7. CASE /\ rows[Pinned].state = "committed"
             /\ pc' = [pc EXCEPT ![c] = "returned"]
             /\ ret' = [ret EXCEPT ![c] = rows[Pinned].result]
    <3>1. ret'[c] = Stored /\ \A d \in Calls \ {c} : ret'[d] = ret[d]
      BY <2>7, <1>y, <1>s
    <3>2. Answers' = Answers \cup {<<c, Stored>>}
      BY <3>1, <2>7, <2>1, <1>y, AnswerAdded
    <3>3. Stored # None /\ Stored' = Stored
      BY <2>7, <2>4, <1>s, <1>i, <1>p
    <3>4. Promise!Answer(c)
      BY <3>2, <3>3, <2>1 DEF Promise!Answer
    <3> QED
      BY <3>4 DEF Promise!Next
  <2> QED
    BY <2>5, <2>6, <2>7
<1>3. ASSUME NEW c \in Calls, ProbeStatus(c) PROVE UNCHANGED Promise!vars
  <2>1. /\ pc[c] = "status" /\ UNCHANGED <<rows, sent>>
        /\ \E p \in {"backfill", "denied", "latest"} : pc' = [pc EXCEPT ![c] = p]
    BY <1>3, SMTT(30) DEF ProbeStatus, chain
  <2>2. \A d \in Calls \ {c} : ret'[d] = ret[d]
    BY <1>3, <1>y DEF ProbeStatus
  <2> QED
    BY <2>1, <2>2, <1>k
<1>4. ASSUME NEW c \in Calls, ProbeNonce(c) \/ Crash(c) PROVE UNCHANGED Promise!vars
  <2>1. /\ UNCHANGED <<rows, ret, sent>> /\ pc[c] # "returned"
        /\ \E p \in {"denied", "release", "crashed"} : pc' = [pc EXCEPT ![c] = p]
    BY <1>4, SMTT(30) DEF ProbeNonce, Crash, chain, Ended
  <2> QED
    BY <2>1, <1>k
<1>5. ASSUME NEW c \in Calls, Backfill(c) \/ Commit(c)
      PROVE  Promise!Next
  <2>1. /\ nonce[c] = Pinned /\ ret[c] = Pinned /\ Pinned \in sent
        /\ pc[c] # "returned" /\ pc' = [pc EXCEPT ![c] = "returned"]
        /\ UNCHANGED <<ret, sent>>
    BY <1>5, <1>n DEF Backfill, Commit, chain
  <2>2. rows'[Pinned] = CommitRow(rows[Pinned], Pinned)
    BY <1>5, <2>1, <1>y, <1>p DEF Backfill, Commit
  <2>3. Stored' = Pinned
    BY <2>2, <1>i, <1>s, SMTT(30) DEF CommitRow
  <2>4. Answers' = Answers \cup {<<c, Pinned>>}
    BY <2>1, <1>y, AnswerAdded
  <2>5. CASE Stored = None
    <3>1. Promise!Store(Pinned)
      BY <2>1, <2>3, <2>4, <2>5 DEF Promise!Store
    <3> QED
      BY <3>1, <1>p DEF Promise!Next
  <2>6. CASE Stored # None
    <3>1. Stored = Pinned
      BY <2>6, <1>s, <1>i
    <3>2. Promise!Answer(c)
      BY <2>1, <2>3, <2>4, <2>6, <3>1 DEF Promise!Answer
    <3> QED
      BY <3>2 DEF Promise!Next
  <2> QED
    BY <2>5, <2>6
<1>6. ASSUME NEW c \in Calls, Release(c) PROVE UNCHANGED Promise!vars
  <2>1. /\ nonce[c] = Pinned /\ pc[c] # "returned"
        /\ pc' = [pc EXCEPT ![c] = "reclaim"] /\ UNCHANGED <<ret, sent>>
    BY <1>6, <1>n DEF Release, chain
  <2>2. rows'[Pinned] = ReleaseRow(rows[Pinned], seen[c])
    BY <1>6, <2>1, <1>y, <1>p DEF Release
  <2>3. rows'[Pinned].result = rows[Pinned].result
    BY <2>2, <1>i, <1>p, SMTT(30) DEF ReleaseRow, NoRow
  <2> QED
    BY <2>1, <2>3, <1>k
<1>7. ASSUME NEW c \in Calls, Send(c) PROVE [Promise!Next]_(Promise!vars)
  <2>1. nonce[c] = Pinned /\ pc[c] = "send" /\ rows' = rows
    BY <1>7, <1>n DEF Send
  <2>2. /\ \E p \in {"commit", "raised"} : pc' = [pc EXCEPT ![c] = p]
        /\ \A d \in Calls \ {c} : ret'[d] = ret[d]
        /\ sent' = sent \cup {Pinned} \/ sent' = sent
    BY <1>7, <2>1, <1>y, SMTT(30) DEF Send
  <2>3. CASE sent' = sent
    BY <2>1, <2>2, <2>3, <1>k
  <2>4. CASE sent' # sent
    <3>1. sent = {} /\ sent' = {Pinned}
      BY <2>2, <2>4, <1>i
    <3>2. UNCHANGED <<Stored, Answers>>
      BY <2>1, <2>2, <1>s, <1>a
    <3>3. Promise!Happen(Pinned)
      BY <3>1, <3>2 DEF Promise!Happen
    <3> QED
      BY <3>3, <1>p DEF Promise!Next
  <2> QED
    BY <2>3, <2>4
<1>8. ASSUME Mine("ours") \/ Mine("foreign") PROVE UNCHANGED Promise!vars
  BY <1>8, <1>g DEF Mine
<1>9. ASSUME NEW n \in Nonces, Drop(n) PROVE UNCHANGED Promise!vars
  BY <1>9, <1>g DEF Drop
<1>10. CASE UNCHANGED vars
  BY <1>10, <1>g DEF vars
<1> QED
  BY <1>1, <1>2, <1>3, <1>4, <1>5, <1>6, <1>7, <1>8, <1>9, <1>10
  DEF Next, Terminating

\* With a pinned nonce, only the hash of a transaction that was broadcast is ever stored
\* or returned, it is stored once, and every caller that returns is given it, for any
\* number of calls, any position of the nonce and whatever the chain does.  (That one
\* transaction is broadcast follows from the pinned nonce alone.)
THEOREM OnchainImplements == ASSUME Pinned # None PROVE Spec => ImplementsEffectOnce
<1>1. Init => Promise!Init
  BY PinnedIsNonce, SMTT(30) DEF Init, Promise!Init, Stored, Answers, NoRow
<1>2. HashInv /\ [Next]_vars => [Promise!Next]_(Promise!vars)
  BY PromiseStep
<1> QED
  BY <1>1, <1>2, OneHash, PTL DEF Spec, ImplementsEffectOnce, Promise!Spec

\* With or without a pinned nonce, a hash that the ledger stores stays: no
\* take-over, no back-fill and no late commit changes it.
THEOREM HashIsFinal ==
    Spec => [][\A n \in Nonces : rows[n].state = "committed" => rows'[n] = rows[n]]_vars
<1> DEFINE Kept == \A n \in Nonces : rows[n].state = "committed" => rows'[n] = rows[n]
<1>1. ASSUME TypeInv, [Next]_vars PROVE [Kept]_vars
  <2>y. rows \in [Nonces -> RowsOf(Nonces, {}, Tokens)]
    BY <1>1 DEF TypeInv, TypeOK
  <2>1. ASSUME NEW c \in Calls, NEW row,
               rows' = [rows EXCEPT ![nonce[c]] = row],
               nonce[c] \in Nonces,
               rows[nonce[c]].state = "committed" => row = rows[nonce[c]]
        PROVE  Kept
    BY <2>1, <2>y
  <2>2. ASSUME NEW c \in Calls,
               Claim(c) \/ Reclaim(c) \/ Release(c) \/ Backfill(c) \/ Commit(c)
        PROVE  Kept
    <3>1. nonce[c] \in Nonces
      BY <1>1, <2>2 DEF TypeInv, Placed, Claim, Reclaim, Release, Backfill, Commit
    <3>2. CASE Claim(c)
      BY <2>1, <3>1, <3>2 DEF Claim, ClaimRow
    <3>3. CASE Reclaim(c)
      BY <2>1, <3>1, <3>3 DEF Reclaim, ClaimRow
    <3>4. CASE Release(c)
      BY <2>1, <3>1, <3>4 DEF Release, ReleaseRow
    <3>5. CASE Backfill(c) \/ Commit(c)
      BY <2>1, <3>1, <3>5 DEF Backfill, Commit, CommitRow
    <3> QED
      BY <2>2, <3>2, <3>3, <3>4, <3>5
  <2>3. CASE rows' = rows
    BY <2>3
  <2> QED
    BY <1>1, <2>2, <2>3
    DEF Next, Start, ProbeStatus, ProbeNonce, Send, Crash, Mine, Drop, Terminating, vars
<1>2. Init => TypeInv
  BY SMTT(30) DEF Init, TypeInv, TypeOK, Placed, NoRow, RowsOf, States
<1>3. TypeInv /\ [Next]_vars => TypeInv'
  BY NextType
<1>4. TypeInv /\ [Next]_vars => [Kept]_vars
  BY <1>1
<1> QED
  BY <1>2, <1>3, <1>4, PTL DEF Spec
=============================================================================
