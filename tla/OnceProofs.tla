----------------------------- MODULE OnceProofs -----------------------------
(***************************************************************************)
(* Theorems about Once, for every set of calls and every value of the      *)
(* other constants.                                                        *)
(***************************************************************************)
EXTENDS Once, TLAPS, FiniteSetTheorems

-----------------------------------------------------------------------------
(***************************************************************************)
(* The operations of the ledger keep a row a row.                          *)
(***************************************************************************)
Rows == RowsOf(Calls, Payloads, Tokens)

Lefts == Nat \cup {None}

\* What is left of a lease stays a number, or None.
LEMMA AgedType ==
    ASSUME NEW l \in Lefts
    PROVE  Aged(l) \in Lefts
BY SMTT(30), NoneAssumption DEF Aged, Lefts

\* claim makes a row of a row.
LEMMA ClaimRowType ==
    ASSUME NEW r \in Rows, NEW t \in Tokens, NEW f \in Payloads \cup {None},
           NEW l \in Lefts
    PROVE  ClaimRow(r, t, f, l) \in Rows
BY SMTT(30) DEF ClaimRow, Rows, RowsOf, States, Lefts

\* commit makes a row of a row.
LEMMA CommitRowType ==
    ASSUME NEW r \in Rows, NEW res \in Calls \cup {None}
    PROVE  CommitRow(r, res) \in Rows
BY SMTT(30) DEF CommitRow, Rows, RowsOf, States

\* release makes a row of a row.
LEMMA ReleaseRowType ==
    ASSUME NEW r \in Rows, NEW t
    PROVE  ReleaseRow(r, t) \in Rows
BY SMTT(30) DEF ReleaseRow, NoRow, Rows, RowsOf, States

\* heartbeat makes a row of a row.
LEMMA BeatRowType ==
    ASSUME NEW r \in Rows, NEW t, NEW l \in Lefts
    PROVE  BeatRow(r, t, l) \in Rows
BY SMTT(30) DEF BeatRow, Rows, RowsOf, States, Lefts

-----------------------------------------------------------------------------
(***************************************************************************)
(* Type correctness.                                                       *)
(***************************************************************************)
\* What a call's arguments are.
LEMMA ConfigType ==
    ASSUME TypeOK, NEW c \in Calls
    PROVE  /\ conf[c] \in Config
           /\ conf[c].fp \in Payloads \cup {None}
           /\ conf[c].ttl \in Lefts
           /\ conf[c].beat \in Nat /\ conf[c].beat > 0
           /\ conf[c].open \in BOOLEAN
<1>1. conf[c] \in Config
  BY ConfigsAssumption DEF TypeOK
<1> QED
  BY <1>1, SMTT(30) DEF Config, Lefts

\* The tokens of a call are tokens.
LEMMA OwnTokens ==
    ASSUME NEW c \in Calls
    PROVE  <<c, 1>> \in Tokens /\ <<c, 2>> \in Tokens
BY SMTT(30) DEF Tokens

\* What a reconciler remembers of a claim.
Seens == [token: Tokens \cup {None}, left: Nat \cup {None}]

\* It stays such a memory when its lease changes.
LEMMA SeenType ==
    ASSUME NEW s \in Seens, NEW l \in Nat \cup {None}
    PROVE  [s EXCEPT !.left = l] \in Seens
BY SMTT(30) DEF Seens

\* The memory of a call that reconciles nothing.
LEMMA NoClaimType == NoClaim \in Seens
BY SMTT(30) DEF NoClaim, Seens

\* Stopping a heartbeat keeps the types of what it changes.
LEMMA StopType ==
    ASSUME TypeOK, NEW c \in Calls, StopHeartbeat(c)
    PROVE  /\ hb' \in [Calls -> {"off", "on", "dead", "failed", "late"}]
           /\ due' \in [Calls -> Nat]
BY SMTT(30) DEF TypeOK, StopHeartbeat

\* What is left of a lease when it is written.
LEMMA StampedType ==
    ASSUME NEW ttl \in Lefts
    PROVE  Stamped(ttl) \subseteq Lefts
BY SMTT(30) DEF Stamped, Lefts

\* The rows that a claim may leave.
LEMMA ClaimsAsType ==
    ASSUME TypeOK, NEW c \in Calls, NEW t \in Tokens
    PROVE  ClaimsAs(c, t) \subseteq Rows
<1>1. Stamped(conf[c].ttl) \subseteq Lefts
  BY ConfigType, StampedType
<1> QED
  BY <1>1, ConfigType, ClaimRowType DEF ClaimsAs, TypeOK, Rows

\* The rows that a renewal may leave.
LEMMA RenewalsType ==
    ASSUME TypeOK, NEW c \in Calls
    PROVE  Renewals(c) \subseteq Rows
<1>1. Stamped(conf[c].ttl) \subseteq Lefts
  BY ConfigType, StampedType
<1> QED
  BY <1>1, BeatRowType DEF Renewals, TypeOK, Rows

\* The initial states are well typed.
LEMMA InitType == Init => TypeOK
BY MaxFaultsAssumption, SMTT(30)
   DEF Init, TypeOK, RowsOf, States, NoRow, LegacyRow, NoClaim, Tokens

\* Every step keeps the types.
LEMMA NextType == TypeOK /\ [Next]_vars => TypeOK'
<1> SUFFICES ASSUME TypeOK, [Next]_vars PROVE TypeOK'
  OBVIOUS
<1> USE DEF TypeOK, Owning, Resolving, Ended
<1>1. ASSUME NEW c \in Calls, Claim(c) PROVE TypeOK'
  <2>1. row' \in Rows
    BY <1>1, ClaimsAsType, OwnTokens DEF Claim
  <2>2. row \in Rows
    BY DEF Rows
  <2>3. /\ row.result \in Calls \cup {None}
        /\ row.token \in Tokens \cup {None}
        /\ row.left \in Nat \cup {None}
    BY <2>2, SMTT(30) DEF Rows, RowsOf
  <2>4. pc' \in [Calls -> {"idle"} \cup Owning \cup Resolving \cup Ended]
    BY <1>1, SMTT(30) DEF Claim
  <2>5. tok' \in [Calls -> Tokens \cup {None}]
    BY <1>1, OwnTokens, Zenon DEF Claim
  <2>6. seen' \in [Calls -> [token: Tokens \cup {None}, left: Nat \cup {None}]]
    <3>1. [token |-> row.token, left |-> row.left]
            \in [token: Tokens \cup {None}, left: Nat \cup {None}]
      BY <2>3
    <3> QED
      BY <1>1, <3>1, Zenon DEF Claim
  <2>7. ret' \in [Calls -> Calls \cup {None}]
    BY <1>1, <2>3, SMTT(30) DEF Claim
  <2> QED
    BY <1>1, <2>1, <2>4, <2>5, <2>6, <2>7, SMTT(30) DEF Claim, Rows
<1>2. ASSUME NEW c \in Calls, ClaimUnavailable(c) PROVE TypeOK'
  <2>1. row' \in Rows
    <3>1. ClaimsAs(c, <<c, 1>>) \subseteq Rows
      BY ClaimsAsType, OwnTokens
    <3> QED
      BY <1>2, <3>1, Zenon DEF ClaimUnavailable, Rows
  <2> QED
    BY <1>2, <2>1, MaxFaultsAssumption, SMTT(30) DEF ClaimUnavailable, Rows
<1>3. ASSUME NEW c \in Calls, CheckLease(c) PROVE TypeOK'
  <2>1. pc' \in [Calls -> {"idle"} \cup Owning \cup Resolving \cup Ended]
    BY <1>3, SMTT(30) DEF CheckLease
  <2>2. seen' \in [Calls -> Seens]
    <3>1. seen[c] \in Seens /\ seen \in [Calls -> Seens]
      BY DEF Seens
    <3>2. [seen[c] EXCEPT !.left = None] \in Seens
      BY <3>1, SeenType
    <3>3. seen' = [seen EXCEPT ![c] = NoClaim]
            \/ seen' = [seen EXCEPT ![c] = [seen[c] EXCEPT !.left = None]]
      BY <1>3, Zenon DEF CheckLease
    <3> QED
      BY <3>1, <3>2, <3>3, NoClaimType, Zenon
  <2> QED
    BY <1>3, <2>1, <2>2, SMTT(30) DEF CheckLease, Seens
<1>4. ASSUME NEW c \in Calls, Probe(c) PROVE TypeOK'
  <2>1. pc' \in [Calls -> {"idle"} \cup Owning \cup Resolving \cup Ended]
    BY <1>4, SMTT(30) DEF Probe
  <2>2. seen' \in [Calls -> Seens]
    BY <1>4, NoClaimType, Zenon DEF Probe, Seens
  <2>3. ret' \in [Calls -> Calls \cup {None}]
    BY <1>4, SMTT(30) DEF Probe
  <2> QED
    BY <1>4, <2>1, <2>2, <2>3, SMTT(30) DEF Probe, Seens
<1>5. ASSUME NEW c \in Calls, Backfill(c) PROVE TypeOK'
  <2>1. row' \in Rows
    BY <1>5, CommitRowType DEF Backfill, Rows
  <2> QED
    BY <1>5, <2>1, SMTT(30) DEF Backfill, Rows
<1>6. ASSUME NEW c \in Calls, Release(c) PROVE TypeOK'
  <2>1. row' \in Rows
    BY <1>6, ReleaseRowType DEF Release, Rows
  <2> QED
    BY <1>6, <2>1, SMTT(30) DEF Release, Rows, NoClaim
<1>7. ASSUME NEW c \in Calls, Poll(c) PROVE TypeOK'
  <2>1. row.result \in Calls \cup {None}
    BY SMTT(30) DEF RowsOf
  <2> QED
    BY <1>7, <2>1, SMTT(30) DEF Poll
<1>8. ASSUME NEW c \in Calls, WaitTimeout(c) PROVE TypeOK'
  BY <1>8, SMTT(30) DEF WaitTimeout
<1>9. ASSUME NEW c \in Calls, Reclaim(c) PROVE TypeOK'
  <2>1. row' \in Rows
    BY <1>9, ClaimsAsType, OwnTokens DEF Reclaim
  <2>2. row.result \in Calls \cup {None}
    BY SMTT(30) DEF RowsOf
  <2>3. pc' \in [Calls -> {"idle"} \cup Owning \cup Resolving \cup Ended]
    BY <1>9, SMTT(30) DEF Reclaim
  <2>4. tok' \in [Calls -> Tokens \cup {None}]
    BY <1>9, OwnTokens, Zenon DEF Reclaim
  <2>5. ret' \in [Calls -> Calls \cup {None}]
    BY <1>9, <2>2, SMTT(30) DEF Reclaim
  <2> QED
    BY <1>9, <2>1, <2>3, <2>4, <2>5, SMTT(30) DEF Reclaim, Rows
<1>10. ASSUME NEW c \in Calls, Enter(c) PROVE TypeOK'
  BY <1>10, ConfigType, SMTT(30) DEF Enter
<1>11. ASSUME NEW c \in Calls, Fire(c) PROVE TypeOK'
  BY <1>11, SMTT(30) DEF Fire
<1>12. ASSUME NEW c \in Calls, Return(c) PROVE TypeOK'
  <2>1. /\ hb' \in [Calls -> {"off", "on", "dead", "failed", "late"}]
        /\ due' \in [Calls -> Nat]
    BY <1>12, StopType DEF Return
  <2> QED
    BY <1>12, <2>1, SMTT(30) DEF Return, AfterStop
<1>13. ASSUME NEW c \in Calls, Raise(c) PROVE TypeOK'
  <2>1. /\ hb' \in [Calls -> {"off", "on", "dead", "failed", "late"}]
        /\ due' \in [Calls -> Nat]
    BY <1>13, StopType DEF Raise
  <2>2. pc' \in [Calls -> {"idle"} \cup Owning \cup Resolving \cup Ended]
    BY <1>13, SMTT(30) DEF Raise, AfterStop
  <2> QED
    BY <1>13, <2>1, <2>2, SMTT(30) DEF Raise
<1>14. ASSUME NEW c \in Calls, Commit(c) PROVE TypeOK'
  <2>1. row' \in Rows
    BY <1>14, CommitRowType DEF Commit, Rows
  <2> QED
    BY <1>14, <2>1, SMTT(30) DEF Commit, Rows
<1>15. ASSUME NEW c \in Calls, StoreUnavailable(c) PROVE TypeOK'
  <2>1. NextWrites(c) \subseteq Rows
    <3>1. ClaimsAs(c, <<c, 2>>) \subseteq Rows
      BY ClaimsAsType, OwnTokens
    <3>2. {CommitRow(row, c), CommitRow(row, ret[c]),
           ReleaseRow(row, seen[c].token), row} \subseteq Rows
      BY CommitRowType, ReleaseRowType DEF Rows
    <3> QED
      BY <3>1, <3>2 DEF NextWrites
  <2> QED
    BY <1>15, <2>1, MaxFaultsAssumption, SMTT(30) DEF StoreUnavailable, Rows, NoClaim
<1>16. ASSUME NEW c \in Calls, Beat(c) PROVE TypeOK'
  <2>1. row' \in Rows
    BY <1>16, RenewalsType DEF Beat, Rows
  <2>2. conf[c].beat \in Nat
    BY ConfigType
  <2>3. /\ hb' \in [Calls -> {"off", "on", "dead", "failed", "late"}]
        /\ due' \in [Calls -> Nat]
    BY <1>16, <2>2, Zenon DEF Beat
  <2> QED
    BY <1>16, <2>1, <2>3, SMTT(30) DEF Beat, Rows
<1>17. ASSUME NEW c \in Calls, BeatUnavailable(c) PROVE TypeOK'
  <2>1. row' \in Rows
    BY <1>17, RenewalsType DEF BeatUnavailable, Rows
  <2> QED
    BY <1>17, <2>1, MaxFaultsAssumption, SMTT(30) DEF BeatUnavailable, Rows
<1>18. ASSUME NEW c \in Calls, LateBeat(c) PROVE TypeOK'
  <2>1. row' \in Rows
    BY <1>18, RenewalsType DEF LateBeat, Rows
  <2> QED
    BY <1>18, <2>1, SMTT(30) DEF LateBeat, Rows
<1>19. ASSUME NEW c \in Calls, Crash(c) PROVE TypeOK'
  BY <1>19, SMTT(30) DEF Crash, NoClaim
<1>20. ASSUME Tick PROVE TypeOK'
  <2>1. row.left \in Lefts /\ \A c \in Calls : seen[c].left \in Lefts
    BY SMTT(30) DEF RowsOf, Lefts
  <2>2. Aged(row.left) \in Lefts /\ \A c \in Calls : Aged(seen[c].left) \in Lefts
    BY <2>1, AgedType
  <2>3. row' \in RowsOf(Calls, Payloads, Tokens)
    <3> DEFINE l == Aged(row.left)
    <3>1. l \in Nat \cup {None}
      BY <2>2 DEF Lefts
    <3>2. row' = [row EXCEPT !.left = l]
      BY <1>20 DEF Tick
    <3> HIDE DEF l
    <3> QED
      BY <3>1, <3>2, SMTT(30) DEF RowsOf
  <2>4. seen' \in [Calls -> [token: Tokens \cup {None}, left: Nat \cup {None}]]
    <3>1. \A c \in Calls : seen[c] \in Seens
      BY DEF Seens
    <3>2. \A c \in Calls :
            [seen[c] EXCEPT !.left = Aged(seen[c].left)] \in Seens
      BY <2>2, <3>1, SeenType DEF Lefts
    <3> QED
      BY <1>20, <3>2, Zenon DEF Tick, Seens
  <2>5. due' \in [Calls -> Nat]
    <3>1. \A c \in Calls : Aged(due[c]) \in Nat
      BY NoneAssumption, SMTT(30) DEF Aged
    <3> QED
      BY <1>20, <3>1, Zenon DEF Tick
  <2> QED
    BY <1>20, <2>3, <2>4, <2>5, SMTT(30) DEF Tick
<1>21. CASE UNCHANGED vars
  BY <1>21, SMTT(30) DEF vars
<1> QED
  BY <1>1, <1>2, <1>3, <1>4, <1>5, <1>6, <1>7, <1>8, <1>9, <1>10, <1>11, <1>12,
     <1>13, <1>14, <1>15, <1>16, <1>17, <1>18, <1>19, <1>20, <1>21
  DEF Next, Step, Terminating

\* Every variable keeps its type, for all constants.
THEOREM TypeCorrect == Spec => []TypeOK
BY InitType, NextType, PTL DEF Spec

\* No call changes its arguments.
LEMMA ConfKept == ASSUME [Next]_vars PROVE conf' = conf
BY Zenon DEF Next, Step, Claim, ClaimUnavailable, CheckLease, Probe, Backfill,
   Release, Poll, WaitTimeout, Reclaim, Enter, Fire, Return, Raise, Commit,
   StoreUnavailable, Beat, BeatUnavailable, LateBeat, Crash, Tick, Terminating,
   vars

-----------------------------------------------------------------------------
(***************************************************************************)
(* What a step can do to the row, whoever takes it.                        *)
(***************************************************************************)
RowClaimed == \E c \in Calls : \E i \in {1, 2} : row' \in ClaimsAs(c, <<c, i>>)

RowCommitted == \E r \in Calls \cup {None} : row' = CommitRow(row, r)

RowReleased ==
    \E c \in Calls : pc[c] = "release" /\ row' = ReleaseRow(row, seen[c].token)

RowRenewed == \E c \in Calls : row' \in Renewals(c)

RowAged == row' = [row EXCEPT !.left = Aged(row.left)]

\* Every step leaves the row alone or applies one operation of the store.
LEMMA RowSteps ==
    ASSUME TypeOK, [Next]_vars
    PROVE  \/ row' = row \/ RowClaimed \/ RowCommitted
           \/ RowReleased \/ RowRenewed \/ RowAged
<1>1. ASSUME NEW c \in Calls, Claim(c) \/ ClaimUnavailable(c)
      PROVE  row' = row \/ RowClaimed
  BY <1>1, Zenon DEF Claim, ClaimUnavailable, RowClaimed
<1>2. ASSUME NEW c \in Calls, Reclaim(c)
      PROVE  RowClaimed
  BY <1>2, Zenon DEF Reclaim, RowClaimed
<1>3. ASSUME NEW c \in Calls, Backfill(c) \/ Commit(c)
      PROVE  RowCommitted
  <2>1. ret[c] \in Calls \cup {None} /\ c \in Calls \cup {None}
    BY DEF TypeOK
  <2> QED
    BY <1>3, <2>1, Zenon DEF Backfill, Commit, RowCommitted
<1>4. ASSUME NEW c \in Calls, Release(c)
      PROVE  RowReleased
  BY <1>4, Zenon DEF Release, RowReleased
<1>5. ASSUME NEW c \in Calls, Beat(c) \/ BeatUnavailable(c) \/ LateBeat(c)
      PROVE  row' = row \/ RowRenewed
  BY <1>5, Zenon DEF Beat, BeatUnavailable, LateBeat, RowRenewed
<1>6. ASSUME NEW c \in Calls, StoreUnavailable(c)
      PROVE  row' = row \/ RowCommitted \/ RowReleased \/ RowClaimed
  <2>1. row' = row \/ row' \in NextWrites(c)
    BY <1>6, Zenon DEF StoreUnavailable
  <2>2. CASE row' \in NextWrites(c) /\ pc[c] = "commit"
    BY <2>2, SMTT(30) DEF NextWrites, RowCommitted
  <2>3. CASE row' \in NextWrites(c) /\ pc[c] = "backfill"
    <3>1. ret[c] \in Calls \cup {None}
      BY DEF TypeOK
    <3> QED
      BY <2>3, <3>1, SMTT(30) DEF NextWrites, RowCommitted
  <2>4. CASE row' \in NextWrites(c) /\ pc[c] = "release"
    BY <2>4, SMTT(30) DEF NextWrites, RowReleased
  <2>5. CASE row' \in NextWrites(c) /\ pc[c] = "reclaim"
    <3>1. row' \in ClaimsAs(c, <<c, 2>>)
      BY <2>5 DEF NextWrites
    <3> QED
      BY <3>1, Zenon DEF RowClaimed
  <2>6. CASE row' \in NextWrites(c)
             /\ pc[c] \notin {"commit", "backfill", "release", "reclaim"}
    BY <2>6 DEF NextWrites
  <2> QED
    BY <2>1, <2>2, <2>3, <2>4, <2>5, <2>6
<1>7. ASSUME NEW c \in Calls,
             \/ CheckLease(c) \/ Probe(c) \/ Poll(c) \/ WaitTimeout(c)
             \/ Enter(c) \/ Fire(c) \/ Return(c) \/ Raise(c) \/ Crash(c)
      PROVE  row' = row
  BY <1>7, Zenon DEF CheckLease, Probe, Poll, WaitTimeout, Enter, Fire, Return,
                     Raise, Crash
<1>8. ASSUME Tick PROVE RowAged
  BY <1>8 DEF Tick, RowAged
<1>9. CASE UNCHANGED vars
  BY <1>9 DEF vars
<1> QED
  BY <1>1, <1>2, <1>3, <1>4, <1>5, <1>6, <1>7, <1>8, <1>9
  DEF Next, Step, Terminating

\* A claim changes a missing record only, to one with the claim's token.
LEMMA ClaimedRow ==
    ASSUME NEW c \in Calls, NEW t, NEW r \in ClaimsAs(c, t)
    PROVE  /\ row.state # "fresh" => r = row
           /\ row.state = "fresh" =>
                 /\ r.state = "in_flight" /\ r.token = t /\ r.result = None
                 /\ r.left \in Stamped(conf[c].ttl)
BY DEF ClaimsAs, ClaimRow

\* A renewal changes the caller's own claim only, and of that the lease only.
LEMMA RenewedRow ==
    ASSUME TypeOK, NEW c \in Calls, NEW r \in Renewals(c)
    PROVE  /\ r.state = row.state /\ r.token = row.token /\ r.result = row.result
           /\ ~Owns(row, tok[c]) => r = row
           /\ Owns(row, tok[c]) => r.left \in Stamped(conf[c].ttl)
BY SMTT(30) DEF Renewals, BeatRow, TypeOK, RowsOf

-----------------------------------------------------------------------------
(***************************************************************************)
(* A committed record is final.                                            *)
(***************************************************************************)
\* The lease of a committed record is gone, so time does not touch it.
CommittedUnleased == row.state = "committed" => row.left = None

\* No operation but commit makes a record committed, and commit drops the lease.
LEMMA CommittedUnleasedStep ==
    ASSUME TypeOK, CommittedUnleased, [Next]_vars
    PROVE  CommittedUnleased'
<1> USE DEF CommittedUnleased
<1>1. CASE RowClaimed
  BY <1>1, SMTT(30) DEF RowClaimed, ClaimsAs, ClaimRow
<1>2. CASE RowCommitted
  BY <1>2, SMTT(30) DEF RowCommitted, CommitRow
<1>3. CASE RowReleased
  BY <1>3, SMTT(30) DEF RowReleased, ReleaseRow, NoRow
<1>4. CASE RowRenewed
  BY <1>4, SMTT(30) DEF RowRenewed, Renewals, BeatRow, Owns, TypeOK, RowsOf
<1>5. CASE RowAged
  BY <1>5, SMTT(30) DEF RowAged, Aged, TypeOK, RowsOf
<1> QED
  BY RowSteps, <1>1, <1>2, <1>3, <1>4, <1>5

\* A step from a committed record leaves it as it is.
LEMMA CommittedIsFinalStep ==
    ASSUME TypeOK, CommittedUnleased, [Next]_vars, row.state = "committed"
    PROVE  row' = row
<1>1. CASE RowClaimed
  BY <1>1, SMTT(30) DEF RowClaimed, ClaimsAs, ClaimRow
<1>2. CASE RowCommitted
  BY <1>2, SMTT(30) DEF RowCommitted, CommitRow
<1>3. CASE RowReleased
  BY <1>3, SMTT(30) DEF RowReleased, ReleaseRow
<1>4. CASE RowRenewed
  BY <1>4, SMTT(30) DEF RowRenewed, Renewals, BeatRow, Owns
<1>5. CASE RowAged
  BY <1>5, SMTT(30) DEF RowAged, Aged, TypeOK, RowsOf, CommittedUnleased
<1> QED
  BY RowSteps, <1>1, <1>2, <1>3, <1>4, <1>5

\* Whatever the policies, the leases, the timing and the faults, a committed
\* record is never altered, released or claimed again.
THEOREM CommittedFinal == Spec => CommittedIsFinal
<1>1. Init => CommittedUnleased
  BY SMTT(30) DEF Init, CommittedUnleased, NoRow, LegacyRow
<1>2. TypeOK /\ CommittedUnleased /\ [Next]_vars => CommittedUnleased'
  BY CommittedUnleasedStep
<1>3. TypeOK /\ CommittedUnleased /\ [Next]_vars
        => [row.state = "committed" => row' = row]_vars
  BY CommittedIsFinalStep
<1> QED
  BY <1>1, <1>2, <1>3, TypeCorrect, PTL DEF Spec, CommittedIsFinal

-----------------------------------------------------------------------------
(***************************************************************************)
(* A release deletes no claim but the one it observed.                     *)
(***************************************************************************)
\* Every claim has a token ...
ClaimsHaveTokens == row.state = "in_flight" => row.token # None

\* ... and a reconciler remembers the one it observed.
SeenHasToken ==
    \A c \in Calls : pc[c] \in {"check", "probe", "release"} => seen[c].token # None

\* Every step keeps the first ...
LEMMA ClaimsHaveTokensStep ==
    ASSUME TypeOK, ClaimsHaveTokens, [Next]_vars
    PROVE  ClaimsHaveTokens'
<1> USE DEF ClaimsHaveTokens
<1>1. CASE RowClaimed
  <2>1. \A c \in Calls, i \in {1, 2} : <<c, i>> # None
    BY NoneIsNoValue
  <2>2. PICK c \in Calls, i \in {1, 2} : row' \in ClaimsAs(c, <<c, i>>)
    BY <1>1 DEF RowClaimed
  <2> QED
    BY <2>1, <2>2, ClaimedRow, SMTT(30) DEF TypeOK, RowsOf, States
<1>2. CASE RowCommitted
  BY <1>2, SMTT(30) DEF RowCommitted, CommitRow
<1>3. CASE RowReleased
  BY <1>3, SMTT(30) DEF RowReleased, ReleaseRow, NoRow
<1>4. CASE RowRenewed
  BY <1>4, RenewedRow DEF RowRenewed
<1>5. CASE RowAged
  BY <1>5, SMTT(30) DEF RowAged, TypeOK, RowsOf
<1> QED
  BY RowSteps, <1>1, <1>2, <1>3, <1>4, <1>5

\* ... and the second.
LEMMA SeenHasTokenStep ==
    ASSUME TypeOK, ClaimsHaveTokens, SeenHasToken, [Next]_vars
    PROVE  SeenHasToken'
<1>0. /\ pc \in [Calls -> {"idle"} \cup Owning \cup Resolving \cup Ended]
      /\ seen \in [Calls -> Seens]
  BY SMTT(30) DEF TypeOK, Seens
<1> USE <1>0 DEF SeenHasToken
<1>1. ASSUME NEW c \in Calls, Claim(c) PROVE SeenHasToken'
  BY <1>1, SMTT(30) DEF Claim, ClaimsHaveTokens
<1>2. ASSUME NEW c \in Calls, CheckLease(c) PROVE SeenHasToken'
  <2>1. /\ pc[c] = "check"
        /\ \A d \in Calls \ {c} : pc'[d] = pc[d] /\ seen'[d] = seen[d]
        /\ pc'[c] = "denied" \/ seen'[c].token = seen[c].token
    BY <1>2, SMTT(30) DEF CheckLease, Seens
  <2> QED
    BY <2>1, SMTT(30)
<1>3. ASSUME NEW c \in Calls, Probe(c) PROVE SeenHasToken'
  BY <1>3, SMTT(30) DEF Probe
<1>4. ASSUME NEW c \in Calls,
             \/ ClaimUnavailable(c) \/ Backfill(c) \/ Release(c)
             \/ StoreUnavailable(c) \/ Crash(c)
      PROVE  SeenHasToken'
  BY <1>4, SMTT(30)
  DEF ClaimUnavailable, Backfill, Release, StoreUnavailable, Crash
<1>5. ASSUME NEW c \in Calls, Poll(c) \/ WaitTimeout(c) \/ Reclaim(c)
      PROVE  SeenHasToken'
  BY <1>5, SMTT(30) DEF Poll, WaitTimeout, Reclaim
<1>6. ASSUME NEW c \in Calls,
             Enter(c) \/ Fire(c) \/ Return(c) \/ Raise(c) \/ Commit(c)
      PROVE  SeenHasToken'
  BY <1>6, SMTT(30) DEF Enter, Fire, Return, Raise, AfterStop, Commit
<1>7. ASSUME NEW c \in Calls, Beat(c) \/ BeatUnavailable(c) \/ LateBeat(c)
      PROVE  SeenHasToken'
  BY <1>7, Zenon DEF Beat, BeatUnavailable, LateBeat
<1>8. ASSUME Tick PROVE SeenHasToken'
  <2>1. pc' = pc /\ \A d \in Calls : seen'[d].token = seen[d].token
    BY <1>8, SMTT(30) DEF Tick, Seens
  <2> QED
    BY <2>1
<1>9. CASE UNCHANGED vars
  BY <1>9 DEF vars
<1> QED
  BY <1>1, <1>2, <1>3, <1>4, <1>5, <1>6, <1>7, <1>8, <1>9
  DEF Next, Step, Terminating

\* Over a database without pre-token rows no claim is deleted except by a call
\* that observed that very claim, whatever the policies, the timing and the
\* faults.
THEOREM NewerClaimSafe == ASSUME Upgraded = FALSE PROVE Spec => NewerClaimSurvives
<1>1. Init => ClaimsHaveTokens /\ SeenHasToken
  BY SMTT(30) DEF Init, ClaimsHaveTokens, SeenHasToken, NoRow
<1>2. TypeOK /\ ClaimsHaveTokens /\ SeenHasToken /\ [Next]_vars
        => ClaimsHaveTokens' /\ SeenHasToken'
  BY ClaimsHaveTokensStep, SeenHasTokenStep
<1>3. TypeOK /\ SeenHasToken /\ [Next]_vars =>
        [row.state = "in_flight" /\ row'.state = "fresh" =>
           \E c \in Calls : pc[c] = "release" /\ seen[c].token = row.token]_vars
  <2> SUFFICES ASSUME TypeOK, SeenHasToken, [Next]_vars,
                      row.state = "in_flight", row'.state = "fresh"
               PROVE  \E c \in Calls : pc[c] = "release" /\ seen[c].token = row.token
    OBVIOUS
  <2>1. ~(row' = row \/ RowClaimed \/ RowCommitted \/ RowRenewed \/ RowAged)
    BY SMTT(30)
    DEF RowClaimed, ClaimsAs, ClaimRow, RowCommitted, CommitRow, RowRenewed,
        Renewals, BeatRow, RowAged, TypeOK, RowsOf
  <2>2. PICK c \in Calls : pc[c] = "release" /\ row' = ReleaseRow(row, seen[c].token)
    BY <2>1, RowSteps DEF RowReleased
  <2> QED
    BY <2>2, SMTT(30) DEF ReleaseRow, SeenHasToken
<1> QED
  BY <1>1, <1>2, <1>3, TypeCorrect, PTL DEF Spec, NewerClaimSurvives

-----------------------------------------------------------------------------
(***************************************************************************)
(* What the promise of EffectOnce sees of a step of the guard.             *)
(***************************************************************************)
\* A call that returns adds its answer, and only that.
LEMMA AnswerAdded ==
    ASSUME TypeOK, NEW c \in Calls, NEW r, pc[c] # "returned",
           pc' = [pc EXCEPT ![c] = "returned"], ret'[c] = r,
           \A d \in Calls \ {c} : ret'[d] = ret[d]
    PROVE  Answers' = Answers \cup {<<c, r>>}
BY SMTT(30) DEF Answers, TypeOK

\* A step after which the same calls have returned changes no answer.
LEMMA AnswersKept ==
    ASSUME NEW R \in SUBSET Calls,
           R = {c \in Calls : pc[c] = "returned"},
           R = {c \in Calls : pc'[c] = "returned"},
           \A c \in R : ret'[c] = ret[c]
    PROVE  Answers' = Answers
BY SMTT(30) DEF Answers

\* A call that goes on without returning: no answer is given.
LEMMA MoveKeepsAnswers ==
    ASSUME TypeOK, NEW c \in Calls, NEW p, pc[c] # "returned", p # "returned",
           pc' = [pc EXCEPT ![c] = p],
           \A d \in Calls \ {c} : ret'[d] = ret[d]
    PROVE  Answers' = Answers
<1> DEFINE R == {d \in Calls : pc[d] = "returned"}
<1>1. R = {d \in Calls : pc'[d] = "returned"}
  BY SMTT(30) DEF TypeOK
<1>2. \A d \in R : ret'[d] = ret[d]
  OBVIOUS
<1> QED
  BY <1>1, <1>2, AnswersKept

\* If no effect happens and no result is stored either, the promise sees
\* nothing.
LEMMA SilentMove ==
    ASSUME TypeOK, NEW c \in Calls, NEW p, pc[c] # "returned", p # "returned",
           pc' = [pc EXCEPT ![c] = p],
           \A d \in Calls \ {c} : ret'[d] = ret[d],
           fired' = fired, row'.result = row.result
    PROVE  UNCHANGED Promise!vars
BY MoveKeepsAnswers DEF Promise!vars

\* Nor of a step that only touches leases and heartbeats.
LEMMA SilentRow ==
    ASSUME UNCHANGED <<fired, pc, ret>>, row'.result = row.result
    PROVE  UNCHANGED Promise!vars
BY DEF Answers, Promise!vars

\* A call that replays the record is given the stored result.
LEMMA ReplayMove ==
    ASSUME TypeOK, NEW c \in Calls, row.result # None, UNCHANGED <<fired, row>>,
           pc[c] # "returned", pc' = [pc EXCEPT ![c] = "returned"],
           ret' = [ret EXCEPT ![c] = row.result]
    PROVE  Promise!Next
<1>1. ret'[c] = row.result /\ \A d \in Calls \ {c} : ret'[d] = ret[d]
  BY DEF TypeOK
<1>2. Answers' = Answers \cup {<<c, row.result>>}
  BY <1>1, AnswerAdded
<1> QED
  BY <1>2 DEF Promise!Answer, Promise!Next

\* When the only effect there was is committed, its result is stored or is what
\* is stored already, and the call that commits it is given it or ends without.
LEMMA CommitMove ==
    ASSUME TypeOK, NEW c \in Calls, NEW r \in fired, \A d \in fired : d = r,
           row.state = "committed" => row.result \in fired,
           row.state # "committed" => row.result = None,
           row' = CommitRow(row, r), fired' = fired,
           pc[c] # "returned", \A d \in Calls \ {c} : ret'[d] = ret[d],
           \/ pc' = [pc EXCEPT ![c] = "returned"] /\ ret'[c] = r
           \/ pc' = [pc EXCEPT ![c] = "down"]
    PROVE  [Promise!Next]_(Promise!vars)
<1>0. r \in Calls /\ r # None
  BY NoneIsNoValue DEF TypeOK
<1>1. \/ Answers' = Answers
      \/ Answers' = Answers \cup {<<c, r>>}
  BY AnswerAdded, MoveKeepsAnswers
<1>2. CASE row.state = "committed"
  <2>1. row.result = r /\ row' = row
    BY <1>2 DEF CommitRow
  <2> QED
    BY <1>0, <1>1, <2>1 DEF Promise!Answer, Promise!Next, Promise!vars
<1>3. CASE row.state # "committed"
  <2>1. row.result = None /\ row'.result = r
    BY <1>3 DEF CommitRow
  <2>2. Promise!Store(r)
    BY <1>1, <2>1 DEF Promise!Store
  <2> QED
    BY <1>0, <2>2 DEF Promise!Next
<1> QED
  BY <1>2, <1>3

-----------------------------------------------------------------------------
(***************************************************************************)
(* What a caller was given stays stored.                                   *)
(***************************************************************************)
\* An effect runs in a call that called it, and a call that returned without a
\* commit ran unguarded.
GivenInv ==
    /\ GivenIsStored
    /\ \A c \in Calls : pc[c] \in {"running", "fired"} => c \in entered

\* Every step keeps that: who returns read a committed record or committed it,
\* and a committed record is final.
LEMMA GivenStep ==
    ASSUME TypeOK, CommittedUnleased, GivenInv, [Next]_vars
    PROVE  GivenInv'
<1> USE DEF GivenInv, GivenIsStored
<1>p. /\ pc \in [Calls -> {"idle"} \cup Owning \cup Resolving \cup Ended]
      /\ tok \in [Calls -> Tokens \cup {None}]
  BY DEF TypeOK
<1>f. row.state = "committed" => row' = row
  BY CommittedIsFinalStep
<1>1. ASSUME NEW c \in Calls, Claim(c) \/ Poll(c) \/ Reclaim(c) PROVE GivenInv'
  <2>1. pc'[c] = "returned" => row.state = "committed"
    BY <1>1, <1>p, SMTT(30) DEF Claim, Poll, Reclaim
  <2>2. /\ pc'[c] \notin {"running", "fired"} /\ entered' = entered
        /\ pc[c] \notin {"returned"}
        /\ \A d \in Calls \ {c} : pc'[d] = pc[d] /\ tok'[d] = tok[d]
    BY <1>1, <1>p, SMTT(30) DEF Claim, MayStart, Poll, Reclaim
  <2> QED
    BY <1>f, <2>1, <2>2
<1>2. ASSUME NEW c \in Calls, Backfill(c) \/ Commit(c) PROVE GivenInv'
  <2>1. row'.state = "committed"
    BY <1>2, SMTT(30) DEF Backfill, Commit, CommitRow
  <2>2. /\ pc'[c] = "returned" /\ entered' = entered
        /\ \A d \in Calls \ {c} : pc'[d] = pc[d]
    BY <1>2, <1>p DEF Backfill, Commit
  <2> QED
    BY <2>1, <2>2
<1>3. ASSUME NEW c \in Calls, Return(c) PROVE GivenInv'
  <2>1. /\ pc[c] = "fired" /\ entered' = entered /\ tok' = tok
        /\ pc'[c] \notin {"running", "fired"}
        /\ pc'[c] = "returned" => tok[c] = None
        /\ \A d \in Calls \ {c} : pc'[d] = pc[d]
    BY <1>3, <1>p, SMTT(30) DEF Return, AfterStop
  <2> QED
    BY <1>f, <2>1
<1>4. ASSUME NEW c \in Calls,
             \/ ClaimUnavailable(c) \/ CheckLease(c) \/ Probe(c) \/ Release(c)
             \/ WaitTimeout(c) \/ Enter(c) \/ Fire(c) \/ Raise(c)
             \/ StoreUnavailable(c) \/ Crash(c)
      PROVE  GivenInv'
  <2>1. /\ tok' = tok /\ entered \subseteq entered' /\ pc'[c] # "returned"
        /\ pc'[c] \in {"running", "fired"} => c \in entered' \/ pc[c] \in {"running", "fired"}
        /\ \A d \in Calls \ {c} : pc'[d] = pc[d]
    BY <1>4, <1>p, SMTT(30)
    DEF ClaimUnavailable, CheckLease, Probe, Release, WaitTimeout, Enter, Fire, Raise,
        AfterStop, StoreUnavailable, Crash
  <2> QED
    BY <1>f, <2>1
<1>5. CASE UNCHANGED <<pc, tok, entered>>
  BY <1>f, <1>5
<1>6. ASSUME NEW c \in Calls, Beat(c) \/ BeatUnavailable(c) \/ LateBeat(c)
      PROVE  UNCHANGED <<pc, tok, entered>>
  BY <1>6 DEF Beat, BeatUnavailable, LateBeat
<1> QED
  BY <1>1, <1>2, <1>3, <1>4, <1>5, <1>6
  DEF Next, Step, Tick, Terminating, vars

\* Whatever the policies, the leases, the timing and the faults, and whoever had
\* retired its claim, a call that was guarded and returned left the key committed.
THEOREM GivenStored == Spec => []GivenIsStored
<1>1. Init => CommittedUnleased /\ GivenInv
  BY SMTT(30) DEF Init, CommittedUnleased, NoRow, LegacyRow, GivenInv, GivenIsStored
<1>2. TypeOK /\ CommittedUnleased /\ [Next]_vars => CommittedUnleased'
  BY CommittedUnleasedStep
<1>3. TypeOK /\ CommittedUnleased /\ GivenInv /\ [Next]_vars => GivenInv'
  BY GivenStep
<1>4. GivenInv => GivenIsStored
  BY DEF GivenInv
<1> QED
  BY <1>1, <1>2, <1>3, <1>4, TypeCorrect, PTL DEF Spec

-----------------------------------------------------------------------------
(***************************************************************************)
(* The promise of the policies that never retire a claim (quarantine, fail *)
(* and wait, fail-closed), for every number of calls, with or without      *)
(* leases, and with any faults, crashes and delays.                        *)
(***************************************************************************)
SafePolicies ==
    \A k \in Configs : k.policy \in {"quarantine", "wait"} /\ k.open = FALSE

\* Only one call ever makes a claim.  A key once claimed stays claimed, by the
\* first token of the call that runs the effect; nobody gets as far as a
\* release or a re-claim.
OneClaim ==
    /\ \A c \in Calls :
          pc[c] \notin {"check", "probe", "backfill", "release", "reclaim"}
    /\ \A c \in Calls : pc[c] = "wait" => row.state # "fresh"
    /\ \A c \in Calls : tok[c] # None =>
          tok[c] = <<c, 1>> /\ row.token = tok[c] /\ row.state # "fresh"
    /\ \A c \in Calls : pc[c] \in Owning => tok[c] # None
    /\ \A c \in entered : tok[c] # None

\* Only an effect that took place is stored and returned.
StoredFired ==
    /\ fired \subseteq entered
    /\ \A c \in Calls : pc[c] \in {"running", "fired", "commit"} => c \in entered
    /\ \A c \in Calls : pc[c] \in {"fired", "commit"} => c \in fired
    /\ \A c \in Calls : pc[c] \in {"fresh", "running"} => c \notin fired
    /\ \A c \in Calls : c \in entered => pc[c] \notin {"idle", "fresh", "wait"}
    /\ row.state = "committed" => row.result \in fired
    /\ row.state # "committed" => row.result = None
    /\ \A c \in Calls : pc[c] = "returned" =>
          row.state = "committed" /\ ret[c] = row.result

SafeInv == TypeOK /\ CommittedUnleased /\ OneClaim /\ StoredFired

-----------------------------------------------------------------------------
\* The tokens of different calls differ, and a token is not None.
LEMMA TokensDiffer ==
    ASSUME NEW c, NEW d, <<c, 1>> = <<d, 1>>
    PROVE  c = d
OBVIOUS

\* The invariant holds at first, also over a pre-token database.
LEMMA SafeInit == Init => SafeInv
<1> SUFFICES ASSUME Init PROVE SafeInv
  OBVIOUS
<1>1. TypeOK
  BY InitType
<1> QED
  BY <1>1, SMTT(30)
  DEF Init, SafeInv, CommittedUnleased, OneClaim, StoredFired, NoRow, LegacyRow,
      Owning

\* Every step keeps it.
LEMMA SafeNext ==
    ASSUME SafePolicies, SafeInv, [Next]_vars
    PROVE  OneClaim' /\ StoredFired'
<1> USE DEF SafeInv
<1>0. /\ pc \in [Calls -> {"idle"} \cup Owning \cup Resolving \cup Ended]
      /\ tok \in [Calls -> Tokens \cup {None}]
      /\ ret \in [Calls -> Calls \cup {None}]
      /\ entered \subseteq Calls /\ fired \subseteq Calls
      /\ row.state \in {"fresh", "in_flight", "committed"}
  BY SMTT(30) DEF TypeOK, RowsOf, States
<1>c. ASSUME NEW c \in Calls
      PROVE  conf[c].policy \in {"quarantine", "wait"} /\ conf[c].open = FALSE
  BY DEF TypeOK, SafePolicies
<1> USE <1>0 DEF OneClaim, StoredFired, Owning, Resolving, Ended
<1>1. ASSUME NEW c \in Calls, Claim(c) PROVE OneClaim' /\ StoredFired'
  <2>1. CASE row.state = "fresh"
    <3>1. /\ \A d \in Calls : tok[d] = None /\ pc[d] \notin Owning
          /\ \A d \in Calls : pc[d] # "returned" /\ pc[d] # "wait"
          /\ entered = {} /\ fired = {}
      BY <2>1, SMTT(30)
    <3>2. /\ row'.state = "in_flight" /\ row'.token = <<c, 1>>
          /\ row'.result = None
      BY <1>1, <2>1, ClaimedRow DEF Claim
    <3>3. /\ pc' = [pc EXCEPT ![c] = "fresh"] /\ tok' = [tok EXCEPT ![c] = <<c, 1>>]
          /\ UNCHANGED <<ret, entered, fired>>
      BY <1>1, <2>1 DEF Claim
    <3>4. OneClaim'
      <4>1. \A d \in Calls : d # c => pc'[d] = pc[d] /\ tok'[d] = None
        BY <3>1, <3>3, SMTT(30)
      <4>2. pc'[c] = "fresh" /\ tok'[c] = <<c, 1>> /\ <<c, 1>> # None
        BY <3>3, NoneIsNoValue, OwnTokens, SMTT(30) DEF Tokens
      <4> QED
        BY <3>1, <3>2, <3>3, <4>1, <4>2, SMTT(30)
    <3>5. StoredFired'
      BY <3>1, <3>2, <3>3, SMTT(30)
    <3> QED
      BY <3>4, <3>5
  <2>2. CASE row.state # "fresh"
    <3>1. row' = row
      BY <1>1, <2>2, ClaimedRow DEF Claim
    <3> QED
      <4>1. /\ pc[c] = "idle"
            /\ \/ pc' = [pc EXCEPT ![c] = "reuse"] /\ ret' = ret
               \/ /\ row.state = "committed"
                  /\ pc' = [pc EXCEPT ![c] = "returned"]
                  /\ ret' = [ret EXCEPT ![c] = row.result]
               \/ pc' = [pc EXCEPT ![c] = "denied"] /\ ret' = ret
               \/ pc' = [pc EXCEPT ![c] = "wait"] /\ ret' = ret
            /\ UNCHANGED <<tok, entered, fired>>
        BY <1>1, <2>2, <1>c, Zenon DEF Claim, MayStart
      <4>2. OneClaim'
        BY <2>2, <3>1, <4>1, SMTT(30)
      <4>3. StoredFired'
        BY <2>2, <3>1, <4>1, SMTT(30)
      <4> QED
        BY <4>2, <4>3
  <2> QED
    BY <2>1, <2>2
<1>2. ASSUME NEW c \in Calls, ClaimUnavailable(c) PROVE OneClaim' /\ StoredFired'
  <2>1. /\ pc[c] = "idle" /\ pc' = [pc EXCEPT ![c] = "down"]
        /\ UNCHANGED <<tok, ret, entered, fired>>
    BY <1>2, <1>c DEF ClaimUnavailable, MayStart
  <2>2. \/ row' = row
        \/ /\ row.state = "fresh" /\ row'.state = "in_flight"
           /\ row'.result = None
    BY <1>2, ClaimedRow DEF ClaimUnavailable
  <2>3. CASE row' = row
    BY <2>1, <2>3, SMTT(30)
  <2>4. CASE row.state = "fresh" /\ row'.state = "in_flight" /\ row'.result = None
    <3>1. OneClaim'
      BY <2>1, <2>4, SMTT(30)
    <3>2. StoredFired'
      BY <2>1, <2>4, SMTT(30)
    <3> QED
      BY <3>1, <3>2
  <2> QED
    BY <2>2, <2>3, <2>4
<1>3. ASSUME NEW c \in Calls,
             \/ CheckLease(c) \/ Probe(c) \/ Backfill(c) \/ Release(c)
             \/ Reclaim(c)
      PROVE  FALSE
  BY <1>3 DEF CheckLease, Probe, Backfill, Release, Reclaim
<1>4. ASSUME NEW c \in Calls, Poll(c) PROVE OneClaim' /\ StoredFired'
  BY <1>4, SMTT(30) DEF Poll
<1>5. ASSUME NEW c \in Calls, WaitTimeout(c) PROVE OneClaim' /\ StoredFired'
  BY <1>5, SMTT(30) DEF WaitTimeout
<1>6. ASSUME NEW c \in Calls, Enter(c) PROVE OneClaim' /\ StoredFired'
  BY <1>6, SMTT(30) DEF Enter
<1>7. ASSUME NEW c \in Calls, Fire(c) PROVE OneClaim' /\ StoredFired'
  BY <1>7, SMTT(30) DEF Fire
<1>8. ASSUME NEW c \in Calls, Return(c) PROVE OneClaim' /\ StoredFired'
  BY <1>8, SMTT(30) DEF Return, AfterStop
<1>9. ASSUME NEW c \in Calls, Raise(c) PROVE OneClaim' /\ StoredFired'
  BY <1>9, SMTT(30) DEF Raise, AfterStop
<1>10. ASSUME NEW c \in Calls, Commit(c) PROVE OneClaim' /\ StoredFired'
  BY <1>10, SMTT(30) DEF Commit, CommitRow
<1>11. ASSUME NEW c \in Calls, StoreUnavailable(c) PROVE OneClaim' /\ StoredFired'
  <2>1. row' = row \/ (pc[c] = "commit" /\ row' = CommitRow(row, c))
    BY <1>11, SMTT(30) DEF StoreUnavailable, NextWrites
  <2> QED
    BY <1>11, <2>1, SMTT(30) DEF StoreUnavailable, CommitRow
<1>12. ASSUME NEW c \in Calls, Beat(c) \/ BeatUnavailable(c) \/ LateBeat(c)
       PROVE  OneClaim' /\ StoredFired'
  <2>1. /\ row'.state = row.state /\ row'.token = row.token
        /\ row'.result = row.result
    BY <1>12, RenewedRow DEF Beat, BeatUnavailable, LateBeat
  <2>2. UNCHANGED <<pc, tok, ret, entered, fired>>
    BY <1>12 DEF Beat, BeatUnavailable, LateBeat
  <2> QED
    BY <2>1, <2>2, SMTT(30)
<1>13. ASSUME NEW c \in Calls, Crash(c) PROVE OneClaim' /\ StoredFired'
  BY <1>13, SMTT(30) DEF Crash
<1>14. ASSUME Tick PROVE OneClaim' /\ StoredFired'
  <2>1. /\ row'.state = row.state /\ row'.token = row.token
        /\ row'.result = row.result
    BY <1>14, SMTT(30) DEF Tick, TypeOK, RowsOf
  <2>2. UNCHANGED <<pc, tok, ret, entered, fired>>
    BY <1>14 DEF Tick
  <2> QED
    BY <2>1, <2>2, SMTT(30)
<1>15. CASE UNCHANGED vars
  BY <1>15, SMTT(30) DEF vars
<1> QED
  BY <1>1, <1>2, <1>3, <1>4, <1>5, <1>6, <1>7, <1>8, <1>9, <1>10, <1>11, <1>12,
     <1>13, <1>14, <1>15
  DEF Next, Step, Terminating

\* The invariant is inductive.
THEOREM SafeInvariant == ASSUME SafePolicies PROVE Spec => []SafeInv
<1>1. SafeInv /\ [Next]_vars => SafeInv'
  BY SafeNext, NextType, CommittedUnleasedStep DEF SafeInv
<1> QED
  BY <1>1, SafeInit, PTL DEF Spec

\* With a policy that never retires a claim, fail-closed, at most one call
\* ever calls the effect function: through any interleaving, crash, lost
\* answer and lapsed lease.
THEOREM AtMostOnce == ASSUME SafePolicies PROVE Spec => []AtMostOneEntry
<1>1. SafeInv => AtMostOneEntry
  <2> SUFFICES ASSUME SafeInv, NEW c \in entered, NEW d \in entered PROVE c = d
    BY DEF AtMostOneEntry
  <2>1. c \in Calls /\ d \in Calls
    BY DEF SafeInv, TypeOK
  <2>2. <<c, 1>> = <<d, 1>>
    BY <2>1 DEF SafeInv, OneClaim
  <2> QED
    BY <2>2, TokensDiffer
<1> QED
  BY <1>1, SafeInvariant, PTL

\* ... and every caller who is given a result is given the ledger's.
THEOREM OneResult == ASSUME SafePolicies PROVE Spec => []ResultIsTheLedgers
<1>1. SafeInv => ResultIsTheLedgers
  BY DEF SafeInv, StoredFired, ResultIsTheLedgers
<1> QED
  BY <1>1, SafeInvariant, PTL

-----------------------------------------------------------------------------
(***************************************************************************)
(* Payloads: nobody is given the result of another payload.                *)
(***************************************************************************)
\* The record carries the fingerprint of the call whose claim it is, and a
\* call that waits or has returned was found not to clash with it.
PayloadInv ==
    /\ \A c \in Calls : tok[c] # None => row.fp = conf[c].fp
    /\ \A c \in Calls : pc[c] \in {"wait", "returned"} => ~Clash(c)

\* Every step keeps it.
LEMMA PayloadStep ==
    ASSUME SafePolicies, SafeInv, PayloadInv, [Next]_vars
    PROVE  PayloadInv'
<1>0. /\ pc \in [Calls -> {"idle"} \cup Owning \cup Resolving \cup Ended]
      /\ tok \in [Calls -> Tokens \cup {None}]
  BY DEF SafeInv, TypeOK
<1>c. conf' = conf
  BY ConfKept
<1> USE <1>0, <1>c DEF PayloadInv
<1>1. ASSUME NEW c \in Calls, Claim(c) PROVE PayloadInv'
  <2>1. CASE row.state = "fresh"
    <3>1. /\ \A d \in Calls : tok[d] = None
          /\ \A d \in Calls : pc[d] # "wait" /\ pc[d] # "returned"
      BY <2>1 DEF SafeInv, OneClaim, StoredFired
    <3>2. /\ row'.fp = conf[c].fp
          /\ pc' = [pc EXCEPT ![c] = "fresh"] /\ tok' = [tok EXCEPT ![c] = <<c, 1>>]
      BY <1>1, <2>1 DEF Claim, ClaimsAs, ClaimRow
    <3> QED
      BY <3>1, <3>2, SMTT(30)
  <2>2. CASE row.state # "fresh"
    <3>1. row' = row /\ tok' = tok
      BY <1>1, <2>2, ClaimedRow DEF Claim
    <3>2. \A d \in Calls \ {c} : pc'[d] = pc[d]
      BY <1>1, SMTT(30) DEF Claim
    <3>3. pc'[c] \in {"wait", "returned"} => ~Clash(c)
      BY <1>1, <2>2, SMTT(30) DEF Claim
    <3>4. \A d \in Calls : Clash(d)' = Clash(d)
      BY <3>1 DEF Clash
    <3> QED
      BY <3>1, <3>2, <3>3, <3>4, Zenon
  <2> QED
    BY <2>1, <2>2
<1>2. ASSUME row'.fp = row.fp, tok' = tok,
             \A d \in Calls : pc'[d] \in {"wait", "returned"} =>
                 pc[d] \in {"wait", "returned"} \/ tok[d] # None
      PROVE  PayloadInv'
  BY <1>2, SMTT(30) DEF Clash
<1>3. ASSUME NEW c \in Calls, ClaimUnavailable(c) PROVE PayloadInv'
  <2>1. pc' = [pc EXCEPT ![c] = "down"] /\ tok' = tok
    BY <1>3 DEF ClaimUnavailable, SafePolicies, SafeInv, TypeOK
  <2>2. CASE row.state = "fresh"
    <3>1. /\ \A d \in Calls : tok[d] = None
          /\ \A d \in Calls : pc[d] # "wait" /\ pc[d] # "returned"
      BY <2>2 DEF SafeInv, OneClaim, StoredFired
    <3> QED
      BY <2>1, <3>1, SMTT(30)
  <2>3. CASE row.state # "fresh"
    <3>1. row' = row
      BY <1>3, <2>3, ClaimedRow DEF ClaimUnavailable
    <3> QED
      BY <1>2, <2>1, <3>1, SMTT(30)
  <2> QED
    BY <2>2, <2>3
<1>4. ASSUME NEW c \in Calls,
             \/ CheckLease(c) \/ Probe(c) \/ Backfill(c) \/ Release(c)
             \/ Reclaim(c)
      PROVE  FALSE
  BY <1>4 DEF CheckLease, Probe, Backfill, Release, Reclaim, SafeInv, OneClaim
<1>5. ASSUME NEW c \in Calls, Poll(c) \/ WaitTimeout(c)
      PROVE  PayloadInv'
  <2>1. row' = row /\ tok' = tok /\ pc[c] = "wait"
    BY <1>5 DEF Poll, WaitTimeout
  <2>2. \A d \in Calls \ {c} : pc'[d] = pc[d]
    BY <1>5, SMTT(30) DEF Poll, WaitTimeout
  <2> QED
    BY <1>2, <2>1, <2>2, Zenon
<1>6. ASSUME NEW c \in Calls, Enter(c) \/ Fire(c) \/ Return(c) \/ Raise(c) \/ Crash(c)
      PROVE  PayloadInv'
  <2>1. row' = row /\ tok' = tok
    BY <1>6 DEF Enter, Fire, Return, Raise, Crash
  <2>2. /\ \A d \in Calls \ {c} : pc'[d] = pc[d]
        /\ pc'[c] \in {"wait", "returned"} => pc[c] = "fired"
    BY <1>6, SMTT(30) DEF Enter, Fire, Return, Raise, AfterStop, Crash
  <2>3. pc[c] = "fired" => tok[c] # None
    BY DEF SafeInv, OneClaim, Owning
  <2> QED
    BY <1>2, <2>1, <2>2, <2>3, Zenon
<1>7. ASSUME NEW c \in Calls, Commit(c) \/ StoreUnavailable(c)
      PROVE  PayloadInv'
  <2>1. /\ tok' = tok
        /\ pc[c] = "commit" \/ pc'[c] = "down"
        /\ \A d \in Calls \ {c} : pc'[d] = pc[d]
    BY <1>7, SMTT(30) DEF Commit, StoreUnavailable
  <2>2. row' = row \/ row' = CommitRow(row, c)
    <3>1. pc[c] \notin {"backfill", "release", "reclaim"}
      BY DEF SafeInv, OneClaim
    <3> QED
      BY <1>7, <3>1, SMTT(30) DEF Commit, StoreUnavailable, NextWrites
  <2>3. row'.fp = row.fp
    BY <2>2, SMTT(30) DEF CommitRow
  <2>4. pc[c] = "commit" => tok[c] # None
    BY DEF SafeInv, OneClaim, Owning
  <2> QED
    BY <1>2, <2>1, <2>3, <2>4, SMTT(30)
<1>8. ASSUME NEW c \in Calls, Beat(c) \/ BeatUnavailable(c) \/ LateBeat(c)
      PROVE  PayloadInv'
  <2>1. row'.fp = row.fp
    BY <1>8, SMTT(30)
    DEF Beat, BeatUnavailable, LateBeat, Renewals, BeatRow, SafeInv, TypeOK, RowsOf
  <2>2. UNCHANGED <<pc, tok>>
    BY <1>8 DEF Beat, BeatUnavailable, LateBeat
  <2> QED
    BY <1>2, <2>1, <2>2, Zenon
<1>9. ASSUME Tick PROVE PayloadInv'
  <2>1. row'.fp = row.fp
    BY <1>9, SMTT(30) DEF Tick, SafeInv, TypeOK, RowsOf
  <2>2. UNCHANGED <<pc, tok>>
    BY <1>9 DEF Tick
  <2> QED
    BY <1>2, <2>1, <2>2, Zenon
<1>10. CASE UNCHANGED vars
  BY <1>10 DEF vars, Clash
<1> QED
  BY <1>1, <1>3, <1>4, <1>5, <1>6, <1>7, <1>8, <1>9, <1>10
  DEF Next, Step, Terminating

\* With a policy that never retires a claim, fail-closed, no caller is given
\* the result of another payload: the second claim, which checks no
\* fingerprint, is never reached.
THEOREM PayloadSafe == ASSUME SafePolicies PROVE Spec => []SamePayload
<1>1. Init => PayloadInv
  BY SMTT(30) DEF Init, PayloadInv
<1>2. SafeInv /\ PayloadInv /\ [Next]_vars => PayloadInv'
  BY PayloadStep
<1>3. SafeInv /\ PayloadInv => SamePayload
  <2> SUFFICES ASSUME SafeInv, PayloadInv, NEW c \in Calls, pc[c] = "returned"
               PROVE  Cardinality({conf[c].fp, conf[ret[c]].fp} \ {None}) <= 1
    BY DEF SamePayload
  <2>1. ret[c] \in Calls /\ row.fp = conf[ret[c]].fp
    BY DEF SafeInv, TypeOK, OneClaim, StoredFired, PayloadInv
  <2>2. ~Clash(c)
    BY DEF PayloadInv
  <2>3. \E x : {conf[c].fp, conf[ret[c]].fp} \ {None} \in {{}, {x}}
    BY <2>1, <2>2, Zenon DEF Clash
  <2>4. \A x : Cardinality({x}) = 1 /\ Cardinality({}) = 0
    BY FS_EmptySet, FS_Singleton
  <2>5. Cardinality({conf[c].fp, conf[ret[c]].fp} \ {None}) \in {0, 1}
    BY <2>3, <2>4, Zenon
  <2> QED
    BY <2>5, SMTT(30)
<1> QED
  BY <1>1, <1>2, <1>3, SafeInvariant, PTL DEF Spec

-----------------------------------------------------------------------------
(***************************************************************************)
(* The guard implements the promise of EffectOnce.                         *)
(***************************************************************************)
\* There is one effect at most.
LEMMA OneFired ==
    ASSUME SafeInv, NEW c \in entered, NEW d \in fired
    PROVE  c = d
<1>1. c \in Calls /\ d \in Calls /\ d \in entered
  BY DEF SafeInv, TypeOK, StoredFired
<1>2. <<c, 1>> = <<d, 1>>
  BY <1>1 DEF SafeInv, OneClaim
<1> QED
  BY <1>2, TokensDiffer

\* Every step is a step of the promise, or changes nothing that it speaks of.
LEMMA PromiseStep ==
    ASSUME SafePolicies, SafeInv, SafeInv', [Next]_vars
    PROVE  [Promise!Next]_(Promise!vars)
<1>0. /\ TypeOK
      /\ pc \in [Calls -> {"idle"} \cup Owning \cup Resolving \cup Ended]
      /\ ret \in [Calls -> Calls \cup {None}]
      /\ entered \subseteq Calls /\ fired \subseteq Calls
      /\ None \notin Calls
  BY NoneIsNoValue, SMTT(30) DEF SafeInv, TypeOK
<1>s. /\ row.state = "committed" => row.result \in fired /\ row.result # None
      /\ row.state # "committed" => row.result = None
  BY <1>0 DEF SafeInv, StoredFired
<1>c. ASSUME NEW c \in Calls
      PROVE  conf[c].policy \in {"quarantine", "wait"} /\ conf[c].open = FALSE
  BY DEF SafeInv, TypeOK, SafePolicies
<1>1. ASSUME NEW c \in Calls, Claim(c) PROVE [Promise!Next]_(Promise!vars)
  <2>1. pc[c] = "idle"
    BY <1>1 DEF Claim, MayStart
  <2>2. CASE row.state = "fresh"
    <3>1. /\ row'.result = row.result
          /\ pc' = [pc EXCEPT ![c] = "fresh"] /\ UNCHANGED <<ret, fired>>
      BY <1>1, <2>2, ClaimedRow DEF Claim, SafeInv, StoredFired
    <3> QED
      BY <1>0, <2>1, <3>1, SilentMove
  <2>3. CASE row.state # "fresh"
    <3>1. row' = row /\ fired' = fired
      BY <1>1, <2>3, ClaimedRow DEF Claim
    <3>2. \/ \E p \in {"reuse", "denied", "wait"} :
                pc' = [pc EXCEPT ![c] = p] /\ ret' = ret
          \/ /\ row.state = "committed"
             /\ pc' = [pc EXCEPT ![c] = "returned"]
             /\ ret' = [ret EXCEPT ![c] = row.result]
      BY <1>1, <2>3, <1>c, Zenon DEF Claim
    <3>3. CASE \E p \in {"reuse", "denied", "wait"} :
                pc' = [pc EXCEPT ![c] = p] /\ ret' = ret
      BY <1>0, <3>3, <3>1, <2>1, SilentMove
    <3>4. CASE /\ row.state = "committed"
               /\ pc' = [pc EXCEPT ![c] = "returned"]
               /\ ret' = [ret EXCEPT ![c] = row.result]
      BY <1>0, <1>s, <3>4, <3>1, <2>1, ReplayMove
    <3> QED
      BY <3>2, <3>3, <3>4
  <2> QED
    BY <2>2, <2>3
<1>2. ASSUME NEW c \in Calls, ClaimUnavailable(c)
      PROVE  UNCHANGED Promise!vars
  <2>1. /\ pc[c] = "idle" /\ pc' = [pc EXCEPT ![c] = "down"]
        /\ UNCHANGED <<ret, fired>>
    BY <1>2, <1>c DEF ClaimUnavailable, MayStart
  <2>2. row'.result = row.result
    BY <1>2, ClaimedRow DEF ClaimUnavailable, SafeInv, StoredFired
  <2> QED
    BY <1>0, <2>1, <2>2, SilentMove
<1>3. ASSUME NEW c \in Calls,
             \/ CheckLease(c) \/ Probe(c) \/ Backfill(c) \/ Release(c)
             \/ Reclaim(c)
      PROVE  FALSE
  BY <1>3 DEF CheckLease, Probe, Backfill, Release, Reclaim, SafeInv, OneClaim
<1>4. ASSUME NEW c \in Calls, Poll(c) PROVE [Promise!Next]_(Promise!vars)
  <2>1. row.state = "committed"
    BY <1>4 DEF Poll, SafeInv, OneClaim
  <2> QED
    BY <1>0, <1>s, <1>4, <2>1, ReplayMove DEF Poll
<1>5. ASSUME NEW c \in Calls,
             WaitTimeout(c) \/ Enter(c) \/ Return(c) \/ Raise(c) \/ Crash(c)
      PROVE  UNCHANGED Promise!vars
  <2>1. /\ UNCHANGED <<row, ret, fired>>
        /\ pc[c] # "returned"
        /\ \E p \in {"denied", "running", "commit", "raised", "down", "crashed"} :
              pc' = [pc EXCEPT ![c] = p]
    BY <1>5, SMTT(30)
    DEF WaitTimeout, Enter, Return, Raise, Crash, AfterStop, Owning, Resolving,
        SafeInv, OneClaim
  <2> QED
    BY <1>0, <2>1, SilentMove
<1>6. ASSUME NEW c \in Calls, Fire(c) PROVE Promise!Happen(c)
  <2>1. fired = {}
    <3>1. c \in entered /\ c \notin fired
      BY <1>6 DEF Fire, SafeInv, StoredFired
    <3> QED
      BY <3>1, OneFired
  <2>2. Answers' = Answers
    BY <1>0, <1>6, MoveKeepsAnswers DEF Fire
  <2> QED
    BY <1>6, <2>1, <2>2 DEF Fire, Promise!Happen
<1>7. ASSUME NEW c \in Calls, pc[c] = "commit"
      PROVE  c \in fired /\ \A d \in fired : d = c
  BY <1>7, OneFired DEF SafeInv, StoredFired
<1>8. ASSUME NEW c \in Calls, Commit(c) PROVE [Promise!Next]_(Promise!vars)
  <2>1. /\ pc[c] = "commit" /\ row' = CommitRow(row, c) /\ fired' = fired
        /\ pc' = [pc EXCEPT ![c] = "returned"]
        /\ ret'[c] = c /\ \A d \in Calls \ {c} : ret'[d] = ret[d]
    BY <1>8, <1>0 DEF Commit
  <2> QED
    BY <1>0, <1>s, <1>7, <2>1, CommitMove
<1>9. ASSUME NEW c \in Calls, StoreUnavailable(c)
      PROVE  [Promise!Next]_(Promise!vars)
  <2>1. /\ pc[c] # "returned" /\ pc' = [pc EXCEPT ![c] = "down"]
        /\ UNCHANGED <<ret, fired>>
    BY <1>9 DEF StoreUnavailable
  <2>2. row' = row \/ (pc[c] = "commit" /\ row' = CommitRow(row, c))
    BY <1>9, SMTT(30) DEF StoreUnavailable, NextWrites, SafeInv, OneClaim
  <2>3. CASE row' = row
    BY <1>0, <2>1, <2>3, SilentMove
  <2>4. CASE pc[c] = "commit" /\ row' = CommitRow(row, c)
    BY <1>0, <1>s, <1>7, <2>1, <2>4, CommitMove
  <2> QED
    BY <2>2, <2>3, <2>4
<1>10. ASSUME NEW c \in Calls, Beat(c) \/ BeatUnavailable(c) \/ LateBeat(c)
       PROVE  UNCHANGED Promise!vars
  <2>1. row'.result = row.result
    BY <1>10, RenewedRow DEF Beat, BeatUnavailable, LateBeat, SafeInv
  <2> QED
    BY <1>10, <2>1, SilentRow DEF Beat, BeatUnavailable, LateBeat
<1>11. ASSUME Tick PROVE UNCHANGED Promise!vars
  <2>1. row'.result = row.result
    BY <1>11, SMTT(30) DEF Tick, SafeInv, TypeOK, RowsOf
  <2> QED
    BY <1>11, <2>1, SilentRow DEF Tick
<1>12. CASE UNCHANGED vars
  BY <1>12, SilentRow DEF vars
<1> QED
  BY <1>1, <1>2, <1>3, <1>4, <1>5, <1>6, <1>8, <1>9, <1>10, <1>11, <1>12
  DEF Next, Step, Terminating, Promise!Next

\* With a policy that never retires a claim, fail-closed, the guard implements
\* the promise: one effect, one stored result, one answer.
THEOREM SafeImplements == ASSUME SafePolicies PROVE Spec => ImplementsEffectOnce
<1>1. Init => Promise!Init
  BY SMTT(30) DEF Init, Promise!Init, Answers, NoRow, LegacyRow
<1>2. SafeInv /\ SafeInv' /\ [Next]_vars => [Promise!Next]_(Promise!vars)
  BY PromiseStep
<1> QED
  BY <1>1, <1>2, SafeInvariant, PTL DEF Spec, ImplementsEffectOnce, Promise!Spec
=============================================================================
