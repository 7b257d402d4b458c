-------------------------- MODULE OnceLeaseProofs --------------------------
(***************************************************************************)
(* What leases buy the policies that adopt an orphan: when renewals and    *)
(* lease checks are timely and no renewal of a live owner fails, no live   *)
(* owner is adopted, whichever workers crash and whichever other store     *)
(* calls fail; and with a policy that asks the prober first, the guard     *)
(* implements the promise of EffectOnce.                                   *)
(***************************************************************************)
EXTENDS OnceProofs

\* A lease outlasts its heartbeat interval and the time that a claim or renewal
\* may wait in the store; whoever has none is under way alone; the starts of
\* heartbeats, the renewals and the lease checks are in time, and no renewal raises
\* (the code never repeats one that did: src/src/exactly_once/core.py:318).  A commit
\* may come late, unless somebody adopts without asking the prober.
TimelyLeases ==
    /\ \A k \in Configs : k.ttl # None => k.beat + Delay < k.ttl
    /\ Solo \/ \A k \in Configs : k.ttl # None
    /\ {"start", "beat", "renew", "check"} \subseteq Prompt
    /\ "commit" \in Prompt \/ \A k \in Configs : k.policy # "auto_retry"
    /\ Upgraded = FALSE

Reconciling == {"check", "probe", "release"}

\* A call that runs on a claim of its own; failing open it runs without one.
Owner(c) == pc[c] \in Owning /\ tok[c] # None

Leased(c) == Owner(c) /\ conf[c].ttl # None

LateCommit(c) == pc[c] = "commit" /\ "commit" \notin Prompt

UnderWay(c) == pc[c] \notin Ended \cup {"idle"}

\* A token that some claim has used: no later claim has it.
Spent(t) ==
    \E d \in Calls : \/ t = <<d, 1>> /\ pc[d] # "idle"
                     \/ t = <<d, 2>> /\ pc[d] \notin {"idle"} \cup Resolving

\* A token belongs to the one call that claimed with it.
TokenInv ==
    /\ \A c \in Calls : tok[c] \in {None, <<c, 1>>, <<c, 2>>}
    /\ \A c \in Calls : pc[c] \in {"idle"} \cup Resolving => tok[c] = None
    /\ \A c \in Calls : pc[c] \in {"fresh", "commit"} => tok[c] # None
    /\ row.state = "in_flight" => row.token # None /\ Spent(row.token)
    /\ \A c \in Calls : pc[c] \in Reconciling =>
          seen[c].token # None /\ Spent(seen[c].token)

\* The row is the owner's; its lease, if it has one, is in force and outlasts
\* the next beat until the effect has returned.
OwnerInv ==
    /\ \A c \in Calls : Owner(c) => row.state # "fresh" /\ row.token = tok[c]
    /\ \A c \in Calls : Leased(c) /\ row.state = "in_flight" /\ ~LateCommit(c) =>
          /\ row.left # None /\ row.left > 0
          /\ pc[c] = "fresh" => row.left > conf[c].beat
          /\ pc[c] \in {"running", "fired"} => hb[c] = "on" /\ due[c] < row.left

\* Only an owner that executes renews.
BeatInv ==
    /\ \A c \in Calls : hb[c] # "late"
    /\ \A c \in Calls : hb[c] = "on" => Leased(c) /\ pc[c] \in {"running", "fired"}

\* A reconciler that got past the lease check observed no owner with a lease,
\* or one whose effect is done, which the prober sees; and the claim that it
\* observed lies expired if it still lies there.
AdoptInv ==
    /\ \A c \in Calls, d \in Calls :
          Leased(d) /\ pc[c] \in Reconciling /\ seen[c].token = tok[d] =>
             \/ pc[c] = "check" /\ Live(seen[c].left)
             \/ LateCommit(d) /\ pc[c] # "release"
    /\ \A c \in Calls :
          pc[c] \in Reconciling /\ Owns(row, seen[c].token) =>
             \/ pc[c] = "check" /\ Live(seen[c].left)
             \/ ~Live(row.left)

\* Only calls with a lease are under way together.
SoloInv ==
    \A c, d \in Calls : c # d /\ UnderWay(c) /\ UnderWay(d)
                           => conf[c].ttl # None /\ conf[d].ttl # None

\* Who commits has caused the effect.
FiredInv == \A c \in Calls : pc[c] \in {"fired", "commit"} => c \in fired

LeaseInv ==
    /\ TypeOK /\ CommittedUnleased /\ TokenInv /\ OwnerInv /\ BeatInv /\ AdoptInv
    /\ SoloInv /\ FiredInv

-----------------------------------------------------------------------------
\* The invariant holds at first.
LEMMA LeaseInit == ASSUME TimelyLeases PROVE Init => LeaseInv
<1> SUFFICES ASSUME Init PROVE LeaseInv
  OBVIOUS
<1>1. TypeOK
  BY InitType
<1>2. /\ row = NoRow
      /\ \A c \in Calls : pc[c] = "idle" /\ tok[c] = None /\ hb[c] = "off"
  BY Zenon DEF Init, TimelyLeases
<1> QED
  BY <1>1, <1>2, SMTT(30)
  DEF LeaseInv, CommittedUnleased, TokenInv, OwnerInv, BeatInv, AdoptInv, SoloInv,
      FiredInv, UnderWay, Leased, NoRow, Owner, Owning, Resolving, Reconciling, Owns

\* A used token stays used as long as no call goes back to where it could
\* still claim with it; c's own tokens are unused until it claims.
LEMMA SpentStays ==
    ASSUME NEW t, Spent(t),
           \A d \in Calls : pc[d] # "idle" => pc'[d] # "idle",
           \A d \in Calls : pc[d] \notin {"idle"} \cup Resolving
                               => pc'[d] \notin {"idle"} \cup Resolving
    PROVE  Spent(t)'
BY Zenon DEF Spent

\* The token of c's next claim is not used yet.
LEMMA Unspent ==
    ASSUME NEW c \in Calls
    PROVE  /\ pc[c] = "idle" => ~Spent(<<c, 1>>)
           /\ pc[c] \in {"idle"} \cup Resolving => ~Spent(<<c, 2>>)
BY SMTT(30) DEF Spent

\* A lease in force that does not run out next is in force a unit later (Tick).
LEMMA LiveAges ==
    ASSUME NEW left \in Nat \cup {None}, Live(left), left # 1
    PROVE  Live(Aged(left))
BY NoneAssumption, SMTT(30) DEF Live, Aged

\* The lease of a fresh claim or renewal outlasts the next beat.
LEMMA StampOutlasts ==
    ASSUME TimelyLeases, TypeOK, NEW c \in Calls, conf[c].ttl # None,
           NEW l \in Stamped(conf[c].ttl)
    PROVE  l \in Nat /\ l > conf[c].beat /\ l # None /\ l > 0
<1>1. conf[c] \in Configs
  BY DEF TypeOK
<1>2. conf[c].ttl \in Nat /\ conf[c].beat \in Nat /\ conf[c].beat > 0
      /\ conf[c].ttl # None /\ conf[c].beat + Delay < conf[c].ttl
  BY <1>1, ConfigType, SMTT(30) DEF TimelyLeases, Lefts
<1> QED
  BY <1>2, DelayAssumption, NoneAssumption, SMTT(30) DEF Stamped

\* A claim with token t takes c to p: to the way through the effect if there
\* was no record, otherwise to waiting or to its end.
ClaimMove(c, t, p) ==
    /\ row' \in ClaimsAs(c, t)
    /\ t # None /\ ~Spent(t)
    /\ \A u : Spent(u) => Spent(u)'
    /\ row.state = "fresh" => Spent(t)'
    /\ pc' = [pc EXCEPT ![c] = p]
    /\ pc[c] \in {"idle", "reclaim"}
    /\ \/ p = "fresh" /\ row.state = "fresh" /\ tok' = [tok EXCEPT ![c] = t]
       \/ p \in Ended /\ tok' = tok
       \/ p = "wait" /\ row.state # "fresh" /\ tok' = tok
       \/ p = "running" /\ tok[c] = None /\ tok' = tok
    /\ t \in {<<c, 1>>, <<c, 2>>}
    /\ UNCHANGED <<conf, hb, due>>
    /\ \A d \in Calls \ {c} : seen'[d] = seen[d]

\* Such a claim keeps the invariant.
LEMMA ClaimMoveKeeps ==
    ASSUME TimelyLeases, LeaseInv, NEW c \in Calls, NEW t, NEW p, ClaimMove(c, t, p)
    PROVE  TokenInv' /\ OwnerInv' /\ BeatInv' /\ AdoptInv'
<1>0. /\ pc \in [Calls -> {"idle"} \cup Owning \cup Resolving \cup Ended]
      /\ tok \in [Calls -> Tokens \cup {None}]
      /\ seen \in [Calls -> Seens]
      /\ hb \in [Calls -> {"off", "on", "dead", "failed", "late"}]
      /\ due \in [Calls -> Nat]
      /\ row.state \in {"fresh", "in_flight", "committed"}
      /\ row.left \in Nat \cup {None}
  BY SMTT(30) DEF LeaseInv, TypeOK, RowsOf, States, Seens
<1>n. \A d \in Calls : <<d, 1>> # None /\ <<d, 2>> # None
  BY NoneIsNoValue
<1> USE <1>0, <1>n, NoneAssumption
    DEF TokenInv, OwnerInv, BeatInv, AdoptInv, LeaseInv, Owner, Leased, LateCommit,
        Owning, Resolving, Ended, Reconciling, Owns, Live
<1>m. ClaimMove(c, t, p)
  OBVIOUS
<1> USE DEF ClaimMove
<1>1. CASE row.state # "fresh"
  <2>1. row' = row
    BY <1>m, <1>1, ClaimedRow
  <2>2. TokenInv'
    BY <1>m, <1>1, <2>1, SMTT(30)
  <2>3. OwnerInv'
    BY <1>m, <1>1, <2>1, SMTT(30)
  <2>4. BeatInv'
    BY <1>m, <1>1, <2>1, SMTT(30)
  <2>5. AdoptInv'
    BY <1>m, <1>1, <2>1, SMTT(30)
  <2> QED
    BY <2>2, <2>3, <2>4, <2>5
<1>2. CASE row.state = "fresh"
  <2>1. /\ row'.state = "in_flight" /\ row'.token = t
        /\ row'.left \in Stamped(conf[c].ttl)
    BY <1>m, <1>2, ClaimedRow
  <2>2. conf[c].ttl # None =>
          /\ row'.left \in Nat /\ row'.left > conf[c].beat /\ row'.left # None
          /\ row'.left > 0
    BY <2>1, StampOutlasts, Zenon
  <2>3. \A d \in Calls : ~Owner(d)
    BY <1>2
  <2>4. \A d \in Calls : pc[d] \in Reconciling => seen[d].token # t
    BY <1>m
  <2>5. t # None
    BY <1>n
  <2>6. TokenInv'
    BY <1>m, <1>2, <2>1, <2>5, SMTT(30)
  <2>7. OwnerInv'
    BY <1>m, <1>2, <2>1, <2>2, <2>3, SMTT(30)
  <2>8. BeatInv'
    BY <1>m, <1>2, SMTT(30)
  <2>9. AdoptInv'
    BY <1>m, <1>2, <2>1, <2>3, <2>4, SMTT(30)
  <2> QED
    BY <2>6, <2>7, <2>8, <2>9
<1> QED
  BY <1>1, <1>2

\* Every step keeps it.
LEMMA LeaseNext ==
    ASSUME TimelyLeases, LeaseInv, [Next]_vars
    PROVE  TokenInv' /\ OwnerInv' /\ BeatInv' /\ AdoptInv'
<1>0. /\ pc \in [Calls -> {"idle"} \cup Owning \cup Resolving \cup Ended]
      /\ tok \in [Calls -> Tokens \cup {None}]
      /\ seen \in [Calls -> Seens]
      /\ hb \in [Calls -> {"off", "on", "dead", "failed", "late"}]
      /\ due \in [Calls -> Nat]
      /\ row.state \in {"fresh", "in_flight", "committed"}
      /\ row.left \in Nat \cup {None}
  BY SMTT(30) DEF LeaseInv, TypeOK, RowsOf, States, Seens
<1>n. \A c \in Calls : <<c, 1>> # None /\ <<c, 2>> # None
  BY NoneIsNoValue
<1>s. \A s \in Seens : s.token \in Tokens \cup {None} /\ s.left \in Nat \cup {None}
  BY SMTT(30) DEF Seens
<1>p. {"start", "beat", "renew", "check"} \subseteq Prompt
  BY DEF TimelyLeases
<1>a. \A c \in Calls : conf[c].policy = "auto_retry" => "commit" \in Prompt
  BY DEF LeaseInv, TimelyLeases, TypeOK
<1>b. \A c \in Calls : conf[c].beat \in Nat /\ conf[c].beat > 0
  BY ConfigType DEF LeaseInv, TypeOK
<1>u. \A c, d \in Calls :
        Owner(c) /\ pc[d] \in Resolving => conf[c].ttl # None
  BY DEF LeaseInv, SoloInv, UnderWay, Owner, Owning, Resolving, Ended
<1>f. \A c \in Calls : pc[c] = "commit" => c \in fired
  BY DEF LeaseInv, FiredInv
<1> USE <1>0, <1>n, NoneAssumption
    DEF TokenInv, OwnerInv, BeatInv, AdoptInv, LeaseInv, Owner, Leased, LateCommit,
        Owning, Resolving, Ended, Reconciling, Owns, Live
<1>1. ASSUME NEW c \in Calls, Claim(c)
      PROVE  TokenInv' /\ OwnerInv' /\ BeatInv' /\ AdoptInv'
  <2>1. pc[c] = "idle" /\ row' \in ClaimsAs(c, <<c, 1>>) /\ UNCHANGED <<conf, hb, due>>
    BY <1>1 DEF Claim, MayStart
  <2>2. ~Spent(<<c, 1>>)
    BY <2>1, Unspent
  <2>3. \A t : Spent(t) => Spent(t)'
    BY <1>1, <2>1, SpentStays, SMTT(30) DEF Claim
  <2>4. CASE pc' = [pc EXCEPT ![c] = "check"]
    <3>1. /\ row.state = "in_flight" /\ row' = row /\ tok' = tok
          /\ seen' = [seen EXCEPT ![c] = [token |-> row.token, left  |-> row.left]]
      BY <1>1, <2>4, ClaimedRow DEF Claim
    <3>2. TokenInv'
      BY <2>1, <2>3, <2>4, <3>1, SMTT(30)
    <3>3. OwnerInv'
      BY <2>1, <2>4, <3>1, SMTT(30)
    <3>4. BeatInv'
      BY <2>1, <2>4, <3>1, SMTT(30)
    <3>5. AdoptInv'
      BY <2>1, <2>4, <3>1, SMTT(30)
    <3> QED
      BY <3>2, <3>3, <3>4, <3>5
  <2>5. CASE ~(pc' = [pc EXCEPT ![c] = "check"])
    <3>1. \E p \in {"fresh", "reuse", "returned", "denied", "wait"} :
            /\ pc' = [pc EXCEPT ![c] = p] /\ seen' = seen
            /\ \/ /\ row.state = "fresh" /\ p = "fresh"
                  /\ tok' = [tok EXCEPT ![c] = <<c, 1>>]
               \/ row.state # "fresh" /\ p # "fresh" /\ tok' = tok
      BY <1>1, <2>5, SMTT(30) DEF Claim
    <3>2. PICK p \in {"fresh", "reuse", "returned", "denied", "wait"} :
            /\ pc' = [pc EXCEPT ![c] = p] /\ seen' = seen
            /\ \/ /\ row.state = "fresh" /\ p = "fresh"
                  /\ tok' = [tok EXCEPT ![c] = <<c, 1>>]
               \/ row.state # "fresh" /\ p # "fresh" /\ tok' = tok
      BY <3>1
    <3>3. Spent(<<c, 1>>)'
      BY <3>2, SMTT(30) DEF Spent
    <3>4. ClaimMove(c, <<c, 1>>, p)
      BY <2>1, <2>2, <2>3, <3>2, <3>3, SMTT(30) DEF ClaimMove
    <3> QED
      BY <3>4, ClaimMoveKeeps
  <2> QED
    BY <2>4, <2>5
<1>2. ASSUME NEW c \in Calls, ClaimUnavailable(c)
      PROVE  TokenInv' /\ OwnerInv' /\ BeatInv' /\ AdoptInv'
  <2>1. /\ pc[c] = "idle" /\ row' \in {row} \cup ClaimsAs(c, <<c, 1>>)
        /\ UNCHANGED <<conf, tok, seen, hb, due>>
    BY <1>2 DEF ClaimUnavailable, MayStart
  <2>2. PICK p \in {"running", "down"} : pc' = [pc EXCEPT ![c] = p]
    BY <1>2 DEF ClaimUnavailable
  <2>3. ~Spent(<<c, 1>>)
    BY <2>1, Unspent
  <2>4. \A t : Spent(t) => Spent(t)'
    BY <2>1, <2>2, SpentStays, SMTT(30)
  <2>5. Spent(<<c, 1>>)'
    BY <2>2, SMTT(30) DEF Spent
  <2>6. CASE row' = row
    <3>1. TokenInv'
      BY <2>1, <2>2, <2>4, <2>6, SMTT(30)
    <3>2. OwnerInv'
      BY <2>1, <2>2, <2>6, SMTT(30)
    <3>3. BeatInv'
      BY <2>1, <2>2, <2>6, SMTT(30)
    <3>4. AdoptInv'
      BY <2>1, <2>2, <2>6, SMTT(30)
    <3> QED
      BY <3>1, <3>2, <3>3, <3>4
  <2>7. CASE row' \in ClaimsAs(c, <<c, 1>>)
    <3>1. ClaimMove(c, <<c, 1>>, p)
      BY <2>1, <2>2, <2>3, <2>4, <2>5, <2>7, SMTT(30) DEF ClaimMove
    <3> QED
      BY <3>1, ClaimMoveKeeps
  <2> QED
    BY <2>1, <2>6, <2>7
<1>3. ASSUME NEW c \in Calls, CheckLease(c)
      PROVE  TokenInv' /\ OwnerInv' /\ BeatInv' /\ AdoptInv'
  <2>5. /\ pc[c] = "check" /\ UNCHANGED <<row, conf, tok, hb, due>>
        /\ \A d \in Calls \ {c} : seen'[d] = seen[d] /\ pc'[d] = pc[d]
        /\ \/ pc'[c] = "denied"
           \/ /\ ~Live(seen[c].left) /\ seen'[c].token = seen[c].token
              /\ \/ pc'[c] = "probe"
                 \/ pc'[c] = "release" /\ conf[c].policy = "auto_retry"
    BY <1>3, SMTT(30) DEF CheckLease, OwnerLooksAlive, Seens
  <2>6. pc'[c] = "release" => "commit" \in Prompt
    BY <2>5, <1>a
  <2>s. \A t : Spent(t) => Spent(t)'
    BY <1>3, SpentStays, SMTT(30) DEF CheckLease
  <2> HIDE DEF Live
  <2>1. TokenInv'
    BY <2>5, <2>s, SMTT(30)
  <2>2. OwnerInv'
    BY <2>5, SMTT(30)
  <2>3. BeatInv'
    BY <2>5, SMTT(30)
  <2>4. AdoptInv'
    BY <2>5, <2>6, SMTT(30)
  <2> QED
    BY <2>1, <2>2, <2>3, <2>4
<1>4. ASSUME NEW c \in Calls, Probe(c)
      PROVE  TokenInv' /\ OwnerInv' /\ BeatInv' /\ AdoptInv'
  <2>s. \A t : Spent(t) => Spent(t)'
    BY <1>4, SpentStays, SMTT(30) DEF Probe
  <2>1. TokenInv'
    BY <1>4, <2>s, SMTT(30) DEF Probe, NoClaim
  <2>2. OwnerInv'
    BY <1>4, SMTT(30) DEF Probe, NoClaim
  <2>3. BeatInv'
    BY <1>4, SMTT(30) DEF Probe, NoClaim
  <2>4. AdoptInv'
    BY <1>4, <1>f, SMTT(30) DEF Probe, NoClaim
  <2> QED
    BY <2>1, <2>2, <2>3, <2>4
<1>5. ASSUME NEW c \in Calls, Backfill(c)
      PROVE  TokenInv' /\ OwnerInv' /\ BeatInv' /\ AdoptInv'
  <2>s. \A t : Spent(t) => Spent(t)'
    BY <1>5, SpentStays, SMTT(30) DEF Backfill
  <2>1. TokenInv'
    BY <1>5, <2>s, SMTT(30) DEF Backfill, CommitRow
  <2>2. OwnerInv'
    BY <1>5, SMTT(30) DEF Backfill, CommitRow
  <2>3. BeatInv'
    BY <1>5, SMTT(30) DEF Backfill, CommitRow
  <2>4. AdoptInv'
    BY <1>5, SMTT(30) DEF Backfill, CommitRow
  <2> QED
    BY <2>1, <2>2, <2>3, <2>4
<1>6. ASSUME NEW c \in Calls, Release(c)
      PROVE  TokenInv' /\ OwnerInv' /\ BeatInv' /\ AdoptInv'
  <2>s. \A t : Spent(t) => Spent(t)'
    BY <1>6, SpentStays, SMTT(30) DEF Release
  <2>1. TokenInv'
    BY <1>6, <2>s, SMTT(30) DEF Release, ReleaseRow, NoClaim, NoRow
  <2>2. OwnerInv'
    BY <1>6, <1>u, SMTT(30) DEF Release, ReleaseRow, NoClaim, NoRow
  <2>3. BeatInv'
    BY <1>6, SMTT(30) DEF Release, ReleaseRow, NoClaim, NoRow
  <2>4. AdoptInv'
    BY <1>6, SMTT(30) DEF Release, ReleaseRow, NoClaim, NoRow
  <2> QED
    BY <2>1, <2>2, <2>3, <2>4
<1>7. ASSUME NEW c \in Calls, Poll(c)
      PROVE  TokenInv' /\ OwnerInv' /\ BeatInv' /\ AdoptInv'
  <2>s. \A t : Spent(t) => Spent(t)'
    BY <1>7, SpentStays, SMTT(30) DEF Poll
  <2>1. TokenInv'
    BY <1>7, <2>s, SMTT(30) DEF Poll
  <2>2. OwnerInv'
    BY <1>7, SMTT(30) DEF Poll
  <2>3. BeatInv'
    BY <1>7, SMTT(30) DEF Poll
  <2>4. AdoptInv'
    BY <1>7, SMTT(30) DEF Poll
  <2> QED
    BY <2>1, <2>2, <2>3, <2>4
<1>8. ASSUME NEW c \in Calls, WaitTimeout(c)
      PROVE  TokenInv' /\ OwnerInv' /\ BeatInv' /\ AdoptInv'
  <2>s. \A t : Spent(t) => Spent(t)'
    BY <1>8, SpentStays, SMTT(30) DEF WaitTimeout
  <2>1. TokenInv'
    BY <1>8, <2>s, SMTT(30) DEF WaitTimeout
  <2>2. OwnerInv'
    BY <1>8, SMTT(30) DEF WaitTimeout
  <2>3. BeatInv'
    BY <1>8, SMTT(30) DEF WaitTimeout
  <2>4. AdoptInv'
    BY <1>8, SMTT(30) DEF WaitTimeout
  <2> QED
    BY <2>1, <2>2, <2>3, <2>4
<1>9. ASSUME NEW c \in Calls, Reclaim(c)
      PROVE  TokenInv' /\ OwnerInv' /\ BeatInv' /\ AdoptInv'
  <2>1. /\ pc[c] = "reclaim" /\ row' \in ClaimsAs(c, <<c, 2>>)
        /\ UNCHANGED <<conf, seen, hb, due>> /\ tok[c] = None
    BY <1>9 DEF Reclaim
  <2>2. ~Spent(<<c, 2>>)
    BY <2>1, Unspent
  <2>3. PICK p \in {"fresh", "returned", "denied"} :
          /\ pc' = [pc EXCEPT ![c] = p]
          /\ \/ /\ row.state = "fresh" /\ p = "fresh"
                /\ tok' = [tok EXCEPT ![c] = <<c, 2>>]
             \/ row.state # "fresh" /\ p # "fresh" /\ tok' = tok
    BY <1>9, SMTT(30) DEF Reclaim
  <2>4. \A t : Spent(t) => Spent(t)'
    BY <2>1, <2>3, SpentStays, SMTT(30)
  <2>5. Spent(<<c, 2>>)'
    BY <2>3, SMTT(30) DEF Spent
  <2>6. ClaimMove(c, <<c, 2>>, p)
    BY <2>1, <2>2, <2>3, <2>4, <2>5, SMTT(30) DEF ClaimMove
  <2> QED
    BY <2>6, ClaimMoveKeeps
<1>10. ASSUME NEW c \in Calls, Enter(c)
      PROVE  TokenInv' /\ OwnerInv' /\ BeatInv' /\ AdoptInv'
  <2>s. \A t : Spent(t) => Spent(t)'
    BY <1>10, SpentStays, SMTT(30) DEF Enter
  <2>1. TokenInv'
    BY <1>p, <1>b, <1>10, <2>s, SMTT(30) DEF Enter
  <2>2. OwnerInv'
    BY <1>p, <1>b, <1>10, SMTT(30) DEF Enter
  <2>3. BeatInv'
    BY <1>p, <1>b, <1>10, SMTT(30) DEF Enter
  <2>4. AdoptInv'
    BY <1>p, <1>b, <1>10, SMTT(30) DEF Enter
  <2> QED
    BY <2>1, <2>2, <2>3, <2>4
<1>11. ASSUME NEW c \in Calls, Fire(c)
      PROVE  TokenInv' /\ OwnerInv' /\ BeatInv' /\ AdoptInv'
  <2>s. \A t : Spent(t) => Spent(t)'
    BY <1>11, SpentStays, SMTT(30) DEF Fire
  <2>1. TokenInv'
    BY <1>11, <2>s, SMTT(30) DEF Fire
  <2>2. OwnerInv'
    BY <1>11, SMTT(30) DEF Fire
  <2>3. BeatInv'
    BY <1>11, SMTT(30) DEF Fire
  <2>4. AdoptInv'
    BY <1>11, SMTT(30) DEF Fire
  <2> QED
    BY <2>1, <2>2, <2>3, <2>4
<1>12. ASSUME NEW c \in Calls, Return(c)
      PROVE  TokenInv' /\ OwnerInv' /\ BeatInv' /\ AdoptInv'
  <2>s. \A t : Spent(t) => Spent(t)'
    BY <1>12, SpentStays, SMTT(30) DEF Return, AfterStop
  <2>1. TokenInv'
    BY <1>p, <1>b, <1>12, <2>s, SMTT(30) DEF Return, AfterStop, StopHeartbeat
  <2>2. OwnerInv'
    BY <1>p, <1>b, <1>12, SMTT(30) DEF Return, AfterStop, StopHeartbeat
  <2>3. BeatInv'
    BY <1>p, <1>b, <1>12, SMTT(30) DEF Return, AfterStop, StopHeartbeat
  <2>4. AdoptInv'
    BY <1>p, <1>b, <1>12, SMTT(30) DEF Return, AfterStop, StopHeartbeat
  <2> QED
    BY <2>1, <2>2, <2>3, <2>4
<1>13. ASSUME NEW c \in Calls, Raise(c)
      PROVE  TokenInv' /\ OwnerInv' /\ BeatInv' /\ AdoptInv'
  <2>s. \A t : Spent(t) => Spent(t)'
    BY <1>13, SpentStays, SMTT(30) DEF Raise, AfterStop
  <2>1. TokenInv'
    BY <1>p, <1>b, <1>13, <2>s, SMTT(30) DEF Raise, AfterStop, StopHeartbeat
  <2>2. OwnerInv'
    BY <1>p, <1>b, <1>13, SMTT(30) DEF Raise, AfterStop, StopHeartbeat
  <2>3. BeatInv'
    BY <1>p, <1>b, <1>13, SMTT(30) DEF Raise, AfterStop, StopHeartbeat
  <2>4. AdoptInv'
    BY <1>p, <1>b, <1>13, SMTT(30) DEF Raise, AfterStop, StopHeartbeat
  <2> QED
    BY <2>1, <2>2, <2>3, <2>4
<1>14. ASSUME NEW c \in Calls, Commit(c)
      PROVE  TokenInv' /\ OwnerInv' /\ BeatInv' /\ AdoptInv'
  <2>s. \A t : Spent(t) => Spent(t)'
    BY <1>14, SpentStays, SMTT(30) DEF Commit
  <2>1. TokenInv'
    BY <1>14, <2>s, SMTT(30) DEF Commit, CommitRow
  <2>2. OwnerInv'
    BY <1>14, SMTT(30) DEF Commit, CommitRow
  <2>3. BeatInv'
    BY <1>14, SMTT(30) DEF Commit, CommitRow
  <2>4. AdoptInv'
    BY <1>14, SMTT(30) DEF Commit, CommitRow
  <2> QED
    BY <2>1, <2>2, <2>3, <2>4
<1>15. ASSUME NEW c \in Calls, StoreUnavailable(c)
      PROVE  TokenInv' /\ OwnerInv' /\ BeatInv' /\ AdoptInv'
  <2>1. /\ pc' = [pc EXCEPT ![c] = "down"] /\ seen' = [seen EXCEPT ![c] = NoClaim]
        /\ UNCHANGED <<conf, tok, hb, due>> /\ row' \in {row} \cup NextWrites(c)
        /\ pc[c] \in {"check", "commit"} \cup Resolving
    BY <1>15, Zenon DEF StoreUnavailable
  <2>2. \A t : Spent(t) => Spent(t)'
    BY <2>1, SpentStays, SMTT(30)
  <2>3. CASE row' = row
    <3>1. TokenInv'
      BY <2>1, <2>2, <2>3, SMTT(30)
    <3>2. OwnerInv'
      BY <2>1, <2>3, SMTT(30)
    <3>3. BeatInv'
      BY <2>1, <2>3, SMTT(30)
    <3>4. AdoptInv'
      BY <2>1, <2>3, SMTT(30)
    <3> QED
      BY <3>1, <3>2, <3>3, <3>4
  <2>4. CASE pc[c] = "reclaim" /\ row' \in ClaimsAs(c, <<c, 2>>)
    <3>1. ~Spent(<<c, 2>>)
      BY <2>4, Unspent
    <3>2. Spent(<<c, 2>>)'
      BY <2>1, SMTT(30) DEF Spent
    <3>3. ClaimMove(c, <<c, 2>>, "down")
      BY <2>1, <2>2, <2>4, <3>1, <3>2, SMTT(30) DEF ClaimMove
    <3> QED
      BY <3>3, ClaimMoveKeeps
  <2>5. CASE \E r : row' = CommitRow(row, r)
    <3>1. /\ row'.state = "committed" /\ row'.token = row.token
      BY <2>5, SMTT(30) DEF CommitRow
    <3>2. TokenInv'
      BY <2>1, <2>2, <3>1, SMTT(30)
    <3>3. OwnerInv'
      BY <2>1, <3>1, SMTT(30)
    <3>4. BeatInv'
      BY <2>1, SMTT(30)
    <3>5. AdoptInv'
      BY <2>1, <3>1, SMTT(30)
    <3> QED
      BY <3>2, <3>3, <3>4, <3>5
  <2>6. CASE pc[c] = "release" /\ row' = ReleaseRow(row, seen[c].token)
    <3>1. \/ row' = row
          \/ /\ row.state = "in_flight" /\ row.token = seen[c].token
             /\ row'.state = "fresh"
      BY <2>6, SMTT(30) DEF ReleaseRow, NoRow
    <3>2. row'.state = "fresh" => \A d \in Calls : ~Owner(d)
      BY <2>6, <3>1, <1>u
    <3>3. TokenInv'
      BY <2>1, <2>2, <3>1, SMTT(30)
    <3>4. OwnerInv'
      BY <2>1, <3>1, <3>2, SMTT(30)
    <3>5. BeatInv'
      BY <2>1, SMTT(30)
    <3>6. AdoptInv'
      BY <2>1, <3>1, SMTT(30)
    <3> QED
      BY <3>3, <3>4, <3>5, <3>6
  <2> QED
    BY <2>1, <2>3, <2>4, <2>5, <2>6, SMTT(30) DEF NextWrites
<1>16. ASSUME NEW c \in Calls, Beat(c)
      PROVE  TokenInv' /\ OwnerInv' /\ BeatInv' /\ AdoptInv'
  <2>5. /\ row' \in Renewals(c) /\ UNCHANGED <<pc, tok, seen, conf>>
        /\ pc[c] \in {"running", "fired"} /\ conf[c].ttl # None
        /\ \/ /\ Owns(row, tok[c])
              /\ due' = [due EXCEPT ![c] = conf[c].beat] /\ hb' = hb
           \/ /\ ~Owns(row, tok[c])
              /\ hb' = [hb EXCEPT ![c] = "dead"] /\ due' = due
    BY <1>16, Zenon DEF Beat
  <2>6. /\ row'.state = row.state /\ row'.token = row.token
        /\ ~Owns(row, tok[c]) => row' = row
        /\ Owns(row, tok[c]) => row'.left \in Nat /\ row'.left > conf[c].beat
                                  /\ row'.left # None /\ row'.left > 0
    <3>1. /\ row'.state = row.state /\ row'.token = row.token
          /\ ~Owns(row, tok[c]) => row' = row
          /\ Owns(row, tok[c]) => row'.left \in Stamped(conf[c].ttl)
      BY <2>5, RenewedRow
    <3>2. \A l \in Stamped(conf[c].ttl) :
            l \in Nat /\ l > conf[c].beat /\ l # None /\ l > 0
      BY <2>5, StampOutlasts, Zenon
    <3> QED
      BY <3>1, <3>2, Zenon
  <2>s. \A t : Spent(t) => Spent(t)'
    BY <2>5, SpentStays, SMTT(30)
  <2>o. \A d \in Calls \ {c} : Owner(d) /\ Owns(row, tok[c]) => FALSE
    BY <2>5, SMTT(30)
  <2>1. TokenInv'
    BY <2>5, <2>6, <2>s, SMTT(30)
  <2>2. OwnerInv'
    BY <2>5, <2>6, <1>b, <2>o, SMTT(30)
  <2>3. BeatInv'
    BY <2>5, <2>6, SMTT(30)
  <2>4. AdoptInv'
    BY <2>5, <2>6, SMTT(30)
  <2> QED
    BY <2>1, <2>2, <2>3, <2>4
<1>17. ASSUME NEW c \in Calls, LateBeat(c) \/ BeatUnavailable(c)
      PROVE  FALSE
  BY <1>17, <1>p DEF LateBeat, BeatUnavailable
<1>18. ASSUME NEW c \in Calls, Crash(c)
      PROVE  TokenInv' /\ OwnerInv' /\ BeatInv' /\ AdoptInv'
  <2>s. \A t : Spent(t) => Spent(t)'
    BY <1>18, SpentStays, SMTT(30) DEF Crash
  <2>1. TokenInv'
    BY <1>18, <2>s, SMTT(30) DEF Crash, NoClaim
  <2>2. OwnerInv'
    BY <1>18, SMTT(30) DEF Crash, NoClaim
  <2>3. BeatInv'
    BY <1>18, SMTT(30) DEF Crash, NoClaim
  <2>4. AdoptInv'
    BY <1>18, SMTT(30) DEF Crash, NoClaim
  <2> QED
    BY <2>1, <2>2, <2>3, <2>4
<1>19. ASSUME Tick
      PROVE  TokenInv' /\ OwnerInv' /\ BeatInv' /\ AdoptInv'
  <2>5. /\ UNCHANGED <<pc, tok, hb, conf>>
        /\ row'.state = row.state /\ row'.token = row.token
        /\ row'.left = Aged(row.left)
        /\ \A d \in Calls : due'[d] = Aged(due[d])
    BY <1>19, SMTT(30) DEF Tick, TypeOK, RowsOf
  <2>6. \A d \in Calls : /\ seen'[d].token = seen[d].token
                         /\ seen'[d].left = Aged(seen[d].left)
    BY <1>19, SMTT(30) DEF Tick, Seens
  <2>7. \A d \in Calls : pc[d] = "check" => seen[d].left # 1
    BY <1>19, <1>p, SMTT(30) DEF Tick, Timely
  <2>8. \A d \in Calls : seen[d].left \in Nat \cup {None}
    BY <1>s
  <2>s. \A t : Spent(t) => Spent(t)'
    BY <2>5, SpentStays, SMTT(30)
  <2>1. TokenInv'
    BY <2>5, <2>6, <2>s, SMTT(30)
  <2>2. OwnerInv'
    BY <1>19, <1>p, <1>b, <2>5, SMTT(30) DEF Tick, Timely, Aged
  <2>3. BeatInv'
    BY <2>5, SMTT(30)
  <2>4. AdoptInv'
    <3>1. ~Live(row.left) => ~Live(row'.left)
      BY <2>5, SMTT(30) DEF Aged
    <3>2. ASSUME NEW d \in Calls, pc[d] = "check", Live(seen[d].left)
          PROVE  Live(seen'[d].left)
      <4>1. seen[d].left # 1
        BY <2>7, <3>2, Zenon
      <4>2. Live(Aged(seen[d].left))
        BY <2>8, <3>2, <4>1, LiveAges
      <4> QED
        BY <2>6, <4>2, Zenon
    <3>3. ASSUME NEW e \in Calls, NEW d \in Calls, Leased(d)',
                 pc'[e] \in Reconciling, seen'[e].token = tok'[d]
          PROVE  \/ pc'[e] = "check" /\ Live(seen'[e].left)
                 \/ LateCommit(d)' /\ pc'[e] # "release"
      <4>1. \/ pc[e] = "check" /\ Live(seen[e].left)
            \/ LateCommit(d) /\ pc[e] # "release"
        BY <2>5, <2>6, <3>3
      <4> QED
        BY <4>1, <2>5, <3>2
    <3>4. ASSUME NEW e \in Calls, pc'[e] \in Reconciling, Owns(row, seen[e].token)'
          PROVE  (pc'[e] = "check" /\ Live(seen'[e].left)) \/ ~Live(row'.left)
      <4>1. (pc[e] = "check" /\ Live(seen[e].left)) \/ ~Live(row.left)
        BY <2>5, <2>6, <3>4
      <4> QED
        BY <4>1, <2>5, <3>1, <3>2
    <3> QED
      BY <3>3, <3>4
  <2> QED
    BY <2>1, <2>2, <2>3, <2>4
<1>20. CASE UNCHANGED vars
  <2>s. \A t : Spent(t) => Spent(t)'
    BY <1>20 DEF vars, Spent
  <2> QED
    BY <1>20, <2>s, SMTT(30) DEF vars
<1> QED
  BY <1>1, <1>2, <1>3, <1>4, <1>5, <1>6, <1>7, <1>8, <1>9, <1>10, <1>11,
     <1>12, <1>13, <1>14, <1>15, <1>16, <1>17, <1>18, <1>19, <1>20
  DEF Next, Step, Terminating

\* Only a call that may start becomes one that is under way.
LEMMA SoloStep ==
    ASSUME TimelyLeases, LeaseInv, [Next]_vars
    PROVE  SoloInv'
<1>0. pc \in [Calls -> {"idle"} \cup Owning \cup Resolving \cup Ended]
  BY DEF LeaseInv, TypeOK
<1>1. conf' = conf
  BY ConfKept
<1>2. CASE \A d \in Calls : UnderWay(d)' => UnderWay(d)
  BY <1>1, <1>2 DEF LeaseInv, SoloInv
<1>3. ASSUME NEW c \in Calls, Claim(c) \/ ClaimUnavailable(c)
      PROVE  SoloInv'
  <2>1. MayStart(c) /\ \A d \in Calls \ {c} : pc'[d] = pc[d]
    BY <1>3, <1>0, SMTT(30) DEF Claim, ClaimUnavailable
  <2>2. \A d \in Calls \ {c} :
          UnderWay(d) => conf[c].ttl # None /\ conf[d].ttl # None
    BY <2>1 DEF MayStart, UnderWay, TimelyLeases, LeaseInv, TypeOK
  <2> QED
    BY <1>1, <2>1, <2>2 DEF LeaseInv, SoloInv, UnderWay
<1>4. ASSUME NEW c \in Calls,
             \/ Step(c) \/ StoreUnavailable(c) \/ Beat(c) \/ BeatUnavailable(c)
             \/ LateBeat(c) \/ Crash(c)
      PROVE  SoloInv'
  <2>1. pc' = pc \/ (UnderWay(c) /\ \A d \in Calls \ {c} : pc'[d] = pc[d])
    BY <1>0, <1>4, SMTT(60)
    DEF Step, CheckLease, Probe, Backfill, Release, Poll, WaitTimeout, Reclaim,
        Enter, Fire, Return, Raise, Commit, StoreUnavailable, Beat,
        BeatUnavailable, LateBeat, Crash, UnderWay, Owning, Resolving, Ended
  <2> QED
    BY <2>1, <1>2 DEF UnderWay
<1> QED
  BY <1>2, <1>3, <1>4 DEF Next, Tick, Terminating, vars, UnderWay

\* A call gets to its commit only through its effect.
LEMMA FiredStep ==
    ASSUME LeaseInv, [Next]_vars
    PROVE  FiredInv'
<1>0. /\ pc \in [Calls -> {"idle"} \cup Owning \cup Resolving \cup Ended]
      /\ FiredInv
  BY DEF LeaseInv, TypeOK
<1>1. ASSUME NEW c \in Calls, Fire(c) \/ Return(c)
      PROVE  FiredInv'
  BY <1>0, <1>1, SMTT(30) DEF Fire, Return, AfterStop, FiredInv
<1>2. ASSUME NEW c \in Calls, Claim(c) \/ ClaimUnavailable(c)
      PROVE  FiredInv'
  BY <1>0, <1>2, SMTT(30) DEF Claim, ClaimUnavailable, FiredInv
<1>3. ASSUME NEW c \in Calls,
             \/ CheckLease(c) \/ Probe(c) \/ Backfill(c) \/ Release(c)
             \/ Poll(c) \/ WaitTimeout(c) \/ Reclaim(c)
      PROVE  FiredInv'
  BY <1>0, <1>3, SMTT(30)
  DEF CheckLease, Probe, Backfill, Release, Poll, WaitTimeout, Reclaim, FiredInv
<1>4. ASSUME NEW c \in Calls,
             \/ Enter(c) \/ Raise(c) \/ Commit(c) \/ StoreUnavailable(c)
             \/ Beat(c) \/ BeatUnavailable(c) \/ LateBeat(c) \/ Crash(c)
      PROVE  FiredInv'
  BY <1>0, <1>4, SMTT(30)
  DEF Enter, Raise, AfterStop, Commit, StoreUnavailable, Beat, BeatUnavailable,
      LateBeat, Crash, FiredInv
<1>5. CASE Tick \/ UNCHANGED vars
  BY <1>0, <1>5 DEF Tick, vars, FiredInv
<1> QED
  BY <1>1, <1>2, <1>3, <1>4, <1>5 DEF Next, Step, Terminating

\* The invariant is inductive.
THEOREM LeaseInvariant == ASSUME TimelyLeases PROVE Spec => []LeaseInv
<1>1. LeaseInv /\ [Next]_vars => LeaseInv'
  BY LeaseNext, NextType, CommittedUnleasedStep, SoloStep, FiredStep DEF LeaseInv
<1> QED
  BY <1>1, LeaseInit, PTL DEF Spec

\* With timely leases, as long as no renewal fails, a live owner is never adopted,
\* so never two calls are on their way from a claim of their own to its commit,
\* whatever the policies, whichever workers crash and whichever store calls other
\* than renewals fail.
THEOREM LiveOwnerSafe == ASSUME TimelyLeases PROVE Spec => []LiveOwnerNotAdopted
<1>1. LeaseInv => LiveOwnerNotAdopted
  BY DEF LeaseInv, OwnerInv, Owner, LiveOwnerNotAdopted
<1> QED
  BY <1>1, LeaseInvariant, PTL

\* A record is deleted by a release that observed its claim.
LEMMA ReleaseOnlyDeletes ==
    ASSUME TimelyLeases, LeaseInv, [Next]_vars, row.state # "fresh",
           row'.state = "fresh"
    PROVE  \E c \in Calls : pc[c] = "release" /\ Owns(row, seen[c].token)
<1>1. \/ row' = row \/ RowClaimed \/ RowCommitted
      \/ RowReleased \/ RowRenewed \/ RowAged
  BY RowSteps DEF LeaseInv
<1>2. ~(row' = row \/ RowClaimed \/ RowCommitted \/ RowRenewed \/ RowAged)
  BY SMTT(30)
  DEF RowClaimed, ClaimsAs, ClaimRow, RowCommitted, CommitRow, RowRenewed,
      Renewals, BeatRow, RowAged, LeaseInv, TypeOK, RowsOf
<1>3. PICK c \in Calls : pc[c] = "release" /\ row' = ReleaseRow(row, seen[c].token)
  BY <1>1, <1>2 DEF RowReleased
<1>4. seen[c].token # None
  BY <1>3 DEF LeaseInv, TokenInv, Reconciling
<1>5. Owns(row, seen[c].token)
  BY <1>3, <1>4 DEF ReleaseRow, Owns
<1> QED
  BY <1>3, <1>5

\* With timely leases no record is deleted while its lease is in force.
THEOREM LiveLeaseSafe == ASSUME TimelyLeases PROVE Spec => LiveLeaseNotAdopted
<1>1. LeaseInv /\ [Next]_vars =>
        [row.state = "in_flight" /\ row'.state = "fresh" => ~Live(row.left)]_vars
  <2> SUFFICES ASSUME LeaseInv, [Next]_vars,
                      row.state = "in_flight", row'.state = "fresh"
               PROVE  ~Live(row.left)
    OBVIOUS
  <2>1. PICK c \in Calls : pc[c] = "release" /\ Owns(row, seen[c].token)
    BY ReleaseOnlyDeletes
  <2> QED
    BY <2>1 DEF LeaseInv, AdoptInv, Reconciling
<1> QED
  BY <1>1, LeaseInvariant, PTL DEF Spec, LiveLeaseNotAdopted

-----------------------------------------------------------------------------
(***************************************************************************)
(* The promise of the policies that look before they adopt.                *)
(***************************************************************************)
\* Nobody runs without a claim, and nobody adopts without asking the prober.
CarefulLeases ==
    /\ TimelyLeases
    /\ \A k \in Configs : k.policy # "auto_retry" /\ k.open = FALSE

\* Who may still cause the effect finds that it has not taken place; once it
\* has, the record stays: no release that is under way will match it.
OneEffect ==
    /\ \A c \in Calls : pc[c] \in Owning => tok[c] # None
    /\ \A c \in Calls : pc[c] \in {"fresh", "running"} => fired = {}
    /\ \A c, d \in fired : c = d
    /\ fired # {} => row.state # "fresh"
    /\ \A c \in Calls : pc[c] = "release" /\ Owns(row, seen[c].token) => fired = {}

\* Only an effect that took place is back-filled, stored and returned.
StoredEffect ==
    /\ \A c \in Calls : pc[c] = "backfill" => ret[c] \in fired
    /\ row.state = "committed" => row.result \in fired
    /\ row.state # "committed" => row.result = None
    /\ \A c \in Calls : pc[c] = "returned" =>
          row.state = "committed" /\ ret[c] = row.result

CarefulInv == LeaseInv /\ OneEffect /\ StoredEffect

\* The record is the claim of one owner only.
LEMMA OneOwner ==
    ASSUME LeaseInv, NEW c \in Calls, NEW d \in Calls, Owner(c), Owner(d)
    PROVE  c = d
<1>1. tok[c] = tok[d]
  BY DEF LeaseInv, OwnerInv
<1>2. tok[c] \in {<<c, 1>>, <<c, 2>>} /\ tok[d] \in {<<d, 1>>, <<d, 2>>}
  BY DEF LeaseInv, TokenInv, Owner
<1> QED
  BY <1>1, <1>2

\* While a call executes, no release that is under way matches its claim.
LEMMA RunningNotReleased ==
    ASSUME LeaseInv, NEW c \in Calls, Owner(c), pc[c] = "running",
           NEW d \in Calls, pc[d] = "release"
    PROVE  ~Owns(row, seen[d].token)
<1>1. conf[c].ttl # None
  BY DEF LeaseInv, SoloInv, UnderWay, Ended
<1>2. seen[d].token # tok[c]
  BY <1>1 DEF LeaseInv, AdoptInv, Leased, LateCommit, Reconciling
<1> QED
  BY <1>2 DEF LeaseInv, OwnerInv, Owns

\* The invariant holds at first.
LEMMA CarefulInit == ASSUME CarefulLeases PROVE Init => CarefulInv
<1> SUFFICES ASSUME Init PROVE CarefulInv
  OBVIOUS
<1>1. LeaseInv
  BY LeaseInit DEF CarefulLeases
<1>2. /\ row = NoRow /\ fired = {}
      /\ \A c \in Calls : pc[c] = "idle"
  BY Zenon DEF Init, CarefulLeases, TimelyLeases
<1> QED
  BY <1>1, <1>2, SMTT(30) DEF CarefulInv, OneEffect, StoredEffect, NoRow, Owning

\* Every step keeps it.
LEMMA CarefulNext ==
    ASSUME CarefulLeases, CarefulInv, [Next]_vars
    PROVE  OneEffect' /\ StoredEffect'
<1>0. /\ pc \in [Calls -> {"idle"} \cup Owning \cup Resolving \cup Ended]
      /\ tok \in [Calls -> Tokens \cup {None}]
      /\ seen \in [Calls -> Seens]
      /\ ret \in [Calls -> Calls \cup {None}]
      /\ fired \subseteq Calls
      /\ row.state \in {"fresh", "in_flight", "committed"}
  BY SMTT(30) DEF CarefulInv, LeaseInv, TypeOK, RowsOf, States, Seens
<1>n. \A c \in Calls : <<c, 1>> # None /\ <<c, 2>> # None
  BY NoneIsNoValue
<1>a. \A c \in Calls : conf[c].policy # "auto_retry" /\ conf[c].open = FALSE
  BY DEF CarefulInv, LeaseInv, CarefulLeases, TypeOK
<1>r. \A c \in Calls : pc[c] = "release" => seen[c].token # None
  BY DEF CarefulInv, LeaseInv, TokenInv, Reconciling
<1>f. \A c \in Calls : pc[c] = "commit" => c \in fired
  BY DEF CarefulInv, LeaseInv, FiredInv
<1> USE <1>0, <1>n
    DEF OneEffect, StoredEffect, CarefulInv, Owning, Resolving, Ended, Owns
<1>1. ASSUME NEW c \in Calls, Claim(c) PROVE OneEffect' /\ StoredEffect'
  <2>1. CASE row.state = "fresh"
    <3>1. /\ row'.state = "in_flight" /\ row'.token = <<c, 1>>
          /\ row'.result = None
          /\ pc' = [pc EXCEPT ![c] = "fresh"] /\ tok' = [tok EXCEPT ![c] = <<c, 1>>]
          /\ UNCHANGED <<ret, fired, seen>>
      BY <1>1, <2>1, ClaimedRow DEF Claim
    <3>2. fired = {}
      BY <2>1
    <3>3. OneEffect'
      BY <3>1, <3>2, SMTT(30)
    <3>4. StoredEffect'
      BY <2>1, <3>1, <3>2, SMTT(30)
    <3> QED
      BY <3>3, <3>4
  <2>2. CASE row.state # "fresh"
    <3>1. row' = row /\ pc[c] = "idle"
      BY <1>1, <2>2, ClaimedRow DEF Claim, MayStart
    <3>2. /\ \/ /\ \E p \in {"reuse", "denied", "wait", "check"} :
                     pc' = [pc EXCEPT ![c] = p]
                /\ ret' = ret
             \/ /\ row.state = "committed"
                /\ pc' = [pc EXCEPT ![c] = "returned"]
                /\ ret' = [ret EXCEPT ![c] = row.result]
          /\ \A d \in Calls \ {c} : seen'[d] = seen[d]
          /\ UNCHANGED <<tok, fired>>
      BY <1>1, <2>2, SMTT(30) DEF Claim
    <3>3. OneEffect'
      BY <3>1, <3>2, SMTT(30)
    <3>4. StoredEffect'
      BY <3>1, <3>2, SMTT(30)
    <3> QED
      BY <3>3, <3>4
  <2> QED
    BY <2>1, <2>2
<1>2. ASSUME NEW c \in Calls, ClaimUnavailable(c) PROVE OneEffect' /\ StoredEffect'
  <2>1. /\ pc[c] = "idle" /\ pc' = [pc EXCEPT ![c] = "down"]
        /\ UNCHANGED <<tok, seen, ret, fired>>
    BY <1>2, <1>a DEF ClaimUnavailable, MayStart
  <2>2. \/ row' = row
        \/ /\ row.state = "fresh" /\ row'.state = "in_flight"
           /\ row'.result = None
    BY <1>2, ClaimedRow DEF ClaimUnavailable
  <2>3. OneEffect'
    BY <2>1, <2>2, SMTT(30)
  <2>4. StoredEffect'
    BY <2>1, <2>2, SMTT(30)
  <2> QED
    BY <2>3, <2>4
<1>3. ASSUME NEW c \in Calls, CheckLease(c) PROVE OneEffect' /\ StoredEffect'
  <2>1. /\ UNCHANGED <<row, tok, ret, fired>> /\ pc[c] = "check"
        /\ \E p \in {"denied", "probe"} : pc' = [pc EXCEPT ![c] = p]
        /\ \A d \in Calls \ {c} : seen'[d] = seen[d]
    BY <1>3, <1>a, SMTT(30) DEF CheckLease
  <2>2. OneEffect'
    BY <2>1, SMTT(30)
  <2>3. StoredEffect'
    BY <2>1, SMTT(30)
  <2> QED
    BY <2>2, <2>3
<1>4. ASSUME NEW c \in Calls, Probe(c) PROVE OneEffect' /\ StoredEffect'
  <2>1. OneEffect'
    BY <1>4, SMTT(30) DEF Probe
  <2>2. StoredEffect'
    BY <1>4, SMTT(30) DEF Probe
  <2> QED
    BY <2>1, <2>2
<1>5. ASSUME NEW c \in Calls, Backfill(c) PROVE OneEffect' /\ StoredEffect'
  <2>1. OneEffect'
    BY <1>5, SMTT(30) DEF Backfill, CommitRow
  <2>2. StoredEffect'
    BY <1>5, SMTT(30) DEF Backfill, CommitRow
  <2> QED
    BY <2>1, <2>2
<1>6. ASSUME NEW c \in Calls, Release(c) PROVE OneEffect' /\ StoredEffect'
  <2>1. \/ row' = row
        \/ row' = NoRow /\ Owns(row, seen[c].token)
    BY <1>6, <1>r DEF Release, ReleaseRow
  <2>2. /\ UNCHANGED <<tok, ret, fired>> /\ pc' = [pc EXCEPT ![c] = "reclaim"]
        /\ pc[c] = "release" /\ \A d \in Calls \ {c} : seen'[d] = seen[d]
    BY <1>6 DEF Release
  <2>3. OneEffect'
    BY <2>1, <2>2, SMTT(30) DEF NoRow
  <2>4. StoredEffect'
    BY <2>1, <2>2, SMTT(30) DEF NoRow
  <2> QED
    BY <2>3, <2>4
<1>7. ASSUME NEW c \in Calls, Poll(c) PROVE OneEffect' /\ StoredEffect'
  BY <1>7, SMTT(30) DEF Poll
<1>8. ASSUME NEW c \in Calls, WaitTimeout(c) PROVE OneEffect' /\ StoredEffect'
  BY <1>8, SMTT(30) DEF WaitTimeout
<1>9. ASSUME NEW c \in Calls, Reclaim(c) PROVE OneEffect' /\ StoredEffect'
  <2>1. CASE row.state = "fresh"
    <3>1. /\ row'.state = "in_flight" /\ row'.token = <<c, 2>>
          /\ row'.result = None
          /\ pc' = [pc EXCEPT ![c] = "fresh"] /\ tok' = [tok EXCEPT ![c] = <<c, 2>>]
          /\ UNCHANGED <<ret, fired, seen>>
      BY <1>9, <2>1, ClaimedRow DEF Reclaim
    <3>2. fired = {}
      BY <2>1
    <3>3. OneEffect'
      BY <3>1, <3>2, SMTT(30)
    <3>4. StoredEffect'
      BY <2>1, <3>1, <3>2, SMTT(30)
    <3> QED
      BY <3>3, <3>4
  <2>2. CASE row.state # "fresh"
    <3>1. row' = row /\ pc[c] = "reclaim"
      BY <1>9, <2>2, ClaimedRow DEF Reclaim
    <3>2. OneEffect'
      BY <1>9, <2>2, <3>1, SMTT(30) DEF Reclaim
    <3>3. StoredEffect'
      BY <1>9, <2>2, <3>1, SMTT(30) DEF Reclaim
    <3> QED
      BY <3>2, <3>3
  <2> QED
    BY <2>1, <2>2
<1>10. ASSUME NEW c \in Calls, Enter(c) PROVE OneEffect' /\ StoredEffect'
  BY <1>10, SMTT(30) DEF Enter
<1>11. ASSUME NEW c \in Calls, Fire(c) PROVE OneEffect' /\ StoredEffect'
  <2>1. /\ pc[c] = "running" /\ pc' = [pc EXCEPT ![c] = "fired"]
        /\ fired = {} /\ fired' = {c} /\ Owner(c)
        /\ UNCHANGED <<row, tok, seen, ret>>
    BY <1>11, Zenon DEF Fire, Owner
  <2>2. \A d \in Calls \ {c} : pc[d] \notin Owning
    BY <2>1, OneOwner DEF Owner
  <2>3. \A d \in Calls : pc[d] = "release" => ~Owns(row, seen[d].token)
    BY <2>1, RunningNotReleased
  <2>4. row.state # "fresh"
    BY <2>1 DEF LeaseInv, OwnerInv
  <2>5. OneEffect'
    BY <2>1, <2>2, <2>3, <2>4, SMTT(30)
  <2>6. StoredEffect'
    BY <2>1, SMTT(30)
  <2> QED
    BY <2>5, <2>6
<1>12. ASSUME NEW c \in Calls, Return(c) PROVE OneEffect' /\ StoredEffect'
  BY <1>12, SMTT(30) DEF Return, AfterStop
<1>13. ASSUME NEW c \in Calls, Raise(c) PROVE OneEffect' /\ StoredEffect'
  BY <1>13, SMTT(30) DEF Raise, AfterStop
<1>14. ASSUME NEW c \in Calls, Commit(c) PROVE OneEffect' /\ StoredEffect'
  <2>1. OneEffect'
    BY <1>14, SMTT(30) DEF Commit, CommitRow
  <2>2. StoredEffect'
    BY <1>14, <1>f, SMTT(30) DEF Commit, CommitRow
  <2> QED
    BY <2>1, <2>2
<1>15. ASSUME NEW c \in Calls, StoreUnavailable(c) PROVE OneEffect' /\ StoredEffect'
  <2>1. /\ pc' = [pc EXCEPT ![c] = "down"]
        /\ \A d \in Calls \ {c} : seen'[d] = seen[d]
        /\ UNCHANGED <<tok, ret, fired>> /\ row' \in {row} \cup NextWrites(c)
    BY <1>15 DEF StoreUnavailable
  <2>2. \/ row' = row
        \/ \E r \in fired : row' = CommitRow(row, r)
        \/ row' = NoRow /\ fired = {}
        \/ row' \in ClaimsAs(c, <<c, 2>>)
    <3>1. pc[c] = "release" =>
            \/ ReleaseRow(row, seen[c].token) = row
            \/ ReleaseRow(row, seen[c].token) = NoRow /\ fired = {}
      BY <1>r DEF ReleaseRow
    <3> QED
      BY <2>1, <3>1, <1>f, SMTT(30) DEF NextWrites
  <2>3. \/ row'.state = row.state /\ row'.token = row.token /\ row'.result = row.result
        \/ /\ row.state # "committed" /\ row'.state = "committed"
           /\ row'.result \in fired
        \/ row.state # "committed" /\ row'.state = "fresh" /\ row'.result = None
             /\ fired = {}
        \/ /\ row.state = "fresh" /\ row'.state = "in_flight"
           /\ row'.result = None
    BY <2>2, ClaimedRow, SMTT(30) DEF CommitRow, NoRow
  <2>4. OneEffect'
    BY <2>1, <2>3, SMTT(30)
  <2>5. StoredEffect'
    BY <2>1, <2>3, SMTT(30)
  <2> QED
    BY <2>4, <2>5
<1>16. ASSUME NEW c \in Calls, Beat(c) \/ BeatUnavailable(c) \/ LateBeat(c)
       PROVE  OneEffect' /\ StoredEffect'
  <2>1. /\ row'.state = row.state /\ row'.token = row.token
        /\ row'.result = row.result
    BY <1>16, RenewedRow DEF Beat, BeatUnavailable, LateBeat, LeaseInv
  <2>2. UNCHANGED <<pc, tok, seen, ret, fired>>
    BY <1>16 DEF Beat, BeatUnavailable, LateBeat
  <2> QED
    BY <2>1, <2>2, SMTT(30)
<1>17. ASSUME NEW c \in Calls, Crash(c) PROVE OneEffect' /\ StoredEffect'
  BY <1>17, SMTT(30) DEF Crash
<1>18. ASSUME Tick PROVE OneEffect' /\ StoredEffect'
  <2>1. /\ row'.state = row.state /\ row'.token = row.token
        /\ row'.result = row.result
    BY <1>18, SMTT(30) DEF Tick, LeaseInv, TypeOK, RowsOf
  <2>2. \A d \in Calls : seen'[d].token = seen[d].token
    BY <1>18, SMTT(30) DEF Tick, Seens
  <2>3. UNCHANGED <<pc, tok, ret, fired>>
    BY <1>18 DEF Tick
  <2> QED
    BY <2>1, <2>2, <2>3, SMTT(30)
<1>19. CASE UNCHANGED vars
  BY <1>19, SMTT(30) DEF vars
<1> QED
  BY <1>1, <1>2, <1>3, <1>4, <1>5, <1>6, <1>7, <1>8, <1>9, <1>10, <1>11, <1>12,
     <1>13, <1>14, <1>15, <1>16, <1>17, <1>18, <1>19
  DEF Next, Step, Terminating

\* The invariant is inductive.
THEOREM CarefulInvariant == ASSUME CarefulLeases PROVE Spec => []CarefulInv
<1>1. CarefulInv /\ [Next]_vars => OneEffect' /\ StoredEffect'
  BY CarefulNext
<1>2. Spec => []LeaseInv
  BY LeaseInvariant DEF CarefulLeases
<1>3. Init => CarefulInv
  BY CarefulInit
<1>4. CarefulInv <=> LeaseInv /\ OneEffect /\ StoredEffect
  BY DEF CarefulInv
<1> QED
  BY <1>1, <1>2, <1>3, <1>4, PTL DEF Spec

\* With timely leases and a policy that asks the prober before it adopts, every
\* caller who is given a result is given the ledger's: an orphan whose effect
\* took place is back-filled, one whose effect did not is run once more.
THEOREM CarefulResult == ASSUME CarefulLeases PROVE Spec => []ResultIsTheLedgers
<1>1. CarefulInv => ResultIsTheLedgers
  BY DEF CarefulInv, StoredEffect, ResultIsTheLedgers
<1> QED
  BY <1>1, CarefulInvariant, PTL

\* With timely leases and a policy that asks the prober before it adopts, the
\* effect takes place at most once, although several calls may each call the
\* effect function one after the other; and once it has, no call is about to.
THEOREM CarefulOnce ==
    ASSUME CarefulLeases
    PROVE  Spec => [](/\ \A c, d \in fired : c = d
                      /\ fired # {} => \A c \in Calls : pc[c] \notin {"fresh", "running"})
<1> DEFINE Once == /\ \A c, d \in fired : c = d
                   /\ fired # {} => \A c \in Calls : pc[c] \notin {"fresh", "running"}
<1>1. CarefulInv => Once
  BY DEF CarefulInv, OneEffect
<1> QED
  BY <1>1, CarefulInvariant, PTL

\* Every step is a step of the promise, or changes nothing that it speaks of.
LEMMA CarefulPromise ==
    ASSUME CarefulLeases, CarefulInv, [Next]_vars
    PROVE  [Promise!Next]_(Promise!vars)
<1>0. /\ TypeOK
      /\ pc \in [Calls -> {"idle"} \cup Owning \cup Resolving \cup Ended]
      /\ ret \in [Calls -> Calls \cup {None}]
      /\ fired \subseteq Calls
      /\ None \notin Calls
  BY NoneIsNoValue, SMTT(30) DEF CarefulInv, LeaseInv, TypeOK
<1>s. /\ row.state = "committed" => row.result \in fired /\ row.result # None
      /\ row.state # "committed" => row.result = None
      /\ \A c, d \in fired : c = d
  BY <1>0 DEF CarefulInv, StoredEffect, OneEffect
<1>c. \A c \in Calls : conf[c].policy # "auto_retry" /\ conf[c].open = FALSE
  BY <1>0 DEF CarefulLeases, TypeOK
<1>1. ASSUME NEW c \in Calls, Claim(c) \/ Reclaim(c)
      PROVE  [Promise!Next]_(Promise!vars)
  <2>1. pc[c] \in {"idle", "reclaim"}
    BY <1>1 DEF Claim, MayStart, Reclaim
  <2>2. CASE row.state = "fresh"
    <3>1. /\ row'.result = row.result
          /\ pc' = [pc EXCEPT ![c] = "fresh"] /\ UNCHANGED <<ret, fired>>
      BY <1>1, <1>s, <2>2, ClaimedRow DEF Claim, Reclaim
    <3> QED
      BY <1>0, <2>1, <3>1, SilentMove
  <2>3. CASE row.state # "fresh"
    <3>1. row' = row /\ fired' = fired
      BY <1>1, <2>3, ClaimedRow DEF Claim, Reclaim
    <3>2. \/ \E p \in {"reuse", "denied", "wait", "check"} :
                pc' = [pc EXCEPT ![c] = p] /\ ret' = ret
          \/ /\ row.state = "committed"
             /\ pc' = [pc EXCEPT ![c] = "returned"]
             /\ ret' = [ret EXCEPT ![c] = row.result]
      <4>1. CASE Claim(c)
        BY <4>1, <2>3, Zenon DEF Claim
      <4>2. CASE Reclaim(c)
        BY <4>2, <2>3, Zenon DEF Reclaim
      <4> QED
        BY <1>1, <4>1, <4>2
    <3>3. CASE \E p \in {"reuse", "denied", "wait", "check"} :
                pc' = [pc EXCEPT ![c] = p] /\ ret' = ret
      BY <1>0, <3>3, <3>1, <2>1, SilentMove
    <3>4. CASE /\ row.state = "committed"
               /\ pc' = [pc EXCEPT ![c] = "returned"]
               /\ ret' = [ret EXCEPT ![c] = row.result]
      BY <1>0, <1>s, <3>4, <3>1, <2>1, ReplayMove
    <3> QED
      BY <3>2, <3>3, <3>4
  <2> QED
    BY <2>2, <2>3
<1>2. ASSUME NEW c \in Calls, ClaimUnavailable(c)
      PROVE  UNCHANGED Promise!vars
  <2>1. /\ pc[c] = "idle" /\ pc' = [pc EXCEPT ![c] = "down"]
        /\ UNCHANGED <<ret, fired>>
    BY <1>2, <1>c DEF ClaimUnavailable, MayStart
  <2>2. row'.result = row.result
    BY <1>2, <1>s, ClaimedRow DEF ClaimUnavailable
  <2> QED
    BY <1>0, <2>1, <2>2, SilentMove
<1>3. ASSUME NEW c \in Calls,
             \/ CheckLease(c) \/ Probe(c) \/ WaitTimeout(c)
             \/ Enter(c) \/ Return(c) \/ Raise(c) \/ Crash(c)
      PROVE  UNCHANGED Promise!vars
  <2>1. /\ UNCHANGED <<row, fired>> /\ \A d \in Calls \ {c} : ret'[d] = ret[d]
        /\ pc[c] # "returned"
        /\ \E p \in {"denied", "probe", "release", "backfill", "running", "commit",
                     "raised", "down", "crashed"} : pc' = [pc EXCEPT ![c] = p]
    BY <1>3, <1>0, SMTT(30)
    DEF CheckLease, Probe, WaitTimeout, Enter, Return, Raise, Crash, AfterStop,
        Owning, Resolving, CarefulInv, OneEffect
  <2> QED
    BY <1>0, <2>1, SilentMove
<1>4. ASSUME NEW c \in Calls, Poll(c) PROVE [Promise!Next]_(Promise!vars)
  <2>1. CASE row.state = "fresh"
    BY <1>0, <1>4, <2>1, SilentMove DEF Poll
  <2>2. CASE row.state = "committed"
    BY <1>0, <1>s, <1>4, <2>2, ReplayMove DEF Poll
  <2> QED
    BY <1>4, <2>1, <2>2 DEF Poll
<1>5. ASSUME NEW c \in Calls, Release(c) PROVE UNCHANGED Promise!vars
  <2>1. row'.result = row.result
    BY <1>5, <1>s DEF Release, ReleaseRow, NoRow
  <2> QED
    BY <1>0, <1>5, <2>1, SilentMove DEF Release
<1>6. ASSUME NEW c \in Calls, Fire(c) PROVE Promise!Happen(c)
  <2>1. fired = {}
    BY <1>6 DEF Fire, CarefulInv, OneEffect
  <2>2. Answers' = Answers
    BY <1>0, <1>6, MoveKeepsAnswers DEF Fire
  <2> QED
    BY <1>6, <2>1, <2>2 DEF Fire, Promise!Happen
<1>7. ASSUME NEW c \in Calls
      PROVE  /\ pc[c] = "commit" => c \in fired
             /\ pc[c] = "backfill" => ret[c] \in fired
  BY DEF CarefulInv, LeaseInv, FiredInv, StoredEffect
<1>8. ASSUME NEW c \in Calls, Commit(c) \/ Backfill(c)
      PROVE  [Promise!Next]_(Promise!vars)
  <2>1. PICK r \in fired :
          /\ row' = CommitRow(row, r) /\ fired' = fired
          /\ pc' = [pc EXCEPT ![c] = "returned"] /\ pc[c] # "returned"
          /\ ret'[c] = r /\ \A d \in Calls \ {c} : ret'[d] = ret[d]
    BY <1>8, <1>7, <1>0 DEF Commit, Backfill
  <2> QED
    BY <1>0, <1>s, <2>1, CommitMove
<1>9. ASSUME NEW c \in Calls, StoreUnavailable(c)
      PROVE  [Promise!Next]_(Promise!vars)
  <2>1. /\ pc[c] # "returned" /\ pc' = [pc EXCEPT ![c] = "down"]
        /\ UNCHANGED <<ret, fired>> /\ row' \in {row} \cup NextWrites(c)
    BY <1>9 DEF StoreUnavailable
  <2>2. \/ \E r \in fired : row' = CommitRow(row, r)
        \/ row' = row
        \/ row' = ReleaseRow(row, seen[c].token)
        \/ row' \in ClaimsAs(c, <<c, 2>>)
    BY <2>1, <1>7, SMTT(30) DEF NextWrites
  <2>3. CASE \E r \in fired : row' = CommitRow(row, r)
    BY <1>0, <1>s, <2>1, <2>3, CommitMove
  <2>4. CASE \/ row' = row
             \/ row' = ReleaseRow(row, seen[c].token)
             \/ row' \in ClaimsAs(c, <<c, 2>>)
    <3>1. row'.result = row.result
      BY <1>s, <2>4, ClaimedRow DEF ReleaseRow, NoRow
    <3> QED
      BY <1>0, <2>1, <3>1, SilentMove
  <2> QED
    BY <2>2, <2>3, <2>4
<1>10. ASSUME NEW c \in Calls, Beat(c) \/ BeatUnavailable(c) \/ LateBeat(c)
       PROVE  UNCHANGED Promise!vars
  <2>1. row'.result = row.result
    BY <1>0, <1>10, RenewedRow DEF Beat, BeatUnavailable, LateBeat
  <2> QED
    BY <1>10, <2>1, SilentRow DEF Beat, BeatUnavailable, LateBeat
<1>11. ASSUME Tick PROVE UNCHANGED Promise!vars
  <2>1. row'.result = row.result
    BY <1>11, <1>0, SMTT(30) DEF Tick, TypeOK, RowsOf
  <2> QED
    BY <1>11, <2>1, SilentRow DEF Tick
<1>12. CASE UNCHANGED vars
  BY <1>12, SilentRow DEF vars
<1> QED
  BY <1>1, <1>2, <1>3, <1>4, <1>5, <1>6, <1>8, <1>9, <1>10, <1>11, <1>12
  DEF Next, Step, Terminating, Promise!Next

\* With timely leases and a policy that asks the prober before it adopts, the
\* guard implements the promise: the effect takes place at most once although
\* orphans are adopted and run again, its result is stored once, and every
\* caller is given it.
THEOREM CarefulImplements ==
    ASSUME CarefulLeases PROVE Spec => ImplementsEffectOnce
<1>1. Init => Promise!Init
  BY SMTT(30) DEF Init, Promise!Init, Answers, NoRow, LegacyRow
<1>2. CarefulInv /\ [Next]_vars => [Promise!Next]_(Promise!vars)
  BY CarefulPromise
<1> QED
  BY <1>1, <1>2, CarefulInvariant, PTL DEF Spec, ImplementsEffectOnce, Promise!Spec
=============================================================================
