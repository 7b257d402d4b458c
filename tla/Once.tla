-------------------------------- MODULE Once --------------------------------
(***************************************************************************)
(* The once(...) guard (src/src/exactly_once/core.py) and its policies     *)
(* (policies.py) for one idempotency key: concurrent and successive        *)
(* guarded calls over one shared ledger row.  A call is one invocation of  *)
(* a decorated function, or one `with'/`async with' block; a retry by the  *)
(* caller is another call.  Between two store calls of one call the other  *)
(* calls, the heartbeats and the clock run; any call may crash.            *)
(*                                                                         *)
(* The result of an execution is identified with the call that executed.   *)
(***************************************************************************)
EXTENDS Ledger, FiniteSets

CONSTANTS
    Calls,      \* the guarded calls made for the key
    Payloads,   \* fingerprints
    Configs,    \* the once(...) arguments a call may be made with, see Config
    Delay,      \* bound: how long a claim or renewal waits in the store
    MaxFaults,  \* bound: how many store calls raise StoreUnavailableError
    MayCrash,   \* whether the worker of a call may die
    Solo,       \* whether only calls with a lease may be under way together
    Upgraded,   \* whether the row may stem from a pre-token database
    Prompt      \* which steps are never late, see Timely; "renew": no renewal fails

Policies == {"quarantine", "wait", "auto_retry", "check_then_decide"}

\* `fail' is `quarantine' that never returns a sentinel.  ttl and beat are
\* lease_ttl and heartbeat_interval; open is on_store_down == "open"; aio
\* says that the effect is a coroutine function.
Config == [policy: Policies, fp: Payloads \cup {None},
           ttl: (Nat \ {0}) \cup {None}, beat: Nat \ {0},
           open: BOOLEAN, aio: BOOLEAN]

ASSUME NoneIsNoValue == None \notin Calls \cup Payloads \cup (Calls \X {1, 2})
ASSUME ConfigsAssumption == Configs \subseteq Config
ASSUME MaxFaultsAssumption == MaxFaults \in Nat
ASSUME DelayAssumption == Delay \in Nat
ASSUME FlagsAssumption == {MayCrash, Solo, Upgraded} \subseteq BOOLEAN
ASSUME PromptAssumption == Prompt \subseteq {"start", "beat", "renew", "commit", "check"}

VARIABLES
    row,        \* the ledger record of the key
    conf,       \* conf[c]: the arguments of call c
    pc,         \* pc[c]: where c is, between two of its store calls
    tok,        \* tok[c]: the token of c's own fresh claim
    seen,       \* seen[c]: token and lease in the claim that c reconciles
    hb,         \* hb[c]: c's heartbeat thread or task
    due,        \* due[c]: time until its next beat
    ret,        \* ret[c]: the result c replays or returns
    entered,    \* the calls that called the effect function
    fired,      \* the calls whose effect took place in the world
    faults      \* how often the store was unavailable

vars == <<row, conf, pc, tok, seen, hb, due, ret, entered, fired, faults>>

Owning    == {"fresh", "running", "fired", "commit"}
Resolving == {"check", "probe", "backfill", "release", "reclaim", "wait"}
Ended     == {"returned", "denied", "reuse", "down", "raised", "crashed"}

\* uuid4 never repeats: c's first claim and its re-claim have their own tokens.
Tokens   == Calls \X {1, 2}
NoClaim  == [token |-> None, left |-> None]

\* The type invariant: every variable keeps the type its declaration names.
TypeOK ==
    /\ row \in RowsOf(Calls, Payloads, Tokens)
    /\ conf \in [Calls -> Configs]
    /\ pc \in [Calls -> {"idle"} \cup Owning \cup Resolving \cup Ended]
    /\ tok \in [Calls -> Tokens \cup {None}]
    /\ seen \in [Calls -> [token: Tokens \cup {None}, left: Nat \cup {None}]]
    /\ hb \in [Calls -> {"off", "on", "dead", "failed", "late"}]
    /\ due \in [Calls -> Nat]
    /\ ret \in [Calls -> Calls \cup {None}]
    /\ entered \subseteq Calls
    /\ fired \subseteq Calls
    /\ faults \in 0 .. MaxFaults

Init ==
    /\ row \in IF Upgraded THEN {NoRow, LegacyRow} ELSE {NoRow}
    /\ conf \in [Calls -> Configs]
    /\ pc = [c \in Calls |-> "idle"]
    /\ tok = [c \in Calls |-> None]
    /\ seen = [c \in Calls |-> NoClaim]
    /\ hb = [c \in Calls |-> "off"]
    /\ due = [c \in Calls |-> 0]
    /\ ret = [c \in Calls |-> None]
    /\ entered = {}
    /\ fired = {}
    /\ faults = 0

-----------------------------------------------------------------------------
(***************************************************************************)
(* Wrong variants, which only the mutation runs put in place of the right  *)
(* definitions below: plausible mistakes that the properties must notice.  *)
(***************************************************************************)
ClashIgnored(c) == FALSE

LeaseIgnored(c) == FALSE

UnknownRuns(c) ==
    /\ pc[c] = "probe"
    /\ pc' = [pc EXCEPT ![c] = "release"]
    /\ UNCHANGED <<row, conf, tok, seen, hb, due, ret, entered, fired, faults>>

WaitForever(c) ==
    /\ pc[c] = "wait" /\ row.state # "in_flight"
    /\ pc' = [pc EXCEPT ![c] = "denied"]
    /\ UNCHANGED <<row, conf, tok, seen, hb, due, ret, entered, fired, faults>>

HeartbeatLeftOn(c) == UNCHANGED <<hb, due>>

CommitFenced(c) ==
    /\ pc[c] = "commit"
    /\ row' = IF Owns(row, tok[c]) THEN CommitRow(row, c) ELSE row
    /\ pc' = [pc EXCEPT ![c] = "returned"]
    /\ ret' = [ret EXCEPT ![c] = c]
    /\ UNCHANGED <<conf, tok, seen, hb, due, entered, fired, faults>>

RaiseReleases(c) ==
    /\ pc[c] \in {"running", "fired"}
    /\ row' = ReleaseRow(row, tok[c])
    /\ pc' = [pc EXCEPT ![c] = "raised"]
    /\ hb' = [hb EXCEPT ![c] = "off"]
    /\ due' = [due EXCEPT ![c] = 0]
    /\ UNCHANGED <<conf, tok, seen, ret, entered, fired, faults>>

-----------------------------------------------------------------------------
(***************************************************************************)
(* Claiming.                                                               *)
(***************************************************************************)
\* The policies that adopt are for one reconciler at a time unless there are
\* leases (AutoRetry and CheckThenDecide in policies.py): so do Solo callers.
MayStart(c) ==
    /\ pc[c] = "idle"
    /\ Solo => \A d \in Calls \ {c} :
                  \/ pc[d] \in Ended \cup {"idle"}
                  \/ conf[c].ttl # None /\ conf[d].ttl # None

\* once._check_fingerprint: both payloads are known and they differ.
Clash(c) == conf[c].fp # None /\ row.fp # None /\ row.fp # conf[c].fp

\* What is left of a lease when it is written: SQLiteStore stamps it before it
\* waits for its locks, Postgres at the start of the transaction.
Stamped(ttl) ==
    IF ttl = None THEN {None} ELSE {left \in 0 .. ttl : ttl <= left + Delay}

\* The rows that c's claim with token t, or its renewal, may leave.
ClaimsAs(c, t) == {ClaimRow(row, t, conf[c].fp, left) : left \in Stamped(conf[c].ttl)}
Renewals(c)    == {BeatRow(row, tok[c], left) : left \in Stamped(conf[c].ttl)}

\* The claim, the fingerprint check and the dispatch on the claim's state in
\* _run, _arun, __enter__ and __aenter__, up to the next store call.
Claim(c) ==
    /\ MayStart(c)
    /\ row' \in ClaimsAs(c, <<c, 1>>)
    /\ \/ /\ row.state = "fresh"
          /\ pc' = [pc EXCEPT ![c] = "fresh"]
          /\ tok' = [tok EXCEPT ![c] = <<c, 1>>]
          /\ UNCHANGED <<seen, ret>>
       \/ /\ row.state # "fresh" /\ Clash(c)
          /\ pc' = [pc EXCEPT ![c] = "reuse"]
          /\ UNCHANGED <<tok, seen, ret>>
       \/ /\ row.state = "committed" /\ ~Clash(c)
          /\ pc' = [pc EXCEPT ![c] = "returned"]
          /\ ret' = [ret EXCEPT ![c] = row.result]
          /\ UNCHANGED <<tok, seen>>
       \/ /\ row.state = "in_flight" /\ ~Clash(c)
          /\ \/ /\ conf[c].policy = "quarantine"
                /\ pc' = [pc EXCEPT ![c] = "denied"]
                /\ UNCHANGED seen
             \/ /\ conf[c].policy = "wait"
                /\ pc' = [pc EXCEPT ![c] = "wait"]
                /\ UNCHANGED seen
             \/ /\ conf[c].policy \in {"auto_retry", "check_then_decide"}
                /\ pc' = [pc EXCEPT ![c] = "check"]
                /\ seen' = [seen EXCEPT ![c] = [token |-> row.token,
                                                left  |-> row.left]]
          /\ UNCHANGED <<tok, ret>>
    /\ UNCHANGED <<conf, hb, due, entered, fired, faults>>

\* The claim raises StoreUnavailableError; the store may have applied it all
\* the same, the answer being what was lost.  Fail-closed the call raises,
\* fail-open it runs the effect without a claim.
ClaimUnavailable(c) ==
    /\ MayStart(c)
    /\ faults < MaxFaults
    /\ faults' = faults + 1
    /\ row' \in {row} \cup ClaimsAs(c, <<c, 1>>)
    /\ \/ /\ conf[c].open
          /\ pc' = [pc EXCEPT ![c] = "running"]
          /\ entered' = entered \cup {c}
       \/ /\ ~conf[c].open
          /\ pc' = [pc EXCEPT ![c] = "down"]
          /\ UNCHANGED entered
    /\ UNCHANGED <<conf, tok, seen, hb, due, ret, fired>>

-----------------------------------------------------------------------------
(***************************************************************************)
(* Reconciling a key that is in flight (policies.py).                      *)
(***************************************************************************)
\* _lease_valid: the lease in the claim that was read when the call began, at
\* the store's present time.  What became of the row since is not read.
OwnerLooksAlive(c) == Live(seen[c].left)

\* AutoRetry and CheckThenDecide leave a live owner its key.
CheckLease(c) ==
    /\ pc[c] = "check"
    /\ \/ /\ OwnerLooksAlive(c)
          /\ pc' = [pc EXCEPT ![c] = "denied"]
          /\ seen' = [seen EXCEPT ![c] = NoClaim]
       \/ /\ ~OwnerLooksAlive(c)
          /\ pc' = [pc EXCEPT ![c] = IF conf[c].policy = "auto_retry"
                                     THEN "release" ELSE "probe"]
          /\ seen' = [seen EXCEPT ![c].left = None]
    /\ UNCHANGED <<row, conf, tok, hb, due, ret, entered, fired, faults>>

\* CheckThenDecide asks the world.  The prober belongs to the user: it tells
\* the truth about the moment it looks, or that it cannot tell.
Probe(c) ==
    /\ pc[c] = "probe"
    /\ \/ \E r \in fired :
             /\ pc' = [pc EXCEPT ![c] = "backfill"]
             /\ ret' = [ret EXCEPT ![c] = r]
             /\ seen' = [seen EXCEPT ![c] = NoClaim]
       \/ /\ fired = {}
          /\ pc' = [pc EXCEPT ![c] = "release"]
          /\ UNCHANGED <<seen, ret>>
       \/ /\ pc' = [pc EXCEPT ![c] = "denied"]
          /\ seen' = [seen EXCEPT ![c] = NoClaim]
          /\ UNCHANGED ret
    /\ UNCHANGED <<row, conf, tok, hb, due, entered, fired, faults>>

\* Verdict COMMITTED: commit the observed result and replay it.
Backfill(c) ==
    /\ pc[c] = "backfill"
    /\ row' = CommitRow(row, ret[c])
    /\ pc' = [pc EXCEPT ![c] = "returned"]
    /\ UNCHANGED <<conf, tok, seen, hb, due, ret, entered, fired, faults>>

\* The orphan is retired by the token the call observed.
Release(c) ==
    /\ pc[c] = "release"
    /\ row' = ReleaseRow(row, seen[c].token)
    /\ pc' = [pc EXCEPT ![c] = "reclaim"]
    /\ seen' = [seen EXCEPT ![c] = NoClaim]
    /\ UNCHANGED <<conf, tok, hb, due, ret, entered, fired, faults>>

\* Wait polls the record; without an answer it polls on.
Poll(c) ==
    /\ pc[c] = "wait"
    /\ \/ /\ row.state = "fresh"
          /\ pc' = [pc EXCEPT ![c] = "reclaim"]
          /\ UNCHANGED ret
       \/ /\ row.state = "committed"
          /\ pc' = [pc EXCEPT ![c] = "returned"]
          /\ ret' = [ret EXCEPT ![c] = row.result]
    /\ UNCHANGED <<row, conf, tok, seen, hb, due, entered, fired, faults>>

\* Wait gives up: its timeout is no matter of the lease clock.
WaitTimeout(c) ==
    /\ pc[c] = "wait"
    /\ pc' = [pc EXCEPT ![c] = "denied"]
    /\ UNCHANGED <<row, conf, tok, seen, hb, due, ret, entered, fired, faults>>

\* Directive RUN: one second claim, which checks no fingerprint.
Reclaim(c) ==
    /\ pc[c] = "reclaim"
    /\ row' \in ClaimsAs(c, <<c, 2>>)
    /\ \/ /\ row.state = "fresh"
          /\ pc' = [pc EXCEPT ![c] = "fresh"]
          /\ tok' = [tok EXCEPT ![c] = <<c, 2>>]
          /\ UNCHANGED ret
       \/ /\ row.state = "committed"
          /\ pc' = [pc EXCEPT ![c] = "returned"]
          /\ ret' = [ret EXCEPT ![c] = row.result]
          /\ UNCHANGED tok
       \/ /\ row.state = "in_flight"
          /\ pc' = [pc EXCEPT ![c] = "denied"]
          /\ UNCHANGED <<tok, ret>>
    /\ UNCHANGED <<conf, seen, hb, due, entered, fired, faults>>

-----------------------------------------------------------------------------
(***************************************************************************)
(* Executing the effect and committing.                                    *)
(***************************************************************************)
\* _execute_and_commit up to the call of the effect, or _fresh_guard: with a
\* lease the heartbeat starts first.
Enter(c) ==
    /\ pc[c] = "fresh"
    /\ pc' = [pc EXCEPT ![c] = "running"]
    /\ entered' = entered \cup {c}
    /\ \/ /\ conf[c].ttl # None
          /\ hb' = [hb EXCEPT ![c] = "on"]
          /\ due' = [due EXCEPT ![c] = conf[c].beat]
       \/ /\ conf[c].ttl = None
          /\ UNCHANGED <<hb, due>>
    /\ UNCHANGED <<row, conf, tok, seen, ret, fired, faults>>

\* The effect takes place: the money moves, the transaction is broadcast.
Fire(c) ==
    /\ pc[c] = "running"
    /\ pc' = [pc EXCEPT ![c] = "fired"]
    /\ fired' = fired \cup {c}
    /\ UNCHANGED <<row, conf, tok, seen, hb, due, ret, entered, faults>>

\* _stop_heartbeat joins the thread no longer than one interval and
\* _astop_heartbeat cancels the task, so a renewal that is under way may
\* still reach the store later.
StopHeartbeat(c) ==
    /\ hb' \in {[hb EXCEPT ![c] = h] :
                  h \in IF hb[c] = "on" /\ due[c] = 0 /\ "beat" \notin Prompt
                        THEN {"off", "late"} ELSE {"off"}}
    /\ due' = [due EXCEPT ![c] = 0]

\* _astop_heartbeat awaits the task, which raises again the exception that
\* ended it; a thread's exception is dropped.
AfterStop(c, next) == IF hb[c] = "failed" THEN "down" ELSE next

\* The effect returns.  The heartbeat stops before the commit.  An unguarded
\* call is done.
Return(c) ==
    /\ pc[c] = "fired"
    /\ \/ /\ tok[c] # None
          /\ pc' = [pc EXCEPT ![c] = AfterStop(c, "commit")]
          /\ UNCHANGED ret
       \/ /\ tok[c] = None
          /\ pc' = [pc EXCEPT ![c] = "returned"]
          /\ ret' = [ret EXCEPT ![c] = c]
    /\ StopHeartbeat(c)
    /\ UNCHANGED <<row, conf, tok, seen, entered, fired, faults>>

\* The effect raises, before or after it took place: the key stays in flight
\* and the heartbeat stops.
Raise(c) ==
    /\ pc[c] \in {"running", "fired"}
    /\ pc' = [pc EXCEPT ![c] = AfterStop(c, "raised")]
    /\ StopHeartbeat(c)
    /\ UNCHANGED <<row, conf, tok, seen, ret, entered, fired, faults>>

\* Store.commit with the result of this execution, returned to the caller
\* whatever the row holds.
Commit(c) ==
    /\ pc[c] = "commit"
    /\ row' = CommitRow(row, c)
    /\ pc' = [pc EXCEPT ![c] = "returned"]
    /\ ret' = [ret EXCEPT ![c] = c]
    /\ UNCHANGED <<conf, tok, seen, hb, due, entered, fired, faults>>

\* What the next store call of c may make of the row.
NextWrites(c) ==
    CASE pc[c] = "commit"   -> {CommitRow(row, c)}
      [] pc[c] = "backfill" -> {CommitRow(row, ret[c])}
      [] pc[c] = "release"  -> {ReleaseRow(row, seen[c].token)}
      [] pc[c] = "reclaim"  -> ClaimsAs(c, <<c, 2>>)
      [] OTHER              -> {row}

\* A store call after the first claim raises, applied or not, and so does the
\* guarded call, fail-open or not.  (store.now is asked only about a lease.)
StoreUnavailable(c) ==
    /\ \/ pc[c] \in {"wait", "backfill", "release", "reclaim", "commit"}
       \/ pc[c] = "check" /\ seen[c].left # None
    /\ faults < MaxFaults
    /\ faults' = faults + 1
    /\ row' \in {row} \cup NextWrites(c)
    /\ pc' = [pc EXCEPT ![c] = "down"]
    /\ seen' = [seen EXCEPT ![c] = NoClaim]
    /\ UNCHANGED <<conf, tok, hb, due, ret, entered, fired>>

-----------------------------------------------------------------------------
(***************************************************************************)
(* Heartbeats, crashes and time.                                           *)
(***************************************************************************)
\* One turn of the beat loop; it ends when the claim is no longer c's.
Beat(c) ==
    /\ hb[c] = "on" /\ due[c] = 0
    /\ row' \in Renewals(c)
    /\ \/ /\ Owns(row, tok[c])
          /\ due' = [due EXCEPT ![c] = conf[c].beat]
          /\ UNCHANGED hb
       \/ /\ ~Owns(row, tok[c])
          /\ hb' = [hb EXCEPT ![c] = "dead"]
          /\ UNCHANGED due
    /\ UNCHANGED <<conf, pc, tok, seen, ret, entered, fired, faults>>

\* A renewal that raises, applied or not, ends the loop: silently in the
\* thread, with a stored exception in the task.
BeatUnavailable(c) ==
    /\ hb[c] = "on" /\ due[c] = 0 /\ "renew" \notin Prompt
    /\ faults < MaxFaults
    /\ faults' = faults + 1
    /\ row' \in {row} \cup Renewals(c)
    /\ hb' = [hb EXCEPT ![c] = IF conf[c].aio THEN "failed" ELSE "dead"]
    /\ UNCHANGED <<conf, pc, tok, seen, due, ret, entered, fired>>

\* The renewal that outlived its stop arrives.
LateBeat(c) ==
    /\ hb[c] = "late"
    /\ row' \in Renewals(c)
    /\ hb' = [hb EXCEPT ![c] = "off"]
    /\ UNCHANGED <<conf, pc, tok, seen, due, ret, entered, fired, faults>>

\* The worker of c dies, and its heartbeat with it.
Crash(c) ==
    /\ MayCrash
    /\ pc[c] \in Owning \cup Resolving
    /\ pc' = [pc EXCEPT ![c] = "crashed"]
    /\ hb' = [hb EXCEPT ![c] = "off"]
    /\ due' = [due EXCEPT ![c] = 0]
    /\ seen' = [seen EXCEPT ![c] = NoClaim]
    /\ UNCHANGED <<row, conf, tok, ret, entered, fired, faults>>

\* The steps that Prompt names are taken before it is too late for them: the
\* start of the heartbeat while the lease outlasts its first interval, a
\* renewal when it is due, a commit before the lease runs out, a reconciler's
\* look at the clock before the lease it read runs out.
Timely ==
    \A c \in Calls :
       /\ "start" \in Prompt =>
            ~(pc[c] = "fresh" /\ Live(row.left) /\ row.left <= conf[c].beat + 1)
       /\ "beat" \in Prompt => ~(hb[c] = "on" /\ due[c] = 0)
       /\ "commit" \in Prompt =>
            ~(pc[c] = "commit" /\ Owns(row, tok[c]) /\ row.left = 1)
       /\ "check" \in Prompt => ~(pc[c] = "check" /\ seen[c].left = 1)

ClockMatters ==
    \/ Live(row.left)
    \/ \E c \in Calls : due[c] > 0 \/ Live(seen[c].left)

\* One unit of the store's time passes.
Tick ==
    /\ ClockMatters
    /\ Timely
    /\ row' = [row EXCEPT !.left = Aged(row.left)]
    /\ seen' = [c \in Calls |-> [seen[c] EXCEPT !.left = Aged(seen[c].left)]]
    /\ due' = [c \in Calls |-> Aged(due[c])]
    /\ UNCHANGED <<conf, pc, tok, hb, ret, entered, fired, faults>>

\* Every call has ended; nothing is left to do.
Terminating ==
    /\ \A c \in Calls : pc[c] \in Ended
    /\ UNCHANGED vars

\* The steps of c's own code that it never stops short of.
Step(c) ==
    \/ CheckLease(c) \/ Probe(c) \/ Backfill(c) \/ Release(c)
    \/ Poll(c) \/ WaitTimeout(c) \/ Reclaim(c)
    \/ Enter(c) \/ Fire(c) \/ Return(c) \/ Raise(c) \/ Commit(c)

Next ==
    \/ \E c \in Calls :
          \/ Claim(c) \/ ClaimUnavailable(c)
          \/ Step(c) \/ StoreUnavailable(c)
          \/ Beat(c) \/ BeatUnavailable(c) \/ LateBeat(c)
          \/ Crash(c)
    \/ Tick
    \/ Terminating

Spec == Init /\ [][Next]_vars

\* A worker that is alive goes on, its effect ends, its beats are sent, and
\* the store's clock runs.
Fairness ==
    /\ \A c \in Calls : WF_vars(Step(c)) /\ WF_vars(Beat(c))
    /\ WF_vars(Tick)

FairSpec == Spec /\ Fairness

-----------------------------------------------------------------------------
(***************************************************************************)
(* Properties.                                                             *)
(***************************************************************************)
\* At most one call ever calls the effect function.  (The promise of the
\* default policy and of wait, fail-closed, through crashes and lost answers:
\* REQ-R2 and INV-1 of the test plan.)
AtMostOneEntry == \A c, d \in entered : c = d

\* Whatever a caller is given is the result the ledger holds, so any two
\* callers are given the same one: commit is not fenced and returns the
\* executor's own result, so this needs that no two calls execute.
ResultIsTheLedgers ==
    \A c \in Calls : pc[c] = "returned" =>
        row.state = "committed" /\ ret[c] = row.result

\* No caller is given a result computed for another payload than its own.
\* (KeyReuseError, src/src/exactly_once/errors.py:26-31.)
SamePayload ==
    \A c \in Calls : pc[c] = "returned" =>
        LET fps == {conf[c].fp, conf[ret[c]].fp} \ {None}
        IN  Cardinality(fps) <= 1

\* A committed record is never altered, released or re-claimed, whatever late
\* commits, releases, back-fills and renewals still arrive.
CommittedIsFinal ==
    [][row.state = "committed" => row' = row]_vars

\* A record is only ever deleted by a call that observed exactly this claim
\* in flight: the token makes release a compare-and-delete.
NewerClaimSurvives ==
    [][row.state = "in_flight" /\ row'.state = "fresh" =>
         \E c \in Calls : pc[c] = "release" /\ seen[c].token = row.token]_vars

\* A record whose lease is in force is never deleted.
LiveLeaseNotAdopted ==
    [][row.state = "in_flight" /\ row'.state = "fresh" => ~Live(row.left)]_vars

\* A call on its way from its fresh claim through the effect to the commit is
\* not adopted: the record is still its claim, though a reconciler that saw
\* the effect happen may have committed it.  So no two calls are on that way.
\* (ARCHITECTURE.md:304, "a live owner is never adopted".)
LiveOwnerNotAdopted ==
    \A c \in Calls : pc[c] \in Owning /\ tok[c] # None =>
        row.state # "fresh" /\ row.token = tok[c]

\* Once a guarded call has returned a result to its caller the key is committed,
\* so that every later call replays: whoever had retired the claim meanwhile, the
\* late commit stores.  Only a call that failed open keeps its result to itself.
\* (G-2: ARCHITECTURE.md:292.)
GivenIsStored ==
    \A c \in Calls : pc[c] = "returned" =>
        row.state = "committed" \/ (c \in entered /\ tok[c] = None)

\* When the effect of a guarded call has returned, the call goes on to the commit
\* of its result unless its worker dies; the store may fail there.  (It holds of
\* a plain function, and README.md:49 has coroutines behave the same.)
ReturnLeadsToCommit ==
    [][\A c \in Calls :
         pc[c] = "fired" /\ tok[c] # None /\ pc'[c] # "fired"
           => pc'[c] \in {"commit", "raised", "crashed"}]_vars

\* The guard implements the promise: the effects that took place are the
\* effects done, the row's result is what is stored, a call that returned was
\* given its result.
Answers == {<<c, ret[c]>> : c \in {d \in Calls : pc[d] = "returned"}}

Promise == INSTANCE EffectOnce
           WITH done <- fired, stored <- row.result, answers <- Answers

ImplementsEffectOnce == Promise!Spec

\* Every call that was made ends: it returns, is denied, raises or crashes.
EveryCallEnds ==
    \A c \in Calls : pc[c] # "idle" ~> pc[c] \in Ended

Orphaned(c) == pc[c] \in Ended /\ tok[c] # None /\ Owns(row, tok[c])

\* The lease of a claim whose call is over runs out, so that the next
\* reconciler can adopt the key.
OrphanLapses == \A c \in Calls : Orphaned(c) ~> ~(Orphaned(c) /\ Live(row.left))
=============================================================================
