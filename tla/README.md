# exactly-once: a TLA+ verification project

The repository is a Python library that guards a side effect with an
idempotency key: `once(store, key=...)` claims the key in a ledger, runs the
effect if the claim was fresh, commits the result, and replays it to every later
caller; a key found in flight is left to a policy. This directory holds TLA+
modules translated from `src/src/exactly_once/`, TLC configurations for them, and
theorems that TLAPS checks. `PROJECT.json` maps every definition to the source
lines it stands for, and lists runs, mutants, hazards, findings and theorems.

## 1. The system

| Component (under `src/src/exactly_once/`) | State it keeps | Operations | Interacts with |
|---|---|---|---|
| Store contract `stores/base.py`, `_types.py` | one ledger row per key: state, result, fingerprint, token, lease | `claim`, `commit`, `release`, `heartbeat`, `now`, `get`, `list` | called by the guard, its heartbeat and the policies |
| Guard `core.py` | per call: token, heartbeat, position; per object: a ContextVar stack of guards | decorator and `with`, sync and async: claim, fingerprint check, dispatch, execute and commit, re-claim | store, policy, effect |
| Heartbeat `core.py` 307-353 | a daemon thread or an asyncio task per leased execution | renew, stop | store, concurrently with the effect |
| Policies `policies.py` | none | resolve: `quarantine`, `fail`, `wait`, `auto_retry`, `check_then_decide` | store, user's prober |
| Memory, SQLite, Redis, Postgres `stores/*.py` | the ledger; a shared connection and its lock; transactions | the contract, by lock, `BEGIN IMMEDIATE`, Lua, `SERIALIZABLE` | database |
| Onchain adapter `onchain.py` | none | nonce, key, chain prober, sign-and-broadcast as the effect | guard, chain |
| Keys and fingerprints `keys.py`, codec `codec.py` | none | hashing of what identifies a call, JSON with a size limit | guard |
| Integrations `integrations/*.py` | none | wrap a LangGraph node or a CrewAI tool in a decorated call with a default key | guard |
| Errors `errors.py` | none | the exceptions a call ends with | guard |

What is hard here: callers in many processes interleave between any two store
calls; a store call may take effect and its answer be lost; a worker may die
anywhere; a reconciler acts on a claim and a lease it read some time ago; a
heartbeat runs beside the effect and may fail, lag or outlive it; the commit is
not fenced by the token. `PROJECT.json` "hazards" lists each at its line.

What makes each part correct:

* **Store**: each operation takes place at one instant or fails, and the record is
  changed whole or not at all; a committed record is final (in Redis until it expires); a
  release deletes exactly the claim it observed; a claim in flight never expires.
* **Guard with `quarantine` or `wait`**: the effect is entered at most once, whatever
  crashes and outages happen, and every caller is given the stored result.
* **`check_then_decide`**: the effect takes place at most once, for one caller at a time
  (crash recovery), or for live callers with timely leases.
* **Leases**: a live owner is never adopted, as long as its renewals succeed; an orphan's
  lease does run out.
* **Blocks**: whatever is nested in or spawned by what, each block is resolved with its
  own guard, and `current_key` is the running call's.
* **Keys**: calls that ask for one effect share a record, others do not.
* **Onchain**: only the hash of a transaction that was broadcast is stored and returned.
* **Results**: a call that claimed and gave its caller a result leaves the key committed. (An
  effect that returned is not committed when the worker dies, the store fails at the
  commit, or, for a coroutine, a renewal has failed.)
* **Liveness**: every call ends.

## 2. The modules

| Module | What it is |
|---|---|
| `Ledger` | The row and what each Store operation does to it, as functions from row to row. A lease is the time left on the store's clock, cut off at 0. |
| `EffectOnce` | The abstract promise (guarantees G-1 to G-4 of `docs/ARCHITECTURE.md`): the effect happens at most once, only a result of an effect that happened is stored, once, and answers are the stored result. No claims, leases or stores in it. |
| `Once` | The guard and its policies for one key: `Calls` guarded calls, each with arguments from `Configs`. One action per store call with the code after it up to the next store call. Refines `EffectOnce` (`Promise`). |
| `StoreCall` | A store call as a value: what it does to the row and what it answers. |
| `LedgerStore` | The Store contract as an abstract specification: a call is requested, takes place at one instant or answers what it saw at one, or fails; processes die. Three constants add what a network store may do: lose an answer (`Lossy`), carry a request out late (`Straying`), expire committed records (`Expiring`). A fourth, `Sharing`, says which threads have one connection: a call that fails there may leave its transaction open (`stuck`), and a get on it sees what that wrote (`Peeks`). |
| `SqliteStore` | The SQLite adapter, one action per SQL statement or lock operation. Refines `LedgerStore` (`Contract`). |
| `PostgresStore` | The Postgres adapter, one action per SQL statement or lock operation, its transactions SERIALIZABLE. Refines `LedgerStore` (`Contract`). |
| `RedisStore` | The Redis adapter: the key's hash, the Lua scripts, commands and replies on the way. Refines `LedgerStore` (`Contract`). |
| `GuardBlock` | What the blocks of one `once(...)` object do to the ledger when each keeps a guard of its own: the abstract specification of `GuardStack`. |
| `GuardStack` | How the object tells its blocks apart: the stack of guards and `_current_key` in ContextVars, of threads, tasks, nested blocks and calls. Refines `GuardBlock` (`ImplementsBlocks`), whose variables it extends. |
| `Keys` | Key and fingerprint of a call, what the codec refuses, and which calls share a record; what the wrappers do with a key callable that returns no text. |
| `Onchain` | The onchain adapter with its default policy on a chain with a mempool. Refines `EffectOnce` (`Promise`) when the nonce is pinned. |
| `MCOnce`, `MCSqlite`, `MCPostgres`, `MCRedis`, `MCGuardStack`, `MCKeys`, `MCOnchain` | Small instances for TLC: argument sets, homes of threads, calls, symmetry. |
| `OnceProofs` | Type correctness; committed records are final; releases spare newer claims; a call that gave a result leaves the key committed. For `quarantine` and `wait`: at most one entry, one result, the caller's own payload, and the refinement of `EffectOnce`. |
| `OnceLeaseProofs` | Under timely leases: no live owner is adopted; and the refinement of `EffectOnce` for `check_then_decide`. |
| `OnchainProofs` | Type correctness of the adapter, its refinement of `EffectOnce`, stored hashes are final. |
| `SqliteProofs`, `PostgresProofs`, `RedisProofs` | Type correctness of the adapters, their refinements of `LedgerStore`, and what their callers rely on: results and claims are kept, one claimant is answered FRESH. |
| `GuardStackProofs` | Type correctness, `current_key`, the ends of heartbeats, and the refinement of `GuardBlock`. |
| `KeysProofs` | Which keys are texts, which calls have one key, and from that: one effect is run once, nobody is given another's result. |

The modules meet as follows. `Once` and `Onchain` use the row functions of `Ledger`
as their store calls; `SqliteStore`, `PostgresStore` and `RedisStore` show that the
adapters carry out those same functions at one instant each (`StoreCall`,
`LedgerStore`). `GuardStack` leaves the policies to `Once` and takes every outcome
they may have; `Keys` decides which calls are the calls of one key in `Once`. In `Once` the
policy `wait` reads the committed row; that a get on SQLite may show more after a failed
statement is stated where it happens, in `SqliteStore` (`sqlite_read.cfg`).

### How `Once` corresponds to the code

`pc[c]` says between which two store calls the guarded call c is:

| `pc` | in the code |
|---|---|
| `idle` | not called yet |
| `check` | `AutoRetry`/`CheckThenDecide.resolve`, before `_lease_valid` |
| `probe` | before the prober is asked |
| `backfill`, `release` | before `store.commit` / `store.release` of the policy |
| `wait` | the poll loop of `Wait.resolve` |
| `reclaim` | after directive RUN, before the second claim |
| `fresh` | claimed, heartbeat not started |
| `running`, `fired` | inside the effect, before and after it took place in the world |
| `commit` | the effect returned, heartbeat stopped, before `store.commit` |
| `returned`, `denied`, `reuse`, `down`, `raised`, `crashed` | result, QuarantinedError or sentinel, KeyReuseError, StoreUnavailableError, the effect's exception, worker death |

`seen[c]` is the token and lease of the `ClaimResult` the policy was handed; it
ages with the clock like the row's lease, since both are compared with the same
clock. `hb[c]` is the heartbeat: `on`, `dead` (the loop ended), `failed` (an
asyncio task that ended with an exception), `late` (stopped while a renewal was
under way that still arrives). The decorator and the context-manager forms, sync
and async, make the same store calls in the same order, so one set of actions
stands for the four; they differ in the heartbeat (`aio`). A call's result is
identified with the call that executed.

Abstractions: a fingerprint is a value of `Payloads`; a result is a call; the
codec is left to `Keys` (its failure after the effect is `Raise`); time is in whole
units; a claim or renewal may wait up to `Delay` units in the store after its lease was
stamped (`Stamped`); `None` of Python, NULL and the empty Redis field are one value. The prober
is the user's: it tells the truth about the moment it looks, or that it cannot tell.
A store call that raises may have taken effect or not, as with a Redis timeout.

### How `SqliteStore` corresponds to the code

`db` is the committed row, `tx` the row in the open transaction, `writer` the process
whose connection has one, `lock[p]` the `threading.Lock` around p's connection,
`pc[t]` the next statement. `Begin` takes the file's write lock; `BeginFails` is
BUSY or "cannot start a transaction within a transaction"; `Select` reads outside a
transaction, after `Rollback`, as `claim` does; `Get` (of `get` and `list`) reads without
BEGIN. `StatementFails`: the adapter has no rollback on an unexpected error, so either
SQLite rolled back by itself or the transaction stays open on the connection. Then every
later write of that process fails at BEGIN, and of the other processes too while the write
lock is held, until the process ends; the contract allows errors, and that wedge is a
weakness of availability which no property here excludes. And `get` and `list` on that
connection read the uncommitted write. `ImplementsStore` says so: the file keeps the record as
it was, every other answer is what the record was, and only a get on such a connection
answers what the open transaction sees (`LeftOpen` stands for `stuck`, `Sharers` for
`Sharing` of the contract). `CommittedReadIsStored`, that what a get shows as committed is
in the file, is violated (`sqlite_read.cfg`): `wait` may return such a result, which is gone
when the process dies.

### How `PostgresStore` corresponds to the code

`db` is the committed row; `snap[p]` the row in the snapshot of p's transaction, `wrote[p]`
what it wrote, `stale[p]` whether the row changed since the snapshot. A statement
waits while another transaction has an uncommitted write of the row (`Blocked`);
INSERT looks for a conflict in the present and fails when the conflicting version is not
in the snapshot (`TooNew`), DELETE and UPDATE look the row up in the snapshot and fail
when it changed since (`Change`). `Retry` is the handler of SerializationFailure: `_tx`
gives up the lock and tries again, `aclaim` keeps it, the other async methods raise.
`Unserializable` is a failure the server may raise on weaker evidence than a version
conflict. `StatementFails` rolls back, may lose the connection (nothing reconnects, so
every later call of the process raises), and at COMMIT may have committed: this is why
`LedgerStore` lets the answer to a call be lost when `Lossy`. A transaction that writes
nothing answers from its snapshot, possibly long after: the contract's `Looks` and
`Returns` are there for that, and the refinement mapping `Found` says what was seen.
A process uses one of the two forms.

A commit of the async form that loses to another transaction raises although the
store is up and the effect has run, where the module's docstring speaks of
serialization failures of claims only. The contract allows an error, so no run is
violated; for the guard it is `Once!StoreUnavailable`.

### How `RedisStore` corresponds to the code

`hash` is the key's hash field by field, `Nil` where a field was never set; `OrBlank` and
`Value` are what the scripts and `_b`, `_s`, `_f` make of a missing field on its way.
`wire[t]` is t's command before and its reply after the server ran the script
(`Arrive`), `late` the commands on connections that broke, which may still arrive
(`ArriveLate`). redis-py is external: on a broken connection it sends the same command
again (`MaxResends`; by default since version 6, and the project admits 5 and later) or
raises, which the adapter turns into StoreUnavailableError except in the sync `get`
(`Untranslated`). `EXPIRE` is `expiring`: a script that deletes the key takes the expiry
along, and `Expire` may happen any time after. The contract for this adapter has
`Lossy`, `Straying` and `Expiring`. One consequence is worth knowing: a claim that is
resent finds its own first record and answers `in_flight`, so that nobody is answered
FRESH and the key waits for its policy, where base.py:50 says that exactly one caller is.
Nothing runs twice.

### How `GuardStack` corresponds to the code

`cm_stack[x]` is the ContextVar of the object in context x (a thread or a task),
`current[x]` `_current_key`, `token[b]` what call b restores, `body[x]` the blocks x is
in by the program's text, which the code does not store. A spawned task starts with a
copy of the ContextVars, a thread with none (`Spawn`). `EnterWith` pushes whichever guard
the block was given, `ExitWith` pops. That a block is resolved with its own guard
(`ImplementsBlocks`) is compared with `GuardBlock`, where `Resolve(b, b)` is said outright.
`Scoped` restricts the program, not the code: blocks are left by the context that entered
them, the last first, as `with` does outside generators. With `Scoped` = FALSE, which a
generator or async generator that is suspended inside the block allows, TLC finds a
guard left on the stack and its heartbeat running for ever. A block sets no
`_current_key`, nor does a call that runs unguarded (store down, fail-open): inside
another guarded effect both see the outer call's key. So `CurrentKeyIsOwn` speaks of
decorated calls; `CurrentKeyIsRunning`, which takes the docstring of `current_key` at its word for
blocks as well, is violated (`block_key.cfg`).

### How `Keys` corresponds to the code

A text is the sequence of its parts between colons and a digest is what is hashed, so two
keys are equal here when they are in the code, unless SHA-256 (or the 32 or 16 digits
kept of it) collides or a part itself contains a colon. `KeyOf` is the key of a decorated
call, a block, a node, a tool or a transaction; where the code raises, the set is empty.
A call is one step, since its interleavings are the business of `Once`. `Identity` is the
caller's idea of what a call asks for, independent of the code, against which the
properties compare: the namespace and the given key, or the function and its arguments,
the thread and node, the transaction whoever builds it. Calls for which the properties do
not hold are excluded by named hypotheses at the end of the module, which the run's calls
satisfy (`MCCallsAreRight`; but for `TextKeys`, since one node's key callable returns a number) and
the theorems assume. Each is needed: on an instance of two
calls that break that one only, TLC finds a property violated.

* `TextsApart`: namespace `a` with key `b:c` and namespace `a:b` with key `c` are one key, and
  so are the default key of a node and a text that spells it;
* `NamesTell`: two closures of one factory, or two lambdas on one line, derive one key; so
  do two nodes, or tools, with one name;
* `TextKeys`: a key callable of `once_node` or `once_tool_run` that returns None makes `once` derive
  the key of the wrapper's closure `effect`, which is the same for all nodes or tools
  (`EffectKey`, `wrapper_none.cfg`), and any other value that is no text becomes the key as it is
  (`RawKey`, `wrapper_key.cfg`; what a store makes of such a key is left open, and a value
  that is itself callable is not modelled). A decorated call or block raises TypeError for both;
* `StableStr`, `StrTells`: the default key of a tool takes `str()` of what is no JSON: with one
  that differs per instance nothing is deduplicated, and `Decimal("5")` is `"5"`;
* `TxTell`: transactions that differ in `to` or `value` alone have one key.

Also as in the code: an argument given by position and the same given by name derive
two keys; an async LangGraph node is wrapped as a sync effect, so its coroutine is refused
by the codec and the key stays in flight; a node visited twice in a thread replays.

### How `Onchain` corresponds to the code

Signing is deterministic, so the transaction of the one intent is named by its
nonce, and the ledger key (nonce, calldata hash) too. `Start` settles the nonce,
`Claim` .. `Commit` are the guard with `check_then_decide`, `ProbeStatus` and
`ProbeNonce` the two separate reads of the chain prober, `Send` the effect. The chain
is external: nonces are used in order, the mempool may drop a transaction, a block
may still take a dropped one, and another transaction of the account may take the
nonce. With a pinned nonce all broadcasts are of one transaction by that naming alone,
and to send it again is harmless, so what `ImplementsEffectOnce` adds is about the ledger: nothing
is stored or returned but the hash of a transaction that was broadcast, once.

## 3. The runs

| Run | Instance | What it shows |
|---|---|---|
| `once_safe` | 3 calls, 2 payloads, quarantine/wait, leased, sync/async, 1 outage, crashes, upgraded database | effect entered at most once, no other payload's result, refinement of `EffectOnce` |
| `once_lease` | 3 calls, check_then_decide/wait with lease 3, or check_then_decide alone without, leases stamped up to 1 early, 2 outages, crashes, no failed or late renewal, timely lease checks | no live owner or live lease adopted, releases spare newer claims, answers are the ledger's, refinement |
| `once_live` | 2 calls, auto_retry/wait, lease 2 or none, stamped up to 1 early, late heartbeats, fail-open or -closed, 1 outage, crashes, fairness | every call ends, orphans' leases lapse, a call that gave a result leaves the key committed, committed records stay although effects repeat |
| `sqlite` | 2 threads in one process (1+1 calls) and 1 in another (3 calls), 2 attempts, 1 failing statement, 1 crash, fairness | the adapter implements the contract and answers every call |
| `postgres` | 2 threads in a sync process (2+1 calls), 1 task in an async one (2 calls), 2 attempts, 1 failure of a statement, connection or process or false serialization failure, fairness | the adapter implements the contract, a conflicting record is readable, every call is answered |
| `redis` | 3 calls of a sync and 2 of an async client, 2 broken connections or crashes, 1 resend, late commands, expiry | the adapter implements the contract of a network store, claims in flight do not expire |
| `guard_stack` | 2 blocks and 2 calls on 2 keys, a main context and a task or thread | each block is resolved with its own guard, heartbeats end with their blocks, `current_key` is the running call's |
| `keys` | 22 ways to write a call, 3 calls made | one effect is run once, no foreign result |
| `onchain` | 3 calls, nonce 1 pinned of 0..1, crashes, drops, foreign transactions | refinement of `EffectOnce` without a lease: only broadcast hashes are stored and returned |
| `async_blip` | 1 async call, 1 failed renewal | **violated**: effect returned, commit skipped |
| `reclaim_payload` | 3 calls, 2 payloads, auto_retry, crashes | **violated**: another payload's result is returned |
| `onchain_nonce` | 2 calls, nonce not pinned | **violated**: two broadcasts of one intent |

The three violated properties state what a document or docstring of the repository
says; `PROJECT.json` "findings" quotes it and tells the counterexample.

Seven more instances show what an assumption of a passing run keeps out, or where the code
falls short of its documents. They are not among the runs; `tlc -config X.cfg M` gives the
counterexample.

| Instance | Property, violated | What the trace shows, and against what |
|---|---|---|
| `lease_blip.cfg`, `MCOnce`: 2 leased calls, 1 outage, everything but "renew" timely | `LiveOwnerNotAdopted` | One renewal fails, the heartbeat thread returns for good (core.py:318), the lease runs out and the live owner is adopted. base.py:78-79: "a slow-but-alive worker is never mistaken for a dead one". |
| `stale_lease.cfg`, `MCOnce`: 2 leased calls, no outage, everything but "check" timely | `LiveLeaseNotAdopted` | A reconciler compares the clock with the lease it read at its claim (policies.py:76) and deletes a claim whose lease was renewed since. ARCHITECTURE.md:304: "adopts an orphan only once its lease has expired". |
| `pretoken_release.cfg`, `MCOnce`: 2 leased calls, a pre-token orphan, no outage, all timely | `NewerClaimSurvives` | The release of a call that saw a NULL token (sqlite.py:69) deletes the claim of another one that released and claimed first. ARCHITECTURE.md:304: "a stale reconciler can never delete a newer claim". |
| `sqlite_read.cfg`, `MCSqlite`: as `sqlite` | `CommittedReadIsStored` | A commit raises after its upsert without a rollback (sqlite.py:118-124), a get on that connection shows a committed record (sqlite.py:152-157) that the file does not hold. docs/PRD.md:88: "A committed key MUST survive process death". |
| `wrapper_key.cfg`, `MCKeys`: 5 calls of nodes and tools | `KeysAreTexts` | A key callable returns a number, which is the key in the ledger (langgraph.py:89, crewai.py:77). keys.py:53-55: "key callable must return str". |
| `wrapper_none.cfg`, `MCKeys`: the same calls | `NoForeignResult` | The key callable of a tool returns None and a call gets the result of a call with other arguments. crewai.py:22: "Semantics match the raw `@once`", which raises TypeError. |
| `block_key.cfg`, `MCGuardStack`: as `guard_stack` | `CurrentKeyIsRunning` | In a block nested in a guarded call, `current_key()` is the outer call's key. core.py:56: "The key of the guarded effect currently running". |

**Bounds.** Three calls are the smallest number with an owner, a stale reconciler
and a newer claimant, which is what fencing, adoption and re-claim races need; a
call claims at most twice. Two payloads are enough for a mismatch, lease 3 with beat
1 for an owner to be late and in time, one outage for each lost answer (two where a
recovery is interrupted again); `Solo` keeps callers without a lease apart, as the
policies' docstrings ask, and lets leased ones run together. In `sqlite`, `MaxAttempts` is 2 and the other process makes three calls, so that between
the attempts of one claim a record vanishes twice and the claim gives up, while a get
beside a failed commit needs one call each of the first two threads; in `postgres` two attempts are one retry and the giving up. In
`redis` three and two calls let a command be given up and arrive after the other
client's next claim. In `guard_stack` each key has a call and a block, so that two of
one kind and two of one key nest both ways round. In `keys` three calls are one that
runs and two that may find it or clash with it. In
`onchain`, nonce 0 exists so that the pinned nonce can be
ahead of the chain. Calls are symmetric in all runs without liveness.

**Fairness** (`once_live`): the steps of a live worker, its beats and the clock are
weakly fair: Python threads and tasks are scheduled, the effect ends. `Claim` is not
fair: nobody must call. Nothing is assumed of crashes or outages. In `sqlite` and
`postgres` the steps of a thread in a store call are weakly fair; the number of calls
is bounded, so lock starvation is not considered.

**Timeliness** (`Prompt`) is an assumption on the environment, not on the code: time does not pass
while a named step is overdue, and with "renew" no renewal fails. It is how
the claim of the documentation that leases make adoption safe (ARCHITECTURE.md, L-8) can
be stated at all, and the code does not see to it. Each part is needed.
`lease_blip.cfg` leaves out "renew" (one failed renewal ends the heartbeat for good, core.py:318),
`stale_lease.cfg` "check" (a lease renewed after the reconciler read it is not seen,
policies.py:76). TLC finds a live owner adopted in `once_lease` also without "start" (the
heartbeat starts late), without "beat" (a renewal comes late), with `Delay` 2 (lease 3, beat 1: a lock wait eats the
margin), without `Solo` and with `Upgraded`. "commit" is needed by auto_retry only, which
does not look whether the effect happened. `once_safe` and `once_live` assume none of it.

**Deadlock** is checked but in `guard_stack` and `keys`, whose programs end when every
block or call has been made; elsewhere `Terminating` is the regular end.

**Mutants.** Each property of a passing run has a wrong variant of a mapped
definition (a dropped guard, a missing reset, an unfenced delete) that breaks it. They
stand at the top of each module, apart from the model.

## 4. What is proved

For every set of calls, payloads, configurations and every bound:

* `TypeCorrect`: `Spec => []TypeOK`.
* `CommittedFinal`: `Spec => CommittedIsFinal`. Inductive invariant: a committed row has
  no lease (otherwise the clock would change it).
* `NewerClaimSafe`: `Spec => NewerClaimSurvives` when `Upgraded = FALSE`, for every
  policy, timing and fault. Inductive invariant: every claim in flight has a token, and
  so has what a call on its way to a release has seen.
* `AtMostOnce`, `OneResult`, `PayloadSafe`, `SafeImplements`, under `SafePolicies` (all calls use
  `quarantine` or `wait`, fail-closed). The invariant `SafeInv` says that the key once
  claimed stays claimed, by the first token of the one call that runs, that no call
  gets as far as a release or re-claim, and that what is stored or given was fired;
  at-most-once is not inductive without it, because it does not say whose claim the
  row is. For `PayloadSafe` the fingerprint of the row is that of the one call that runs.
  The refinement has one step per action: initial states map to initial
  states, every step to a step of `EffectOnce` or a stutter.
* `LiveOwnerSafe`, `LiveLeaseSafe`, under `TimelyLeases`: a lease is longer than its beat and
  `Delay` together, a call without a lease is under way alone, heartbeats and lease checks
  are timely and no renewal fails, no upgraded database; commits may be late unless a call uses
  `auto_retry`. So they cover the instance of `once_lease` and more: `auto_retry` with
  timely commits, and failing open. `LeaseInv` relates an owner's position to the row's token,
  the row's lease to the next beat, and what a reconciler has seen to the row: one that got
  past the lease check observed no owner with a lease, or an owner at its commit, whose
  effect the prober sees (`AdoptInv`). Without that last case a late commit would break it.
* `CarefulResult`, `CarefulImplements`, under `CarefulLeases`: `TimelyLeases`, no `auto_retry` and
  fail-closed. The effect takes place at most once although orphans are released and run
  again. The invariant adds to `LeaseInv` that whoever may still cause the effect finds that it
  has not taken place, and that once it has, the record stays, because no release under
  way matches it (`OneEffect`): the prober's verdict is about the past when the release
  comes, and what keeps it true is that the owner it spoke of was alone or dead. `CarefulOnce`
  states the at-most-once directly.
* `GivenStored`: `Spec => []GivenIsStored`, for every policy, timing and fault. A committed
  row stays, and a call gets to `returned` only by a commit, or by a record it saw committed
  or just back-filled.
* `OnchainType`, `OnchainImplements`: with a pinned nonce the onchain adapter refines
  `EffectOnce`, for any number of concurrent callers and no lease. The invariant ties
  every hash that is about to be stored or returned to a transaction that was sent at
  the pinned nonce. `HashIsFinal` needs no pinned nonce.
* `SqliteProofs!StoreImplemented`, for any threads, processes, attempts and failures. The
  invariant `TxInv` says that an open transaction sees the committed row until its last
  statement has done the whole operation; it needs that a thread in a transaction holds
  its process's lock (`LockInv`) and the process the file's, since two transactions at
  once would break it. `Call`, `Select`, `Get`, COMMIT, an error and a death are steps of the
  contract, every other statement is a stutter; an error may leave the transaction open
  with the record as it was or with the whole operation done in it (`FailureLeavesOpen`).
* `PostgresProofs!StoreImplemented` and `ConflictReadable`. Here transactions of several processes
  are open at once, so the invariant is about snapshots: one that is not stale is the
  committed row, at most one transaction has an uncommitted write (`SnapInv`), and a
  call at its COMMIT either changes nothing on its snapshot, whose answer the contract's
  `Looks` accounts for, or wrote what the whole operation makes of the present row (`TxInv`).
  `ConflictReadable` follows from the same invariant: at the SELECT the snapshot has a record.
* `ResultKept`, `ClaimKept` and `FreshIsOwner` of `SqliteProofs` and `PostgresProofs`: what the guard
  relies on, read off the refinement. Every step that changes the row is an operation
  of a call under way (`RecordStep`), no operation changes a committed row, and only a
  matching release deletes one in flight (`ApplyKeeps`). A caller is answered FRESH in the
  step that creates the row with its token, so between two deletions at most one is,
  as base.py:50 says; a call that answers from what it saw earlier never answers FRESH,
  since it must have changed nothing.
* `RedisProofs!StoreImplemented`, `OnlyResultsExpire` and `ResultKept` (up to expiry). The invariant says that the hash is
  whole or absent, that only a committed hash has an expiry (`HashInv`), that every
  command under way or late has its arguments (`CommandInv`), and that a reply is of the
  kind its command has (`WireInv`). `ScriptApplies` and `ReplyAnswers` are the heart of the refinement: for every
  request and every whole hash, what the Lua script makes of the hash is what the
  operation makes of the record, and its reply, decoded, is the operation's answer.
* `HeartbeatsEnd`, `OwnCurrentKey`, `BlocksImplemented`, for blocks that are left by the context
  that entered them, the last first (`Scoped`), on any number of keys, blocks, contexts and
  nestings. The invariant says that the stack of a context ends with the guards of the
  blocks of its body, in order, and that what a call will restore is the key of what
  is below it in the body (`StackInv`, `KeyInv`); neither property is inductive without it, since
  it is what makes popping and restoring the inverse of pushing. `TypeCorrect` holds without `Scoped`.
* `KeysProofs!OneRun`, under `TextKeys` and `StableStr`, and `OwnResult`, under `TextKeys`, `TextsApart`,
  `NamesTell`, `StrTells` and `TxTell`, for any calls, written in any way. The invariant says that every
  record is of a call that ran under its key (`RecordInv`), that every call that ran has its
  record (`EnteredInv`), and that a replay is between calls that share a key and no
  differing fingerprint (`ReplayInv`). The heart is about the keys themselves: calls that ask
  for one effect have one key (`SameEffectSameKey`), and calls with one key ask for one effect
  (`SameKeySameEffect`), by the forms two calls can have. `TypeCorrect` needs no hypothesis: a key that is no text is
  what a wrapper's callable returned; `TextsOnly` is `KeysAreTexts` under `TextKeys`.

Assumptions on constants are the named `ASSUME`s of the modules, which TLC evaluates in
every run: which bounds are numbers, and that None, Nil and the empty string are none of the
other values. Theorems about a restriction (`SafePolicies`, `TimelyLeases`, `CarefulLeases`,
`Scoped`, the pinned nonce, the hypotheses on calls of `Keys`)
state it as a hypothesis; the passing runs that check the property have such instances.
`Keys` takes the texts of a program as a constant (`Strings`), since the prover knows no
member of STRING; the run gives it STRING.

Only model-checked: the liveness properties `CallsEnd`, `EveryCallEnds` and `OrphanLapses`.
They rest on fairness, whose ENABLED is out of the prover's reach. Every invariant and
every action property of a passing run has a theorem.

## 5. Not modelled, and the plan

Not modelled:

* Redis under fail-over, which the adapter itself calls best-effort: what it loses is
  not determined by the code.
* `close` ends the program. `list` and `alist` read as `get` does: `SqliteStore!Get` stands for
  both, since there a transaction may be left open; elsewhere they only read the record.
* Clocks of the adapters: `Once!Stamped` stands for the stamp before SQLite's locks and
  for `now()` of a Postgres transaction; skewed hosts matter only where the base class's
  `now()` is used by several hosts, which its docstring excludes.
* Cancellation of an asyncio task: to the ledger it is a crash of the call. Where
  `_astop_heartbeat` swallows it (core.py:352) only the canceller notices.
* Onchain: leases (the default has none), and the fate of a transaction whose hash is
  committed: ARCHITECTURE.md:212 calls a broadcast, unmined transaction in flight, the code
  commits at broadcast, so a dropped one is replayed for ever. That is a promise about
  the chain, which no state of the adapter refers to.
* `examples/`, `Web3ChainClient.sign` and its fees: calls of other libraries.

What could still be proved, outside this prover, is the liveness of the guard in steps: each
step that fairness takes brings a call nearer to its end.
