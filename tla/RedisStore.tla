----------------------------- MODULE RedisStore -----------------------------
(***************************************************************************)
(* The Redis adapter (src/src/exactly_once/stores/redis.py) for one key:   *)
(* the hash that a single Redis instance keeps, the Lua scripts that it    *)
(* runs one at a time, and the clients' commands and replies on the way.   *)
(*                                                                         *)
(* Every call has a connection of its own from the client's pool.  When it *)
(* breaks, a command that is under way is lost or reaches the server       *)
(* later; redis-py sends the command again with the same arguments (by     *)
(* default since version 6, and the project admits 5 and 6), or raises.    *)
(***************************************************************************)
EXTENDS StoreCall

CONSTANTS
    Threads,        \* threads and tasks, of all processes
    Async,          \* those that use the a... methods
    Blank,          \* the empty string
    Nil,            \* Lua's nil: no such field, no such key
    CommittedTTL,   \* committed_ttl
    MaxResends,     \* how often the client sends a command again
    MaxCalls,       \* bound: MaxCalls[t] is how many store calls t makes
    MaxFaults       \* bound: broken connections and crashes

ASSUME AsyncAssumption == Async \subseteq Threads
ASSUME BoundsAssumption ==
    {CommittedTTL, MaxResends, MaxFaults} \subseteq Nat /\ MaxCalls \in [Threads -> Nat]

VARIABLES
    hash,       \* the key's hash: a field that was never set is Nil
    expiring,   \* whether the key has an expiry
    wire,       \* wire[t]: t's command, "sent" or the reply to it, or None
    req,        \* req[t]: the store call t is in, or None
    ans,        \* ans[t]: what t's last call answered, or None
    known,      \* known[t]: the token in the last claim t was answered
    late,       \* commands on abandoned connections, a bag
    resends,    \* resends[t]: how often t's command was sent again
    calls,      \* calls[t]: calls t has made
    faults      \* broken connections and crashes

vars == <<hash, expiring, wire, req, ans, known, late, resends, calls, faults>>

\* A redis-py exception that the adapter does not translate.
Untranslated == <<"untranslated">>

\* The tokens of t's claims: uuid4 never repeats.
Tokens == UNION {{t} \X (1 .. MaxCalls[t]) : t \in Threads}

Ops == {"claim", "commit", "release", "heartbeat", "get"}

Requests == [op: Ops, tok: Tokens \cup {None}, res: Threads \cup {None}]

Hashes ==
    [state: {"in_flight", "committed", Nil}, result: Threads \cup {Nil},
     token: Tokens \cup {Nil}, lease: {1, 2, Nil}]

NoHash == [state |-> Nil, result |-> Nil, token |-> Nil, lease |-> Nil]

Replies ==
    ({"claim"} \X States \X (Threads \cup {Blank}) \X (Tokens \cup {Blank}))
        \cup ({"int"} \X {0, 1})
        \cup ({"hash"} \X Hashes)

Answers ==
    {Done, Error, Untranslated} \cup ({"heartbeat"} \X BOOLEAN)
        \cup ({"claim", "get"} \X States \X (Tokens \cup {None}) \X (Threads \cup {None}))

\* The values that stand for nothing are different, and are nothing else.
ASSUME EmptyValues ==
    /\ Blank # Nil /\ None \notin {Blank, Nil}
    /\ \A v \in {Blank, Nil} : v \notin States /\ v \notin Nat /\ v \notin Threads \cup Tokens
ASSUME NoneIsNoneOfThese ==
    None \notin Threads \cup Tokens \cup Requests \cup Replies \cup Answers
                    \cup ({"did"} \X Answers) \cup {<<"sent">>}

\* The type invariant: every variable keeps the type its declaration names.
TypeOK ==
    /\ hash \in Hashes
    /\ expiring \in BOOLEAN
    /\ wire \in [Threads -> {None, <<"sent">>} \cup Replies]
    /\ req \in [Threads -> Requests \cup {None}]
    /\ ans \in [Threads -> Answers \cup {None}]
    /\ known \in [Threads -> Tokens \cup {None}]
    /\ IsABag(late) /\ BagToSet(late) \subseteq Requests
    /\ resends \in [Threads -> 0 .. MaxResends]
    /\ calls \in [Threads -> Nat] /\ \A t \in Threads : calls[t] <= MaxCalls[t]
    /\ faults \in 0 .. MaxFaults

Init ==
    /\ hash = NoHash
    /\ expiring = FALSE
    /\ wire = [t \in Threads |-> None]
    /\ req = [t \in Threads |-> None]
    /\ ans = [t \in Threads |-> None]
    /\ known = [t \in Threads |-> None]
    /\ late = EmptyBag
    /\ resends = [t \in Threads |-> 0]
    /\ calls = [t \in Threads |-> 0]
    /\ faults = 0

-----------------------------------------------------------------------------
(***************************************************************************)
(* Wrong variants, which only the mutation runs put in place of the right  *)
(* definitions below.                                                      *)
(***************************************************************************)
\* The claim is given the expiry that is meant for the result.
ClaimExpires(r, h) == r.op \in {"claim", "commit"} /\ CommittedTTL > 0

\* A commit does not look at the state.
CommittedAgain(r, h) == [h EXCEPT !.state = "committed", !.result = r.res]

\* An empty field is returned as it is.
Undecoded(v) == v

-----------------------------------------------------------------------------
(***************************************************************************)
(* The scripts.                                                            *)
(***************************************************************************)
\* x or '' in a script, and _b, _s and _f on the way back.
OrBlank(v) == IF v = Nil THEN Blank ELSE v
Value(v)   == IF v \in {Blank, Nil} THEN None ELSE v

Exists(h) == h.state # Nil

\* HGET ... == ARGV[1]: nil equals no argument.
HoldsToken(h, t) == h.token # Nil /\ h.token = t

\* What the script of request r makes of the hash h: _CLAIM_LUA, ...
Claimed(r, h) ==
    IF Exists(h) THEN h
    ELSE [state |-> "in_flight", result |-> Nil, token |-> r.tok, lease |-> 1]

\* ... _COMMIT_LUA, ...
Committed(r, h) ==
    IF h.state = "committed" THEN h
    ELSE [h EXCEPT !.state = "committed", !.result = r.res]

\* ... _RELEASE_LUA, whose argument is '' for a release without a token, ...
Released(r, h) ==
    IF h.state = "in_flight" /\ (r.tok = None \/ HoldsToken(h, r.tok))
    THEN NoHash ELSE h

\* ... and _HEARTBEAT_LUA.
Renews(r, h) == h.state = "in_flight" /\ HoldsToken(h, r.tok)

Script(r, h) ==
    CASE r.op = "claim"     -> Claimed(r, h)
      [] r.op = "commit"    -> Committed(r, h)
      [] r.op = "release"   -> Released(r, h)
      [] r.op = "heartbeat" -> IF Renews(r, h) THEN [h EXCEPT !.lease = 2] ELSE h
      [] r.op = "get"       -> h

\* EXPIRE: the commit that makes the record committed, and only that one.
SetsExpiry(r, h) == r.op = "commit" /\ h.state # "committed" /\ CommittedTTL > 0

\* What the script returns; get is HGETALL.
Reply(r, h) ==
    CASE r.op = "claim" ->
           IF Exists(h) THEN <<"claim", h.state, OrBlank(h.result), OrBlank(h.token)>>
           ELSE <<"claim", "fresh", Blank, r.tok>>
      [] r.op = "heartbeat" -> <<"int", IF Renews(r, h) THEN 1 ELSE 0>>
      [] r.op = "get" -> <<"hash", h>>
      [] OTHER -> <<"int", IF Script(r, h) = h THEN 0 ELSE 1>>

\* The server runs the script of r.
Execute(r) ==
    /\ hash' = Script(r, hash)
    /\ expiring' = (Exists(hash') /\ (expiring \/ SetsExpiry(r, hash)))

-----------------------------------------------------------------------------
(***************************************************************************)
(* Calls.                                                                  *)
(***************************************************************************)
\* A caller that was answered a claim may commit its result, or release or
\* renew by that token; a release without a token is unconditional.
Request(t, op) ==
    [op  |-> op,
     tok |-> CASE op = "claim" -> <<t, calls[t] + 1>>
               [] op \in {"commit", "get"} -> None
               [] OTHER -> known[t],
     res |-> IF op = "commit" THEN t ELSE None]

Call(t) ==
    /\ req[t] = None /\ calls[t] < MaxCalls[t]
    /\ \E op \in Ops :
          /\ op \in {"commit", "heartbeat"} => known[t] # None
          /\ req' = [req EXCEPT ![t] = Request(t, op)]
    /\ wire' = [wire EXCEPT ![t] = <<"sent">>]
    /\ ans' = [ans EXCEPT ![t] = None]
    /\ calls' = [calls EXCEPT ![t] = @ + 1]
    /\ resends' = [resends EXCEPT ![t] = 0]
    /\ UNCHANGED <<hash, expiring, known, late, faults>>

\* The command arrives at the server, which runs the script at once.
Arrive(t) ==
    /\ wire[t] = <<"sent">>
    /\ Execute(req[t])
    /\ wire' = [wire EXCEPT ![t] = Reply(req[t], hash)]
    /\ UNCHANGED <<req, ans, known, late, resends, calls, faults>>

\* The reply as the method returns it: ClaimResult, bool, ClaimRecord or None.
Decoded(reply) ==
    CASE reply[1] = "claim" ->
           <<"claim", reply[2], Value(reply[4]), Value(reply[3])>>
      [] reply[1] = "hash" ->
           LET h == reply[2] IN
           <<"get", IF Exists(h) THEN h.state ELSE "fresh", Value(h.token), Value(h.result)>>

AnswerTo(r, reply) ==
    CASE r.op \in {"claim", "get"} -> Decoded(reply)
      [] r.op = "heartbeat" -> Renewed(reply[2] = 1)
      [] OTHER -> Done

\* The method ends with an answer or an exception.
Leave(t, answer) ==
    /\ ans' = [ans EXCEPT ![t] = answer]
    /\ req' = [req EXCEPT ![t] = None]
    /\ wire' = [wire EXCEPT ![t] = None]

\* The reply arrives.
Return(t) ==
    /\ wire[t] \notin {None, <<"sent">>}
    /\ Leave(t, AnswerTo(req[t], wire[t]))
    /\ known' = IF req[t].op # "claim" THEN known
                ELSE [known EXCEPT ![t] = Value(wire[t][4])]
    /\ UNCHANGED <<hash, expiring, late, resends, calls, faults>>

-----------------------------------------------------------------------------
(***************************************************************************)
(* Failures and time.                                                      *)
(***************************************************************************)
\* A command that had not arrived is lost or arrives later.
Abandon(t) ==
    late' \in {late} \cup
        (IF wire[t] = <<"sent">> THEN {late (+) SetToBag({req[t]})} ELSE {})

\* ConnectionError or TimeoutError: the client sends the command once more,
\* or gives up, and the method raises StoreUnavailableError; the synchronous
\* get lets redis-py's exception through.
Break(t) ==
    /\ wire[t] # None
    /\ faults < MaxFaults
    /\ faults' = faults + 1
    /\ Abandon(t)
    /\ \/ /\ resends[t] < MaxResends
          /\ wire' = [wire EXCEPT ![t] = <<"sent">>]
          /\ resends' = [resends EXCEPT ![t] = @ + 1]
          /\ UNCHANGED <<req, ans>>
       \/ /\ Leave(t, IF req[t].op = "get" /\ t \notin Async THEN Untranslated ELSE Error)
          /\ UNCHANGED resends
    /\ UNCHANGED <<hash, expiring, known, calls>>

\* A worker dies during a call and starts over.
Crash(t) ==
    /\ wire[t] # None
    /\ faults < MaxFaults
    /\ faults' = faults + 1
    /\ Abandon(t)
    /\ Leave(t, None)
    /\ known' = [known EXCEPT ![t] = None]
    /\ UNCHANGED <<hash, expiring, resends, calls>>

\* An abandoned command arrives after all.
ArriveLate(r) ==
    /\ late' = late (-) SetToBag({r})
    /\ Execute(r)
    /\ UNCHANGED <<wire, req, ans, known, resends, calls, faults>>

\* Redis drops a key whose expiry has passed.
Expire ==
    /\ expiring
    /\ hash' = NoHash
    /\ expiring' = FALSE
    /\ UNCHANGED <<wire, req, ans, known, late, resends, calls, faults>>

\* Every thread is through with its calls.
Terminating ==
    /\ \A t \in Threads : req[t] = None /\ calls[t] = MaxCalls[t]
    /\ UNCHANGED vars

Next ==
    \/ \E t \in Threads : Call(t) \/ Arrive(t) \/ Return(t) \/ Break(t) \/ Crash(t)
    \/ \E r \in BagToSet(late) : ArriveLate(r)
    \/ Expire
    \/ Terminating

Spec == Init /\ [][Next]_vars

-----------------------------------------------------------------------------
(***************************************************************************)
(* Properties.                                                             *)
(***************************************************************************)
\* The record that a hash stands for.
Record(h) ==
    IF ~Exists(h) THEN NoRow
    ELSE [state |-> h.state, result |-> Value(h.result), fp |-> None,
          token |-> Value(h.token),
          left |-> IF h.state = "committed" THEN None ELSE Value(h.lease)]

\* A call whose script has run will answer what the script returned.
HasRun ==
    [t \in Threads |->
       IF wire[t] \in {None, <<"sent">>} THEN None
       ELSE <<"did", AnswerTo(req[t], wire[t])>>]

Told == [t \in Threads |-> IF ans[t] = Untranslated THEN Error ELSE ans[t]]

\* The adapter implements the Store contract of a networked store whose
\* committed records may expire: whatever is lost, sent twice or arrives
\* late, every script that runs is one whole operation, every answer is what
\* the record was when the script ran, and nothing but a committed record is
\* ever dropped.
Contract == INSTANCE LedgerStore
            WITH row <- Record(hash), out <- HasRun, ans <- Told, Lossy <- TRUE,
                 stuck <- [t \in Threads |-> None],
                 Sharing <- [t \in Threads |-> {}],
                 Straying <- TRUE, Expiring <- CommittedTTL > 0

ImplementsStore == Contract!Spec

\* A record leaves the store only by a release that names its token or none,
\* or by expiry once its result had been stored: an in-flight claim never
\* lapses by itself, even if an earlier record of the key had an expiry.
ClaimsDoNotExpire ==
    [][Exists(hash) /\ ~Exists(hash') =>
         \/ hash.state = "committed" /\ expiring
         \/ \E r \in {req[t] : t \in Threads} \cup BagToSet(late) :
               /\ r # None /\ r.op = "release"
               /\ r.tok = None \/ r.tok = hash.token]_vars
=============================================================================
