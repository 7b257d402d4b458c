----------------------------- MODULE RedisProofs -----------------------------
(***************************************************************************)
(* Theorems about RedisStore, for any number of clients, calls, resends    *)
(* and broken connections: the types, that a claim in flight never expires,*)
(* and that the adapter implements the Store contract.                     *)
(***************************************************************************)
EXTENDS RedisStore, TLAPS

-----------------------------------------------------------------------------
(***************************************************************************)
(* The invariants.                                                         *)
(***************************************************************************)
\* The hash is all there or not at all, a claim in flight has its token, its
\* lease and no result, and only a committed record has an expiry.
Whole(h) ==
    /\ ~Exists(h) => h = NoHash
    /\ h.state = "in_flight" => h.result = Nil /\ h.token # Nil /\ h.lease # Nil

HashInv ==
    /\ Whole(hash)
    /\ expiring => hash.state = "committed" /\ CommittedTTL > 0

\* A command has the arguments of its script, wherever it is on its way.
Complete(r) ==
    /\ r.op = "claim" => r.tok \in Tokens
    /\ r.op = "commit" => r.res \in Threads

CommandInv ==
    /\ \A t \in Threads : req[t] # None => Complete(req[t])
    /\ \A r \in BagToSet(late) : Complete(r)

\* A call has a command or a reply on its connection, the reply to that command.
KindOfReply(r) ==
    CASE r.op = "claim" -> "claim"
      [] r.op = "get" -> "hash"
      [] OTHER -> "int"

WireInv ==
    \A t \in Threads :
       /\ wire[t] = None <=> req[t] = None
       /\ wire[t] \notin {None, <<"sent">>} => wire[t][1] = KindOfReply(req[t])

Inv == TypeOK /\ HashInv /\ CommandInv /\ WireInv

-----------------------------------------------------------------------------
(***************************************************************************)
(* Bags of requests.                                                       *)
(***************************************************************************)
\* Adding a request to a bag of requests makes a bag of requests,
LEMMA AddToBag ==
    ASSUME NEW B, IsABag(B), NEW r
    PROVE  IsABag(B (+) SetToBag({r})) /\ BagToSet(B (+) SetToBag({r})) = BagToSet(B) \cup {r}
BY DEF IsABag, BagToSet, SetToBag, (+)

\* and so does taking one away.
LEMMA TakeFromBag ==
    ASSUME NEW B, IsABag(B), NEW r
    PROVE  IsABag(B (-) SetToBag({r})) /\ BagToSet(B (-) SetToBag({r})) \subseteq BagToSet(B)
BY DEF IsABag, BagToSet, SetToBag, (-)

-----------------------------------------------------------------------------
(***************************************************************************)
(* The hash and the scripts.                                               *)
(***************************************************************************)
\* No field is a field that is not there, and what is there is decoded as it is.
LEMMA Decoding ==
    /\ Value(Nil) = None /\ Value(Blank) = None /\ Value(None) = None
    /\ \A v \in Threads \cup Tokens \cup {1, 2} : Value(v) = v /\ v # None
    /\ \A v : Value(OrBlank(v)) = Value(v)
    /\ Nil \notin {"in_flight", "committed", "fresh"}
BY EmptyValues, NoneAssumption, NoneIsNoneOfThese DEF Value, OrBlank, States

\* The commit script, field by field.
LEMMA CommittedHash ==
    ASSUME NEW r, NEW h \in Hashes
    PROVE  Committed(r, h) =
              IF h.state = "committed" THEN h
              ELSE [state |-> "committed", result |-> r.res, token |-> h.token, lease |-> h.lease]
<1> DEFINE g == [h EXCEPT !.state = "committed"]
<1>1. g = [state |-> "committed", result |-> h.result, token |-> h.token, lease |-> h.lease]
  BY DEF Hashes
<1> HIDE DEF g
<1>2. [g EXCEPT !.result = r.res] =
         [state |-> "committed", result |-> r.res, token |-> h.token, lease |-> h.lease]
  BY <1>1
<1> QED
  BY <1>2, Zenon DEF Committed, g

\* A script makes a hash of a hash, keeps it whole, and gives no expiry to what
\* is not committed.
LEMMA ScriptType ==
    ASSUME NEW r \in Requests, Complete(r), NEW h \in Hashes, Whole(h)
    PROVE  /\ Script(r, h) \in Hashes /\ Whole(Script(r, h))
           /\ h.state = "committed" \/ SetsExpiry(r, h) => Script(r, h).state = "committed"
<1> USE DEF Whole
<1>0. /\ r.op \in {"claim", "commit", "release", "heartbeat", "get"}
      /\ r.tok \in Tokens \cup {None} /\ r.res \in Threads \cup {None}
      /\ Nil \notin {"in_flight", "committed"} /\ Nil \notin Threads \cup Tokens \cup {1, 2}
  BY EmptyValues, Decoding DEF Requests, Ops
<1>1. NoHash \in Hashes /\ Whole(NoHash)
  BY <1>0 DEF NoHash, Hashes, Exists
<1>2. CASE r.op = "claim"
  BY <1>0, <1>1, <1>2 DEF Script, Claimed, Complete, Exists, Hashes, SetsExpiry
<1>3. CASE r.op = "commit"
  <2>1. Committed(r, h) =
           IF h.state = "committed" THEN h
           ELSE [state |-> "committed", result |-> r.res, token |-> h.token, lease |-> h.lease]
    BY CommittedHash
  <2>2. Script(r, h) = Committed(r, h) /\ r.res \in Threads
    BY <1>3 DEF Script, Complete
  <2> QED
    BY <1>0, <1>1, <2>1, <2>2 DEF Exists, Hashes
<1>4. CASE r.op = "release"
  BY <1>0, <1>1, <1>4 DEF Script, Released, SetsExpiry, Exists, NoHash
<1>5. CASE r.op = "heartbeat"
  <2>1. [h EXCEPT !.lease = 2] =
           [state |-> h.state, result |-> h.result, token |-> h.token, lease |-> 2]
    BY DEF Hashes
  <2>2. Script(r, h) = IF Renews(r, h) THEN [h EXCEPT !.lease = 2] ELSE h
    BY <1>5 DEF Script
  <2> QED
    BY <1>0, <1>1, <1>5, <2>1, <2>2 DEF Renews, SetsExpiry, Exists, Hashes
<1>6. CASE r.op = "get"
  BY <1>1, <1>6 DEF Script, SetsExpiry
<1> QED
  BY <1>0, <1>2, <1>3, <1>4, <1>5, <1>6

\* A reply is a reply of the kind its command has, and not a command.
LEMMA ReplyType ==
    ASSUME NEW r \in Requests, Complete(r), NEW h \in Hashes
    PROVE  /\ Reply(r, h) \in Replies
           /\ Reply(r, h) \notin {None, <<"sent">>}
           /\ Reply(r, h)[1] = KindOfReply(r)
<1>0. /\ r.op \in {"claim", "commit", "release", "heartbeat", "get"}
      /\ r.op = "claim" => r.tok \in Tokens
      /\ h.state \in {"in_flight", "committed", Nil}
      /\ h.result \in Threads \cup {Nil} /\ h.token \in Tokens \cup {Nil}
  BY DEF Requests, Ops, Complete, Hashes
<1>1. /\ Exists(h) => h.state \in States
      /\ "fresh" \in States
      /\ OrBlank(h.result) \in Threads \cup {Blank}
      /\ OrBlank(h.token) \in Tokens \cup {Blank}
  BY <1>0 DEF Exists, States, OrBlank
<1>2. CASE r.op = "claim"
  <2>1. \/ Reply(r, h) = <<"claim", h.state, OrBlank(h.result), OrBlank(h.token)>> /\ Exists(h)
        \/ Reply(r, h) = <<"claim", "fresh", Blank, r.tok>>
    BY <1>2 DEF Reply
  <2>2. Reply(r, h) \in {"claim"} \X States \X (Threads \cup {Blank}) \X (Tokens \cup {Blank})
    BY <1>0, <1>1, <1>2, <2>1
  <2> QED
    BY <1>2, <2>1, <2>2, NoneIsNoneOfThese DEF Replies, KindOfReply
<1>3. CASE r.op = "get"
  <2>1. Reply(r, h) = <<"hash", h>>
    BY <1>3 DEF Reply
  <2> QED
    BY <1>3, <2>1, NoneIsNoneOfThese DEF Replies, KindOfReply
<1>4. CASE r.op \in {"commit", "release", "heartbeat"}
  <2>1. Reply(r, h) \in {<<"int", 0>>, <<"int", 1>>}
    BY <1>4 DEF Reply
  <2> QED
    BY <1>4, <2>1, NoneIsNoneOfThese DEF Replies, KindOfReply
<1> QED
  BY <1>0, <1>2, <1>3, <1>4

-----------------------------------------------------------------------------
(***************************************************************************)
(* Type correctness.                                                       *)
(***************************************************************************)
\* A call asks for something, and with all that its script needs.
LEMMA CallRequests ==
    ASSUME TypeOK, NEW t \in Threads, NEW op \in Ops, calls[t] < MaxCalls[t],
           op \in {"commit", "heartbeat"} => known[t] # None
    PROVE  /\ Request(t, op) \in Requests /\ Request(t, op) # None
           /\ Complete(Request(t, op))
<1>1. <<t, calls[t] + 1>> \in {t} \X (1 .. MaxCalls[t])
  BY BoundsAssumption DEF TypeOK
<1>2. <<t, calls[t] + 1>> \in Tokens
  BY <1>1, Zenon DEF Tokens
<1>3. Request(t, op) \in Requests
  BY <1>2 DEF Request, Requests, TypeOK, Ops
<1>4. Complete(Request(t, op))
  BY <1>2 DEF Request, Complete
<1> QED
  BY <1>3, <1>4, NoneIsNoneOfThese

\* A thread in a call has asked for something.
LEMMA RequestType ==
    ASSUME Inv, NEW t \in Threads, wire[t] # None
    PROVE  req[t] \in Requests /\ req[t] # None /\ Complete(req[t])
BY DEF Inv, TypeOK, WireInv, CommandInv

\* A reply as the method returns it is an answer, and no exception.
LEMMA AnswerType ==
    ASSUME NEW r \in Requests, NEW x \in Replies, x[1] = KindOfReply(r)
    PROVE  /\ AnswerTo(r, x) \in Answers \ {None, Error, Untranslated}
           /\ r.op = "claim" => Value(x[4]) \in Tokens \cup {None}
<1>0. /\ r.op \in {"claim", "commit", "release", "heartbeat", "get"}
      /\ Done[1] = "done" /\ Error[1] = "error" /\ Untranslated[1] = "untranslated"
      /\ \A a \in Answers : a # None
  BY NoneIsNoneOfThese DEF Requests, Ops, Done, Error, Untranslated
<1>1. \A v : (v \in Tokens \cup {Blank, Nil} => Value(v) \in Tokens \cup {None})
             /\ (v \in Threads \cup {Blank, Nil} => Value(v) \in Threads \cup {None})
  BY DEF Value
<1>2. CASE r.op = "claim"
  <2>1. x \in {"claim"} \X States \X (Threads \cup {Blank}) \X (Tokens \cup {Blank})
    BY <1>2 DEF KindOfReply, Replies
  <2>2. /\ x[2] \in States
        /\ Value(x[4]) \in Tokens \cup {None} /\ Value(x[3]) \in Threads \cup {None}
    BY <1>1, <2>1
  <2>3. AnswerTo(r, x) = <<"claim", x[2], Value(x[4]), Value(x[3])>>
    BY <1>2, <2>1 DEF AnswerTo, Decoded
  <2> QED
    BY <1>0, <2>2, <2>3 DEF Answers
<1>3. CASE r.op = "get"
  <2>1. x \in {"hash"} \X Hashes
    BY <1>3 DEF KindOfReply, Replies
  <2>2. PICK h \in Hashes : x[2] = h
    BY <2>1
  <2>3. /\ (IF Exists(h) THEN h.state ELSE "fresh") \in States
        /\ Value(h.token) \in Tokens \cup {None} /\ Value(h.result) \in Threads \cup {None}
    BY <1>1 DEF Hashes, Exists, States
  <2>4. AnswerTo(r, x) = <<"get", IF Exists(h) THEN h.state ELSE "fresh",
                           Value(h.token), Value(h.result)>>
    BY <1>3, <2>1, <2>2 DEF AnswerTo, Decoded
  <2> QED
    BY <1>0, <1>3, <2>3, <2>4 DEF Answers
<1>4. CASE r.op \in {"commit", "release", "heartbeat"}
  <2>1. AnswerTo(r, x) \in {Done, Renewed(TRUE), Renewed(FALSE)}
    BY <1>4 DEF AnswerTo, Renewed
  <2>2. /\ Done \in Answers /\ Renewed(TRUE) \in Answers /\ Renewed(FALSE) \in Answers
        /\ \A b \in BOOLEAN : Renewed(b)[1] = "heartbeat"
    BY DEF Answers, Renewed
  <2>3. Error[1] \notin {"done", "heartbeat"} /\ Untranslated[1] \notin {"done", "heartbeat"}
    BY <1>0
  <2> QED
    BY <1>0, <1>4, <2>1, <2>2, <2>3
<1> QED
  BY <1>0, <1>2, <1>3, <1>4

\* A script that the server runs leaves a whole hash, and an expiry only on a
\* committed record.
LEMMA ExecuteType ==
    ASSUME TypeOK, HashInv, NEW r \in Requests, Complete(r), Execute(r)
    PROVE  hash' \in Hashes /\ expiring' \in BOOLEAN /\ HashInv'
<1>1. hash' = Script(r, hash) /\ expiring' = (Exists(hash') /\ (expiring \/ SetsExpiry(r, hash)))
  BY DEF Execute
<1>2. /\ Script(r, hash) \in Hashes /\ Whole(Script(r, hash))
      /\ hash.state = "committed" \/ SetsExpiry(r, hash) => Script(r, hash).state = "committed"
  BY ScriptType DEF TypeOK, HashInv
<1>3. SetsExpiry(r, hash) => CommittedTTL > 0
  BY DEF SetsExpiry
<1>4. expiring' => hash'.state = "committed" /\ CommittedTTL > 0
  BY <1>1, <1>2, <1>3 DEF HashInv
<1>5. Whole(hash)'
  BY <1>1, <1>2 DEF Whole, Exists, NoHash
<1> QED
  BY <1>1, <1>2, <1>4, <1>5 DEF HashInv

\* A command that is given up is among the late ones, or lost.
LEMMA AbandonType ==
    ASSUME Inv, NEW t \in Threads, wire[t] # None, Abandon(t)
    PROVE  /\ IsABag(late') /\ BagToSet(late') \subseteq Requests
           /\ \A r \in BagToSet(late') : Complete(r)
<1>1. CASE late' = late
  BY <1>1 DEF Inv, TypeOK, CommandInv
<1>2. CASE late' = late (+) SetToBag({req[t]})
  <2>1. IsABag(late') /\ BagToSet(late') = BagToSet(late) \cup {req[t]}
    BY <1>2, AddToBag DEF Inv, TypeOK
  <2> QED
    BY <2>1, RequestType DEF Inv, TypeOK, CommandInv
<1> QED
  BY <1>1, <1>2 DEF Abandon

\* What the initial states hold.
LEMMA InitInv == Init => Inv
<1> SUFFICES ASSUME Init PROVE Inv
  OBVIOUS
<1>1. IsABag(EmptyBag) /\ BagToSet(EmptyBag) = {}
  BY DEF IsABag, BagToSet, EmptyBag, SetToBag
<1>2. HashInv /\ CommandInv /\ WireInv
  BY <1>1, Decoding DEF Init, HashInv, Whole, CommandInv, WireInv, NoHash, Exists
<1>3. IsABag(late) /\ BagToSet(late) \subseteq Requests /\ hash \in Hashes
  BY <1>1 DEF Init, NoHash, Hashes
<1>4. /\ resends \in [Threads -> 0 .. MaxResends] /\ faults \in 0 .. MaxFaults
      /\ calls \in [Threads -> Nat] /\ \A t \in Threads : calls[t] <= MaxCalls[t]
  BY BoundsAssumption DEF Init
<1>5. TypeOK
  BY <1>3, <1>4 DEF Init, TypeOK
<1> QED
  BY <1>2, <1>5 DEF Inv

\* Every step keeps the types.
LEMMA NextType == Inv /\ [Next]_vars => TypeOK'
<1> SUFFICES ASSUME Inv, [Next]_vars PROVE TypeOK'
  OBVIOUS
<1> USE DEF TypeOK
<1>0. TypeOK /\ HashInv /\ <<"sent">> \in {None, <<"sent">>} \cup Replies
  BY DEF Inv
<1>1. ASSUME NEW t \in Threads, Call(t) PROVE TypeOK'
  <2>1. PICK op \in Ops : /\ op \in {"commit", "heartbeat"} => known[t] # None
                          /\ req' = [req EXCEPT ![t] = Request(t, op)]
    BY <1>1 DEF Call
  <2>2. Request(t, op) \in Requests /\ MaxCalls[t] \in Nat
    BY <1>0, <1>1, <2>1, CallRequests, BoundsAssumption DEF Call
  <2>3. req' \in [Threads -> Requests \cup {None}]
    BY <1>0, <2>1, <2>2
  <2>4. calls' \in [Threads -> Nat] /\ \A u \in Threads : calls'[u] <= MaxCalls[u]
    BY <1>0, <1>1, <2>2 DEF Call
  <2>5. resends' \in [Threads -> 0 .. MaxResends]
    BY <1>0, <1>1, BoundsAssumption DEF Call
  <2> QED
    BY <1>0, <1>1, <2>3, <2>4, <2>5 DEF Call
<1>2. ASSUME NEW t \in Threads, Arrive(t) PROVE TypeOK'
  <2>1. req[t] \in Requests /\ Complete(req[t])
    BY <1>2, RequestType, NoneIsNoneOfThese DEF Arrive
  <2>2. hash' \in Hashes /\ expiring' \in BOOLEAN
    BY <1>0, <1>2, <2>1, ExecuteType DEF Arrive
  <2>3. Reply(req[t], hash) \in Replies
    BY <1>0, <2>1, ReplyType
  <2> QED
    BY <1>0, <1>2, <2>2, <2>3 DEF Arrive
<1>3. ASSUME NEW t \in Threads, NEW a \in Answers \cup {None}, Leave(t, a)
      PROVE  /\ wire' \in [Threads -> {None, <<"sent">>} \cup Replies]
             /\ req' \in [Threads -> Requests \cup {None}]
             /\ ans' \in [Threads -> Answers \cup {None}]
  BY <1>0, <1>3 DEF Leave
<1>4. ASSUME NEW t \in Threads, Return(t) PROVE TypeOK'
  <2>1. /\ req[t] \in Requests /\ wire[t] \in Replies
        /\ wire[t][1] = KindOfReply(req[t])
    BY <1>0, <1>4, RequestType DEF Return, Inv, WireInv
  <2>2. /\ AnswerTo(req[t], wire[t]) \in Answers
        /\ req[t].op = "claim" => Value(wire[t][4]) \in Tokens \cup {None}
    BY <2>1, AnswerType
  <2>3. known' \in [Threads -> Tokens \cup {None}]
    BY <1>0, <1>4, <2>2 DEF Return
  <2> QED
    BY <1>0, <1>3, <1>4, <2>2, <2>3 DEF Return
<1>5. ASSUME NEW t \in Threads, Break(t) PROVE TypeOK'
  <2>1. IsABag(late') /\ BagToSet(late') \subseteq Requests
    BY <1>5, AbandonType DEF Break
  <2>2. faults' \in 0 .. MaxFaults
    BY <1>0, <1>5, BoundsAssumption DEF Break
  <2>3. CASE /\ resends[t] < MaxResends /\ wire' = [wire EXCEPT ![t] = <<"sent">>]
             /\ resends' = [resends EXCEPT ![t] = @ + 1] /\ UNCHANGED <<req, ans>>
    <3>1. resends' \in [Threads -> 0 .. MaxResends]
      BY <1>0, <2>3, BoundsAssumption
    <3> QED
      BY <1>0, <1>5, <2>1, <2>2, <2>3, <3>1 DEF Break
  <2>4. CASE \E a \in {Error, Untranslated} : Leave(t, a) /\ UNCHANGED resends
    <3>1. Error \in Answers /\ Untranslated \in Answers
      BY DEF Answers
    <3> QED
      BY <1>0, <1>3, <1>5, <2>1, <2>2, <2>4, <3>1 DEF Break
  <2> QED
    BY <1>5, <2>3, <2>4 DEF Break
<1>6. ASSUME NEW t \in Threads, Crash(t) PROVE TypeOK'
  <2>1. IsABag(late') /\ BagToSet(late') \subseteq Requests
    BY <1>6, AbandonType DEF Crash
  <2>2. faults' \in 0 .. MaxFaults
    BY <1>0, <1>6, BoundsAssumption DEF Crash
  <2> QED
    BY <1>0, <1>3, <1>6, <2>1, <2>2 DEF Crash
<1>7. ASSUME NEW r \in BagToSet(late), ArriveLate(r) PROVE TypeOK'
  <2>1. r \in Requests /\ Complete(r)
    BY <1>0 DEF Inv, CommandInv
  <2>2. hash' \in Hashes /\ expiring' \in BOOLEAN
    BY <1>0, <1>7, <2>1, ExecuteType DEF ArriveLate
  <2>3. IsABag(late') /\ BagToSet(late') \subseteq Requests
    BY <1>0, <1>7, TakeFromBag DEF ArriveLate
  <2> QED
    BY <1>0, <1>7, <2>2, <2>3 DEF ArriveLate
<1>8. CASE Expire
  <2>1. NoHash \in Hashes
    BY DEF NoHash, Hashes
  <2> QED
    BY <1>0, <1>8, <2>1 DEF Expire
<1>9. CASE UNCHANGED vars
  BY <1>0, <1>9 DEF vars
<1> QED
  BY <1>1, <1>2, <1>4, <1>5, <1>6, <1>7, <1>8, <1>9 DEF Next, Terminating

-----------------------------------------------------------------------------
(***************************************************************************)
(* The hash, the commands and the replies.                                 *)
(***************************************************************************)
\* Every step keeps the hash whole, and an expiry off a claim in flight.
LEMMA NextHash == Inv /\ [Next]_vars => HashInv'
<1> SUFFICES ASSUME Inv, [Next]_vars PROVE HashInv'
  OBVIOUS
<1>1. ASSUME NEW r \in Requests, Complete(r), Execute(r) PROVE HashInv'
  BY <1>1, ExecuteType DEF Inv
<1>2. ASSUME NEW t \in Threads, Arrive(t) PROVE HashInv'
  BY <1>1, <1>2, RequestType, NoneIsNoneOfThese DEF Arrive
<1>3. ASSUME NEW r \in BagToSet(late), ArriveLate(r) PROVE HashInv'
  BY <1>1, <1>3 DEF ArriveLate, Inv, TypeOK, CommandInv
<1>4. CASE Expire
  BY <1>4, Decoding DEF Expire, HashInv, Whole, Exists, NoHash
<1>5. CASE UNCHANGED <<hash, expiring>>
  BY <1>5 DEF Inv, HashInv, Whole, Exists
<1> QED
  BY <1>2, <1>3, <1>4, <1>5 DEF Next, Call, Return, Break, Crash, Terminating, vars

\* Every command that is sent, resent or given up is complete.
LEMMA NextCommand == Inv /\ [Next]_vars => CommandInv'
<1> SUFFICES ASSUME Inv, [Next]_vars PROVE CommandInv'
  OBVIOUS
<1> USE DEF Inv, CommandInv
<1>p. req \in [Threads -> Requests \cup {None}]
  BY DEF TypeOK
<1>1. ASSUME NEW t \in Threads, Call(t) PROVE CommandInv'
  <2>1. PICK op \in Ops : /\ op \in {"commit", "heartbeat"} => known[t] # None
                          /\ req' = [req EXCEPT ![t] = Request(t, op)]
    BY <1>1 DEF Call
  <2>2. Complete(Request(t, op))
    BY <1>1, <2>1, CallRequests DEF Call
  <2> QED
    BY <1>1, <1>p, <2>1, <2>2 DEF Call
<1>2. ASSUME NEW t \in Threads, wire[t] # None, Abandon(t),
             UNCHANGED req \/ \E a : Leave(t, a)
      PROVE  CommandInv'
  <2>1. \A r \in BagToSet(late') : Complete(r)
    BY <1>2, AbandonType
  <2>2. \A u \in Threads : req'[u] # None => req'[u] = req[u]
    BY <1>2, <1>p DEF Leave
  <2> QED
    BY <2>1, <2>2
<1>3. ASSUME NEW t \in Threads, Break(t) \/ Crash(t) PROVE CommandInv'
  BY <1>2, <1>3 DEF Break, Crash
<1>4. ASSUME NEW t \in Threads, Return(t) PROVE CommandInv'
  BY <1>4, <1>p DEF Return, Leave
<1>5. ASSUME NEW r \in BagToSet(late), ArriveLate(r) PROVE CommandInv'
  <2>1. BagToSet(late') \subseteq BagToSet(late)
    BY <1>5, TakeFromBag DEF ArriveLate, TypeOK
  <2> QED
    BY <1>5, <2>1 DEF ArriveLate
<1>6. CASE UNCHANGED <<req, late>>
  BY <1>6
<1> QED
  BY <1>1, <1>3, <1>4, <1>5, <1>6 DEF Next, Arrive, Expire, Terminating, vars

\* Every step leaves a call with its command or the reply to it.
LEMMA NextWire == Inv /\ [Next]_vars => WireInv'
<1> SUFFICES ASSUME Inv, [Next]_vars PROVE WireInv'
  OBVIOUS
<1> USE DEF Inv, WireInv
<1>p. /\ req \in [Threads -> Requests \cup {None}]
      /\ wire \in [Threads -> {None, <<"sent">>} \cup Replies]
      /\ <<"sent">> # None
  BY NoneIsNoneOfThese DEF TypeOK
<1>1. ASSUME NEW t \in Threads, Call(t) PROVE WireInv'
  <2>1. PICK op \in Ops : /\ op \in {"commit", "heartbeat"} => known[t] # None
                          /\ req' = [req EXCEPT ![t] = Request(t, op)]
    BY <1>1 DEF Call
  <2>2. Request(t, op) # None
    BY <1>1, <2>1, CallRequests DEF Call
  <2> QED
    BY <1>1, <1>p, <2>1, <2>2 DEF Call
<1>2. ASSUME NEW t \in Threads, Arrive(t) PROVE WireInv'
  <2>1. req[t] \in Requests /\ req[t] # None /\ Complete(req[t])
    BY <1>2, <1>p, RequestType DEF Arrive
  <2>2. /\ Reply(req[t], hash) # None
        /\ Reply(req[t], hash)[1] = KindOfReply(req[t])
    BY <2>1, ReplyType DEF TypeOK
  <2> QED
    BY <1>2, <1>p, <2>1, <2>2 DEF Arrive
<1>3. ASSUME NEW t \in Threads, NEW a, Leave(t, a) PROVE WireInv'
  BY <1>3, <1>p DEF Leave
<1>4. ASSUME NEW t \in Threads, Break(t) PROVE WireInv'
  <2>1. CASE wire' = [wire EXCEPT ![t] = <<"sent">>] /\ UNCHANGED req
    BY <1>4, <1>p, <2>1 DEF Break
  <2> QED
    BY <1>3, <1>4, <2>1 DEF Break
<1>5. ASSUME NEW t \in Threads, Return(t) \/ Crash(t) PROVE WireInv'
  BY <1>3, <1>5 DEF Return, Crash
<1>6. CASE UNCHANGED <<req, wire>>
  BY <1>6
<1> QED
  BY <1>1, <1>2, <1>4, <1>5, <1>6 DEF Next, ArriveLate, Expire, Terminating, vars

-----------------------------------------------------------------------------
(***************************************************************************)
(* A script is an operation of the contract.                               *)
(***************************************************************************)
\* What a whole hash stands for, field by field.
LEMMA RecordFields ==
    ASSUME NEW h \in Hashes, Whole(h)
    PROVE  /\ Record(h).state = IF Exists(h) THEN h.state ELSE "fresh"
           /\ Record(h).result = Value(h.result) /\ Record(h).token = Value(h.token)
           /\ Record(h).fp = None
           /\ h.state = "in_flight" =>
                 Record(h) = [state |-> "in_flight", result |-> None, fp |-> None,
                              token |-> h.token, left |-> h.lease]
           /\ h.state = "committed" =>
                 Record(h) = [state |-> "committed", result |-> Value(h.result),
                              fp |-> None, token |-> Value(h.token), left |-> None]
           /\ h.state = Nil => h = NoHash /\ Record(h) = NoRow
           /\ h.state \in {"in_flight", "committed", Nil}
<1>0. /\ h.state \in {"in_flight", "committed", Nil}
      /\ h.token \in Tokens \cup {Nil} /\ h.lease \in {1, 2, Nil}
  BY DEF Hashes
<1>1. CASE h.state = "in_flight"
  <2>1. /\ Value(h.result) = None /\ Value(h.token) = h.token /\ Value(h.lease) = h.lease
    BY <1>0, <1>1, Decoding DEF Whole
  <2> QED
    BY <1>1, <2>1, Decoding DEF Record, Exists
<1>2. CASE h.state = "committed"
  BY <1>2, Decoding DEF Record, Exists
<1>3. CASE h.state = Nil
  BY <1>3, Decoding DEF Record, Exists, Whole, NoHash, NoRow
<1> QED
  BY <1>0, <1>1, <1>2, <1>3

\* The heartbeat renews the lease of the caller's claim, and of nothing else.
LEMMA RenewsIsOwns ==
    ASSUME NEW r \in Requests, NEW h \in Hashes, Whole(h)
    PROVE  Renews(r, h) = Owns(Record(h), r.tok)
<1>1. CASE h.state = "in_flight"
  <2>1. Record(h).state = "in_flight" /\ Record(h).token = h.token /\ h.token # Nil
    BY <1>1, RecordFields DEF Whole
  <2> QED
    BY <1>1, <2>1 DEF Renews, HoldsToken, Owns
<1>2. CASE h.state # "in_flight"
  <2>1. Record(h).state # "in_flight"
    BY <1>2, RecordFields
  <2> QED
    BY <1>2, <2>1 DEF Renews, Owns
<1> QED
  BY <1>1, <1>2

\* What the script does to the hash, the operation does to the record.
LEMMA ScriptApplies ==
    ASSUME NEW r \in Requests, Complete(r), NEW h \in Hashes, Whole(h)
    PROVE  Record(Script(r, h)) = Apply(r, Record(h))
<1>0. /\ r.op \in {"claim", "commit", "release", "heartbeat", "get"}
      /\ r.tok \in Tokens \cup {None} /\ r.res \in Threads \cup {None}
      /\ Script(r, h) \in Hashes /\ Whole(Script(r, h))
  BY ScriptType DEF Requests, Ops
<1>d. Nil \notin {"in_flight", "committed", "fresh"} /\ None \notin Threads \cup Tokens
  BY Decoding, NoneIsNoneOfThese
<1>1. CASE r.op = "claim"
  <2>1. CASE Exists(h)
    <3>1. Script(r, h) = h /\ Record(h).state # "fresh"
      BY <1>1, <1>d, <2>1, RecordFields DEF Script, Claimed, Exists
    <3> QED
      BY <1>1, <3>1 DEF Apply, ClaimRow
  <2>2. CASE ~Exists(h)
    <3>1. Script(r, h) = [state |-> "in_flight", result |-> Nil, token |-> r.tok, lease |-> 1]
      BY <1>1, <2>2 DEF Script, Claimed
    <3>2. Record(Script(r, h)) = [state |-> "in_flight", result |-> None, fp |-> None,
                                  token |-> r.tok, left |-> 1]
      BY <1>0, <3>1, RecordFields
    <3>3. Record(h).state = "fresh"
      BY <2>2, RecordFields
    <3> QED
      BY <1>1, <3>2, <3>3 DEF Apply, ClaimRow
  <2> QED
    BY <2>1, <2>2
<1>2. CASE r.op = "commit"
  <2>1. CASE h.state = "committed"
    <3>1. Script(r, h) = h /\ Record(h).state = "committed"
      BY <1>2, <2>1, RecordFields DEF Script, Committed
    <3> QED
      BY <1>2, <3>1 DEF Apply, CommitRow
  <2>2. CASE h.state # "committed"
    <3>1. Script(r, h) = [state |-> "committed", result |-> r.res, token |-> h.token,
                          lease |-> h.lease]
      BY <1>2, <2>2, CommittedHash DEF Script
    <3>2. Value(r.res) = r.res
      BY <1>2, Decoding DEF Complete
    <3>3. Record(Script(r, h)) = [state |-> "committed", result |-> r.res, fp |-> None,
                                  token |-> Value(h.token), left |-> None]
      BY <1>0, <3>1, <3>2, RecordFields
    <3>4. Record(h).state # "committed" /\ Record(h).fp = None /\ Record(h).token = Value(h.token)
      BY <2>2, RecordFields
    <3> QED
      BY <1>2, <3>3, <3>4 DEF Apply, CommitRow
  <2> QED
    BY <2>1, <2>2
<1>3. CASE r.op = "release"
  <2>1. CASE h.state = "in_flight"
    <3>1. /\ Record(h).state = "in_flight" /\ Record(h).token = h.token
          /\ h.token # Nil
      BY <2>1, RecordFields DEF Whole
    <3>2. CASE r.tok = None \/ h.token = r.tok
      <4>1. Script(r, h) = NoHash
        BY <1>3, <2>1, <3>1, <3>2 DEF Script, Released, HoldsToken
      <4>2. Record(NoHash) = NoRow
        BY DEF Record, Exists, NoHash
      <4>3. Apply(r, Record(h)) = NoRow
        BY <1>3, <3>1, <3>2 DEF Apply, ReleaseRow
      <4> QED
        BY <4>1, <4>2, <4>3
    <3>3. CASE ~(r.tok = None \/ h.token = r.tok)
      <4>1. Script(r, h) = h
        BY <1>3, <3>3 DEF Script, Released, HoldsToken
      <4> QED
        BY <1>3, <3>1, <3>3, <4>1 DEF Apply, ReleaseRow
    <3> QED
      BY <3>2, <3>3
  <2>2. CASE h.state # "in_flight"
    <3>1. Script(r, h) = h /\ Record(h).state # "in_flight"
      BY <1>3, <2>2, RecordFields DEF Script, Released
    <3> QED
      BY <1>3, <3>1 DEF Apply, ReleaseRow
  <2> QED
    BY <2>1, <2>2
<1>4. CASE r.op = "heartbeat"
  <2>1. Renews(r, h) = Owns(Record(h), r.tok)
    BY RenewsIsOwns
  <2>2. CASE Renews(r, h)
    <3>1. Script(r, h) = [state |-> h.state, result |-> h.result, token |-> h.token,
                          lease |-> 2]
      BY <1>4, <2>2 DEF Script, Hashes
    <3>2. h.state = "in_flight"
      BY <2>2 DEF Renews
    <3>3. /\ Record(Script(r, h)) = [state |-> "in_flight", result |-> None, fp |-> None,
                                     token |-> h.token, left |-> 2]
          /\ Record(h) = [state |-> "in_flight", result |-> None, fp |-> None,
                          token |-> h.token, left |-> h.lease]
      BY <1>0, <3>1, <3>2, RecordFields
    <3> QED
      BY <1>4, <2>1, <2>2, <3>3 DEF Apply, BeatRow
  <2>3. CASE ~Renews(r, h)
    BY <1>4, <2>1, <2>3 DEF Script, Apply, BeatRow
  <2> QED
    BY <2>2, <2>3
<1>5. CASE r.op = "get"
  BY <1>5 DEF Script, Apply
<1> QED
  BY <1>0, <1>1, <1>2, <1>3, <1>4, <1>5

\* What the script returned, decoded, is the answer of the operation.
LEMMA ReplyAnswers ==
    ASSUME NEW r \in Requests, Complete(r), NEW h \in Hashes, Whole(h)
    PROVE  AnswerTo(r, Reply(r, h)) = Answer(r, Record(h))
<1>0. r.op \in {"claim", "commit", "release", "heartbeat", "get"}
  BY DEF Requests, Ops
<1>d. Nil \notin {"in_flight", "committed", "fresh"}
  BY Decoding
<1>1. CASE r.op = "claim" /\ Exists(h)
  <2>1. Reply(r, h) = <<"claim", h.state, OrBlank(h.result), OrBlank(h.token)>>
    BY <1>1 DEF Reply
  <2>2. AnswerTo(r, Reply(r, h)) = <<"claim", h.state, Value(h.token), Value(h.result)>>
    BY <1>1, <2>1, Decoding DEF AnswerTo, Decoded
  <2>3. Record(h).state = h.state /\ h.state # "fresh"
    BY <1>1, <1>d, RecordFields
  <2> QED
    BY <1>1, <2>2, <2>3, RecordFields DEF Answer, Existing
<1>2. CASE r.op = "claim" /\ ~Exists(h)
  <2>1. Reply(r, h) = <<"claim", "fresh", Blank, r.tok>> /\ Value(r.tok) = r.tok
    BY <1>2, Decoding DEF Reply, Complete
  <2>2. AnswerTo(r, Reply(r, h)) = <<"claim", "fresh", r.tok, None>>
    BY <1>2, <2>1, Decoding DEF AnswerTo, Decoded
  <2>3. Record(h).state = "fresh"
    BY <1>2, RecordFields
  <2> QED
    BY <1>2, <2>2, <2>3 DEF Answer, Fresh
<1>3. CASE r.op = "get"
  <2>1. AnswerTo(r, Reply(r, h)) = <<"get", IF Exists(h) THEN h.state ELSE "fresh",
                                     Value(h.token), Value(h.result)>>
    BY <1>3 DEF Reply, AnswerTo, Decoded
  <2>2. Answer(r, Record(h)) = <<"get", Record(h).state, Record(h).token, Record(h).result>>
    BY <1>3 DEF Answer, Read
  <2> QED
    BY <2>1, <2>2, RecordFields
<1>4. CASE r.op = "heartbeat"
  <2>1. Renews(r, h) = Owns(Record(h), r.tok) /\ Renews(r, h) \in BOOLEAN
    BY RenewsIsOwns DEF Renews
  <2>2. AnswerTo(r, Reply(r, h)) = Renewed(Renews(r, h))
    BY <1>4, <2>1 DEF Reply, AnswerTo
  <2>3. Answer(r, Record(h)) = Renewed(Owns(Record(h), r.tok))
    BY <1>4 DEF Answer
  <2> QED
    BY <2>1, <2>2, <2>3
<1>5. CASE r.op \in {"commit", "release"}
  BY <1>5 DEF AnswerTo, Answer
<1> QED
  BY <1>0, <1>1, <1>2, <1>3, <1>4, <1>5

-----------------------------------------------------------------------------
(***************************************************************************)
(* The steps as the contract sees them.                                    *)
(***************************************************************************)
\* The contract means the same record, operations and answers.
LEMMA SameOperations ==
    /\ Contract!NoRow = NoRow /\ Contract!Error = Error
    /\ Contract!EmptyBag = EmptyBag
    /\ \A r, rec : /\ Contract!Apply(r, rec) = Apply(r, rec)
                  /\ Contract!Answer(r, rec) = Answer(r, rec)
<1>1. /\ Contract!NoRow = NoRow /\ Contract!Error = Error
      /\ Contract!EmptyBag = EmptyBag
  BY DEF Contract!NoRow, NoRow, Contract!Error, Error,
         Contract!EmptyBag, EmptyBag, Contract!SetToBag, SetToBag
<1>2. \A r, rec : Contract!Apply(r, rec) = Apply(r, rec)
  BY DEF Contract!Apply, Apply, Contract!ClaimRow, ClaimRow, Contract!CommitRow,
         CommitRow, Contract!ReleaseRow, ReleaseRow, Contract!BeatRow, BeatRow,
         Contract!Owns, Owns, Contract!NoRow, NoRow
<1>3. \A r, rec : Contract!Answer(r, rec) = Answer(r, rec)
  BY DEF Contract!Answer, Answer, Contract!Fresh, Fresh, Contract!Existing, Existing,
         Contract!Read, Read, Contract!Renewed, Renewed, Contract!Owns, Owns,
         Contract!Done, Done
<1> QED
  BY <1>1, <1>2, <1>3

\* ... and the same bags.
LEMMA SameBags ==
    /\ \A B, r : B (+) SetToBag({r}) = Contract!(+)(B, Contract!SetToBag({r}))
    /\ \A B, r : B (-) SetToBag({r}) = Contract!(-)(B, Contract!SetToBag({r}))
BY DEF (+), (-), SetToBag, Contract!(+), Contract!(-), Contract!SetToBag

\* A call that has its reply has taken place; one that waits for it has not.
LEMMA Running ==
    ASSUME Inv, NEW t \in Threads
    PROVE  /\ wire[t] \in {None, <<"sent">>} => HasRun[t] = None /\ ~Contract!HasTakenPlace(t)
           /\ wire[t] \notin {None, <<"sent">>} =>
                 /\ wire[t] \in Replies
                 /\ AnswerTo(req[t], wire[t]) \in Answers \ {None, Error, Untranslated}
                 /\ HasRun[t] = <<"did", AnswerTo(req[t], wire[t])>>
                 /\ HasRun[t] # None /\ Contract!HasTakenPlace(t)
<1>1. CASE wire[t] \in {None, <<"sent">>}
  BY <1>1 DEF HasRun, Contract!HasTakenPlace
<1>2. CASE wire[t] \notin {None, <<"sent">>}
  <2>1. wire[t] \in Replies /\ wire[t][1] = KindOfReply(req[t]) /\ req[t] \in Requests
    BY <1>2, RequestType DEF Inv, TypeOK, WireInv
  <2>2. AnswerTo(req[t], wire[t]) \in Answers \ {None, Error, Untranslated}
    BY <2>1, AnswerType
  <2>3. HasRun[t] = <<"did", AnswerTo(req[t], wire[t])>>
    BY <1>2 DEF HasRun
  <2>4. HasRun[t] \in {"did"} \X Answers
    BY <2>2, <2>3
  <2>5. HasRun[t] # None
    BY <2>4, NoneIsNoneOfThese
  <2> QED
    BY <1>2, <2>1, <2>2, <2>3, <2>5 DEF Contract!HasTakenPlace
<1> QED
  BY <1>1, <1>2

\* What t has run changes with t's command or reply, and only with that.
LEMMA RunsOf ==
    ASSUME TypeOK, NEW t \in Threads, NEW w,
           wire' = [wire EXCEPT ![t] = w],
           \A u \in Threads \ {t} : req'[u] = req[u]
    PROVE  HasRun' = [HasRun EXCEPT ![t] =
                        IF w \in {None, <<"sent">>} THEN None
                        ELSE <<"did", AnswerTo(req'[t], w)>>]
<1>1. wire'[t] = w /\ \A u \in Threads \ {t} : wire'[u] = wire[u]
  BY DEF TypeOK
<1> DEFINE a == IF w \in {None, <<"sent">>} THEN None
                ELSE <<"did", AnswerTo(req'[t], w)>>
<1>2. HasRun'[t] = a
  BY <1>1 DEF HasRun
<1>3. \A u \in Threads \ {t} : HasRun'[u] = HasRun[u]
  BY <1>1 DEF HasRun
<1>4. HasRun \in [Threads -> {HasRun[u] : u \in Threads}] /\ DOMAIN HasRun = Threads
  BY DEF HasRun
<1>5. HasRun' = [u \in Threads |-> HasRun'[u]]
  BY DEF HasRun
<1> HIDE DEF a
<1>6. HasRun' = [HasRun EXCEPT ![t] = a]
  BY <1>2, <1>3, <1>4, <1>5
<1> QED
  BY <1>6 DEF a

\* A call that is left has answered what the caller is told.
LEMMA LeaveAnswers ==
    ASSUME Inv, NEW t \in Threads, wire[t] # None, NEW a, a # None, Leave(t, a)
    PROVE  Contract!Answered(t, IF a = Untranslated THEN Error ELSE a)
<1>1. req[t] # None
  BY RequestType
<1>2. HasRun' = [HasRun EXCEPT ![t] = None]
  BY RunsOf DEF Leave, Inv, TypeOK
<1>3. Told' = [Told EXCEPT ![t] = IF a = Untranslated THEN Error ELSE a]
  BY DEF Told, Leave, Inv, TypeOK
<1> QED
  BY <1>1, <1>2, <1>3 DEF Contract!Answered, Leave

\* A command that is given up is given up.
LEMMA AbandonGivesUp ==
    ASSUME NEW t, Abandon(t)
    PROVE  Contract!GivesUp(t)
BY SameBags DEF Abandon, Contract!GivesUp

\* A call makes a request.
LEMMA CallIsCall ==
    ASSUME Inv, NEW t \in Threads, Call(t)
    PROVE  req'[t] # None /\ Contract!Call(t, req'[t])
<1>1. PICK op \in Ops : /\ op \in {"commit", "heartbeat"} => known[t] # None
                        /\ req' = [req EXCEPT ![t] = Request(t, op)]
  BY DEF Call
<1>2. Request(t, op) # None /\ req'[t] = Request(t, op) /\ req[t] = None
  BY <1>1, CallRequests DEF Call, Inv, TypeOK
<1>3. HasRun[t] = None /\ HasRun \in [Threads -> {HasRun[u] : u \in Threads}]
  BY <1>2, Running DEF Inv, WireInv, HasRun
<1>4. HasRun' = [HasRun EXCEPT ![t] = None]
  BY <1>1, RunsOf DEF Call, Inv, TypeOK
<1>5. Told' = [Told EXCEPT ![t] = None]
  BY NoneIsNoneOfThese DEF Told, Call, Inv, TypeOK, Answers
<1> QED
  BY <1>1, <1>2, <1>3, <1>4, <1>5 DEF Contract!Call, Call

\* The script runs: the operation takes place.
LEMMA ArriveHappens ==
    ASSUME Inv, NEW t \in Threads, Arrive(t)
    PROVE  Contract!Happens(t)
<1>1. wire[t] = <<"sent">> /\ wire[t] # None
  BY NoneIsNoneOfThese DEF Arrive
<1>2. req[t] \in Requests /\ req[t] # None /\ Complete(req[t])
  BY <1>1, RequestType
<1>3. hash \in Hashes /\ Whole(hash)
  BY DEF Inv, TypeOK, HashInv
<1>4. Record(hash)' = Apply(req[t], Record(hash))
  <2>1. Record(hash)' = Record(Script(req[t], hash))
    BY Zenon DEF Arrive, Execute, Record, Exists, NoRow, Value
  <2> QED
    BY <1>2, <1>3, <2>1, ScriptApplies
<1>5. AnswerTo(req[t], Reply(req[t], hash)) = Answer(req[t], Record(hash))
  BY <1>2, <1>3, ReplyAnswers
<1>6. HasRun' = [HasRun EXCEPT ![t] = <<"did", Answer(req[t], Record(hash))>>]
  BY <1>2, <1>3, <1>5, RunsOf, ReplyType DEF Arrive, Inv
<1>7. Told' = Told
  BY DEF Told, Arrive
<1> QED
  BY <1>1, <1>2, <1>4, <1>6, <1>7, Running, SameOperations DEF Contract!Happens, Contract!Did, Arrive

\* The reply arrives: the call returns.
LEMMA ReturnReturns ==
    ASSUME Inv, NEW t \in Threads, Return(t)
    PROVE  Contract!Returns(t)
<1> DEFINE a == AnswerTo(req[t], wire[t])
<1>1. /\ a \in Answers \ {None, Error, Untranslated} /\ HasRun[t] = <<"did", a>>
      /\ HasRun[t] # None /\ Contract!HasTakenPlace(t) /\ wire[t] # None
  BY Running DEF Return
<1>2. Leave(t, a) /\ hash' = hash /\ late' = late
  BY DEF Return
<1> HIDE DEF a
<1>3. Contract!Answered(t, a)
  BY <1>1, <1>2, LeaveAnswers
<1>4. Record(hash)' = Record(hash)
  BY <1>2, Zenon DEF Record, Exists, NoRow, Value
<1> QED
  BY <1>1, <1>2, <1>3, <1>4 DEF Contract!Returns

\* The connection breaks: the call fails, or sends its request once more.
LEMMA BreakImplements ==
    ASSUME Inv, NEW t \in Threads, Break(t)
    PROVE  Contract!Fails(t) \/ Contract!Resends(t)
<1>0. Record(hash)' = Record(hash)
  BY Zenon DEF Break, Record, Exists, NoRow, Value
<1>1. wire[t] # None /\ Contract!GivesUp(t)
  BY AbandonGivesUp DEF Break
<1>2. CASE wire' = [wire EXCEPT ![t] = <<"sent">>] /\ UNCHANGED <<req, ans>>
  <2>1. HasRun' = [HasRun EXCEPT ![t] = None]
    BY <1>2, RunsOf DEF Inv
  <2>2. Told' = Told /\ req[t] # None
    BY <1>1, <1>2, RequestType DEF Told
  <2> QED
    BY <1>0, <1>1, <1>2, <2>1, <2>2 DEF Contract!Resends
<1>3. CASE \E a \in {Error, Untranslated} : Leave(t, a)
  <2>1. Error # None /\ Untranslated # None
    BY NoneIsNoneOfThese DEF Answers
  <2>2. Contract!Answered(t, Error)
    BY <1>1, <1>3, <2>1, LeaveAnswers
  <2> QED
    BY <1>0, <1>1, <2>2, SameOperations DEF Contract!Fails, Contract!LeavesOpen
<1> QED
  BY <1>2, <1>3 DEF Break

\* A worker dies, with what it was about to answer.
LEMMA CrashIsDies ==
    ASSUME Inv, NEW t \in Threads, Crash(t)
    PROVE  Contract!Dies({t})
<1>0. Record(hash)' = Record(hash)
  BY Zenon DEF Crash, Record, Exists, NoRow, Value
<1>1. req[t] # None /\ Contract!GivesUp(t)
  BY AbandonGivesUp, RequestType DEF Crash
<1>2. HasRun' = [HasRun EXCEPT ![t] = None]
  BY RunsOf DEF Crash, Leave, Inv, TypeOK
<1>3. Told' = [Told EXCEPT ![t] = None]
  BY NoneIsNoneOfThese DEF Told, Crash, Leave, Inv, TypeOK, Answers
<1>4. HasRun' = [u \in Threads |-> IF u \in {t} THEN None ELSE HasRun[u]]
  BY <1>2 DEF HasRun
<1>5. Told' = [u \in Threads |-> IF u \in {t} THEN None ELSE Told[u]]
  BY <1>3 DEF Told
<1>6. req' = [u \in Threads |-> IF u \in {t} THEN None ELSE req[u]]
  BY DEF Crash, Leave, Inv, TypeOK
<1> QED
  BY <1>0, <1>1, <1>4, <1>5, <1>6 DEF Contract!Dies

\* A command that was given up arrives after all.
LEMMA ArriveLateStrays ==
    ASSUME Inv, NEW r \in BagToSet(late), ArriveLate(r)
    PROVE  r \in Contract!BagToSet(late) /\ Contract!Strays(r)
<1>1. r \in Requests /\ Complete(r) /\ hash \in Hashes /\ Whole(hash)
  BY DEF Inv, TypeOK, CommandInv, HashInv
<1>2. Record(hash)' = Apply(r, Record(hash))
  <2>1. Record(hash)' = Record(Script(r, hash))
    BY Zenon DEF ArriveLate, Execute, Record, Exists, NoRow, Value
  <2> QED
    BY <1>1, <2>1, ScriptApplies
<1>3. HasRun' = HasRun /\ Told' = Told
  BY DEF ArriveLate, HasRun, Told
<1>4. r \in Contract!BagToSet(late) /\ Contract!BagIn(r, late)
  BY DEF BagToSet, Contract!BagIn, Contract!BagToSet
<1> QED
  BY <1>2, <1>3, <1>4, SameBags, SameOperations DEF Contract!Strays, ArriveLate

\* Redis drops an expired key.
LEMMA ExpireExpires ==
    ASSUME Inv, Expire
    PROVE  Contract!Expires
<1>1. hash \in Hashes /\ Whole(hash) /\ hash.state = "committed" /\ CommittedTTL > 0
  BY DEF Expire, Inv, TypeOK, HashInv
<1>2. Record(hash).state = "committed"
  BY <1>1, RecordFields
<1>3. Record(hash)' = NoRow
  <2>1. Record(hash)' = Record(NoHash)
    BY Zenon DEF Expire, Record, Exists, NoRow, Value
  <2> QED
    BY <2>1 DEF Record, Exists, NoHash
<1>4. HasRun' = HasRun /\ Told' = Told
  BY DEF Expire, HasRun, Told
<1> QED
  BY <1>1, <1>2, <1>3, <1>4, SameOperations DEF Contract!Expires, Expire

\* Every step is a step of the contract, or one that the callers do not see.
LEMMA StepImplements ==
    ASSUME Inv, [Next]_vars
    PROVE  [Contract!Next]_(Contract!vars)
<1>1. ASSUME NEW t \in Threads,
             Call(t) \/ Arrive(t) \/ Return(t) \/ Break(t) \/ Crash(t)
      PROVE  Contract!Next
  BY <1>1, CallIsCall, ArriveHappens, ReturnReturns, BreakImplements, CrashIsDies
     DEF Contract!Next
<1>2. ASSUME NEW r \in BagToSet(late), ArriveLate(r) PROVE Contract!Next
  BY <1>2, ArriveLateStrays DEF Contract!Next
<1>3. CASE Expire
  BY <1>3, ExpireExpires DEF Contract!Next
<1>4. CASE UNCHANGED vars
  <2>1. Record(hash)' = Record(hash)
    BY <1>4, Zenon DEF vars, Record, Exists, NoRow, Value
  <2>2. HasRun' = HasRun /\ Told' = Told /\ req' = req /\ late' = late
    BY <1>4 DEF vars, HasRun, Told
  <2> QED
    BY <2>1, <2>2 DEF Contract!vars
<1> QED
  BY <1>1, <1>2, <1>3, <1>4 DEF Next, Terminating

-----------------------------------------------------------------------------
(***************************************************************************)
(* The theorems.                                                           *)
(***************************************************************************)
\* The inductive invariant holds.
LEMMA InvAlways == Spec => []Inv
<1>1. Inv /\ [Next]_vars => Inv'
  BY NextType, NextHash, NextCommand, NextWire DEF Inv
<1> QED
  BY <1>1, InitInv, PTL DEF Spec

\* Whatever is lost, resent or late, the hash, the replies and the answers are
\* what the adapter can decode.
THEOREM TypeCorrect == Spec => []TypeOK
<1>1. Inv => TypeOK
  BY DEF Inv
<1> QED
  BY <1>1, InvAlways, PTL

\* The expiry that committed_ttl sets never drops a claim in flight: a record
\* leaves the store committed, or by a release that may delete it.
THEOREM OnlyResultsExpire == Spec => ClaimsDoNotExpire
<1> DEFINE Justified ==
        Exists(hash) /\ ~Exists(hash') =>
           \/ hash.state = "committed" /\ expiring
           \/ \E r \in {req[t] : t \in Threads} \cup BagToSet(late) :
                 /\ r # None /\ r.op = "release"
                 /\ r.tok = None \/ r.tok = hash.token
<1>1. ASSUME Inv, [Next]_vars PROVE [Justified]_vars
  <2>1. ASSUME NEW r \in Requests, Complete(r), Execute(r), Exists(hash), ~Exists(hash')
        PROVE  r # None /\ r.op = "release" /\ (r.tok = None \/ r.tok = hash.token)
    <3>1. r # None /\ r.op \in {"claim", "commit", "release", "heartbeat", "get"}
      BY NoneIsNoneOfThese DEF Requests, Ops
    <3>2. hash \in Hashes /\ Whole(hash) /\ hash' = Script(r, hash)
      BY <1>1, <2>1 DEF Inv, TypeOK, HashInv, Execute
    <3>3. r.op = "release"
      <4>1. hash'.state # Nil \/ r.op = "release"
        BY <2>1, <3>1, <3>2, CommittedHash, Decoding
           DEF Script, Claimed, Exists, Hashes
      <4> QED
        BY <2>1, <4>1 DEF Exists
    <3>4. hash' = Released(r, hash)
      BY <3>2, <3>3 DEF Script
    <3> QED
      BY <2>1, <3>1, <3>3, <3>4 DEF Released, HoldsToken
  <2>2. ASSUME NEW t \in Threads, Arrive(t) PROVE Justified
    BY <2>1, <2>2, RequestType, NoneIsNoneOfThese, <1>1 DEF Arrive
  <2>3. ASSUME NEW r \in BagToSet(late), ArriveLate(r) PROVE Justified
    BY <2>1, <2>3, <1>1 DEF ArriveLate, Inv, TypeOK, CommandInv
  <2>4. CASE Expire
    BY <1>1, <2>4 DEF Expire, Inv, HashInv
  <2>5. CASE hash' = hash
    BY <2>5
  <2> QED
    BY <1>1, <2>2, <2>3, <2>4, <2>5
       DEF Next, Call, Return, Break, Crash, Terminating, vars
<1>2. Inv /\ [Next]_vars => [Justified]_vars
  BY <1>1
<1> QED
  BY <1>2, InvAlways, PTL DEF Spec, ClaimsDoNotExpire

\* The scripts of the Redis adapter implement the contract of a networked
\* store: every script that runs, in time or late, is one whole operation.
THEOREM StoreImplemented == Spec => ImplementsStore
<1>1. Init => Contract!Init
  <2> SUFFICES ASSUME Init PROVE Contract!Init
    OBVIOUS
  <2>1. Record(hash) = NoRow
    BY DEF Init, Record, Exists, NoHash
  <2>2. HasRun = [t \in Threads |-> None]
    BY DEF Init, HasRun
  <2>3. Told = [t \in Threads |-> None]
    BY NoneIsNoneOfThese DEF Init, Told, Answers
  <2> QED
    BY <2>1, <2>2, <2>3, SameOperations DEF Init, Contract!Init
<1>2. Inv /\ [Next]_vars => [Contract!Next]_(Contract!vars)
  BY StepImplements
<1> QED
  BY <1>1, <1>2, InvAlways, PTL DEF Spec, ImplementsStore, Contract!Spec

\* A result that was stored stays until it expires, which it does only when
\* committed_ttl is set: no resent command, and no command that arrives after
\* its caller gave it up, overwrites or deletes it.
THEOREM ResultKept ==
    Spec => [][hash.state = "committed" =>
                  hash' = hash \/ (CommittedTTL > 0 /\ hash' = NoHash)]_vars
<1> DEFINE Kept == hash.state = "committed" =>
                      hash' = hash \/ (CommittedTTL > 0 /\ hash' = NoHash)
<1>1. ASSUME Inv, [Next]_vars PROVE Kept
  <2>1. ASSUME NEW r \in Requests, Execute(r) PROVE Kept
    <3>1. r.op \in {"claim", "commit", "release", "heartbeat", "get"}
      BY DEF Requests, Ops
    <3>2. hash' = Script(r, hash)
      BY <2>1 DEF Execute
    <3>3. hash.state = "committed" => Exists(hash) /\ ~Renews(r, hash)
      BY Decoding DEF Exists, Renews
    <3> QED
      BY <3>1, <3>2, <3>3 DEF Script, Claimed, Committed, Released
  <2>2. ASSUME NEW t \in Threads, Arrive(t) PROVE Kept
    BY <2>1, <2>2, RequestType, NoneIsNoneOfThese, <1>1 DEF Arrive
  <2>3. ASSUME NEW r \in BagToSet(late), ArriveLate(r) PROVE Kept
    BY <2>1, <2>3, <1>1 DEF ArriveLate, Inv, TypeOK
  <2>4. CASE Expire
    BY <1>1, <2>4 DEF Expire, Inv, HashInv
  <2>5. CASE hash' = hash
    BY <2>5
  <2> QED
    BY <1>1, <2>2, <2>3, <2>4, <2>5
       DEF Next, Call, Return, Break, Crash, Terminating, vars
<1>2. Inv /\ [Next]_vars => [Kept]_vars
  BY <1>1
<1> QED
  BY <1>2, InvAlways, PTL DEF Spec
=============================================================================
