---------------------------- MODULE LedgerStore ----------------------------
(***************************************************************************)
(* The Store contract (src/src/exactly_once/stores/base.py): while a call  *)
(* is under way, the operation takes place at one instant on the record    *)
(* as it then is, and the call answers what the record was at that         *)
(* instant; or it fails.  Of a store over a network the answer may be lost *)
(* when the operation took place; otherwise what fails did not.  A client  *)
(* that gives a request up, or sends it again, cannot take it back.  Where *)
(* a failed call leaves its transaction open, those on its connection read *)
(* what is not the record.  One key.                                       *)
(***************************************************************************)
EXTENDS StoreCall

CONSTANTS
    Threads,    \* the threads that call the store, of all processes
    Sharing,    \* Sharing[t]: those on whose connection t may leave a transaction open
    Lossy,      \* whether the answer to a call may be lost
    Straying,   \* whether a request may take place after its call is over
    Expiring    \* whether a committed record may expire

VARIABLES
    row,    \* the record
    req,    \* req[t]: the call of t that is under way, or None
    out,    \* out[t]: what t's call found or did already, if it is to answer it
    ans,    \* ans[t]: the answer to t's last call, or None
    late,   \* the requests given up that may still take place, a bag
    stuck   \* stuck[t]: the record in a transaction left open on t's connection, or None

vars == <<row, req, out, ans, late, stuck>>

Init ==
    /\ row = NoRow
    /\ req = [t \in Threads |-> None]
    /\ out = [t \in Threads |-> None]
    /\ ans = [t \in Threads |-> None]
    /\ late = EmptyBag
    /\ stuck = [t \in Threads |-> None]

\* The operation took place and the call will answer a.
Did(a) == <<"did", a>>

HasTakenPlace(t) == out[t] # None /\ out[t][1] = "did"

Call(t, r) ==
    /\ req[t] = None
    /\ req' = [req EXCEPT ![t] = r]
    /\ ans' = [ans EXCEPT ![t] = None]
    /\ UNCHANGED <<row, out, late, stuck>>

Answered(t, a) ==
    /\ req[t] # None
    /\ ans' = [ans EXCEPT ![t] = a]
    /\ req' = [req EXCEPT ![t] = None]
    /\ out' = [out EXCEPT ![t] = None]

TakesPlace(t) ==
    /\ ~HasTakenPlace(t)
    /\ Answered(t, Answer(req[t], row))
    /\ row' = Apply(req[t], row)
    /\ UNCHANGED <<late, stuck>>

\* Of a store over a network the answer takes its time.
Happens(t) ==
    /\ Lossy /\ req[t] # None /\ ~HasTakenPlace(t)
    /\ row' = Apply(req[t], row)
    /\ out' = [out EXCEPT ![t] = Did(Answer(req[t], row))]
    /\ UNCHANGED <<req, ans, late, stuck>>

\* A call that would change nothing may read the record now and answer
\* later, and may drop what it read in order to start over.
Looks(t) ==
    /\ req[t] # None /\ ~HasTakenPlace(t) /\ Apply(req[t], row) = row
    /\ out' = [out EXCEPT ![t] = Answer(req[t], row)]
    /\ UNCHANGED <<row, req, ans, late, stuck>>

Drops(t) ==
    /\ ~HasTakenPlace(t)
    /\ out' = [out EXCEPT ![t] = None]
    /\ UNCHANGED <<row, req, ans, late, stuck>>

Returns(t) ==
    /\ out[t] # None
    /\ Answered(t, IF HasTakenPlace(t) THEN out[t][2] ELSE out[t])
    /\ UNCHANGED <<row, late, stuck>>

\* A get on a connection with such a transaction answers what that sees.
Peeks(t) ==
    /\ stuck[t] # None /\ req[t] # None /\ req[t].op = "get"
    /\ Answered(t, Read(stuck[t]))
    /\ UNCHANGED <<row, late, stuck>>

\* A request that is given up was lost, or may still take place.
GivesUp(t) == late' = late \/ (Straying /\ late' = late (+) SetToBag({req[t]}))

\* A call that fails may leave its transaction open, before or after what the
\* operation does in it, or close the one that it found open.
LeavesOpen(t) ==
    \/ UNCHANGED stuck
    \/ \E rec \in {None, row, Apply(req[t], row)} :
          stuck' = [u \in Threads |-> IF u \in Sharing[t] THEN rec ELSE stuck[u]]

Fails(t) ==
    /\ Answered(t, Error)
    /\ LeavesOpen(t)
    /\ \/ UNCHANGED row /\ GivesUp(t)
       \/ Lossy /\ ~HasTakenPlace(t) /\ row' = Apply(req[t], row) /\ UNCHANGED late

\* The request is sent once more; the first may have taken place.
Resends(t) ==
    /\ Straying /\ req[t] # None
    /\ GivesUp(t)
    /\ out' = [out EXCEPT ![t] = None]
    /\ UNCHANGED <<row, req, ans, stuck>>

Strays(r) ==
    /\ BagIn(r, late)
    /\ late' = late (-) SetToBag({r})
    /\ row' \in {row, Apply(r, row)}
    /\ UNCHANGED <<req, out, ans, stuck>>

Expires ==
    /\ Expiring /\ row.state = "committed"
    /\ row' = NoRow
    /\ UNCHANGED <<req, out, ans, late, stuck>>

\* The threads of a process die, and their connections; the record stays.
Dies(T) ==
    /\ req' = [t \in Threads |-> IF t \in T THEN None ELSE req[t]]
    /\ out' = [t \in Threads |-> IF t \in T THEN None ELSE out[t]]
    /\ ans' = [t \in Threads |-> IF t \in T THEN None ELSE ans[t]]
    /\ stuck' = [t \in Threads |-> IF t \in T THEN None ELSE stuck[t]]
    /\ late' = late \/ \E t \in T : req[t] # None /\ GivesUp(t)
    /\ UNCHANGED row

Next ==
    \/ \E t \in Threads : \/ req'[t] # None /\ Call(t, req'[t])
                          \/ TakesPlace(t) \/ Happens(t) \/ Looks(t) \/ Drops(t)
                          \/ Returns(t) \/ Peeks(t) \/ Fails(t) \/ Resends(t)
    \/ \E r \in BagToSet(late) : Strays(r)
    \/ \E T \in SUBSET Threads : Dies(T)
    \/ Expires

Spec == Init /\ [][Next]_vars
=============================================================================
