----------------------------- MODULE GuardStack -----------------------------
(***************************************************************************)
(* How a once(...) object tells its blocks apart                           *)
(* (src/src/exactly_once/core.py): the guards of `with' blocks are pushed  *)
(* on a ContextVar, of which every thread and asyncio task has a value of  *)
(* its own, and __exit__ pops the last one; a decorated call holds its     *)
(* guard in a local and sets _current_key while its effect runs.           *)
(***************************************************************************)
EXTENDS GuardBlock, SequencesExt

CONSTANTS
    Contexts,   \* the threads and the asyncio tasks
    Main,       \* the one that runs from the start
    Calls,      \* the blocks that are decorated calls
    Scoped      \* TRUE: a block is left by the context that entered it, the
                \* last entered first; FALSE: a block suspended in a generator
                \* is left at any time, by any context

ASSUME ContextsAssumption == Main \in Contexts /\ Calls \subseteq Blocks

VARIABLES
    live,       \* the contexts that have started
    cm_stack,   \* cm_stack[x]: once._cm_stack in x
    current,    \* current[x]: _current_key in x
    token,      \* token[b]: what the reset of a call restores in _current_key
    body,       \* body[x]: the blocks and calls x is in, the innermost last
    inherited   \* inherited[x]: the key of the call x was spawned in

vars == <<blockVars, live, cm_stack, current, token, body, inherited>>

Init ==
    /\ BlockInit
    /\ live = {Main}
    /\ cm_stack = [x \in Contexts |-> <<>>]
    /\ current = [x \in Contexts |-> None]
    /\ token = [b \in Blocks |-> None]
    /\ body = [x \in Contexts |-> <<>>]
    /\ inherited = [x \in Contexts |-> None]

-----------------------------------------------------------------------------
\* Wrong variants, which only the mutation runs put in place of the right ones.

\* Only a guard there will be something to commit for is pushed.
PushesFresh(stack, b) == IF guard'[b] = "fresh" THEN Append(stack, b) ELSE stack

\* The store is down and the claim, None, is pushed for want of a guard.
PushesTheClaim(stack, b) ==
    Append(stack, IF guard'[b] = "unguarded" THEN None ELSE b)

\* __exit__ takes the guard that was pushed first.
Outermost(x) == IF cm_stack[x] = <<>> THEN None ELSE Head(cm_stack[x])

\* A call that is over clears _current_key.
Clears(b) == None

-----------------------------------------------------------------------------
\* A fresh call runs its effect under its own key; nothing runs in the body of
\* a call that replays.
Guarded(b) == b \in Calls /\ guard[b] = "fresh"

Runs(x) ==
    /\ x \in live
    /\ body[x] # <<>> => ~(Last(body[x]) \in Calls /\ guard[Last(body[x])] = "settled")

\* The key of the innermost guarded call that x runs in.
OwnKey(x) ==
    LET calls == {i \in DOMAIN body[x] : Guarded(body[x][i])}
    IN  IF calls = {} THEN inherited[x] ELSE Key[body[x][Max(calls)]]

\* x starts y: an asyncio task begins with a copy of x's ContextVars, a thread
\* with none.
Spawn(x, y) ==
    /\ Runs(x) /\ y \notin live
    /\ live' = live \cup {y}
    /\ \/ /\ cm_stack' = [cm_stack EXCEPT ![y] = cm_stack[x]]
          /\ current' = [current EXCEPT ![y] = current[x]]
          /\ inherited' = [inherited EXCEPT ![y] = OwnKey(x)]
       \/ UNCHANGED <<cm_stack, current, inherited>>
    /\ UNCHANGED <<blockVars, token, body>>

Pushed(stack, b) == Append(stack, b)

Begins(x, b) ==
    /\ Runs(x) /\ Enter(b)
    /\ body' = IF phase'[b] = "open" THEN [body EXCEPT ![x] = Append(@, b)] ELSE body
    /\ UNCHANGED <<live, inherited>>

\* __enter__: every guard is pushed, the ones with nothing to commit too; an
\* __enter__ that raises pushes none.
EnterWith(x, b) ==
    /\ b \notin Calls /\ Begins(x, b)
    /\ cm_stack' = IF phase'[b] = "open"
                   THEN [cm_stack EXCEPT ![x] = Pushed(@, b)] ELSE cm_stack
    /\ UNCHANGED <<current, token>>

\* _run and _execute_and_commit up to the effect.
EnterCall(x, b) ==
    /\ b \in Calls /\ Begins(x, b)
    /\ IF guard'[b] = "fresh"
       THEN /\ current' = [current EXCEPT ![x] = Key[b]]
            /\ token' = [token EXCEPT ![b] = current[x]]
       ELSE UNCHANGED <<current, token>>
    /\ UNCHANGED cm_stack

\* What a block or an effect that x is in the body of does.
Body(x) ==
    /\ body[x] # <<>> /\ Runs(x) /\ Assign(Last(body[x]))
    /\ UNCHANGED <<live, cm_stack, current, token, body, inherited>>

\* _pop_guard
Popped(x) == IF cm_stack[x] = <<>> THEN None ELSE Last(cm_stack[x])

\* __exit__ in x of the i-th block that z is in.
ExitWith(x, z, i) ==
    /\ x \in live /\ body[z][i] \notin Calls
    /\ Scoped => z = x /\ i = Len(body[x])
    /\ Resolve(body[z][i], Popped(x))
    /\ cm_stack' = [cm_stack EXCEPT ![x] = IF @ = <<>> THEN @ ELSE Front(@)]
    /\ body' = [body EXCEPT ![z] = RemoveAt(@, i)]
    /\ UNCHANGED <<live, current, token, inherited>>

Restored(b) == token[b]

\* The effect of a decorated call returns or raises: _current_key is reset, the
\* heartbeat stopped and what a fresh call returned is committed.
ExitCall(x) ==
    /\ body[x] # <<>>
    /\ LET b == Last(body[x]) IN
       /\ b \in Calls
       /\ Resolve(b, b)
       /\ ledger' # ledger => result[b] = b
       /\ current' = IF Guarded(b) THEN [current EXCEPT ![x] = Restored(b)] ELSE current
    /\ body' = [body EXCEPT ![x] = Front(@)]
    /\ UNCHANGED <<live, cm_stack, token, inherited>>

Next ==
    \E x \in Contexts :
        \/ Body(x) \/ ExitCall(x)
        \/ \E y \in Contexts : Spawn(x, y)
        \/ \E b \in Blocks : EnterWith(x, b) \/ EnterCall(x, b)
        \/ \E z \in Contexts : \E i \in DOMAIN body[z] : ExitWith(x, z, i)

Spec == Init /\ [][Next]_vars

-----------------------------------------------------------------------------
\* The type invariant: only guards of blocks are on a stack (_cm_stack), only
\* keys of calls in _current_key.
TypeOK ==
    /\ BlockTypeOK
    /\ live \subseteq Contexts
    /\ cm_stack \in [Contexts -> Seq(Blocks)]
    /\ current \in [Contexts -> Keys \cup {None}]
    /\ token \in [Blocks -> Keys \cup {None}]
    /\ body \in [Contexts -> Seq(Blocks)]
    /\ inherited \in [Contexts -> Keys \cup {None}]

\* Of blocks nested in one context, of a task spawned inside a block and of
\* threads, all on one once(...) object, each is resolved with its own guard: no
\* __exit__ commits the result, or the key, of another block (core.py:120-123).
ImplementsBlocks == BlockSpec

\* current_key() in an effect is the key of the guarded call it belongs to, in
\* nested calls, after them, and in the tasks they spawn (core.py:47-56).
CurrentKeyIsOwn == \A x \in live : current[x] = OwnKey(x)

\* "The key of the guarded effect currently running" (core.py:56): in a block or an
\* effect that a fresh guard is for, current_key() is that guard's key, if it is
\* one, and not the key of an effect around it.
CurrentKeyIsRunning ==
    \A x \in live : body[x] # <<>> /\ guard[Last(body[x])] = "fresh" =>
        current[x] \in {Key[Last(body[x])], None}

\* A heartbeat stops when the block it renews the lease of is left, so that the
\* lease of an effect that raised lapses (core.py:186).
HeartbeatEndsWithBlock ==
    \A b \in beating : \E x \in Contexts : b \in ToSet(body[x])
=============================================================================
