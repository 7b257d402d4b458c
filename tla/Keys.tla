-------------------------------- MODULE Keys --------------------------------
(***************************************************************************)
(* Under which key and fingerprint a call is looked up in the ledger, and  *)
(* what is stored for it: src/src/exactly_once/keys.py and codec.py, the   *)
(* forms of core.py that use them and the wrappers for LangGraph nodes and *)
(* CrewAI tools.  A text is the sequence of its parts between colons, a    *)
(* digest what is hashed: SHA-256 is taken as one-to-one.  A call is one   *)
(* step; what may happen within it is the business of Once.                *)
(***************************************************************************)
EXTENDS Integers, FiniteSets, SequencesExt

CONSTANTS
    Strings,    \* what a part of a text can be
    Calls,      \* the calls, each made once
    Of,         \* Of[c]: how the call c is written, a record with the fields
                \*   form        "call" (decorated), "with", "node", "tool" or
                \*               "tx" (onchain_once)
                \*   func        the function: id, module, qualname, lambda, line
                \*   args        the positional arguments, values as below
                \*   kwargs      the pairs of a name and a value, as written
                \*   given       "none", "text", "nothing" or "other": no key=, one
                \*               that is or returns a text, a callable that returns
                \*               None or another value that is no text
                \*   key         the text of key=, or what stands for that value
                \*   namespace   the text of namespace=, or <<>>
                \*   fingerprint {what fingerprint= selects}, or {}
                \*   thread      the thread_id of the node's run, or <<>>
                \*   tx          the transaction: chain, address and the case it
                \*               is written in, nonce, data and to, or <<>>
                \*   result      what the effect returns
    MaxCalls    \* bound: so many calls are made

\* How calls can be written.  The wrappers of nodes, tools and transactions take
\* no namespace and no fingerprint, and onchain_once no key.  A text has a part at
\* least, and an id is of one function; a tool, named by its instance, is not a
\* decorated function.
OfAssumption ==
    \A c \in Calls :
        /\ Of[c].form \in {"call", "with", "node", "tool", "tx"}
        /\ Of[c].given \in {"none", "text", "nothing", "other"}
        /\ Of[c].key \in Seq(Strings) /\ (Of[c].given = "text" => Of[c].key # <<>>)
        /\ Of[c].namespace \in Seq(Strings) /\ Of[c].thread \in Seq(Strings)
        /\ Of[c].func.qualname \in Strings
        /\ Of[c].form \in {"node", "tool", "tx"} => Of[c].namespace = <<>> /\ Of[c].fingerprint = {}
        /\ Of[c].form = "tx" =>
              /\ Of[c].given = "none"
              /\ Of[c].tx \in [chain : Strings, address : Strings, case : Strings,
                               nonce : Strings, data : Strings, to : Strings]
        /\ \A d \in Calls :
              /\ Of[c].func.id = Of[d].func.id => Of[c].func = Of[d].func
              /\ Of[c].form = "call" /\ Of[d].form = "tool" => Of[c].func.id # Of[d].func.id

ASSUME CallsAssumption == OfAssumption

\* The literals of the source are strings.
ASSUME StringsAssumption == {"auto", "effect", "tx"} \subseteq Strings

\* A Python value: "plain", "list", "tuple" or "dict", or an "object", which the
\* codec refuses (no JSON, or over max_bytes), with its str().
Value(is, of, str) == [is |-> is, of |-> of, str |-> str]

VARIABLES
    ledger,     \* what is stored, by key
    outcome     \* outcome[c]: how c ended, and for a replay whose result it got

vars == <<ledger, outcome>>

Init ==
    /\ ledger = <<>>
    /\ outcome = [c \in Calls |-> [how |-> "new", by |-> c]]

-----------------------------------------------------------------------------
\* Wrong variants, which only the mutation runs put in place of the right ones.

\* The keyword arguments are taken in the order they are written in.
OrderedArgs(c) ==
    << Of[c].args, [i \in DOMAIN Of[c].kwargs |-> Of[c].kwargs[i][2].of] >>

\* All lambdas of a module derive one key.
Nowhere(func) == 0

\* What the key callable of a decorated call returns is not looked at.
Unchecked(c) == {[text |-> <<>>, digest |-> <<Of[c].key>>]}

-----------------------------------------------------------------------------
Opaque(v) == v.is = "object"

\* json.dumps: a tuple becomes a list.
Json(v) == [is |-> IF v.is = "tuple" THEN "list" ELSE v.is, of |-> v.of]

Arguments(c) == ToSet(Of[c].args) \cup {p[2] : p \in ToSet(Of[c].kwargs)}

\* Keyword arguments are sorted by name.
NormalizedArgs(c) ==
    << [i \in DOMAIN Of[c].args |-> Json(Of[c].args[i])],
       {<<p[1], Json(p[2])>> : p \in ToSet(Of[c].kwargs)} >>

\* Only lambdas are told apart by where they stand.
Location(func) == IF func.lambda THEN func.line ELSE 0

Derived(func, args) ==
    [text |-> <<"auto", func.qualname>>,
     digest |-> <<func.module, func.qualname, Location(func), args>>]

\* The key, or none where UnstableKeyError is raised.
DerivedKey(c) ==
    IF \E v \in Arguments(c) : Opaque(v) THEN {}
    ELSE {Derived(Of[c].func, NormalizedArgs(c))}

Static(text) == {[text |-> text, digest |-> <<>>]}

\* A key callable that returns no text: TypeError.
NoText(c) == {}

GivenKey(c) == IF Of[c].given = "text" THEN Static(Of[c].key) ELSE NoText(c)

Prefixed(c, keys) == {[k EXCEPT !.text = Of[c].namespace \o @] : k \in keys}

ResolvedKey(c) ==
    Prefixed(c, IF Of[c].given = "none" THEN DerivedKey(c) ELSE GivenKey(c))

\* A `with' block must be given a key.
BlockKey(c) == IF Of[c].given = "none" THEN {} ELSE ResolvedKey(c)

\* The wrappers do not look at what a key callable returns, they pass it to once as
\* key=.  With None, once derives a key from the closure `effect', which is the
\* same for every call.
EffectKey(form) ==
    {Derived([module |-> form, qualname |-> "effect", lambda |-> FALSE], <<>>)}

\* Any other value is taken for a static key, as it is: a key that is no text.
RawKey(c) == {[text |-> <<>>, digest |-> <<Of[c].key>>]}

\* A node's key: thread_id and node name, or ValueError without a thread.
NodeKey(c) ==
    CASE Of[c].given = "text" -> Static(Of[c].key)
      [] Of[c].given = "nothing" -> EffectKey("langgraph")
      [] Of[c].given = "other" -> RawKey(c)
      [] Of[c].given = "none" /\ Of[c].thread = <<>> -> {}
      [] OTHER -> Static(Of[c].thread \o <<Of[c].func.qualname>>)

\* A tool's key: its name and a hash of the arguments, for which an object
\* stands with its str().
Str(v) == IF Opaque(v) THEN [is |-> "plain", of |-> v.str] ELSE Json(v)

ToolKey(c) ==
    CASE Of[c].given = "text" -> Static(Of[c].key)
      [] Of[c].given = "nothing" -> EffectKey("crewai")
      [] Of[c].given = "other" -> RawKey(c)
      [] OTHER -> {[text |-> <<Of[c].func.qualname>>,
                    digest |-> <<[i \in DOMAIN Of[c].args |-> Str(Of[c].args[i])],
                                 {<<p[1], Str(p[2])>> : p \in ToSet(Of[c].kwargs)}>>]}

\* onchain_key: the address in lower case, and a hash of the calldata.
TxKey(c) ==
    LET tx == Of[c].tx
    IN  {[text |-> <<"tx", tx.chain, tx.address, tx.nonce>>, digest |-> <<tx.data>>]}

KeyOf(c) ==
    CASE Of[c].form = "call" -> ResolvedKey(c)
      [] Of[c].form = "with" -> BlockKey(c)
      [] Of[c].form = "node" -> NodeKey(c)
      [] Of[c].form = "tool" -> ToolKey(c)
      [] Of[c].form = "tx" -> TxKey(c)

Fingerprint(c) == {Json(v) : v \in Of[c].fingerprint}

Keyed == [c \in Calls |-> KeyOf(c)]

\* Without a key, or with a fingerprint that cannot be encoded, nothing is claimed.
Resolves(c) == Keyed[c] # {} /\ \A v \in Of[c].fingerprint : ~Opaque(v)

-----------------------------------------------------------------------------
MayBeMade(c) ==
    /\ outcome[c].how = "new"
    /\ Cardinality({d \in Calls : outcome[d].how # "new"}) < MaxCalls

Ends(c, how, by) == outcome' = [outcome EXCEPT ![c] = [how |-> how, by |-> by]]

Raises(c) ==
    /\ MayBeMade(c) /\ ~Resolves(c)
    /\ Ends(c, "raised", c)
    /\ UNCHANGED ledger

Claims(c, k, state) ==
    ledger' = [l \in DOMAIN ledger \cup {k} |->
                IF l = k THEN [state |-> state, fp |-> Fingerprint(c), by |-> c]
                         ELSE ledger[l]]

\* The first call of a key runs its effect.  An effect that raises, and a result
\* the codec refuses, leave the key in flight.
Runs(c) ==
    /\ MayBeMade(c) /\ Resolves(c)
    /\ \E k \in Keyed[c] \ DOMAIN ledger :
           \/ ~Opaque(Of[c].result) /\ Claims(c, k, "committed") /\ Ends(c, "ran", c)
           \/ Claims(c, k, "in_flight") /\ Ends(c, "failed", c)

\* _check_fingerprint: two fingerprints that differ.
Clash(c, record) ==
    /\ Of[c].fingerprint # {} /\ record.fp # {}
    /\ Fingerprint(c) # record.fp

\* A later call gets what is stored; KeyReuseError; QuarantinedError.
Finds(c) ==
    /\ MayBeMade(c) /\ Resolves(c)
    /\ \E k \in Keyed[c] \cap DOMAIN ledger :
          IF Clash(c, ledger[k]) \/ ledger[k].state = "in_flight"
          THEN Ends(c, "refused", c)
          ELSE Ends(c, "replayed", ledger[k].by)
    /\ UNCHANGED ledger

Next == \E c \in Calls : Raises(c) \/ Runs(c) \/ Finds(c)

Spec == Init /\ [][Next]_vars

-----------------------------------------------------------------------------
\* What identifies the effect that the caller of c asks for: its namespace and the
\* key it gives, or else the function and what the arguments are, the node and its
\* thread, or the transaction, whichever function builds it.
Identity == [c \in Calls |->
    LET given == Of[c].given = "text"  tx == Of[c].form = "tx"  node == Of[c].form = "node"
    IN  [namespace |-> Of[c].namespace,
         key |-> IF given THEN Of[c].key ELSE <<>>,
         func |-> IF given \/ tx THEN {} ELSE {Of[c].func.id},
         tx |-> IF tx THEN [Of[c].tx EXCEPT !.case = "any"] ELSE <<>>,
         thread |-> IF node /\ ~given THEN Of[c].thread ELSE <<>>,
         args |-> IF given \/ node \/ tx THEN <<>>
                  ELSE << [i \in DOMAIN Of[c].args |-> Json(Of[c].args[i])],
                          {<<p[1], Json(p[2])>> : p \in ToSet(Of[c].kwargs)} >>]]

Entered == {c \in Calls : outcome[c].how \in {"ran", "failed"}}

\* The key callable of the node or tool c returned a value that is neither a text
\* nor None.
Raw(c) == Of[c].form \in {"node", "tool"} /\ Of[c].given = "other"

\* The type invariant: whatever a key callable returns, every key in the ledger is a
\* text (keys.py:51-55), but the values that the callables of nodes and tools return
\* unchecked (langgraph.py:89, crewai.py:77).
TypeOK ==
    /\ \A k \in DOMAIN ledger :
          /\ k.text \in Seq(Strings)
          /\ k.text = <<>> => \E c \in Calls : Raw(c) /\ k \in RawKey(c)
          /\ ledger[k].state \in {"in_flight", "committed"} /\ ledger[k].by \in Calls
    /\ outcome \in [Calls -> [how : {"new", "raised", "ran", "failed", "replayed", "refused"},
                              by : Calls]]

\* Of the calls that ask for one effect, in whatever order their keyword
\* arguments are written, one runs it; a call for which no stable key can be
\* derived does not run, rather than run under a key of its own (keys.py:44-46);
\* an effect whose result cannot be stored is not run again (codec.py:8-12).
NoSecondEffect == \A c, d \in Entered : Identity[c] = Identity[d] => c = d

\* A call never gets the result of another effect or of another payload: not of
\* another lambda, another namespace, another thread or another fingerprint
\* (keys.py:73-75, 114-116; langgraph.py:4-6).
NoForeignResult ==
    \A c \in Calls : outcome[c].how = "replayed" =>
        LET d == outcome[c].by IN
        /\ Identity[c] = Identity[d]
        /\ Of[c].fingerprint = {} \/ Of[d].fingerprint = {} \/ Fingerprint(c) = Fingerprint(d)

\* Every key in the ledger is a text: "key callable must return str" (keys.py:53-55),
\* of whatever form the call is (langgraph.py:60-62, crewai.py:50-51).
KeysAreTexts == \A k \in DOMAIN ledger : k.text # <<>>

-----------------------------------------------------------------------------
(***************************************************************************)
(* What has to be true of the calls, beyond the way they can be written,   *)
(* for keys to be right.  Where one of these fails, so does the property;  *)
(* the code cannot see to them.                                            *)
(***************************************************************************)
\* The key callable of a node or a tool returns a text.
TextKeys ==
    \A c \in Calls : Of[c].form \in {"node", "tool"} => Of[c].given \in {"none", "text"}

ToolArgs == UNION {Arguments(c) : c \in {d \in Calls : Of[d].form = "tool"}}

\* An object given to a tool has the same str() wherever it is given again.
StableStr == \A v, w \in ToolArgs : Opaque(v) /\ Json(v) = Json(w) => v.str = w.str

\* What a tool is given has the str() of nothing else it is given.
StrTells == \A v, w \in ToolArgs : Str(v) = Str(w) => Json(v) = Json(w)

WrittenText(c) == Of[c].namespace \o Of[c].key

NodeText(c) == Of[c].thread \o <<Of[c].func.qualname>>

GivesText(c) == Of[c].given = "text"

\* No two ways to cut a text into namespace and key are in use, and no text
\* is that of a thread and a node.
TextsApart ==
    \A c, d \in Calls : GivesText(c) =>
        /\ GivesText(d) /\ WrittenText(c) = WrittenText(d)
              => Len(Of[c].namespace) = Len(Of[d].namespace)
        /\ Of[d].form = "node" /\ ~GivesText(d) => WrittenText(c) # NodeText(d)

\* Functions that derive their keys are told apart by module and name, lambdas by
\* their line too; nodes, and tools, by their names alone.
NamesTell ==
    \A c, d \in Calls :
        LET f == Of[c].func  g == Of[d].func
        IN  /\ Of[c].form = Of[d].form /\ Of[c].form \in {"call", "node", "tool"}
            /\ Of[c].given = "none" /\ Of[d].given = "none"
            /\ f.qualname = g.qualname
            /\ Of[c].form = "call" =>
                  f.module = g.module /\ (f.lambda /\ g.lambda => f.line = g.line)
            => f.id = g.id

\* Transactions of an account with one nonce and one calldata have one receiver.
TxTell ==
    \A c, d \in Calls : Of[c].form = "tx" /\ Of[d].form = "tx" =>
        LET s == Of[c].tx  t == Of[d].tx
        IN  /\ s.chain = t.chain /\ s.address = t.address
            /\ s.nonce = t.nonce /\ s.data = t.data
            => s.to = t.to
=============================================================================
