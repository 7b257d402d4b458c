----------------------------- MODULE KeysProofs -----------------------------
(***************************************************************************)
(* Theorems about Keys, for every set of calls, however they are written:  *)
(* keys are texts, but those that wrappers pass on unchecked; calls share a key exactly when they ask for one     *)
(* effect, under those of the conditions at the end of Keys that each      *)
(* direction needs.                                                        *)
(***************************************************************************)
EXTENDS Keys, SequenceTheorems, TLAPS

-----------------------------------------------------------------------------
(***************************************************************************)
(* The keys of calls.                                                      *)
(***************************************************************************)
\* Of a call that is given a text.
TextKey(c) == [text |-> WrittenText(c), digest |-> <<>>]

\* Of a decorated call without one.
AutoKey(c) ==
    [text |-> Of[c].namespace \o <<"auto", Of[c].func.qualname>>,
     digest |-> <<Of[c].func.module, Of[c].func.qualname, Location(Of[c].func),
                  NormalizedArgs(c)>>]

\* Of a node in a thread.
ThreadKey(c) == [text |-> NodeText(c), digest |-> <<>>]

StrArgs(c) ==
    << [i \in DOMAIN Of[c].args |-> Str(Of[c].args[i])],
       {<<p[1], Str(p[2])>> : p \in ToSet(Of[c].kwargs)} >>

\* Of a tool.
NameKey(c) == [text |-> <<Of[c].func.qualname>>, digest |-> StrArgs(c)]

\* Of a transaction.
SlotKey(c) ==
    [text |-> <<"tx", Of[c].tx.chain, Of[c].tx.address, Of[c].tx.nonce>>,
     digest |-> <<Of[c].tx.data>>]

IsText(c) == GivesText(c) /\ Of[c].form \in {"call", "with", "node", "tool"}
IsAuto(c) == Of[c].given = "none" /\ Of[c].form = "call"
IsThread(c) == Of[c].given = "none" /\ Of[c].form = "node" /\ Of[c].thread # <<>>
IsName(c) == Of[c].given = "none" /\ Of[c].form = "tool"
IsSlot(c) == Of[c].form = "tx"

Identified(c) == IsText(c) \/ IsAuto(c) \/ IsThread(c) \/ IsName(c) \/ IsSlot(c)

\* A namespace changes the text of a key only.
LEMMA PrefixedOne ==
    ASSUME NEW c, NEW t, NEW d
    PROVE  Prefixed(c, {[text |-> t, digest |-> d]})
             = {[text |-> Of[c].namespace \o t, digest |-> d]}
<1> DEFINE k == [text |-> t, digest |-> d]
           l == [text |-> Of[c].namespace \o t, digest |-> d]
<1>1. ASSUME NEW e PROVE [k EXCEPT !.text = e] = [text |-> e, digest |-> d]
  OBVIOUS
<1>2. Prefixed(c, {k}) = {[x EXCEPT !.text = Of[c].namespace \o @] : x \in {k}}
  BY Zenon DEF Prefixed
<1>a. [k EXCEPT !.text = Of[c].namespace \o @] = l
  <2>1. k.text = t
    OBVIOUS
  <2>2. [k EXCEPT !.text = Of[c].namespace \o t] = l
    BY <1>1, Zenon
  <2> QED
    BY <2>1, <2>2, Zenon
<1> HIDE DEF k, l
<1>3. {[x EXCEPT !.text = Of[c].namespace \o @] : x \in {k}} = {l}
  BY <1>a
<1> QED
  BY <1>2, <1>3 DEF k, l

\* No key, no key in a namespace.
LEMMA PrefixedNone == ASSUME NEW c PROVE Prefixed(c, {}) = {}
BY Zenon DEF Prefixed

\* Nodes and tools have no namespace.
LEMMA NoNamespace ==
    ASSUME NEW c \in Calls, Of[c].form \in {"node", "tool"}
    PROVE  WrittenText(c) = Of[c].key
<1>1. Of[c].namespace = <<>> /\ Of[c].key \in Seq(Strings)
  BY CallsAssumption DEF OfAssumption
<1> QED
  BY <1>1, ConcatEmptySeq, Zenon DEF WrittenText

\* The key of a call that resolves is one of five, whose callables return texts.
LEMMA KeyCases ==
    ASSUME TextKeys, NEW c \in Calls, Resolves(c)
    PROVE  /\ Identified(c)
           /\ IsText(c) => Keyed[c] = {TextKey(c)}
           /\ IsAuto(c) => Keyed[c] = {AutoKey(c)} /\ ~ \E v \in Arguments(c) : Opaque(v)
           /\ IsThread(c) => Keyed[c] = {ThreadKey(c)}
           /\ IsName(c) => Keyed[c] = {NameKey(c)}
           /\ IsSlot(c) => Keyed[c] = {SlotKey(c)}
<1>1. Keyed[c] = KeyOf(c) /\ KeyOf(c) # {}
  BY Zenon DEF Keyed, Resolves
<1>2. /\ Of[c].form \in {"call", "with", "node", "tool", "tx"}
      /\ Of[c].given \in {"none", "text", "nothing", "other"}
      /\ Of[c].form = "tx" => Of[c].given = "none"
  BY CallsAssumption, Zenon DEF OfAssumption
<1>3. CASE Of[c].form = "tx"
  <2>1. KeyOf(c) = {SlotKey(c)}
    BY <1>3 DEF KeyOf, TxKey, SlotKey
  <2> QED
    BY <1>1, <1>2, <1>3, <2>1 DEF Identified, IsText, IsAuto, IsThread, IsName, IsSlot
<1>4. CASE Of[c].form = "tool"
  <2>1. Of[c].given \in {"none", "text"}
    BY <1>4 DEF TextKeys
  <2>2. KeyOf(c) = ToolKey(c)
    BY <1>4, Zenon DEF KeyOf
  <2>3. CASE Of[c].given = "text"
    <3>1. KeyOf(c) = {TextKey(c)}
      BY <2>2, <2>3, <1>4, NoNamespace DEF ToolKey, Static, TextKey
    <3> QED
      BY <1>1, <1>4, <2>3, <3>1
         DEF Identified, IsText, IsAuto, IsThread, IsName, IsSlot, GivesText
  <2>4. CASE Of[c].given = "none"
    <3>1. KeyOf(c) = {NameKey(c)}
      BY <2>2, <2>4 DEF ToolKey, NameKey, StrArgs
    <3> QED
      BY <1>1, <1>4, <2>4, <3>1
         DEF Identified, IsText, IsAuto, IsThread, IsName, IsSlot, GivesText
  <2> QED
    BY <2>1, <2>3, <2>4
<1>5. CASE Of[c].form = "node"
  <2>1. Of[c].given \in {"none", "text"}
    BY <1>5 DEF TextKeys
  <2>2. KeyOf(c) = NodeKey(c)
    BY <1>5, Zenon DEF KeyOf
  <2>3. CASE Of[c].given = "text"
    <3>1. KeyOf(c) = {TextKey(c)}
      <4>1. NodeKey(c) = Static(Of[c].key)
        BY <2>3 DEF NodeKey
      <4> QED
        BY <2>2, <4>1, <1>5, NoNamespace DEF Static, TextKey
    <3> QED
      BY <1>1, <1>5, <2>3, <3>1
         DEF Identified, IsText, IsAuto, IsThread, IsName, IsSlot, GivesText
  <2>4. CASE Of[c].given = "none"
    <3>1. Of[c].thread # <<>>
      BY <1>1, <2>2, <2>4 DEF NodeKey
    <3>2. KeyOf(c) = {ThreadKey(c)}
      BY <2>2, <2>4, <3>1 DEF NodeKey, Static, ThreadKey, NodeText
    <3> QED
      BY <1>1, <1>5, <2>4, <3>1, <3>2
         DEF Identified, IsText, IsAuto, IsThread, IsName, IsSlot, GivesText
  <2> QED
    BY <2>1, <2>3, <2>4
<1>6. CASE Of[c].form \in {"call", "with"}
  <2>1. CASE Of[c].given = "text"
    <3>1. KeyOf(c) = ResolvedKey(c)
      BY <1>6, <2>1 DEF KeyOf, BlockKey
    <3>2. ResolvedKey(c) = Prefixed(c, {[text |-> Of[c].key, digest |-> <<>>]})
      BY <2>1 DEF ResolvedKey, GivenKey, Static
    <3>3. KeyOf(c) = {TextKey(c)}
      <4>1. Prefixed(c, {[text |-> Of[c].key, digest |-> <<>>]})
              = {[text |-> Of[c].namespace \o Of[c].key, digest |-> <<>>]}
        BY PrefixedOne
      <4> QED
        BY <3>1, <3>2, <4>1, ZenonT(30) DEF TextKey, WrittenText
    <3> QED
      BY <1>1, <1>6, <2>1, <3>3
         DEF Identified, IsText, IsAuto, IsThread, IsName, IsSlot, GivesText
  <2>2. CASE Of[c].given \in {"nothing", "other"}
    <3>1. KeyOf(c) = ResolvedKey(c)
      BY <1>6, <2>2 DEF KeyOf, BlockKey
    <3>2. ResolvedKey(c) = Prefixed(c, {})
      BY <2>2 DEF ResolvedKey, GivenKey, NoText
    <3> QED
      BY <1>1, <3>1, <3>2, PrefixedNone
  <2>3. CASE Of[c].given = "none"
    <3>1. Of[c].form = "call" /\ KeyOf(c) = ResolvedKey(c)
      BY <1>1, <1>6, <2>3 DEF KeyOf, BlockKey
    <3>2. ResolvedKey(c) = Prefixed(c, DerivedKey(c))
      BY <2>3 DEF ResolvedKey
    <3>3. ~ \E v \in Arguments(c) : Opaque(v)
      BY <1>1, <3>1, <3>2, PrefixedNone DEF DerivedKey
    <3>4. DerivedKey(c) =
            {[text |-> <<"auto", Of[c].func.qualname>>,
              digest |-> <<Of[c].func.module, Of[c].func.qualname,
                           Location(Of[c].func), NormalizedArgs(c)>>]}
      BY <3>3 DEF DerivedKey, Derived
    <3>5. KeyOf(c) = {AutoKey(c)}
      <4> DEFINE d == <<Of[c].func.module, Of[c].func.qualname,
                        Location(Of[c].func), NormalizedArgs(c)>>
                 t == <<"auto", Of[c].func.qualname>>
      <4>1. Prefixed(c, {[text |-> t, digest |-> d]}) = {[text |-> Of[c].namespace \o t, digest |-> d]}
        BY PrefixedOne
      <4> QED
        BY <3>1, <3>2, <3>4, <4>1, ZenonT(30) DEF AutoKey
    <3> QED
      BY <1>1, <2>3, <3>1, <3>3, <3>5
         DEF Identified, IsText, IsAuto, IsThread, IsName, IsSlot, GivesText
  <2> QED
    BY <1>2, <2>1, <2>2, <2>3
<1> QED
  BY <1>2, <1>3, <1>4, <1>5, <1>6

-----------------------------------------------------------------------------
(***************************************************************************)
(* Texts.                                                                  *)
(***************************************************************************)
\* Texts of one, two and four parts.
LEMMA Parts ==
    ASSUME NEW S, NEW a \in S, NEW b \in S, NEW c \in S, NEW d \in S
    PROVE  /\ <<a>> \in Seq(S) /\ Len(<<a>>) = 1 /\ <<a>> # <<>>
           /\ <<a, b>> \in Seq(S) /\ Len(<<a, b>>) = 2 /\ <<a, b>> # <<>>
           /\ <<a, b, c, d>> \in Seq(S) /\ Len(<<a, b, c, d>>) = 4 /\ <<a, b, c, d>> # <<>>
OBVIOUS

\* Two texts cut at one length have the same parts.
LEMMA CutAlike ==
    ASSUME NEW S, NEW p \in Seq(S), NEW q \in Seq(S), NEW s \in Seq(S), NEW t \in Seq(S),
           Len(p) = Len(q), p \o s = q \o t
    PROVE  p = q /\ s = t
<1>1. /\ Len(p \o s) = Len(p) + Len(s) /\ Len(q \o t) = Len(q) + Len(t)
      /\ Len(p) \in Nat /\ Len(s) \in Nat /\ Len(t) \in Nat
  BY ConcatProperties, LenProperties
<1>2. Len(s) = Len(t)
  BY <1>1
<1>3. \A i \in 1 .. Len(p) : (p \o s)[i] = p[i] /\ (q \o t)[i] = q[i]
  BY ConcatProperties
<1>4. \A i \in 1 .. Len(p) : p[i] = q[i]
  BY <1>3, Zenon
<1>5. \A i \in 1 .. Len(s) :
        (p \o s)[i + Len(p)] = s[i] /\ (q \o t)[i + Len(p)] = t[i]
  <2> TAKE i \in 1 .. Len(s)
  <2>1. i + Len(p) \in 1 .. Len(p) + Len(s) /\ i + Len(p) > Len(p) /\ i + Len(p) - Len(p) = i
    BY <1>1
  <2> QED
    BY <2>1, <1>1, <1>2, ConcatProperties
<1>6. \A i \in 1 .. Len(s) : s[i] = t[i]
  BY <1>5, Zenon
<1> QED
  BY <1>2, <1>4, <1>6, SeqEqual

\* Two texts with one last part each are the same in both parts or neither.
LEMMA LastAlike ==
    ASSUME NEW p \in Seq(Strings), NEW q \in Seq(Strings), NEW a \in Strings, NEW b \in Strings,
           p \o <<a>> = q \o <<b>>
    PROVE  p = q /\ a = b
<1>1. <<a>> \in Seq(Strings) /\ <<b>> \in Seq(Strings) /\ Len(<<a>>) = 1 /\ Len(<<b>>) = 1
  BY Parts
<1>2. Len(p \o <<a>>) = Len(p) + 1 /\ Len(q \o <<b>>) = Len(q) + 1
  BY <1>1, ConcatProperties
<1>3. Len(p) = Len(q)
  BY <1>2, LenProperties
<1>4. p = q /\ <<a>> = <<b>>
  BY <1>1, <1>3, CutAlike
<1> QED
  BY <1>4

\* A text after a text is a text, and it is empty only when both are.
LEMMA JoinedText ==
    ASSUME NEW s \in Seq(Strings), NEW t \in Seq(Strings) \ {<<>>}
    PROVE  s \o t \in Seq(Strings) \ {<<>>}
BY ConcatProperties, ConcatEqualIffEmpty

\* A wrapper passes a value that is no text on as the key.
LEMMA KeyIsRaw ==
    ASSUME NEW c \in Calls, Raw(c), NEW k \in Keyed[c]
    PROVE  k \in RawKey(c) /\ k.text = <<>>
<1>1. k \in KeyOf(c)
  BY Zenon DEF Keyed
<1>2. k \in RawKey(c)
  BY <1>1 DEF KeyOf, Raw, NodeKey, ToolKey
<1> QED
  BY <1>2 DEF RawKey

\* Otherwise, whatever a key callable returns, what is looked up in the ledger is a
\* text.
LEMMA KeyIsText ==
    ASSUME NEW c \in Calls, ~Raw(c), NEW k \in Keyed[c]
    PROVE  k.text \in Seq(Strings) \ {<<>>}
<1> DEFINE Text == Seq(Strings) \ {<<>>}
<1>1. k \in KeyOf(c)
  BY Zenon DEF Keyed
<1>2. /\ Of[c].form \in {"call", "with", "node", "tool", "tx"}
      /\ Of[c].given \in {"none", "text", "nothing", "other"}
      /\ Of[c].given = "text" => Of[c].key \in Text
      /\ Of[c].namespace \in Seq(Strings) /\ Of[c].thread \in Seq(Strings)
      /\ Of[c].func.qualname \in Strings
      /\ Of[c].form = "tx" =>
            Of[c].tx.chain \in Strings /\ Of[c].tx.address \in Strings /\ Of[c].tx.nonce \in Strings
  BY CallsAssumption DEF OfAssumption
<1>3. "auto" \in Strings /\ "effect" \in Strings /\ "tx" \in Strings
  BY StringsAssumption
<1>4. <<"auto", Of[c].func.qualname>> \in Text /\ <<"auto", "effect">> \in Text
      /\ <<Of[c].func.qualname>> \in Text
  <2>1. ASSUME NEW a \in Strings, NEW b \in Strings
        PROVE  <<a, b>> \in Text /\ <<a>> \in Text
    BY Parts
  <2> QED
    BY <1>2, <1>3, <2>1, Zenon
<1>5. ASSUME NEW x \in DerivedKey(c) PROVE x.text \in Text
  <2>1. x.text = <<"auto", Of[c].func.qualname>>
    BY <1>5 DEF DerivedKey, Derived
  <2> QED
    BY <2>1, <1>4
<1>6. ASSUME Of[c].given = "text", NEW x \in Static(Of[c].key) PROVE x.text \in Text
  BY <1>6, <1>2 DEF Static
<1>7. ASSUME NEW keys, NEW x \in Prefixed(c, keys), \A y \in keys : y.text \in Text /\ "text" \in DOMAIN y
      PROVE  x.text \in Text
  <2>1. PICK y \in keys : x = [y EXCEPT !.text = Of[c].namespace \o @]
    BY Zenon DEF Prefixed
  <2>2. x.text = Of[c].namespace \o y.text
    <3>1. "text" \in DOMAIN y
      BY <1>7, Zenon
    <3> QED
      BY <2>1, <3>1
  <2>3. Of[c].namespace \o y.text \in Text
    BY <1>2, <1>7, JoinedText, Zenon
  <2> QED
    BY <2>2, <2>3, Zenon
<1>8. CASE Of[c].form = "tx"
  <2>1. k.text = <<"tx", Of[c].tx.chain, Of[c].tx.address, Of[c].tx.nonce>>
    BY <1>1, <1>8 DEF KeyOf, TxKey
  <2>2. ASSUME NEW a \in Strings, NEW b \in Strings, NEW d \in Strings, NEW e \in Strings
        PROVE  <<a, b, d, e>> \in Text
    BY Parts
  <2> QED
    <3>1. <<"tx", Of[c].tx.chain, Of[c].tx.address, Of[c].tx.nonce>> \in Text
      <4> HIDE DEF Text
      <4> QED
        BY <1>2, <1>3, <1>8, <2>2, Zenon
    <3> QED
      BY <2>1, <3>1
<1>9. ASSUME NEW form, k \in EffectKey(form) PROVE k.text \in Text
  <2>1. k.text = <<"auto", "effect">>
    BY <1>9 DEF EffectKey, Derived
  <2> QED
    BY <2>1, <1>4
<1>10. CASE Of[c].form = "tool"
  <2>1. k \in ToolKey(c)
    BY <1>1, <1>10, Zenon DEF KeyOf
  <2>2. CASE Of[c].given = "text"
    BY <2>1, <2>2, <1>6 DEF ToolKey
  <2>3. CASE Of[c].given = "nothing"
    BY <2>1, <2>3, <1>9 DEF ToolKey
  <2>4. CASE Of[c].given = "none"
    BY <2>1, <2>4, <1>4 DEF ToolKey
  <2> QED
    BY <1>10, <1>2, <2>2, <2>3, <2>4 DEF Raw
<1>11. CASE Of[c].form = "node"
  <2>1. k \in NodeKey(c)
    BY <1>1, <1>11, Zenon DEF KeyOf
  <2>2. CASE Of[c].given = "text"
    BY <2>1, <2>2, <1>6 DEF NodeKey
  <2>3. CASE Of[c].given = "nothing"
    BY <2>1, <2>3, <1>9 DEF NodeKey
  <2>4. CASE Of[c].given = "none"
    <3>1. k.text = NodeText(c)
      BY <2>1, <2>4 DEF NodeKey, Static, NodeText
    <3> QED
      BY <3>1, <1>2, <1>4, JoinedText DEF NodeText
  <2> QED
    BY <1>11, <1>2, <2>2, <2>3, <2>4 DEF Raw
<1>12. CASE Of[c].form \in {"call", "with"}
  <2>1. k \in ResolvedKey(c)
    BY <1>1, <1>12 DEF KeyOf, BlockKey
  <2>2. CASE Of[c].given = "none"
    <3>1. \A y \in DerivedKey(c) : "text" \in DOMAIN y
      BY DEF DerivedKey, Derived
    <3> QED
      BY <2>1, <2>2, <3>1, <1>5, <1>7 DEF ResolvedKey
  <2>3. CASE Of[c].given # "none"
    <3>1. \A y \in GivenKey(c) : y.text \in Text /\ "text" \in DOMAIN y
      BY <1>6 DEF GivenKey, NoText, Static
    <3> QED
      BY <2>1, <2>3, <3>1, <1>7 DEF ResolvedKey
  <2> QED
    BY <2>2, <2>3
<1> QED
  BY <1>2, <1>8, <1>10, <1>11, <1>12

-----------------------------------------------------------------------------
(***************************************************************************)
(* What a call asks for, field by field, and its arguments.                *)
(***************************************************************************)
IdKey(c) == IF GivesText(c) THEN Of[c].key ELSE <<>>
IdFunc(c) == IF GivesText(c) \/ Of[c].form = "tx" THEN {} ELSE {Of[c].func.id}
IdTx(c) == IF Of[c].form = "tx" THEN [Of[c].tx EXCEPT !.case = "any"] ELSE <<>>
IdThread(c) == IF Of[c].form = "node" /\ ~GivesText(c) THEN Of[c].thread ELSE <<>>
IdArgs(c) ==
    IF GivesText(c) \/ Of[c].form = "node" \/ Of[c].form = "tx" THEN <<>> ELSE NormalizedArgs(c)

\* Two calls ask for one effect when all that identifies it is the same.
LEMMA SameIdentity ==
    ASSUME NEW c \in Calls, NEW d \in Calls
    PROVE  Identity[c] = Identity[d] <=>
              /\ Of[c].namespace = Of[d].namespace
              /\ IdKey(c) = IdKey(d) /\ IdFunc(c) = IdFunc(d) /\ IdTx(c) = IdTx(d)
              /\ IdThread(c) = IdThread(d) /\ IdArgs(c) = IdArgs(d)
<1>1. ASSUME NEW e \in Calls
      PROVE  Identity[e] =
                [namespace |-> Of[e].namespace, key |-> IdKey(e), func |-> IdFunc(e),
                 tx |-> IdTx(e), thread |-> IdThread(e), args |-> IdArgs(e)]
  BY Zenon DEF Identity, IdKey, IdFunc, IdTx, IdThread, IdArgs, GivesText, NormalizedArgs
<1>2. [namespace |-> Of[c].namespace, key |-> IdKey(c), func |-> IdFunc(c),
       tx |-> IdTx(c), thread |-> IdThread(c), args |-> IdArgs(c)]
        = [namespace |-> Of[d].namespace, key |-> IdKey(d), func |-> IdFunc(d),
           tx |-> IdTx(d), thread |-> IdThread(d), args |-> IdArgs(d)]
      <=> /\ Of[c].namespace = Of[d].namespace
          /\ IdKey(c) = IdKey(d) /\ IdFunc(c) = IdFunc(d) /\ IdTx(c) = IdTx(d)
          /\ IdThread(c) = IdThread(d) /\ IdArgs(c) = IdArgs(d)
  OBVIOUS
<1> QED
  BY <1>1, <1>2

\* json.dumps keeps an object apart from what is none.
LEMMA JsonOpaque ==
    ASSUME NEW v, NEW w, Json(v) = Json(w)
    PROVE  Opaque(v) <=> Opaque(w)
<1>1. Json(v).is = Json(w).is
  BY Zenon
<1>2. ASSUME NEW x PROVE Opaque(x) <=> Json(x).is = "object"
  BY DEF Json, Opaque
<1> QED
  BY <1>1, <1>2, Zenon

\* An argument stands for itself in the key of a tool wherever it is given again.
LEMMA StrOfJson ==
    ASSUME StableStr, NEW v \in ToolArgs, NEW w \in ToolArgs, Json(v) = Json(w)
    PROVE  Str(v) = Str(w)
<1>1. CASE Opaque(v)
  <2>1. v.str = w.str
    BY <1>1, Zenon DEF StableStr
  <2> QED
    BY <1>1, <2>1, JsonOpaque, Zenon DEF Str
<1>2. CASE ~Opaque(v)
  BY <1>2, JsonOpaque, Zenon DEF Str
<1> QED
  BY <1>1, <1>2

\* The arguments of a tool are among ToolArgs.
LEMMA ToolArguments ==
    ASSUME NEW c \in Calls, Of[c].form = "tool"
    PROVE  /\ \A i \in DOMAIN Of[c].args : Of[c].args[i] \in ToolArgs
           /\ \A p \in ToSet(Of[c].kwargs) : p[2] \in ToolArgs
<1>1. Arguments(c) \subseteq ToolArgs
  BY DEF ToolArgs
<1>2. \A i \in DOMAIN Of[c].args : Of[c].args[i] \in ToSet(Of[c].args)
  BY DEF ToSet
<1> QED
  BY <1>1, <1>2, Zenon DEF Arguments

\* One list of arguments is one in the key of a tool.
LEMMA StrArgsOfJson ==
    ASSUME StableStr, NEW c \in Calls, NEW d \in Calls,
           Of[c].form = "tool", Of[d].form = "tool", NormalizedArgs(c) = NormalizedArgs(d)
    PROVE  StrArgs(c) = StrArgs(d)
<1> DEFINE C == Of[c].args
           D == Of[d].args
           P == ToSet(Of[c].kwargs)
           Q == ToSet(Of[d].kwargs)
<1>1. /\ \A i \in DOMAIN C : C[i] \in ToolArgs
      /\ \A i \in DOMAIN D : D[i] \in ToolArgs
      /\ \A p \in P \cup Q : p[2] \in ToolArgs
  BY ToolArguments
<1>2. /\ [i \in DOMAIN C |-> Json(C[i])] = [i \in DOMAIN D |-> Json(D[i])]
      /\ {<<p[1], Json(p[2])>> : p \in P} = {<<p[1], Json(p[2])>> : p \in Q}
  BY DEF NormalizedArgs
<1>3. /\ StrArgs(c) = <<[i \in DOMAIN C |-> Str(C[i])], {<<p[1], Str(p[2])>> : p \in P}>>
      /\ StrArgs(d) = <<[i \in DOMAIN D |-> Str(D[i])], {<<p[1], Str(p[2])>> : p \in Q}>>
  BY Zenon DEF StrArgs
<1> HIDE DEF C, D, P, Q
<1>4. DOMAIN C = DOMAIN D /\ \A i \in DOMAIN C : Json(C[i]) = Json(D[i])
  <2>1. DOMAIN [i \in DOMAIN C |-> Json(C[i])] = DOMAIN C
    BY Zenon
  <2>2. DOMAIN [i \in DOMAIN D |-> Json(D[i])] = DOMAIN D
    BY Zenon
  <2>3. DOMAIN C = DOMAIN D
    BY <1>2, <2>1, <2>2, Zenon
  <2> SUFFICES ASSUME NEW i \in DOMAIN C PROVE Json(C[i]) = Json(D[i])
    BY <2>3
  <2>4. [j \in DOMAIN C |-> Json(C[j])][i] = Json(C[i])
    BY Zenon
  <2>5. [j \in DOMAIN D |-> Json(D[j])][i] = Json(D[i])
    BY <2>3, Zenon
  <2> QED
    BY <1>2, <2>4, <2>5, Zenon
<1>5. \A i \in DOMAIN C : Str(C[i]) = Str(D[i])
  BY <1>1, <1>4, StrOfJson, Zenon
<1>6. [i \in DOMAIN C |-> Str(C[i])] = [i \in DOMAIN D |-> Str(D[i])]
  BY <1>4, <1>5, Zenon
<1>7. ASSUME NEW A, NEW B, A \in SUBSET (P \cup Q), B \in SUBSET (P \cup Q),
             {<<p[1], Json(p[2])>> : p \in A} \subseteq {<<p[1], Json(p[2])>> : p \in B}
      PROVE  {<<p[1], Str(p[2])>> : p \in A} \subseteq {<<p[1], Str(p[2])>> : p \in B}
  <2> SUFFICES ASSUME NEW p \in A PROVE \E q \in B : <<p[1], Str(p[2])>> = <<q[1], Str(q[2])>>
    BY Zenon
  <2>1. <<p[1], Json(p[2])>> \in {<<q[1], Json(q[2])>> : q \in B}
    BY <1>7, Zenon
  <2>2. PICK q \in B : <<p[1], Json(p[2])>> = <<q[1], Json(q[2])>>
    BY <2>1, Zenon
  <2>3. p[1] = q[1] /\ Json(p[2]) = Json(q[2])
    BY <2>2
  <2>4. p[2] \in ToolArgs /\ q[2] \in ToolArgs
    BY <1>1, <1>7
  <2> QED
    BY <2>3, <2>4, StrOfJson, Zenon
<1>8. {<<p[1], Str(p[2])>> : p \in P} = {<<p[1], Str(p[2])>> : p \in Q}
  BY <1>2, <1>7, Zenon
<1> QED
  BY <1>3, <1>6, <1>8, Zenon

\* What is one in the key of a tool is one list of arguments.
LEMMA JsonOfStrArgs ==
    ASSUME StrTells, NEW c \in Calls, NEW d \in Calls,
           Of[c].form = "tool", Of[d].form = "tool", StrArgs(c) = StrArgs(d)
    PROVE  NormalizedArgs(c) = NormalizedArgs(d)
<1> DEFINE C == Of[c].args
           D == Of[d].args
           P == ToSet(Of[c].kwargs)
           Q == ToSet(Of[d].kwargs)
<1>1. /\ \A i \in DOMAIN C : C[i] \in ToolArgs
      /\ \A i \in DOMAIN D : D[i] \in ToolArgs
      /\ \A p \in P \cup Q : p[2] \in ToolArgs
  BY ToolArguments
<1>2. /\ [i \in DOMAIN C |-> Str(C[i])] = [i \in DOMAIN D |-> Str(D[i])]
      /\ {<<p[1], Str(p[2])>> : p \in P} = {<<p[1], Str(p[2])>> : p \in Q}
  BY DEF StrArgs
<1>3. /\ NormalizedArgs(c) = <<[i \in DOMAIN C |-> Json(C[i])], {<<p[1], Json(p[2])>> : p \in P}>>
      /\ NormalizedArgs(d) = <<[i \in DOMAIN D |-> Json(D[i])], {<<p[1], Json(p[2])>> : p \in Q}>>
  BY Zenon DEF NormalizedArgs
<1> HIDE DEF C, D, P, Q
<1>4. DOMAIN C = DOMAIN D /\ \A i \in DOMAIN C : Str(C[i]) = Str(D[i])
  <2>1. DOMAIN [i \in DOMAIN C |-> Str(C[i])] = DOMAIN C
    BY Zenon
  <2>2. DOMAIN [i \in DOMAIN D |-> Str(D[i])] = DOMAIN D
    BY Zenon
  <2>3. DOMAIN C = DOMAIN D
    BY <1>2, <2>1, <2>2, Zenon
  <2> SUFFICES ASSUME NEW i \in DOMAIN C PROVE Str(C[i]) = Str(D[i])
    BY <2>3
  <2>4. [j \in DOMAIN C |-> Str(C[j])][i] = Str(C[i])
    BY Zenon
  <2>5. [j \in DOMAIN D |-> Str(D[j])][i] = Str(D[i])
    BY <2>3, Zenon
  <2> QED
    BY <1>2, <2>4, <2>5, Zenon
<1>5. \A i \in DOMAIN C : Json(C[i]) = Json(D[i])
  BY <1>1, <1>4, Zenon DEF StrTells
<1>6. [i \in DOMAIN C |-> Json(C[i])] = [i \in DOMAIN D |-> Json(D[i])]
  BY <1>4, <1>5, Zenon
<1>7. ASSUME NEW A, NEW B, A \in SUBSET (P \cup Q), B \in SUBSET (P \cup Q),
             {<<p[1], Str(p[2])>> : p \in A} \subseteq {<<p[1], Str(p[2])>> : p \in B}
      PROVE  {<<p[1], Json(p[2])>> : p \in A} \subseteq {<<p[1], Json(p[2])>> : p \in B}
  <2> SUFFICES ASSUME NEW p \in A PROVE \E q \in B : <<p[1], Json(p[2])>> = <<q[1], Json(q[2])>>
    BY Zenon
  <2>1. <<p[1], Str(p[2])>> \in {<<q[1], Str(q[2])>> : q \in B}
    BY <1>7, Zenon
  <2>2. PICK q \in B : <<p[1], Str(p[2])>> = <<q[1], Str(q[2])>>
    BY <2>1, Zenon
  <2>3. p[1] = q[1] /\ Str(p[2]) = Str(q[2])
    BY <2>2
  <2>4. p[2] \in ToolArgs /\ q[2] \in ToolArgs
    BY <1>1, <1>7
  <2> QED
    BY <2>3, <2>4, Zenon DEF StrTells
<1>8. {<<p[1], Json(p[2])>> : p \in P} = {<<p[1], Json(p[2])>> : p \in Q}
  BY <1>2, <1>7, Zenon
<1> QED
  BY <1>3, <1>6, <1>8, Zenon

-----------------------------------------------------------------------------
(***************************************************************************)
(* Calls that ask for one effect have one key.                             *)
(***************************************************************************)
\* What is identified as a transaction is one.
LEMMA TxOrNot ==
    ASSUME NEW c \in Calls, NEW d \in Calls, IdTx(c) = IdTx(d), IsSlot(c)
    PROVE  IsSlot(d) /\ [Of[c].tx EXCEPT !.case = "any"] = [Of[d].tx EXCEPT !.case = "any"]
<1>1. Of[c].tx \in [chain : Strings, address : Strings, case : Strings,
                    nonce : Strings, data : Strings, to : Strings]
  BY CallsAssumption DEF OfAssumption, IsSlot
<1>2. IdTx(c) = [Of[c].tx EXCEPT !.case = "any"]
  BY DEF IdTx, IsSlot
<1>3. IdTx(c) # <<>>
  <2>1. "nonce" \in DOMAIN IdTx(c)
    BY <1>1, <1>2
  <2>2. "nonce" \notin DOMAIN <<>>
    OBVIOUS
  <2> QED
    BY <2>1, <2>2, Zenon
<1>4. IsSlot(d)
  BY <1>3, Zenon DEF IdTx, IsSlot
<1> QED
  BY <1>2, <1>4, Zenon DEF IdTx, IsSlot

\* Two calls of one transaction, however its address is written, agree in
\* what the key is made of.
LEMMA TxFields ==
    ASSUME NEW c \in Calls, NEW d \in Calls, IsSlot(c), IsSlot(d)
    PROVE  [Of[c].tx EXCEPT !.case = "any"] = [Of[d].tx EXCEPT !.case = "any"]
           <=> /\ Of[c].tx.chain = Of[d].tx.chain /\ Of[c].tx.address = Of[d].tx.address
               /\ Of[c].tx.nonce = Of[d].tx.nonce /\ Of[c].tx.data = Of[d].tx.data
               /\ Of[c].tx.to = Of[d].tx.to
<1> DEFINE T == [chain : Strings, address : Strings, case : Strings,
                 nonce : Strings, data : Strings, to : Strings]
<1>1. Of[c].tx \in T /\ Of[d].tx \in T
  BY CallsAssumption DEF OfAssumption, IsSlot
<1>2. ASSUME NEW t \in T
      PROVE  [t EXCEPT !.case = "any"]
               = [chain |-> t.chain, address |-> t.address, case |-> "any",
                  nonce |-> t.nonce, data |-> t.data, to |-> t.to]
  OBVIOUS
<1> HIDE DEF T
<1>3. /\ [Of[c].tx EXCEPT !.case = "any"]
           = [chain |-> Of[c].tx.chain, address |-> Of[c].tx.address, case |-> "any",
              nonce |-> Of[c].tx.nonce, data |-> Of[c].tx.data, to |-> Of[c].tx.to]
      /\ [Of[d].tx EXCEPT !.case = "any"]
           = [chain |-> Of[d].tx.chain, address |-> Of[d].tx.address, case |-> "any",
              nonce |-> Of[d].tx.nonce, data |-> Of[d].tx.data, to |-> Of[d].tx.to]
  BY <1>1, <1>2, Zenon
<1> QED
  BY <1>3

\* Same function, same thread and arguments, same transaction or same given key:
\* same key, whatever the order of keyword arguments.
LEMMA SameEffectSameKey ==
    ASSUME TextKeys, StableStr, NEW c \in Calls, NEW d \in Calls,
           Resolves(c), Resolves(d), Identity[c] = Identity[d]
    PROVE  Keyed[c] = Keyed[d]
<1>1. /\ Of[c].namespace = Of[d].namespace
      /\ IdKey(c) = IdKey(d) /\ IdFunc(c) = IdFunc(d) /\ IdTx(c) = IdTx(d)
      /\ IdThread(c) = IdThread(d) /\ IdArgs(c) = IdArgs(d)
  BY SameIdentity
<1>2. \A e \in {c, d} :
        /\ Identified(e)
        /\ IsText(e) => Keyed[e] = {TextKey(e)}
        /\ IsAuto(e) => Keyed[e] = {AutoKey(e)}
        /\ IsThread(e) => Keyed[e] = {ThreadKey(e)}
        /\ IsName(e) => Keyed[e] = {NameKey(e)}
        /\ IsSlot(e) => Keyed[e] = {SlotKey(e)}
  BY KeyCases
<1>3. \A e \in {c, d} : GivesText(e) => Of[e].key # <<>> /\ Of[e].form # "tx"
  BY CallsAssumption DEF OfAssumption, GivesText
<1>4. GivesText(c) <=> GivesText(d)
  BY <1>1, <1>3 DEF IdKey
<1>5. CASE IsText(c)
  <2>1. IsText(d) /\ Of[c].key = Of[d].key
    BY <1>1, <1>2, <1>3, <1>4, <1>5
       DEF IdKey, IsText, Identified, IsAuto, IsThread, IsName, IsSlot, GivesText
  <2>2. TextKey(c) = TextKey(d)
    BY <1>1, <2>1 DEF TextKey, WrittenText
  <2> QED
    BY <1>2, <1>5, <2>1, <2>2
<1>6. CASE IsSlot(c)
  <2>1. /\ IsSlot(d) /\ Of[c].tx.chain = Of[d].tx.chain /\ Of[c].tx.address = Of[d].tx.address
        /\ Of[c].tx.nonce = Of[d].tx.nonce /\ Of[c].tx.data = Of[d].tx.data
    BY <1>1, <1>6, TxOrNot, TxFields
  <2>2. SlotKey(c) = SlotKey(d)
    BY <2>1 DEF SlotKey
  <2> QED
    BY <1>2, <1>6, <2>1, <2>2
<1>7. CASE ~IsText(c) /\ ~IsSlot(c)
  <2>1. ~IsSlot(d)
    BY <1>1, <1>7, TxOrNot
  <2>2. ~GivesText(c) /\ ~GivesText(d)
    BY <1>2, <1>4, <1>7 DEF Identified, IsText, IsAuto, IsThread, IsName, IsSlot, GivesText
  <2>3. Of[c].func.id = Of[d].func.id
    BY <1>1, <1>7, <2>1, <2>2 DEF IdFunc, IsSlot
  <2>4. Of[c].func = Of[d].func
    BY <2>3, CallsAssumption DEF OfAssumption
  <2>5. IsThread(c) <=> IsThread(d)
    BY <1>1, <1>2, <1>7, <2>1, <2>2
       DEF IdThread, Identified, IsText, IsAuto, IsThread, IsName, IsSlot, GivesText
  <2>6. CASE IsThread(c)
    <3>1. Of[c].thread = Of[d].thread
      BY <1>1, <2>2, <2>5, <2>6 DEF IdThread, IsThread
    <3>2. ThreadKey(c) = ThreadKey(d)
      BY <2>4, <3>1 DEF ThreadKey, NodeText
    <3> QED
      BY <1>2, <2>5, <2>6, <3>2
  <2>7. CASE ~IsThread(c)
    <3>1. (IsAuto(c) \/ IsName(c)) /\ (IsAuto(d) \/ IsName(d))
      BY <1>2, <1>7, <2>1, <2>2, <2>5, <2>7 DEF Identified, IsText
    <3>2. NormalizedArgs(c) = NormalizedArgs(d)
      BY <1>1, <2>2, <3>1 DEF IdArgs, IsAuto, IsName
    <3>3. IsAuto(c) <=> IsAuto(d)
      BY <2>3, <3>1, CallsAssumption DEF OfAssumption, IsAuto, IsName
    <3>4. CASE IsAuto(c)
      <4>1. AutoKey(c) = AutoKey(d)
        BY <1>1, <2>4, <3>2 DEF AutoKey
      <4> QED
        BY <1>2, <3>3, <3>4, <4>1
    <3>5. CASE IsName(c) /\ IsName(d)
      <4>1. StrArgs(c) = StrArgs(d)
        BY <3>2, <3>5, StrArgsOfJson DEF IsName
      <4>2. NameKey(c) = NameKey(d)
        BY <2>4, <4>1 DEF NameKey
      <4> QED
        BY <1>2, <3>5, <4>2
    <3> QED
      BY <3>1, <3>3, <3>4, <3>5
  <2> QED
    BY <2>6, <2>7
<1> QED
  BY <1>5, <1>6, <1>7

-----------------------------------------------------------------------------
(***************************************************************************)
(* Calls that have one key ask for one effect.                             *)
(***************************************************************************)
\* What is hashed tells derived keys, tools, transactions and the rest apart.
LEMMA SortsApart ==
    ASSUME TextKeys, NEW c \in Calls, NEW d \in Calls, Resolves(c), Resolves(d),
           NEW k \in Keyed[c] \cap Keyed[d]
    PROVE  \/ (IsText(c) \/ IsThread(c)) /\ (IsText(d) \/ IsThread(d))
           \/ IsAuto(c) /\ IsAuto(d)
           \/ IsName(c) /\ IsName(d)
           \/ IsSlot(c) /\ IsSlot(d)
<1> DEFINE size(e) == IF IsText(e) \/ IsThread(e) THEN 0 ELSE
                      IF IsAuto(e) THEN 4 ELSE IF IsName(e) THEN 2 ELSE 1
<1>1. ASSUME NEW e \in {c, d} PROVE Identified(e) /\ Len(k.digest) = size(e)
  <2>1. /\ Identified(e) /\ k \in Keyed[e]
        /\ IsText(e) => Keyed[e] = {TextKey(e)}
        /\ IsAuto(e) => Keyed[e] = {AutoKey(e)}
        /\ IsThread(e) => Keyed[e] = {ThreadKey(e)}
        /\ IsName(e) => Keyed[e] = {NameKey(e)}
        /\ IsSlot(e) => Keyed[e] = {SlotKey(e)}
    BY KeyCases
  <2>2. IsText(e) \/ IsThread(e) => Len(k.digest) = 0
    BY <2>1 DEF TextKey, ThreadKey
  <2>3. IsAuto(e) => Len(k.digest) = 4
    BY <2>1 DEF AutoKey
  <2>4. IsName(e) => Len(k.digest) = 2
    BY <2>1 DEF NameKey, StrArgs
  <2>5. IsSlot(e) => Len(k.digest) = 1
    BY <2>1 DEF SlotKey
  <2>6. ~(IsAuto(e) /\ (IsText(e) \/ IsThread(e))) /\ ~(IsName(e) /\ (IsText(e) \/ IsThread(e)))
        /\ ~(IsName(e) /\ IsAuto(e))
    BY DEF IsText, IsAuto, IsThread, IsName, IsSlot, GivesText
  <2> QED
    BY <2>1, <2>2, <2>3, <2>4, <2>5, <2>6 DEF Identified
<1>2. size(c) = size(d)
  BY <1>1
<1> QED
  BY <1>1, <1>2 DEF Identified

\* A text cut alike has one namespace and one key.
LEMMA TextCut ==
    ASSUME NEW c \in Calls, NEW d \in Calls, WrittenText(c) = WrittenText(d),
           Len(Of[c].namespace) = Len(Of[d].namespace)
    PROVE  Of[c].namespace = Of[d].namespace /\ Of[c].key = Of[d].key
<1> DEFINE p == Of[c].namespace
           q == Of[d].namespace
           s == Of[c].key
           t == Of[d].key
<1>1. p \in Seq(Strings) /\ q \in Seq(Strings) /\ s \in Seq(Strings) /\ t \in Seq(Strings)
  BY CallsAssumption DEF OfAssumption
<1>2. Len(p) = Len(q) /\ p \o s = q \o t
  BY DEF WrittenText
<1> HIDE DEF p, q, s, t
<1>3. p = q /\ s = t
  BY <1>1, <1>2, CutAlike
<1> QED
  BY <1>3 DEF p, q, s, t

\* The text of a thread and a node has one thread and one name.
LEMMA NodeCut ==
    ASSUME NEW c \in Calls, NEW d \in Calls, NodeText(c) = NodeText(d)
    PROVE  Of[c].thread = Of[d].thread /\ Of[c].func.qualname = Of[d].func.qualname
<1> DEFINE p == Of[c].thread
           q == Of[d].thread
           a == Of[c].func.qualname
           b == Of[d].func.qualname
<1>1. p \in Seq(Strings) /\ q \in Seq(Strings) /\ a \in Strings /\ b \in Strings
  BY CallsAssumption DEF OfAssumption
<1>2. p \o <<a>> = q \o <<b>>
  BY DEF NodeText
<1> HIDE DEF p, q, a, b
<1>3. p = q /\ a = b
  BY <1>1, <1>2, LastAlike
<1> QED
  BY <1>3 DEF p, q, a, b

\* Two texts that are written alike are of one effect.
LEMMA SameTextSameEffect ==
    ASSUME TextsApart, NamesTell, NEW c \in Calls, NEW d \in Calls,
           IsText(c) \/ IsThread(c), IsText(d) \/ IsThread(d),
           (IF IsText(c) THEN WrittenText(c) ELSE NodeText(c))
             = (IF IsText(d) THEN WrittenText(d) ELSE NodeText(d))
    PROVE  Identity[c] = Identity[d]
<1>1. \A e \in {c, d} :
        /\ Of[e].key \in Seq(Strings) /\ Of[e].namespace \in Seq(Strings)
        /\ Of[e].thread \in Seq(Strings) /\ Of[e].func.qualname \in Strings
        /\ Of[e].form = "node" => Of[e].namespace = <<>>
  BY CallsAssumption DEF OfAssumption
<1>2. CASE IsText(c) /\ IsText(d)
  <2>1. WrittenText(c) = WrittenText(d)
    BY <1>2
  <2>2. Len(Of[c].namespace) = Len(Of[d].namespace)
    BY <1>2, <2>1 DEF TextsApart, IsText
  <2>3. Of[c].namespace = Of[d].namespace /\ Of[c].key = Of[d].key
    BY <2>1, <2>2, TextCut
  <2> QED
    BY <1>2, <2>3, SameIdentity
       DEF IdKey, IdFunc, IdTx, IdThread, IdArgs, IsText
<1>3. CASE IsThread(c) /\ IsThread(d)
  <2>1. ~IsText(c) /\ ~IsText(d)
    BY <1>3 DEF IsText, IsThread, GivesText
  <2>2. NodeText(c) = NodeText(d)
    BY <2>1
  <2>3. Of[c].thread = Of[d].thread /\ Of[c].func.qualname = Of[d].func.qualname
    BY <2>2, NodeCut
  <2>4. Of[c].func.id = Of[d].func.id
    BY <1>3, <2>3 DEF NamesTell, IsThread
  <2> QED
    BY <1>1, <1>3, <2>3, <2>4, SameIdentity
       DEF IdKey, IdFunc, IdTx, IdThread, IdArgs, IsThread, GivesText
<1>4. ~(IsText(c) /\ IsThread(d)) /\ ~(IsThread(c) /\ IsText(d))
  <2>1. ASSUME NEW e \in Calls, IsThread(e) PROVE ~IsText(e) /\ Of[e].form = "node" /\ ~GivesText(e)
    BY <2>1 DEF IsText, IsThread, GivesText
  <2> QED
    BY <2>1 DEF TextsApart, IsText
<1> QED
  BY <1>2, <1>3, <1>4

\* Two functions that derive one key are one, called with the same arguments in
\* the same namespace.
LEMMA SameAutoSameEffect ==
    ASSUME NamesTell, NEW c \in Calls, NEW d \in Calls,
           IsAuto(c), IsAuto(d), AutoKey(c) = AutoKey(d)
    PROVE  Identity[c] = Identity[d]
<1> DEFINE f == Of[c].func
           g == Of[d].func
<1>1. /\ Of[c].namespace \in Seq(Strings) /\ Of[d].namespace \in Seq(Strings)
      /\ f.qualname \in Strings /\ g.qualname \in Strings
  BY CallsAssumption DEF OfAssumption
<1>2. /\ Of[c].namespace \o <<"auto", f.qualname>> = Of[d].namespace \o <<"auto", g.qualname>>
      /\ <<f.module, f.qualname, Location(f), NormalizedArgs(c)>>
           = <<g.module, g.qualname, Location(g), NormalizedArgs(d)>>
  BY DEF AutoKey
<1>3. f.module = g.module /\ f.qualname = g.qualname /\ Location(f) = Location(g)
      /\ NormalizedArgs(c) = NormalizedArgs(d)
  BY <1>2
<1>4. Of[c].namespace = Of[d].namespace
  <2>1. "auto" \in Strings
    BY StringsAssumption
  <2>2. <<"auto", f.qualname>> \in Seq(Strings)
    BY <1>1, <2>1, Parts
  <2>3. Of[c].namespace \o <<"auto", f.qualname>> = Of[d].namespace \o <<"auto", f.qualname>>
    BY <1>2, <1>3, Zenon
  <2> HIDE DEF f
  <2> QED
    BY <1>1, <2>2, <2>3, ConcatSimplifications, Zenon
<1>5. f.lambda /\ g.lambda => f.line = g.line
  BY <1>3 DEF Location
<1>6. f.id = g.id
  BY <1>3, <1>5 DEF NamesTell, IsAuto
<1> QED
  BY <1>3, <1>4, <1>6, SameIdentity
     DEF IdKey, IdFunc, IdTx, IdThread, IdArgs, IsAuto, GivesText

\* The calls of tools that have one key are calls of one with the same arguments.
LEMMA SameNameSameEffect ==
    ASSUME NamesTell, StrTells, NEW c \in Calls, NEW d \in Calls,
           IsName(c), IsName(d), NameKey(c) = NameKey(d)
    PROVE  Identity[c] = Identity[d]
<1>1. Of[c].namespace = <<>> /\ Of[d].namespace = <<>>
  BY CallsAssumption DEF OfAssumption, IsName
<1>2. <<Of[c].func.qualname>> = <<Of[d].func.qualname>> /\ StrArgs(c) = StrArgs(d)
  BY DEF NameKey
<1>3. Of[c].func.id = Of[d].func.id
  BY <1>2 DEF NamesTell, IsName
<1>4. NormalizedArgs(c) = NormalizedArgs(d)
  BY <1>2, JsonOfStrArgs DEF IsName
<1>5. IdKey(c) = IdKey(d) /\ IdThread(c) = IdThread(d)
  BY DEF IdKey, IdThread, IsName, GivesText
<1>6. IdFunc(c) = IdFunc(d)
  BY <1>3 DEF IdFunc, IsName, GivesText
<1>7. IdTx(c) = IdTx(d)
  BY DEF IdTx, IsName, GivesText
<1>8. IdArgs(c) = IdArgs(d)
  BY <1>4 DEF IdArgs, IsName, GivesText
<1> QED
  BY <1>1, <1>5, <1>6, <1>7, <1>8, SameIdentity

\* The transactions that have one key are one, but for the way it is written.
LEMMA SameSlotSameEffect ==
    ASSUME TxTell, NEW c \in Calls, NEW d \in Calls,
           IsSlot(c), IsSlot(d), SlotKey(c) = SlotKey(d)
    PROVE  Identity[c] = Identity[d]
<1>1. /\ Of[c].namespace = <<>> /\ Of[d].namespace = <<>>
      /\ Of[c].given = "none" /\ Of[d].given = "none"
  BY CallsAssumption DEF OfAssumption, IsSlot
<1>2. /\ <<"tx", Of[c].tx.chain, Of[c].tx.address, Of[c].tx.nonce>>
           = <<"tx", Of[d].tx.chain, Of[d].tx.address, Of[d].tx.nonce>>
      /\ <<Of[c].tx.data>> = <<Of[d].tx.data>>
  BY DEF SlotKey
<1>3. /\ Of[c].tx.chain = Of[d].tx.chain /\ Of[c].tx.address = Of[d].tx.address
      /\ Of[c].tx.nonce = Of[d].tx.nonce /\ Of[c].tx.data = Of[d].tx.data
  BY <1>2
<1>4. Of[c].tx.to = Of[d].tx.to
  BY <1>3 DEF TxTell, IsSlot
<1>5. [Of[c].tx EXCEPT !.case = "any"] = [Of[d].tx EXCEPT !.case = "any"]
  BY <1>3, <1>4, TxFields
<1>6. IdTx(c) = IdTx(d)
  BY <1>5, Zenon DEF IdTx, IsSlot
<1> QED
  BY <1>1, <1>6, SameIdentity
     DEF IdKey, IdFunc, IdThread, IdArgs, IsSlot, GivesText

\* One key: one function with the same arguments, one node in one thread, one
\* transaction, or one given key in one namespace.
LEMMA SameKeySameEffect ==
    ASSUME TextKeys, TextsApart, NamesTell, StrTells, TxTell,
           NEW c \in Calls, NEW d \in Calls, Resolves(c), Resolves(d),
           Keyed[c] \cap Keyed[d] # {}
    PROVE  Identity[c] = Identity[d]
<1>1. PICK k \in Keyed[c] \cap Keyed[d] : TRUE
  OBVIOUS
<1>2. \A e \in {c, d} :
        /\ IsText(e) => k = TextKey(e)
        /\ IsAuto(e) => k = AutoKey(e)
        /\ IsThread(e) => k = ThreadKey(e)
        /\ IsName(e) => k = NameKey(e)
        /\ IsSlot(e) => k = SlotKey(e)
  BY KeyCases
<1>3. CASE (IsText(c) \/ IsThread(c)) /\ (IsText(d) \/ IsThread(d))
  <2>1. \A e \in {c, d} : k.text = (IF IsText(e) THEN WrittenText(e) ELSE NodeText(e))
    BY <1>2, <1>3 DEF TextKey, ThreadKey
  <2> QED
    BY <1>3, <2>1, SameTextSameEffect
<1>4. CASE IsAuto(c) /\ IsAuto(d)
  BY <1>2, <1>4, SameAutoSameEffect
<1>5. CASE IsName(c) /\ IsName(d)
  BY <1>2, <1>5, SameNameSameEffect
<1>6. CASE IsSlot(c) /\ IsSlot(d)
  BY <1>2, <1>6, SameSlotSameEffect
<1> QED
  BY <1>1, <1>3, <1>4, <1>5, <1>6, SortsApart

-----------------------------------------------------------------------------
(***************************************************************************)
(* Type correctness.                                                       *)
(***************************************************************************)
Hows == {"new", "raised", "ran", "failed", "replayed", "refused"}

\* What the end of a call leaves of the outcomes.
LEMMA EndsType ==
    ASSUME TypeOK, NEW c \in Calls, NEW how \in Hows, NEW by \in Calls, Ends(c, how, by)
    PROVE  /\ outcome' \in [Calls -> [how : Hows, by : Calls]]
           /\ outcome'[c] = [how |-> how, by |-> by]
           /\ \A d \in Calls : d # c => outcome'[d] = outcome[d]
BY DEF TypeOK, Ends, Hows

\* A claim writes its own record and no other.
LEMMA ClaimsRecord ==
    ASSUME NEW c, NEW k, NEW state, Claims(c, k, state)
    PROVE  /\ DOMAIN ledger' = DOMAIN ledger \cup {k}
           /\ ledger'[k] = [state |-> state, fp |-> Fingerprint(c), by |-> c]
           /\ \A l \in DOMAIN ledger : l # k => ledger'[l] = ledger[l]
BY Zenon DEF Claims

\* Every step keeps the types: what is claimed is a key of its call.
LEMMA StepKeepsType == TypeOK /\ [Next]_vars => TypeOK'
<1> SUFFICES ASSUME TypeOK, [Next]_vars PROVE TypeOK'
  OBVIOUS
<1> USE DEF Hows
<1>1. CASE UNCHANGED vars
  BY <1>1 DEF vars, TypeOK
<1>2. ASSUME NEW c \in Calls, Raises(c) PROVE TypeOK'
  <2>1. Ends(c, "raised", c) /\ UNCHANGED ledger
    BY <1>2 DEF Raises
  <2> QED
    BY <2>1, EndsType DEF TypeOK
<1>3. ASSUME NEW c \in Calls, Finds(c) PROVE TypeOK'
  <2>1. PICK k \in Keyed[c] \cap DOMAIN ledger :
          Ends(c, "refused", c) \/ Ends(c, "replayed", ledger[k].by)
    BY <1>3 DEF Finds
  <2>2. ledger[k].by \in Calls /\ UNCHANGED ledger
    BY <1>3 DEF TypeOK, Finds
  <2>3. outcome' \in [Calls -> [how : Hows, by : Calls]]
    BY <2>1, <2>2, EndsType
  <2> QED
    BY <2>2, <2>3 DEF TypeOK
<1>4. ASSUME NEW c \in Calls, Runs(c) PROVE TypeOK'
  <2>1. PICK k \in Keyed[c] \ DOMAIN ledger :
          \/ Claims(c, k, "committed") /\ Ends(c, "ran", c)
          \/ Claims(c, k, "in_flight") /\ Ends(c, "failed", c)
    BY <1>4, Zenon DEF Runs
  <2>2. PICK state \in {"committed", "in_flight"}, how \in {"ran", "failed"} :
          Claims(c, k, state) /\ Ends(c, how, c)
    BY <2>1
  <2>3. outcome' \in [Calls -> [how : Hows, by : Calls]]
    BY <2>2, EndsType
  <2>4. /\ DOMAIN ledger' = DOMAIN ledger \cup {k}
        /\ ledger'[k] = [state |-> state, fp |-> Fingerprint(c), by |-> c]
        /\ \A l \in DOMAIN ledger : l # k => ledger'[l] = ledger[l]
    BY <2>2, ClaimsRecord, Zenon
  <2>5. k.text \in Seq(Strings) /\ (k.text = <<>> => \E d \in Calls : Raw(d) /\ k \in RawKey(d))
    <3>1. CASE Raw(c)
      <4>1. k \in RawKey(c) /\ k.text = <<>>
        BY <3>1, KeyIsRaw
      <4> QED
        BY <3>1, <4>1
    <3>2. CASE ~Raw(c)
      BY <3>2, KeyIsText
    <3> QED
      BY <3>1, <3>2
  <2>6. ASSUME NEW l \in DOMAIN ledger'
        PROVE  /\ l.text \in Seq(Strings)
               /\ l.text = <<>> => \E d \in Calls : Raw(d) /\ l \in RawKey(d)
               /\ ledger'[l].state \in {"in_flight", "committed"} /\ ledger'[l].by \in Calls
    <3>1. CASE l = k
      <4>1. ledger'[k].state = state /\ ledger'[k].by = c
        BY <2>4
      <4> QED
        BY <2>5, <3>1, <4>1
    <3>2. CASE l # k
      BY <2>4, <3>2, Zenon DEF TypeOK
    <3> QED
      BY <3>1, <3>2
  <2> QED
    BY <2>3, <2>6 DEF TypeOK
<1> QED
  BY <1>1, <1>2, <1>3, <1>4 DEF Next

\* At the start nothing is stored.
LEMMA InitType == Init => TypeOK
BY DEF Init, TypeOK

\* Whatever the calls are given, a key in the ledger that is no text is the value that
\* the key callable of a node or a tool returned (langgraph.py:89, crewai.py:77): no
\* decorated call, block or transaction has such a key (keys.py:51-55).
THEOREM TypeCorrect == Spec => []TypeOK
BY InitType, StepKeepsType, PTL DEF Spec

\* Where the key callables of nodes and tools return texts, every key is a text.
THEOREM TextsOnly ==
    ASSUME TextKeys
    PROVE  Spec => []KeysAreTexts
<1>1. ASSUME TypeOK PROVE KeysAreTexts
  BY <1>1 DEF TypeOK, KeysAreTexts, TextKeys, Raw
<1> QED
  BY <1>1, TypeCorrect, PTL

-----------------------------------------------------------------------------
(***************************************************************************)
(* The ledger and the calls that ran.                                      *)
(***************************************************************************)
\* Every record is of a call that ran under its key, with that call's fingerprint.
RecordInv ==
    \A k \in DOMAIN ledger :
        /\ ledger[k].by \in Entered /\ Resolves(ledger[k].by)
        /\ k \in Keyed[ledger[k].by] /\ ledger[k].fp = Fingerprint(ledger[k].by)

\* Every call that ran has its record.
EnteredInv ==
    \A c \in Entered : Resolves(c) /\ \E k \in Keyed[c] \cap DOMAIN ledger : ledger[k].by = c

\* A call was given the result of one that has its key and no other fingerprint.
ReplayInv ==
    \A c \in Calls : outcome[c].how = "replayed" =>
        LET d == outcome[c].by IN
        /\ Resolves(c) /\ Resolves(d) /\ Keyed[c] \cap Keyed[d] # {}
        /\ Of[c].fingerprint = {} \/ Of[d].fingerprint = {} \/ Fingerprint(c) = Fingerprint(d)

KeysInv == TypeOK /\ RecordInv /\ EnteredInv /\ ReplayInv

\* A call has one key at most.
LEMMA OneKey ==
    ASSUME TextKeys, NEW c \in Calls, Resolves(c), NEW k \in Keyed[c], NEW l \in Keyed[c]
    PROVE  k = l
BY KeyCases DEF Identified

\* A call that ends otherwise than by running its effect enters nothing.
LEMMA EntersNothing ==
    ASSUME TypeOK, NEW c \in Calls, NEW how \in {"raised", "replayed", "refused"}, NEW by \in Calls,
           MayBeMade(c), Ends(c, how, by)
    PROVE  Entered' = Entered
<1>1. /\ outcome'[c] = [how |-> how, by |-> by]
      /\ \A d \in Calls : d # c => outcome'[d] = outcome[d]
  BY EndsType DEF Hows
<1>2. outcome'[c].how = how
  BY <1>1
<1> QED
  BY <1>1, <1>2 DEF Entered, MayBeMade

\* The invariant holds at the start.
LEMMA InitKeys == Init => KeysInv
<1> SUFFICES ASSUME Init PROVE KeysInv
  OBVIOUS
<1>1. DOMAIN ledger = {}
  BY DEF Init
<1>2. \A c \in Calls : outcome[c].how = "new"
  BY DEF Init
<1> QED
  BY <1>1, <1>2, InitType DEF KeysInv, RecordInv, EnteredInv, ReplayInv, Entered

\* A call that raises leaves the records and those that ran.
LEMMA RaisesKeys ==
    ASSUME KeysInv, TypeOK', NEW c \in Calls, Raises(c) PROVE KeysInv'
<1>1. MayBeMade(c) /\ Ends(c, "raised", c) /\ UNCHANGED ledger
  BY DEF Raises
<1>2. Entered' = Entered
  BY <1>1, EntersNothing DEF KeysInv
<1>3. outcome'[c].how # "replayed" /\ \A d \in Calls : d # c => outcome'[d] = outcome[d]
  <2>1. /\ outcome'[c] = [how |-> "raised", by |-> c]
        /\ \A d \in Calls : d # c => outcome'[d] = outcome[d]
    BY <1>1, EndsType DEF KeysInv, Hows
  <2> QED
    BY <2>1
<1>4. RecordInv' /\ EnteredInv'
  BY <1>1, <1>2 DEF KeysInv, RecordInv, EnteredInv
<1>5. ReplayInv'
  BY <1>3 DEF KeysInv, ReplayInv
<1> QED
  BY <1>4, <1>5 DEF KeysInv

\* A call that finds its key is given the result of the call that has it.
LEMMA FindsKeys ==
    ASSUME KeysInv, TypeOK', NEW c \in Calls, Finds(c) PROVE KeysInv'
<1>1. PICK k \in Keyed[c] \cap DOMAIN ledger :
        \/ Ends(c, "refused", c)
        \/ ~Clash(c, ledger[k]) /\ Ends(c, "replayed", ledger[k].by)
  BY DEF Finds
<1>2. MayBeMade(c) /\ Resolves(c) /\ UNCHANGED ledger
  BY DEF Finds
<1>3. ledger[k].by \in Calls
  BY DEF KeysInv, TypeOK
<1>4. Entered' = Entered
  BY <1>1, <1>2, <1>3, EntersNothing DEF KeysInv
<1>5. RecordInv' /\ EnteredInv'
  BY <1>2, <1>4 DEF KeysInv, RecordInv, EnteredInv
<1>6. \A d \in Calls : d # c => outcome'[d] = outcome[d]
  BY <1>1, <1>3, EndsType DEF KeysInv, Hows
<1>7. CASE Ends(c, "refused", c)
  <2>1. outcome'[c].how # "replayed"
    <3>1. outcome'[c] = [how |-> "refused", by |-> c]
      BY <1>7, EndsType DEF KeysInv, Hows
    <3> QED
      BY <3>1
  <2>2. ReplayInv'
    BY <1>6, <2>1 DEF KeysInv, ReplayInv
  <2> QED
    BY <1>5, <2>2 DEF KeysInv
<1>8. CASE ~Clash(c, ledger[k]) /\ Ends(c, "replayed", ledger[k].by)
  <2> DEFINE d == ledger[k].by
  <2>1. outcome'[c].by = d
    <3>1. outcome'[c] = [how |-> "replayed", by |-> d]
      BY <1>3, <1>8, EndsType DEF KeysInv, Hows
    <3> QED
      BY <3>1
  <2>2. Resolves(d) /\ k \in Keyed[d] /\ ledger[k].fp = Fingerprint(d)
    BY DEF KeysInv, RecordInv
  <2>3. Of[d].fingerprint # {} => Fingerprint(d) # {}
    BY DEF Fingerprint
  <2>4. Of[c].fingerprint = {} \/ Of[d].fingerprint = {} \/ Fingerprint(c) = Fingerprint(d)
    BY <1>8, <2>2, <2>3 DEF Clash
  <2>5. Keyed[c] \cap Keyed[d] # {}
    BY <2>2
  <2> HIDE DEF d
  <2>6. ReplayInv'
    BY <1>2, <1>6, <2>1, <2>2, <2>4, <2>5 DEF KeysInv, ReplayInv
  <2> QED
    BY <1>5, <2>6 DEF KeysInv
<1> QED
  BY <1>1, <1>7, <1>8

\* The call that runs is new, and its record is.
LEMMA RunsKeys ==
    ASSUME KeysInv, TypeOK', NEW c \in Calls, Runs(c) PROVE KeysInv'
<1>1. PICK k \in Keyed[c] \ DOMAIN ledger :
        \/ Claims(c, k, "committed") /\ Ends(c, "ran", c)
        \/ Claims(c, k, "in_flight") /\ Ends(c, "failed", c)
  BY Zenon DEF Runs
<1>2. PICK state \in {"committed", "in_flight"}, how \in {"ran", "failed"} :
        Claims(c, k, state) /\ Ends(c, how, c)
  BY <1>1
<1>3. /\ DOMAIN ledger' = DOMAIN ledger \cup {k}
      /\ ledger'[k] = [state |-> state, fp |-> Fingerprint(c), by |-> c]
      /\ \A l \in DOMAIN ledger : l # k => ledger'[l] = ledger[l]
  BY <1>2, ClaimsRecord, Zenon
<1>4. ledger'[k].fp = Fingerprint(c) /\ ledger'[k].by = c
  BY <1>3
<1>5. /\ outcome'[c] = [how |-> how, by |-> c]
      /\ \A d \in Calls : d # c => outcome'[d] = outcome[d]
  BY <1>2, EndsType DEF KeysInv, Hows
<1>6. outcome'[c].how \in {"ran", "failed"}
  BY <1>5
<1>7. Entered' = Entered \cup {c} /\ Resolves(c)
  BY <1>5, <1>6 DEF Entered, Runs
<1>8. \A l \in DOMAIN ledger : ledger'[l] = ledger[l]
  BY <1>3
<1>9. RecordInv'
  <2> SUFFICES ASSUME NEW l \in DOMAIN ledger'
               PROVE  /\ ledger'[l].by \in Entered' /\ Resolves(ledger'[l].by)
                      /\ l \in Keyed[ledger'[l].by] /\ ledger'[l].fp = Fingerprint(ledger'[l].by)
    BY DEF RecordInv
  <2>1. CASE l = k
    BY <1>4, <1>7, <2>1
  <2>2. CASE l \in DOMAIN ledger
    BY <1>7, <1>8, <2>2 DEF KeysInv, RecordInv
  <2> QED
    BY <1>3, <2>1, <2>2
<1>10. EnteredInv'
  <2> SUFFICES ASSUME NEW d \in Entered'
               PROVE  Resolves(d) /\ \E l \in Keyed[d] \cap DOMAIN ledger' : ledger'[l].by = d
    BY DEF EnteredInv
  <2>1. CASE d = c
    BY <1>3, <1>4, <1>7, <2>1
  <2>2. CASE d \in Entered
    BY <1>3, <1>8, <2>2 DEF KeysInv, EnteredInv
  <2> QED
    BY <1>7, <2>1, <2>2
<1>11. ReplayInv'
  BY <1>5, <1>6 DEF KeysInv, ReplayInv
<1> QED
  BY <1>9, <1>10, <1>11 DEF KeysInv

\* The invariant is inductive.
LEMMA StepKeepsKeys == KeysInv /\ [Next]_vars => KeysInv'
<1> SUFFICES ASSUME KeysInv, [Next]_vars PROVE KeysInv'
  OBVIOUS
<1>1. TypeOK'
  BY StepKeepsType DEF KeysInv
<1>2. CASE UNCHANGED vars
  BY <1>1, <1>2 DEF vars, KeysInv, RecordInv, EnteredInv, ReplayInv, Entered
<1>3. CASE Next
  BY <1>1, <1>3, RaisesKeys, RunsKeys, FindsKeys, Zenon DEF Next
<1> QED
  BY <1>2, <1>3

\* The invariant always holds.
LEMMA KeysInvariant == Spec => []KeysInv
BY InitKeys, StepKeepsKeys, PTL DEF Spec

\* Where the key callables of nodes and tools return texts and objects given to a
\* tool have a stable str(), one of the calls that ask for one effect runs it: in
\* whatever order its keyword arguments are written, however the address of its
\* transaction is, and whether or not the result can be stored (keys.py:44-46,
\* codec.py:8-12).
THEOREM OneRun ==
    ASSUME TextKeys, StableStr
    PROVE  Spec => []NoSecondEffect
<1>1. ASSUME KeysInv PROVE NoSecondEffect
  <2> SUFFICES ASSUME NEW c \in Entered, NEW d \in Entered, Identity[c] = Identity[d]
               PROVE  c = d
    BY DEF NoSecondEffect
  <2>1. c \in Calls /\ d \in Calls
    BY DEF Entered
  <2>2. PICK k \in Keyed[c] \cap DOMAIN ledger : Resolves(c) /\ ledger[k].by = c
    BY <1>1 DEF KeysInv, EnteredInv
  <2>3. PICK l \in Keyed[d] \cap DOMAIN ledger : Resolves(d) /\ ledger[l].by = d
    BY <1>1 DEF KeysInv, EnteredInv
  <2>4. Keyed[c] = Keyed[d]
    BY <2>1, <2>2, <2>3, SameEffectSameKey
  <2>5. k = l
    BY <2>1, <2>2, <2>3, <2>4, OneKey
  <2> QED
    BY <2>2, <2>3, <2>5
<1> QED
  BY <1>1, KeysInvariant, PTL

\* Where key callables return texts, and texts, functions, tools and transactions can
\* be told apart by what the key is made of, no call is given the result of another
\* effect or of another payload (keys.py:73-75, 114-116; langgraph.py:4-6).
THEOREM OwnResult ==
    ASSUME TextKeys, TextsApart, NamesTell, StrTells, TxTell
    PROVE  Spec => []NoForeignResult
<1>1. ASSUME KeysInv PROVE NoForeignResult
  <2> SUFFICES ASSUME NEW c \in Calls, outcome[c].how = "replayed"
               PROVE  /\ Identity[c] = Identity[outcome[c].by]
                      /\ \/ Of[c].fingerprint = {} \/ Of[outcome[c].by].fingerprint = {}
                         \/ Fingerprint(c) = Fingerprint(outcome[c].by)
    BY DEF NoForeignResult
  <2>1. outcome[c].by \in Calls
    BY <1>1 DEF KeysInv, TypeOK
  <2>2. Resolves(c) /\ Resolves(outcome[c].by) /\ Keyed[c] \cap Keyed[outcome[c].by] # {}
    BY <1>1 DEF KeysInv, ReplayInv
  <2>3. Identity[c] = Identity[outcome[c].by]
    BY <2>1, <2>2, SameKeySameEffect
  <2> QED
    BY <1>1, <2>3 DEF KeysInv, ReplayInv
<1> QED
  BY <1>1, KeysInvariant, PTL
=============================================================================
