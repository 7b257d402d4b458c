-------------------------- MODULE GuardStackProofs --------------------------
(***************************************************************************)
(* Theorems about GuardStack, for any number of blocks, calls, keys and    *)
(* contexts: when the blocks of a context are left by the context that     *)
(* entered them, the last entered first, every block resolves its own      *)
(* guard and every effect sees its own key.                                *)
(***************************************************************************)
EXTENDS GuardStack, TLAPS, SequenceTheorems, WellFoundedInduction

-----------------------------------------------------------------------------
(***************************************************************************)
(* Sequences and maxima.                                                   *)
(***************************************************************************)
\* Append adds at the end and nowhere else.
LEMMA AppendFacts ==
    ASSUME NEW S, NEW s \in Seq(S), NEW e \in S
    PROVE  /\ Append(s, e) \in Seq(S)
           /\ Len(s) \in Nat /\ Len(Append(s, e)) = Len(s) + 1
           /\ \A i \in 1 .. Len(s) : Append(s, e)[i] = s[i]
           /\ Append(s, e)[Len(s) + 1] = e
           /\ DOMAIN s = 1 .. Len(s) /\ DOMAIN Append(s, e) = 1 .. (Len(s) + 1)
BY AppendProperties, LenProperties

\* Front takes the last element away.
LEMMA FrontFacts ==
    ASSUME NEW S, NEW s \in Seq(S), s # <<>>
    PROVE  /\ Front(s) \in Seq(S)
           /\ Len(s) \in Nat \ {0} /\ Len(Front(s)) = Len(s) - 1
           /\ \A i \in 1 .. Len(s) - 1 : Front(s)[i] = s[i]
           /\ DOMAIN s = 1 .. Len(s) /\ DOMAIN Front(s) = 1 .. Len(s) - 1
           /\ Last(s) \in S
<1>1. Len(s) \in Nat \ {0} /\ DOMAIN s = 1 .. Len(s)
  BY EmptySeq, LenProperties
<1>2. 1 \in 1 .. Len(s) + 1 /\ Len(s) - 1 \in 0 .. Len(s)
  BY <1>1
<1>3. /\ SubSeq(s, 1, Len(s) - 1) \in Seq(S)
      /\ Len(SubSeq(s, 1, Len(s) - 1)) = Len(s) - 1
      /\ \A i \in 1 .. Len(s) - 1 : SubSeq(s, 1, Len(s) - 1)[i] = s[i]
  BY <1>1, <1>2, SubSeqProperties
<1> QED
  BY <1>1, <1>3, ElementOfSeq, LenProperties DEF Front, Last

\* RemoveAt yields a sequence of the same elements.
LEMMA RemoveAtType ==
    ASSUME NEW S, NEW s \in Seq(S), NEW i \in DOMAIN s
    PROVE  RemoveAt(s, i) \in Seq(S)
<1>1. Len(s) \in Nat /\ i \in 1 .. Len(s)
  BY LenProperties
<1>2. SubSeq(s, 1, i - 1) \in Seq(S) /\ SubSeq(s, i + 1, Len(s)) \in Seq(S)
  BY <1>1, SubSeqProperties
<1> QED
  BY <1>2, ConcatProperties DEF RemoveAt

\* To remove what is at the end is to take the front.
LEMMA RemoveLast ==
    ASSUME NEW S, NEW s \in Seq(S), s # <<>>
    PROVE  RemoveAt(s, Len(s)) = Front(s)
<1>1. Len(s) \in Nat \ {0}
  BY EmptySeq
<1>2. SubSeq(s, Len(s) + 1, Len(s)) = <<>>
  BY <1>1, SubSeqEmpty
<1>3. SubSeq(s, 1, Len(s) - 1) \in Seq(S)
  BY FrontFacts DEF Front
<1> QED
  BY <1>2, <1>3, ConcatEmptySeq DEF RemoveAt, Front

\* A set of positions that is not empty has a greatest one.
LEMMA MaxFacts ==
    ASSUME NEW n \in Nat, NEW S \in SUBSET (1 .. n), S # {}
    PROVE  Max(S) \in S /\ \A i \in S : i <= Max(S)
<1> DEFINE T == {n - i : i \in S}
<1>1. T \subseteq Nat /\ T # {}
  <2>1. \A i \in S : n - i \in Nat
    OBVIOUS
  <2> QED
    BY <2>1, Zenon
<1>2. PICK m \in T : \A k \in T : ~(k < m)
  <2>1. PICK m \in T : \A k \in T : ~(<<k, m>> \in OpToRel(<, Nat))
    BY <1>1, NatLessThanWellFounded, WFMin, Zenon
  <2> QED
    BY <1>1, <2>1 DEF OpToRel
<1>3. PICK i \in S : m = n - i
  OBVIOUS
<1>4. \A j \in S : i >= j
  <2> TAKE j \in S
  <2>1. n - j \in T
    OBVIOUS
  <2>2. ~(n - j < n - i)
    BY <2>1, <1>2, <1>3
  <2> QED
    BY <2>2
<1>5. \E k \in S : \A j \in S : k >= j
  BY <1>4
<1>6. Max(S) \in S /\ \A j \in S : Max(S) >= j
  BY <1>5 DEF Max
<1> QED
  BY <1>6

-----------------------------------------------------------------------------
(***************************************************************************)
(* Type correctness.                                                       *)
(***************************************************************************)
\* The keys of blocks are keys.
LEMMA KeyType == ASSUME NEW b \in Blocks PROVE Key[b] \in Keys
BY Zenon DEF Keys

\* A ledger in which a result was stored is a ledger.
LEMMA StoredType ==
    ASSUME NEW l \in [Keys -> Record], NEW k \in Keys, NEW r \in Blocks \cup {None}
    PROVE  [l EXCEPT ![k].state = "committed", ![k].result = r] \in [Keys -> Record]
<1> DEFINE l1 == [l EXCEPT ![k] = [l[k] EXCEPT !.state = "committed"]]
           l2 == [l1 EXCEPT ![k] = [l1[k] EXCEPT !.result = r]]
<1>1. \A rec \in Record : /\ [rec EXCEPT !.state = "committed"] \in Record
                         /\ [rec EXCEPT !.result = r] \in Record
  BY SMTT(30) DEF Record
<1>2. l1 \in [Keys -> Record]
  BY <1>1, Zenon
<1> HIDE DEF l1
<1>3. l2 \in [Keys -> Record]
  BY <1>1, <1>2, Zenon
<1> QED
  BY <1>3, Zenon DEF l1

\* Entering a block keeps the types of what the blocks share.
LEMMA EnterType ==
    ASSUME BlockTypeOK, NEW b \in Blocks, Enter(b)
    PROVE  BlockTypeOK'
<1> USE DEF BlockTypeOK, Guards, Record
<1> DEFINE k == Key[b]
<1>0. k \in Keys /\ ledger[k] \in Record
  BY KeyType
<1> HIDE DEF k
<1>1. CASE Takes(b) /\ k = Key[b]
  <2>1. [state |-> "in_flight", by |-> b, result |-> None] \in Record
    OBVIOUS
  <2> QED
    BY <1>0, <1>1, <2>1, SMTT(30) DEF Takes, Opened
<1>2. CASE \E r \in Blocks \cup {None} : Settles(b, r)
  BY <1>2, SMTT(30) DEF Settles, Opened
<1>3. CASE /\ ledger' = [ledger EXCEPT ![k].state = "committed",
                                       ![k].result = ledger[k].by]
           /\ Opened(b, "settled", ledger[k].by)
           /\ UNCHANGED beating
  <2>1. ledger[k].by \in Blocks \cup {None}
    BY <1>0
  <2>2. ledger' \in [Keys -> Record]
    BY <1>0, <1>3, <2>1, StoredType, Zenon
  <2> QED
    BY <1>3, <2>1, <2>2, SMTT(30) DEF Opened
<1>4. CASE Opened(b, "unguarded", None) /\ UNCHANGED <<ledger, beating>>
  BY <1>4, SMTT(30) DEF Opened
<1>5. CASE Refuses(b)
  BY <1>5, SMTT(30) DEF Refuses
<1> QED
  BY <1>0, <1>1, <1>2, <1>3, <1>4, <1>5, SMTT(30) DEF Enter, k

\* So does the body of a block ...
LEMMA AssignType ==
    ASSUME BlockTypeOK, NEW b \in Blocks, Assign(b)
    PROVE  BlockTypeOK'
BY SMTT(30) DEF BlockTypeOK, Assign

\* ... and leaving it, whatever guard is resolved.
LEMMA ResolveType ==
    ASSUME BlockTypeOK, NEW b \in Blocks, NEW g \in Blocks \cup {None}, Resolve(b, g)
    PROVE  BlockTypeOK'
<1> USE DEF BlockTypeOK
<1>1. ledger' \in [Keys -> Record]
  <2>1. CASE g = None
    BY <2>1 DEF Resolve
  <2>2. CASE g \in Blocks
    <3>1. Key[g] \in Keys /\ result[g] \in Blocks \cup {None}
      BY <2>2, KeyType
    <3>2. [ledger EXCEPT ![Key[g]].state = "committed", ![Key[g]].result = result[g]]
            \in [Keys -> Record]
      BY <3>1, StoredType, Zenon
    <3> QED
      BY <3>2, Zenon DEF Resolve
  <2> QED
    BY <2>1, <2>2
<1> QED
  BY <1>1, SMTT(30) DEF Resolve

\* What entering changes of the phases, the guards and the heartbeats.
LEMMA EnterFrame ==
    ASSUME BlockTypeOK, NEW b \in Blocks, Enter(b)
    PROVE  /\ phase[b] = "new" /\ phase'[b] \in {"open", "over"}
           /\ phase'[b] = "over" => UNCHANGED <<ledger, guard, result, beating>>
           /\ \A c \in Blocks \ {b} : phase'[c] = phase[c] /\ guard'[c] = guard[c]
           /\ beating' \subseteq beating \cup {b}
BY SMTT(30) DEF BlockTypeOK, Enter, Takes, Settles, Refuses, Opened, Guards

\* The initial states are well typed.
LEMMA InitType == Init => TypeOK
<1> SUFFICES ASSUME Init PROVE TypeOK
  OBVIOUS
<1>1. BlockTypeOK
  BY DEF Init, BlockInit, BlockTypeOK, Record
<1>2. <<>> \in Seq(Blocks)
  BY EmptySeq
<1> QED
  BY <1>1, <1>2, ContextsAssumption DEF Init, TypeOK

\* Every step keeps the types, in whatever order the blocks are left.
LEMMA NextType == TypeOK /\ [Next]_vars => TypeOK'
<1> SUFFICES ASSUME TypeOK, [Next]_vars PROVE TypeOK'
  OBVIOUS
<1> USE DEF TypeOK
<1>o. \A x \in Contexts : body[x] # <<>> => Last(body[x]) \in Blocks
  BY FrontFacts
<1>1. ASSUME NEW x \in Contexts, Body(x) PROVE TypeOK'
  BY <1>1, <1>o, AssignType DEF Body
<1>2. ASSUME NEW x \in Contexts, ExitCall(x) PROVE TypeOK'
  <2>1. BlockTypeOK'
    BY <1>2, <1>o, ResolveType DEF ExitCall
  <2>2. body' \in [Contexts -> Seq(Blocks)]
    <3>1. Front(body[x]) \in Seq(Blocks)
      BY <1>2, FrontFacts DEF ExitCall
    <3> QED
      BY <1>2, <3>1 DEF ExitCall
  <2>3. current' \in [Contexts -> Keys \cup {None}]
    BY <1>2, <1>o DEF ExitCall, Restored
  <2> QED
    BY <1>2, <2>1, <2>2, <2>3 DEF ExitCall
<1>3. ASSUME NEW x \in Contexts, NEW y \in Contexts, Spawn(x, y) PROVE TypeOK'
  <2>1. OwnKey(x) \in Keys \cup {None}
    <3> DEFINE calls == {i \in DOMAIN body[x] : Guarded(body[x][i])}
    <3>1. CASE calls = {}
      BY <3>1 DEF OwnKey
    <3>2. CASE calls # {}
      <4>1. Len(body[x]) \in Nat /\ DOMAIN body[x] = 1 .. Len(body[x])
        BY LenProperties
      <4>2. Max(calls) \in calls
        BY <3>2, <4>1, MaxFacts
      <4>3. body[x][Max(calls)] \in Blocks
        BY <4>1, <4>2, ElementOfSeq
      <4> QED
        BY <3>2, <4>3, KeyType DEF OwnKey
    <3> QED
      BY <3>1, <3>2
  <2>2. BlockTypeOK'
    BY <1>3 DEF Spawn, blockVars, BlockTypeOK
  <2>3. /\ cm_stack' \in [Contexts -> Seq(Blocks)]
        /\ current' \in [Contexts -> Keys \cup {None}]
        /\ inherited' \in [Contexts -> Keys \cup {None}]
    BY <1>3, <2>1, Zenon DEF Spawn
  <2> QED
    BY <1>3, <2>2, <2>3 DEF Spawn
<1>4. ASSUME NEW x \in Contexts, NEW b \in Blocks, Begins(x, b)
      PROVE  /\ BlockTypeOK' /\ body' \in [Contexts -> Seq(Blocks)]
             /\ Append(cm_stack[x], b) \in Seq(Blocks)
             /\ UNCHANGED <<live, inherited>>
  <2>1. Append(body[x], b) \in Seq(Blocks) /\ Append(cm_stack[x], b) \in Seq(Blocks)
    BY AppendFacts
  <2> QED
    BY <1>4, <2>1, EnterType DEF Begins
<1>5. ASSUME NEW x \in Contexts, NEW b \in Blocks, EnterWith(x, b) PROVE TypeOK'
  BY <1>4, <1>5 DEF EnterWith, Pushed
<1>6. ASSUME NEW x \in Contexts, NEW b \in Blocks, EnterCall(x, b) PROVE TypeOK'
  BY <1>4, <1>6, KeyType DEF EnterCall
<1>7. ASSUME NEW x \in Contexts, NEW z \in Contexts, NEW i \in DOMAIN body[z],
             ExitWith(x, z, i)
      PROVE  TypeOK'
  <2>1. body[z][i] \in Blocks
    BY ElementOfSeq, LenProperties
  <2>2. Popped(x) \in Blocks \cup {None}
    BY FrontFacts DEF Popped
  <2>3. BlockTypeOK'
    BY <1>7, <2>1, <2>2, ResolveType DEF ExitWith
  <2>4. body' \in [Contexts -> Seq(Blocks)]
    <3>1. RemoveAt(body[z], i) \in Seq(Blocks)
      BY RemoveAtType
    <3> QED
      BY <1>7, <3>1 DEF ExitWith
  <2>5. cm_stack' \in [Contexts -> Seq(Blocks)]
    BY <1>7, FrontFacts DEF ExitWith
  <2> QED
    BY <1>7, <2>3, <2>4, <2>5 DEF ExitWith
<1>8. CASE UNCHANGED vars
  BY <1>8 DEF vars, blockVars, BlockTypeOK
<1> QED
  BY <1>1, <1>2, <1>3, <1>5, <1>6, <1>7, <1>8 DEF Next

-----------------------------------------------------------------------------
(***************************************************************************)
(* The invariants.                                                         *)
(***************************************************************************)
\* A block or call that some context is in the body of is open, and is in one
\* body, once; a context that has not started is in none; a block that was not
\* entered holds no claim.
BodyInv ==
    /\ \A x \in Contexts : \A i \in DOMAIN body[x] : phase[body[x][i]] = "open"
    /\ \A x, y \in Contexts : \A i \in DOMAIN body[x], j \in DOMAIN body[y] :
          body[x][i] = body[y][j] => x = y /\ i = j
    /\ \A x \in Contexts \ live : body[x] = <<>>
    /\ \A b \in Blocks : phase[b] = "new" => guard[b] # "fresh"

\* h[i] is how deep the stack was in the first i of the bodies s: a block
\* added its guard, a call none, and nothing above them is left.
Depths(s, stack, h) ==
    LET n == Len(s) IN
    /\ h \in [0 .. n -> 0 .. Len(stack)]
    /\ h[n] = Len(stack)
    /\ \A i \in 0 .. n, j \in 0 .. n : i <= j => h[i] <= h[j]
    /\ \A i \in 1 .. n :
          IF s[i] \in Calls THEN h[i] = h[i - 1]
          ELSE h[i] = h[i - 1] + 1 /\ stack[h[i]] = s[i]

\* The stack of a context is what it inherited, then the guards of the blocks
\* it is in, in the order it entered them.
StackInv == \A x \in Contexts : \E h : Depths(body[x], cm_stack[x], h)

\* The key of the innermost of the calls G among the first n of the bodies s.
Innermost(s, G, inh, n) ==
    LET calls == {i \in 1 .. n : s[i] \in G}
    IN  IF calls = {} THEN inh ELSE Key[s[Max(calls)]]

GuardedCalls == {b \in Blocks : Guarded(b)}

KeyAt(x, n) == Innermost(body[x], GuardedCalls, inherited[x], n)

\* _current_key is the key of the innermost guarded call, and each of those
\* calls will restore what was there when it began.
KeyInv ==
    \A x \in Contexts :
       /\ current[x] = KeyAt(x, Len(body[x]))
       /\ \A i \in 1 .. Len(body[x]) :
             body[x][i] \in GuardedCalls => token[body[x][i]] = KeyAt(x, i - 1)

Inv == TypeOK /\ BodyInv /\ StackInv /\ KeyInv /\ HeartbeatEndsWithBlock

-----------------------------------------------------------------------------
(***************************************************************************)
(* How deep a stack is.                                                    *)
(***************************************************************************)
\* A context that is in no body has the stack it started with.
LEMMA DepthsEmpty ==
    ASSUME NEW stack \in Seq(Blocks)
    PROVE  \E h : Depths(<<>>, stack, h)
<1>1. Len(stack) \in Nat /\ Len(<<>>) = 0
  BY LenProperties, EmptySeq
<1>2. Depths(<<>>, stack, [i \in 0 .. 0 |-> Len(stack)])
  BY <1>1 DEF Depths
<1> QED
  BY <1>2

\* __enter__ pushes the guard of the block that is entered.
LEMMA DepthsPushBlock ==
    ASSUME NEW s \in Seq(Blocks), NEW stack \in Seq(Blocks), NEW b \in Blocks \ Calls,
           NEW h, Depths(s, stack, h)
    PROVE  \E k : Depths(Append(s, b), Append(stack, b), k)
<1> DEFINE n == Len(s)
           d == Len(stack)
           k == [i \in 0 .. n + 1 |-> IF i <= n THEN h[i] ELSE d + 1]
<1>1. /\ n \in Nat /\ Len(Append(s, b)) = n + 1
      /\ \A i \in 1 .. n : Append(s, b)[i] = s[i]
      /\ Append(s, b)[n + 1] = b
  BY AppendFacts
<1>2. /\ d \in Nat /\ Len(Append(stack, b)) = d + 1
      /\ \A i \in 1 .. d : Append(stack, b)[i] = stack[i]
      /\ Append(stack, b)[d + 1] = b
  BY AppendFacts
<1>3. /\ h \in [0 .. n -> 0 .. d] /\ h[n] = d
      /\ \A i \in 0 .. n, j \in 0 .. n : i <= j => h[i] <= h[j]
      /\ \A i \in 1 .. n : IF s[i] \in Calls THEN h[i] = h[i - 1]
                           ELSE h[i] = h[i - 1] + 1 /\ stack[h[i]] = s[i]
  BY DEF Depths
<1> HIDE DEF n, d
<1>4. k \in [0 .. n + 1 -> 0 .. d + 1] /\ k[n + 1] = d + 1
  BY <1>1, <1>2, <1>3
<1>5. \A i \in 0 .. n + 1, j \in 0 .. n + 1 : i <= j => k[i] <= k[j]
  BY <1>1, <1>2, <1>3
<1>6. ASSUME NEW i \in 1 .. n + 1
      PROVE  IF Append(s, b)[i] \in Calls THEN k[i] = k[i - 1]
             ELSE k[i] = k[i - 1] + 1 /\ Append(stack, b)[k[i]] = Append(s, b)[i]
  <2>1. CASE i = n + 1
    BY <1>1, <1>2, <1>3, <2>1
  <2>2. CASE i \in 1 .. n
    <3>1. k[i] = h[i] /\ k[i - 1] = h[i - 1] /\ h[i] \in 0 .. d /\ h[i - 1] \in 0 .. d
      BY <1>1, <1>3, <2>2
    <3>2. Append(s, b)[i] = s[i]
      BY <1>1, <2>2
    <3>3. CASE s[i] \in Calls
      BY <1>3, <2>2, <3>1, <3>2, <3>3
    <3>4. CASE s[i] \notin Calls
      <4>1. h[i] = h[i - 1] + 1 /\ stack[h[i]] = s[i]
        BY <1>3, <2>2, <3>4
      <4>2. h[i] \in 1 .. d
        BY <1>2, <3>1, <4>1
      <4> QED
        BY <1>2, <3>1, <3>2, <3>4, <4>1, <4>2
    <3> QED
      BY <3>3, <3>4
  <2>3. i = n + 1 \/ i \in 1 .. n
    BY <1>1
  <2> QED
    BY <2>1, <2>2, <2>3, Zenon
<1> HIDE DEF k
<1>7. Depths(Append(s, b), Append(stack, b), k)
  BY <1>1, <1>2, <1>4, <1>5, <1>6 DEF Depths
<1> QED
  BY <1>7

\* A decorated call pushes nothing.
LEMMA DepthsPushCall ==
    ASSUME NEW s \in Seq(Blocks), NEW stack \in Seq(Blocks), NEW b \in Calls,
           NEW h, Depths(s, stack, h)
    PROVE  \E k : Depths(Append(s, b), stack, k)
<1> DEFINE n == Len(s)
           d == Len(stack)
           k == [i \in 0 .. n + 1 |-> IF i <= n THEN h[i] ELSE d]
<1>1. /\ n \in Nat /\ Len(Append(s, b)) = n + 1
      /\ \A i \in 1 .. n : Append(s, b)[i] = s[i]
      /\ Append(s, b)[n + 1] = b
  BY AppendFacts, ContextsAssumption
<1>2. d \in Nat
  BY LenProperties
<1>3. /\ h \in [0 .. n -> 0 .. d] /\ h[n] = d
      /\ \A i \in 0 .. n, j \in 0 .. n : i <= j => h[i] <= h[j]
      /\ \A i \in 1 .. n : IF s[i] \in Calls THEN h[i] = h[i - 1]
                           ELSE h[i] = h[i - 1] + 1 /\ stack[h[i]] = s[i]
  BY DEF Depths
<1> HIDE DEF n, d
<1>4. k \in [0 .. n + 1 -> 0 .. d] /\ k[n + 1] = d
  BY <1>1, <1>2, <1>3
<1>5. \A i \in 0 .. n + 1, j \in 0 .. n + 1 : i <= j => k[i] <= k[j]
  BY <1>1, <1>2, <1>3
<1>6. ASSUME NEW i \in 1 .. n + 1
      PROVE  IF Append(s, b)[i] \in Calls THEN k[i] = k[i - 1]
             ELSE k[i] = k[i - 1] + 1 /\ stack[k[i]] = Append(s, b)[i]
  <2>1. CASE i = n + 1
    BY <1>1, <1>2, <1>3, <2>1
  <2>2. CASE i \in 1 .. n
    <3>1. k[i] = h[i] /\ k[i - 1] = h[i - 1] /\ Append(s, b)[i] = s[i]
      BY <1>1, <1>3, <2>2
    <3> QED
      BY <1>3, <2>2, <3>1
  <2>3. i = n + 1 \/ i \in 1 .. n
    BY <1>1
  <2> QED
    BY <2>1, <2>2, <2>3, Zenon
<1> HIDE DEF k
<1>7. Depths(Append(s, b), stack, k)
  BY <1>1, <1>2, <1>4, <1>5, <1>6 DEF Depths, n, d
<1> QED
  BY <1>7

\* __exit__ of the innermost block finds that block's guard on top, and takes
\* it off; the return of a call leaves the stack alone.
LEMMA DepthsPop ==
    ASSUME NEW s \in Seq(Blocks), s # <<>>, NEW stack \in Seq(Blocks),
           NEW h, Depths(s, stack, h)
    PROVE  /\ Last(s) \in Calls => \E k : Depths(Front(s), stack, k)
           /\ Last(s) \notin Calls =>
                /\ stack # <<>> /\ Last(stack) = Last(s)
                /\ \E k : Depths(Front(s), Front(stack), k)
<1> DEFINE n == Len(s)
           d == Len(stack)
           k == [i \in 0 .. n - 1 |-> h[i]]
<1>1. /\ n \in Nat \ {0} /\ Len(Front(s)) = n - 1 /\ Last(s) = s[n]
      /\ \A i \in 1 .. n - 1 : Front(s)[i] = s[i]
  BY FrontFacts DEF Last
<1>2. d \in Nat
  BY LenProperties
<1>3. /\ h \in [0 .. n -> 0 .. d] /\ h[n] = d
      /\ \A i \in 0 .. n, j \in 0 .. n : i <= j => h[i] <= h[j]
      /\ \A i \in 1 .. n : IF s[i] \in Calls THEN h[i] = h[i - 1]
                           ELSE h[i] = h[i - 1] + 1 /\ stack[h[i]] = s[i]
  BY DEF Depths
<1>4. ASSUME NEW top, Len(top) = h[n - 1], \A i \in 1 .. h[n - 1] : top[i] = stack[i]
      PROVE  Depths(Front(s), top, k)
  <2>0. Len(Front(s)) = n - 1
    BY <1>1
  <2> HIDE DEF n, d
  <2>1. /\ k \in [0 .. n - 1 -> 0 .. h[n - 1]] /\ k[n - 1] = h[n - 1]
        /\ \A i \in 0 .. n - 1, j \in 0 .. n - 1 : i <= j => k[i] <= k[j]
    BY <1>1, <1>2, <1>3
  <2>2. ASSUME NEW i \in 1 .. n - 1
        PROVE  IF Front(s)[i] \in Calls THEN k[i] = k[i - 1]
               ELSE k[i] = k[i - 1] + 1 /\ top[k[i]] = Front(s)[i]
    <3>1. /\ k[i] = h[i] /\ k[i - 1] = h[i - 1] /\ Front(s)[i] = s[i]
          /\ h[i - 1] \in Nat /\ h[i] \in 0 .. h[n - 1]
      BY <1>1, <1>2, <1>3
    <3>2. CASE s[i] \in Calls
      BY <1>1, <1>3, <3>1, <3>2
    <3>3. CASE s[i] \notin Calls
      <4>1. h[i] = h[i - 1] + 1 /\ stack[h[i]] = s[i]
        BY <1>1, <1>3, <3>3
      <4>2. h[i] \in 1 .. h[n - 1]
        BY <1>1, <1>2, <1>3, <3>1, <4>1
      <4> QED
        BY <1>4, <3>1, <3>3, <4>1, <4>2
    <3> QED
      BY <3>2, <3>3
  <2> HIDE DEF k
  <2> QED
    BY <1>4, <2>0, <2>1, <2>2 DEF Depths
<1>5. CASE Last(s) \in Calls
  <2>1. h[n - 1] = d
    BY <1>1, <1>3, <1>5
  <2>2. Depths(Front(s), stack, k)
    BY <1>4, <2>1
  <2> QED
    BY <1>5, <2>2
<1>6. CASE Last(s) \notin Calls
  <2>1. d = h[n - 1] + 1 /\ stack[d] = Last(s) /\ h[n - 1] \in Nat
    <3> HIDE DEF n, d
    <3> QED
      BY <1>1, <1>2, <1>3, <1>6
  <2>2. stack # <<>>
    BY <2>1, EmptySeq
  <2>3. /\ Len(Front(stack)) = h[n - 1] /\ Last(stack) = Last(s)
        /\ \A i \in 1 .. h[n - 1] : Front(stack)[i] = stack[i]
    <3>1. h[n - 1] = d - 1
      BY <1>2, <2>1
    <3> QED
      BY <2>1, <2>2, <3>1, FrontFacts DEF Last
  <2>4. Depths(Front(s), Front(stack), k)
    BY <1>4, <2>3
  <2> QED
    BY <1>6, <2>2, <2>3, <2>4
<1> QED
  BY <1>5, <1>6

-----------------------------------------------------------------------------
(***************************************************************************)
(* The innermost call.                                                     *)
(***************************************************************************)
\* It is the last body if that is one of the calls, or else the innermost of
\* the others.
LEMMA InnermostLast ==
    ASSUME NEW s, NEW G, NEW inh, NEW n \in Nat \ {0}
    PROVE  /\ s[n] \in G => Innermost(s, G, inh, n) = Key[s[n]]
           /\ s[n] \notin G => Innermost(s, G, inh, n) = Innermost(s, G, inh, n - 1)
<1>1. ASSUME s[n] \in G PROVE Innermost(s, G, inh, n) = Key[s[n]]
  <2> DEFINE calls == {i \in 1 .. n : s[i] \in G}
  <2>1. n \in calls
    BY <1>1
  <2>2. Max(calls) \in calls /\ n <= Max(calls)
    BY <2>1, MaxFacts
  <2>3. Max(calls) = n
    BY <2>2
  <2> QED
    BY <2>1, <2>3 DEF Innermost
<1>2. ASSUME s[n] \notin G
      PROVE  Innermost(s, G, inh, n) = Innermost(s, G, inh, n - 1)
  <2>1. {i \in 1 .. n : s[i] \in G} = {i \in 1 .. n - 1 : s[i] \in G}
    BY <1>2
  <2> QED
    BY <2>1 DEF Innermost
<1> QED
  BY <1>1, <1>2

\* In no body there is none.
LEMMA InnermostNone ==
    ASSUME NEW s, NEW G, NEW inh
    PROVE  Innermost(s, G, inh, 0) = inh
BY DEF Innermost

\* It depends on nothing but the bodies it is looked for in.
LEMMA InnermostStays ==
    ASSUME NEW s, NEW t, NEW G, NEW H, NEW inh, NEW n \in Nat,
           \A i \in 1 .. n : t[i] = s[i] /\ (s[i] \in G <=> s[i] \in H)
    PROVE  Innermost(t, H, inh, n) = Innermost(s, G, inh, n)
<1> DEFINE calls == {i \in 1 .. n : s[i] \in G}
<1>1. calls = {i \in 1 .. n : t[i] \in H}
  OBVIOUS
<1>2. CASE calls = {}
  BY <1>1, <1>2 DEF Innermost
<1>3. CASE calls # {}
  <2>1. Max(calls) \in 1 .. n
    BY <1>3, MaxFacts
  <2>2. t[Max(calls)] = s[Max(calls)]
    BY <2>1
  <2> QED
    BY <1>1, <1>3, <2>2 DEF Innermost
<1> QED
  BY <1>2, <1>3

\* What Spawn and CurrentKeyIsOwn call the own key of a context.
LEMMA OwnKeyIsKeyAt ==
    ASSUME TypeOK, NEW x \in Contexts
    PROVE  OwnKey(x) = KeyAt(x, Len(body[x]))
<1>1. /\ Len(body[x]) \in Nat /\ DOMAIN body[x] = 1 .. Len(body[x])
      /\ \A i \in 1 .. Len(body[x]) : body[x][i] \in Blocks
  BY LenProperties, ElementOfSeq DEF TypeOK
<1>2. {i \in DOMAIN body[x] : Guarded(body[x][i])}
        = {i \in 1 .. Len(body[x]) : body[x][i] \in GuardedCalls}
  BY <1>1 DEF GuardedCalls
<1> QED
  BY <1>2 DEF OwnKey, KeyAt, Innermost

-----------------------------------------------------------------------------
(***************************************************************************)
(* What the steps do to the bodies.                                        *)
(***************************************************************************)
\* A body is a sequence of blocks.
LEMMA BodyFacts ==
    ASSUME TypeOK, NEW x \in Contexts
    PROVE  /\ body[x] \in Seq(Blocks)
           /\ Len(body[x]) \in Nat /\ DOMAIN body[x] = 1 .. Len(body[x])
           /\ \A i \in 1 .. Len(body[x]) : body[x][i] \in Blocks
BY LenProperties, ElementOfSeq DEF TypeOK

\* A block that is entered is in no body yet, and is then in x's.
LEMMA BeginsFacts ==
    ASSUME TypeOK, BodyInv, NEW x \in Contexts, NEW b \in Blocks, Begins(x, b)
    PROVE  /\ \A y \in Contexts : \A i \in DOMAIN body[y] : body[y][i] # b
           /\ phase'[b] = "over" => body' = body /\ guard'[b] # "fresh"
           /\ phase'[b] = "open" => body' = [body EXCEPT ![x] = Append(body[x], b)]
           /\ \A c \in Blocks \ {b} : phase'[c] = phase[c] /\ guard'[c] = guard[c]
           /\ UNCHANGED <<live, inherited>> /\ x \in live
<1>1. phase[b] = "new" /\ (phase'[b] = "over" => guard' = guard)
  BY EnterFrame DEF Begins, TypeOK
<1>2. \A c \in Blocks \ {b} : phase'[c] = phase[c] /\ guard'[c] = guard[c]
  BY EnterFrame DEF Begins, TypeOK
<1>3. \A y \in Contexts : \A i \in DOMAIN body[y] : body[y][i] # b
  BY <1>1 DEF BodyInv
<1>4. phase'[b] = "over" => guard'[b] # "fresh"
  BY <1>1 DEF BodyInv
<1> QED
  BY <1>2, <1>3, <1>4 DEF Begins, Runs

\* After a block was entered bodies are distinct and heartbeats have one.
LEMMA BeginsKeeps ==
    ASSUME Inv, NEW x \in Contexts, NEW b \in Blocks, Begins(x, b)
    PROVE  BodyInv' /\ HeartbeatEndsWithBlock'
<1> USE DEF Inv
<1>1. /\ phase[b] = "new" /\ phase'[b] \in {"open", "over"}
      /\ phase'[b] = "over" => beating' = beating
      /\ beating' \subseteq beating \cup {b}
  BY EnterFrame DEF Begins, TypeOK
<1>0. \A c \in Blocks : phase'[c] = "new" => guard'[c] # "fresh"
  <2>1. \A c \in Blocks \ {b} : phase'[c] = phase[c] /\ guard'[c] = guard[c]
    BY BeginsFacts
  <2> QED
    BY <1>1, <2>1 DEF BodyInv
<1>2. CASE phase'[b] = "over"
  <2>1. body' = body /\ live' = live /\ beating' = beating
    BY <1>1, <1>2, BeginsFacts
  <2>2. \A y \in Contexts : \A i \in DOMAIN body[y] : phase'[body[y][i]] = "open"
    BY BeginsFacts, BodyFacts DEF BodyInv
  <2> QED
    BY <1>0, <2>1, <2>2 DEF BodyInv, HeartbeatEndsWithBlock
<1>3. CASE phase'[b] = "open"
  <2> DEFINE n == Len(body[x])
  <2>1. /\ n \in Nat /\ DOMAIN body'[x] = 1 .. n + 1
        /\ \A i \in 1 .. n : body'[x][i] = body[x][i]
        /\ body'[x][n + 1] = b
        /\ DOMAIN body[x] = 1 .. n
    <3>1. body'[x] = Append(body[x], b)
      BY <1>3, BeginsFacts DEF TypeOK
    <3> QED
      BY <3>1, BodyFacts, AppendFacts
  <2>2. \A y \in Contexts \ {x} : body'[y] = body[y]
    BY <1>3, BeginsFacts DEF TypeOK
  <2> HIDE DEF n
  <2>3. ASSUME NEW y \in Contexts, NEW i \in DOMAIN body'[y]
        PROVE  \/ y = x /\ i = n + 1 /\ body'[y][i] = b
               \/ i \in DOMAIN body[y] /\ body'[y][i] = body[y][i] /\ body[y][i] # b
    BY <2>1, <2>2, BeginsFacts
  <2>4. ASSUME NEW y \in Contexts, NEW i \in DOMAIN body'[y]
        PROVE  phase'[body'[y][i]] = "open"
    BY <1>3, <2>3, BeginsFacts, BodyFacts DEF BodyInv
  <2>5. ASSUME NEW y \in Contexts, NEW z \in Contexts,
               NEW i \in DOMAIN body'[y], NEW j \in DOMAIN body'[z],
               body'[y][i] = body'[z][j]
        PROVE  y = z /\ i = j
    BY <2>3, <2>5 DEF BodyInv
  <2>6. \A y \in Contexts \ live' : body'[y] = <<>>
    BY <2>2, BeginsFacts DEF BodyInv
  <2>7. HeartbeatEndsWithBlock'
    <3> SUFFICES ASSUME NEW c \in beating'
                 PROVE  \E y \in Contexts : \E i \in DOMAIN body'[y] : body'[y][i] = c
      BY DEF HeartbeatEndsWithBlock, ToSet
    <3>1. CASE c = b
      BY <2>1, <3>1
    <3>2. CASE c \in beating
      <4>1. PICK y \in Contexts : \E i \in DOMAIN body[y] : body[y][i] = c
        BY <3>2 DEF HeartbeatEndsWithBlock, ToSet
      <4>2. PICK i \in DOMAIN body[y] : body[y][i] = c
        BY <4>1
      <4>3. i \in DOMAIN body'[y] /\ body'[y][i] = c
        BY <2>1, <2>2, <4>2
      <4> QED
        BY <4>3
    <3> QED
      BY <1>1, <3>1, <3>2
  <2> QED
    BY <1>0, <2>4, <2>5, <2>6, <2>7 DEF BodyInv
<1> QED
  BY <1>1, <1>2, <1>3

\* The innermost block or call of x is left and resolves its own guard.
Leaves(x) ==
    /\ body[x] # <<>>
    /\ Resolve(Last(body[x]), Last(body[x]))
    /\ body' = [body EXCEPT ![x] = Front(body[x])]
    /\ UNCHANGED <<live, token, inherited>>

\* Then what stays in the bodies is what was below it.
LEMMA LeavesFacts ==
    ASSUME TypeOK, NEW x \in Contexts, Leaves(x)
    PROVE  /\ Len(body[x]) \in Nat \ {0} /\ Last(body[x]) = body[x][Len(body[x])]
           /\ Len(body[x]) \in DOMAIN body[x] /\ Last(body[x]) \in Blocks
           /\ Len(body'[x]) = Len(body[x]) - 1
           /\ DOMAIN body[x] = 1 .. Len(body[x]) /\ DOMAIN body'[x] = 1 .. Len(body[x]) - 1
           /\ \A i \in 1 .. Len(body[x]) - 1 : body'[x][i] = body[x][i]
           /\ \A y \in Contexts \ {x} : body'[y] = body[y]
           /\ phase' = [phase EXCEPT ![Last(body[x])] = "over"]
           /\ beating' = beating \ {Last(body[x])}
           /\ guard' = guard /\ GuardedCalls' = GuardedCalls
<1>1. body'[x] = Front(body[x]) /\ \A y \in Contexts \ {x} : body'[y] = body[y]
  BY DEF Leaves, TypeOK
<1>2. guard' = guard
  BY DEF Leaves, Resolve
<1>3. GuardedCalls' = GuardedCalls
  BY <1>2 DEF GuardedCalls, Guarded
<1>4. body[x] \in Seq(Blocks) /\ body[x] # <<>>
  BY DEF Leaves, TypeOK
<1>5. Len(body[x]) \in Nat \ {0} /\ Last(body[x]) = body[x][Len(body[x])]
  BY <1>4, EmptySeq DEF Last
<1> QED
  BY <1>1, <1>2, <1>3, <1>4, <1>5, FrontFacts DEF Leaves, Resolve

\* Leaving keeps the bodies distinct, ends the heartbeat with its block, and
\* leaves the keys of the others alone.
LEMMA LeavesKeeps ==
    ASSUME Inv, NEW x \in Contexts, Leaves(x),
           \A y \in Contexts : current'[y] =
              IF y = x /\ Last(body[x]) \in GuardedCalls THEN token[Last(body[x])]
              ELSE current[y]
    PROVE  BodyInv' /\ HeartbeatEndsWithBlock' /\ KeyInv'
<1> USE DEF Inv
<1> DEFINE n == Len(body[x])
           b == Last(body[x])
<1>1. /\ n \in Nat \ {0} /\ b = body[x][n] /\ n \in DOMAIN body[x] /\ b \in Blocks
      /\ Len(body'[x]) = n - 1
      /\ DOMAIN body[x] = 1 .. n /\ DOMAIN body'[x] = 1 .. n - 1
      /\ \A i \in 1 .. n - 1 : body'[x][i] = body[x][i]
      /\ \A y \in Contexts \ {x} : body'[y] = body[y]
      /\ phase' = [phase EXCEPT ![b] = "over"]
      /\ beating' = beating \ {b}
      /\ GuardedCalls' = GuardedCalls
  BY LeavesFacts
<1>2. UNCHANGED <<live, token, inherited>>
  BY DEF Leaves
<1> HIDE DEF n, b
<1>3. ASSUME NEW y \in Contexts, NEW i \in DOMAIN body'[y]
      PROVE  i \in DOMAIN body[y] /\ body'[y][i] = body[y][i] /\ body[y][i] # b
  <2>1. i \in DOMAIN body[y] /\ body'[y][i] = body[y][i] /\ ~(y = x /\ i = n)
    BY <1>1
  <2> QED
    BY <1>1, <2>1 DEF BodyInv
<1>4. BodyInv'
  <2>1. \A y \in Contexts : \A i \in DOMAIN body'[y] : phase'[body'[y][i]] = "open"
    <3> TAKE y \in Contexts
    <3> TAKE i \in DOMAIN body'[y]
    <3>1. body[y][i] \in Blocks \ {b} /\ phase[body[y][i]] = "open"
      BY <1>3, BodyFacts DEF BodyInv
    <3> QED
      BY <1>1, <1>3, <3>1 DEF TypeOK, BlockTypeOK
  <2>2. \A y, z \in Contexts : \A i \in DOMAIN body'[y], j \in DOMAIN body'[z] :
          body'[y][i] = body'[z][j] => y = z /\ i = j
    BY <1>3 DEF BodyInv
  <2>3. \A y \in Contexts \ live' : body'[y] = <<>>
    BY <1>1, <1>2 DEF BodyInv, Leaves
  <2>4. \A c \in Blocks : phase'[c] = "new" => guard'[c] # "fresh"
    BY <1>1, LeavesFacts DEF BodyInv, TypeOK, BlockTypeOK
  <2> QED
    BY <2>1, <2>2, <2>3, <2>4 DEF BodyInv
<1>5. HeartbeatEndsWithBlock'
  <2> SUFFICES ASSUME NEW c \in beating'
               PROVE  \E y \in Contexts : \E i \in DOMAIN body'[y] : body'[y][i] = c
    BY DEF HeartbeatEndsWithBlock, ToSet
  <2>1. c \in beating /\ c # b
    BY <1>1
  <2>2. PICK y \in Contexts : \E i \in DOMAIN body[y] : body[y][i] = c
    BY <2>1 DEF HeartbeatEndsWithBlock, ToSet
  <2>3. PICK i \in DOMAIN body[y] : body[y][i] = c
    BY <2>2
  <2>4. i \in DOMAIN body'[y] /\ body'[y][i] = c
    BY <1>1, <2>1, <2>3
  <2> QED
    BY <2>4
<1>6. ASSUME NEW y \in Contexts, NEW i \in 0 .. Len(body'[y])
      PROVE  KeyAt(y, i)' = KeyAt(y, i)
  <2>1. \A j \in 1 .. i : body'[y][j] = body[y][j]
    BY <1>1, BodyFacts
  <2>2. i \in Nat
    OBVIOUS
  <2> QED
    BY <1>1, <1>2, <2>1, <2>2, InnermostStays DEF KeyAt
<1>7. KeyInv'
  <2> SUFFICES ASSUME NEW y \in Contexts
               PROVE  /\ current'[y] = KeyAt(y, Len(body[y]))'
                      /\ \A i \in 1 .. Len(body'[y]) : body'[y][i] \in GuardedCalls' =>
                            token'[body'[y][i]] = KeyAt(y, i - 1)'
    BY DEF KeyInv
  <2>0. Len(body'[y]) \in Nat
    BY <1>1, BodyFacts
  <2>1. ASSUME NEW i \in 1 .. Len(body'[y]), body'[y][i] \in GuardedCalls'
        PROVE  token'[body'[y][i]] = KeyAt(y, i - 1)'
    <3>1. i \in 1 .. Len(body[y]) /\ body'[y][i] = body[y][i]
      <4>1. CASE y = x
        BY <1>1, <2>0, <4>1 DEF n
      <4>2. CASE y # x
        BY <1>1, <4>2
      <4> QED
        BY <4>1, <4>2
    <3>2. i - 1 \in 0 .. Len(body'[y])
      BY <2>0
    <3> QED
      BY <1>1, <1>2, <1>6, <2>1, <3>1, <3>2 DEF KeyInv
  <2>2. CASE y # x
    BY <1>1, <1>6, <2>0, <2>1, <2>2 DEF KeyInv
  <2>3. CASE y = x
    <3>1. KeyAt(x, Len(body[x]))' = KeyAt(x, n - 1)
      BY <1>1, <1>6, <2>0, <2>3
    <3>2. CASE b \in GuardedCalls
      BY <1>1, <2>1, <2>3, <3>1, <3>2 DEF KeyInv, b, n
    <3>3. CASE b \notin GuardedCalls
      <4>1. KeyAt(x, n) = KeyAt(x, n - 1)
        BY <1>1, <3>3, InnermostLast DEF KeyAt
      <4> QED
        BY <1>1, <2>1, <2>3, <3>1, <3>3, <4>1 DEF KeyInv, b, n
    <3> QED
      BY <3>2, <3>3
  <2> QED
    BY <2>2, <2>3
<1> QED
  BY <1>4, <1>5, <1>7

\* Entering x's next block leaves the keys of the others alone, and a fresh
\* call becomes the innermost guarded one.
LEMMA BeginsKeys ==
    ASSUME Inv, NEW x \in Contexts, NEW b \in Blocks, Begins(x, b),
           \A y \in Contexts : current'[y] =
              IF y = x /\ b \in GuardedCalls' THEN Key[b] ELSE current[y],
           \A c \in Blocks : token'[c] =
              IF c = b /\ b \in GuardedCalls' THEN current[x] ELSE token[c]
    PROVE  KeyInv'
<1> USE DEF Inv
<1> PICK n \in Nat : n = Len(body[x])
  BY BodyFacts
<1>0. \A y \in Contexts : /\ Len(body[y]) \in Nat
                          /\ \A i \in 1 .. Len(body[y]) : body[y][i] \in Blocks \ {b}
  BY BodyFacts, BeginsFacts
<1>1. \A c \in Blocks \ {b} : c \in GuardedCalls' <=> c \in GuardedCalls
  BY BeginsFacts DEF GuardedCalls, Guarded
<1>2. /\ phase'[b] \in {"open", "over"} /\ inherited' = inherited
      /\ phase'[b] = "over" => body' = body /\ b \notin GuardedCalls'
  BY EnterFrame, BeginsFacts DEF Begins, TypeOK, GuardedCalls, Guarded
<1>3. /\ \A y \in Contexts \ {x} : body'[y] = body[y]
      /\ phase'[b] = "open" =>
            /\ Len(body'[x]) = n + 1 /\ body'[x][n + 1] = b
            /\ \A i \in 1 .. n : body'[x][i] = body[x][i]
  <2>1. phase'[b] = "open" => body'[x] = Append(body[x], b)
    BY BeginsFacts DEF TypeOK
  <2>2. \A y \in Contexts \ {x} : body'[y] = body[y]
    BY <1>2, BeginsFacts DEF TypeOK
  <2> QED
    BY <2>1, <2>2, BodyFacts, AppendFacts
<1>4. ASSUME NEW y \in Contexts, NEW i \in 0 .. Len(body[y])
      PROVE  KeyAt(y, i)' = KeyAt(y, i)
  <2>1. \A j \in 1 .. i :
           /\ body'[y][j] = body[y][j]
           /\ body[y][j] \in GuardedCalls <=> body[y][j] \in GuardedCalls'
    BY <1>0, <1>1, <1>2, <1>3
  <2>2. i \in Nat
    OBVIOUS
  <2> QED
    BY <1>2, <2>1, <2>2, InnermostStays DEF KeyAt
<1>5. ASSUME NEW y \in Contexts, NEW i \in 1 .. Len(body[y]),
             body[y][i] \in GuardedCalls'
      PROVE  token'[body[y][i]] = KeyAt(y, i - 1)'
  <2>1. body[y][i] \in Blocks \ {b} /\ i - 1 \in 0 .. Len(body[y])
    BY <1>0
  <2> QED
    BY <1>1, <1>4, <1>5, <2>1 DEF KeyInv
<1>6. ASSUME NEW y \in Contexts, body'[y] = body[y], current'[y] = current[y]
      PROVE  /\ current'[y] = KeyAt(y, Len(body[y]))'
             /\ \A i \in 1 .. Len(body'[y]) : body'[y][i] \in GuardedCalls' =>
                   token'[body'[y][i]] = KeyAt(y, i - 1)'
  <2>1. Len(body[y]) \in 0 .. Len(body[y])
    BY <1>0
  <2> QED
    BY <1>4, <1>5, <1>6, <2>1 DEF KeyInv
<1>7. CASE phase'[b] = "over"
  BY <1>2, <1>6, <1>7 DEF KeyInv
<1>8. CASE phase'[b] = "open"
  <2>0. n \in Nat /\ n \in 0 .. Len(body[x]) /\ n + 1 \in Nat \ {0} /\ (n + 1) - 1 = n
    BY <1>0
  <2>1. KeyAt(x, n)' = current[x]
    BY <1>4, <2>0 DEF KeyInv
  <2>2. /\ b \in GuardedCalls' => KeyAt(x, n + 1)' = Key[b]
        /\ b \notin GuardedCalls' => KeyAt(x, n + 1)' = KeyAt(x, n)'
    BY <1>3, <1>8, <2>0, InnermostLast DEF KeyAt
  <2>3. current'[x] = KeyAt(x, Len(body[x]))'
    BY <1>3, <1>8, <2>1, <2>2
  <2>4. ASSUME NEW i \in 1 .. Len(body'[x]), body'[x][i] \in GuardedCalls'
        PROVE  token'[body'[x][i]] = KeyAt(x, i - 1)'
    <3>1. CASE i = n + 1
      BY <1>3, <1>8, <2>0, <2>1, <2>4, <3>1
    <3>2. CASE i \in 1 .. n
      BY <1>3, <1>5, <1>8, <2>4, <3>2
    <3> QED
      BY <1>3, <1>8, <2>0, <3>1, <3>2
  <2>5. \A y \in Contexts \ {x} : body'[y] = body[y] /\ current'[y] = current[y]
    BY <1>3
  <2> QED
    BY <1>6, <2>3, <2>4, <2>5 DEF KeyInv
<1> QED
  BY <1>2, <1>7, <1>8

-----------------------------------------------------------------------------
(***************************************************************************)
(* The invariants hold.                                                    *)
(***************************************************************************)
\* __enter__ keeps them,
LEMMA EnterWithKeeps ==
    ASSUME Inv, NEW x \in Contexts, NEW b \in Blocks, EnterWith(x, b)
    PROVE  Inv'
<1> USE DEF Inv
<1>0. Begins(x, b) /\ b \notin Calls /\ UNCHANGED <<current, token>>
  BY DEF EnterWith
<1>1. TypeOK'
  BY NextType DEF Next
<1>2. BodyInv' /\ HeartbeatEndsWithBlock'
  BY <1>0, BeginsKeeps
<1>3. KeyInv'
  <2>1. b \notin GuardedCalls'
    BY <1>0 DEF GuardedCalls, Guarded
  <2> QED
    BY <1>0, <2>1, BeginsKeys
<1>4. StackInv'
  <2>1. phase'[b] \in {"open", "over"}
    BY <1>0, EnterFrame DEF Begins, TypeOK
  <2>2. CASE phase'[b] = "over"
    <3>1. body' = body /\ cm_stack' = cm_stack
      BY <1>0, <2>2, BeginsFacts DEF EnterWith
    <3> QED
      BY <3>1 DEF StackInv
  <2>3. CASE phase'[b] = "open"
    <3>1. /\ body'[x] = Append(body[x], b) /\ cm_stack'[x] = Append(cm_stack[x], b)
          /\ \A y \in Contexts \ {x} : body'[y] = body[y] /\ cm_stack'[y] = cm_stack[y]
      BY <1>0, <2>3, BeginsFacts DEF EnterWith, Pushed, TypeOK
    <3>2. PICK h : Depths(body[x], cm_stack[x], h)
      BY DEF StackInv
    <3>3. body[x] \in Seq(Blocks) /\ cm_stack[x] \in Seq(Blocks)
      BY DEF TypeOK
    <3>4. \E k : Depths(body'[x], cm_stack'[x], k)
      BY <1>0, <3>1, <3>2, <3>3, DepthsPushBlock
    <3> QED
      BY <3>1, <3>4 DEF StackInv
  <2> QED
    BY <2>1, <2>2, <2>3
<1> QED
  BY <1>1, <1>2, <1>3, <1>4

\* so does the beginning of a decorated call,
LEMMA EnterCallKeeps ==
    ASSUME Inv, NEW x \in Contexts, NEW b \in Blocks, EnterCall(x, b)
    PROVE  Inv'
<1> USE DEF Inv
<1>0. Begins(x, b) /\ b \in Calls /\ UNCHANGED cm_stack
  BY DEF EnterCall
<1>1. TypeOK'
  BY NextType DEF Next
<1>2. BodyInv' /\ HeartbeatEndsWithBlock'
  BY <1>0, BeginsKeeps
<1>3. KeyInv'
  <2>1. b \in GuardedCalls' <=> guard'[b] = "fresh"
    BY <1>0 DEF GuardedCalls, Guarded
  <2>2. /\ \A y \in Contexts : current'[y] =
              IF y = x /\ b \in GuardedCalls' THEN Key[b] ELSE current[y]
        /\ \A c \in Blocks : token'[c] =
              IF c = b /\ b \in GuardedCalls' THEN current[x] ELSE token[c]
    BY <2>1 DEF EnterCall, TypeOK
  <2> QED
    BY <1>0, <2>2, BeginsKeys
<1>4. StackInv'
  <2>1. phase'[b] \in {"open", "over"}
    BY <1>0, EnterFrame DEF Begins, TypeOK
  <2>2. CASE phase'[b] = "over"
    <3>1. body' = body /\ cm_stack' = cm_stack
      BY <1>0, <2>2, BeginsFacts
    <3> QED
      BY <3>1 DEF StackInv
  <2>3. CASE phase'[b] = "open"
    <3>1. /\ body'[x] = Append(body[x], b) /\ cm_stack' = cm_stack
          /\ \A y \in Contexts \ {x} : body'[y] = body[y]
      BY <1>0, <2>3, BeginsFacts DEF TypeOK
    <3>2. PICK h : Depths(body[x], cm_stack[x], h)
      BY DEF StackInv
    <3>3. body[x] \in Seq(Blocks) /\ cm_stack[x] \in Seq(Blocks)
      BY DEF TypeOK
    <3>4. \E k : Depths(body'[x], cm_stack[x], k)
      BY <1>0, <3>1, <3>2, <3>3, DepthsPushCall
    <3> QED
      BY <3>1, <3>4 DEF StackInv
  <2> QED
    BY <2>1, <2>2, <2>3
<1> QED
  BY <1>1, <1>2, <1>3, <1>4

\* the return of one,
LEMMA ExitCallKeeps ==
    ASSUME Inv, NEW x \in Contexts, ExitCall(x)
    PROVE  Leaves(x) /\ Inv'
<1> USE DEF Inv
<1> DEFINE b == Last(body[x])
<1>1. TypeOK'
  BY NextType DEF Next
<1>2. Leaves(x) /\ b \in Calls
  BY DEF ExitCall, Leaves
<1>3. \A y \in Contexts : current'[y] =
         IF y = x /\ b \in GuardedCalls THEN token[b] ELSE current[y]
  <2>1. b \in GuardedCalls <=> Guarded(b)
    BY <1>2, ContextsAssumption DEF GuardedCalls
  <2> QED
    BY <2>1 DEF ExitCall, Restored, TypeOK
<1>4. BodyInv' /\ HeartbeatEndsWithBlock' /\ KeyInv'
  BY <1>2, <1>3, LeavesKeeps
<1>5. StackInv'
  <2>1. /\ body'[x] = Front(body[x]) /\ body[x] # <<>> /\ cm_stack' = cm_stack
        /\ \A y \in Contexts \ {x} : body'[y] = body[y]
    BY <1>2 DEF Leaves, ExitCall, TypeOK
  <2>2. PICK h : Depths(body[x], cm_stack[x], h)
    BY DEF StackInv
  <2>3. body[x] \in Seq(Blocks) /\ cm_stack[x] \in Seq(Blocks)
    BY DEF TypeOK
  <2>4. \E k : Depths(body'[x], cm_stack[x], k)
    BY <1>2, <2>1, <2>2, <2>3, DepthsPop
  <2> QED
    BY <2>1, <2>4 DEF StackInv
<1> QED
  BY <1>1, <1>2, <1>4, <1>5

\* and __exit__ in the context that entered, of the block it entered last: the
\* guard it pops is that block's.
LEMMA ExitWithKeeps ==
    ASSUME Scoped, Inv, NEW x \in Contexts, NEW z \in Contexts,
           NEW i \in DOMAIN body[z], ExitWith(x, z, i)
    PROVE  Leaves(x) /\ Inv'
<1> USE DEF Inv
<1>1. TypeOK'
  BY NextType DEF Next
<1>2. z = x /\ i = Len(body[x]) /\ i \in DOMAIN body[x]
  BY DEF ExitWith
<1>3. /\ body[x] \in Seq(Blocks) /\ cm_stack[x] \in Seq(Blocks)
      /\ body[x] # <<>> /\ Last(body[x]) = body[x][i]
  BY <1>2 DEF TypeOK, Last
<1>4. body[x][i] \notin Calls
  BY <1>2 DEF ExitWith
<1>5. PICK h : Depths(body[x], cm_stack[x], h)
  BY DEF StackInv
<1>6. /\ cm_stack[x] # <<>> /\ Last(cm_stack[x]) = Last(body[x])
      /\ \E k : Depths(Front(body[x]), Front(cm_stack[x]), k)
  BY <1>3, <1>4, <1>5, DepthsPop
<1>7. Popped(x) = Last(body[x])
  BY <1>6 DEF Popped
<1>8. body' = [body EXCEPT ![x] = Front(body[x])]
  <2>1. RemoveAt(body[x], Len(body[x])) = Front(body[x])
    BY <1>3, RemoveLast
  <2> QED
    BY <1>2, <2>1 DEF ExitWith
<1>9. Leaves(x) /\ UNCHANGED current
  BY <1>2, <1>3, <1>7, <1>8 DEF ExitWith, Leaves
<1>10. BodyInv' /\ HeartbeatEndsWithBlock' /\ KeyInv'
  <2>1. Last(body[x]) \notin GuardedCalls
    BY <1>3, <1>4 DEF GuardedCalls, Guarded
  <2> QED
    BY <1>9, <2>1, LeavesKeeps
<1>11. StackInv'
  <2>1. /\ body'[x] = Front(body[x]) /\ cm_stack'[x] = Front(cm_stack[x])
        /\ \A y \in Contexts \ {x} : body'[y] = body[y] /\ cm_stack'[y] = cm_stack[y]
    BY <1>6, <1>8 DEF ExitWith, TypeOK
  <2> QED
    BY <1>6, <2>1 DEF StackInv
<1> QED
  BY <1>1, <1>9, <1>10, <1>11

\* A context that starts is in no body, and sees the key of the call it was
\* spawned in, if it sees any.
LEMMA SpawnKeeps ==
    ASSUME Inv, NEW x \in Contexts, NEW y \in Contexts, Spawn(x, y)
    PROVE  Inv'
<1> USE DEF Inv
<1>0. /\ y \notin live /\ live' = live \cup {y}
      /\ UNCHANGED <<ledger, phase, guard, result, beating, token, body>>
  BY DEF Spawn, blockVars
<1>1. TypeOK'
  BY NextType DEF Next
<1>2. BodyInv' /\ HeartbeatEndsWithBlock'
  BY <1>0 DEF BodyInv, HeartbeatEndsWithBlock
<1>3. \A z \in Contexts \ {y} : /\ cm_stack'[z] = cm_stack[z]
                               /\ current'[z] = current[z] /\ inherited'[z] = inherited[z]
  BY DEF Spawn, TypeOK
<1>4. body[y] = <<>>
  BY <1>0 DEF BodyInv
<1>5. StackInv'
  <2>1. cm_stack'[y] \in Seq(Blocks)
    BY <1>1 DEF TypeOK
  <2>2. \E h : Depths(body'[y], cm_stack'[y], h)
    BY <1>0, <1>4, <2>1, DepthsEmpty
  <2> QED
    BY <1>0, <1>3, <2>2 DEF StackInv
<1>6. GuardedCalls' = GuardedCalls
  BY <1>0 DEF GuardedCalls, Guarded
<1>7. KeyInv'
  <2> SUFFICES ASSUME NEW z \in Contexts
               PROVE  /\ current'[z] = KeyAt(z, Len(body[z]))'
                      /\ \A i \in 1 .. Len(body'[z]) : body'[z][i] \in GuardedCalls' =>
                            token'[body'[z][i]] = KeyAt(z, i - 1)'
    BY DEF KeyInv
  <2>1. CASE z # y
    <3>1. \A n : KeyAt(z, n)' = KeyAt(z, n)
      BY <1>0, <1>3, <1>6, <2>1 DEF KeyAt
    <3>2. KeyAt(z, Len(body[z]))' = KeyAt(z, Len(body[z]))
      BY <1>0, <1>3, <1>6, <2>1 DEF KeyAt
    <3> QED
      BY <1>0, <1>3, <1>6, <2>1, <3>1, <3>2 DEF KeyInv
  <2>2. CASE z = y
    <3>1. Len(body[y]) = 0
      BY <1>4, EmptySeq
    <3>2. KeyAt(y, Len(body[y]))' = inherited'[y]
      BY <1>0, <3>1, InnermostNone DEF KeyAt
    <3>3. KeyAt(y, Len(body[y])) = inherited[y]
      BY <3>1, InnermostNone DEF KeyAt
    <3>4. current[x] = OwnKey(x) /\ current[y] = inherited[y]
      BY <3>3, OwnKeyIsKeyAt DEF KeyInv
    <3>5. current'[y] = inherited'[y]
      BY <3>4 DEF Spawn, TypeOK
    <3> QED
      BY <1>0, <2>2, <3>1, <3>2, <3>5
  <2> QED
    BY <2>1, <2>2
<1> QED
  BY <1>1, <1>2, <1>5, <1>7

\* What a body does touches none of this.
LEMMA BodyKeeps ==
    ASSUME Inv, NEW x \in Contexts, Body(x) \/ UNCHANGED vars
    PROVE  Inv'
<1> USE DEF Inv
<1>1. TypeOK'
  BY NextType DEF Next
<1>2. UNCHANGED <<phase, guard, beating, live, cm_stack, current, token, body, inherited>>
  BY DEF Body, Assign, vars, blockVars
<1>3. BodyInv' /\ HeartbeatEndsWithBlock' /\ StackInv'
  BY <1>2 DEF BodyInv, HeartbeatEndsWithBlock, StackInv
<1>4. KeyInv'
  <2>1. GuardedCalls' = GuardedCalls
    BY <1>2 DEF GuardedCalls, Guarded
  <2> QED
    BY <1>2, <2>1 DEF KeyInv, KeyAt
<1> QED
  BY <1>1, <1>3, <1>4

\* In the initial states nothing was entered.
LEMMA InvInit == Init => Inv
<1> SUFFICES ASSUME Init PROVE Inv
  OBVIOUS
<1>1. TypeOK
  BY InitType
<1>2. \A x \in Contexts : /\ body[x] = <<>> /\ cm_stack[x] = <<>>
                         /\ current[x] = None /\ inherited[x] = None
  BY DEF Init
<1>3. <<>> \in Seq(Blocks) /\ Len(<<>>) = 0 /\ DOMAIN <<>> = {}
  BY EmptySeq
<1>4. BodyInv /\ HeartbeatEndsWithBlock
  <2>1. beating = {} /\ \A b \in Blocks : guard[b] = None /\ None # "fresh"
    BY NoneAssumption DEF Init, BlockInit, Guards
  <2> QED
    BY <1>2, <1>3, <2>1 DEF BodyInv, HeartbeatEndsWithBlock
<1>5. StackInv
  BY <1>2, <1>3, DepthsEmpty DEF StackInv
<1>6. KeyInv
  BY <1>2, <1>3, InnermostNone DEF KeyInv, KeyAt
<1> QED
  BY <1>1, <1>4, <1>5, <1>6 DEF Inv

\* Every step keeps the invariants, and is a step of blocks that each resolve
\* their own guard.
LEMMA InvNext ==
    ASSUME Scoped, Inv, [Next]_vars
    PROVE  Inv' /\ [BlockNext]_blockVars
<1>0. PICK x0 \in Contexts : TRUE
  BY ContextsAssumption
<1>1. ASSUME NEW x \in Contexts, Leaves(x)
      PROVE  BlockNext
  <2>1. Last(body[x]) \in Blocks /\ phase[Last(body[x])] = "open"
    BY <1>1, LeavesFacts DEF Inv, BodyInv
  <2> QED
    BY <1>1, <2>1 DEF Leaves, BlockNext
<1>2. ASSUME NEW x \in Contexts, Body(x) PROVE Inv' /\ BlockNext
  <2>1. Last(body[x]) \in Blocks
    BY <1>2, FrontFacts DEF Body, Inv, TypeOK
  <2> QED
    BY <1>2, <2>1, BodyKeeps DEF Body, BlockNext
<1>3. ASSUME NEW x \in Contexts, ExitCall(x) PROVE Inv' /\ BlockNext
  BY <1>1, <1>3, ExitCallKeeps
<1>4. ASSUME NEW x \in Contexts, NEW y \in Contexts, Spawn(x, y)
      PROVE  Inv' /\ UNCHANGED blockVars
  BY <1>4, SpawnKeeps DEF Spawn
<1>5. ASSUME NEW x \in Contexts, NEW b \in Blocks, EnterWith(x, b) \/ EnterCall(x, b)
      PROVE  Inv' /\ BlockNext
  <2>1. Enter(b)
    BY <1>5 DEF EnterWith, EnterCall, Begins
  <2> QED
    BY <1>5, <2>1, EnterWithKeeps, EnterCallKeeps DEF BlockNext
<1>6. ASSUME NEW x \in Contexts, NEW z \in Contexts, NEW i \in DOMAIN body[z],
             ExitWith(x, z, i)
      PROVE  Inv' /\ BlockNext
  BY <1>1, <1>6, ExitWithKeeps
<1>7. CASE UNCHANGED vars
  BY <1>0, <1>7, BodyKeeps DEF vars
<1> QED
  BY <1>2, <1>3, <1>4, <1>5, <1>6, <1>7 DEF Next

-----------------------------------------------------------------------------
(***************************************************************************)
(* The theorems.                                                           *)
(***************************************************************************)
\* Only guards of blocks are ever on a stack and only keys in _current_key,
\* in whatever order, and by whatever context, blocks are left.
THEOREM TypeCorrect == Spec => []TypeOK
<1>1. Init => TypeOK
  BY InitType
<1>2. TypeOK /\ [Next]_vars => TypeOK'
  BY NextType
<1> QED
  BY <1>1, <1>2, PTL DEF Spec

\* The inductive invariant holds when blocks are left in the context that
\* entered them, the last entered first.
LEMMA InvAlways == ASSUME Scoped PROVE Spec => []Inv
<1>1. Init => Inv
  BY InvInit
<1>2. Inv /\ [Next]_vars => Inv'
  BY InvNext
<1> QED
  BY <1>1, <1>2, PTL DEF Spec

\* Then current_key() in an effect is the key of the guarded call the effect
\* belongs to, however calls nest and tasks are spawned in them.
THEOREM OwnCurrentKey == ASSUME Scoped PROVE Spec => []CurrentKeyIsOwn
<1>1. Inv => CurrentKeyIsOwn
  BY OwnKeyIsKeyAt DEF Inv, KeyInv, CurrentKeyIsOwn, TypeOK
<1> QED
  BY <1>1, InvAlways, PTL

\* Then no heartbeat renews the lease of a block that has been left.
THEOREM HeartbeatsEnd == ASSUME Scoped PROVE Spec => []HeartbeatEndsWithBlock
<1>1. Inv => HeartbeatEndsWithBlock
  BY DEF Inv
<1> QED
  BY <1>1, InvAlways, PTL

\* Then the stacks implement blocks that hold their guard themselves: no
\* __exit__ resolves the guard of another block.
THEOREM BlocksImplemented == ASSUME Scoped PROVE Spec => ImplementsBlocks
<1>1. Init => BlockInit
  BY DEF Init
<1>2. Inv /\ [Next]_vars => [BlockNext]_blockVars
  BY InvNext
<1> QED
  BY <1>1, <1>2, InvAlways, PTL DEF Spec, ImplementsBlocks, BlockSpec
=============================================================================
