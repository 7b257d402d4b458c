------------------------------- MODULE MCKeys -------------------------------
(* Two calls that differ in the order of their keyword arguments, calls of   *)
(* two lambdas with one argument, one of them in a namespace too, one with   *)
(* an object for an argument, blocks on one key in two namespaces and with   *)
(* two fingerprints, a node run twice in a thread and once without one, a    *)
(* tool given an object with a stable str(), and transactions of one         *)
(* account, by two functions and written in two ways, at two nonces and with *)
(* two calldata; and a node whose key callable returns a number.             *)
(* For the cfgs about the wrappers: two tools and a node whose key callables *)
(* return None, and a node and a tool whose callables return a number.       *)
EXTENDS Keys

V(of) == Value("plain", of, of)
Object(of, str) == Value("object", of, str)
Func(id, qualname, lambda, line) ==
    [id |-> id, module |-> "m", qualname |-> qualname, lambda |-> lambda, line |-> line]

f == Func("f", "f", FALSE, 1)
Call(form, func) ==
    [form |-> form, func |-> func, args |-> <<>>, kwargs |-> <<>>, given |-> "none",
     key |-> <<>>, namespace |-> <<>>, fingerprint |-> {}, thread |-> <<>>, tx |-> <<>>,
     result |-> V("done")]

Kwargs(ps) == [Call("call", f) EXCEPT !.kwargs = ps]
Lambda(line, result) ==
    [Call("call", Func(result, "<lambda>", TRUE, line))
        EXCEPT !.args = <<V("x")>>, !.result = V(result)]
Block(namespace, selected) ==
    [Call("with", f) EXCEPT !.given = "text", !.key = <<"charge", "o1">>,
                            !.namespace = namespace, !.fingerprint = {V(selected)}]
Node(thread, result) ==
    [Call("node", Func("charge", "charge", FALSE, 1)) EXCEPT !.thread = thread, !.result = result]
Tool(arg) == [Call("tool", Func("pay", "pay", FALSE, 1)) EXCEPT !.args = <<arg>>]

Tx(case, nonce, data) ==
    [Call("tx", f) EXCEPT !.tx = [chain |-> "1", address |-> "0xab", case |-> case,
                                  nonce |-> nonce, data |-> data, to |-> "0xcd"]]

Numbered(call, n) == [call EXCEPT !.given = "other", !.key = <<n>>]

MCStrings == STRING
MCCalls == 1 .. 22
MCOf ==
    << Kwargs(<< <<"a", V("1")>>, <<"b", Value("tuple", "1,2", "(1,2)")>> >>),
       Kwargs(<< <<"b", Value("list", "1,2", "[1,2]")>>, <<"a", V("1")>> >>),
       Kwargs(<< <<"a", Object("o", "<o at 1>")>> >>),
       Kwargs(<< <<"a", Object("o", "<o at 2>")>> >>),
       Lambda(1, "one"), Lambda(2, "two"),
       [Call("call", f) EXCEPT !.given = "other"],
       Call("with", f),
       Block(<<"n">>, "50"), Block(<<"n">>, "70"), Block(<<"m">>, "50"),
       Node(<<"t1">>, Object("coroutine", "c")), Node(<<"t1">>, V("update")), Node(<<>>, V("update")),
       Tool(Object("Decimal 5", "5")), Tool(Object("Decimal 5", "5")),
       Tx("lower", "0", ""), [Tx("mixed", "0", "") EXCEPT !.func = Func("g", "g", FALSE, 1)],
       Tx("lower", "1", ""), Tx("lower", "0", "da"),
       [Lambda(1, "one") EXCEPT !.namespace = <<"n">>],
       Numbered(Node(<<"t2">>, V("update")), "7") >>

Keyless(call, result) == [call EXCEPT !.given = "nothing", !.result = V(result)]

MCWrapped == 1 .. 5
MCOfWrapped ==
    << Keyless(Tool(V("o1")), "paid o1"), Keyless(Tool(V("o2")), "paid o2"),
       Keyless(Node(<<"t1">>, V("update")), "update"),
       Numbered(Node(<<"t1">>, V("update")), "7"), Numbered(Tool(V("o1")), "7") >>

\* But for the key callables of wrappers (TextKeys), the calls are such that the
\* theorems about keys speak of them.
ASSUME MCCallsAreRight ==
    StableStr /\ StrTells /\ TextsApart /\ NamesTell /\ TxTell
=============================================================================
