----------------------------- MODULE MCProtocol -----------------------------
(* Instances of Protocol. *)
EXTENDS Protocol

\* A greeted session with every kind of command in it.
Sessions ==
    {<<"hello", "call", "report", "bye">>, <<"hello", "blob", "call", "call">>,
     <<"call", "hello", "long", "call">>, <<"hello", "bye", "call">>}

\* A command may come back, end the process, or stay; one kind of them at a time.
AnyConduct == {f \in [Work -> {{"returns"}, {"dies"}, {"stays"}}] :
                   \E w \in Work : f[w] = {"returns"}}

\* The host, which serves one driver, whose secret may be the wrong one; and a console,
\* which serves them in turn and may have another driver on it.
Refusing == [admits |-> FALSE, serves |-> "once", pipe |-> TRUE, rival |-> FALSE]
Host     == [admits |-> TRUE, serves |-> "once", pipe |-> TRUE, rival |-> TRUE]
Console  == [admits |-> TRUE, serves |-> "again", pipe |-> FALSE, rival |-> TRUE]
All      == {Refusing, Host, Console}
=============================================================================
