------------------------------- MODULE MCDemoApi -------------------------------
\* Small instances of DemoApi: deliveries, seeds, prices and tests for TLC.
EXTENDS DemoApi

Attempt(process, run, number, seed, token) ==
    [process |-> process, run |-> run, case |-> "case", number |-> number, seed |-> seed, token |-> token]

\* A delivery and its redelivery; two processes with one run ID, whose suites
\* have different seeds; and a run without the token.
Redelivered == {Attempt("a", "r", 1, 1, TRUE), Attempt("b", "r", 2, 1, TRUE)}
RunIdTwice == {Attempt("a", "q", 1, 1, TRUE), Attempt("b", "q", 1, 2, TRUE)}
NoToken == {Attempt("a", "s", 1, 1, FALSE)}

MCDeliveries == Redelivered \cup RunIdTwice \cup NoToken

TwoSeeds == {1, 2}
Phone == {"phone"}
Prices == [s \in TwoSeeds |-> [p \in Phone |-> 2 * s + 1]]

Order(quantity, expect) ==
    [op |-> "order", id |-> "o", product |-> "phone", quantity |-> quantity, expect |-> expect]
Lookup(product, expect) ==
    [op |-> "get", id |-> "o", product |-> product, quantity |-> 1, expect |-> expect]

MCTests == <<Order(1, 201), Order(2, 409), Lookup("desk", 404)>>

\* Of the deliveries those of one kind take place.
MCInit == Init /\ {d \in Deliveries : at[d] = Seeding} \in {Redelivered, RunIdTwice, NoToken}

MCSpec == MCInit /\ [][Next]_dvars
=============================================================================
