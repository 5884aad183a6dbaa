-------------------------------- MODULE DemoApi --------------------------------
(***************************************************************************)
(* The demo service examples/demo_api/app.py and the deliveries that are   *)
(* executed against it.  A delivery of a case seeds its namespace, sends   *)
(* its test requests and deletes the namespace (src/api_sentinel/          *)
(* executor.py, run); its client may stop waiting or be killed at any      *)
(* moment, and what it sent is still executed, as late as may be.          *)
(*                                                                         *)
(* SQLite is external: BEGIN IMMEDIATE takes the one write lock, readers   *)
(* see what is committed, primary and foreign keys are enforced, and a     *)
(* transaction that is not committed leaves nothing behind.                *)
(***************************************************************************)
EXTENDS Integers, Sequences

CONSTANTS
    Deliveries,     \* who may execute what: [process, run, case, number, seed, token]
    Seeds, Catalog, \* suite seeds; the three products of a namespace
    Price,          \* what random.Random(seed) makes of a seed and a product
    Tests,          \* the test steps of the case
    MaxCrashes      \* bound on crashes of the service

TestStep == [op : {"get", "list", "order"}, id : STRING, product : STRING, quantity : 1..10, expect : Nat]

ASSUME DeliveryAssumption ==
    \A d \in Deliveries : d.seed \in Seeds /\ d.token \in BOOLEAN
ASSUME CatalogAssumption ==
    /\ Catalog \subseteq STRING
    /\ Price \in [Seeds -> [Catalog -> Nat]]
ASSUME TestAssumption == Tests \in Seq(TestStep) /\ MaxCrashes \in Nat

VARIABLES
    db,         \* the three tables, as sets of rows
    lock,       \* requests with the write lock
    pc,         \* where a request is
    view,       \* the tables as a transaction has read them
    answer,     \* what a request was answered
    at,         \* the step a delivery is at
    crashes,    \* history: how often the service crashed
    era,        \* history: how often a namespace was deleted
    doubt       \* history: deliveries that did not wait for an answer

dvars == <<db, lock, pc, view, answer, at, crashes, era, doubt>>

---------------------------------------------------------------------------
(* CaseExecutor.run: what a delivery sends *)

\* Fault: the deliveries of a case share a namespace.
NamespacePerCase(d) == <<d.run, d.case>>

\* namespace; the hash is taken to be injective.
Namespace(d) == <<d.run, d.case, d.number>>

Namespaces == {Namespace(d) : d \in Deliveries}

Seeding  == 0
Deletion == Len(Tests) + 1
Done     == Len(Tests) + 2
Killed   == -1

Requests == Deliveries \X (Seeding..Deletion)

Ns(r) == Namespace(r[1])
Seed(r) == r[1].seed
IsSeed(r) == r[2] = Seeding
IsDelete(r) == r[2] = Deletion
Test(r) == Tests[r[2]]
IsTest(r, ops) == r[2] \in 1..Len(Tests) /\ Test(r).op \in ops

\* expect.status
Expected(r) == IF IsSeed(r) THEN 200 ELSE IF IsDelete(r) THEN 204 ELSE Test(r).expect

\* Fault: a case that failed is not cleaned up.
StopAtFailure(s, passed) == IF s = Deletion \/ ~passed THEN Done ELSE s + 1

\* The step after s; what fails leads to the teardown.
After(s, passed) == IF s = Deletion THEN Done ELSE IF passed THEN s + 1 ELSE Deletion

Send(d) ==
    /\ at[d] \in Seeding..Deletion /\ pc[<<d, at[d]>>] = "unsent"
    /\ pc' = [pc EXCEPT ![<<d, at[d]>>] = "received"]
    /\ UNCHANGED <<db, lock, view, answer, at, crashes, era, doubt>>

Receive(d) ==
    /\ at[d] \in Seeding..Deletion /\ pc[<<d, at[d]>>] = "answered"
    /\ at' = [at EXCEPT ![d] = After(@, answer[<<d, @>>].code = Expected(<<d, @>>))]
    /\ UNCHANGED <<db, lock, pc, view, answer, crashes, era, doubt>>

\* A timeout or a broken connection, after which the request may still arrive.
GiveUp(d) ==
    /\ at[d] \in Seeding..Deletion /\ pc[<<d, at[d]>>] # "unsent"
    /\ at' = [at EXCEPT ![d] = After(@, FALSE)]
    /\ doubt' = doubt \cup {d}
    /\ UNCHANGED <<db, lock, pc, view, answer, crashes, era>>

\* SIGKILL of the worker, or a lost lease, after which no step is sent.
Kill(d) ==
    /\ at[d] \in Seeding..Deletion
    /\ at' = [at EXCEPT ![d] = Killed]
    /\ UNCHANGED <<db, lock, pc, view, answer, crashes, era, doubt>>

---------------------------------------------------------------------------
(* The service *)

\* require_test_support
Refused(r) == (IsSeed(r) \/ IsDelete(r)) /\ ~r[1].token

Refuse(r) ==
    /\ pc[r] = "received" /\ Refused(r)
    /\ pc' = [pc EXCEPT ![r] = "answered"]
    /\ answer' = [answer EXCEPT ![r].code = 403]
    /\ UNCHANGED <<db, lock, view, at, crashes, era, doubt>>

Writes(r) == IsSeed(r) \/ IsTest(r, {"order"})

\* BEGIN IMMEDIATE and the SELECTs of the transaction
Begin(r) ==
    /\ pc[r] = "received" /\ Writes(r) /\ ~Refused(r) /\ lock = {}
    /\ lock' = {r}
    /\ pc' = [pc EXCEPT ![r] = "begun"]
    /\ view' = [view EXCEPT ![r] = db]
    /\ UNCHANGED <<db, answer, at, crashes, era, doubt>>

NoTables == [namespaces |-> {}, products |-> {}, orders |-> {}]

\* Fault: the connection is not closed when the handler raises.
LeaveLocked(r, code, total) ==
    /\ pc' = [pc EXCEPT ![r] = "answered"]
    /\ answer' = [answer EXCEPT ![r] = [code |-> code, total |-> total, era |-> era[Ns(r)]]]
    /\ lock' = IF code \in {404, 409} THEN lock ELSE lock \ {r}
    /\ view' = [view EXCEPT ![r] = NoTables]

\* commit or rollback, close, and the answer
Reply(r, code, total) ==
    /\ pc' = [pc EXCEPT ![r] = "answered"]
    /\ answer' = [answer EXCEPT ![r] = [code |-> code, total |-> total, era |-> era[Ns(r)]]]
    /\ lock' = lock \ {r}
    /\ view' = [view EXCEPT ![r] = NoTables]

\* timeout=10 of the connection: database is locked
Busy(r) ==
    /\ pc[r] = "received" /\ ~Refused(r) /\ (Writes(r) \/ IsDelete(r))
    /\ lock # {}
    /\ Reply(r, 500, 0)
    /\ UNCHANGED <<db, at, crashes, era, doubt>>

\* INSERT OR IGNORE INTO products
Products(r) == {[ns |-> Ns(r), id |-> p, price |-> Price[Seed(r)][p]] : p \in Catalog}
Unstored(rows, table) == {row \in rows : ~\E old \in table : old.ns = row.ns /\ old.id = row.id}

SeedNamespace(r) ==
    /\ pc[r] = "begun" /\ IsSeed(r)
    /\ LET existing == {n \in view[r].namespaces : n.id = Ns(r)} IN
         IF \E n \in existing : n.seed # Seed(r)
         THEN Reply(r, 409, 0) /\ UNCHANGED db
         ELSE /\ Reply(r, 200, 0)
              /\ db' = [namespaces |-> IF existing # {} THEN db.namespaces
                                       ELSE db.namespaces \cup {[id |-> Ns(r), seed |-> Seed(r)]},
                        products |-> db.products \cup Unstored(Products(r), db.products),
                        orders |-> db.orders]
    /\ UNCHANGED <<at, crashes, era, doubt>>

Offered(r) == {p \in view[r].products : p.ns = Ns(r) /\ p.id = Test(r).product}

\* Fault: the quantity of a repeated order is not compared.
SameProduct(row, r) == row.product = Test(r).product

Same(row, r) == row.product = Test(r).product /\ row.quantity = Test(r).quantity

\* Primary and foreign key of a new order
Violates(r) ==
    \/ \E o \in db.orders : o.ns = Ns(r) /\ o.id = Test(r).id
    \/ ~\E n \in db.namespaces : n.id = Ns(r)

Insert(r, price) ==
    IF Violates(r)
    THEN Reply(r, 500, 0) /\ UNCHANGED db
    ELSE /\ Reply(r, 201, price * Test(r).quantity)
         /\ db' = [db EXCEPT !.orders = @ \cup
                     {[ns |-> Ns(r), id |-> Test(r).id, product |-> Test(r).product,
                       quantity |-> Test(r).quantity, total |-> price * Test(r).quantity]}]

\* create_order: a repeated request is answered as it was the first time.
CreateOrder(r) ==
    /\ pc[r] = "begun" /\ IsTest(r, {"order"})
    /\ LET previous == {o \in view[r].orders : o.ns = Ns(r) /\ o.id = Test(r).id} IN
         \/ \E o \in previous :
               /\ IF Same(o, r) THEN Reply(r, 201, o.total) ELSE Reply(r, 409, 0)
               /\ UNCHANGED db
         \/ previous = {} /\ Offered(r) = {} /\ Reply(r, 404, 0) /\ UNCHANGED db
         \/ previous = {} /\ \E p \in Offered(r) : Insert(r, p.price)
    /\ UNCHANGED <<at, crashes, era, doubt>>

\* Fault: without PRAGMA foreign_keys only the namespace itself goes.
DeleteRowOnly(r) ==
    /\ pc[r] = "received" /\ IsDelete(r) /\ ~Refused(r) /\ lock = {}
    /\ db' = [db EXCEPT !.namespaces = {n \in @ : n.id # Ns(r)}]
    /\ era' = [era EXCEPT ![Ns(r)] = @ + 1]
    /\ Reply(r, 204, 0)
    /\ UNCHANGED <<at, crashes, doubt>>

\* DELETE, in a transaction of its own, with ON DELETE CASCADE
DeleteNamespace(r) ==
    /\ pc[r] = "received" /\ IsDelete(r) /\ ~Refused(r) /\ lock = {}
    /\ db' = [namespaces |-> {n \in db.namespaces : n.id # Ns(r)},
              products |-> {p \in db.products : p.ns # Ns(r)},
              orders |-> {o \in db.orders : o.ns # Ns(r)}]
    /\ era' = [era EXCEPT ![Ns(r)] = @ + 1]
    /\ Reply(r, 204, 0)
    /\ UNCHANGED <<at, crashes, doubt>>

\* list_products, get_product
Read(r) ==
    /\ pc[r] = "received" /\ IsTest(r, {"get", "list"})
    /\ LET found == \E p \in db.products : p.ns = Ns(r) /\ p.id = Test(r).product IN
         Reply(r, IF Test(r).op = "list" \/ found THEN 200 ELSE 404, 0)
    /\ UNCHANGED <<db, at, crashes, era, doubt>>

\* The service goes down and comes back; requests in progress get no answer.
Crash ==
    /\ crashes < MaxCrashes
    /\ crashes' = crashes + 1
    /\ pc' = [r \in Requests |-> IF pc[r] \in {"received", "begun"} THEN "lost" ELSE pc[r]]
    /\ lock' = {}
    /\ view' = [r \in Requests |-> NoTables]
    /\ UNCHANGED <<db, answer, at, era, doubt>>

Init ==
    /\ db = NoTables
    /\ lock = {}
    /\ pc = [r \in Requests |-> "unsent"]
    /\ view = [r \in Requests |-> NoTables]
    /\ answer = [r \in Requests |-> [code |-> 0, total |-> 0, era |-> 0]]
    /\ at \in [Deliveries -> {Seeding, Killed}]
    /\ crashes = 0
    /\ era = [n \in Namespaces |-> 0]
    /\ doubt = {}

Handle(r) ==
    \/ Refuse(r) \/ Begin(r) \/ Busy(r) \/ SeedNamespace(r) \/ CreateOrder(r)
    \/ DeleteNamespace(r) \/ Read(r)

Next ==
    \/ \E d \in Deliveries : Send(d) \/ Receive(d) \/ GiveUp(d) \/ Kill(d)
    \/ \E r \in Requests : Handle(r)
    \/ Crash

Spec == Init /\ [][Next]_dvars

---------------------------------------------------------------------------
(* Properties *)

NamespaceRow == [id : Namespaces, seed : Seeds]
ProductRow == [ns : Namespaces, id : Catalog, price : Nat]
OrderRow == [ns : Namespaces, id : STRING, product : Catalog, quantity : 1..10, total : Nat]
Tables == [namespaces : SUBSET NamespaceRow, products : SUBSET ProductRow, orders : SUBSET OrderRow]

\* Type invariant of the service and its clients.
TypeOK ==
    /\ db \in Tables
    /\ lock \in SUBSET Requests
    /\ pc \in [Requests -> {"unsent", "received", "begun", "answered", "lost"}]
    /\ view \in [Requests -> Tables]
    /\ answer \in [Requests -> [code : {0, 200, 201, 204, 403, 404, 409, 500}, total : Nat, era : Nat]]
    /\ at \in [Deliveries -> Killed..Done]
    /\ crashes \in 0..MaxCrashes
    /\ era \in [Namespaces -> Nat]
    /\ doubt \in SUBSET Deliveries

\* Every row belongs to a namespace that exists and is what its seed makes of
\* it, whatever was seeded, ordered and deleted at the same time: nothing of
\* an earlier life of the namespace shows through (ON DELETE CASCADE).
Consistent ==
    /\ \A m, n \in db.namespaces : m.id = n.id => m = n
    /\ \A p \in db.products : \E n \in db.namespaces : n.id = p.ns /\ p.price = Price[n.seed][p.id]
    /\ \A o \in db.orders : \E p \in db.products :
          p.ns = o.ns /\ p.id = o.product /\ o.total = p.price * o.quantity

\* An order ID stands for one order while its namespace lives: who was told
\* 201 finds exactly that order, however often and by whomever it was sent, and
\* who was told 409 asked for something else (create_order).
OneOrderPerId ==
    \A r \in Requests : IsTest(r, {"order"}) /\ pc[r] = "answered" /\ answer[r].era = era[Ns(r)] =>
        LET stored == {o \in db.orders : o.ns = Ns(r) /\ o.id = Test(r).id}
            asked(o) == o.product = Test(r).product /\ o.quantity = Test(r).quantity
        IN  /\ answer[r].code = 201 => \E o \in stored : stored = {o} /\ asked(o) /\ o.total = answer[r].total
            /\ answer[r].code = 409 => \E o \in stored : stored = {o} /\ ~asked(o)

\* A transaction that is about to insert an order never meets a key that has
\* come or a namespace that has gone since it looked (BEGIN IMMEDIATE).
NoBrokenInsert ==
    \A r \in Requests :
        /\ pc[r] = "begun" /\ IsTest(r, {"order"}) /\ Offered(r) # {}
        /\ ~\E o \in view[r].orders : o.ns = Ns(r) /\ o.id = Test(r).id
        => ~Violates(r)

\* Only d uses its namespace: true in a distributed run, where a run ID is used
\* once and a delivery has a number of its own.
Alone(d) == \A e \in Deliveries \ {d} : <<e.run, e.case, e.number>> # <<d.run, d.case, d.number>>

\* Until it asks for its deletion, a delivery that was told its fixtures are
\* there has them, whatever late requests of other deliveries still arrive
\* (docs/ARCHITECTURE.md:47).
Isolated ==
    \A d \in Deliveries : Alone(d) /\ at[d] \in 1..Len(Tests) =>
        /\ [id |-> Namespace(d), seed |-> d.seed] \in db.namespaces
        /\ {p \in db.products : p.ns = Namespace(d)} = Products(<<d, Seeding>>)

\* A delivery that got an answer to everything it sent leaves nothing behind,
\* passed, failed or refused, unless its deletion found the database locked.
CleanedUp ==
    \A d \in Deliveries :
        Alone(d) /\ at[d] = Done /\ d \notin doubt /\ answer[<<d, Deletion>>].code # 500
            => /\ ~\E n \in db.namespaces : n.id = Namespace(d)
               /\ ~\E row \in db.products \cup db.orders : row.ns = Namespace(d)

\* One transaction at a time has the write lock and sees the tables as they are
\* all along; no answer, error, crash or client that left leaves the lock behind
\* (database, BEGIN IMMEDIATE).
LockHeld ==
    /\ \A r \in Requests : pc[r] = "begun" <=> r \in lock
    /\ \A q, r \in lock : q = r
    /\ \A r \in Requests : pc[r] = "begun" => view[r] = db
=============================================================================
