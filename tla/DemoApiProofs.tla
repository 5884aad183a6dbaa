----------------------------- MODULE DemoApiProofs -----------------------------
(***************************************************************************)
(* Proofs about DemoApi, for any deliveries, tests, seeds and crashes: the *)
(* write lock makes a transaction see the tables it changes, so what the   *)
(* tables say of each other, and of what was answered, stays true.         *)
(***************************************************************************)
EXTENDS DemoApi, SequenceTheorems, TLAPS

USE DeliveryAssumption, CatalogAssumption, TestAssumption

Codes == {0, 200, 201, 204, 403, 404, 409, 500}

LEMMA RequestFacts ==
    ASSUME NEW r \in Requests
    PROVE  /\ Ns(r) \in Namespaces /\ Seed(r) \in Seeds /\ r[1] \in Deliveries
           /\ r[2] \in Seeding..Deletion /\ r = <<r[1], r[2]>>
           /\ IsTest(r, {"order"}) => /\ Test(r).id \in STRING /\ Test(r).quantity \in 1..10
                                      /\ ~IsSeed(r) /\ ~IsDelete(r)
  <1>1. r[1] \in Deliveries /\ r[2] \in Seeding..Deletion /\ r = <<r[1], r[2]>>
    BY DEF Requests
  <1>2. Ns(r) \in Namespaces /\ Seed(r) \in Seeds
    BY <1>1 DEF Ns, Namespaces, Seed
  <1>3. ASSUME IsTest(r, {"order"})
        PROVE  Test(r).id \in STRING /\ Test(r).quantity \in 1..10 /\ ~IsSeed(r) /\ ~IsDelete(r)
    <2>1. r[2] \in 1..Len(Tests) /\ Len(Tests) \in Nat
      BY <1>3 DEF IsTest
    <2>2. Tests[r[2]] \in TestStep
      BY <2>1
    <2> QED
      BY <2>1, <2>2 DEF Test, TestStep, IsSeed, IsDelete, Seeding, Deletion
  <1> QED
    BY <1>1, <1>2, <1>3

LEMMA Steps ==
    /\ Len(Tests) \in Nat
    /\ \A s \in Seeding..Deletion : \A passed \in BOOLEAN : After(s, passed) \in Killed..Done
    /\ Killed \in Killed..Done
  BY DEF Seeding, Deletion, Done, Killed, After

LEMMA ReplyTyped ==
    ASSUME TypeOK, NEW r \in Requests, NEW code \in Codes, NEW total \in Nat, Reply(r, code, total)
    PROVE  /\ pc' \in [Requests -> {"unsent", "received", "begun", "answered", "lost"}]
           /\ lock' \in SUBSET Requests
           /\ view' \in [Requests -> Tables]
           /\ answer' \in [Requests -> [code : {0, 200, 201, 204, 403, 404, 409, 500}, total : Nat, era : Nat]]
  <1>1. NoTables \in Tables
    BY DEF NoTables, Tables
  <1>2. era[Ns(r)] \in Nat
    BY RequestFacts DEF TypeOK
  <1> QED
    BY <1>1, <1>2 DEF Reply, TypeOK, Codes

LEMMA TablesParts ==
    ASSUME TypeOK
    PROVE  /\ db = [namespaces |-> db.namespaces, products |-> db.products, orders |-> db.orders]
           /\ db.namespaces \subseteq NamespaceRow /\ db.products \subseteq ProductRow /\ db.orders \subseteq OrderRow
           /\ \A r \in Requests : /\ view[r].namespaces \subseteq NamespaceRow
                                  /\ view[r].products \subseteq ProductRow
                                  /\ view[r].orders \subseteq OrderRow
  BY DEF TypeOK, Tables

\* What a transaction that writes does to the tables.
LEMMA SeedStep ==
    ASSUME TypeOK, NEW r \in Requests, SeedNamespace(r)
    PROVE  /\ pc[r] = "begun" /\ IsSeed(r) /\ UNCHANGED <<at, crashes, era, doubt>>
           /\ \/ /\ \E n \in view[r].namespaces : n.id = Ns(r) /\ n.seed # Seed(r)
                 /\ Reply(r, 409, 0) /\ UNCHANGED db
              \/ /\ \A n \in view[r].namespaces : n.id = Ns(r) => n.seed = Seed(r)
                 /\ Reply(r, 200, 0)
                 /\ db' = [namespaces |-> IF \E n \in view[r].namespaces : n.id = Ns(r) THEN db.namespaces
                                          ELSE db.namespaces \cup {[id |-> Ns(r), seed |-> Seed(r)]},
                           products |-> db.products \cup Unstored(Products(r), db.products),
                           orders |-> db.orders]
  <1> DEFINE existing == {n \in view[r].namespaces : n.id = Ns(r)}
  <1>1. existing = {} <=> ~\E n \in view[r].namespaces : n.id = Ns(r)
    OBVIOUS
  <1>3. CASE \E n \in existing : n.seed # Seed(r)
    BY <1>3 DEF SeedNamespace
  <1>4. CASE ~\E n \in existing : n.seed # Seed(r)
    BY <1>1, <1>4 DEF SeedNamespace
  <1> QED
    BY <1>3, <1>4

LEMMA OrderStep ==
    ASSUME TypeOK, NEW r \in Requests, CreateOrder(r)
    PROVE  /\ pc[r] = "begun" /\ IsTest(r, {"order"}) /\ UNCHANGED <<at, crashes, era, doubt>>
           /\ \/ /\ UNCHANGED db
                 /\ \E o \in view[r].orders : /\ o.ns = Ns(r) /\ o.id = Test(r).id
                                              /\ IF Same(o, r) THEN Reply(r, 201, o.total) ELSE Reply(r, 409, 0)
              \/ UNCHANGED db /\ (Reply(r, 404, 0) \/ Reply(r, 500, 0))
              \/ /\ \A o \in view[r].orders : ~(o.ns = Ns(r) /\ o.id = Test(r).id)
                 /\ ~Violates(r)
                 /\ \E p \in Offered(r) :
                      /\ Reply(r, 201, p.price * Test(r).quantity)
                      /\ db' = [namespaces |-> db.namespaces, products |-> db.products,
                                orders |-> db.orders \cup
                                  {[ns |-> Ns(r), id |-> Test(r).id, product |-> Test(r).product,
                                    quantity |-> Test(r).quantity, total |-> p.price * Test(r).quantity]}]
  <1>1. ASSUME NEW O
        PROVE  [db EXCEPT !.orders = O] = [namespaces |-> db.namespaces, products |-> db.products, orders |-> O]
    BY TablesParts
  <1>2. pc[r] = "begun" /\ IsTest(r, {"order"}) /\ UNCHANGED <<at, crashes, era, doubt>>
    BY DEF CreateOrder
  <1> DEFINE previous == {o \in view[r].orders : o.ns = Ns(r) /\ o.id = Test(r).id}
  <1>3. CASE \E o \in previous : (IF Same(o, r) THEN Reply(r, 201, o.total) ELSE Reply(r, 409, 0)) /\ UNCHANGED db
    BY <1>2, <1>3
  <1>4. CASE previous = {} /\ Offered(r) = {} /\ Reply(r, 404, 0) /\ UNCHANGED db
    BY <1>2, <1>4
  <1>5. CASE previous = {} /\ \E p \in Offered(r) : Insert(r, p.price)
    <2>1. PICK p \in Offered(r) : Insert(r, p.price)
      BY <1>5
    <2>2. CASE Violates(r)
      BY <1>2, <2>1, <2>2 DEF Insert
    <2>3. CASE ~Violates(r)
      <3>1. \A o \in view[r].orders : ~(o.ns = Ns(r) /\ o.id = Test(r).id)
        BY <1>5
      <3> QED
        BY <1>1, <1>2, <2>1, <2>3, <3>1 DEF Insert
    <2> QED
      BY <2>2, <2>3
  <1> QED
    BY <1>3, <1>4, <1>5 DEF CreateOrder

LEMMA ProductsTyped ==
    ASSUME NEW r \in Requests
    PROVE  Products(r) \subseteq ProductRow
  <1>1. ASSUME NEW p \in Catalog PROVE [ns |-> Ns(r), id |-> p, price |-> Price[Seed(r)][p]] \in ProductRow
    <2>1. Price[Seed(r)] \in [Catalog -> Nat]
      BY RequestFacts
    <2> QED
      BY <2>1, RequestFacts DEF ProductRow
  <1> QED
    BY <1>1 DEF Products

LEMMA HandleTyped ==
    ASSUME TypeOK, NEW r \in Requests, Handle(r)
    PROVE  TypeOK'
  <1>1. CASE Refuse(r)
    <2>1. answer[r] \in [code : Codes, total : Nat, era : Nat]
      BY DEF TypeOK, Codes
    <2>2. [answer[r] EXCEPT !.code = 403] \in [code : Codes, total : Nat, era : Nat]
      BY <2>1 DEF Codes
    <2> QED
      BY <1>1, <2>2 DEF Refuse, TypeOK, Codes
  <1>2. CASE Begin(r)
    BY <1>2 DEF Begin, TypeOK
  <1>3. CASE Busy(r)
    BY <1>3, ReplyTyped DEF Busy, TypeOK, Codes
  <1>4. CASE SeedNamespace(r)
    <2>1. db' \in Tables
      <3>1. Unstored(Products(r), db.products) \subseteq ProductRow
        BY ProductsTyped DEF Unstored
      <3>2. [id |-> Ns(r), seed |-> Seed(r)] \in NamespaceRow
        BY RequestFacts DEF NamespaceRow
      <3>3. db.products \cup Unstored(Products(r), db.products) \in SUBSET ProductRow
        BY <3>1 DEF TypeOK, Tables
      <3>4. db.namespaces \cup {[id |-> Ns(r), seed |-> Seed(r)]} \in SUBSET NamespaceRow
        BY <3>2 DEF TypeOK, Tables
      <3> QED
        BY <1>4, <3>3, <3>4, SeedStep, TablesParts DEF TypeOK, Tables
    <2>2. Reply(r, 409, 0) \/ Reply(r, 200, 0)
      BY <1>4, SeedStep
    <2>3. PICK code \in Codes : Reply(r, code, 0)
      BY <2>2 DEF Codes
    <2>4. UNCHANGED <<at, crashes, era, doubt>>
      BY <1>4, SeedStep
    <2> QED
      BY <2>1, <2>3, <2>4, ReplyTyped DEF TypeOK
  <1>5. CASE CreateOrder(r)
    <2>1. \A p \in Offered(r) : p.price * Test(r).quantity \in Nat /\ Test(r).product \in Catalog
      <3>1. ASSUME NEW p \in Offered(r) PROVE p.price \in Nat /\ Test(r).product \in Catalog
        <4>1. p \in ProductRow /\ p.id = Test(r).product
          BY TablesParts DEF Offered
        <4> QED
          BY <4>1 DEF ProductRow
      <3>2. Test(r).quantity \in Nat
        <4>1. Test(r).quantity \in 1..10
          BY <1>5, OrderStep, RequestFacts
        <4> QED
          BY <4>1
      <3>3. \A a, b \in Nat : a * b \in Nat
        OBVIOUS
      <3> QED
        BY <3>1, <3>2, <3>3
    <2>2. db' \in Tables
      <3>1. ASSUME NEW p \in Offered(r)
            PROVE  [ns |-> Ns(r), id |-> Test(r).id, product |-> Test(r).product,
                    quantity |-> Test(r).quantity, total |-> p.price * Test(r).quantity] \in OrderRow
        BY <1>5, <2>1, OrderStep, RequestFacts DEF OrderRow
      <3>2. db' = db \/ \E p \in Offered(r) :
              db' = [namespaces |-> db.namespaces, products |-> db.products,
                     orders |-> db.orders \cup
                       {[ns |-> Ns(r), id |-> Test(r).id, product |-> Test(r).product,
                         quantity |-> Test(r).quantity, total |-> p.price * Test(r).quantity]}]
        BY <1>5, OrderStep
      <3> QED
        BY <3>1, <3>2, TablesParts DEF TypeOK, Tables
    <2>3. \A o \in view[r].orders : o.total \in Nat
      BY DEF TypeOK, Tables, OrderRow
    <2>4. \E code \in {201, 409, 404, 500} : \E total \in Nat : Reply(r, code, total)
      <3>1. \/ Reply(r, 409, 0) \/ Reply(r, 404, 0) \/ Reply(r, 500, 0)
            \/ \E o \in view[r].orders : Reply(r, 201, o.total)
            \/ \E p \in Offered(r) : Reply(r, 201, p.price * Test(r).quantity)
        BY <1>5, OrderStep
      <3>2. 0 \in Nat
        OBVIOUS
      <3> QED
        BY <2>1, <2>3, <3>1, <3>2
    <2>5. PICK code \in Codes, total \in Nat : Reply(r, code, total)
      BY <2>4 DEF Codes
    <2>6. UNCHANGED <<at, crashes, era, doubt>>
      BY <1>5, OrderStep
    <2> QED
      BY <2>2, <2>5, <2>6, ReplyTyped DEF TypeOK
  <1>6. CASE DeleteNamespace(r)
    <2>1. db' \in Tables
      BY <1>6 DEF DeleteNamespace, TypeOK, Tables
    <2>2. era' \in [Namespaces -> Nat]
      BY <1>6, RequestFacts DEF DeleteNamespace, TypeOK
    <2> QED
      BY <1>6, <2>1, <2>2, ReplyTyped DEF DeleteNamespace, TypeOK, Codes
  <1>7. CASE Read(r)
    <2>1. \E code \in Codes : Reply(r, code, 0)
      BY <1>7 DEF Read, Codes
    <2> QED
      BY <1>7, <2>1, ReplyTyped DEF Read, TypeOK
  <1> QED
    BY <1>1, <1>2, <1>3, <1>4, <1>5, <1>6, <1>7 DEF Handle

LEMMA DeliveryTyped ==
    ASSUME TypeOK, NEW d \in Deliveries, Send(d) \/ Receive(d) \/ GiveUp(d) \/ Kill(d)
    PROVE  TypeOK'
  <1>1. CASE Send(d)
    BY <1>1 DEF Send, TypeOK
  <1>2. CASE Receive(d)
    <2>1. (answer[<<d, at[d]>>].code = Expected(<<d, at[d]>>)) \in BOOLEAN
      OBVIOUS
    <2>2. After(at[d], answer[<<d, at[d]>>].code = Expected(<<d, at[d]>>)) \in Killed..Done
      BY <1>2, <2>1, Steps DEF Receive
    <2> QED
      BY <1>2, <2>2 DEF Receive, TypeOK
  <1>3. CASE GiveUp(d)
    <2>1. After(at[d], FALSE) \in Killed..Done
      BY <1>3, Steps DEF GiveUp
    <2>2. \E a \in Killed..Done : at' = [at EXCEPT ![d] = a]
      <3> HIDE DEF After
      <3>1. at' = [at EXCEPT ![d] = After(at[d], FALSE)]
        BY <1>3 DEF GiveUp
      <3> QED
        BY <2>1, <3>1
    <2>3. doubt' \in SUBSET Deliveries
      BY <1>3 DEF GiveUp, TypeOK
    <2>4. UNCHANGED <<db, lock, pc, view, answer, crashes, era>>
      BY <1>3 DEF GiveUp
    <2> QED
      BY <2>2, <2>3, <2>4 DEF TypeOK
  <1>4. CASE Kill(d)
    BY <1>4, Steps DEF Kill, TypeOK
  <1> QED
    BY <1>1, <1>2, <1>3, <1>4

LEMMA NextTyped == TypeOK /\ [Next]_dvars => TypeOK'
  <1> SUFFICES ASSUME TypeOK, [Next]_dvars PROVE TypeOK'
    OBVIOUS
  <1>1. CASE Crash
    BY <1>1 DEF Crash, TypeOK, NoTables, Tables
  <1>2. CASE UNCHANGED dvars
    BY <1>2 DEF dvars, TypeOK
  <1> QED
    BY <1>1, <1>2, HandleTyped, DeliveryTyped DEF Next

LEMMA InitTyped == Init => TypeOK
  <1>1. {Seeding, Killed} \subseteq Killed..Done
    BY Steps DEF Seeding, Killed, Done
  <1>2. Init => at \in [Deliveries -> Killed..Done]
    BY <1>1 DEF Init
  <1> QED
    BY <1>2 DEF Init, TypeOK, NoTables, Tables

\* The tables keep their types, and a delivery is always at one of its steps.
THEOREM ServiceTyped == Spec => []TypeOK
  BY InitTyped, NextTyped, PTL DEF Spec

---------------------------------------------------------------------------
(* What every handler does, whatever else it does. *)

LEMMA ReplyFacts ==
    ASSUME TypeOK, NEW r \in Requests, NEW code, NEW total, Reply(r, code, total)
    PROVE  /\ pc'[r] = "answered" /\ lock' = lock \ {r}
           /\ answer'[r].code = code /\ answer'[r].total = total /\ answer'[r].era = era[Ns(r)]
           /\ \A q \in Requests \ {r} : pc'[q] = pc[q] /\ answer'[q] = answer[q] /\ view'[q] = view[q]
  BY DEF Reply, TypeOK

LEMMA Handlers ==
    ASSUME TypeOK, NEW r \in Requests, Handle(r)
    PROVE  /\ \A q \in Requests \ {r} : pc'[q] = pc[q] /\ answer'[q] = answer[q] /\ view'[q] = view[q]
           /\ UNCHANGED <<at, crashes, doubt>>
           /\ \/ /\ pc[r] = "received" /\ UNCHANGED <<db, era>> /\ pc'[r] = "answered"
                 /\ (lock' = lock \/ lock' = lock \ {r})
                 /\ answer'[r].code \in {200, 403, 404, 500} /\ (IsSeed(r) => answer'[r].code # 200)
                 /\ answer'[r].era \in {answer[r].era, era[Ns(r)]}
              \/ /\ pc[r] = "received" /\ UNCHANGED <<db, era, answer>> /\ pc'[r] = "begun"
                 /\ lock = {} /\ lock' = {r} /\ view'[r] = db /\ Writes(r)
              \/ pc[r] = "received" /\ pc'[r] = "answered" /\ DeleteNamespace(r) /\ lock' = lock \ {r}
              \/ pc[r] = "begun" /\ pc'[r] = "answered" /\ SeedNamespace(r) /\ lock' = lock \ {r} /\ UNCHANGED era
              \/ pc[r] = "begun" /\ pc'[r] = "answered" /\ CreateOrder(r) /\ lock' = lock \ {r} /\ UNCHANGED era
  <1>1. CASE Refuse(r)
    <2>1. answer'[r] = [answer[r] EXCEPT !.code = 403] /\ answer[r] \in [code : Codes, total : Nat, era : Nat]
      BY <1>1 DEF Refuse, TypeOK, Codes
    <2>2. answer'[r].code = 403 /\ answer'[r].era = answer[r].era
      BY <2>1
    <2> QED
      BY <1>1, <2>2 DEF Refuse, TypeOK
  <1>2. CASE Begin(r)
    BY <1>2 DEF Begin, TypeOK
  <1>3. CASE Busy(r)
    <2>1. Reply(r, 500, 0) /\ pc[r] = "received" /\ UNCHANGED <<db, at, crashes, era, doubt>>
      BY <1>3 DEF Busy
    <2> QED
      BY <2>1, ReplyFacts
  <1>4. CASE SeedNamespace(r)
    <2>1. \E code : Reply(r, code, 0)
      BY <1>4, SeedStep
    <2> QED
      BY <1>4, <2>1, SeedStep, ReplyFacts
  <1>5. CASE CreateOrder(r)
    <2>1. \E code : \E total : Reply(r, code, total)
      BY <1>5, OrderStep
    <2> QED
      BY <1>5, <2>1, OrderStep, ReplyFacts
  <1>6. CASE DeleteNamespace(r)
    <2>1. Reply(r, 204, 0) /\ pc[r] = "received" /\ UNCHANGED <<at, crashes, doubt>>
      BY <1>6 DEF DeleteNamespace
    <2> QED
      BY <1>6, <2>1, ReplyFacts
  <1>7. CASE Read(r)
    <2>1. /\ pc[r] = "received" /\ UNCHANGED <<db, at, crashes, era, doubt>>
          /\ \E code \in {200, 404} : Reply(r, code, 0)
      BY <1>7 DEF Read
    <2>2. ~IsSeed(r)
      BY <1>7, Steps DEF Read, IsTest, IsSeed, Seeding
    <2> QED
      BY <2>1, <2>2, ReplyFacts
  <1> QED
    BY <1>1, <1>2, <1>3, <1>4, <1>5, <1>6, <1>7 DEF Handle

LEMMA Clients ==
    ASSUME TypeOK, NEW d \in Deliveries, Send(d) \/ Receive(d) \/ GiveUp(d) \/ Kill(d)
    PROVE  /\ UNCHANGED <<db, lock, view, answer, era>>
           /\ \A r \in Requests : pc'[r] = pc[r] \/ (pc[r] = "unsent" /\ pc'[r] = "received" /\ r = <<d, at[d]>>)
  <1>1. CASE Send(d)
    BY <1>1 DEF Send, TypeOK
  <1>2. CASE ~Send(d)
    BY <1>2 DEF Receive, GiveUp, Kill
  <1> QED
    BY <1>1, <1>2

---------------------------------------------------------------------------
(* A transaction that writes sees the tables as they are. *)

LEMMA LockStep ==
    ASSUME TypeOK, LockHeld, [Next]_dvars
    PROVE  LockHeld'
  <1>1. ASSUME NEW d \in Deliveries, Send(d) \/ Receive(d) \/ GiveUp(d) \/ Kill(d) PROVE LockHeld'
    <2>1. \A r \in Requests : pc'[r] = "begun" <=> pc[r] = "begun"
      BY <1>1, Clients
    <2> QED
      BY <1>1, <2>1, Clients DEF LockHeld
  <1>2. ASSUME NEW r \in Requests, Handle(r) PROVE LockHeld'
    <2>1. CASE pc[r] = "received" /\ UNCHANGED db /\ pc'[r] = "answered" /\ (lock' = lock \/ lock' = lock \ {r})
      BY <1>2, <2>1, Handlers DEF LockHeld
    <2>2. CASE pc'[r] = "begun" /\ lock = {} /\ lock' = {r} /\ view'[r] = db /\ UNCHANGED db
      BY <1>2, <2>2, Handlers DEF LockHeld
    <2>3. CASE pc'[r] = "answered" /\ DeleteNamespace(r) /\ lock' = lock \ {r}
      <3>1. lock = {}
        BY <2>3 DEF DeleteNamespace
      <3> QED
        BY <1>2, <2>3, <3>1, Handlers DEF LockHeld
    <2>4. CASE pc[r] = "begun" /\ pc'[r] = "answered" /\ lock' = lock \ {r}
      BY <1>2, <2>4, Handlers DEF LockHeld
    <2> QED
      BY <1>2, <2>1, <2>2, <2>3, <2>4, Handlers
  <1>3. CASE Crash
    BY <1>3 DEF Crash, LockHeld
  <1>4. CASE UNCHANGED dvars
    BY <1>4 DEF dvars, LockHeld
  <1> QED
    BY <1>1, <1>2, <1>3, <1>4 DEF Next

---------------------------------------------------------------------------
(* Rows tell of each other what their seed makes of them. *)

Keys == \A o, q \in db.orders : o.ns = q.ns /\ o.id = q.id => o = q

LEMMA RowsStep ==
    ASSUME TypeOK, LockHeld, Consistent, Keys, [Next]_dvars
    PROVE  Consistent' /\ Keys'
  <1>1. CASE UNCHANGED db
    BY <1>1 DEF Consistent, Keys
  <1>2. ASSUME NEW r \in Requests, SeedNamespace(r) PROVE Consistent' /\ Keys'
    <2>1. view[r] = db
      BY <1>2, SeedStep DEF LockHeld
    <2> DEFINE row == [id |-> Ns(r), seed |-> Seed(r)]
    <2>2. CASE /\ \A n \in db.namespaces : n.id = Ns(r) => n.seed = Seed(r)
               /\ db'.namespaces = IF \E n \in db.namespaces : n.id = Ns(r) THEN db.namespaces
                                   ELSE db.namespaces \cup {row}
               /\ db'.products = db.products \cup Unstored(Products(r), db.products)
               /\ db'.orders = db.orders
      <3>1. \E n \in db'.namespaces : n.id = Ns(r) /\ n.seed = Seed(r)
        BY <2>2
      <3>2. \A m, n \in db'.namespaces : m.id = n.id => m = n
        BY <2>2 DEF Consistent
      <3>3. \A p \in Unstored(Products(r), db.products) : p.ns = Ns(r) /\ p.price = Price[Seed(r)][p.id]
        BY DEF Unstored, Products
      <3>4. \A p \in db'.products : \E n \in db'.namespaces : n.id = p.ns /\ p.price = Price[n.seed][p.id]
        <4>1. ASSUME NEW p \in db.products PROVE \E n \in db'.namespaces : n.id = p.ns /\ p.price = Price[n.seed][p.id]
          BY <2>2 DEF Consistent
        <4>2. ASSUME NEW p \in Unstored(Products(r), db.products)
              PROVE  \E n \in db'.namespaces : n.id = p.ns /\ p.price = Price[n.seed][p.id]
          <5>1. PICK n \in db'.namespaces : n.id = Ns(r) /\ n.seed = Seed(r)
            BY <3>1
          <5> QED
            BY <3>3, <5>1
        <4> QED
          BY <2>2, <4>1, <4>2
      <3>5. \A o \in db'.orders : \E p \in db'.products : p.ns = o.ns /\ p.id = o.product /\ o.total = p.price * o.quantity
        BY <2>2 DEF Consistent
      <3> QED
        BY <2>2, <3>2, <3>4, <3>5 DEF Consistent, Keys
    <2>3. CASE UNCHANGED db
      BY <1>1, <2>3
    <2>4. ASSUME ~UNCHANGED db
          PROVE  /\ \A n \in db.namespaces : n.id = Ns(r) => n.seed = Seed(r)
                 /\ db' = [namespaces |-> IF \E n \in db.namespaces : n.id = Ns(r) THEN db.namespaces
                                         ELSE db.namespaces \cup {row},
                          products |-> db.products \cup Unstored(Products(r), db.products),
                          orders |-> db.orders]
      BY <1>2, <2>1, <2>4, SeedStep
    <2>5. \A t, a, b, c : t = [namespaces |-> a, products |-> b, orders |-> c]
            => t.namespaces = a /\ t.products = b /\ t.orders = c
      OBVIOUS
    <2>6. CASE ~UNCHANGED db
      <3> HIDE DEF row
      <3>1. /\ db'.namespaces = IF \E n \in db.namespaces : n.id = Ns(r) THEN db.namespaces
                                ELSE db.namespaces \cup {row}
            /\ db'.products = db.products \cup Unstored(Products(r), db.products)
            /\ db'.orders = db.orders
        BY <2>4, <2>5, <2>6
      <3> QED
        BY <2>2, <2>4, <2>6, <3>1
    <2> QED
      BY <2>3, <2>6
  <1>3. ASSUME NEW r \in Requests, CreateOrder(r) PROVE Consistent' /\ Keys'
    <2>1. view[r] = db
      BY <1>3, OrderStep DEF LockHeld
    <2>2. CASE UNCHANGED db
      BY <1>1, <2>2
    <2>3. CASE ~UNCHANGED db
      <3> DEFINE new(p) == [ns |-> Ns(r), id |-> Test(r).id, product |-> Test(r).product,
                            quantity |-> Test(r).quantity, total |-> p.price * Test(r).quantity]
      <3>1. PICK p \in Offered(r) :
              /\ \A o \in db.orders : ~(o.ns = Ns(r) /\ o.id = Test(r).id)
              /\ db' = [namespaces |-> db.namespaces, products |-> db.products, orders |-> db.orders \cup {new(p)}]
        BY <1>3, <2>1, <2>3, OrderStep
      <3>2. p \in db.products /\ p.ns = Ns(r) /\ p.id = Test(r).product
        BY <2>1 DEF Offered
      <3>3. new(p).ns = Ns(r) /\ new(p).id = Test(r).id /\ new(p).product = p.id /\ new(p).total = p.price * new(p).quantity
        BY <3>2
      <3>4. db'.namespaces = db.namespaces /\ db'.products = db.products /\ db'.orders = db.orders \cup {new(p)}
        BY <3>1
      <3> HIDE DEF new
      <3>5. Keys'
        BY <3>1, <3>3, <3>4 DEF Keys
      <3>6. \A o \in db'.orders : \E q \in db'.products : q.ns = o.ns /\ q.id = o.product /\ o.total = q.price * o.quantity
        BY <3>2, <3>3, <3>4 DEF Consistent
      <3> QED
        BY <3>4, <3>5, <3>6 DEF Consistent
    <2> QED
      BY <2>2, <2>3
  <1>4. ASSUME NEW r \in Requests, DeleteNamespace(r) PROVE Consistent' /\ Keys'
    <2>1. /\ db'.namespaces = {n \in db.namespaces : n.id # Ns(r)}
          /\ db'.products = {p \in db.products : p.ns # Ns(r)}
          /\ db'.orders = {o \in db.orders : o.ns # Ns(r)}
      BY <1>4 DEF DeleteNamespace
    <2> QED
      BY <2>1 DEF Consistent, Keys
  <1>5. UNCHANGED db \/ \E r \in Requests : SeedNamespace(r) \/ CreateOrder(r) \/ DeleteNamespace(r)
    BY DEF Next, Handle, Refuse, Begin, Busy, Read, Send, Receive, GiveUp, Kill, Crash, dvars
  <1> QED
    BY <1>1, <1>2, <1>3, <1>4, <1>5

LEMMA Rows == Spec => [](TypeOK /\ LockHeld /\ Consistent /\ Keys)
  <1>1. Init => LockHeld /\ Consistent /\ Keys
    BY DEF Init, LockHeld, Consistent, Keys, NoTables
  <1> QED
    BY <1>1, InitTyped, NextTyped, LockStep, RowsStep, PTL DEF Spec

\* Transactions that write follow one another, and none leaves the lock behind
\* (database, BEGIN IMMEDIATE).
THEOREM OneTransaction == Spec => []LockHeld
  BY Rows, PTL

\* Whatever is seeded, ordered and deleted at the same time, no row outlives its
\* namespace, and none differs from what the seed of its namespace makes of it
\* (ON DELETE CASCADE).
THEOREM NothingOutlives == Spec => []Consistent
  BY Rows, PTL

\* A transaction that inserts an order meets neither a key that has come nor a
\* namespace that has gone (BEGIN IMMEDIATE).
THEOREM InsertsHold == Spec => []NoBrokenInsert
  <1>1. TypeOK /\ LockHeld /\ Consistent => NoBrokenInsert
    <2> SUFFICES ASSUME LockHeld, Consistent, NEW r \in Requests, pc[r] = "begun", Offered(r) # {},
                        ~\E o \in view[r].orders : o.ns = Ns(r) /\ o.id = Test(r).id
                 PROVE  ~Violates(r)
      BY DEF NoBrokenInsert
    <2>1. view[r] = db
      BY DEF LockHeld
    <2>2. PICK p \in db.products : p.ns = Ns(r)
      BY <2>1 DEF Offered
    <2> QED
      BY <2>1, <2>2 DEF Consistent, Violates
  <1> QED
    BY <1>1, Rows, PTL

---------------------------------------------------------------------------
(* What was answered stays true while the namespace lives. *)

Stored(r) == {o \in db.orders : o.ns = Ns(r) /\ o.id = Test(r).id}
Asked(o, r) == o.product = Test(r).product /\ o.quantity = Test(r).quantity

\* What r was told holds, if it was told by the namespace that is there.
Told(r) ==
    IsTest(r, {"order"}) /\ pc[r] = "answered" /\ answer[r].era = era[Ns(r)] =>
        /\ answer[r].code = 201 => \E o \in Stored(r) : Stored(r) = {o} /\ Asked(o, r) /\ o.total = answer[r].total
        /\ answer[r].code = 409 => \E o \in Stored(r) : Stored(r) = {o} /\ ~Asked(o, r)

AnswerInv == \A r \in Requests : answer[r].era <= era[Ns(r)] /\ Told(r)

LEMMA AnswerHandled ==
    ASSUME TypeOK, LockHeld, Keys, AnswerInv, NEW r \in Requests, Handle(r), NEW q \in Requests
    PROVE  answer'[q].era <= era'[Ns(q)] /\ Told(q)'
  <1> USE DEF AnswerInv
  <1>0. answer[q].era \in Nat /\ era[Ns(q)] \in Nat /\ era[Ns(r)] \in Nat /\ answer[r].era \in Nat
    BY RequestFacts DEF TypeOK
  <1>1. CASE /\ pc[r] = "received" /\ UNCHANGED <<db, era>> /\ pc'[r] = "answered"
             /\ answer'[r].code \in {200, 403, 404, 500} /\ answer'[r].era \in {answer[r].era, era[Ns(r)]}
    <2>1. CASE q = r
      <3>1. answer'[q].era <= era'[Ns(q)]
        BY <1>0, <1>1, <2>1
      <3>2. answer'[q].code # 201 /\ answer'[q].code # 409
        BY <1>1, <2>1
      <3> QED
        BY <3>1, <3>2 DEF Told
    <2>2. CASE q # r
      <3>1. pc'[q] = pc[q] /\ answer'[q] = answer[q]
        BY <2>2, Handlers
      <3>2. Stored(q)' = Stored(q)
        BY <1>1 DEF Stored
      <3>3. Told(q)' <=> Told(q)
        BY <1>1, <3>1, <3>2 DEF Told, Asked
      <3> QED
        BY <1>1, <3>1, <3>3
    <2> QED
      BY <2>1, <2>2
  <1>2. CASE pc[r] = "received" /\ UNCHANGED <<db, era, answer>> /\ pc'[r] = "begun"
    BY <1>2, Handlers DEF Told, Stored, Asked
  <1>3. CASE DeleteNamespace(r)
    <2>1. /\ era' = [era EXCEPT ![Ns(r)] = @ + 1] /\ Reply(r, 204, 0) /\ IsDelete(r)
          /\ db'.orders = {o \in db.orders : o.ns # Ns(r)}
      BY <1>3 DEF DeleteNamespace
    <2>2. answer'[q].era = IF q = r THEN era[Ns(r)] ELSE answer[q].era
      BY <2>1, ReplyFacts
    <2>3. era'[Ns(q)] = IF Ns(q) = Ns(r) THEN era[Ns(q)] + 1 ELSE era[Ns(q)]
      BY <2>1, RequestFacts DEF TypeOK
    <2>4. answer'[q].era <= era'[Ns(q)] /\ (Ns(q) = Ns(r) => answer'[q].era # era'[Ns(q)])
      BY <1>0, <2>2, <2>3
    <2>5. Ns(q) # Ns(r) => Stored(q)' = Stored(q) /\ pc'[q] = pc[q] /\ answer'[q] = answer[q]
      BY <2>1, ReplyFacts DEF Stored
    <2> QED
      BY <2>3, <2>4, <2>5 DEF Told, Asked
  <1>4. CASE SeedNamespace(r)
    <2>1. UNCHANGED era /\ ~IsTest(r, {"order"}) /\ \E code : Reply(r, code, 0)
      BY <1>4, SeedStep, RequestFacts
    <2>2. db'.orders = db.orders
      BY <1>4, SeedStep
    <2> QED
      BY <1>0, <2>1, <2>2, ReplyFacts DEF Told, Stored, Asked
  <1>5. CASE CreateOrder(r)
    <2>1. view[r] = db /\ UNCHANGED era /\ IsTest(r, {"order"})
      BY <1>5, OrderStep DEF LockHeld
    <2>2. ASSUME UNCHANGED db, NEW o \in db.orders, o.ns = Ns(r), o.id = Test(r).id,
                 IF Same(o, r) THEN Reply(r, 201, o.total) ELSE Reply(r, 409, 0)
          PROVE  answer'[q].era <= era'[Ns(q)] /\ Told(q)'
      <3>1. Stored(r) = {o}
        BY <2>2 DEF Stored, Keys
      <3>2. Stored(q)' = Stored(q) /\ Stored(r)' = Stored(r)
        BY <2>2 DEF Stored
      <3>3. answer'[r].code = (IF Same(o, r) THEN 201 ELSE 409) /\ answer'[r].era = era[Ns(r)]
            /\ (Same(o, r) => answer'[r].total = o.total)
        BY <2>2, ReplyFacts
      <3>4. q # r => pc'[q] = pc[q] /\ answer'[q] = answer[q]
        BY <1>5, Handlers DEF Handle
      <3>5. CASE q = r
        BY <1>0, <2>1, <3>1, <3>2, <3>3, <3>5 DEF Told, Asked, Same
      <3>6. CASE q # r
        BY <2>1, <3>2, <3>4, <3>6 DEF Told, Asked
      <3> QED
        BY <3>5, <3>6
    <2>3. ASSUME UNCHANGED db, Reply(r, 404, 0) \/ Reply(r, 500, 0)
          PROVE  answer'[q].era <= era'[Ns(q)] /\ Told(q)'
      BY <1>0, <2>1, <2>3, ReplyFacts DEF Told, Stored, Asked
    <2>4. ASSUME NEW p \in Offered(r), NEW new, Reply(r, 201, p.price * Test(r).quantity),
                 \A o \in db.orders : ~(o.ns = Ns(r) /\ o.id = Test(r).id),
                 new = [ns |-> Ns(r), id |-> Test(r).id, product |-> Test(r).product,
                        quantity |-> Test(r).quantity, total |-> p.price * Test(r).quantity],
                 db'.orders = db.orders \cup {new}
          PROVE  answer'[q].era <= era'[Ns(q)] /\ Told(q)'
      <3>1. /\ answer'[r].code = 201 /\ answer'[r].total = p.price * Test(r).quantity
            /\ answer'[r].era = era[Ns(r)]
            /\ q # r => pc'[q] = pc[q] /\ answer'[q] = answer[q]
        BY <2>4, ReplyFacts
      <3>2. /\ new.ns = Ns(r) /\ new.id = Test(r).id /\ new.product = Test(r).product
            /\ new.quantity = Test(r).quantity /\ new.total = p.price * Test(r).quantity
        BY <2>4
      <3>3. CASE q = r
        <4>1. Stored(r)' = {new}
          BY <2>4, <3>2 DEF Stored
        <4> QED
          BY <1>0, <2>1, <3>1, <3>2, <3>3, <4>1 DEF Told, Asked
      <3>4. CASE q # r /\ Ns(q) = Ns(r) /\ Test(q).id = Test(r).id
        <4>1. Stored(q) = {}
          BY <2>4, <3>4 DEF Stored
        <4> QED
          BY <2>1, <3>1, <3>4, <4>1 DEF Told
      <3>5. CASE q # r /\ ~(Ns(q) = Ns(r) /\ Test(q).id = Test(r).id)
        <4>1. Stored(q)' = Stored(q)
          BY <2>4, <3>2, <3>5 DEF Stored
        <4> QED
          BY <2>1, <3>1, <3>5, <4>1 DEF Told, Asked
      <3> QED
        BY <3>3, <3>4, <3>5
    <2>5. CASE \E o \in db.orders : /\ o.ns = Ns(r) /\ o.id = Test(r).id /\ UNCHANGED db
                                    /\ IF Same(o, r) THEN Reply(r, 201, o.total) ELSE Reply(r, 409, 0)
      BY <2>2, <2>5
    <2>6. CASE /\ \A o \in db.orders : ~(o.ns = Ns(r) /\ o.id = Test(r).id)
               /\ \E p \in Offered(r) :
                    /\ Reply(r, 201, p.price * Test(r).quantity)
                    /\ db' = [namespaces |-> db.namespaces, products |-> db.products,
                              orders |-> db.orders \cup
                                {[ns |-> Ns(r), id |-> Test(r).id, product |-> Test(r).product,
                                  quantity |-> Test(r).quantity, total |-> p.price * Test(r).quantity]}]
      <3>1. PICK p \in Offered(r) :
                    /\ Reply(r, 201, p.price * Test(r).quantity)
                    /\ db' = [namespaces |-> db.namespaces, products |-> db.products,
                              orders |-> db.orders \cup
                                {[ns |-> Ns(r), id |-> Test(r).id, product |-> Test(r).product,
                                  quantity |-> Test(r).quantity, total |-> p.price * Test(r).quantity]}]
        BY <2>6
      <3>2. \A t, a, b, c : t = [namespaces |-> a, products |-> b, orders |-> c] => t.orders = c
        OBVIOUS
      <3> QED
        BY <2>4, <2>6, <3>1, <3>2
    <2> QED
      BY <1>5, <2>1, <2>3, <2>5, <2>6, OrderStep
  <1> QED
    BY <1>1, <1>2, <1>3, <1>4, <1>5, Handlers

LEMMA AnswerStep ==
    ASSUME TypeOK, LockHeld, Keys, AnswerInv, [Next]_dvars
    PROVE  AnswerInv'
  <1>1. ASSUME NEW r \in Requests, Handle(r) PROVE AnswerInv'
    BY <1>1, AnswerHandled DEF AnswerInv
  <1>2. ASSUME NEW d \in Deliveries, Send(d) \/ Receive(d) \/ GiveUp(d) \/ Kill(d) PROVE AnswerInv'
    <2>1. \A r \in Requests : pc'[r] = "answered" => pc[r] = "answered"
      BY <1>2, Clients
    <2> QED
      BY <1>2, <2>1, Clients DEF AnswerInv, Told, Stored, Asked
  <1>3. CASE Crash
    <2>1. \A r \in Requests : pc'[r] = "answered" => pc[r] = "answered"
      BY <1>3 DEF Crash
    <2> QED
      BY <1>3, <2>1 DEF Crash, AnswerInv, Told, Stored, Asked
  <1>4. CASE UNCHANGED dvars
    BY <1>4 DEF dvars, AnswerInv, Told, Stored, Asked
  <1> QED
    BY <1>1, <1>2, <1>3, <1>4 DEF Next

\* An order ID stands for one order, and everybody who was told 201 or 409 was told
\* of that one, however the orders were repeated and interleaved (create_order).
THEOREM OneOrder == Spec => []OneOrderPerId
  <1>1. Init => AnswerInv
    <2> SUFFICES ASSUME Init, NEW r \in Requests PROVE answer[r].era <= era[Ns(r)] /\ Told(r)
      BY DEF AnswerInv
    <2> QED
      BY RequestFacts DEF Init, Told
  <1>2. AnswerInv => OneOrderPerId
    BY DEF AnswerInv, OneOrderPerId, Told, Stored, Asked
  <1> QED
    BY <1>1, <1>2, Rows, AnswerStep, PTL DEF Spec

---------------------------------------------------------------------------
(* Nobody else seeds or deletes the namespace of a delivery. *)

Fixtures(d) ==
    /\ [id |-> Namespace(d), seed |-> d.seed] \in db.namespaces
    /\ {p \in db.products : p.ns = Namespace(d)} = Products(<<d, Seeding>>)

First(d) == <<d, Seeding>>
Last(d)  == <<d, Deletion>>

Seeded(d) == pc[First(d)] = "answered" /\ answer[First(d)].code = 200

\* No step is sent ahead, and none after a seeding that failed.
InTurn(d) ==
    /\ at[d] \in Seeding..Deletion => \A s \in Seeding..Deletion : s > at[d] => pc[<<d, s>>] = "unsent"
    /\ at[d] \in 1..Len(Tests) => Seeded(d)

\* Before the seeding there is no namespace; after it there are the fixtures,
\* until the deletion.
Lives(d) ==
    Alone(d) =>
        /\ pc[First(d)] \in {"unsent", "received", "begun"} => ~\E n \in db.namespaces : n.id = Namespace(d)
        /\ Seeded(d) /\ pc[Last(d)] \in {"unsent", "received"} => Fixtures(d)

LifeInv == \A d \in Deliveries : InTurn(d) /\ Lives(d)

LEMMA Numbers ==
    /\ Seeding \in Seeding..Deletion /\ Deletion \in Seeding..Deletion /\ Seeding # Deletion
    /\ Seeding..Deletion \subseteq Int /\ 1..Len(Tests) \subseteq Seeding..Deletion
    /\ \A s \in 1..Len(Tests) : s < Deletion /\ s # Seeding
    /\ Killed \notin Seeding..Deletion /\ Done \notin Seeding..Deletion
  BY Steps DEF Seeding, Deletion, Killed, Done

LEMMA StepRequests ==
    ASSUME NEW d \in Deliveries
    PROVE  /\ \A s \in Seeding..Deletion : <<d, s>> \in Requests
           /\ First(d) \in Requests /\ Last(d) \in Requests /\ First(d) # Last(d)
  BY Numbers DEF Requests, First, Last

LEMMA StepKinds ==
    ASSUME NEW d \in Deliveries
    PROVE  /\ Ns(First(d)) = Namespace(d) /\ Seed(First(d)) = d.seed
           /\ IsSeed(First(d)) /\ IsDelete(Last(d))
           /\ \A r \in Requests : /\ IsSeed(r) => r = First(r[1])
                                  /\ IsDelete(r) => r = Last(r[1])
                                  /\ Alone(d) /\ r[1] # d => Ns(r) # Namespace(d) /\ r # First(d) /\ r # Last(d)
  <1>1. \A r \in Requests : r[1] \in Deliveries /\ r = <<r[1], r[2]>>
    BY DEF Requests
  <1>2. \A r \in Requests : Alone(d) /\ r[1] # d => Ns(r) # Namespace(d)
    BY <1>1 DEF Ns, Alone, Namespace
  <1> QED
    BY <1>1, <1>2 DEF First, Last, Ns, Seed, IsSeed, IsDelete

LEMMA HandlerLife ==
    ASSUME TypeOK, LockHeld, Consistent, LifeInv, NEW r \in Requests, Handle(r), NEW d \in Deliveries
    PROVE  InTurn(d)' /\ Lives(d)'
  <1> DEFINE first == First(d)
             last == Last(d)
  <1>0. first \in Requests /\ last \in Requests /\ first # last
    BY StepRequests
  <1>1. at' = at /\ pc[r] \in {"received", "begun"}
    BY Handlers
  <1>2. \A q \in Requests : pc[q] = "unsent" => pc'[q] = "unsent"
    BY <1>1, Handlers
  <1>3. \A q \in Requests : pc[q] = "answered" => pc'[q] = "answered" /\ answer'[q] = answer[q]
    BY <1>1, Handlers
  <1>4. InTurn(d)'
    <2>1. InTurn(d)
      BY DEF LifeInv
    <2>2. ASSUME at[d] \in Seeding..Deletion, NEW s \in Seeding..Deletion, s > at[d] PROVE pc'[<<d, s>>] = "unsent"
      BY <1>2, <2>1, <2>2, StepRequests DEF InTurn
    <2>3. Seeded(d) => Seeded(d)'
      BY <1>0, <1>3 DEF Seeded
    <2> QED
      BY <1>1, <2>1, <2>2, <2>3 DEF InTurn
  <1>5. Lives(d)
    BY DEF LifeInv
  <1>6. CASE UNCHANGED db /\ (r = first => answer'[r].code # 200 \/ pc'[r] # "answered")
    <2>1. pc'[first] \in {"unsent", "received", "begun"} => pc[first] \in {"unsent", "received", "begun"}
      BY <1>0, <1>1, Handlers
    <2>2. pc'[first] = "answered" /\ answer'[first].code = 200 => pc[first] = "answered" /\ answer[first].code = 200
      BY <1>0, <1>6, Handlers
    <2>3. pc'[last] \in {"unsent", "received"} => pc[last] \in {"unsent", "received"}
      BY <1>0, <1>1, Handlers
    <2> QED
      BY <1>4, <1>5, <1>6, <2>1, <2>2, <2>3 DEF Lives, Seeded, Fixtures
  <1>7. CASE SeedNamespace(r)
    <2>1. view[r] = db /\ pc[r] = "begun" /\ pc'[r] = "answered" /\ IsSeed(r)
      BY <1>7, SeedStep, Handlers DEF LockHeld, SeedNamespace, Reply, TypeOK
    <2>2. CASE UNCHANGED db /\ Reply(r, 409, 0)
      <3>1. answer'[r].code # 200
        BY <2>2, ReplyFacts
      <3> QED
        BY <1>6, <2>2, <3>1
    <2>3. CASE /\ db' = [namespaces |-> IF \E n \in db.namespaces : n.id = Ns(r) THEN db.namespaces
                                        ELSE db.namespaces \cup {[id |-> Ns(r), seed |-> Seed(r)]},
                         products |-> db.products \cup Unstored(Products(r), db.products),
                         orders |-> db.orders]
      <3> DEFINE row == [id |-> Ns(r), seed |-> Seed(r)]
      <3>1. \A t, a, b, c : t = [namespaces |-> a, products |-> b, orders |-> c] => t.namespaces = a /\ t.products = b
        OBVIOUS
      <3>2. /\ db'.namespaces = IF \E n \in db.namespaces : n.id = Ns(r) THEN db.namespaces
                                ELSE db.namespaces \cup {row}
            /\ db'.products = db.products \cup Unstored(Products(r), db.products)
        BY <2>3, <3>1
      <3>3. row.id = Ns(r)
        OBVIOUS
      <3>4. \A p \in Products(r) : p.ns = Ns(r)
        BY DEF Products
      <3>5. CASE Alone(d) /\ r[1] # d
        <4>1. Ns(r) # Namespace(d) /\ r # first /\ r # last
          BY <3>5, StepKinds
        <4>2. \A n \in db'.namespaces : n.id = Namespace(d) <=> n \in db.namespaces /\ n.id = Namespace(d)
          BY <3>2, <3>3, <4>1
        <4>3. {p \in db'.products : p.ns = Namespace(d)} = {p \in db.products : p.ns = Namespace(d)}
          BY <3>2, <3>4, <4>1 DEF Unstored
        <4>4. db.namespaces \subseteq db'.namespaces
          BY <3>2
        <4>5. pc'[first] = pc[first] /\ answer'[first] = answer[first] /\ pc'[last] = pc[last]
          BY <1>0, <4>1, Handlers
        <4> QED
          BY <1>4, <1>5, <4>2, <4>3, <4>4, <4>5 DEF Lives, Seeded, Fixtures
      <3>6. CASE Alone(d) /\ r[1] = d
        <4>1. r = first /\ Ns(r) = Namespace(d) /\ Seed(r) = d.seed
          BY <2>1, <3>6, StepKinds
        <4>2. ~\E n \in db.namespaces : n.id = Ns(r)
          BY <1>5, <2>1, <3>6, <4>1 DEF Lives
        <4>3. [id |-> Namespace(d), seed |-> d.seed] \in db'.namespaces
          BY <3>2, <4>1, <4>2
        <4>4. ~\E p \in db.products : p.ns = Ns(r)
          BY <4>2 DEF Consistent
        <4>5. Unstored(Products(r), db.products) = Products(r)
          BY <3>4, <4>4 DEF Unstored
        <4>6. {p \in db'.products : p.ns = Namespace(d)} = Products(first)
          BY <3>2, <3>4, <4>1, <4>4, <4>5
        <4> QED
          BY <1>4, <2>1, <4>1, <4>3, <4>6 DEF Lives, First, Fixtures
      <3>7. CASE ~Alone(d)
        BY <1>4, <3>7 DEF Lives, Alone
      <3> QED
        BY <3>5, <3>6, <3>7
    <2> QED
      BY <1>7, <2>1, <2>2, <2>3, SeedStep
  <1>8. CASE CreateOrder(r)
    <2>1. db'.namespaces = db.namespaces /\ db'.products = db.products
      BY <1>8, OrderStep
    <2>2. r # first /\ r # last
      BY <1>8, OrderStep, RequestFacts, StepKinds
    <2>3. pc'[first] = pc[first] /\ answer'[first] = answer[first] /\ pc'[last] = pc[last]
      BY <1>0, <2>2, Handlers
    <2> QED
      BY <1>4, <1>5, <2>1, <2>3 DEF Lives, Seeded, Fixtures
  <1>9. CASE DeleteNamespace(r)
    <2>1. /\ IsDelete(r) /\ Reply(r, 204, 0)
          /\ db'.namespaces = {n \in db.namespaces : n.id # Ns(r)}
          /\ db'.products = {p \in db.products : p.ns # Ns(r)}
      BY <1>9 DEF DeleteNamespace
    <2>2. r # first /\ (r[1] = d => r = last)
      <3>1. ~IsSeed(r)
        BY <2>1, Numbers DEF IsSeed, IsDelete
      <3> QED
        BY <2>1, <3>1, StepKinds
    <2>3. pc'[first] = pc[first] /\ answer'[first] = answer[first] /\ (r # last => pc'[last] = pc[last])
      BY <1>0, <2>1, <2>2, ReplyFacts
    <2>4. r = last => pc'[last] = "answered"
      BY <2>1, ReplyFacts
    <2>5. Alone(d) /\ Fixtures(d) /\ r # last => Fixtures(d)'
      <3>1. Alone(d) /\ r # last => Ns(r) # Namespace(d)
        BY <2>2, StepKinds
      <3> DEFINE row == [id |-> Namespace(d), seed |-> d.seed]
      <3>2. row.id = Namespace(d)
        OBVIOUS
      <3> HIDE DEF row
      <3>3. Alone(d) /\ r # last /\ row \in db.namespaces => row \in db'.namespaces
        BY <2>1, <3>1, <3>2
      <3>4. Alone(d) /\ r # last => {p \in db'.products : p.ns = Namespace(d)} = {p \in db.products : p.ns = Namespace(d)}
        BY <2>1, <3>1
      <3> QED
        BY <3>3, <3>4 DEF Fixtures, row
    <2> QED
      BY <1>4, <1>5, <2>1, <2>3, <2>4, <2>5 DEF Lives, Seeded
  <1> QED
    BY <1>6, <1>7, <1>8, <1>9, StepKinds, Handlers

\* A delivery only moves on, and to its first test only after a seeding that worked.
LEMMA Moves ==
    ASSUME TypeOK, NEW d \in Deliveries, Receive(d) \/ GiveUp(d) \/ Kill(d)
    PROVE  /\ UNCHANGED pc /\ at[d] \in Seeding..Deletion
           /\ \A e \in Deliveries \ {d} : at'[e] = at[e]
           /\ at'[d] \in Seeding..Deletion => at'[d] >= at[d]
           /\ at'[d] \in 1..Len(Tests) => at[d] \in 1..Len(Tests) \/ (at[d] = Seeding /\ Seeded(d))
  <1>1. CASE Receive(d)
    <2> DEFINE s == at[d]
               passed == answer[<<d, s>>].code = Expected(<<d, s>>)
    <2>1. /\ at' = [at EXCEPT ![d] = After(s, passed)]
          /\ s \in Seeding..Deletion /\ pc' = pc /\ pc[<<d, s>>] = "answered"
      BY <1>1 DEF Receive
    <2>2. at'[d] = After(s, passed) /\ \A e \in Deliveries \ {d} : at'[e] = at[e]
      BY <2>1 DEF TypeOK
    <2>3. at'[d] = IF s = Deletion THEN Done ELSE IF passed THEN s + 1 ELSE Deletion
      BY <2>2 DEF After
    <2> HIDE DEF passed
    <2>4. CASE s = Deletion
      BY <2>1, <2>2, <2>3, <2>4, Numbers
    <2>5. CASE s # Deletion /\ ~passed
      <3>1. at'[d] = Deletion /\ Deletion >= s /\ Deletion \notin 1..Len(Tests)
        BY <2>1, <2>3, <2>5, Steps DEF Seeding, Deletion
      <3> QED
        BY <2>1, <2>2, <3>1
    <2>6. CASE s # Deletion /\ passed
      <3>1. at'[d] = s + 1 /\ s \in 0..Len(Tests)
        <4>1. at'[d] = s + 1
          BY <2>3, <2>6
        <4>2. s \in 0..(Len(Tests) + 1) /\ s # Len(Tests) + 1
          BY <2>1, <2>6 DEF Seeding, Deletion
        <4>3. s \in 0..Len(Tests)
          BY <4>2, Steps
        <4> QED
          BY <4>1, <4>3
      <3>2. s = Seeding => Seeded(d)
        BY <2>1, <2>6 DEF Seeded, First, passed, Expected, IsSeed
      <3>3. s + 1 >= s /\ (s \in 1..Len(Tests) \/ s = Seeding)
        BY <3>1, Steps DEF Seeding
      <3> QED
        BY <2>1, <2>2, <3>1, <3>2, <3>3
    <2> QED
      BY <2>4, <2>5, <2>6
  <1>2. CASE GiveUp(d)
    <2>1. at' = [at EXCEPT ![d] = After(at[d], FALSE)] /\ at[d] \in Seeding..Deletion /\ pc' = pc
      BY <1>2 DEF GiveUp
    <2>2. at'[d] = After(at[d], FALSE) /\ \A e \in Deliveries \ {d} : at'[e] = at[e]
      <3> HIDE DEF After
      <3> QED
        BY <2>1 DEF TypeOK
    <2>3. at'[d] = IF at[d] = Deletion THEN Done ELSE Deletion
      BY <2>2 DEF After
    <2>4. Done \notin Seeding..Deletion /\ Done \notin 1..Len(Tests) /\ Deletion \notin 1..Len(Tests) /\ Deletion >= at[d]
      BY <2>1, Steps DEF Seeding, Deletion, Done
    <2> QED
      BY <2>1, <2>2, <2>3, <2>4
  <1>3. CASE Kill(d)
    <2>1. at' = [at EXCEPT ![d] = Killed] /\ at[d] \in Seeding..Deletion /\ pc' = pc
      BY <1>3 DEF Kill
    <2> QED
      BY <2>1, Numbers DEF TypeOK
  <1> QED
    BY <1>1, <1>2, <1>3

LEMMA ClientLife ==
    ASSUME TypeOK, LifeInv, NEW e \in Deliveries, Send(e) \/ Receive(e) \/ GiveUp(e) \/ Kill(e), NEW d \in Deliveries
    PROVE  InTurn(d)' /\ Lives(d)'
  <1>1. /\ UNCHANGED <<db, answer>>
        /\ \A r \in Requests : pc'[r] = pc[r] \/ (pc[r] = "unsent" /\ pc'[r] = "received" /\ r = <<e, at[e]>>)
    BY Clients
  <1>2. InTurn(d) /\ Lives(d)
    BY DEF LifeInv
  <1>3. Seeded(d)' <=> Seeded(d)
    BY <1>1, StepRequests DEF Seeded
  <1>4. Lives(d)'
    <2>1. pc'[First(d)] \in {"unsent", "received", "begun"} => pc[First(d)] \in {"unsent", "received", "begun"}
      BY <1>1, StepRequests
    <2>2. pc'[Last(d)] \in {"unsent", "received"} => pc[Last(d)] \in {"unsent", "received"}
      BY <1>1, StepRequests
    <2> QED
      BY <1>1, <1>2, <1>3, <2>1, <2>2 DEF Lives, Fixtures
  <1>5. CASE Send(e)
    <2>1. at' = at
      BY <1>5 DEF Send
    <2>2. ASSUME at[d] \in Seeding..Deletion, NEW s \in Seeding..Deletion, s > at[d] PROVE pc'[<<d, s>>] = "unsent"
      <3>1. pc[<<d, s>>] = "unsent" /\ <<d, s>> \in Requests
        BY <1>2, <2>2, StepRequests DEF InTurn
      <3>2. s # at[d]
        BY <2>2, Numbers
      <3> QED
        BY <1>1, <3>1, <3>2
    <2> QED
      BY <1>2, <1>3, <1>4, <2>1, <2>2 DEF InTurn
  <1>6. CASE (Receive(e) \/ GiveUp(e) \/ Kill(e)) /\ d = e
    <2>1. UNCHANGED pc /\ at[d] \in Seeding..Deletion
      BY <1>6, Moves
    <2>2. ASSUME at'[d] \in Seeding..Deletion, NEW s \in Seeding..Deletion, s > at'[d] PROVE pc'[<<d, s>>] = "unsent"
      <3>1. at'[d] >= at[d]
        BY <1>6, <2>2, Moves
      <3>2. s > at[d]
        BY <2>1, <2>2, <3>1, Numbers
      <3> QED
        BY <1>2, <2>1, <3>2 DEF InTurn
    <2>3. at'[d] \in 1..Len(Tests) => Seeded(d)
      BY <1>2, <1>6, Moves DEF InTurn
    <2> QED
      BY <1>3, <1>4, <2>2, <2>3 DEF InTurn
  <1>7. CASE (Receive(e) \/ GiveUp(e) \/ Kill(e)) /\ d # e
    <2>1. UNCHANGED pc /\ at'[d] = at[d]
      BY <1>7, Moves
    <2> QED
      BY <1>2, <1>3, <1>4, <2>1 DEF InTurn
  <1> QED
    BY <1>5, <1>6, <1>7

LEMMA LifeStep ==
    ASSUME TypeOK, LockHeld, Consistent, LifeInv, [Next]_dvars
    PROVE  LifeInv'
  <1>1. ASSUME NEW r \in Requests, Handle(r) PROVE LifeInv'
    BY <1>1, HandlerLife DEF LifeInv
  <1>2. ASSUME NEW e \in Deliveries, Send(e) \/ Receive(e) \/ GiveUp(e) \/ Kill(e) PROVE LifeInv'
    BY <1>2, ClientLife DEF LifeInv
  <1>3. CASE Crash
    <2>1. \A r \in Requests : pc'[r] = IF pc[r] \in {"received", "begun"} THEN "lost" ELSE pc[r]
      BY <1>3 DEF Crash
    <2>2. UNCHANGED <<db, answer, at>>
      BY <1>3 DEF Crash
    <2>3. ASSUME NEW d \in Deliveries PROVE InTurn(d)' /\ Lives(d)'
      <3>1. InTurn(d) /\ Lives(d)
        BY DEF LifeInv
      <3>2. Seeded(d)' <=> Seeded(d)
        BY <2>1, <2>2, StepRequests DEF Seeded
      <3>3. InTurn(d)'
        BY <2>1, <2>2, <3>1, <3>2, StepRequests DEF InTurn
      <3>4. /\ pc'[First(d)] \in {"unsent", "received", "begun"} => pc[First(d)] \in {"unsent", "received", "begun"}
            /\ pc'[Last(d)] \in {"unsent", "received"} => pc[Last(d)] \in {"unsent", "received"}
        BY <2>1, StepRequests
      <3>5. Lives(d)'
        BY <2>2, <3>1, <3>2, <3>4 DEF Lives, Fixtures
      <3> QED
        BY <3>3, <3>5
    <2> QED
      BY <2>3 DEF LifeInv
  <1>4. CASE UNCHANGED dvars
    BY <1>4 DEF dvars, LifeInv, InTurn, Lives, Seeded, Fixtures
  <1> QED
    BY <1>1, <1>2, <1>3, <1>4 DEF Next

LEMMA LifeInit == Init => LifeInv
  <1> SUFFICES ASSUME Init, NEW d \in Deliveries PROVE InTurn(d) /\ Lives(d)
    BY DEF LifeInv
  <1>1. at[d] \in {Seeding, Killed} /\ \A r \in Requests : pc[r] = "unsent"
    BY DEF Init
  <1>2. db.namespaces = {}
    BY DEF Init, NoTables
  <1>3. InTurn(d)
    BY <1>1, Numbers, StepRequests DEF InTurn
  <1>4. Lives(d)
    BY <1>1, <1>2, StepRequests DEF Lives, Seeded
  <1> QED
    BY <1>3, <1>4

\* Between its seeding and its deletion a delivery has its own fixtures, whatever
\* late requests of other deliveries do (docs/ARCHITECTURE.md:47).
THEOREM FixturesStay == Spec => []Isolated
  <1>1. Init => LifeInv
    BY LifeInit
  <1>2. LifeInv => Isolated
    <2> SUFFICES ASSUME LifeInv, NEW d \in Deliveries, Alone(d), at[d] \in 1..Len(Tests) PROVE Fixtures(d)
      BY DEF Isolated, Fixtures
    <2>1. InTurn(d) /\ Lives(d)
      BY DEF LifeInv
    <2>2. at[d] \in Seeding..Deletion /\ Deletion \in Seeding..Deletion /\ Deletion > at[d]
      BY Steps DEF Seeding, Deletion
    <2>3. Seeded(d) /\ pc[Last(d)] = "unsent"
      BY <2>1, <2>2 DEF InTurn, Last
    <2> QED
      BY <2>1, <2>3 DEF Lives
  <1> QED
    BY <1>1, <1>2, Rows, LifeStep, PTL DEF Spec
---------------------------------------------------------------------------
(* A delivery that waits for its answers has nothing under way behind it. *)

Waits(d) == at[d] # Killed /\ d \notin doubt

Absent(d) == ~\E n \in db.namespaces : n.id = Namespace(d)

\* Only the step it is at may be with the service.
Settled(d) ==
    Waits(d) => /\ \A s \in Seeding..Deletion : s # at[d] => pc[<<d, s>>] \in {"unsent", "answered"}
                /\ at[d] = Done => pc[Last(d)] = "answered"

\* Who has no token neither seeds nor deletes.
Barred(d) ==
    ~d.token => pc[First(d)] # "begun" /\ (Alone(d) => Absent(d))

Deleted(d) ==
    pc[Last(d)] = "answered" =>
        /\ answer[Last(d)].code \in {204, 403, 500}
        /\ answer[Last(d)].code = 403 => ~d.token
        /\ answer[Last(d)].code = 204 /\ Alone(d) /\ Waits(d) => Absent(d)

CleanInv == \A d \in Deliveries : Settled(d) /\ Barred(d) /\ Deleted(d)

LEMMA DeletionAnswers ==
    ASSUME TypeOK, NEW r \in Requests, Handle(r), IsDelete(r)
    PROVE  /\ pc'[r] = "answered" /\ answer'[r].code \in {204, 403, 500}
           /\ answer'[r].code = 403 => ~r[1].token
           /\ answer'[r].code = 204 => DeleteNamespace(r)
  <1>1. ~IsSeed(r) /\ ~IsTest(r, {"order"}) /\ ~IsTest(r, {"get", "list"})
    BY Numbers DEF IsDelete, IsSeed, IsTest
  <1>2. CASE Refuse(r)
    <2>1. answer'[r] = [answer[r] EXCEPT !.code = 403] /\ answer[r] \in [code : Codes, total : Nat, era : Nat]
      BY <1>2 DEF Refuse, TypeOK, Codes
    <2>2. answer'[r].code = 403
      BY <2>1
    <2> QED
      BY <1>2, <2>2 DEF Refuse, Refused, TypeOK
  <1>3. CASE Busy(r)
    <2>1. Reply(r, 500, 0)
      BY <1>3 DEF Busy
    <2> QED
      BY <2>1, ReplyFacts
  <1>4. CASE DeleteNamespace(r)
    <2>1. Reply(r, 204, 0)
      BY <1>4 DEF DeleteNamespace
    <2> QED
      BY <1>4, <2>1, ReplyFacts
  <1> QED
    BY <1>1, <1>2, <1>3, <1>4 DEF Handle, Begin, Writes, SeedNamespace, CreateOrder, Read

LEMMA SeedingNeedsToken ==
    ASSUME TypeOK, NEW r \in Requests, Handle(r), IsSeed(r), pc[r] # "begun", pc'[r] = "begun"
    PROVE  r[1].token
  BY Handlers DEF Handle, Refuse, Begin, Busy, SeedNamespace, CreateOrder, DeleteNamespace, Read, Reply, Refused, TypeOK

\* Which namespaces a handler lets appear.
LEMMA Appears ==
    ASSUME TypeOK, NEW r \in Requests, Handle(r), NEW n \in db'.namespaces, n \notin db.namespaces
    PROVE  n.id = Ns(r) /\ IsSeed(r) /\ pc[r] = "begun"
  <1>1. CASE SeedNamespace(r)
    <2>1. pc[r] = "begun" /\ IsSeed(r)
      BY <1>1, SeedStep
    <2> DEFINE row == [id |-> Ns(r), seed |-> Seed(r)]
    <2>2. row.id = Ns(r)
      OBVIOUS
    <2>3. \A t, a, b, c : t = [namespaces |-> a, products |-> b, orders |-> c] => t.namespaces = a
      OBVIOUS
    <2>4. db'.namespaces \subseteq db.namespaces \cup {row}
      BY <1>1, <2>3, SeedStep
    <2> QED
      BY <2>1, <2>2, <2>4
  <1>2. CASE CreateOrder(r)
    BY <1>2, OrderStep
  <1>3. CASE DeleteNamespace(r)
    BY <1>3 DEF DeleteNamespace
  <1> QED
    BY <1>1, <1>2, <1>3, Handlers

LEMMA HandlerClean ==
    ASSUME TypeOK, LifeInv, CleanInv, NEW r \in Requests, Handle(r), NEW d \in Deliveries
    PROVE  Settled(d)' /\ Barred(d)' /\ Deleted(d)'
  <1>1. /\ First(d) \in Requests /\ Last(d) \in Requests /\ \A s \in Seeding..Deletion : <<d, s>> \in Requests
        /\ Ns(First(d)) = Namespace(d) /\ IsSeed(First(d)) /\ IsDelete(Last(d))
    BY StepRequests, StepKinds
  <1>2. Settled(d) /\ Barred(d) /\ Deleted(d) /\ InTurn(d)
    BY DEF CleanInv, LifeInv
  <1>3. /\ at' = at /\ doubt' = doubt /\ pc[r] \in {"received", "begun"}
        /\ \A q \in Requests : q # r => pc'[q] = pc[q] /\ answer'[q] = answer[q]
    BY Handlers
  <1>4. Settled(d)'
    BY <1>1, <1>2, <1>3 DEF Settled, Waits
  <1>5. Alone(d) /\ Absent(d) /\ ~(pc[First(d)] = "begun" /\ r = First(d)) => Absent(d)'
    <2> SUFFICES ASSUME Alone(d), Absent(d), NEW n \in db'.namespaces, n.id = Namespace(d)
                 PROVE  pc[First(d)] = "begun" /\ r = First(d)
      BY DEF Absent
    <2>1. n.id = Ns(r) /\ IsSeed(r) /\ pc[r] = "begun"
      BY Appears DEF Absent
    <2>2. r[1] = d
      BY <2>1, StepKinds
    <2> QED
      BY <2>1, <2>2, StepKinds
  <1>6. Barred(d)'
    <2>1. ~d.token => pc'[First(d)] # "begun"
      <3>1. First(d)[1] = d
        BY DEF First
      <3>2. CASE r = First(d)
        BY <1>1, <1>2, <3>1, <3>2, SeedingNeedsToken DEF Barred
      <3>3. CASE r # First(d)
        BY <1>1, <1>2, <1>3, <3>3 DEF Barred
      <3> QED
        BY <3>2, <3>3
    <2> QED
      BY <1>2, <1>5, <2>1 DEF Barred, Alone
  <1>7. Deleted(d)'
    <2>1. CASE r = Last(d)
      <3>1. Last(d)[1] = d /\ Ns(Last(d)) = Namespace(d)
        BY DEF Last, Ns
      <3>2. answer'[r].code = 204 => Absent(d)'
        <4>1. answer'[r].code = 204 => db'.namespaces = {n \in db.namespaces : n.id # Ns(r)}
          BY <1>1, <2>1, DeletionAnswers DEF DeleteNamespace
        <4> QED
          BY <2>1, <3>1, <4>1 DEF Absent
      <3> QED
        BY <1>1, <2>1, <3>1, <3>2, DeletionAnswers DEF Deleted
    <2>2. CASE r # Last(d)
      <3>1. pc'[Last(d)] = pc[Last(d)] /\ answer'[Last(d)] = answer[Last(d)]
        BY <1>1, <1>3, <2>2
      <3>2. ASSUME pc[Last(d)] = "answered", Waits(d) PROVE ~(pc[First(d)] = "begun" /\ r = First(d))
        <4>1. at[d] # Seeding
          BY <1>2, <3>2, Numbers, Steps DEF InTurn, Last, Seeding, Deletion
        <4>2. pc[First(d)] \in {"unsent", "answered"}
          BY <1>2, <3>2, <4>1, Numbers DEF Settled, First
        <4> QED
          BY <4>2
      <3>3. pc[Last(d)] = "answered" /\ answer[Last(d)].code = 204 /\ Alone(d) /\ Waits(d) => Absent(d)'
        BY <1>2, <1>5, <3>2 DEF Deleted
      <3> QED
        BY <1>2, <1>3, <3>1, <3>3 DEF Deleted, Waits, Alone
    <2> QED
      BY <2>1, <2>2
  <1> QED
    BY <1>4, <1>6, <1>7

\* Who receives its answer was answered; who arrives at the end was answered its deletion.
LEMMA Received ==
    ASSUME TypeOK, NEW d \in Deliveries, Receive(d)
    PROVE  pc[<<d, at[d]>>] = "answered" /\ UNCHANGED doubt /\ (at'[d] = Done => at[d] = Deletion)
  <1> DEFINE s == at[d]
             passed == answer[<<d, s>>].code = Expected(<<d, s>>)
  <1>1. /\ at' = [at EXCEPT ![d] = After(s, passed)] /\ s \in Seeding..Deletion
        /\ pc[<<d, s>>] = "answered" /\ doubt' = doubt
    BY DEF Receive
  <1>2. at'[d] = IF s = Deletion THEN Done ELSE IF passed THEN s + 1 ELSE Deletion
    <2> HIDE DEF passed
    <2> QED
      BY <1>1 DEF After, TypeOK
  <1>3. s # Deletion => s + 1 # Done /\ Deletion # Done
    <2>1. s \in 0..(Len(Tests) + 1) /\ Deletion = Len(Tests) + 1 /\ Done = Len(Tests) + 2 /\ Len(Tests) \in Nat
      BY <1>1, Steps DEF Seeding, Deletion, Done
    <2> QED
      BY <2>1
  <1> QED
    BY <1>1, <1>2, <1>3

LEMMA ClientClean ==
    ASSUME TypeOK, LifeInv, CleanInv, NEW e \in Deliveries, Send(e) \/ Receive(e) \/ GiveUp(e) \/ Kill(e),
           NEW d \in Deliveries
    PROVE  Settled(d)' /\ Barred(d)' /\ Deleted(d)'
  <1>1. /\ UNCHANGED <<db, answer>>
        /\ \A r \in Requests : pc'[r] = pc[r] \/ (pc[r] = "unsent" /\ pc'[r] = "received" /\ r = <<e, at[e]>>)
    BY Clients
  <1>2. Settled(d) /\ Barred(d) /\ Deleted(d) /\ InTurn(d)
    BY DEF CleanInv, LifeInv
  <1>3. First(d) \in Requests /\ Last(d) \in Requests /\ \A s \in Seeding..Deletion : <<d, s>> \in Requests
    BY StepRequests
  <1>4. Barred(d)'
    BY <1>1, <1>2, <1>3 DEF Barred, Absent, Alone
  <1>5. pc'[Last(d)] = "answered" => pc[Last(d)] = "answered"
    BY <1>1, <1>3
  <1>6. Waits(d)' => Waits(d)
    <2>1. doubt \subseteq doubt'
      BY DEF Send, Receive, GiveUp, Kill
    <2>2. CASE Send(e)
      BY <2>1, <2>2 DEF Send, Waits
    <2>3. CASE Receive(e) \/ GiveUp(e) \/ Kill(e)
      <3>1. at[e] \in Seeding..Deletion /\ \A f \in Deliveries \ {e} : at'[f] = at[f]
        BY <2>3, Moves
      <3> QED
        BY <2>1, <3>1, Numbers DEF Waits
    <2> QED
      BY <2>2, <2>3
  <1>7. Deleted(d)'
    BY <1>1, <1>2, <1>5, <1>6 DEF Deleted, Absent, Alone
  <1>8. Settled(d)'
    <2> SUFFICES ASSUME Waits(d)'
                 PROVE  /\ \A s \in Seeding..Deletion : s # at'[d] => pc'[<<d, s>>] \in {"unsent", "answered"}
                        /\ at'[d] = Done => pc'[Last(d)] = "answered"
      BY DEF Settled
    <2>1. Waits(d) /\ at'[d] # Killed /\ d \notin doubt'
      BY <1>6 DEF Waits
    <2>2. CASE Send(e)
      <3>1. at' = at /\ at[e] \in Seeding..Deletion
        BY <2>2 DEF Send
      <3>2. d = e => at[d] # Done
        BY <3>1, Numbers
      <3>3. \A s \in Seeding..Deletion : <<d, s>> = <<e, at[e]>> => d = e /\ s = at[d]
        OBVIOUS
      <3>4. at[d] = Done => pc'[Last(d)] = pc[Last(d)]
        BY <1>1, <1>3, <3>2 DEF Last
      <3> QED
        BY <1>1, <1>2, <1>3, <2>1, <3>1, <3>3, <3>4 DEF Settled
    <2>3. CASE (Receive(e) \/ GiveUp(e) \/ Kill(e)) /\ d # e
      <3>1. pc' = pc /\ at'[d] = at[d]
        BY <2>3, Moves
      <3> QED
        BY <1>2, <2>1, <3>1 DEF Settled
    <2>4. CASE Receive(e) /\ d = e
      <3>1. pc' = pc /\ pc[<<d, at[d]>>] = "answered" /\ (at'[d] = Done => at[d] = Deletion)
        BY <2>4, Received, Moves
      <3> QED
        BY <1>2, <2>1, <3>1 DEF Settled, Last
    <2>5. CASE GiveUp(e) /\ d = e
      BY <2>1, <2>5 DEF GiveUp
    <2>6. CASE Kill(e) /\ d = e
      BY <2>1, <2>6 DEF Kill, TypeOK
    <2> QED
      BY <2>2, <2>3, <2>4, <2>5, <2>6
  <1> QED
    BY <1>4, <1>7, <1>8

LEMMA CleanStep ==
    ASSUME TypeOK, LifeInv, CleanInv, [Next]_dvars
    PROVE  CleanInv'
  <1>1. ASSUME NEW r \in Requests, Handle(r) PROVE CleanInv'
    BY <1>1, HandlerClean DEF CleanInv
  <1>2. ASSUME NEW e \in Deliveries, Send(e) \/ Receive(e) \/ GiveUp(e) \/ Kill(e) PROVE CleanInv'
    BY <1>2, ClientClean DEF CleanInv
  <1>3. CASE Crash
    <2>1. \A r \in Requests : pc'[r] = IF pc[r] \in {"received", "begun"} THEN "lost" ELSE pc[r]
      BY <1>3 DEF Crash
    <2>2. UNCHANGED <<db, answer, at, doubt>>
      BY <1>3 DEF Crash
    <2> QED
      BY <2>1, <2>2, StepRequests DEF CleanInv, Settled, Barred, Deleted, Waits, Absent, Alone
  <1>4. CASE UNCHANGED dvars
    BY <1>4 DEF dvars, CleanInv, Settled, Barred, Deleted, Waits, Absent, Alone
  <1> QED
    BY <1>1, <1>2, <1>3, <1>4 DEF Next

\* A delivery that was answered whatever it sent leaves no row behind, passed, failed
\* or refused, unless its deletion found the database locked (run, the teardown).
THEOREM NothingRemains == Spec => []CleanedUp
  <1>1. Init => CleanInv
    <2> SUFFICES ASSUME Init, NEW d \in Deliveries PROVE Settled(d) /\ Barred(d) /\ Deleted(d)
      BY DEF CleanInv
    <2>1. at[d] \in {Seeding, Killed} /\ \A r \in Requests : pc[r] = "unsent"
      BY DEF Init
    <2>2. db.namespaces = {} /\ Seeding # Done /\ Killed # Done
      BY Steps DEF Init, NoTables, Seeding, Done, Killed
    <2> QED
      BY <2>1, <2>2, StepRequests DEF Settled, Barred, Deleted, Absent
  <1>2. TypeOK /\ Consistent /\ CleanInv => CleanedUp
    <2> SUFFICES ASSUME Consistent, CleanInv, NEW d \in Deliveries, Alone(d), at[d] = Done, d \notin doubt,
                        answer[<<d, Deletion>>].code # 500
                 PROVE  /\ ~\E n \in db.namespaces : n.id = Namespace(d)
                        /\ ~\E row \in db.products \cup db.orders : row.ns = Namespace(d)
      BY DEF CleanedUp
    <2>1. Waits(d)
      BY Steps DEF Waits, Killed, Done
    <2>2. Absent(d)
      BY <2>1 DEF CleanInv, Settled, Barred, Deleted, Last
    <2> QED
      BY <2>2 DEF Absent, Consistent
  <1>3. Init => LifeInv
    BY LifeInit
  <1> QED
    BY <1>1, <1>2, <1>3, Rows, LifeStep, CleanStep, PTL DEF Spec
===============================================================================
