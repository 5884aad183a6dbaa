----------------------------- MODULE ContractProofs -----------------------------
(***************************************************************************)
(* Proofs about ResponseContract, for any contracts, steps and answers:    *)
(* what dereferencing has visited is a beginning of the chain of           *)
(* references, so where it stops is where the chain leads; and the errors  *)
(* are those of the parts of the response that were looked at.             *)
(***************************************************************************)
EXTENDS ResponseContract, TLAPS

---------------------------------------------------------------------------
(* Chains of references *)

\* A walk from start along references has come to val, by way of vis.
Trail(named, start, val, vis) ==
    /\ vis \subseteq Chain(named, start)
    /\ val = start \/ \E r \in vis : val = named[r]
    /\ val = start \/ (IsRef(start) /\ start.ref \in vis)
    /\ \A r \in vis : named[r] = val \/ (IsRef(named[r]) /\ named[r].ref \in vis)

LEMMA ChainIsClosed ==
    ASSUME NEW named, NEW v, NEW n \in {v} \cup {named[r] : r \in Chain(named, v)}, Known(named, n)
    PROVE  n.ref \in Chain(named, v)
  <1>1. n.ref \in DOMAIN named
    BY DEF Known
  <1>2. ASSUME NEW S \in SUBSET DOMAIN named, Closed(named, v, S) PROVE n.ref \in S
    <2>1. Chain(named, v) \subseteq S
      BY <1>2 DEF Chain
    <2>2. n \in {v} \cup {named[r] : r \in S}
      BY <2>1
    <2> QED
      BY <1>2, <2>2 DEF Closed
  <1> QED
    BY <1>1, <1>2 DEF Chain

LEMMA ChainIsLeast ==
    ASSUME NEW named, NEW v, NEW S \in SUBSET DOMAIN named, Closed(named, v, S)
    PROVE  Chain(named, v) \subseteq S
  BY DEF Chain

LEMMA TrailBegins ==
    ASSUME NEW named, NEW start
    PROVE  Trail(named, start, start, {})
  BY DEF Trail

LEMMA TrailGoesOn ==
    ASSUME NEW named, NEW start, NEW val, NEW vis, Trail(named, start, val, vis), Known(named, val)
    PROVE  Trail(named, start, named[val.ref], vis \cup {val.ref})
  <1>1. val \in {start} \cup {named[r] : r \in Chain(named, start)}
    BY DEF Trail
  <1>2. val.ref \in Chain(named, start)
    BY <1>1, ChainIsClosed
  <1>3. IsRef(val)
    BY DEF Known
  <1> QED
    BY <1>2, <1>3 DEF Trail

LEMMA TrailEnds ==
    ASSUME NEW named, NEW start, NEW val, NEW vis, Trail(named, start, val, vis), ~IsRef(val)
    PROVE  Final(named, start) = val
  <1>1. vis \subseteq DOMAIN named /\ vis \subseteq Chain(named, start)
    BY DEF Trail, Chain
  <1>2. Closed(named, start, vis)
    <2> SUFFICES ASSUME NEW n \in {start} \cup {named[r] : r \in vis}, Known(named, n) PROVE n.ref \in vis
      BY DEF Closed
    <2> QED
      BY DEF Trail, Known
  <1>3. Chain(named, start) \subseteq vis
    BY <1>1, <1>2, ChainIsLeast
  <1> DEFINE ends == {n \in {start} \cup {named[r] : r \in Chain(named, start)} : ~Known(named, n)}
  <1>4. ASSUME NEW n \in ends PROVE n = val
    <2>1. CASE n = start
      BY <1>1, <2>1 DEF Trail, Known
    <2>2. CASE \E r \in Chain(named, start) : n = named[r]
      BY <1>1, <1>3, <2>2 DEF Trail, Known
    <2> QED
      BY <2>1, <2>2
  <1>5. val \in ends
    BY <1>1 DEF Trail, Known
  <1>6. Final(named, start) = IF ends = {} THEN start ELSE CHOOSE n \in ends : TRUE
    BY DEF Final
  <1> HIDE DEF ends
  <1>7. (CHOOSE n \in ends : TRUE) \in ends
    BY <1>5
  <1> QED
    BY <1>4, <1>5, <1>6, <1>7

\* A cycle leads nowhere, from its start and from any place on it.
LEMMA TrailCycles ==
    ASSUME NEW named, NEW start, NEW val, NEW vis, Trail(named, start, val, vis), IsRef(val), val.ref \in vis
    PROVE  IsRef(Final(named, start)) /\ IsRef(Final(named, val))
  <1>1. vis \subseteq DOMAIN named
    BY DEF Trail, Chain
  <1>2. \A n \in {start, val} \cup {named[r] : r \in vis} : Known(named, n) /\ n.ref \in vis
    BY <1>1 DEF Trail, Known
  <1>3. ASSUME NEW v \in {start, val} PROVE IsRef(Final(named, v))
    <2>1. Closed(named, v, vis)
      BY <1>2 DEF Closed
    <2>2. Chain(named, v) \subseteq vis
      BY <1>1, <2>1, ChainIsLeast
    <2>3. {n \in {v} \cup {named[r] : r \in Chain(named, v)} : ~Known(named, n)} = {}
      BY <1>2, <2>2
    <2>4. Final(named, v) = v
      BY <2>3 DEF Final
    <2> QED
      BY <1>2, <2>4 DEF Known
  <1> QED
    BY <1>3

---------------------------------------------------------------------------
(* The entry of the contract for a status *)

GovernedBy(status) == contract.responses[CHOOSE key \in Entry(status) : TRUE]

Definition(status) == Final(contract.named, GovernedBy(status))

LEMMA OneEntry ==
    ASSUME NEW status, NEW key \in Entry(status)
    PROVE  Entry(status) = {key} /\ GovernedBy(status) = contract.responses[key] /\ key \in DOMAIN contract.responses
  <1>1. Entry(status) = {key} /\ key \in DOMAIN contract.responses
    BY DEF Entry
  <1> QED
    BY <1>1 DEF GovernedBy

LEMMA Governed ==
    ASSUME NEW status
    PROVE  Governing(status) = IF Entry(status) = {} THEN {} ELSE {Definition(status)}
  <1> DEFINE q == status \div 100
             exact == <<"exact", status>>
             range == <<"range", q>>
             default == <<"default", 0>>
             fits(key) == key \in {exact, range, default}
             rank == [exact |-> 1, range |-> 2, default |-> 3]
             best == {k \in DOMAIN contract.responses : fits(k) /\
                        \A other \in DOMAIN contract.responses : fits(other) => rank[k[1]] <= rank[other[1]]}
  <1>1. Governing(status) = {Final(contract.named, contract.responses[key]) : key \in best}
    BY DEF Governing
  <1>2. /\ exact[1] = "exact" /\ range[1] = "range" /\ default[1] = "default"
        /\ rank["exact"] = 1 /\ rank["range"] = 2 /\ rank["default"] = 3
    OBVIOUS
  <1>3. Entry(status) = IF exact \in DOMAIN contract.responses THEN {exact}
                               ELSE IF range \in DOMAIN contract.responses THEN {range}
                               ELSE {default} \cap DOMAIN contract.responses
    BY DEF Entry
  <1> HIDE DEF q, exact, range, default, rank
  <1>4. best = Entry(status)
    BY <1>2, <1>3
  <1>5. CASE Entry(status) = {}
    BY <1>1, <1>4, <1>5
  <1>6. ASSUME NEW key \in Entry(status) PROVE Governing(status) = {Definition(status)}
    <2>1. best = {key} /\ GovernedBy(status) = contract.responses[key]
      BY <1>4, <1>6, OneEntry
    <2> QED
      BY <1>1, <2>1 DEF Definition
  <1> QED
    BY <1>5, <1>6
---------------------------------------------------------------------------
(* The invariant: what the errors tell of the parts that were looked at *)

Walked(start) == Trail(contract.named, start, value, visited)
Follows(v) == Final(contract.named, v)

Loaded == Refs \subseteq DOMAIN contract.named

\* What the preflight has made sure of.
Sendable == Entry(expect.status) # {} /\ ~IsRef(Definition(expect.status))

\* The answer conforms to d, as far as its headers ns go and without the assertion.
Fine(d, ns) ==
    /\ answer.status = expect.status
    /\ d.content # "other"
    /\ d.content = "none" => answer.body = "empty"
    /\ d.content = "json" => answer.json /\ answer.body \in d.accepts \ {"empty"}
    /\ \A n \in ns : HeaderConforms(n, Follows(Headers(d)[n]))

Clean == found = {}

Stages ==
    /\ at \in {"inspect", "preflight", "request", "definition", "headers", "header", "schema", "done"}
    /\ verdict \in {"open", "refused", "passed", "failed", "error"}
    /\ at = "done" <=> verdict # "open"

Unsent ==
    at \in {"inspect", "preflight", "request"} \/ verdict = "refused" => answer = None /\ found = {}

Preflight ==
    /\ at \notin {"inspect", "done"} => Loaded
    /\ at = "preflight" => Entry(expect.status) # {} /\ Walked(GovernedBy(expect.status)) /\ value \in Top
    /\ at \notin {"inspect", "preflight"} /\ verdict # "refused" => Sendable

Blame ==
    /\ "undeclared" \in found => Entry(answer.status) = {}
    /\ "cyclic" \in found => Entry(answer.status) # {} /\ IsRef(Definition(answer.status))

Defining ==
    at = "definition" =>
        /\ Entry(answer.status) # {} /\ Walked(GovernedBy(answer.status)) /\ value \in Top
        /\ found = {e \in {"status"} : answer.status # expect.status}

\* Once the definition d is known: its headers ns have been looked at.
Looked(d, ns) ==
    /\ Entry(answer.status) # {} /\ d = Definition(answer.status) /\ ~IsRef(d)
    /\ d.content # "other" /\ (d.content = "json" => HasBody /\ answer.json)
    /\ headers = Headers(d) /\ unchecked \subseteq DOMAIN headers
    /\ ns = DOMAIN headers \ (IF at = "headers" THEN unchecked ELSE unchecked \cup {name})
    /\ Clean <=> Fine(d, ns)
    /\ at # "headers" => name \in DOMAIN headers \ unchecked
    /\ at = "header" => Walked(headers[name]) /\ value \in Top \cup HeaderNodes
    /\ at = "schema" => \E h : /\ h = Follows(headers[name]) /\ "schema" \in DOMAIN h
                               /\ Present /\ Walked(h.schema) /\ value \in Nodes

Heading ==
    at \in {"headers", "header", "schema"} => \E d \in Top : \E ns \in SUBSET DOMAIN headers : Looked(d, ns)

RInv == Stages /\ Unsent /\ Preflight /\ Blame /\ Defining /\ Heading /\ PassedConforms /\ OnlyCyclesRaise
LEMMA Documents ==
    ASSUME UNCHANGED <<contract, expect>>
    PROVE  /\ Entry(expect.status)' = Entry(expect.status) /\ GovernedBy(expect.status)' = GovernedBy(expect.status)
           /\ Definition(expect.status)' = Definition(expect.status)
           /\ Sendable' <=> Sendable
           /\ Top' = Top /\ HeaderNodes' = HeaderNodes /\ Nodes' = Nodes /\ (Loaded' <=> Loaded)
  <1>1. Entry(expect.status)' = Entry(expect.status)
    BY DEF Entry
  <1>2. GovernedBy(expect.status)' = GovernedBy(expect.status)
    BY DEF GovernedBy, Entry
  <1>3. Definition(expect.status)' = Definition(expect.status)
    BY <1>2 DEF Definition
  <1>4. Top' = Top
    BY DEF Top
  <1>5. HeaderNodes' = HeaderNodes
    BY <1>4 DEF HeaderNodes
  <1>6. SchemaNodes' = SchemaNodes
    BY <1>4, <1>5 DEF SchemaNodes
  <1>7. Nodes' = Nodes
    BY <1>4, <1>5, <1>6 DEF Nodes
  <1> QED
    BY <1>1, <1>2, <1>3, <1>4, <1>5, <1>7 DEF Sendable, Loaded, Refs

LEMMA Judgements ==
    ASSUME UNCHANGED <<contract, expect, answer>>
    PROVE  /\ Entry(answer.status)' = Entry(answer.status) /\ GovernedBy(answer.status)' = GovernedBy(answer.status)
           /\ Definition(answer.status)' = Definition(answer.status)
           /\ Governing(answer.status)' = Governing(answer.status)
           /\ \A d : Conforms(d)' <=> Conforms(d)
           /\ \A d, ns : Fine(d, ns)' <=> Fine(d, ns)
  <1>1. Entry(answer.status)' = Entry(answer.status)
    BY DEF Entry
  <1>2. GovernedBy(answer.status)' = GovernedBy(answer.status)
    BY DEF GovernedBy, Entry
  <1>3. Definition(answer.status)' = Definition(answer.status)
    BY <1>2 DEF Definition
  <1>4. Governing(answer.status)' = Governing(answer.status)
    BY DEF Governing
  <1>5. \A d : Conforms(d)' <=> Conforms(d)
    BY DEF Conforms, HeaderConforms
  <1>6. \A d, ns : Fine(d, ns)' <=> Fine(d, ns)
    BY DEF Fine, HeaderConforms, Follows
  <1> QED
    BY <1>1, <1>2, <1>3, <1>4, <1>5, <1>6

LEMMA InitR == RInit => RInv
  BY DEF RInit, RInv, Stages, Unsent, Preflight, Blame, Defining, Heading, PassedConforms, OnlyCyclesRaise

LEMMA InspectStep ==
    ASSUME RInv, Inspect
    PROVE  RInv'
  <1>1. at = "inspect" /\ UNCHANGED <<contract, expect, answer, headers, name, unchecked, found>>
    BY DEF Inspect, given
  <1>2. found = {} /\ answer = None /\ verdict = "open"
    BY <1>1 DEF RInv, Unsent, Stages
  <1>3. CASE Finish("refused")
    BY <1>1, <1>2, <1>3 DEF Finish, RInv, Stages, Unsent, Preflight, Blame, Defining, Heading, PassedConforms, OnlyCyclesRaise
  <1>4. ASSUME Loaded, NEW key \in Entry(expect.status), value' = contract.responses[key], visited' = {},
               at' = "preflight", UNCHANGED verdict
        PROVE  RInv'
    <2>1. value' = GovernedBy(expect.status) /\ key \in DOMAIN contract.responses
      BY <1>4, OneEntry
    <2>2. Trail(contract.named, GovernedBy(expect.status), value', visited')
      BY <1>4, <2>1, TrailBegins
    <2>3. value' \in Top
      BY <1>4, <2>1 DEF Top, Range
    <2>4. Preflight'
      BY <1>1, <1>4, <2>2, <2>3, Documents DEF Preflight, Walked
    <2> QED
      BY <1>1, <1>2, <1>4, <2>4 DEF RInv, Stages, Unsent, Blame, Defining, Heading, PassedConforms, OnlyCyclesRaise
  <1> QED
    BY <1>3, <1>4 DEF Inspect, LookUp, Loaded

LEMMA FollowStep ==
    ASSUME RInv, Follow
    PROVE  RInv'
  <1>1. /\ at \in {"preflight", "definition", "header", "schema"}
        /\ UNCHANGED <<contract, expect, answer, at, headers, name, unchecked, found, verdict>>
        /\ Known(contract.named, value) /\ value' = contract.named[value.ref] /\ visited' = visited \cup {value.ref}
    BY DEF Follow, Dereferencing, given, Known, Visit
  <1>2. value' \in Top /\ Top \subseteq Nodes
    BY <1>1 DEF Known, Top, Nodes, Range
  <1>3. ASSUME NEW start, Walked(start) PROVE Trail(contract.named, start, value', visited')
    BY <1>1, <1>3, TrailGoesOn DEF Walked
  <1>4. Stages' /\ Unsent'
    BY <1>1 DEF RInv, Stages, Unsent
  <1>5. Preflight'
    BY <1>1, <1>2, <1>3, Documents DEF RInv, Preflight, Walked
  <1>6. Blame' /\ Defining'
    BY <1>1, <1>2, <1>3, Judgements, Documents DEF RInv, Blame, Defining, Walked
  <1>7. Heading'
    <2> SUFFICES ASSUME at \in {"headers", "header", "schema"}
                 PROVE  \E d \in Top' : \E ns \in SUBSET DOMAIN headers : Looked(d, ns)'
      BY <1>1 DEF Heading
    <2>1. PICK d \in Top, ns \in SUBSET DOMAIN headers : Looked(d, ns)
      BY DEF RInv, Heading
    <2>2. Looked(d, ns)'
      <3>1. Fine(d, ns)' <=> Fine(d, ns)
        BY <1>1, Judgements
      <3>2. at = "header" => Trail(contract.named, headers[name], value', visited')
        BY <1>3, <2>1 DEF Looked
      <3>3. at = "schema" => \E h : /\ h = Follows(headers[name]) /\ "schema" \in DOMAIN h
                                    /\ Present /\ Trail(contract.named, h.schema, value', visited')
        BY <1>3, <2>1 DEF Looked
      <3> QED
        BY <1>1, <1>2, <2>1, <3>1, <3>2, <3>3, Judgements, Documents
           DEF Looked, Walked, Follows, Clean, HasBody, Present
    <2> QED
      BY <1>1, <2>2, Documents
  <1> QED
    BY <1>1, <1>4, <1>5, <1>6, <1>7 DEF RInv, Stages, PassedConforms, OnlyCyclesRaise
LEMMA NodesResolve ==
    ASSUME Loaded, NEW n \in Nodes, IsRef(n)
    PROVE  n.ref \in DOMAIN contract.named
  BY DEF Loaded, Refs

\* Where the walk under way began.
LEMMA Underway ==
    ASSUME RInv, Dereferencing
    PROVE  Loaded /\ value \in Nodes /\ \E start : Walked(start)
  BY DEF RInv, Dereferencing, Preflight, Defining, Heading, Looked, Nodes

LEMMA DerefFailsStep ==
    ASSUME RInv, DerefFails
    PROVE  RInv'
  <1>1. /\ at \in {"preflight", "definition", "header", "schema"} /\ IsRef(value)
        /\ UNCHANGED <<contract, expect, answer, value, visited, headers, name, unchecked>>
    BY DEF DerefFails, Dereferencing, given
  <1>2. value.ref \in visited
    BY Underway, NodesResolve DEF DerefFails
  <1>3. IsRef(Final(contract.named, value))
    BY <1>1, <1>2, Underway, TrailCycles DEF DerefFails, Walked
  <1>4. at' = "done"
    BY DEF DerefFails, Finish
  <1>5. CASE at = "definition"
    <2>1. found' = found \cup {"cyclic"} /\ verdict' = "failed"
      BY <1>2, <1>5 DEF DerefFails, Finish
    <2>2. /\ Entry(answer.status) # {} /\ "undeclared" \notin found
          /\ Trail(contract.named, GovernedBy(answer.status), value, visited)
      BY <1>5 DEF RInv, Defining, Walked
    <2>3. IsRef(Definition(answer.status))
      BY <1>1, <1>2, <2>2, TrailCycles DEF Definition
    <2>4. \A d \in Governing(answer.status) : ~Conforms(d)
      BY <2>3, Governed DEF Conforms
    <2>5. PassedConforms'
      BY <1>1, <2>1, <2>4, Judgements DEF PassedConforms
    <2>6. Blame'
      BY <1>1, <2>1, <2>2, <2>3, Judgements DEF Blame
    <2>7. Preflight'
      BY <1>1, <1>4, <1>5, Documents DEF RInv, Preflight, Stages
    <2> QED
      BY <1>4, <2>1, <2>5, <2>6, <2>7 DEF RInv, Stages, Unsent, Defining, Heading, OnlyCyclesRaise
  <1>6. CASE at # "definition"
    <2>1. found' = found /\ verdict' = IF at = "preflight" THEN "refused" ELSE "error"
      BY <1>6 DEF DerefFails, Finish
    <2>2. Preflight' /\ Unsent'
      BY <1>1, <1>4, <2>1, Documents DEF RInv, Preflight, Unsent, Stages
    <2>3. Blame'
      BY <1>1, <2>1, Judgements DEF RInv, Blame
    <2>4. OnlyCyclesRaise'
      BY <1>1, <1>2, <1>3, <1>4 DEF OnlyCyclesRaise
    <2> QED
      BY <1>4, <2>1, <2>2, <2>3, <2>4 DEF RInv, Stages, Defining, Heading, PassedConforms
  <1> QED
    BY <1>5, <1>6

LEMMA AcceptStep ==
    ASSUME RInv, Accept
    PROVE  RInv'
  <1>1. /\ at = "preflight" /\ ~IsRef(value) /\ at' = "request"
        /\ UNCHANGED <<contract, expect, answer, value, visited, headers, name, unchecked, found, verdict>>
    BY DEF Accept, given
  <1>2. Sendable
    <2>1. Entry(expect.status) # {} /\ Trail(contract.named, GovernedBy(expect.status), value, visited)
      BY <1>1 DEF RInv, Preflight, Walked
    <2>2. Definition(expect.status) = value
      BY <1>1, <2>1, TrailEnds DEF Definition
    <2> QED
      BY <1>1, <2>1, <2>2 DEF Sendable
  <1>3. Preflight'
    BY <1>1, <1>2, Documents DEF RInv, Preflight
  <1> QED
    BY <1>1, <1>3 DEF RInv, Stages, Unsent, Blame, Defining, Heading, PassedConforms, OnlyCyclesRaise

LEMMA ReceiveStep ==
    ASSUME RInv, NEW a \in Answers, Receive(a)
    PROVE  RInv'
  <1>1. /\ at = "request" /\ answer' = a /\ UNCHANGED <<contract, expect, headers, name, unchecked>>
        /\ found' = {e \in {"status"} : a.status # expect.status} \cup {e \in {"undeclared"} : Entry(a.status) = {}}
    BY DEF Receive, given, Declared
  <1>2. Loaded /\ Sendable /\ verdict = "open"
    BY <1>1 DEF RInv, Preflight, Stages
  <1>3. Entry(answer.status)' = Entry(a.status) /\ Governing(answer.status)' = Governing(a.status)
    BY <1>1 DEF Entry, Governing
  <1>4. GovernedBy(answer.status)' = GovernedBy(a.status)
    BY <1>1 DEF GovernedBy, Entry
  <1>5. CASE Entry(a.status) = {} /\ at' = "done" /\ verdict' = "failed"
    <2>1. Governing(a.status) = {}
      BY <1>5, Governed
    <2>2. PassedConforms'
      BY <1>3, <1>5, <2>1 DEF PassedConforms
    <2>3. Blame'
      BY <1>1, <1>3, <1>5 DEF Blame
    <2>4. Preflight'
      BY <1>1, <1>2, <1>5, Documents DEF Preflight
    <2> QED
      BY <1>5, <2>2, <2>3, <2>4 DEF RInv, Stages, Unsent, Defining, Heading, OnlyCyclesRaise
  <1>6. ASSUME NEW key \in Entry(a.status), value' = contract.responses[key], visited' = {},
               at' = "definition", UNCHANGED verdict
        PROVE  RInv'
    <2>1. value' = GovernedBy(a.status) /\ key \in DOMAIN contract.responses
      BY <1>6, OneEntry
    <2>2. Trail(contract.named, GovernedBy(a.status), value', visited')
      BY <1>6, <2>1, TrailBegins
    <2>3. value' \in Top
      BY <1>6, <2>1 DEF Top, Range
    <2>4. found' = {e \in {"status"} : answer'.status # expect'.status}
      BY <1>1, <1>6
    <2>5. Defining'
      BY <1>1, <1>3, <1>4, <1>6, <2>2, <2>3, <2>4, Documents DEF Defining, Walked
    <2>6. Blame'
      BY <2>4 DEF Blame
    <2>7. Preflight'
      BY <1>1, <1>2, <1>6, Documents DEF Preflight
    <2> QED
      BY <1>2, <1>6, <2>5, <2>6, <2>7 DEF RInv, Stages, Unsent, Heading, PassedConforms, OnlyCyclesRaise
  <1> QED
    BY <1>5, <1>6 DEF Receive, LookUp, Finish

LEMMA CheckBodyStep ==
    ASSUME RInv, CheckAnswerBody
    PROVE  RInv'
  <1>1. /\ at = "definition" /\ ~IsRef(value)
        /\ UNCHANGED <<contract, expect, answer, value, visited, name>>
    BY DEF CheckAnswerBody, given
  <1>2. /\ Loaded /\ Sendable /\ verdict = "open" /\ Entry(answer.status) # {} /\ value \in Top
        /\ Trail(contract.named, GovernedBy(answer.status), value, visited)
        /\ found = {e \in {"status"} : answer.status # expect.status}
    BY <1>1 DEF RInv, Preflight, Stages, Defining, Walked
  <1>3. Definition(answer.status) = value /\ Governing(answer.status) = {value}
    <2>1. Definition(answer.status) = value
      BY <1>1, <1>2, TrailEnds DEF Definition
    <2> QED
      BY <1>2, <2>1, Governed
  <1>4. CASE Unreadable # {}
    <2>1. found' = found \cup Unreadable /\ at' = "done" /\ verdict' = "failed" /\ UNCHANGED <<headers, unchecked>>
      BY <1>4 DEF CheckAnswerBody, Finish
    <2>2. ~Conforms(value)
      BY <1>4 DEF Unreadable, Conforms, HasBody
    <2>3. PassedConforms'
      BY <1>1, <1>3, <2>1, <2>2, Judgements DEF PassedConforms
    <2>4. Blame'
      BY <1>2, <2>1 DEF Blame, Unreadable
    <2>5. Preflight'
      BY <1>1, <1>2, <2>1, Documents DEF Preflight
    <2> QED
      BY <2>1, <2>3, <2>4, <2>5 DEF RInv, Stages, Unsent, Defining, Heading, OnlyCyclesRaise
  <1>5. CASE Unreadable = {}
    <2>1. /\ found' = found \cup BodyMismatches /\ headers' = Headers(value) /\ unchecked' = DOMAIN Headers(value)
          /\ at' = "headers" /\ UNCHANGED verdict
      BY <1>5 DEF CheckAnswerBody
    <2>2. value.content # "other" /\ (value.content = "json" => HasBody /\ answer.json)
      BY <1>5 DEF Unreadable
    <2>3. Clean' <=> Fine(value, {})
      <3>1. found' = {} <=> found = {} /\ BodyMismatches = {}
        BY <2>1
      <3>2. found = {} <=> answer.status = expect.status
        BY <1>2
      <3>3. BodyMismatches = {} <=> /\ value.content = "none" => answer.body = "empty"
                                    /\ value.content = "json" => answer.json /\ answer.body \in value.accepts \ {"empty"}
        BY <2>2 DEF BodyMismatches, Decoded, HasBody
      <3> QED
        BY <2>2, <3>1, <3>2, <3>3 DEF Clean, Fine
    <2>4. Heading'
      <3>1. PICK d : d = value
        OBVIOUS
      <3>2. Fine(d, {})' <=> Fine(d, {})
        BY <1>1, Judgements
      <3>3. Looked(d, {})'
        BY <1>1, <1>2, <1>3, <2>1, <2>2, <2>3, <3>1, <3>2, Judgements DEF Looked, HasBody
      <3> QED
        BY <1>1, <1>2, <3>1, <3>3, Documents DEF Heading
    <2>5. Blame'
      BY <1>2, <2>1 DEF Blame, BodyMismatches
    <2>6. Preflight'
      BY <1>1, <1>2, <2>1, Documents DEF Preflight
    <2> QED
      BY <1>2, <2>1, <2>4, <2>5, <2>6 DEF RInv, Stages, Unsent, Defining, PassedConforms, OnlyCyclesRaise
  <1> QED
    BY <1>4, <1>5
\* What a step among the headers leaves as it is, if it sets no blame.
LEMMA Among ==
    ASSUME RInv, at \in {"headers", "header", "schema"}, UNCHANGED <<contract, expect, answer>>,
           found' \subseteq found \cup {"header", "assertion"}
    PROVE  /\ Blame' /\ Loaded /\ Sendable /\ verdict = "open"
           /\ at' \in {"headers", "header", "schema", "done"} /\ verdict' # "refused" => Preflight'
           /\ \E d \in Top : \E ns \in SUBSET DOMAIN headers : Looked(d, ns)
  <1>1. Blame'
    BY Judgements DEF RInv, Blame
  <1>2. Loaded /\ Sendable /\ verdict = "open"
    BY DEF RInv, Preflight, Stages
  <1>3. at' \in {"headers", "header", "schema", "done"} /\ verdict' # "refused" => Preflight'
    BY <1>2, Documents DEF Preflight
  <1> QED
    BY <1>1, <1>2, <1>3 DEF RInv, Heading

LEMMA NextHeaderStep ==
    ASSUME RInv, NextHeader
    PROVE  RInv'
  <1>1. PICK n \in unchecked : /\ at = "headers" /\ at' = "header" /\ name' = n /\ unchecked' = unchecked \ {n}
                               /\ value' = headers[n] /\ visited' = {}
                          /\ UNCHANGED <<contract, expect, answer, headers, found, verdict>>
    BY DEF NextHeader, given
  <1>2. Blame' /\ Loaded /\ Sendable /\ verdict = "open" /\ Preflight'
    BY <1>1, Among
  <1>3. PICK d \in Top, ns \in SUBSET DOMAIN headers : Looked(d, ns)
    BY <1>1, Among
  <1>4. Trail(contract.named, headers[n], value', visited')
    BY <1>1, TrailBegins
  <1>5. value' \in Top \cup HeaderNodes
    <2>1. n \in DOMAIN Headers(d) /\ value' = Headers(d)[n]
      BY <1>1, <1>3 DEF Looked
    <2> QED
      BY <1>3, <2>1 DEF HeaderNodes, Range
  <1>6. Looked(d, ns)'
    <2>1. ns = DOMAIN headers \ (unchecked' \cup {n}) /\ n \in DOMAIN headers
      BY <1>1, <1>3 DEF Looked
    <2>2. Fine(d, ns)' <=> Fine(d, ns)
      BY <1>1, Judgements
    <2> QED
      BY <1>1, <1>3, <1>4, <1>5, <2>1, <2>2, Judgements, Documents DEF Looked, Walked, Clean, HasBody
  <1>7. Heading'
    BY <1>1, <1>3, <1>6, Documents DEF Heading
  <1> QED
    BY <1>1, <1>2, <1>7 DEF RInv, Stages, Unsent, Defining, PassedConforms, OnlyCyclesRaise

LEMMA CheckHeaderStep ==
    ASSUME RInv, CheckHeader
    PROVE  RInv'
  <1>1. /\ at = "header" /\ ~IsRef(value)
        /\ UNCHANGED <<contract, expect, answer, headers, name, unchecked, verdict>>
        /\ found' = found \cup {e \in {"header"} : ~Present /\ value.required}
    BY DEF CheckHeader, given
  <1>2. PICK d \in Top, ns \in SUBSET DOMAIN headers : Looked(d, ns)
    BY <1>1, Among
  <1>3. Blame' /\ verdict = "open" /\ (at' \in {"headers", "schema"} => Preflight')
    BY <1>1, Among
  <1>4. value = Follows(headers[name]) /\ value \in Top \cup HeaderNodes /\ name \in DOMAIN headers \ unchecked
    BY <1>1, <1>2, TrailEnds DEF Looked, Walked, Follows
  <1>5. value = Follows(Headers(d)[name]) /\ ns = DOMAIN headers \ (unchecked \cup {name})
    BY <1>1, <1>2, <1>4 DEF Looked
  <1>6. CASE Present /\ "schema" \in DOMAIN value
    <2>1. at' = "schema" /\ value' = value.schema /\ visited' = {} /\ found' = found
      BY <1>1, <1>6 DEF CheckHeader
    <2>2. Trail(contract.named, value.schema, value', visited')
      BY <2>1, TrailBegins
    <2>3. value' \in Nodes
      BY <1>4, <1>6, <2>1 DEF Nodes, SchemaNodes
    <2>4. Looked(d, ns)'
      <3>1. Fine(d, ns)' <=> Fine(d, ns)
        BY <1>1, Judgements
      <3>2. PICK h : h = value
        OBVIOUS
      <3>3. h = Follows(headers[name])' /\ "schema" \in DOMAIN h /\ Present' /\ Walked(h.schema)' /\ (value \in Nodes)'
        BY <1>1, <1>4, <1>6, <2>2, <2>3, <3>2, Documents DEF Follows, Present, Walked
      <3> QED
        BY <1>1, <1>2, <1>4, <1>5, <2>1, <3>1, <3>3, Judgements DEF Looked, Clean, HasBody
    <2>5. Heading'
      BY <1>1, <1>2, <2>4, Documents DEF Heading
    <2> QED
      BY <1>3, <2>1, <2>5, <1>1 DEF RInv, Stages, Unsent, Defining, PassedConforms, OnlyCyclesRaise
  <1>7. CASE ~(Present /\ "schema" \in DOMAIN value)
    <2>1. at' = "headers" /\ UNCHANGED <<value, visited>>
      BY <1>7 DEF CheckHeader
    <2>2. HeaderConforms(name, value) <=> ~(~Present /\ value.required)
      BY <1>7 DEF HeaderConforms, Present
    <2>3. PICK more : more = ns \cup {name}
      OBVIOUS
    <2>4. Clean' <=> Fine(d, more)
      <3>1. found' = {} <=> found = {} /\ ~(~Present /\ value.required)
        BY <1>1
      <3>2. Fine(d, more) <=> Fine(d, ns) /\ HeaderConforms(name, value)
        BY <1>5, <2>3 DEF Fine
      <3>3. Clean <=> Fine(d, ns)
        BY <1>2 DEF Looked
      <3> QED
        BY <2>2, <3>1, <3>2, <3>3 DEF Clean
    <2>5. Looked(d, more)'
      <3>1. Fine(d, more)' <=> Fine(d, more)
        BY <1>1, Judgements
      <3>2. more = DOMAIN headers \ unchecked
        BY <1>4, <1>5, <2>3
      <3> QED
        BY <1>1, <1>2, <2>1, <2>4, <3>1, <3>2, Judgements DEF Looked, HasBody
    <2>6. Heading'
      BY <1>1, <1>2, <1>4, <1>5, <2>3, <2>5, Documents DEF Heading
    <2> QED
      BY <1>1, <1>3, <2>1, <2>6 DEF RInv, Stages, Unsent, Defining, PassedConforms, OnlyCyclesRaise
  <1> QED
    BY <1>6, <1>7

LEMMA CheckSchemaStep ==
    ASSUME RInv, CheckSchema
    PROVE  RInv'
  <1>1. /\ at = "schema" /\ ~IsRef(value) /\ at' = "headers"
        /\ UNCHANGED <<contract, expect, answer, value, visited, headers, name, unchecked, verdict>>
        /\ found' = found \cup {e \in {"header"} : Coerce(answer.headers[LowerCase[name]], value.type) # value.type}
    BY DEF CheckSchema, given
  <1>2. PICK d \in Top, ns \in SUBSET DOMAIN headers : Looked(d, ns)
    BY <1>1, Among
  <1>3. Blame' /\ verdict = "open" /\ Preflight'
    BY <1>1, Among
  <1>4. PICK h : h = Follows(headers[name]) /\ "schema" \in DOMAIN h /\ Present /\ Walked(h.schema)
    BY <1>1, <1>2 DEF Looked
  <1>5. Final(contract.named, h.schema) = value
    BY <1>1, <1>4, TrailEnds DEF Walked
  <1>6. /\ h = Follows(Headers(d)[name]) /\ ns = DOMAIN headers \ (unchecked \cup {name})
        /\ name \in DOMAIN headers \ unchecked /\ (Clean <=> Fine(d, ns))
    BY <1>1, <1>2, <1>4 DEF Looked
  <1>7. HeaderConforms(name, h) <=> Coerce(answer.headers[LowerCase[name]], value.type) = value.type
    <2> DEFINE text == answer.headers[LowerCase[name]]
    <2>1. Coerce(text, value.type) = value.type
            <=> value.type = "string" \/ (value.type \in DOMAIN Reads /\ text \in Reads[value.type])
      BY DEF Coerce
    <2>2. {answer.headers[l] : l \in {k \in DOMAIN answer.headers : k = LowerCase[name]}} = {text}
      BY <1>4 DEF Present
    <2> QED
      BY <1>4, <1>5, <2>1, <2>2 DEF HeaderConforms
  <1>8. PICK more : more = ns \cup {name}
    OBVIOUS
  <1>9. Clean' <=> Fine(d, more)
    <2>1. Fine(d, more) <=> Fine(d, ns) /\ HeaderConforms(name, h)
      BY <1>6, <1>8 DEF Fine
    <2> QED
      BY <1>1, <1>6, <1>7, <2>1 DEF Clean
  <1>10. Looked(d, more)'
    <2>1. Fine(d, more)' <=> Fine(d, more)
      BY <1>1, Judgements
    <2>2. more = DOMAIN headers \ unchecked
      BY <1>6, <1>8
    <2> QED
      BY <1>1, <1>2, <1>9, <2>1, <2>2, Judgements DEF Looked, HasBody
  <1>11. Heading'
    BY <1>1, <1>2, <1>6, <1>8, <1>10, Documents DEF Heading
  <1> QED
    BY <1>1, <1>3, <1>11 DEF RInv, Stages, Unsent, Defining, PassedConforms, OnlyCyclesRaise

LEMMA AssertStep ==
    ASSUME RInv, CheckAssertion
    PROVE  RInv'
  <1>1. /\ at = "headers" /\ unchecked = {} /\ at' = "done"
        /\ UNCHANGED <<contract, expect, answer, value, visited, headers, name, unchecked>>
        /\ found' = found \cup {e \in {"assertion"} : expect.wanted \notin {"anything", Decoded}}
        /\ verdict' = IF found' = {} THEN "passed" ELSE "failed"
    BY DEF CheckAssertion, given, Finish
  <1>2. PICK d \in Top, ns \in SUBSET DOMAIN headers : Looked(d, ns)
    BY <1>1, Among
  <1>3. Blame' /\ Preflight'
    BY <1>1, Among
  <1>4. Governing(answer.status) = {d} /\ (Clean <=> Fine(d, DOMAIN Headers(d))) /\ ~IsRef(d)
    <2>1. ns = DOMAIN Headers(d)
      BY <1>1, <1>2 DEF Looked
    <2> QED
      BY <1>2, <2>1, Governed DEF Looked
  <1>5. Conforms(d) <=> found' = {}
    <2>1. found' = {} <=> found = {} /\ expect.wanted \in {"anything", Decoded}
      BY <1>1
    <2>2. Conforms(d) <=> Fine(d, DOMAIN Headers(d)) /\ expect.wanted \in {"anything", Decoded}
      BY <1>4 DEF Conforms, Fine, Follows, Decoded, HasBody
    <2> QED
      BY <1>4, <2>1, <2>2 DEF Clean
  <1>6. PassedConforms'
    BY <1>1, <1>4, <1>5, Judgements DEF PassedConforms
  <1> QED
    BY <1>1, <1>3, <1>6 DEF RInv, Stages, Unsent, Defining, Heading, OnlyCyclesRaise

LEMMA RStep == RInv /\ [RNext]_cvars => RInv'
  <1> SUFFICES ASSUME RInv, [RNext]_cvars PROVE RInv'
    OBVIOUS
  <1>1. CASE RNext
    BY <1>1, InspectStep, FollowStep, DerefFailsStep, AcceptStep, ReceiveStep, CheckBodyStep, NextHeaderStep,
       CheckHeaderStep, CheckSchemaStep, AssertStep DEF RNext, Checks
  <1>2. CASE UNCHANGED cvars
    <2>1. UNCHANGED <<contract, expect, answer, at, value, visited, headers, name, unchecked, found, verdict>>
      BY <1>2 DEF cvars
    <2>2. Stages' /\ Unsent'
      BY <2>1 DEF RInv, Stages, Unsent
    <2>3. Preflight'
      BY <2>1, Documents DEF RInv, Preflight, Walked
    <2>4. Blame' /\ Defining'
      BY <2>1, Documents, Judgements DEF RInv, Blame, Defining, Walked
    <2>5. Heading'
      <3> SUFFICES ASSUME at \in {"headers", "header", "schema"}
                   PROVE  \E d \in Top' : \E ns \in SUBSET DOMAIN headers : Looked(d, ns)'
        BY <2>1 DEF Heading
      <3>1. PICK d \in Top, ns \in SUBSET DOMAIN headers : Looked(d, ns)
        BY DEF RInv, Heading
      <3>2. Fine(d, ns)' <=> Fine(d, ns)
        BY <2>1, Judgements
      <3>3. Looked(d, ns)'
        BY <2>1, <3>1, <3>2, Judgements, Documents DEF Looked, Walked, Follows, Clean, HasBody, Present
      <3> QED
        BY <2>1, <3>3, Documents
    <2>6. PassedConforms' /\ OnlyCyclesRaise'
      BY <2>1, Judgements DEF RInv, PassedConforms, OnlyCyclesRaise
    <2> QED
      BY <2>2, <2>3, <2>4, <2>5, <2>6 DEF RInv
  <1> QED
    BY <1>1, <1>2

\* For any contract, with references or without, in ranges or defaults, a step passes
\* exactly if the response conforms to the definition that governs it (response_errors).
THEOREM PassesExactly == RSpec => []PassedConforms
  <1>1. RInv => PassedConforms
    BY DEF RInv
  <1> QED
    BY <1>1, InitR, RStep, PTL DEF RSpec

\* With the status that the step expects, the contract is never to blame
\* (validate_suite before response_definition).
THEOREM PreflightEnough == RSpec => []PreflightSuffices
  <1>1. RInv => PreflightSuffices
    <2> SUFFICES ASSUME RInv, answer # None, answer.status = expect.status
                 PROVE  found \cap {"undeclared", "cyclic"} = {}
      BY DEF PreflightSuffices
    <2>1. CASE found = {}
      BY <2>1
    <2>2. CASE found # {}
      <3>1. Sendable
        BY <2>2 DEF RInv, Preflight, Unsent
      <3> QED
        BY <3>1 DEF RInv, Blame, Sendable
    <2> QED
      BY <2>1, <2>2
  <1> QED
    BY <1>1, InitR, RStep, PTL DEF RSpec

\* Once a contract was inspected, a step ends in an error only on a cycle of references
\* that no preflight follows (deref in response_errors).
THEOREM CyclesOnly == RSpec => []OnlyCyclesRaise
  <1>1. RInv => OnlyCyclesRaise
    BY DEF RInv
  <1> QED
    BY <1>1, InitR, RStep, PTL DEF RSpec
===============================================================================
