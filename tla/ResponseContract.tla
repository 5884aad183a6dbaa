--------------------------- MODULE ResponseContract ---------------------------
(***************************************************************************)
(* What src/api_sentinel/contracts.py says of a response: the inspection   *)
(* of a contract's references when it is loaded, the preflight of a step   *)
(* (validate_suite), and response_errors on the answer the step receives.  *)
(*                                                                         *)
(* A contract has responses, under a status, a range of statuses or the    *)
(* default, and named components.  Any of its nodes may be a reference, a  *)
(* record whose only field is ref; a field that a document may leave out   *)
(* is a field a record may lack.                                           *)
(***************************************************************************)
EXTENDS Integers, Sequences, Functions, HeaderTexts

CONSTANTS
    Contracts,   \* documents: [responses, named]
    Steps,       \* what steps expect: [status, wanted], wanted = "anything" without an assertion
    Answers      \* [status, body, json, headers]; body = "empty" without one

VARIABLES
    contract, expect, answer,
    at,                \* where the code is
    value,             \* the node deref looks at
    visited,           \* the references it followed
    headers,           \* the headers of the response's definition
    name, unchecked,   \* the one that is checked, those left
    found,             \* the errors
    verdict            \* "open", "refused" before anything is sent, "passed", "failed", "error"

cvars == <<contract, expect, answer, at, value, visited, headers, name, unchecked, found, verdict>>
given == <<contract, expect>>

IsRef(v) == "ref" \in DOMAIN v
None == [content |-> "none"]

Finish(result) == verdict' = result /\ at' = "done"

---------------------------------------------------------------------------
(* Loading: _inspect *)

\* definition.get("headers", {})
Headers(definition) == IF "headers" \in DOMAIN definition THEN definition.headers ELSE <<>>

Top == Range(contract.responses) \cup Range(contract.named)
HeaderNodes == UNION {Range(Headers(n)) : n \in Top}
SchemaNodes == {n.schema : n \in {m \in Top \cup HeaderNodes : "schema" \in DOMAIN m}}

Nodes == Top \cup HeaderNodes \cup SchemaNodes

\* Fault: only the references of responses are inspected.
ResponseRefs == {n.ref : n \in {m \in Range(contract.responses) : IsRef(m)}}

Refs == {n.ref : n \in {m \in Nodes : IsRef(m)}}

\* Fault: the default before the range.
EntryDefaultFirst(status) ==
    IF <<"exact", status>> \in DOMAIN contract.responses THEN {<<"exact", status>>}
    ELSE IF <<"default", 0>> \in DOMAIN contract.responses THEN {<<"default", 0>>}
    ELSE {<<"range", status \div 100>>} \cap DOMAIN contract.responses

\* response_definition: the entry for the status, else for its range, else the default.
Entry(status) ==
    IF <<"exact", status>> \in DOMAIN contract.responses THEN {<<"exact", status>>}
    ELSE IF <<"range", status \div 100>> \in DOMAIN contract.responses THEN {<<"range", status \div 100>>}
    ELSE {<<"default", 0>>} \cap DOMAIN contract.responses

\* What follows a lookup: dereferencing, or what a ContractError leads to.
LookUp(status, next, undeclared) ==
    \/ Entry(status) = {} /\ Finish(undeclared) /\ UNCHANGED <<value, visited>>
    \/ \E key \in Entry(status) :
         /\ value' = contract.responses[key] /\ visited' = {}
         /\ at' = next /\ UNCHANGED verdict

\* Fault: suites are not validated.
InspectOnly ==
    /\ at = "inspect"
    /\ IF Refs \subseteq DOMAIN contract.named
       THEN at' = "request" /\ UNCHANGED <<value, visited, verdict>>
       ELSE Finish("refused") /\ UNCHANGED <<value, visited>>
    /\ UNCHANGED <<given, answer, headers, name, unchecked, found>>

\* validate_suite on the step, once the document was inspected
Inspect ==
    /\ at = "inspect"
    /\ IF Refs \subseteq DOMAIN contract.named
       THEN LookUp(expect.status, "preflight", "refused")
       ELSE Finish("refused") /\ UNCHANGED <<value, visited>>
    /\ UNCHANGED <<given, answer, headers, name, unchecked, found>>

---------------------------------------------------------------------------
(* deref *)

Dereferencing == at \in {"preflight", "definition", "header", "schema"}

Visit(ref) == visited' = visited \cup {ref}

Follow ==
    /\ Dereferencing /\ IsRef(value)
    /\ value.ref \notin visited /\ value.ref \in DOMAIN contract.named
    /\ Visit(value.ref)
    /\ value' = contract.named[value.ref]
    /\ UNCHANGED <<given, answer, at, headers, name, unchecked, found, verdict>>

\* A cycle is a ContractError, which response_errors catches around the definition
\* only; a KeyError of pointer would reach CaseExecutor.step or main.
DerefFails ==
    /\ Dereferencing /\ IsRef(value)
    /\ value.ref \in visited \/ value.ref \notin DOMAIN contract.named
    /\ IF at = "definition" /\ value.ref \in visited
       THEN found' = found \cup {"cyclic"} /\ Finish("failed")
       ELSE UNCHANGED found /\ Finish(IF at = "preflight" THEN "refused" ELSE "error")
    /\ UNCHANGED <<given, answer, value, visited, headers, name, unchecked>>

Accept ==
    /\ at = "preflight" /\ ~IsRef(value)
    /\ at' = "request"
    /\ UNCHANGED <<given, answer, value, visited, headers, name, unchecked, found, verdict>>

---------------------------------------------------------------------------
(* response_errors *)

Declared(status) == Entry(status) # {}

Receive(a) ==
    /\ at = "request"
    /\ answer' = a
    /\ found' = {e \in {"status"} : a.status # expect.status} \cup {e \in {"undeclared"} : ~Declared(a.status)}
    /\ LookUp(a.status, "definition", "failed")
    /\ UNCHANGED <<given, headers, name, unchecked>>

HasBody == answer.body # "empty"

\* json.loads leaves None of a body that is empty or is no JSON
Decoded == IF HasBody /\ answer.json THEN answer.body ELSE "null"

\* The early returns that leave headers and assertions unchecked
Unreadable ==
    {e \in {"media type"} : value.content = "other"}
    \cup {e \in {"no JSON"} : value.content = "json" /\ ~(HasBody /\ answer.json)}

BodyMismatches ==
    {e \in {"body"} : value.content = "json" /\ Decoded \notin value.accepts}
    \cup {e \in {"unexpected"} : value.content = "none" /\ HasBody}

CheckAnswerBody ==
    /\ at = "definition" /\ ~IsRef(value)
    /\ IF Unreadable # {}
       THEN found' = found \cup Unreadable /\ Finish("failed") /\ UNCHANGED <<headers, unchecked>>
       ELSE /\ found' = found \cup BodyMismatches
            /\ headers' = Headers(value) /\ unchecked' = DOMAIN Headers(value)
            /\ at' = "headers" /\ UNCHANGED verdict
    /\ UNCHANGED <<given, answer, value, visited, name>>

NextHeader ==
    /\ at = "headers"
    /\ \E n \in unchecked :
         /\ name' = n /\ unchecked' = unchecked \ {n}
         /\ value' = headers[n] /\ visited' = {} /\ at' = "header"
    /\ UNCHANGED <<given, answer, headers, found, verdict>>

Present == LowerCase[name] \in DOMAIN answer.headers

CheckHeader ==
    /\ at = "header" /\ ~IsRef(value)
    /\ found' = found \cup {e \in {"header"} : ~Present /\ value.required}
    /\ IF Present /\ "schema" \in DOMAIN value
       THEN at' = "schema" /\ value' = value.schema /\ visited' = {}
       ELSE at' = "headers" /\ UNCHANGED <<value, visited>>
    /\ UNCHANGED <<given, answer, headers, name, unchecked, verdict>>

CheckSchema ==
    /\ at = "schema" /\ ~IsRef(value)
    /\ found' = found \cup {e \in {"header"} : Coerce(answer.headers[LowerCase[name]], value.type) # value.type}
    /\ at' = "headers"
    /\ UNCHANGED <<given, answer, value, visited, headers, name, unchecked, verdict>>

\* json_equals; JsonAssertions has its detail.
CheckAssertion ==
    /\ at = "headers" /\ unchecked = {}
    /\ found' = found \cup {e \in {"assertion"} : expect.wanted \notin {"anything", Decoded}}
    /\ Finish(IF found' = {} THEN "passed" ELSE "failed")
    /\ UNCHANGED <<given, answer, value, visited, headers, name, unchecked>>

RInit ==
    /\ contract \in Contracts /\ expect \in Steps
    /\ answer = None /\ value = None
    /\ at = "inspect" /\ verdict = "open"
    /\ visited = {} /\ headers = <<>> /\ name = "" /\ unchecked = {} /\ found = {}

Checks ==
    Inspect \/ Follow \/ DerefFails \/ Accept \/ CheckAnswerBody \/ NextHeader \/ CheckHeader \/ CheckSchema \/ CheckAssertion

RNext == Checks \/ \E a \in Answers : Receive(a)

RSpec == RInit /\ [][RNext]_cvars

---------------------------------------------------------------------------
(* Properties *)

\* Reference: the references a chain that starts with v goes through, the smallest
\* set that with every reference has the next one.
Known(named, n) == IsRef(n) /\ n.ref \in DOMAIN named
Closed(named, v, S) == \A n \in {v} \cup {named[r] : r \in S} : Known(named, n) => n.ref \in S
Chain(named, v) == {r \in DOMAIN named : \A S \in SUBSET DOMAIN named : Closed(named, v, S) => r \in S}

\* Reference: where the chain leads, a reference again if it is cyclic or broken.
Final(named, v) ==
    LET ends == {n \in {v} \cup {named[r] : r \in Chain(named, v)} : ~Known(named, n)}
    IN  IF ends = {} THEN v ELSE CHOOSE n \in ends : TRUE

\* Reference: what a response sends of header n is what the contract says of it.
HeaderConforms(n, header) ==
    LET sent == {answer.headers[h] : h \in {l \in DOMAIN answer.headers : l = LowerCase[n]}}
        readable(text, type) == type = "string" \/ (type \in DOMAIN Reads /\ text \in Reads[type])
    IN  /\ header.required => sent # {}
        /\ "schema" \in DOMAIN header => \A text \in sent : readable(text, Final(contract.named, header.schema).type)

\* Reference: a response conforms to a definition and to the step's expectation.
Conforms(definition) ==
    /\ ~IsRef(definition)
    /\ answer.status = expect.status
    /\ definition.content # "other"
    /\ definition.content = "none" => answer.body = "empty"
    /\ definition.content = "json" => answer.json /\ answer.body \in definition.accepts \ {"empty"}
    /\ \A n \in DOMAIN Headers(definition) : HeaderConforms(n, Final(contract.named, Headers(definition)[n]))
    /\ expect.wanted # "anything" =>
         expect.wanted = IF answer.json /\ answer.body # "empty" THEN answer.body ELSE "null"

\* The entry of the contract that is to be used: no other that fits is closer.
Governing(status) ==
    LET fits(key) == key \in {<<"exact", status>>, <<"range", status \div 100>>, <<"default", 0>>}
        rank == [exact |-> 1, range |-> 2, default |-> 3]
    IN  {Final(contract.named, contract.responses[key]) : key \in
            {k \in DOMAIN contract.responses : fits(k) /\
                \A other \in DOMAIN contract.responses : fits(other) => rank[k[1]] <= rank[other[1]]}}

\* Whatever way a contract is written, with references or without, in ranges or
\* defaults, a step passes exactly if the response conforms to the definition
\* that governs it (response_errors).
PassedConforms ==
    /\ verdict = "passed" => \E d \in Governing(answer.status) : Conforms(d)
    /\ verdict = "failed" => ~\E d \in Governing(answer.status) : Conforms(d)

\* A step that is sent expects a status its contract declares: with that status
\* answered, the contract is never to blame (validate_suite before response_definition).
PreflightSuffices ==
    answer # None /\ answer.status = expect.status => found \cap {"undeclared", "cyclic"} = {}

\* After the inspection only a cycle among headers and their schemas, which no
\* preflight follows, is left to end a step in an error (deref in response_errors).
OnlyCyclesRaise == verdict = "error" => at = "done" /\ IsRef(Final(contract.named, value)) /\ value.ref \in visited
=============================================================================
