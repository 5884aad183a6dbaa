----------------------------- MODULE MCContracts -----------------------------
(***************************************************************************)
(* What contracts.py decides about a step, for TLC: the request it sends   *)
(* (RequestContract), the response it gets (ResponseContract) and a JSON   *)
(* assertion about its body (JsonAssertions), side by side on small        *)
(* instances.  A behaviour takes one part; the others stay at rest.        *)
(***************************************************************************)
EXTENDS RequestContract, ResponseContract, JsonAssertions

Chars(s) == [i \in DOMAIN s |-> <<"char", s[i]>>]

\* The header names and texts of requests and responses
LowerNames == [n \in {"h", "H", "X-Count"} |-> IF n = "X-Count" THEN "x-count" ELSE "h"]
ReadsTexts == [integer |-> {Chars(<<"1">>)}, number |-> {Chars(<<"1">>)}, boolean |-> {Chars(<<"true">>)}]

---------------------------------------------------------------------------
(* Operations, steps with values and templates, and variables *)

Plain(pieces) == [t |-> "string", text |-> pieces]
Scalar(t, s) == [t |-> t, text |-> Chars(s)]
Var(n) == [name |-> n, env |-> FALSE]
Env(n) == [name |-> n, env |-> TRUE]
Parts(ps) == [parts |-> ps]
Literal(s) == [text |-> Chars(s)]

\* /{x}/a/{y}
Path == << Slash, <<"hole", "x">>, Slash, <<"char", "a">>, Slash, <<"hole", "y">> >>

Param(in, n, t, r) == [in |-> in, name |-> n, type |-> t, required |-> r]
AllOperations ==
    {[path |-> Path, shared |-> shared, own |-> own, body |-> b] :
        shared \in {<<>>, <<Param("query", "q", "string", TRUE)>>, <<Param("cookie", "q", "string", TRUE)>>},
        own \in {<<>>, <<Param("query", "q", "number", FALSE)>>,
                 <<Param("header", "H", "integer", TRUE), Param("path", "x", "string", TRUE)>>},
        b \in {[required |-> FALSE, schema |-> {}], [required |-> TRUE, schema |-> {"number"}]}}

AllVariables == [seed |-> Scalar("integer", <<"1">>)]
AllEnvironment == [TOKEN |-> Chars(<<"a">>)]

PathValues ==
    {Scalar("string", s) : s \in {<<>>, <<".">>, <<".", ".">>, <<"a", "/", ".", ".">>, <<"%">>}} \cup
    {Plain(<< <<"hole", "y">> >>), Plain(<< <<"hole", "x">> >>), Parts(<<Var("seed")>>), Parts(<<Env("gone")>>)}

AllRawSteps ==
    {[path |-> ps, query |-> q, header |-> h, body |-> b, allow |-> a] :
        ps \in {[x |-> v, y |-> w] : v, w \in PathValues} \cup {[x |-> v] : v \in {Scalar("string", <<"a">>)}},
        q \in {<<>>} \cup {[q |-> v] : v \in {Scalar("string", <<"1">>), Parts(<<Var("seed")>>), Parts(<<Literal(<<"a">>), Var("gone")>>)}},
        h \in {<<>>} \cup {[h |-> v] : v \in {Parts(<<Var("seed")>>), Parts(<<Literal(<<>>), Var("seed")>>), Parts(<<Env("TOKEN")>>)}},
        b \in {{}, {Scalar("string", <<"a">>)}, {Parts(<<Var("seed")>>)}},
        a \in BOOLEAN}

ASSUME OperationsGiven == OperationAssumption /\ TextAssumption

---------------------------------------------------------------------------
(* Contracts with references, sound and broken ones, and answers *)

Ref(n) == [ref |-> n]
Response(content, accepts, hs) == [content |-> content, accepts |-> accepts, headers |-> hs]
Header(required, schema) == [required |-> required, schema |-> schema]

AllHeaders == {<<>>} \cup
    {[n \in {"X-Count"} |-> h] :
        h \in {Ref("h"), Header(TRUE, [type |-> "integer"]), Header(FALSE, Ref("s")), [required |-> TRUE]}}

Written == {[content |-> "none"], Response("other", {}, <<>>)} \cup {Response("json", {"good"}, hs) : hs \in AllHeaders}

Entries == {<<"exact", 200>>, <<"range", 2>>, <<"default", 0>>}

\* r and q may refer to each other, h and s to themselves.
Responses == {Ref("r"), Ref("q"), Response("json", {"good", "bad"}, [n \in {"X-Count"} |-> Ref("h")])}
    \X {Ref("r"), Response("none", {}, <<>>)}
Components == {<<Ref("h"), [type |-> "string"]>>, <<Ref("gone"), [type |-> "boolean"]>>,
               <<Header(TRUE, Ref("s")), Ref("s")>>, <<Header(TRUE, Ref("s")), [type |-> "boolean"]>>}
Named == {[r |-> rs[1], q |-> rs[2], h |-> ps[1], s |-> ps[2]] : rs \in Responses, ps \in Components}

AllContracts ==
    {[responses |-> [k \in ks |-> IF k = <<"exact", 200>> THEN v ELSE Ref(IF k = <<"range", 2>> THEN "r" ELSE "q")],
      named |-> names] : ks \in SUBSET Entries, v \in Written \cup {Ref("r")}, names \in Named}

AllSteps == [status : {200, 404}, wanted : {"anything", "good"}]
Bodies == {<<"empty", FALSE>>, <<"empty", TRUE>>, <<"good", FALSE>>, <<"good", TRUE>>, <<"bad", TRUE>>}
AllAnswers == {[status |-> st, body |-> b[1], json |-> b[2], headers |-> hs] : st \in {200, 201, 404}, b \in Bodies,
              hs \in {<<>>} \cup {[h \in {"x-count"} |-> Chars(<<s>>)] : s \in {"1", "true"}}}

---------------------------------------------------------------------------
(* Documents of depth two and pointers of two tokens: one key or index of  *)
(* each kind that pointer() can mistake for another.                       *)

Leaf(t, v) == [p \in {<<>>} |-> [t |-> t, val |-> v]]

\* The list or object with the given members
Container(t, members) ==
    [p \in {<<>>} \cup UNION {{<<n>> \o q : q \in DOMAIN members[n]} : n \in DOMAIN members} |->
        IF p = <<>> THEN [t |-> t] ELSE members[Head(p)][Tail(p)]]

Leaves ==
    {Leaf("null", 0), Leaf("bool", 1), Leaf("int", 1), Leaf("int", 0), Leaf("float", 1), Leaf("str", "1")}

Lists ==
    {Container("list", <<>>)} \cup {Container("list", [n \in {<<"0">>} |-> a]) : a \in Leaves} \cup
    {Container("list", [n \in {<<"0">>, <<"1">>} |-> IF n = <<"0">> THEN a ELSE Leaf("int", 1)]) : a \in Leaves}

Keys == {<<"a">>, <<"/">>, <<"~", "1">>, <<"0">>}

Objects ==
    {Container("dict", [k \in ks |-> IF k = <<"/">> THEN Leaf("int", 0) ELSE a]) : ks \in SUBSET Keys, a \in Leaves}

AllDocuments == Leaves \cup Lists \cup Objects
    \cup {Container("list", [n \in {<<"0">>} |-> o]) : o \in Objects}
    \cup {Container("dict", [k \in {<<"a">>} |-> l]) : l \in Lists}

AllValues == Leaves \cup {l \in Lists : <<<<"1">>>> \notin DOMAIN l}

SomeTokens == {<<"0">>, <<"1">>, <<"0", "1">>, <<"a">>, <<"~", "1">>, <<"~", "0", "1">>, <<"~">>}

AllPointers ==
    {[rooted |-> TRUE, tokens |-> ts] : ts \in {<<>>} \cup {<<a>> : a \in SomeTokens} \cup SomeTokens \X SomeTokens}
    \cup {[rooted |-> FALSE, tokens |-> <<<<"a">>>>]}

AllCharacters == Digits \cup {"~", "/", "a"}

ASSUME AssertionsGiven == PointerAssumption

---------------------------------------------------------------------------
(* The three parts *)

VARIABLE part   \* which of them is taken

vars == <<part, qvars, cvars, avars>>

\* A part at rest.
RequestsRest ==
    /\ op = {} /\ raw = {} /\ step = {} /\ stage = "rest" /\ outcome = "rest"
    /\ params = {} /\ todo = {} /\ path = <<>> /\ errors = {}
ResponsesRest ==
    /\ contract = {} /\ expect = {} /\ answer = None /\ value = None /\ at = "rest" /\ verdict = "rest"
    /\ visited = {} /\ headers = <<>> /\ name = "" /\ unchecked = {} /\ found = {}
AssertionsRest ==
    /\ body = {} /\ pointer = {} /\ expected = {} /\ current = <<>> /\ assertion = "rest"

RequestInit == part = "request" /\ QInit /\ ResponsesRest /\ AssertionsRest
ResponseInit == part = "response" /\ RInit /\ RequestsRest /\ AssertionsRest
AssertionInit == part = "assertion" /\ AInit /\ RequestsRest /\ ResponsesRest

MCInit == RequestInit \/ ResponseInit \/ AssertionInit

MCNext ==
    \/ part = "request" /\ QNext /\ UNCHANGED <<part, cvars, avars>>
    \/ part = "response" /\ RNext /\ UNCHANGED <<part, qvars, avars>>
    \/ part = "assertion" /\ ANext /\ UNCHANGED <<part, qvars, cvars>>

MCSpec == MCInit /\ [][MCNext]_vars

AssertionSpec == AssertionInit /\ [][MCNext]_vars
=============================================================================
