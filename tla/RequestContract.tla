--------------------------- MODULE RequestContract ---------------------------
(***************************************************************************)
(* From a step of a suite to the request it sends: the parameters of an    *)
(* operation are collected when the contract is loaded, the suite passes   *)
(* the preflight, a worker renders the step's templates                    *)
(* (src/api_sentinel/config.py), and Contract.request validates the        *)
(* rendered step and builds its path (src/api_sentinel/contracts.py).      *)
(*                                                                         *)
(* A value has a JSON type and the text str() gives it.  A text is a       *)
(* sequence of pieces: <<"char", c>>, the placeholder of a path            *)
(* <<"hole", x>>, and either of them percent-encoded.                      *)
(***************************************************************************)
EXTENDS Integers, SequencesExt, HeaderTexts

CONSTANTS
    Operations,    \* [path, shared, own, body]: shared are the parameters of the path item
    RawSteps,      \* [path, query, header, body, allow], with values before rendering
    Variables,     \* what execution knows: names to values
    Environment    \* of the worker: names to texts

Parameter == [in : STRING, name : STRING, type : STRING, required : BOOLEAN]

\* OpenAPI: a list does not declare a parameter twice.
OperationAssumption ==
    \A o \in Operations : \A list \in {o.shared, o.own} :
        /\ list \in Seq(Parameter)
        /\ \A i, j \in DOMAIN list : list[i].in = list[j].in /\ list[i].name = list[j].name => i = j

\* Before it is encoded, a text holds no percent-encoded piece.
Text == Seq({"char", "hole"} \X STRING)

Value == [t : STRING, text : Text]
Template == [parts : Seq([text : Text] \cup [name : STRING, env : BOOLEAN])]

TextAssumption ==
    /\ \A o \in Operations : o.path \in Text
    /\ \A r \in RawSteps : "path" \in DOMAIN r /\ \A n \in DOMAIN r.path : r.path[n] \in Value \cup Template
    /\ \A n \in DOMAIN Variables : Variables[n] \in Value
    /\ \A n \in DOMAIN Environment : Environment[n] \in Text

VARIABLES
    op, raw,
    stage,         \* where the code is
    params,        \* the parameters in effect
    step,          \* the rendered step
    todo,          \* the parameters, then the placeholders, that are left
    path, errors,
    outcome        \* "open", "refused" by load or preflight, "error", "failed", "sent"

qvars == <<op, raw, stage, params, step, todo, path, errors, outcome>>

Stop(result) == outcome' = result /\ stage' = "done"

---------------------------------------------------------------------------
(* Contract.__init__ *)

Supported(p) == p.in \in {"path", "query", "header"} /\ p.type \in {"string", "integer", "number", "boolean"}

Key(p) == <<p.in, p.name>>

\* Fault: the parameters of the path item replace those of the operation.
SharedLast == op.own \o op.shared

Declarations == op.shared \o op.own

\* The last declaration of a parameter is in effect.
InEffect ==
    {Declarations[i] : i \in {j \in DOMAIN Declarations :
        \A k \in DOMAIN Declarations : k > j => Key(Declarations[k]) # Key(Declarations[j])}}

Load ==
    /\ stage = "load"
    /\ IF \A i \in DOMAIN Declarations : Supported(Declarations[i])
       THEN params' = InEffect /\ stage' = "preflight" /\ UNCHANGED outcome
       ELSE Stop("refused") /\ UNCHANGED params
    /\ UNCHANGED <<op, raw, step, todo, path, errors>>

Holes(text) == {text[i][2] : i \in {j \in DOMAIN text : text[j][1] = "hole"}}

SameHoles == Holes(op.path) = DOMAIN raw.path

\* validate_suite
Preflight ==
    /\ stage = "preflight"
    /\ IF SameHoles THEN stage' = "render" /\ UNCHANGED outcome ELSE Stop("refused")
    /\ UNCHANGED <<op, raw, params, step, todo, path, errors>>

---------------------------------------------------------------------------
(* render; a value is a set of one, or of none where rendering raises *)

String(text) == [t |-> "string", text |-> text]

Resolve(variable) ==
    IF variable.env
    THEN {String(Environment[n]) : n \in {m \in DOMAIN Environment : m = variable.name}}
    ELSE {Variables[n] : n \in {m \in DOMAIN Variables : m = variable.name}}

\* A part of a template: a text of its own or a variable.
PartText(part) == IF "name" \in DOMAIN part THEN {v.text : v \in Resolve(part)} ELSE {part.text}

Whole(template) == DOMAIN template = {1} /\ "name" \in DOMAIN template[1]

Render(value) ==
    IF "parts" \notin DOMAIN value THEN {value}
    ELSE IF Whole(value.parts) THEN Resolve(value.parts[1])
    ELSE IF \E i \in DOMAIN value.parts : PartText(value.parts[i]) = {} THEN {}
    ELSE {String(FlattenSeq([i \in DOMAIN value.parts |-> CHOOSE text \in PartText(value.parts[i]) : TRUE]))}

RenderAll(values) == [n \in DOMAIN values |-> CHOOSE v \in Render(values[n]) : TRUE]

Fails(values) == \E n \in DOMAIN values : Render(values[n]) = {}

\* A variable without a value, or a header that Step.model_validate finds to be no string
Unusable ==
    \/ Fails(raw.path) \/ Fails(raw.query)
    \/ \E b \in raw.body : Render(b) = {}
    \/ \E n \in DOMAIN raw.header : \A v \in Render(raw.header[n]) : v.t # "string"

\* CaseExecutor.step
RenderStep ==
    /\ stage = "render"
    /\ IF Unusable
       THEN Stop("error") /\ UNCHANGED <<step, todo, path>>
       ELSE /\ step' = [raw EXCEPT !.path = RenderAll(@), !.query = RenderAll(@), !.header = RenderAll(@),
                                   !.body = UNION {Render(b) : b \in @}]
            /\ todo' = params /\ path' = op.path
            /\ stage' = "params" /\ UNCHANGED outcome
    /\ UNCHANGED <<op, raw, params, errors>>

---------------------------------------------------------------------------
(* Contract.request *)

Admits(kind, t) == t \in {kind} \cup {i \in {"integer"} : kind = "number"}

\* What the step gives for a parameter, {} if nothing; the case of a header's name is ignored.
Given(p) ==
    {step[p.in][n] : n \in {m \in DOMAIN step[p.in] :
        IF p.in = "header" THEN LowerCase[m] = LowerCase[p.name] ELSE m = p.name}}

ValueType(p, v) == IF p.in = "header" THEN Coerce(v.text, p.type) ELSE v.t

CheckParameter ==
    /\ stage = "params"
    /\ \E p \in todo :
         /\ todo' = todo \ {p}
         /\ errors' = errors \cup {e \in {"missing"} : Given(p) = {} /\ p.required}
                             \cup {e \in {"schema"} : \E v \in Given(p) : ~Admits(p.type, ValueType(p, v))}
    /\ UNCHANGED <<op, raw, stage, params, step, path, outcome>>

BodyErrors ==
    {e \in {"body"} : \E b \in step.body, kind \in op.body.schema : ~Admits(kind, b.t)}
    \cup {e \in {"undeclared"} : step.body # {} /\ op.body.schema = {}}
    \cup {e \in {"no body"} : step.body = {} /\ op.body.required}

CheckBody ==
    /\ stage = "params" /\ todo = {}
    /\ errors' = errors \cup BodyErrors
    /\ todo' = DOMAIN step.path
    /\ stage' = "path"
    /\ UNCHANGED <<op, raw, params, step, path, outcome>>

Slash == <<"char", "/">>
Dots == {<< <<"char", ".">> >>, << <<"char", ".">>, <<"char", ".">> >>}
Unreserved == {"a", "b", "1", "2", "."}

Percent(piece) == IF piece[1] = "char" THEN <<"%char", piece[2]>> ELSE <<"%hole", piece[2]>>

\* Fault: quote's default keeps slashes.
QuoteDefault(text) ==
    [i \in DOMAIN text |-> IF text[i][1] = "char" /\ text[i][2] \in Unreserved \cup {"/"} THEN text[i] ELSE Percent(text[i])]

Quote(text) ==
    [i \in DOMAIN text |-> IF text[i][1] = "char" /\ text[i][2] \in Unreserved THEN text[i] ELSE Percent(text[i])]

\* One turn of the loop over path_params
Substitute ==
    /\ stage = "path"
    /\ \E key \in todo :
         LET encoded == Quote(step.path[key].text) IN
         /\ todo' = todo \ {key}
         /\ IF encoded \in Dots
            THEN Stop("error") /\ UNCHANGED path
            ELSE /\ path' = FlattenSeq([i \in DOMAIN path |->
                                IF path[i] = <<"hole", key>> THEN encoded ELSE <<path[i]>>])
                 /\ UNCHANGED <<stage, outcome>>
    /\ UNCHANGED <<op, raw, params, step, errors>>

Return ==
    /\ stage = "path" /\ todo = {}
    /\ Stop(IF step.allow \/ errors = {} THEN "sent" ELSE "failed")
    /\ UNCHANGED <<op, raw, params, step, todo, path, errors>>

QInit ==
    /\ op \in Operations /\ raw \in RawSteps
    /\ step = raw
    /\ stage = "load" /\ outcome = "open"
    /\ params = {} /\ todo = {} /\ path = <<>> /\ errors = {}

QNext == Load \/ Preflight \/ RenderStep \/ CheckParameter \/ CheckBody \/ Substitute \/ Return

QSpec == QInit /\ [][QNext]_qvars

---------------------------------------------------------------------------
(* Properties *)

\* Reference: what the operation demands of one of its parameters.  Its own
\* declaration stands for the one it shares with the operations of its path.
Demands(p) ==
    LET ofOwn == \E i \in DOMAIN op.own : op.own[i] = p
        replaced == \E i \in DOMAIN op.own : Key(op.own[i]) = Key(p)
    IN  ofOwn \/ (~replaced /\ \E i \in DOMAIN op.shared : op.shared[i] = p)

\* An integer is a number.
HasType(t, kind) == t = kind \/ (t = "integer" /\ kind = "number")

\* The wire knows texts only; elsewhere a value has the type its template gives it.
Meets(p) ==
    LET given == {n \in DOMAIN step[p.in] : n = p.name \/ (p.in = "header" /\ LowerCase[n] = LowerCase[p.name])}
    IN  /\ p.required => given # {}
        /\ \A n \in given :
             IF p.in = "header"
             THEN p.type = "string" \/ (p.type \in DOMAIN Reads /\ step[p.in][n].text \in Reads[p.type])
             ELSE HasType(step[p.in][n].t, p.type)

Valid ==
    /\ \A i \in DOMAIN op.shared : Demands(op.shared[i]) => Meets(op.shared[i])
    /\ \A i \in DOMAIN op.own : Meets(op.own[i])
    /\ IF step.body = {} THEN ~op.body.required
       ELSE op.body.schema # {} /\ \A b \in step.body, kind \in op.body.schema : HasType(b.t, kind)

\* Reference: the variables of the step's templates have values.
Names(values) == UNION {{values[n].parts[i] : i \in {j \in DOMAIN values[n].parts : "name" \in DOMAIN values[n].parts[j]}}
                        : n \in {m \in DOMAIN values : "parts" \in DOMAIN values[m]}}

Resolved ==
    \A v \in Names(raw.path) \cup Names(raw.query) \cup Names(raw.header) \cup Names([b \in raw.body |-> b]) :
        IF v.env THEN v.name \in DOMAIN Environment ELSE v.name \in DOMAIN Variables

\* What is sent is what the contract declares unless the step asks for an exception,
\* and only what is not declared fails (Contract.request).  Nothing is sent with a
\* variable that has no value, not even a request that may be invalid (render).
SentMeansValid ==
    /\ outcome = "sent" /\ ~step.allow => Valid
    /\ outcome = "failed" => ~Valid
    /\ outcome \in {"sent", "failed"} => Resolved

Separator == <<"between", "segments">>

\* Reference: what a service reads, which takes the path apart at its slashes and only
\* then decodes the segments.
Read(text) ==
    [i \in DOMAIN text |-> CASE text[i] = Slash -> Separator
                             [] text[i][1] = "%char" -> <<"char", text[i][2]>>
                             [] text[i][1] = "%hole" -> <<"hole", text[i][2]>>
                             [] OTHER -> text[i]]

\* Reference: what it is to read for a piece of the contract's path.
Meant(piece) ==
    IF piece = Slash THEN <<Separator>>
    ELSE IF piece[1] = "hole" THEN step.path[piece[2]].text
    ELSE <<piece>>

\* The service finds the segments of the contract's path in the path of the request, each
\* placeholder with exactly the text of its value, whatever that holds (slashes, braces,
\* dots), and in whatever order they were replaced; no value is a segment that a client or
\* a proxy normalizes away (request).
PathIntact ==
    outcome = "sent" =>
        /\ Read(path) = FlattenSeq([i \in DOMAIN op.path |-> Meant(op.path[i])])
        /\ \A n \in Holes(op.path) : step.path[n].text \notin Dots
=============================================================================
