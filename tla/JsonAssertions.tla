---------------------------- MODULE JsonAssertions ----------------------------
(***************************************************************************)
(* json_equals of src/api_sentinel/contracts.py: pointer() walks a JSON    *)
(* document token by token, and response_errors compares what it finds     *)
(* with what was expected, as Python compares.                             *)
(*                                                                         *)
(* A JSON value is the function from its places to what is there: a place  *)
(* is the sequence of the names on the way to it, keys of objects and      *)
(* indices of lists, and a node has its Python type and, if it is a        *)
(* scalar, its content.  Names and tokens are sequences of characters,     *)
(* since escaping is about characters.                                     *)
(***************************************************************************)
EXTENDS Integers, SequencesExt

CONSTANTS
    Characters,                     \* what names and tokens are made of
    Documents, Pointers, Values     \* bodies, pointers as [rooted, tokens], expected values

Strings == Seq(Characters)

\* The pattern of an array index, which admits no sign and no leading zero
Digits == {"0", "1", "2", "3", "4", "5", "6", "7", "8", "9"}
IsIndex(token) == token = <<"0">> \/ (Range(token) \subseteq Digits /\ token # <<>> /\ token[1] # "0")

\* A place is in a list or an object that is in the value too, lists name places by indices.
Json(v) ==
    /\ \A p \in DOMAIN v : p \in Seq(Strings)
    /\ <<>> \in DOMAIN v
    /\ \A p \in DOMAIN v : p # <<>> =>
         Front(p) \in DOMAIN v /\ v[Front(p)].t \in {"list", "dict"} /\ (v[Front(p)].t = "list" => IsIndex(Last(p)))

\* split leaves no / in a token.
PointerAssumption ==
    /\ Digits \cup {"~", "/"} \subseteq Characters
    /\ \A v \in Documents \cup Values : Json(v)
    /\ \A p \in Pointers : p.tokens \in Seq(Strings) /\ \A i \in DOMAIN p.tokens : "/" \notin Range(p.tokens[i])

VARIABLES
    body, pointer, expected,   \* what is given
    current,                   \* the place where pointer() is in the body
    assertion                  \* "walking", or what becomes of the assertion

avars == <<body, pointer, expected, current, assertion>>

---------------------------------------------------------------------------
(* pointer *)

\* str.replace of a followed by b, which differ
Replace(s, a, b, new) ==
    LET done[n \in 0..Len(s)] ==
            IF n = 0 THEN <<>>
            ELSE IF n > 1 /\ s[n - 1] = a /\ s[n] = b THEN done[n - 2] \o <<new>>
            ELSE done[n - 1] \o <<s[n]>>
    IN  done[Len(s)]

\* Fault: ~0 is replaced first.
UnescapeTildeFirst(token) == Replace(Replace(token, "~", "0", "~"), "~", "1", "/")

Unescape(token) == Replace(Replace(token, "~", "1", "/"), "~", "0", "~")

\* The index that int() reads, whose leading zeros do not count.
IndexOf(token) ==
    LET zeros == {i \in 1..(Len(token) - 1) : \A j \in 1..i : token[j] = "0"}
    IN  SubSeq(token, 1 + Cardinality(zeros), Len(token))

\* Where a token leads: one place, or none (ContractError, IndexError, KeyError, TypeError).
Target(token) ==
    IF body[current].t = "list"
    THEN {p \in {Append(current, IndexOf(token))} : IsIndex(token) /\ p \in DOMAIN body}
    ELSE {p \in {Append(current, token)} : p \in DOMAIN body}

Walk ==
    /\ assertion = "walking" /\ pointer.rooted /\ Len(current) < Len(pointer.tokens)
    /\ LET target == Target(Unescape(pointer.tokens[Len(current) + 1])) IN
         \/ current' \in target /\ UNCHANGED assertion
         \/ target = {} /\ assertion' = "missing" /\ UNCHANGED current
    /\ UNCHANGED <<body, pointer, expected>>

\* JSON pointer must start with /
Unrooted ==
    /\ assertion = "walking" /\ ~pointer.rooted
    /\ assertion' = "missing"
    /\ UNCHANGED <<body, pointer, expected, current>>

---------------------------------------------------------------------------
(* The comparison in response_errors *)

IsNumber(node) == node.t \in {"bool", "int", "float"}

Same(a, b) == a.t = b.t /\ a = b

\* ==, for which True, 1 and 1.0 are one number
NodesEqual(a, b) == (IsNumber(a) /\ IsNumber(b) /\ a.val = b.val) \/ Same(a, b)

PyEqual(a, b) == DOMAIN a = DOMAIN b /\ \A p \in DOMAIN a : NodesEqual(a[p], b[p])

\* The value at the current place
Actual ==
    LET below == {p \in DOMAIN body : Len(p) >= Len(current) /\ SubSeq(p, 1, Len(current)) = current}
    IN  [q \in {SubSeq(p, Len(current) + 1, Len(p)) : p \in below} |-> body[current \o q]]

Matches(actual, wanted) == actual[<<>>].t = wanted[<<>>].t /\ PyEqual(actual, wanted)

Compare ==
    /\ assertion = "walking" /\ pointer.rooted /\ Len(current) = Len(pointer.tokens)
    /\ assertion' = IF Matches(Actual, expected) THEN "holds" ELSE "mismatch"
    /\ UNCHANGED <<body, pointer, expected, current>>

AInit ==
    /\ body \in Documents /\ pointer \in Pointers /\ expected \in Values
    /\ current = <<>>
    /\ assertion = "walking"

ANext == Walk \/ Unrooted \/ Compare

ASpec == AInit /\ [][ANext]_avars

---------------------------------------------------------------------------
(* Properties *)

Escaped(char) == IF char = "~" THEN <<"~", "0">> ELSE IF char = "/" THEN <<"~", "1">> ELSE <<char>>

\* Reference: the token for a name (RFC 6901), and the tokens for a place.
Escape(name) ==
    LET escaped[n \in 0..Len(name)] ==
            IF n = 0 THEN <<>>
            ELSE escaped[n - 1] \o Escaped(name[n])
    IN  escaped[Len(name)]

Tokens(place) == [i \in DOMAIN place |-> Escape(place[i])]

\* An RFC 6901 pointer has no ~ but in ~0 and ~1.
WellFormed(token) ==
    \A i \in DOMAIN token : token[i] = "~" => i < Len(token) /\ token[i + 1] \in {"0", "1"}

Wanted == pointer.rooted /\ \A i \in DOMAIN pointer.tokens : WellFormed(pointer.tokens[i])

\* Reference: the places that the pointer names.
Places == {p \in DOMAIN body : Tokens(p) = pointer.tokens}

\* Reference: the same but for the way a number is written.
Alike(a, b) == IF {a.t, b.t} \subseteq {"bool", "int", "float"} THEN a.val = b.val ELSE Same(a, b)

\* A pointer finds the value whose place it names and nothing else: keys with / and ~ in
\* them, indices with a leading zero, tokens for scalars.  An assertion that holds is right
\* about everything a longer pointer can name, up to how numbers inside of the value are
\* written; one that is a mismatch is wrong about something (pointer, response_errors).
AssertionsSound ==
    /\ assertion = "missing" /\ Wanted => Places = {}
    /\ assertion = "holds" /\ Wanted =>
         /\ \E p \in Places : body[p].t = expected[<<>>].t
         /\ \A q \in DOMAIN expected : \E p \in DOMAIN body :
                Tokens(p) = pointer.tokens \o Tokens(q) /\ Alike(body[p], expected[q])
         /\ \A p \in DOMAIN body : IsPrefix(pointer.tokens, Tokens(p)) =>
                \E q \in DOMAIN expected : Tokens(p) = pointer.tokens \o Tokens(q)
    /\ assertion = "mismatch" /\ Wanted =>
         /\ Places # {}
         /\ \/ \E q \in DOMAIN expected : \A p \in DOMAIN body :
                   Tokens(p) = pointer.tokens \o Tokens(q) => ~Same(body[p], expected[q])
            \/ \E p \in DOMAIN body : IsPrefix(pointer.tokens, Tokens(p)) /\
                   \A q \in DOMAIN expected : Tokens(p) # pointer.tokens \o Tokens(q)

\* docs/SUITES.md:17 "Map of RFC 6901 JSON Pointers to required values. Types
\* are compared strictly."
TypesStrict == assertion = "holds" => Actual = expected
=============================================================================
