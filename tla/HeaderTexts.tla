----------------------------- MODULE HeaderTexts -----------------------------
(***************************************************************************)
(* How src/api_sentinel/contracts.py reads headers, of requests and of     *)
(* responses: names count in lower case, and coerce makes of a text a      *)
(* value of the type that the contract wants, if it can.                   *)
(***************************************************************************)

CONSTANTS
    LowerCase,   \* header names in lower case
    Reads        \* for a scalar type, the texts int(), float() or lower() can read as it

\* The type of the value that coerce returns: a text it cannot read stays a string.
Coerce(text, kind) == IF kind \in DOMAIN Reads /\ text \in Reads[kind] THEN kind ELSE "string"
=============================================================================
