----------------------------- MODULE MCRunQueue -----------------------------
(* A small instance of RunQueue for TLC. *)
EXTENDS RunQueue

\* Suite order against ID order, so that ties between reclaimed cases matter.
MCPosition == [c \in Cases |-> 1 + Cardinality({d \in Cases : d > c})]

\* The second suite may differ from the first.
MCSuites == {{1}, Cases}
=============================================================================
