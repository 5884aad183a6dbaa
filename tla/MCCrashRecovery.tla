--------------------------- MODULE MCCrashRecovery ---------------------------
(* The drill with one case, as the script cuts the suite. *)
EXTENDS CrashRecovery

MCPosition == [c \in Cases |-> c]
MCSuites == {Cases}
MCLastStart == [k \in Coordinators |-> 0]

ASSUME Drill == DrillAssumption
=============================================================================
