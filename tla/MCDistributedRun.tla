-------------------------- MODULE MCDistributedRun --------------------------
(* Small instances of DistributedRun for TLC. *)
EXTENDS DistributedRun, TLC

MCPosition == [c \in Cases |-> c]
MCSuites == {Cases}
MCTwoStatuses == {"passed", "error"}

\* The run is submitted at once; a second submission comes then, or as late as
\* when the keys of the first run have expired.
AtOnce == [k \in Coordinators |-> 1]
OneLater == [k \in Coordinators |-> IF k = CHOOSE first \in Coordinators : TRUE THEN 1 ELSE 4]

\* Workers run the same program, and so do the threads of a pool.
MCSymmetry == Permutations(Workers) \cup Permutations(Threads)
=============================================================================
