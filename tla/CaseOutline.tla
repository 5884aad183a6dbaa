------------------------------ MODULE CaseOutline ------------------------------
(***************************************************************************)
(* What CaseExecutor.run promises the worker that calls it, in the two     *)
(* steps a case is in DistributedRun: setup and test come to a verdict,    *)
(* then the teardown may make it worse.  Once the case has noticed that    *)
(* its lease is lost it is cut short: nothing passes any more.             *)
(***************************************************************************)
CONSTANT HasTeardown    \* the case has teardown steps

VARIABLES
    stage,      \* "steps", "teardown", "done"
    verdict,    \* status of the case so far
    cut         \* the loss of the lease has been noticed

ovars == <<stage, verdict, cut>>

Outcomes == IF cut THEN {"failed", "error"} ELSE {"passed", "failed", "error"}

Worse(a, b) ==
    IF "error" \in {a, b} THEN "error" ELSE IF "failed" \in {a, b} THEN "failed" ELSE "passed"

\* A loss is noticed at any time, also while a verdict is reached, and for good.
MayNotice == cut' \in {cut, TRUE}

RunSteps ==
    /\ stage = "steps"
    /\ verdict' \in Outcomes
    /\ stage' = IF HasTeardown THEN "teardown" ELSE "done"
    /\ MayNotice

CleanUp ==
    /\ stage = "teardown"
    /\ \E outcome \in Outcomes : verdict' = Worse(verdict, outcome)
    /\ stage' = "done"
    /\ MayNotice

Notice == cut' = TRUE /\ UNCHANGED <<stage, verdict>>

Init == stage = "steps" /\ verdict = "passed" /\ cut \in BOOLEAN

Next == RunSteps \/ CleanUp \/ Notice

Spec == Init /\ [][Next]_ovars
=============================================================================
