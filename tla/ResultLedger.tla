---------------------------- MODULE ResultLedger ----------------------------
(***************************************************************************)
(* What the run queue promises, without keys, scores, tokens or a clock:   *)
(* a ledger with one line per case.  While the run is open a case is       *)
(* delivered at most MaxDeliveries times, one case per call; its line is   *)
(* closed once, either with the result of its latest delivery or, when     *)
(* every delivery is spent, with the queue's own error.  A closed line is  *)
(* never rewritten, and nothing is written once the run is over.           *)
(***************************************************************************)
EXTENDS Integers

CONSTANTS Cases, MaxDeliveries, Statuses

VARIABLES
    phase,      \* "none", "open" or "over"
    delivered,  \* deliveries of each case
    outcome     \* the closed line of each case, or Pending

lvars == <<phase, delivered, outcome>>

Pending == [by |-> "nobody", delivery |-> 0, status |-> "none"]
GivenUp == [by |-> "queue", delivery |-> MaxDeliveries, status |-> "error"]
Reported(d, s) == [by |-> "worker", delivery |-> d, status |-> s]

Same(c) == delivered'[c] = delivered[c] /\ outcome'[c] = outcome[c]

Deliver(c) ==
    /\ outcome[c] = Pending
    /\ delivered[c] < MaxDeliveries
    /\ delivered'[c] = delivered[c] + 1
    /\ outcome'[c] = outcome[c]

Accept(c) ==
    /\ outcome[c] = Pending
    /\ delivered[c] > 0
    /\ \E s \in Statuses : outcome'[c] = Reported(delivered[c], s)
    /\ delivered'[c] = delivered[c]

GiveUp(c) ==
    /\ outcome[c] = Pending
    /\ delivered[c] = MaxDeliveries
    /\ outcome'[c] = GivenUp
    /\ delivered'[c] = delivered[c]

Blank ==
    /\ delivered = [c \in Cases |-> 0]
    /\ outcome = [c \in Cases |-> Pending]

Init == phase = "none" /\ Blank

Begin ==
    /\ phase = "none"
    /\ phase' \in {"open", "over"}
    /\ UNCHANGED <<delivered, outcome>>

\* One call: at most one case is delivered or accepted, others may be given up.
Serve ==
    /\ phase = "open"
    /\ \E s \in Cases :
          /\ Same(s) \/ Deliver(s) \/ Accept(s) \/ GiveUp(s)
          /\ \A c \in Cases \ {s} : Same(c) \/ GiveUp(c)
    /\ UNCHANGED phase

End ==
    /\ phase = "open"
    /\ phase' = "over"
    /\ UNCHANGED <<delivered, outcome>>

\* The keys of the run have expired.
Forget ==
    /\ phase # "none"
    /\ phase' = "none"
    /\ delivered' = [c \in Cases |-> 0]
    /\ outcome' = [c \in Cases |-> Pending]

Next == Begin \/ Serve \/ End \/ Forget

Spec == Init /\ [][Next]_lvars
=============================================================================
