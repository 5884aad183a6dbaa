------------------------------ MODULE RunQueue ------------------------------
(***************************************************************************)
(* The run queue of src/api_sentinel/queue.py: the seven Redis keys of one *)
(* run ID and the five Lua scripts that read and write them.  Redis runs a *)
(* script without interleaving, so a script is one action.                 *)
(*                                                                         *)
(* The clients are left as general as possible.  Every job a claim ever    *)
(* handed out stays in `issued', and any of them may be renewed or         *)
(* completed at any time, any number of times and in any order: that is a  *)
(* worker that is slow, paused, superseded or left over from an earlier    *)
(* run with the same ID.  DistributedRun composes the same scripts with    *)
(* the real workers and the coordinator.                                   *)
(***************************************************************************)
EXTENDS Integers, FiniteSets

CONSTANTS
    Cases,          \* case IDs, compared as Redis compares members of equal score
    Position,       \* place of a case in the suite, the score CREATE gives it
    Suites,         \* the case sets a run may be created with
    Statuses,       \* statuses of a CaseResult a worker may submit
    MaxDeliveries,  \* the run's max_deliveries
    ScanLimit,      \* 100 in CLAIM: leases reclaimed and cases popped per call
    LeaseTimes,     \* lease durations workers ask for, in ticks
    RunTimeouts,    \* int(timeout * 1000) of a run, in ticks; it may truncate to 0
    Retention,      \* time the keys outlive the deadline
    MaxTime,        \* bound on the clock
    MaxRuns         \* bound on how often the run ID is created

ASSUME CasesAssumption ==
    /\ Cases \subseteq Nat
    /\ IsFiniteSet(Cases)
    /\ Position \in [Cases -> Nat \ {0}]
    /\ Suites \subseteq (SUBSET Cases) \ {{}}

ASSUME SettingsAssumption ==
    /\ MaxDeliveries \in Nat \ {0}
    /\ ScanLimit \in Nat \ {0}
    /\ LeaseTimes \subseteq Nat \ {0}
    /\ RunTimeouts \subseteq Nat
    /\ Retention \in Nat \ {0}
    /\ MaxTime \in Nat
    /\ MaxRuns \in Nat

VARIABLES
    now,        \* Redis TIME
    meta,       \* key meta: state, deadline and expiry of the run
    tasks,      \* key tasks: the cases of the run
    ready,      \* key ready: score of an available case, or Absent
    leases,     \* key leases: when the lease of a claimed case ends, 0 without one
    owners,     \* key owners: ownership token of a claimed case, or NoToken
    attempts,   \* key attempts: deliveries so far
    results,    \* key results: the terminal result, or NoResult
    volatile,   \* the keys that carry the run's expiry (PEXPIREAT)
    run,        \* how often the run ID has been created
    minted,     \* uuid4 tokens handed out so far
    issued      \* every job a claim has returned

store   == <<meta, tasks, ready, leases, owners, attempts, results, volatile>>
history == <<run, minted, issued>>
qvars   == <<now, store, history>>

Absent   == -1
NoToken  == 0
NoRun    == [state |-> "none", deadline |-> 0, expires |-> 0]
NoResult == [status |-> "none", token |-> NoToken, delivery |-> 0, run |-> 0]

Keys == {"meta", "tasks", "ready", "leases", "owners", "attempts", "results"}

\* queue.Job; `run' is not in the code and tells apart runs that reuse the ID.
Job    == [case : Cases, token : Nat \ {0}, delivery : Nat \ {0}, run : Nat]
\* The part of CaseResult the queue's users look at.
Result == [status : Statuses \cup {"error"}, token : Nat, delivery : Nat, run : Nat]

---------------------------------------------------------------------------
(* Helpers of the scripts *)

\* The test `state is open and deadline after now' shared by the scripts.
Active == meta.state = "open" /\ meta.deadline > now

\* Order of a sorted set: by score, members of equal score by ID.
Ahead(score, c, d) == score[c] < score[d] \/ (score[c] = score[d] /\ c < d)

\* The first k members of S in the order of a sorted set.
FirstOf(S, score, k) ==
    {c \in S : Cardinality({d \in S : Ahead(score, d, c)}) < k}

KeyExists(k) ==
    \/ k = "meta"     /\ meta # NoRun
    \/ k = "tasks"    /\ tasks # {}
    \/ k = "ready"    /\ \E c \in Cases : ready[c] # Absent
    \/ k = "leases"   /\ \E c \in Cases : leases[c] # 0
    \/ k = "owners"   /\ \E c \in Cases : owners[c] # NoToken
    \/ k = "attempts" /\ \E c \in Cases : attempts[c] # 0
    \/ k = "results"  /\ \E c \in Cases : results[c] # NoResult

\* Redis drops a collection with its last member, and its expiry with it.
ExistingKeys == {k \in Keys : KeyExists(k)}

\* Fault: touch() at the head of a script, before the writes create their keys.
TouchFirst == volatile' = ExistingKeys
\* touch(): every key the script leaves behind gets the run's expiry.
Touch == volatile' = ExistingKeys'

---------------------------------------------------------------------------
(* CREATE *)

SubmitRun(suite, timeout) ==
    /\ run < MaxRuns
    /\ meta' = [state |-> "open", deadline |-> now + timeout,
                expires |-> now + timeout + Retention]
    /\ tasks' = tasks \cup suite
    /\ ready' = [c \in Cases |-> IF c \in suite THEN Position[c] ELSE ready[c]]
    /\ run' = run + 1
    /\ UNCHANGED <<now, leases, owners, attempts, results, minted, issued>>
    /\ Touch

Create(suite, timeout) == meta = NoRun /\ SubmitRun(suite, timeout)

---------------------------------------------------------------------------
(* CLAIM: reclaim expired leases, discard cases whose deliveries are spent, *)
(* lease the first one left.                                                *)

\* Fault: a lease is taken for expired one tick early.
ReclaimedEarly ==
    FirstOf({c \in Cases : leases[c] # 0 /\ leases[c] <= now + 1}, leases, ScanLimit)

\* Fault: expired leases stay with their owners.
ReclaimedNever == {}

Reclaimed ==
    FirstOf({c \in Cases : leases[c] # 0 /\ leases[c] <= now}, leases, ScanLimit)

\* Fault: reclaimed cases are queued by the time of the reclaim.
ScoreByTime == [c \in Cases |->
                IF c \in Reclaimed /\ results[c] = NoResult THEN now ELSE ready[c]]

\* Scores once the expired leases are back in front of the ready set.
Score == [c \in Cases |->
            IF c \in Reclaimed /\ results[c] = NoResult THEN 0 ELSE ready[c]]

Waiting == {c \in Cases : Score[c] # Absent}
Popped  == FirstOf(Waiting, Score, ScanLimit)

\* Fault: one delivery too many.
SpentLate(c) == attempts[c] > MaxDeliveries

\* HINCRBY takes the delivery count over the limit.
Spent(c) == attempts[c] + 1 > MaxDeliveries

\* Cases popped before the first one that may still be delivered.
Discarded == {c \in Popped : Spent(c) /\ \A d \in Waiting : Ahead(Score, d, c) => Spent(d)}
\* That first one, if the loop reaches it.
Granted   == {c \in Popped : ~Spent(c) /\ \A d \in Waiting : Ahead(Score, d, c) => Spent(d)}

\* HINCRBY of every case popped.
CountDeliveries ==
    [c \in Cases |-> IF c \in Discarded \cup Granted THEN attempts[c] + 1 ELSE attempts[c]]

LimitExhausted(c) ==
    [status |-> "error", token |-> NoToken, delivery |-> attempts[c], run |-> run]

ClaimScript(token, lease) ==
    /\ Active
    /\ ready' = [c \in Cases |->
                    IF c \in Discarded \cup Granted THEN Absent ELSE Score[c]]
    /\ leases' = [c \in Cases |->
                    IF c \in Granted THEN now + lease
                    ELSE IF c \in Reclaimed THEN 0 ELSE leases[c]]
    /\ owners' = [c \in Cases |->
                    IF c \in Granted THEN token
                    ELSE IF c \in Reclaimed THEN NoToken ELSE owners[c]]
    /\ attempts' = CountDeliveries
    /\ results' = [c \in Cases |->
                    IF c \in Discarded THEN LimitExhausted(c) ELSE results[c]]
    /\ UNCHANGED <<now, meta, tasks, run>>
    /\ Touch

\* RunQueue.claim returns a job for case c.
ClaimJob(c, lease) ==
    /\ c \in Granted
    /\ ClaimScript(minted + 1, lease)
    /\ minted' = minted + 1
    /\ issued' = issued \cup {[case |-> c, token |-> minted + 1,
                               delivery |-> attempts'[c], run |-> run]}

\* RunQueue.claim returns None although the run is active.
ClaimNone(lease) ==
    /\ Granted = {}
    /\ ClaimScript(minted + 1, lease)
    /\ UNCHANGED <<minted, issued>>

---------------------------------------------------------------------------
(* RENEW, COMPLETE and CLOSE *)

\* Fault: the token is not compared.
OwnsAnyToken(job) == Active /\ leases[job.case] > now
\* The three tests RENEW and COMPLETE open with.
Owns(job) ==
    /\ Active
    /\ owners[job.case] = job.token
    /\ leases[job.case] > now

Renew(job, lease) ==
    /\ Owns(job)
    /\ leases' = [leases EXCEPT ![job.case] = now + lease]
    /\ UNCHANGED <<now, meta, tasks, ready, owners, attempts, results, history>>
    /\ Touch

SetResult(job, status) ==
    results' = [results EXCEPT ![job.case] =
                  [status |-> status, token |-> job.token,
                   delivery |-> job.delivery, run |-> job.run]]

\* Fault: the owner's token is left behind.
CompleteKeepsOwner(job, status) ==
    /\ Owns(job)
    /\ results[job.case] = NoResult
    /\ SetResult(job, status)
    /\ leases' = [leases EXCEPT ![job.case] = 0]
    /\ UNCHANGED <<now, meta, tasks, ready, owners, attempts, history>>
    /\ Touch

\* The token and the run in the result are history, CaseResult has neither.
Complete(job, status) ==
    /\ Owns(job)
    /\ results[job.case] = NoResult
    /\ SetResult(job, status)
    /\ owners' = [owners EXCEPT ![job.case] = NoToken]
    /\ leases' = [leases EXCEPT ![job.case] = 0]
    /\ UNCHANGED <<now, meta, tasks, ready, attempts, history>>
    /\ Touch

Close ==
    /\ meta # NoRun
    /\ meta' = [meta EXCEPT !.state = "closed"]
    /\ UNCHANGED <<now, tasks, ready, leases, owners, attempts, results, volatile, history>>

---------------------------------------------------------------------------
(* The clock, and the expiry Redis applies to the volatile keys *)

Outlived == meta # NoRun /\ now + 1 > meta.expires

Tick ==
    /\ now < MaxTime
    /\ ~Outlived
    /\ now' = now + 1
    /\ UNCHANGED <<store, history>>

ExpireKeys ==
    /\ now < MaxTime
    /\ Outlived
    /\ now' = now + 1
    /\ meta' = IF "meta" \in volatile THEN NoRun ELSE meta
    /\ tasks' = IF "tasks" \in volatile THEN {} ELSE tasks
    /\ ready' = IF "ready" \in volatile THEN [c \in Cases |-> Absent] ELSE ready
    /\ leases' = IF "leases" \in volatile THEN [c \in Cases |-> 0] ELSE leases
    /\ owners' = IF "owners" \in volatile THEN [c \in Cases |-> NoToken] ELSE owners
    /\ attempts' = IF "attempts" \in volatile THEN [c \in Cases |-> 0] ELSE attempts
    /\ results' = IF "results" \in volatile THEN [c \in Cases |-> NoResult] ELSE results
    /\ volatile' = {}
    /\ UNCHANGED history

---------------------------------------------------------------------------
Init ==
    /\ now = 1
    /\ meta = NoRun
    /\ tasks = {}
    /\ ready = [c \in Cases |-> Absent]
    /\ leases = [c \in Cases |-> 0]
    /\ owners = [c \in Cases |-> NoToken]
    /\ attempts = [c \in Cases |-> 0]
    /\ results = [c \in Cases |-> NoResult]
    /\ volatile = {}
    /\ run = 0
    /\ minted = 0
    /\ issued = {}

Next ==
    \/ \E suite \in Suites, timeout \in RunTimeouts : Create(suite, timeout)
    \/ \E c \in Cases, lease \in LeaseTimes : ClaimJob(c, lease)
    \/ \E lease \in LeaseTimes : ClaimNone(lease)
    \/ \E job \in issued, lease \in LeaseTimes : Renew(job, lease)
    \/ \E job \in issued, status \in Statuses : Complete(job, status)
    \/ Close
    \/ Tick
    \/ ExpireKeys

Spec == Init /\ [][Next]_qvars
---------------------------------------------------------------------------
(* Properties *)

\* Type invariant of the store and the history.
TypeOK ==
    /\ now \in Nat \ {0}
    /\ meta \in [state : {"none", "open", "closed"}, deadline : Nat, expires : Nat]
    /\ tasks \subseteq Cases
    /\ ready \in [Cases -> Nat \cup {Absent}]
    /\ leases \in [Cases -> Nat]
    /\ owners \in [Cases -> Nat]
    /\ attempts \in [Cases -> Nat]
    /\ results \in [Cases -> Result \cup {NoResult}]
    /\ volatile \subseteq Keys
    /\ run \in Nat
    /\ minted \in Nat
    /\ issued \subseteq Job

InReady(c)  == ready[c] # Absent
Leased(c)   == leases[c] # 0
Finished(c) == results[c] # NoResult

\* No case is lost and none is in two places: each case of the run is either
\* available, leased or finished, a case has an owner exactly while it is
\* leased, and no key mentions a case that is not part of the run (CLAIM's
\* moves between ready, leases and results, COMPLETE's removal of the lease).
OnePlace ==
    \A c \in Cases :
        /\ Leased(c) <=> owners[c] # NoToken
        /\ ~(InReady(c) /\ Leased(c))
        /\ ~(Finished(c) /\ (InReady(c) \/ Leased(c)))
        /\ c \in tasks <=> (InReady(c) \/ Leased(c) \/ Finished(c))

\* Fencing: the terminal result of a case comes from its latest delivery.  A
\* worker whose job was handed to somebody else never has its result accepted.
LatestDeliveryWins ==
    \A c \in Cases : \A job \in issued :
        Finished(c) /\ job.case = c /\ job.run = run
            => /\ job.delivery <= results[c].delivery
               /\ job.delivery = results[c].delivery /\ results[c].token # NoToken
                    => job.token = results[c].token

\* The fixture namespace of a delivery is derived from run ID, case and delivery
\* number (executor.py): no two jobs of a run share it.
NamespacesDistinct ==
    \A j, k \in issued :
        j.run = k.run /\ j.case = k.case /\ j.delivery = k.delivery => j = k

\* The queue gives a case up only after handing out every delivery it may have,
\* and never hands out more.
GivenUpOnlyWhenSpent ==
    /\ \A job \in issued : job.delivery <= MaxDeliveries
    /\ \A c \in Cases :
          Finished(c) /\ results[c].token = NoToken
            => \A d \in 1..MaxDeliveries :
                  \E job \in issued : job.case = c /\ job.run = run /\ job.delivery = d

\* Every key of the run carries the run's expiry, however late it was created
\* or re-created, so that no key outlives the run.
KeysExpire == ExistingKeys \subseteq volatile

\* A run created under a used ID starts from nothing: every delivery count and
\* every result in the store belongs to the current run.
CleanRun ==
    \A c \in Cases :
        /\ Finished(c) => results[c].run = run
        /\ attempts[c] # 0 => \E job \in issued : job.case = c /\ job.run = run

Forgotten == meta # NoRun /\ meta' = NoRun

\* A terminal result is never changed or removed before the run's keys expire.
ResultFinal ==
    [][\A c \in Cases : Finished(c) => results'[c] = results[c] \/ Forgotten]_qvars

\* While a lease is live nobody but its holder ends it, and only by delivering
\* the accepted result: neither another claim nor another completion can.  Once it
\* has lapsed its holder can neither extend it nor deliver, only lose it.
LeaseProtects ==
    [][\A c \in Cases :
          /\ leases[c] > now /\ owners'[c] # owners[c]
               => Forgotten \/ (~Finished(c) /\ results'[c].token = owners[c])
          /\ leases[c] \in 1..now /\ leases'[c] # leases[c]
               => owners'[c] # owners[c] /\ results'[c].token = NoToken]_qvars

\* Reclaimed work has priority: a claim hands out a first delivery only when no
\* case is left waiting for a further one.
ReclaimedFirst ==
    [][\A job \in issued' \ issued :
          job.delivery = 1 => \A c \in Cases : ready'[c] # Absent => attempts'[c] = 0]_qvars

\* A run that is closed or past its deadline stays over: it accepts nothing and
\* hands out nothing, until its keys expire and the ID is created again.
OverIsFinal ==
    [][~Active /\ run' = run
          => /\ ~Active'
             /\ issued' = issued
             /\ results' = results \/ Forgotten]_qvars

---------------------------------------------------------------------------
(* The queue implements the ledger *)

Phase == IF meta = NoRun THEN "none" ELSE IF Active THEN "open" ELSE "over"

LedgerLine(r) ==
    [by |-> IF r = NoResult THEN "nobody" ELSE IF r.token = NoToken THEN "queue" ELSE "worker",
     delivery |-> r.delivery, status |-> r.status]

Ledger == INSTANCE ResultLedger WITH
    phase <- Phase,
    delivered <- [c \in Cases |-> IF attempts[c] > MaxDeliveries THEN MaxDeliveries ELSE attempts[c]],
    outcome <- [c \in Cases |-> LedgerLine(results[c])]

\* Every behaviour of the scripts, under any clients, is one of the ledger.
ImplementsLedger == Ledger!Spec
=============================================================================
