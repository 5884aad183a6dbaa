--------------------------- MODULE DistributedRun ---------------------------
(***************************************************************************)
(* A distributed run: the coordinator of src/api_sentinel/coordinator.py   *)
(* and the workers of src/api_sentinel/worker.py around the run queue.  A  *)
(* worker is a main thread, a heartbeat thread and its slots (the threads  *)
(* of its pool, each in consume()).  They share the worker's stop and      *)
(* error flags, its table of active jobs and one lost-lease flag per       *)
(* job; everything else they know of each other goes through Redis.        *)
(*                                                                         *)
(* A Redis command takes effect in one step.  A command that raises        *)
(* RedisError may have taken effect or not: redis-py is set to no retries. *)
(* Threads and processes run at any speed, so a lease may lapse between    *)
(* any two steps of its holder.                                            *)
(***************************************************************************)
EXTENDS RunQueue

CONSTANTS
    Coordinators,   \* submissions of the run ID
    Workers,        \* worker processes
    Threads,        \* threads of a worker's pool
    Suite,          \* cases of the suite
    Timeout,        \* run timeout
    Lease,          \* lease_seconds
    Wait,           \* wait_seconds: how long a worker waits for the plan
    LastStart,      \* bound on when a coordinator submits the run
    MaxFaults       \* bound on RedisErrors, kills, signals and interrupts

ASSUME RunAssumption ==
    /\ Suite \in Suites
    /\ Timeout \in RunTimeouts
    /\ Lease \in LeaseTimes
    /\ Threads # {}
    /\ Wait \in Nat
    /\ LastStart \in [Coordinators -> Nat]
    /\ MaxFaults \in Nat
    /\ {"passed", "error"} \subseteq Statuses
    /\ Statuses \subseteq {"passed", "failed", "error"}

VARIABLES
    wstate,     \* process of a worker: waiting, running, exited or dead
    stop,       \* Worker.stop
    error,      \* Worker.error is set, or run() has raised: exit code 2
    beat,       \* jobs the heartbeat has still to renew in this round
    lost,       \* tokens whose lost-lease flag is set
    pc,         \* where a slot is in consume()
    job,        \* its last job
    verdict,    \* status of the case so far
    cpc,        \* where a coordinator is in distributed_run()
    cdeadline,  \* when it gives up, by its own clock
    cresults,   \* the results it read last
    cerror,     \* its infrastructure error, or "none"
    crun,       \* history: which creation of the run ID is its own, 0 for none
    faults      \* RedisErrors, kills, signals and interrupts so far

wvars == <<wstate, stop, error, beat, lost>>
svars == <<pc, job, verdict>>
cvars == <<cpc, cdeadline, cresults, cerror, crun>>
dvars == <<qvars, wvars, svars, cvars, faults>>

Slots == Workers \X Threads
WorkerOf(s) == s[1]
SlotsOf(w) == {s \in Slots : WorkerOf(s) = w}

NoJob == [case |-> 0, token |-> NoToken, delivery |-> 0, run |-> 0]

\* A slot with a job in Worker.active.
Busy(s) == pc[s] \in {"steps", "teardown", "complete"}
Alive(w) == wstate[w] \in {"waiting", "running"}

Fault == faults < MaxFaults /\ faults' = faults + 1

\* A command A that raises RedisError, after it took effect or before.
Failing(A) == Fault /\ (A \/ UNCHANGED qvars)

\* RunQueue.count: HLEN of the results
Count == Cardinality({c \in Cases : Finished(c)})

Goto(s, label) == pc' = [pc EXCEPT ![s] = label]

---------------------------------------------------------------------------
(* Worker.run *)

\* HGET of the payload finds the plan; heartbeat and slots start.
PlanArrives(w) ==
    /\ wstate[w] = "waiting"
    /\ meta # NoRun
    /\ wstate' = [wstate EXCEPT ![w] = "running"]
    /\ pc' = [s \in Slots |-> IF s \in SlotsOf(w) THEN "top" ELSE pc[s]]
    /\ UNCHANGED <<qvars, stop, error, beat, lost, job, verdict, cvars, faults>>

GiveUpWaiting(w) ==
    /\ wstate[w] = "waiting"
    /\ wstate' = [wstate EXCEPT ![w] = "exited"]
    /\ error' = [error EXCEPT ![w] = TRUE]
    /\ UNCHANGED <<qvars, stop, beat, lost, svars, cvars>>

\* TimeoutError, or stop without a plan: exit code 2.  The plan may have come
\* since the worker last looked.
PlanTimeout(w) ==
    /\ stop[w] \/ now >= Wait
    /\ GiveUpWaiting(w)
    /\ UNCHANGED faults

\* A plan for another target, or one the contract does not validate.
PlanRefused(w) == meta # NoRun /\ GiveUpWaiting(w) /\ UNCHANGED faults

PlanError(w) == Failing(UNCHANGED qvars) /\ GiveUpWaiting(w)

\* All slots have returned; the heartbeat is stopped and joined.
WorkerExit(w) ==
    /\ wstate[w] = "running"
    /\ \A s \in SlotsOf(w) : pc[s] = "off"
    /\ wstate' = [wstate EXCEPT ![w] = "exited"]
    /\ beat' = [beat EXCEPT ![w] = {}]
    /\ UNCHANGED <<qvars, stop, error, lost, svars, cvars, faults>>

\* SIGINT or SIGTERM.
StopSignal(w) ==
    /\ Alive(w)
    /\ ~stop[w]
    /\ Fault
    /\ stop' = [stop EXCEPT ![w] = TRUE]
    /\ UNCHANGED <<qvars, wstate, error, beat, lost, svars, cvars>>

\* The process ends with whatever it was doing and all it knew.
Dies(w) ==
    /\ wstate' = [wstate EXCEPT ![w] = "dead"]
    /\ beat' = [beat EXCEPT ![w] = {}]
    /\ lost' = lost \ {job[s].token : s \in SlotsOf(w)}
    /\ pc' = [s \in Slots |-> IF s \in SlotsOf(w) THEN "off" ELSE pc[s]]
    /\ job' = [s \in Slots |-> IF s \in SlotsOf(w) THEN NoJob ELSE job[s]]
    /\ verdict' = [s \in Slots |-> IF s \in SlotsOf(w) THEN "passed" ELSE verdict[s]]
    /\ UNCHANGED <<qvars, stop, error, cvars>>

WorkerCrash(w) == Alive(w) /\ Fault /\ Dies(w)

---------------------------------------------------------------------------
(* Worker.heartbeat *)

\* The copy of Worker.active taken under the lock.
BeatStart(w) ==
    /\ wstate[w] = "running"
    /\ beat[w] = {}
    /\ \E s \in SlotsOf(w) : Busy(s)
    /\ beat' = [beat EXCEPT ![w] = {job[s] : s \in {t \in SlotsOf(w) : Busy(t)}}]
    /\ UNCHANGED <<qvars, wstate, stop, error, lost, svars, cvars, faults>>

Executing(j) == \E s \in Slots : Busy(s) /\ job[s] = j

\* Fault: a refusal sets the flag of every job of the round.
RefusedMarksAll(w, j) ==
    lost' = lost \cup {k.token : k \in {l \in beat[w] \cup {j} : Executing(l)}}

\* lost.set(), which is of no consequence once the job has left Worker.active.
BeatMarks(w, j) == lost' = IF Executing(j) THEN lost \cup {j.token} ELSE lost

\* Fault: the lease is extended without the tests of the script.
RenewBlind(j) ==
    /\ leases' = [leases EXCEPT ![j.case] = now + Lease]
    /\ UNCHANGED <<now, meta, tasks, ready, owners, attempts, results, history>>
    /\ Touch

RenewJob(j) == Renew(j, Lease)

BeatRenew(w, j) ==
    /\ wstate[w] = "running"
    /\ j \in beat[w]
    /\ beat' = [beat EXCEPT ![w] = @ \ {j}]
    /\ \/ RenewJob(j) /\ UNCHANGED <<lost, stop, error, faults>>
       \/ ~Owns(j) /\ BeatMarks(w, j) /\ UNCHANGED <<qvars, stop, error, faults>>
       \/ /\ Failing(RenewJob(j))
          /\ BeatMarks(w, j)
          /\ error' = [error EXCEPT ![w] = TRUE]
          /\ stop' = [stop EXCEPT ![w] = TRUE]
    /\ UNCHANGED <<wstate, svars, cvars>>

---------------------------------------------------------------------------
(* Worker.consume *)

Running(s) == wstate[WorkerOf(s)] = "running"

\* RedisError in a slot: the worker stops and the slot returns.
SlotFails(s, A) ==
    /\ Failing(A)
    /\ error' = [error EXCEPT ![WorkerOf(s)] = TRUE]
    /\ stop' = [stop EXCEPT ![WorkerOf(s)] = TRUE]
    /\ Goto(s, "off")
    /\ lost' = lost \ {job[s].token}
    /\ verdict' = [verdict EXCEPT ![s] = "passed"]
    /\ UNCHANGED <<wstate, beat, job, cvars>>

\* What a slot leaves alone when its Redis command succeeds.
Calm == UNCHANGED <<wvars, cvars, faults>>

\* while not stop
Top(s) ==
    /\ Running(s) /\ pc[s] = "top"
    /\ Goto(s, IF stop[WorkerOf(s)] THEN "off" ELSE "claim")
    /\ UNCHANGED <<qvars, job, verdict>>
    /\ Calm

AnyClaim == (\E c \in Cases : ClaimJob(c, Lease)) \/ ClaimNone(Lease)

Claim(s) ==
    /\ Running(s) /\ pc[s] = "claim"
    /\ \/ /\ \E c \in Cases : ClaimJob(c, Lease)
          /\ job' = [job EXCEPT ![s] = CHOOSE j \in issued' : j.token = minted']
          /\ Goto(s, "steps")
          /\ UNCHANGED verdict
          /\ Calm
       \/ /\ ClaimNone(Lease) \/ (~Active /\ UNCHANGED qvars)
          /\ Goto(s, "count")
          /\ UNCHANGED <<job, verdict>>
          /\ Calm
       \/ SlotFails(s, AnyClaim)

\* count() >= total
CountResults(s) ==
    /\ Running(s) /\ pc[s] = "count"
    /\ \/ /\ Goto(s, IF Count >= Cardinality(Suite) THEN "off" ELSE "open")
          /\ UNCHANGED <<qvars, job, verdict>>
          /\ Calm
       \/ SlotFails(s, UNCHANGED qvars)

\* Fault: an idle slot waits for the results although the run is over.
WaitForResults(s) ==
    /\ Running(s) /\ pc[s] = "open"
    /\ Goto(s, "top")
    /\ UNCHANGED <<qvars, job, verdict>>
    /\ Calm

\* not is_open(), else wait and try again
IsOpen(s) ==
    /\ Running(s) /\ pc[s] = "open"
    /\ \/ /\ Goto(s, IF Active THEN "top" ELSE "off")
          /\ UNCHANGED <<qvars, job, verdict>>
          /\ Calm
       \/ SlotFails(s, UNCHANGED qvars)

\* The worse of two statuses.
Worse(a, b) ==
    IF "error" \in {a, b} THEN "error" ELSE IF "failed" \in {a, b} THEN "failed" ELSE "passed"

\* What the steps of a phase may come to (CaseExecutor): with the flag set
\* nothing is sent and none of them passes.
StepOutcomes(s) == IF job[s].token \in lost THEN Statuses \ {"passed"} ELSE Statuses

\* The setup and test steps of the case, up to the first that does not pass.
RunSteps(s) ==
    /\ Running(s) /\ pc[s] = "steps"
    /\ \E outcome \in StepOutcomes(s) : verdict' = [verdict EXCEPT ![s] = outcome]
    /\ Goto(s, "teardown")
    /\ UNCHANGED <<qvars, job>>
    /\ Calm

\* The teardown steps, always attempted; a case may have none.
Teardown(s) ==
    /\ Running(s) /\ pc[s] = "teardown"
    /\ \E outcome \in StepOutcomes(s) \cup {"passed"} :
          verdict' = [verdict EXCEPT ![s] = Worse(@, outcome)]
    /\ Goto(s, "complete")
    /\ UNCHANGED <<qvars, job>>
    /\ Calm

CompleteJob(s) == Complete(job[s], verdict[s])

\* Fault: a draining worker drops the job it has finished.
DrainDrops(s) ==
    /\ Running(s) /\ pc[s] = "complete"
    /\ \/ /\ IF stop[WorkerOf(s)] \/ ~Owns(job[s]) THEN UNCHANGED qvars ELSE CompleteJob(s)
          /\ Goto(s, "top")
          /\ lost' = lost \ {job[s].token}
          /\ verdict' = [verdict EXCEPT ![s] = "passed"]
          /\ UNCHANGED <<wstate, stop, error, beat, job, cvars, faults>>
       \/ SlotFails(s, CompleteJob(s))

Submit(s) ==
    /\ Running(s) /\ pc[s] = "complete"
    /\ \/ /\ \/ CompleteJob(s)
             \/ (~Owns(job[s]) \/ Finished(job[s].case)) /\ UNCHANGED qvars
          /\ Goto(s, "top")
          /\ lost' = lost \ {job[s].token}
          /\ verdict' = [verdict EXCEPT ![s] = "passed"]
          /\ UNCHANGED <<wstate, stop, error, beat, job, cvars, faults>>
       \/ SlotFails(s, CompleteJob(s))

SlotStep(s) ==
    \/ Top(s) \/ Claim(s) \/ CountResults(s) \/ IsOpen(s)
    \/ RunSteps(s) \/ Teardown(s) \/ Submit(s)

---------------------------------------------------------------------------
(* coordinator.distributed_run *)

CGoto(k, label) == cpc' = [cpc EXCEPT ![k] = label]
CForgets(k) == cresults' = [cresults EXCEPT ![k] = [c \in Cases |-> NoResult]]
CError(k, what) == cerror' = [cerror EXCEPT ![k] = what]

\* started = time.monotonic()
CoordStart(k) ==
    /\ cpc[k] = "start"
    /\ CGoto(k, "create")
    /\ cdeadline' = [cdeadline EXCEPT ![k] = now + Timeout]
    /\ UNCHANGED <<qvars, wvars, svars, cresults, cerror, crun, faults>>

\* An existing run ID raises ValueError; a RedisError leaves the run, if there
\* is one, to its deadline.
CoordCreate(k) ==
    /\ cpc[k] = "create"
    /\ \/ /\ Create(Suite, Timeout)
          /\ CGoto(k, "collect")
          /\ crun' = [crun EXCEPT ![k] = run']
          /\ UNCHANGED faults
       \/ meta # NoRun /\ CGoto(k, "aborted") /\ UNCHANGED <<qvars, crun, faults>>
       \/ Failing(Create(Suite, Timeout)) /\ CGoto(k, "aborted") /\ UNCHANGED crun
    /\ UNCHANGED <<wvars, svars, cdeadline, cresults, cerror>>

CoordFails(k) ==
    /\ Failing(UNCHANGED qvars)
    /\ CError(k, "redis")
    /\ CGoto(k, "close")

\* results()
CoordCollect(k) ==
    /\ cpc[k] = "collect"
    /\ \/ /\ cresults' = [cresults EXCEPT ![k] = results]
          /\ CGoto(k, IF Count = Cardinality(Suite) THEN "close" ELSE "check")
          /\ UNCHANGED <<cerror, faults>>
       \/ CoordFails(k) /\ UNCHANGED cresults
    /\ UNCHANGED <<qvars, wvars, svars, cdeadline, crun>>

\* Fault: the coordinator waits for the results, however long.
CollectForever(k) ==
    /\ cpc[k] = "check"
    /\ CGoto(k, "collect")
    /\ UNCHANGED <<qvars, wvars, svars, cdeadline, crun, cresults, cerror, faults>>

\* The deadline, and is_open()
CoordCheck(k) ==
    /\ cpc[k] = "check"
    /\ \/ /\ now >= cdeadline[k] \/ ~Active
          /\ CError(k, "missing")
          /\ CGoto(k, "close")
          /\ UNCHANGED faults
       \/ /\ now < cdeadline[k] /\ Active
          /\ CGoto(k, "collect")
          /\ UNCHANGED <<cerror, faults>>
       \/ now < cdeadline[k] /\ CoordFails(k)
    /\ UNCHANGED <<qvars, wvars, svars, cdeadline, crun, cresults>>

\* KeyboardInterrupt in the loop: the run is closed, nothing is reported.
CoordInterrupt(k) ==
    /\ cpc[k] \in {"collect", "check"}
    /\ Fault
    /\ CForgets(k)
    /\ CGoto(k, "unwind")
    /\ UNCHANGED <<qvars, wvars, svars, cdeadline, crun, cerror>>

CloseRun == Close \/ (meta = NoRun /\ UNCHANGED qvars)

\* Fault: only a run that is still short of results is closed.
CloseIncomplete(k) ==
    /\ cpc[k] \in {"close", "unwind"}
    /\ CGoto(k, IF cpc[k] = "close" THEN "reported" ELSE "aborted")
    /\ \/ /\ IF cerror[k] = "none" THEN UNCHANGED qvars ELSE CloseRun
          /\ UNCHANGED <<cerror, faults>>
       \/ Failing(CloseRun) /\ CError(k, "unclosed")
    /\ UNCHANGED <<wvars, svars, cdeadline, crun, cresults>>

\* finally: close(), then the report is made
CoordClose(k) ==
    /\ cpc[k] \in {"close", "unwind"}
    /\ CGoto(k, IF cpc[k] = "close" THEN "reported" ELSE "aborted")
    /\ \/ CloseRun /\ UNCHANGED <<cerror, faults>>
       \/ Failing(CloseRun) /\ CError(k, "unclosed")
    /\ UNCHANGED <<wvars, svars, cdeadline, crun, cresults>>

CoordCrash(k) ==
    /\ cpc[k] \in {"create", "collect", "check", "close", "unwind"}
    /\ Fault
    /\ CForgets(k)
    /\ CGoto(k, "crashed")
    /\ UNCHANGED <<qvars, wvars, svars, cdeadline, crun, cerror>>

\* The statuses of the report: a case without a result gets an error.
ReportStatuses(k) ==
    {IF cresults[k][c] = NoResult THEN "error" ELSE cresults[k][c].status : c \in Suite}

\* Fault: the exit code looks only at the results that are there.
ExitOfResults(k) ==
    LET there == {cresults[k][c].status : c \in {d \in Suite : cresults[k][d] # NoResult}}
    IN  IF "error" \in there THEN 2 ELSE IF "failed" \in there THEN 1 ELSE 0

\* RunReport.exit_code
ExitCode(k) ==
    IF cerror[k] # "none" \/ "error" \in ReportStatuses(k) THEN 2
    ELSE IF "failed" \in ReportStatuses(k) THEN 1 ELSE 0

CoordStep(k) ==
    \/ CoordStart(k) \/ CoordCreate(k) \/ CoordCollect(k) \/ CoordCheck(k) \/ CoordClose(k)

---------------------------------------------------------------------------
Time ==
    /\ \A k \in Coordinators : now < LastStart[k] \/ cpc[k] \notin {"start", "create"}
    /\ Tick \/ ExpireKeys
    /\ UNCHANGED <<wvars, svars, cvars, faults>>

DInit ==
    /\ Init
    /\ wstate = [w \in Workers |-> "waiting"]
    /\ stop = [w \in Workers |-> FALSE]
    /\ error = [w \in Workers |-> FALSE]
    /\ beat = [w \in Workers |-> {}]
    /\ lost = {}
    /\ pc = [s \in Slots |-> "off"]
    /\ job = [s \in Slots |-> NoJob]
    /\ verdict = [s \in Slots |-> "passed"]
    /\ cpc = [k \in Coordinators |-> "start"]
    /\ cdeadline = [k \in Coordinators |-> 0]
    /\ cresults = [k \in Coordinators |-> [c \in Cases |-> NoResult]]
    /\ cerror = [k \in Coordinators |-> "none"]
    /\ crun = [k \in Coordinators |-> 0]
    /\ faults = 0

WorkerStep(w) == PlanArrives(w) \/ PlanTimeout(w) \/ WorkerExit(w)

DNext ==
    \/ Time
    \/ \E w \in Workers :
          \/ WorkerStep(w) \/ PlanRefused(w) \/ PlanError(w)
          \/ StopSignal(w) \/ WorkerCrash(w)
          \/ BeatStart(w) \/ \E j \in beat[w] : BeatRenew(w, j)
    \/ \E s \in Slots : SlotStep(s)
    \/ \E k \in Coordinators : CoordStep(k) \/ CoordInterrupt(k) \/ CoordCrash(k)

DSpec == DInit /\ [][DNext]_dvars

\* Time passes; a live process goes on, and each thread in it gets its turn.
FairSpec ==
    /\ DSpec
    /\ WF_dvars(Time)
    /\ \A w \in Workers : WF_dvars(WorkerStep(w))
    /\ \A s \in Slots : WF_dvars(SlotStep(s))
    /\ \A k \in Coordinators : WF_dvars(CoordStep(k))

---------------------------------------------------------------------------
(* Properties *)

\* Type invariant of the processes; a worker that has met a RedisError is stopping.
DTypeOK ==
    /\ wstate \in [Workers -> {"waiting", "running", "exited", "dead"}]
    /\ stop \in [Workers -> BOOLEAN]
    /\ error \in [Workers -> BOOLEAN]
    /\ beat \in [Workers -> SUBSET issued]
    /\ lost \subseteq 1..minted
    /\ pc \in [Slots -> {"off", "top", "claim", "count", "open", "steps", "teardown", "complete"}]
    /\ job \in [Slots -> issued \cup {NoJob}]
    /\ verdict \in [Slots -> Statuses]
    /\ cpc \in [Coordinators -> {"start", "create", "collect", "check", "close", "unwind",
                                 "reported", "aborted", "crashed"}]
    /\ cdeadline \in [Coordinators -> Nat]
    /\ cresults \in [Coordinators -> [Cases -> Result \cup {NoResult}]]
    /\ cerror \in [Coordinators -> {"none", "redis", "missing", "unclosed"}]
    /\ crun \in [Coordinators -> 0..run]
    /\ faults \in 0..MaxFaults
    /\ \A w \in Workers : Alive(w) /\ error[w] => stop[w]

\* A green run is green: exit code 0 means that every case of the suite has, in
\* Redis, a passed result that a worker delivered and the queue accepted,
\* whatever failed on the way (distributed_run and RunReport.exit_code).
GreenMeansAllPassed ==
    \A k \in Coordinators :
        cpc[k] = "reported" /\ ExitCode(k) = 0 /\ meta # NoRun /\ run = crun[k]
            => \A c \in Suite : results[c].status = "passed" /\ results[c].token # NoToken

\* Nothing can contradict a report any more: once it is made, and close() did
\* not fail, the run accepts no result and hands out no case.
ReportIsLast ==
    \A k \in Coordinators :
        cpc[k] = "reported" /\ cerror[k] # "unclosed" /\ run = crun[k] => ~Active

\* A report tells of no earlier run: a coordinator whose submission went through
\* collects no result that was there before it (docs/ARCHITECTURE.md:65,
\* "Submission is rejected without replacing the original run").
NoStaleResults ==
    \A k \in Coordinators : \A c \in Suite :
        cresults[k][c] # NoResult => crun[k] # 0 /\ cresults[k][c].run >= crun[k]

\* No false alarm: unless Redis has failed the worker, a job whose lost-lease
\* flag is set could not be completed any more, so abandoning its steps gives
\* up nothing (heartbeat's refusal, renew and complete test the same).
LostIsFenced ==
    \A s \in Slots : ~error[WorkerOf(s)] /\ job[s].token \in lost => ~Owns(job[s])

\* Workers leave nothing behind: a slot that goes on to the next job, or ends by
\* draining, no longer holds a live lease, so nobody has to wait for it to lapse.
NothingLeftBehind ==
    \A s \in Slots :
        ~Busy(s) /\ ~error[WorkerOf(s)] /\ job[s] # NoJob => ~Owns(job[s])

\* The processes use the queue only in the ways RunQueue allows its clients, so
\* what holds of the queue under all clients holds here.
UsesQueue == Spec

\* The coordinator does not hang: it reports, or it aborted or was killed,
\* also without any worker.
CoordinatorEnds ==
    \A k \in Coordinators : <>(cpc[k] \in {"reported", "aborted", "crashed"})

\* A worker that found its run leaves once it is over, and one that did not
\* gives up waiting: no slot idles on.
WorkersLeave == \A w \in Workers : <>(wstate[w] \in {"exited", "dead"})

\* docs/ARCHITECTURE.md:49 "Losing a lease prevents future steps from being
\* sent."  RunSteps and Teardown look at the flag the heartbeat sets.
StepsNeedLease ==
    [][\A s \in Slots :
          pc[s] \in {"steps", "teardown"} /\ pc'[s] # pc[s] /\ job[s].token \notin lost
              => owners[job[s].case] = job[s].token /\ leases[job[s].case] > now]_dvars

\* docs/ARCHITECTURE.md:62 "lost leases are not trusted": the result of a job
\* whose lease its own worker took for lost is not accepted.
LostNotTrusted ==
    [][\A c \in Cases : results'[c] # results[c] => results'[c].token \notin lost]_dvars

\* coordinator.py:37 "expected results are missing": a result the report calls
\* missing is missing in Redis.
MissingIsMissing ==
    \A k \in Coordinators :
        cpc[k] = "reported" /\ cerror[k] = "missing" /\ meta # NoRun /\ run = crun[k]
            => \E c \in Suite : results[c] = NoResult
=============================================================================
