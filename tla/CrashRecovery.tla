---------------------------- MODULE CrashRecovery ----------------------------
(***************************************************************************)
(* The crash drill of scripts/verify_local.py: it submits a run of one     *)
(* case, waits until a worker owns the case, kills that worker, starts a   *)
(* second one and waits for the result, then stops the processes and       *)
(* deletes the run.  The script takes the coordinator's place.             *)
(***************************************************************************)
EXTENDS DistributedRun

CONSTANTS
    Crashed, Survivor,   \* the two workers
    LastKill             \* bound on when the second one is started

DrillAssumption ==
    Workers = {Crashed, Survivor} /\ Crashed # Survivor /\ Coordinators = {} /\ LastKill \in Nat

VARIABLES
    spc,        \* where crash_recovery is
    failed,     \* where it has raised
    started     \* processes there are or were

kvars == <<dvars, spc, failed, started>>

SGoto(label) == spc' = label /\ UNCHANGED failed
Raise(label) == spc' = label /\ failed' = failed \cup {spc}

\* create() precedes the try, so the finally clause does not see its RedisError.
SCreate ==
    /\ spc = "create"
    /\ \/ Create(Suite, Timeout) /\ SGoto("start") /\ UNCHANGED faults
       \/ Failing(Create(Suite, Timeout)) /\ Raise("done")
    /\ UNCHANGED <<wvars, svars, cvars, started>>

\* So do open() and the first Popen().
SStart ==
    /\ spc = "start"
    /\ \/ started' = {Crashed} /\ SGoto("owner")
       \/ UNCHANGED started /\ Raise("done")
    /\ UNCHANGED dvars

\* wait_for: the owners' hash has one field
SSeesOwner ==
    /\ spc = "owner"
    /\ Cardinality({c \in Cases : owners[c] # NoToken}) = 1
    /\ SGoto("kill")
    /\ UNCHANGED <<dvars, started>>

\* SIGKILL and wait; no signal is sent to a process that has ended.
SKill ==
    /\ spc = "kill"
    /\ IF Alive(Crashed) THEN Dies(Crashed) /\ UNCHANGED faults ELSE UNCHANGED dvars
    /\ SGoto("restart")
    /\ UNCHANGED started

SRestart ==
    /\ spc = "restart"
    /\ \/ started' = Workers /\ SGoto("result")
       \/ UNCHANGED started /\ Raise("stop")
    /\ UNCHANGED dvars

\* wait_for: one result
SSeesResult ==
    /\ spc = "result"
    /\ Count = 1
    /\ SGoto("check")
    /\ UNCHANGED <<dvars, started>>

Recovered(r) ==
    r.status = "passed" /\ r.delivery = 2 /\ \E s \in SlotsOf(Survivor) : job[s].token = r.token

SCheck ==
    /\ spc = "check"
    /\ IF \A c \in Suite : Recovered(results[c]) THEN SGoto("exit") ELSE Raise("stop")
    /\ UNCHANGED <<dvars, started>>

\* assert survivor.wait() == 0
SExit ==
    /\ spc = "exit" /\ wstate[Survivor] = "exited"
    /\ IF error[Survivor] THEN Raise("stop") ELSE SGoto("stop")
    /\ UNCHANGED <<dvars, started>>

\* TimeoutError, TimeoutExpired and RedisError lead to the finally clause.
SGivesUp ==
    /\ spc \in {"owner", "result", "check", "exit"}
    /\ Raise("stop")
    /\ UNCHANGED <<dvars, started>>

\* Fault: the process is told to end, and nobody sees to it.
OnlyTerminate(w) ==
    /\ spc = "stop" /\ w \in started /\ Alive(w) /\ ~stop[w]
    /\ stop' = [stop EXCEPT ![w] = TRUE]
    /\ spc' = "close"
    /\ UNCHANGED <<qvars, wstate, error, beat, lost, svars, cvars, faults, failed, started>>

\* stop_process: terminate, then kill if it takes too long; the first worker first
StopProcess(w) ==
    /\ spc = "stop" /\ w \in started /\ Alive(w)
    /\ w = Survivor => ~Alive(Crashed)
    /\ \/ ~stop[w] /\ stop' = [stop EXCEPT ![w] = TRUE]
          /\ UNCHANGED <<qvars, wstate, error, beat, lost, svars, cvars, faults>>
       \/ stop[w] /\ Dies(w) /\ UNCHANGED faults
    /\ UNCHANGED <<spc, failed, started>>

SStopped ==
    /\ spc = "stop" /\ \A w \in started : ~Alive(w)
    /\ SGoto("close")
    /\ UNCHANGED <<dvars, started>>

\* A RedisError of close() leaves the run to its expiry.
SClose ==
    /\ spc = "close"
    /\ \/ CloseRun /\ SGoto("delete") /\ UNCHANGED faults
       \/ Failing(CloseRun) /\ Raise("done")
    /\ UNCHANGED <<wvars, svars, cvars, started>>

\* RunQueue.delete
Delete ==
    /\ meta' = NoRun /\ tasks' = {} /\ volatile' = {}
    /\ ready' = [c \in Cases |-> Absent] /\ leases' = [c \in Cases |-> 0]
    /\ owners' = [c \in Cases |-> NoToken] /\ attempts' = [c \in Cases |-> 0]
    /\ results' = [c \in Cases |-> NoResult]
    /\ UNCHANGED <<now, history>>

SDelete ==
    /\ spc = "delete"
    /\ \/ Delete /\ SGoto("done") /\ UNCHANGED faults
       \/ Failing(Delete) /\ Raise("done")
    /\ UNCHANGED <<wvars, svars, cvars, started>>

Script ==
    \/ SCreate \/ SStart \/ SSeesOwner \/ SKill \/ SRestart \/ SSeesResult \/ SCheck \/ SExit
    \/ SStopped \/ SClose \/ SDelete

Runs(w) ==
    /\ w \in started
    /\ \/ WorkerStep(w) \/ PlanError(w)
       \/ BeatStart(w) \/ (\E j \in beat[w] : BeatRenew(w, j))
       \/ \E s \in SlotsOf(w) : SlotStep(s)
    /\ UNCHANGED <<spc, failed, started>>

KTime ==
    /\ spc # "create" /\ (now < LastKill \/ spc \notin {"start", "owner", "kill", "restart"})
    /\ Time
    /\ UNCHANGED <<spc, failed, started>>

KInit == DInit /\ spc = "create" /\ failed = {} /\ started = {}

KNext == Script \/ SGivesUp \/ KTime \/ \E w \in Workers : StopProcess(w) \/ Runs(w)

\* Time passes, and the script and each thread of a process that runs go on.
KSpec ==
    /\ KInit /\ [][KNext]_kvars
    /\ WF_kvars(KTime) /\ WF_kvars(Script)
    /\ \A w \in Workers : WF_kvars(StopProcess(w)) /\ WF_kvars(w \in started /\ WorkerStep(w) /\ UNCHANGED <<spc, failed, started>>)
    /\ \A s \in Slots : WF_kvars(WorkerOf(s) \in started /\ SlotStep(s) /\ UNCHANGED <<spc, failed, started>>)

---------------------------------------------------------------------------
(* Properties *)

\* However the drill ends, and wherever it raised, no process it started is alive.  A
\* key is left only if it raised before the try or Redis failed the finally clause, an
\* open run only if close() was not reached or raised, and every key left will expire.
NothingLeft ==
    spc = "done" =>
        /\ \A w \in started : ~Alive(w)
        /\ ExistingKeys # {} => failed \cap {"create", "start", "close", "delete"} # {}
        /\ Active => failed \cap {"create", "start", "close"} # {}
        /\ ExistingKeys \subseteq volatile

\* The case of a worker that was killed is not lost: with time to run, and Redis at
\* hand, another worker brings it to a result, whatever the dead one was doing.
CaseRecovers ==
    (spc = "result" /\ faults = 0) ~>
        \/ Count = Cardinality(Suite)
        \/ spc # "result" \/ faults > 0
=============================================================================
