------------------------ MODULE DistributedRunProofs ------------------------
(***************************************************************************)
(* Proofs about DistributedRun, for any number of workers, threads and     *)
(* coordinators, any suite and any interleaving and failures.  The workers *)
(* and coordinators use the queue as RunQueue allows, so everything proved *)
(* of RunQueue holds of a distributed run; on top of that come the         *)
(* properties of the report, and what the crash drill leaves behind.       *)
(***************************************************************************)
EXTENDS CrashRecovery, RunQueueProofs

USE CasesAssumption, SettingsAssumption, RunAssumption

\* The jobs slots and heartbeats work with are jobs the queue has issued.
Holding == \A s \in Slots : Busy(s) => job[s] \in issued

DInv == IInv /\ DTypeOK /\ Holding

---------------------------------------------------------------------------
(* The processes are clients of the queue *)

LEMMA CreateIsNext == Create(Suite, Timeout) => Next
  BY DEF Next

LEMMA ClaimIsNext == AnyClaim => Next
  BY DEF Next, AnyClaim

LEMMA RenewIsNext == ASSUME NEW j \in issued PROVE RenewJob(j) => Next
  BY DEF Next, RenewJob

LEMMA CompleteIsNext ==
    ASSUME NEW s \in Slots, DInv, pc[s] = "complete"
    PROVE  CompleteJob(s) => Next
  <1>1. job[s] \in issued /\ verdict[s] \in Statuses
    BY DEF DInv, Holding, Busy, DTypeOK
  <1> QED
    BY <1>1 DEF CompleteJob, Next

LEMMA CloseIsNext == CloseRun => [Next]_qvars
  BY DEF CloseRun, Next

LEMMA SlotUses ==
    ASSUME DInv, NEW s \in Slots, SlotStep(s)
    PROVE  [Next]_qvars
  <1>1. CASE Top(s)
    BY <1>1 DEF Top
  <1>2. CASE Claim(s)
    <2>1. AnyClaim \/ UNCHANGED qvars \/ SlotFails(s, AnyClaim)
      BY <1>2 DEF Claim, AnyClaim
    <2> QED
      BY <2>1, ClaimIsNext DEF SlotFails, Failing
  <1>3. CASE CountResults(s)
    BY <1>3 DEF CountResults, SlotFails, Failing
  <1>4. CASE IsOpen(s)
    BY <1>4 DEF IsOpen, SlotFails, Failing
  <1>5. CASE RunSteps(s) \/ Teardown(s)
    BY <1>5 DEF RunSteps, Teardown
  <1>6. CASE Submit(s)
    BY <1>6, CompleteIsNext DEF Submit, SlotFails, Failing
  <1> QED
    BY <1>1, <1>2, <1>3, <1>4, <1>5, <1>6 DEF SlotStep

LEMMA CoordUses ==
    ASSUME NEW k \in Coordinators, CoordStep(k) \/ CoordInterrupt(k) \/ CoordCrash(k)
    PROVE  [Next]_qvars
  <1>1. CASE CoordStart(k) \/ CoordInterrupt(k) \/ CoordCrash(k)
    BY <1>1 DEF CoordStart, CoordInterrupt, CoordCrash
  <1>2. CASE CoordCreate(k)
    BY <1>2, CreateIsNext DEF CoordCreate, Failing
  <1>3. CASE CoordCollect(k) \/ CoordCheck(k)
    BY <1>3 DEF CoordCollect, CoordCheck
  <1>4. CASE CoordClose(k)
    BY <1>4, CloseIsNext DEF CoordClose, Failing
  <1> QED
    BY <1>1, <1>2, <1>3, <1>4 DEF CoordStep

LEMMA WorkerUses ==
    ASSUME DInv, NEW w \in Workers,
           \/ WorkerStep(w) \/ PlanRefused(w) \/ PlanError(w)
           \/ StopSignal(w) \/ WorkerCrash(w)
           \/ BeatStart(w) \/ \E j \in beat[w] : BeatRenew(w, j)
    PROVE  [Next]_qvars
  <1>1. CASE \E j \in beat[w] : BeatRenew(w, j)
    <2>1. \A j \in beat[w] : RenewJob(j) => Next
      BY RenewIsNext DEF DInv, DTypeOK
    <2> QED
      BY <1>1, <2>1 DEF BeatRenew, Failing
  <1>2. CASE WorkerStep(w) \/ PlanRefused(w) \/ PlanError(w)
    BY <1>2 DEF WorkerStep, PlanArrives, PlanTimeout, WorkerExit, PlanRefused, PlanError,
                GiveUpWaiting
  <1>3. CASE StopSignal(w) \/ WorkerCrash(w) \/ BeatStart(w)
    BY <1>3 DEF StopSignal, WorkerCrash, Dies, BeatStart
  <1> QED
    BY <1>1, <1>2, <1>3

LEMMA StepUses == DInv /\ [DNext]_dvars => [Next]_qvars
  <1> SUFFICES ASSUME DInv, [DNext]_dvars PROVE [Next]_qvars
    OBVIOUS
  <1>1. CASE Time
    BY <1>1 DEF Time, Next
  <1>2. CASE UNCHANGED dvars
    BY <1>2 DEF dvars
  <1> QED
    BY <1>1, <1>2, WorkerUses, SlotUses, CoordUses DEF DNext

---------------------------------------------------------------------------
(* The type invariant of the processes *)

\* The history only grows.
LEMMA HistoryGrows ==
    ASSUME IInv, [Next]_qvars
    PROVE  issued \subseteq issued' /\ minted <= minted' /\ minted' \in Nat
           /\ run <= run' /\ run' \in Nat
  <1> USE DEF IInv, TypeOK
  <1>1. CASE \E suite \in Suites, timeout \in RunTimeouts : Create(suite, timeout)
    BY <1>1 DEF Create, SubmitRun
  <1>2. CASE \E c \in Cases, lease \in LeaseTimes : ClaimJob(c, lease)
    BY <1>2 DEF ClaimJob, ClaimScript
  <1>3. CASE \E lease \in LeaseTimes : ClaimNone(lease)
    BY <1>3 DEF ClaimNone, ClaimScript
  <1>4. CASE UNCHANGED history
    BY <1>4 DEF history
  <1> QED
    BY <1>1, <1>2, <1>3, <1>4 DEF Next, Renew, Complete, Close, Tick, ExpireKeys, qvars

SlotTypes ==
    /\ pc \in [Slots -> {"off", "top", "claim", "count", "open", "steps", "teardown", "complete"}]
    /\ job \in [Slots -> issued \cup {NoJob}]
    /\ verdict \in [Slots -> Statuses]
    /\ Holding

WorkerTypes ==
    /\ wstate \in [Workers -> {"waiting", "running", "exited", "dead"}]
    /\ stop \in [Workers -> BOOLEAN]
    /\ error \in [Workers -> BOOLEAN]
    /\ beat \in [Workers -> SUBSET issued]
    /\ lost \subseteq 1..minted
    /\ \A w \in Workers : Alive(w) /\ error[w] => stop[w]

CoordTypes ==
    /\ cpc \in [Coordinators -> {"start", "create", "collect", "check", "close", "unwind",
                                 "reported", "aborted", "crashed"}]
    /\ cdeadline \in [Coordinators -> Nat]
    /\ cresults \in [Coordinators -> [Cases -> Result \cup {NoResult}]]
    /\ cerror \in [Coordinators -> {"none", "redis", "missing", "unclosed"}]
    /\ crun \in [Coordinators -> 0..run]

LEMMA Types ==
    DTypeOK /\ Holding <=> SlotTypes /\ WorkerTypes /\ CoordTypes /\ faults \in 0..MaxFaults
  BY DEF DTypeOK, SlotTypes, WorkerTypes, CoordTypes, Alive

\* Each part survives the steps of the others.
LEMMA SlotsKept ==
    ASSUME SlotTypes, UNCHANGED svars, issued \subseteq issued'
    PROVE  SlotTypes'
  BY DEF SlotTypes, svars, Holding, Busy

LEMMA WorkersKept ==
    ASSUME WorkerTypes, UNCHANGED wvars, issued \subseteq issued',
           minted \in Nat, minted' \in Nat, minted <= minted'
    PROVE  WorkerTypes'
  <1>1. 1..minted \subseteq 1..minted'
    OBVIOUS
  <1>2. beat' \in [Workers -> SUBSET issued']
    BY DEF WorkerTypes, wvars
  <1> QED
    BY <1>1, <1>2 DEF WorkerTypes, wvars, Alive

LEMMA CoordsKept ==
    ASSUME CoordTypes, UNCHANGED cvars, run \in Nat, run' \in Nat, run <= run'
    PROVE  CoordTypes'
  <1>1. 0..run \subseteq 0..run'
    OBVIOUS
  <1> QED
    BY <1>1 DEF CoordTypes, cvars

LEMMA FaultCounted ==
    ASSUME faults \in 0..MaxFaults, Fault \/ UNCHANGED faults
    PROVE  faults' \in 0..MaxFaults
  BY DEF Fault

\* The token of a job that is being executed is one the queue has minted.
LEMMA TokenMinted ==
    ASSUME IInv, NEW j \in issued
    PROVE  j.token \in 1..minted
  <1>1. j.token \in Nat \ {0} /\ j.token <= minted /\ minted \in Nat
    BY DEF IInv, TypeOK, Job, Tokens
  <1> QED
    BY <1>1

LEMMA FlagSet ==
    ASSUME NEW S, NEW f \in [S -> BOOLEAN], NEW x
    PROVE  [f EXCEPT ![x] = TRUE] \in [S -> BOOLEAN]
  <1>1. \A y \in S : [f EXCEPT ![x] = TRUE][y] \in BOOLEAN
    <2> SUFFICES ASSUME NEW y \in S PROVE [f EXCEPT ![x] = TRUE][y] \in BOOLEAN
      OBVIOUS
    <2>1. CASE y = x
      BY <2>1, Zenon
    <2>2. CASE y # x
      BY <2>2, Zenon
    <2> QED
      BY <2>1, <2>2
  <1> QED
    BY <1>1, Zenon

\* What a RedisError in a slot does to the worker, whatever became of the command.
LocalFailure(s) ==
    /\ Fault
    /\ error' = [error EXCEPT ![WorkerOf(s)] = TRUE]
    /\ stop' = [stop EXCEPT ![WorkerOf(s)] = TRUE]
    /\ pc' = [pc EXCEPT ![s] = "off"]
    /\ lost' = lost \ {job[s].token}
    /\ verdict' = [verdict EXCEPT ![s] = "passed"]
    /\ UNCHANGED <<wstate, beat, job, cvars>>

LEMMA FailureTyped ==
    ASSUME DInv, NEW s \in Slots, [Next]_qvars, LocalFailure(s)
    PROVE  SlotTypes' /\ WorkerTypes' /\ CoordTypes' /\ faults' \in 0..MaxFaults
  <1>1. SlotTypes /\ WorkerTypes /\ CoordTypes /\ faults \in 0..MaxFaults
    BY Types DEF DInv
  <1>2. /\ issued \subseteq issued' /\ minted <= minted' /\ minted' \in Nat
        /\ run <= run' /\ run' \in Nat /\ minted \in Nat /\ run \in Nat
    BY HistoryGrows DEF DInv, IInv, TypeOK
  <1>3. SlotTypes'
    <2>1. pc' \in [Slots -> {"off", "top", "claim", "count", "open", "steps", "teardown", "complete"}]
      BY <1>1 DEF LocalFailure, SlotTypes
    <2>2. job' \in [Slots -> issued' \cup {NoJob}] /\ verdict' \in [Slots -> Statuses]
      BY <1>1, <1>2 DEF LocalFailure, SlotTypes
    <2>3. Holding'
      BY <1>1, <1>2 DEF LocalFailure, SlotTypes, Holding, Busy
    <2> QED
      BY <2>1, <2>2, <2>3 DEF SlotTypes
  <1>4. WorkerTypes'
    <2>1. WorkerOf(s) \in Workers
      BY DEF Slots, WorkerOf
    <2>2. beat' \in [Workers -> SUBSET issued']
      BY <1>1, <1>2 DEF LocalFailure, WorkerTypes
    <2>3. lost' \subseteq 1..minted'
      <3>1. 1..minted \subseteq 1..minted' /\ lost \subseteq 1..minted
        BY <1>1, <1>2 DEF WorkerTypes
      <3> QED
        BY <3>1 DEF LocalFailure
    <2>4. stop' \in [Workers -> BOOLEAN] /\ error' \in [Workers -> BOOLEAN]
      <3>1. stop \in [Workers -> BOOLEAN] /\ error \in [Workers -> BOOLEAN]
        BY <1>1 DEF WorkerTypes
      <3>2. /\ [stop EXCEPT ![WorkerOf(s)] = TRUE] \in [Workers -> BOOLEAN]
            /\ [error EXCEPT ![WorkerOf(s)] = TRUE] \in [Workers -> BOOLEAN]
        BY <3>1, FlagSet
      <3>3. /\ stop' = [stop EXCEPT ![WorkerOf(s)] = TRUE]
            /\ error' = [error EXCEPT ![WorkerOf(s)] = TRUE]
        BY DEF LocalFailure
      <3> QED
        BY <3>2, <3>3, Zenon
    <2>5. (\A w \in Workers : Alive(w) /\ error[w] => stop[w])'
      <3> SUFFICES ASSUME NEW w \in Workers, Alive(w), error'[w]
                   PROVE  stop'[w]
        BY DEF Alive, LocalFailure
      <3>1. CASE w = WorkerOf(s)
        BY <1>1, <3>1 DEF LocalFailure, WorkerTypes
      <3>2. CASE w # WorkerOf(s)
        BY <1>1, <2>1, <3>2 DEF LocalFailure, WorkerTypes
      <3> QED
        BY <3>1, <3>2
    <2> QED
      BY <1>1, <2>2, <2>3, <2>4, <2>5 DEF LocalFailure, WorkerTypes
  <1>5. CoordTypes'
    BY <1>1, <1>2, CoordsKept DEF LocalFailure
  <1>6. faults' \in 0..MaxFaults
    BY <1>1, FaultCounted DEF LocalFailure
  <1> QED
    BY <1>3, <1>4, <1>5, <1>6

LEMMA SlotTyped ==
    ASSUME DInv, NEW s \in Slots, [Next]_qvars, SlotStep(s)
    PROVE  SlotTypes' /\ WorkerTypes' /\ CoordTypes' /\ faults' \in 0..MaxFaults
  <1>1. SlotTypes /\ WorkerTypes /\ CoordTypes /\ faults \in 0..MaxFaults
    BY Types DEF DInv
  <1>2. /\ issued \subseteq issued' /\ minted <= minted' /\ minted' \in Nat
        /\ run <= run' /\ run' \in Nat /\ minted \in Nat /\ run \in Nat
    BY HistoryGrows DEF DInv, IInv, TypeOK
  <1>3. ASSUME Calm PROVE WorkerTypes' /\ CoordTypes' /\ faults' \in 0..MaxFaults
    BY <1>1, <1>2, <1>3, WorkersKept, CoordsKept DEF Calm
  <1>4. ASSUME NEW label \in {"off", "top", "claim", "count", "open"},
               Goto(s, label), UNCHANGED job, verdict' \in [Slots -> Statuses]
        PROVE  SlotTypes'
    <2>1. pc' \in [Slots -> {"off", "top", "claim", "count", "open", "steps", "teardown", "complete"}]
      BY <1>1, <1>4 DEF SlotTypes, Goto
    <2>2. Holding'
      BY <1>1, <1>2, <1>4 DEF SlotTypes, Goto, Holding, Busy
    <2> QED
      BY <1>1, <1>2, <1>4, <2>1, <2>2 DEF SlotTypes
  <1>5. CASE Top(s)
    <2>1. \E label \in {"off", "claim"} : Goto(s, label)
      BY <1>5 DEF Top
    <2> QED
      BY <1>1, <1>3, <1>4, <1>5, <2>1 DEF Top, SlotTypes
  <1>6. CASE LocalFailure(s)
    BY <1>6, FailureTyped
  <1>7. CASE Claim(s) /\ ~LocalFailure(s)
    <2>1. CASE /\ \E c \in Cases : ClaimJob(c, Lease)
               /\ job' = [job EXCEPT ![s] = CHOOSE j \in issued' : j.token = minted']
               /\ Goto(s, "steps") /\ UNCHANGED verdict /\ Calm
      <3>1. \E j \in issued' : j.token = minted'
        <4>1. PICK c \in Cases : ClaimJob(c, Lease)
          BY <2>1
        <4> DEFINE n == [case |-> c, token |-> minted + 1, delivery |-> attempts'[c],
                         run |-> run]
        <4>2. n \in issued' /\ n.token = minted'
          BY <4>1 DEF ClaimJob
        <4> QED
          BY <4>2
      <3>2. (CHOOSE j \in issued' : j.token = minted') \in issued'
        BY <3>1
      <3>3. SlotTypes'
        BY <1>1, <1>2, <2>1, <3>2 DEF SlotTypes, Holding, Busy, Goto
      <3> QED
        BY <1>3, <2>1, <3>3
    <2>2. CASE Goto(s, "count") /\ UNCHANGED <<job, verdict>> /\ Calm
      BY <1>1, <1>3, <1>4, <2>2 DEF SlotTypes
    <2> QED
      BY <1>7, <2>1, <2>2 DEF Claim, SlotFails, Failing, LocalFailure, Goto
  <1>8. CASE (CountResults(s) \/ IsOpen(s)) /\ ~LocalFailure(s)
    <2>1. /\ \E label \in {"off", "open", "top"} : Goto(s, label)
          /\ UNCHANGED <<job, verdict>> /\ Calm
      BY <1>8 DEF CountResults, IsOpen, SlotFails, Failing, LocalFailure, Goto
    <2> QED
      BY <1>1, <1>3, <1>4, <2>1 DEF SlotTypes
  <1>9. CASE RunSteps(s) \/ Teardown(s)
    <2>1. /\ Busy(s) /\ UNCHANGED job /\ Calm
          /\ Goto(s, "teardown") \/ Goto(s, "complete")
      BY <1>9 DEF RunSteps, Teardown, Busy
    <2>2. verdict' \in [Slots -> Statuses]
      <3>1. StepOutcomes(s) \cup {"passed"} \subseteq Statuses
        BY DEF StepOutcomes
      <3>2. \A a, b \in Statuses : Worse(a, b) \in Statuses
        BY DEF Worse
      <3>3. PICK outcome \in Statuses :
               \/ verdict' = [verdict EXCEPT ![s] = outcome]
               \/ verdict' = [verdict EXCEPT ![s] = Worse(verdict[s], outcome)]
        BY <1>9, <3>1 DEF RunSteps, Teardown
      <3>4. verdict[s] \in Statuses /\ Worse(verdict[s], outcome) \in Statuses
        BY <1>1, <3>2 DEF SlotTypes
      <3> QED
        BY <1>1, <3>3, <3>4 DEF SlotTypes
    <2>3. SlotTypes'
      BY <1>1, <1>2, <2>1, <2>2 DEF SlotTypes, Holding, Busy, Goto
    <2> QED
      BY <1>3, <2>1, <2>3
  <1>10. CASE Submit(s) /\ ~LocalFailure(s)
    <2>1. /\ Goto(s, "top") /\ lost' = lost \ {job[s].token}
          /\ verdict' = [verdict EXCEPT ![s] = "passed"]
          /\ UNCHANGED <<wstate, stop, error, beat, job, cvars, faults>>
      BY <1>10 DEF Submit, SlotFails, Failing, LocalFailure, Goto
    <2>2. SlotTypes'
      BY <1>1, <1>4, <2>1 DEF SlotTypes
    <2>3. WorkerTypes'
      <3>1. beat' \in [Workers -> SUBSET issued']
        BY <1>1, <1>2, <2>1 DEF WorkerTypes
      <3>2. 1..minted \subseteq 1..minted' /\ lost \subseteq 1..minted
        BY <1>1, <1>2 DEF WorkerTypes
      <3>3. lost' \subseteq 1..minted'
        BY <2>1, <3>2
      <3> QED
        BY <1>1, <2>1, <3>1, <3>3 DEF WorkerTypes, Alive
    <2> QED
      BY <1>1, <1>2, <2>1, <2>2, <2>3, CoordsKept
  <1> QED
    BY <1>5, <1>6, <1>7, <1>8, <1>9, <1>10 DEF SlotStep

\* A signal reaches the worker, whoever sent it.
Told(w) ==
    /\ stop' = [stop EXCEPT ![w] = TRUE]
    /\ UNCHANGED <<qvars, wstate, error, beat, lost, svars, cvars>>

\* The worker and slot types hold again after a step of a worker's own, and when it
\* is stopped or killed, with or without that counting as a fault.
LEMMA WorkerTyped ==
    ASSUME DInv, NEW w \in Workers, [Next]_qvars,
           \/ WorkerStep(w) \/ PlanRefused(w) \/ PlanError(w)
           \/ StopSignal(w) \/ WorkerCrash(w)
           \/ BeatStart(w) \/ \E j \in beat[w] : BeatRenew(w, j)
           \/ (Told(w) \/ Dies(w)) /\ (Fault \/ UNCHANGED faults)
    PROVE  SlotTypes' /\ WorkerTypes' /\ CoordTypes' /\ faults' \in 0..MaxFaults
  <1>1. SlotTypes /\ WorkerTypes /\ CoordTypes /\ faults \in 0..MaxFaults
    BY Types DEF DInv
  <1>2. /\ issued \subseteq issued' /\ minted <= minted' /\ minted' \in Nat
        /\ run <= run' /\ run' \in Nat /\ minted \in Nat /\ run \in Nat
    BY HistoryGrows DEF DInv, IInv, TypeOK
  <1>3. 1..minted \subseteq 1..minted' /\ lost \subseteq 1..minted'
    BY <1>1, <1>2 DEF WorkerTypes
  <1>4. UNCHANGED cvars => CoordTypes'
    BY <1>1, <1>2, CoordsKept
  <1>5. UNCHANGED svars => SlotTypes'
    BY <1>1, <1>2, SlotsKept
  <1>6. Fault \/ UNCHANGED faults => faults' \in 0..MaxFaults
    BY <1>1, FaultCounted
  <1>7. /\ stop \in [Workers -> BOOLEAN] /\ error \in [Workers -> BOOLEAN]
        /\ [stop EXCEPT ![w] = TRUE] \in [Workers -> BOOLEAN]
        /\ [error EXCEPT ![w] = TRUE] \in [Workers -> BOOLEAN]
    BY <1>1, FlagSet DEF WorkerTypes
  <1>8. CASE PlanArrives(w)
    <2>1. SlotTypes'
      <3>1. pc' \in [Slots -> {"off", "top", "claim", "count", "open", "steps", "teardown", "complete"}]
        BY <1>1, <1>8 DEF PlanArrives, SlotTypes
      <3>2. Holding'
        BY <1>1, <1>2, <1>8 DEF PlanArrives, SlotTypes, Holding, Busy
      <3> QED
        BY <1>1, <1>2, <1>8, <3>1, <3>2 DEF PlanArrives, SlotTypes
    <2>2. WorkerTypes'
      <3>1. wstate' \in [Workers -> {"waiting", "running", "exited", "dead"}]
        BY <1>1, <1>8 DEF PlanArrives, WorkerTypes
      <3>2. (\A v \in Workers : Alive(v) /\ error[v] => stop[v])'
        BY <1>1, <1>8 DEF PlanArrives, WorkerTypes, Alive
      <3>3. beat' \in [Workers -> SUBSET issued']
        BY <1>1, <1>2, <1>8 DEF PlanArrives, WorkerTypes
      <3> QED
        BY <1>3, <1>7, <1>8, <3>1, <3>2, <3>3 DEF PlanArrives, WorkerTypes
    <2> QED
      BY <1>4, <1>6, <1>8, <2>1, <2>2 DEF PlanArrives
  <1>9. CASE GiveUpWaiting(w) /\ (Fault \/ UNCHANGED faults)
    <2>1. WorkerTypes'
      <3>1. wstate' \in [Workers -> {"waiting", "running", "exited", "dead"}]
        BY <1>1, <1>9 DEF GiveUpWaiting, WorkerTypes
      <3>2. (\A v \in Workers : Alive(v) /\ error[v] => stop[v])'
        BY <1>1, <1>9 DEF GiveUpWaiting, WorkerTypes, Alive
      <3>3. beat' \in [Workers -> SUBSET issued']
        BY <1>1, <1>2, <1>9 DEF GiveUpWaiting, WorkerTypes
      <3> QED
        BY <1>3, <1>7, <1>9, <3>1, <3>2, <3>3 DEF GiveUpWaiting, WorkerTypes
    <2> QED
      BY <1>4, <1>5, <1>6, <1>9, <2>1 DEF GiveUpWaiting
  <1>10. CASE WorkerExit(w)
    <2>1. WorkerTypes'
      <3>1. wstate' \in [Workers -> {"waiting", "running", "exited", "dead"}]
        BY <1>1, <1>10 DEF WorkerExit, WorkerTypes
      <3>2. (\A v \in Workers : Alive(v) /\ error[v] => stop[v])'
        BY <1>1, <1>10 DEF WorkerExit, WorkerTypes, Alive
      <3>3. beat' \in [Workers -> SUBSET issued']
        BY <1>1, <1>2, <1>10 DEF WorkerExit, WorkerTypes
      <3> QED
        BY <1>3, <1>7, <1>10, <3>1, <3>2, <3>3 DEF WorkerExit, WorkerTypes
    <2> QED
      BY <1>4, <1>5, <1>6, <1>10, <2>1 DEF WorkerExit
  <1>11. CASE Told(w) /\ (Fault \/ UNCHANGED faults)
    <2>1. WorkerTypes'
      <3>1. (\A v \in Workers : Alive(v) /\ error[v] => stop[v])'
        BY <1>1, <1>11 DEF Told, WorkerTypes, Alive
      <3>2. beat' \in [Workers -> SUBSET issued']
        BY <1>1, <1>2, <1>11 DEF Told, WorkerTypes
      <3> QED
        BY <1>1, <1>3, <1>7, <1>11, <3>1, <3>2 DEF Told, WorkerTypes
    <2> QED
      BY <1>4, <1>5, <1>6, <1>11, <2>1 DEF Told
  <1>12. CASE Dies(w) /\ (Fault \/ UNCHANGED faults)
    <2>1. SlotTypes'
      <3>1. /\ pc' \in [Slots -> {"off", "top", "claim", "count", "open", "steps", "teardown", "complete"}]
            /\ job' \in [Slots -> issued' \cup {NoJob}]
            /\ verdict' \in [Slots -> Statuses]
        BY <1>1, <1>2, <1>12 DEF Dies, SlotTypes
      <3>2. Holding'
        BY <1>1, <1>2, <1>12 DEF Dies, SlotTypes, Holding, Busy
      <3> QED
        BY <3>1, <3>2 DEF SlotTypes
    <2>2. WorkerTypes'
      <3>1. wstate' \in [Workers -> {"waiting", "running", "exited", "dead"}]
        BY <1>1, <1>12 DEF Dies, WorkerTypes
      <3>2. (\A v \in Workers : Alive(v) /\ error[v] => stop[v])'
        BY <1>1, <1>12 DEF Dies, WorkerTypes, Alive
      <3>3. beat' \in [Workers -> SUBSET issued']
        BY <1>1, <1>2, <1>12 DEF Dies, WorkerTypes
      <3>4. lost' \subseteq 1..minted'
        BY <1>3, <1>12 DEF Dies
      <3> QED
        BY <1>7, <1>12, <3>1, <3>2, <3>3, <3>4 DEF Dies, WorkerTypes
    <2> QED
      BY <1>4, <1>6, <1>12, <2>1, <2>2 DEF Dies
  <1>13. CASE BeatStart(w)
    <2>1. beat' \in [Workers -> SUBSET issued']
      <3>1. {job[s] : s \in {t \in SlotsOf(w) : Busy(t)}} \subseteq issued'
        BY <1>1, <1>2 DEF SlotTypes, Holding, SlotsOf
      <3> QED
        BY <1>1, <1>2, <1>13, <3>1 DEF BeatStart, WorkerTypes
    <2>2. WorkerTypes'
      BY <1>1, <1>3, <1>13, <2>1 DEF BeatStart, WorkerTypes, Alive
    <2> QED
      BY <1>4, <1>5, <1>6, <1>13, <2>2 DEF BeatStart
  <1>14. ASSUME NEW j \in beat[w], BeatRenew(w, j)
         PROVE  SlotTypes' /\ WorkerTypes' /\ CoordTypes' /\ faults' \in 0..MaxFaults
    <2>1. j \in issued
      BY <1>1, <1>14 DEF WorkerTypes
    <2>2. j.token \in 1..minted'
      BY <1>3, <2>1, TokenMinted DEF DInv
    <2>3. lost' \subseteq 1..minted'
      <3>1. lost' = lost \/ lost' = lost \cup {j.token}
        BY <1>14 DEF BeatRenew, BeatMarks
      <3> QED
        BY <1>3, <2>2, <3>1
    <2>4. beat' \in [Workers -> SUBSET issued']
      BY <1>1, <1>2, <1>14 DEF BeatRenew, WorkerTypes
    <2>5. \/ UNCHANGED <<stop, error, faults>>
          \/ /\ Fault
             /\ error' = [error EXCEPT ![w] = TRUE]
             /\ stop' = [stop EXCEPT ![w] = TRUE]
      BY <1>14 DEF BeatRenew, Failing
    <2>6. stop' \in [Workers -> BOOLEAN] /\ error' \in [Workers -> BOOLEAN]
      BY <1>7, <2>5, Zenon
    <2>7. (\A v \in Workers : Alive(v) /\ error[v] => stop[v])'
      <3> SUFFICES ASSUME NEW v \in Workers, Alive(v), error'[v]
                   PROVE  stop'[v]
        BY <1>14 DEF Alive, BeatRenew
      <3>1. CASE v = w
        BY <1>1, <2>5, <3>1 DEF WorkerTypes
      <3>2. CASE v # w
        BY <1>1, <2>5, <3>2 DEF WorkerTypes
      <3> QED
        BY <3>1, <3>2
    <2>8. WorkerTypes'
      BY <1>1, <1>14, <2>3, <2>4, <2>6, <2>7 DEF BeatRenew, WorkerTypes
    <2> QED
      BY <1>4, <1>5, <1>6, <1>14, <2>5, <2>8 DEF BeatRenew
  <1> QED
    BY <1>8, <1>9, <1>10, <1>11, <1>12, <1>13, <1>14
       DEF WorkerStep, PlanTimeout, PlanRefused, PlanError, Failing, StopSignal, Told, WorkerCrash

LEMMA CoordTyped ==
    ASSUME DInv, NEW k \in Coordinators, [Next]_qvars,
           CoordStep(k) \/ CoordInterrupt(k) \/ CoordCrash(k)
    PROVE  SlotTypes' /\ WorkerTypes' /\ CoordTypes' /\ faults' \in 0..MaxFaults
  <1>1. SlotTypes /\ WorkerTypes /\ CoordTypes /\ faults \in 0..MaxFaults
    BY Types DEF DInv
  <1>2. /\ issued \subseteq issued' /\ minted <= minted' /\ minted' \in Nat
        /\ run <= run' /\ run' \in Nat /\ minted \in Nat /\ run \in Nat
    BY HistoryGrows DEF DInv, IInv, TypeOK
  <1>3. UNCHANGED <<wvars, svars>> => SlotTypes' /\ WorkerTypes'
    BY <1>1, <1>2, SlotsKept, WorkersKept
  <1>4. Fault \/ UNCHANGED faults => faults' \in 0..MaxFaults
    BY <1>1, FaultCounted
  <1>5. 0..run \subseteq 0..run'
    BY <1>2
  <1>6. /\ now \in Nat /\ Timeout \in Nat /\ results \in [Cases -> Result \cup {NoResult}]
        /\ [c \in Cases |-> NoResult] \in [Cases -> Result \cup {NoResult}]
    BY DEF DInv, IInv, TypeOK
  <1>7. CASE CoordStart(k)
    <2>1. CoordTypes'
      BY <1>1, <1>5, <1>6, <1>7 DEF CoordStart, CoordTypes, CGoto
    <2> QED
      BY <1>3, <1>4, <1>7, <2>1 DEF CoordStart
  <1>8. CASE CoordCreate(k)
    <2>1. \/ crun' = [crun EXCEPT ![k] = run'] \/ UNCHANGED crun
      BY <1>8 DEF CoordCreate
    <2>2. crun' \in [Coordinators -> 0..run']
      BY <1>1, <1>2, <1>5, <2>1 DEF CoordTypes
    <2>3. CoordTypes'
      BY <1>1, <1>8, <2>2 DEF CoordCreate, CoordTypes, CGoto
    <2> QED
      BY <1>3, <1>4, <1>8, <2>3 DEF CoordCreate, Failing
  <1>9. CASE CoordCollect(k)
    <2>1. UNCHANGED cerror \/ CError(k, "redis")
      BY <1>9 DEF CoordCollect, CoordFails
    <2>2. CGoto(k, "close") \/ CGoto(k, "check")
      BY <1>9 DEF CoordCollect, CoordFails
    <2>3. CoordTypes'
      <3>1. cerror' \in [Coordinators -> {"none", "redis", "missing", "unclosed"}]
        BY <1>1, <2>1 DEF CoordTypes, CError
      <3>2. cpc' \in [Coordinators -> {"start", "create", "collect", "check", "close", "unwind",
                                       "reported", "aborted", "crashed"}]
        BY <1>1, <2>2 DEF CoordTypes, CGoto
      <3>3. cresults' \in [Coordinators -> [Cases -> Result \cup {NoResult}]]
        BY <1>1, <1>6, <1>9 DEF CoordCollect, CoordTypes
      <3> QED
        BY <1>1, <1>5, <1>9, <3>1, <3>2, <3>3 DEF CoordCollect, CoordTypes
    <2> QED
      BY <1>3, <1>4, <1>9, <2>3 DEF CoordCollect, CoordFails, Failing
  <1>10. CASE CoordCheck(k)
    <2>1. \/ UNCHANGED cerror \/ CError(k, "missing") \/ CError(k, "redis")
      BY <1>10 DEF CoordCheck, CoordFails
    <2>2. CGoto(k, "close") \/ CGoto(k, "collect")
      BY <1>10 DEF CoordCheck, CoordFails
    <2>3. UNCHANGED cresults \/ CForgets(k)
      BY <1>10 DEF CoordCheck
    <2>4. UNCHANGED <<wvars, svars, cdeadline, crun>> /\ (Fault \/ UNCHANGED faults)
      BY <1>10 DEF CoordCheck, CoordFails, Failing
    <2>5. CoordTypes'
      <3>1. cerror' \in [Coordinators -> {"none", "redis", "missing", "unclosed"}]
        BY <1>1, <2>1 DEF CoordTypes, CError
      <3>2. cpc' \in [Coordinators -> {"start", "create", "collect", "check", "close", "unwind",
                                       "reported", "aborted", "crashed"}]
        BY <1>1, <2>2 DEF CoordTypes, CGoto
      <3>3. cresults' \in [Coordinators -> [Cases -> Result \cup {NoResult}]]
        BY <1>1, <1>6, <2>3 DEF CoordTypes, CForgets
      <3> QED
        BY <1>1, <1>5, <2>4, <3>1, <3>2, <3>3 DEF CoordTypes
    <2> QED
      BY <1>3, <1>4, <2>4, <2>5
  <1>11. CASE CoordClose(k)
    <2>1. \/ UNCHANGED cerror \/ CError(k, "unclosed")
      BY <1>11 DEF CoordClose
    <2>2. CGoto(k, "reported") \/ CGoto(k, "aborted")
      BY <1>11 DEF CoordClose
    <2>3. CoordTypes'
      <3>1. cerror' \in [Coordinators -> {"none", "redis", "missing", "unclosed"}]
        BY <1>1, <2>1 DEF CoordTypes, CError
      <3>2. cpc' \in [Coordinators -> {"start", "create", "collect", "check", "close", "unwind",
                                       "reported", "aborted", "crashed"}]
        BY <1>1, <2>2 DEF CoordTypes, CGoto
      <3> QED
        BY <1>1, <1>5, <1>11, <3>1, <3>2 DEF CoordClose, CoordTypes
    <2> QED
      BY <1>3, <1>4, <1>11, <2>3 DEF CoordClose, Failing
  <1>12. CASE CoordInterrupt(k) \/ CoordCrash(k)
    <2>1. /\ CForgets(k) /\ UNCHANGED <<cdeadline, crun, cerror>>
          /\ CGoto(k, "unwind") \/ CGoto(k, "crashed")
      BY <1>12 DEF CoordInterrupt, CoordCrash
    <2>2. cresults' \in [Coordinators -> [Cases -> Result \cup {NoResult}]]
      BY <1>1, <1>6, <2>1 DEF CoordTypes, CForgets
    <2>3. cpc' \in [Coordinators -> {"start", "create", "collect", "check", "close", "unwind",
                                     "reported", "aborted", "crashed"}]
      BY <1>1, <2>1 DEF CoordTypes, CGoto
    <2>4. CoordTypes'
      BY <1>1, <1>5, <2>1, <2>2, <2>3 DEF CoordTypes
    <2> QED
      BY <1>3, <1>4, <1>12, <2>4 DEF CoordInterrupt, CoordCrash
  <1> QED
    BY <1>7, <1>8, <1>9, <1>10, <1>11, <1>12 DEF CoordStep

LEMMA InitDInv == DInit => DInv
  <1> SUFFICES ASSUME DInit PROVE DInv
    OBVIOUS
  <1>1. IInv
    BY InitIInv DEF DInit
  <1>2. [c \in Cases |-> NoResult] \in [Cases -> Result \cup {NoResult}]
    OBVIOUS
  <1>3. SlotTypes
    BY DEF DInit, SlotTypes, Holding, Busy
  <1>4. WorkerTypes
    BY DEF DInit, WorkerTypes, Alive
  <1>5. CoordTypes
    BY <1>2 DEF DInit, Init, CoordTypes
  <1>6. faults \in 0..MaxFaults
    BY DEF DInit
  <1> QED
    BY <1>1, <1>3, <1>4, <1>5, <1>6, Types DEF DInv

LEMMA NextDInv == DInv /\ [DNext]_dvars => DInv'
  <1> SUFFICES ASSUME DInv, [DNext]_dvars PROVE DInv'
    OBVIOUS
  <1>1. [Next]_qvars
    BY StepUses
  <1>2. IInv'
    BY <1>1, NextIInv DEF DInv
  <1>3. SlotTypes' /\ WorkerTypes' /\ CoordTypes' /\ faults' \in 0..MaxFaults
    <2>1. CASE UNCHANGED <<wvars, svars, cvars, faults>>
      <3>1. SlotTypes /\ WorkerTypes /\ CoordTypes /\ faults \in 0..MaxFaults
        BY Types DEF DInv
      <3>2. /\ issued \subseteq issued' /\ minted <= minted' /\ minted' \in Nat
            /\ run <= run' /\ run' \in Nat /\ minted \in Nat /\ run \in Nat
        BY <1>1, HistoryGrows DEF DInv, IInv, TypeOK
      <3> QED
        BY <2>1, <3>1, <3>2, SlotsKept, WorkersKept, CoordsKept
    <2> QED
      BY <1>1, <2>1, WorkerTyped, SlotTyped, CoordTyped DEF DNext, dvars, Time
  <1>4. (DTypeOK /\ Holding)'
    <2>1. (SlotTypes /\ WorkerTypes /\ CoordTypes /\ faults \in 0..MaxFaults)'
      BY <1>3
    <2> QED
      BY <2>1, Types, PTL
  <1> QED
    BY <1>2, <1>4 DEF DInv

\* The invariant of the queue, the types of the processes, and that slots and
\* heartbeats work only with jobs a claim returned.
THEOREM DInvariant == DSpec => []DInv
  <1> QED
    BY InitDInv, NextDInv, PTL DEF DSpec

\* Type correctness of workers and coordinators; also, a worker that has met a
\* RedisError and is still alive is stopping (Worker.heartbeat, Worker.consume).
THEOREM ProcessesTyped == DSpec => []DTypeOK
  <1>1. DInv => DTypeOK
    BY DEF DInv
  <1> QED
    BY <1>1, DInvariant, PTL

\* The processes of a distributed run, with every RedisError, crash and signal,
\* are clients of the queue: each behaviour of them is one RunQueue allows.
THEOREM QueueUsed == DSpec => UsesQueue
  <1>1. DInit => Init
    BY DEF DInit
  <1> QED
    BY <1>1, InitDInv, NextDInv, StepUses, PTL DEF DSpec, UsesQueue, Spec

---------------------------------------------------------------------------
(***************************************************************************)
(* Proofs about the report a coordinator makes (distributed_run), for any  *)
(* number of coordinators and workers and whatever fails on the way.  What *)
(* a coordinator has read of the current run stays what Redis has, because *)
(* results are final; and a run that it has closed stays over.             *)
(***************************************************************************)

\* A coordinator has a run exactly once its submission has gone through.
Submitted ==
    \A k \in Coordinators :
        /\ cpc[k] \in {"start", "create"} => crun[k] = 0
        /\ cpc[k] \in {"collect", "check", "close", "unwind", "reported"} => crun[k] # 0

\* A result a coordinator has read came with its own creation of the run ID or
\* a later one, and is still there if it belongs to the current run.
Snapshot ==
    \A k \in Coordinators : \A c \in Cases :
        cresults[k][c] # NoResult =>
            /\ crun[k] # 0
            /\ crun[k] <= cresults[k][c].run
            /\ cresults[k][c].run <= run
            /\ cresults[k][c].run = run /\ meta # NoRun => results[c] = cresults[k][c]

RInv == DInv /\ Submitted /\ Snapshot /\ ReportIsLast

---------------------------------------------------------------------------
LEMMA CoordsOrNot ==
    [DNext]_dvars => UNCHANGED cvars \/ \E k \in Coordinators :
                        CoordStep(k) \/ CoordInterrupt(k) \/ CoordCrash(k)
  BY DEF DNext, dvars, Time, WorkerStep, PlanArrives, PlanTimeout, GiveUpWaiting, WorkerExit,
         PlanRefused, PlanError, StopSignal, WorkerCrash, Dies, BeatStart, BeatRenew, SlotStep, Top,
         Claim, CountResults, IsOpen, RunSteps, Teardown, Submit, SlotFails, Calm, cvars

LEMMA SubmittedKept ==
    ASSUME DInv, Submitted, [DNext]_dvars
    PROVE  Submitted'
  <1>1. run \in Nat /\ CoordTypes
    BY Types DEF DInv, IInv, TypeOK
  <1>2. CASE UNCHANGED cvars
    BY <1>2 DEF Submitted, cvars
  <1>3. ASSUME NEW k \in Coordinators, CoordStep(k) \/ CoordInterrupt(k) \/ CoordCrash(k)
        PROVE  Submitted'
    <2>1. CASE CoordStart(k) \/ CoordCollect(k) \/ CoordCheck(k) \/ CoordClose(k)
               \/ CoordInterrupt(k) \/ CoordCrash(k)
      BY <1>1, <2>1
         DEF Submitted, CoordTypes, CGoto, CoordStart, CoordCollect, CoordCheck, CoordClose,
             CoordInterrupt, CoordCrash, CoordFails
    <2>2. CASE CoordCreate(k)
      <3>1. CASE Create(Suite, Timeout) /\ CGoto(k, "collect")
                 /\ crun' = [crun EXCEPT ![k] = run']
        <4>1. run' # 0
          BY <1>1, <3>1 DEF Create, SubmitRun
        <4> QED
          BY <1>1, <3>1, <4>1 DEF Submitted, CoordTypes, CGoto
      <3>2. CASE CGoto(k, "aborted") /\ UNCHANGED crun
        BY <1>1, <3>2 DEF Submitted, CoordTypes, CGoto
      <3> QED
        BY <2>2, <3>1, <3>2 DEF CoordCreate
    <2> QED
      BY <1>3, <2>1, <2>2 DEF CoordStep
  <1> QED
    BY <1>2, <1>3, CoordsOrNot

\* Only a new creation brings back a run whose keys are gone.
LEMMA GoneUntilCreated ==
    ASSUME IInv, [Next]_qvars, meta = NoRun, run' = run
    PROVE  meta' = NoRun
  <1>1. ~Active /\ run \in Nat
    BY DEF Active, NoRun, IInv, TypeOK
  <1> QED
    BY <1>1 DEF Next, Create, SubmitRun, ClaimJob, ClaimNone, ClaimScript, Renew, Complete, Owns,
                Close, Tick, ExpireKeys, Outlived, qvars, store

\* What has been read of the store stays true of it.
LEMMA ReadStays ==
    ASSUME IInv, [Next]_qvars, NEW c \in Cases, NEW r \in Result, r.run <= run,
           r.run = run /\ meta # NoRun => results[c] = r
    PROVE  /\ r.run <= run'
           /\ r.run = run' /\ meta' # NoRun => results'[c] = r
  <1>1. run \in Nat /\ run' \in Nat /\ run <= run' /\ r.run \in Nat /\ r # NoResult
    BY HistoryGrows DEF IInv, TypeOK, Result, NoResult
  <1>2. ASSUME r.run = run', meta' # NoRun PROVE results'[c] = r
    <2>1. run' = run /\ meta # NoRun
      BY <1>1, <1>2, GoneUntilCreated
    <2>2. Finished(c) /\ results[c] = r
      BY <1>1, <1>2, <2>1 DEF Finished
    <2> QED
      BY <1>2, <2>2, ResultKept DEF Forgotten
  <1> QED
    BY <1>1, <1>2

LEMMA SnapshotKept ==
    ASSUME DInv, Submitted, Snapshot, [DNext]_dvars
    PROVE  Snapshot'
  <1>1. CoordTypes /\ run \in Nat /\ run' \in Nat /\ run <= run' /\ [Next]_qvars
    BY Types, StepUses, HistoryGrows DEF DInv, IInv, TypeOK
  <1> DEFINE Reading(k, c) ==
                cresults[k][c] # NoResult =>
                    /\ crun[k] # 0
                    /\ crun[k] <= cresults[k][c].run
                    /\ cresults[k][c].run <= run
                    /\ cresults[k][c].run = run /\ meta # NoRun => results[c] = cresults[k][c]
  <1>2. ASSUME NEW k \in Coordinators, NEW c \in Cases,
               cresults'[k] = cresults[k], crun'[k] = crun[k]
        PROVE  Reading(k, c)'
    <2>1. Reading(k, c)
      BY DEF Snapshot
    <2>2. cresults[k][c] # NoResult => cresults[k][c] \in Result
      BY <1>1 DEF CoordTypes
    <2> QED
      BY <1>1, <1>2, <2>1, <2>2, ReadStays DEF DInv
  <1>3. ASSUME NEW k \in Coordinators, NEW c \in Cases, cresults'[k][c] = NoResult
        PROVE  Reading(k, c)'
    BY <1>3
  <1>4. ASSUME NEW k \in Coordinators, NEW c \in Cases, CoordCollect(k), cresults'[k] = results
        PROVE  Reading(k, c)'
    <2>1. UNCHANGED <<qvars, crun>> /\ crun[k] # 0 /\ crun[k] \in 0..run
      BY <1>1, <1>4 DEF CoordCollect, Submitted, CoordTypes
    <2>2. results[c] # NoResult => results[c].run = run
      BY DEF DInv, IInv, Provenance, Finished
    <2> QED
      BY <1>1, <1>4, <2>1, <2>2 DEF qvars, store, history
  <1>5. ASSUME NEW k \in Coordinators, CoordStep(k) \/ CoordInterrupt(k) \/ CoordCrash(k),
               NEW l \in Coordinators, NEW c \in Cases
        PROVE  Reading(l, c)'
    <2>1. CASE l # k
      <3>1. cresults'[l] = cresults[l] /\ crun'[l] = crun[l]
        BY <1>1, <1>5, <2>1
           DEF CoordTypes, CoordStep, CoordStart, CoordCreate, CoordCollect, CoordCheck,
               CoordClose, CoordInterrupt, CoordCrash, CForgets
      <3> QED
        BY <1>2, <3>1
    <2>2. CASE l = k /\ CoordCreate(k)
      <3>1. Reading(k, c) /\ crun[k] = 0 /\ UNCHANGED cresults
        BY <2>2 DEF Snapshot, Submitted, CoordCreate
      <3> QED
        BY <1>3, <2>2, <3>1
    <2>3. CASE l = k /\ CoordCollect(k)
      <3>1. cresults'[k] = results \/ (cresults'[k] = cresults[k] /\ crun'[k] = crun[k])
        BY <1>1, <2>3 DEF CoordCollect, CoordTypes
      <3> QED
        BY <1>2, <1>4, <2>3, <3>1
    <2>4. CASE l = k /\ ~CoordCreate(k) /\ ~CoordCollect(k)
      <3>1. UNCHANGED crun /\ (CForgets(k) \/ UNCHANGED cresults)
        BY <1>5, <2>4 DEF CoordStep, CoordStart, CoordCheck, CoordClose, CoordInterrupt, CoordCrash
      <3>2. CForgets(k) => cresults'[k][c] = NoResult
        BY <1>1 DEF CForgets, CoordTypes
      <3> QED
        BY <1>2, <1>3, <2>4, <3>1, <3>2
    <2> QED
      BY <2>1, <2>2, <2>3, <2>4
  <1>6. \A k \in Coordinators : \A c \in Cases : Reading(k, c)'
    BY <1>2, <1>5, CoordsOrNot DEF cvars
  <1> QED
    BY <1>6 DEF Snapshot

\* CLOSE, or keys that are gone already, end the run.
LEMMA CloseEnds == TypeOK /\ CloseRun => ~Active'
  BY DEF CloseRun, Close, Active, NoRun, TypeOK, qvars, store

LEMMA ReportStaysLast ==
    ASSUME DInv, Submitted, ReportIsLast, [DNext]_dvars
    PROVE  ReportIsLast'
  <1>1. CoordTypes /\ run \in Nat /\ run' \in Nat /\ run <= run' /\ [Next]_qvars /\ TypeOK
    BY Types, StepUses, HistoryGrows DEF DInv, IInv, TypeOK
  <1> DEFINE Over(k) ==
                cpc[k] = "reported" /\ cerror[k] # "unclosed" /\ run = crun[k] => ~Active
  <1>2. ASSUME NEW k \in Coordinators,
               cpc'[k] = "reported" => /\ cpc[k] = "reported"
                                       /\ cerror'[k] = cerror[k] /\ crun'[k] = crun[k]
        PROVE  Over(k)'
    <2> SUFFICES ASSUME cpc[k] = "reported", cerror[k] # "unclosed", run' = crun[k]
                 PROVE  ~Active'
      BY <1>2
    <2>1. crun[k] <= run
      BY <1>1 DEF CoordTypes
    <2>2. run' = run /\ ~Active
      BY <1>1, <2>1 DEF ReportIsLast
    <2> QED
      BY <1>1, <2>2, OverKept DEF DInv
  <1>3. ASSUME NEW k \in Coordinators, CoordStep(k) \/ CoordInterrupt(k) \/ CoordCrash(k),
               NEW l \in Coordinators
        PROVE  Over(l)'
    <2>1. CASE l # k
      <3>1. cpc'[l] = cpc[l] /\ cerror'[l] = cerror[l] /\ crun'[l] = crun[l]
        BY <1>1, <1>3, <2>1
           DEF CoordTypes, CoordStep, CoordStart, CoordCreate, CoordCollect, CoordCheck,
               CoordClose, CoordInterrupt, CoordCrash, CoordFails, CGoto, CError
      <3> QED
        BY <1>2, <3>1
    <2>2. CASE l = k /\ ~CoordClose(k)
      <3>1. cpc'[k] # "reported"
        BY <1>1, <1>3, <2>2
           DEF CoordTypes, CoordStep, CoordStart, CoordCreate, CoordCollect, CoordCheck,
               CoordInterrupt, CoordCrash, CoordFails, CGoto
      <3> QED
        BY <1>2, <2>2, <3>1
    <2>3. CASE l = k /\ CoordClose(k)
      <3>1. CloseRun \/ CError(k, "unclosed")
        BY <2>3 DEF CoordClose
      <3>2. CError(k, "unclosed") => cerror'[k] = "unclosed"
        BY <1>1 DEF CoordTypes, CError
      <3> QED
        BY <1>1, <2>3, <3>1, <3>2, CloseEnds
    <2> QED
      BY <2>1, <2>2, <2>3
  <1>4. \A k \in Coordinators : Over(k)'
    BY <1>2, <1>3, CoordsOrNot DEF cvars
  <1> QED
    BY <1>4 DEF ReportIsLast

---------------------------------------------------------------------------
LEMMA InitRInv == DInit => RInv
  BY InitDInv DEF DInit, RInv, Submitted, Snapshot, ReportIsLast

LEMMA NextRInv == RInv /\ [DNext]_dvars => RInv'
  BY NextDInv, SubmittedKept, SnapshotKept, ReportStaysLast DEF RInv

\* The run of every coordinator that has one is its own, what it has read of the
\* current run is what Redis has, and the run it has reported is over.
THEOREM ReportInvariant == DSpec => []RInv
  BY InitRInv, NextRInv, PTL DEF DSpec

\* Once a report is made and close() did not fail, the run is over: no result is
\* accepted any more that would contradict it (the finally of distributed_run).
THEOREM ReportsAreLast == DSpec => []ReportIsLast
  <1>1. RInv => ReportIsLast
    BY DEF RInv
  <1> QED
    BY <1>1, ReportInvariant, PTL

\* A coordinator reads no result that was in Redis before its own submission
\* (EXISTS in CREATE, and the expiry on every key).
THEOREM ReportsAreFresh == DSpec => []NoStaleResults
  <1>1. RInv => NoStaleResults
    <2> SUFFICES ASSUME RInv, NEW k \in Coordinators, NEW c \in Suite, cresults[k][c] # NoResult
                 PROVE  crun[k] # 0 /\ cresults[k][c].run >= crun[k]
      BY DEF NoStaleResults
    <2>1. c \in Cases
      OBVIOUS
    <2>2. CoordTypes /\ run \in Nat
      BY Types DEF RInv, DInv, IInv, TypeOK
    <2>3. cresults[k][c].run \in Nat /\ crun[k] \in Nat
      BY <2>1, <2>2 DEF CoordTypes, Result
    <2> QED
      BY <2>1, <2>3 DEF RInv, Snapshot
  <1> QED
    BY <1>1, ReportInvariant, PTL

\* A green run is green, whatever failed, crashed or was delivered twice on the
\* way: with exit code 0 every case has an accepted, passed result of a worker.
THEOREM GreenIsGreen == DSpec => []GreenMeansAllPassed
  <1>1. RInv => GreenMeansAllPassed
    <2> SUFFICES ASSUME RInv, NEW k \in Coordinators,
                        cpc[k] = "reported", ExitCode(k) = 0, meta # NoRun, run = crun[k],
                        NEW c \in Suite
                 PROVE  results[c].status = "passed" /\ results[c].token # NoToken
      BY DEF GreenMeansAllPassed
    <2>1. c \in Cases
      OBVIOUS
    <2>2. "error" \notin ReportStatuses(k) /\ "failed" \notin ReportStatuses(k)
      BY DEF ExitCode
    <2>3. cresults[k][c] # NoResult /\ cresults[k][c].status \notin {"error", "failed"}
      BY <2>2 DEF ReportStatuses
    <2>4. cresults[k][c] \in Result /\ CoordTypes /\ run \in Nat
      BY <2>1, <2>3, Types DEF RInv, DInv, IInv, TypeOK, CoordTypes
    <2>5. cresults[k][c].status = "passed"
      BY <2>3, <2>4 DEF Result
    <2>6. results[c] = cresults[k][c]
      <3>1. cresults[k][c].run \in Nat /\ cresults[k][c].run = run
        BY <2>1, <2>3, <2>4 DEF RInv, Snapshot, Result
      <3> QED
        BY <2>1, <2>3, <3>1 DEF RInv, Snapshot
    <2>7. results[c].token # NoToken
      BY <2>1, <2>3, <2>5, <2>6 DEF RInv, DInv, IInv, Provenance, Finished
    <2> QED
      BY <2>5, <2>6, <2>7
  <1> QED
    BY <1>1, ReportInvariant, PTL

---------------------------------------------------------------------------
(***************************************************************************)
(* Proofs about what a worker knows of its leases: the lost-lease flag the *)
(* heartbeat sets is no false alarm, and a slot that has moved on leaves   *)
(* no live lease behind.  Both rest on ownership being lost for good: a    *)
(* job that could not be completed once never can be again.                *)
(***************************************************************************)

\* No two slots have, or had last, the same job.
OneSlotEach ==
    \A s, t \in Slots : job[s] # NoJob /\ job[s].token = job[t].token => s = t

\* A heartbeat renews the jobs of its own worker.
BeatsOwn ==
    \A w \in Workers : \A j \in beat[w] : \A s \in Slots : job[s] = j => WorkerOf(s) = w

\* Only a running worker has slots with a job.
BusyRuns == \A s \in Slots : Busy(s) => Running(s)

LInv == DInv /\ OneSlotEach /\ BeatsOwn /\ BusyRuns /\ LostIsFenced /\ NothingLeftBehind

---------------------------------------------------------------------------
(* Ownership is lost for good *)

LEMMA LeaseGone ==
    ASSUME IInv, [Next]_qvars, NEW j \in issued, ~Owns(j)
    PROVE  ~Owns(j)'
  <1>1. /\ j.case \in Cases /\ j.token \in Nat \ {0} /\ j.token <= minted /\ minted \in Nat
        /\ now \in Nat /\ meta.deadline \in Nat /\ leases[j.case] \in Nat
        /\ owners[j.case] \in Nat
    BY DEF IInv, TypeOK, Job, Tokens
  <1>2. CASE \E suite \in Suites, timeout \in RunTimeouts : Create(suite, timeout)
    <2>1. owners'[j.case] = NoToken
      BY <1>1, <1>2 DEF Create, SubmitRun, IInv, Blank
    <2> QED
      BY <1>1, <2>1 DEF Owns, NoToken
  <1>3. ASSUME NEW lease \in LeaseTimes, ClaimScript(minted + 1, lease)
        PROVE  ~Owns(j)'
    <2>1. Active
      BY <1>3 DEF ClaimScript
    <2>2. \/ owners'[j.case] = minted + 1
          \/ owners'[j.case] = NoToken
          \/ owners'[j.case] = owners[j.case] /\ leases'[j.case] = leases[j.case]
      BY <1>1, <1>3 DEF ClaimScript
    <2>3. now' = now
      BY <1>3 DEF ClaimScript
    <2> QED
      BY <1>1, <2>1, <2>2, <2>3 DEF Owns, NoToken
  <1>4. CASE (\E c \in Cases, lease \in LeaseTimes : ClaimJob(c, lease))
             \/ \E lease \in LeaseTimes : ClaimNone(lease)
    BY <1>3, <1>4 DEF ClaimJob, ClaimNone
  <1>5. ASSUME NEW k \in issued, NEW lease \in LeaseTimes, Renew(k, lease)
        PROVE  ~Owns(j)'
    <2>1. k.case = j.case => k.token # j.token
      BY <1>5 DEF Renew, Owns
    <2>2. /\ owners'[j.case] = owners[j.case] /\ meta' = meta /\ now' = now
          /\ k.case # j.case => leases'[j.case] = leases[j.case]
          /\ owners[k.case] = k.token
      BY <1>1, <1>5 DEF Renew, Owns, IInv, TypeOK
    <2> QED
      BY <2>1, <2>2 DEF Owns, Active
  <1>6. ASSUME NEW k \in issued, NEW status \in Statuses, Complete(k, status)
        PROVE  ~Owns(j)'
    <2>1. \/ owners'[j.case] = NoToken
          \/ owners'[j.case] = owners[j.case] /\ leases'[j.case] = leases[j.case]
      BY <1>1, <1>6 DEF Complete, IInv, TypeOK
    <2>2. meta' = meta /\ now' = now
      BY <1>6 DEF Complete
    <2> QED
      BY <1>1, <2>1, <2>2 DEF Owns, Active, NoToken
  <1>7. CASE Close
    BY <1>7 DEF Close, Owns, Active, IInv, TypeOK
  <1>8. CASE Tick
    BY <1>1, <1>8 DEF Tick, store, Owns, Active
  <1>9. CASE ExpireKeys
    BY <1>9, ExpireEffect DEF Owns, Active, NoRun, ExpireKeys, Outlived
  <1>10. CASE UNCHANGED qvars
    BY <1>10 DEF qvars, store, Owns, Active
  <1> QED
    BY <1>2, <1>4, <1>5, <1>6, <1>7, <1>8, <1>9, <1>10 DEF Next

\* A completed job, like one whose case has a result, owns nothing.
LEMMA FinishedGone ==
    ASSUME IInv, NEW j \in issued, Finished(j.case)
    PROVE  ~Owns(j)
  <1>1. j.case \in Cases /\ now \in Nat
    BY DEF IInv, TypeOK, Job
  <1>2. leases[j.case] = 0
    BY <1>1 DEF IInv, OnePlace, Leased
  <1> QED
    BY <1>1, <1>2 DEF Owns

LEMMA CompletedGone ==
    ASSUME IInv, NEW j \in issued, NEW status \in Statuses, Complete(j, status)
    PROVE  ~Owns(j)'
  <1>1. j.case \in Cases /\ j.token # NoToken
    BY DEF IInv, TypeOK, Job, NoToken
  <1>2. owners'[j.case] = NoToken
    BY <1>1 DEF Complete, IInv, TypeOK
  <1> QED
    BY <1>1, <1>2 DEF Owns

---------------------------------------------------------------------------
(* The steps, as far as jobs and flags are concerned *)

\* A slot that has no job yet, or a job of its own.
LEMMA TokensApart ==
    ASSUME DInv, NEW s \in Slots
    PROVE  /\ job[s] \in issued \cup {NoJob}
           /\ job[s] = NoJob <=> job[s].token = NoToken
           /\ job[s] \in issued => job[s].token \in 1..minted
           /\ \A j \in issued : job[s].token = j.token => job[s] = j
  <1>1. job[s] \in issued \cup {NoJob}
    BY DEF DInv, DTypeOK
  <1>2. \A j \in issued : j.token \in 1..minted /\ j.token # NoToken
    BY TokenMinted DEF DInv, NoToken
  <1>3. \A j, k \in issued : j.token = k.token => j = k
    BY DEF DInv, IInv, Tokens
  <1>4. NoJob.token = NoToken
    BY DEF NoJob
  <1> QED
    BY <1>1, <1>2, <1>3, <1>4

\* The job a claim hands to a slot is new.
LEMMA ClaimIsNew ==
    ASSUME DInv, NEW c \in Cases, ClaimJob(c, Lease)
    PROVE  LET j == CHOOSE k \in issued' : k.token = minted'
           IN  j \in issued' /\ j.token = minted + 1 /\ minted' = minted + 1
  <1> DEFINE n == [case |-> c, token |-> minted + 1, delivery |-> attempts'[c], run |-> run]
  <1>1. n \in issued' /\ n.token = minted' /\ minted' = minted + 1
    BY DEF ClaimJob
  <1> QED
    BY <1>1

\* What a slot's step does to its job and to the flags.
Fails(s) ==
    /\ error' = [error EXCEPT ![WorkerOf(s)] = TRUE]
    /\ pc' = [pc EXCEPT ![s] = "off"]
    /\ lost' = lost \ {job[s].token}
    /\ UNCHANGED <<wstate, beat, job>>

Takes(s, n) ==
    /\ n \in issued' /\ n.token = minted + 1 /\ minted' = minted + 1
    /\ job' = [job EXCEPT ![s] = n]
    /\ pc' = [pc EXCEPT ![s] = "steps"]
    /\ UNCHANGED wvars

Ends(s) ==
    /\ Busy(s)
    /\ pc' = [pc EXCEPT ![s] = "top"]
    /\ lost' = lost \ {job[s].token}
    /\ UNCHANGED <<wstate, error, beat, job>>
    /\ ~Owns(job[s])'

Moves(s) ==
    /\ \E label \in {"off", "top", "claim", "count", "open", "teardown", "complete"} :
          /\ pc' = [pc EXCEPT ![s] = label]
          /\ label \in {"teardown", "complete"} <=> Busy(s)
    /\ UNCHANGED <<wvars, job>>

LEMMA SlotEffect ==
    ASSUME DInv, NEW s \in Slots, SlotStep(s)
    PROVE  Running(s) /\ (Fails(s) \/ (\E n \in issued' : Takes(s, n)) \/ Ends(s) \/ Moves(s))
  <1>1. CASE Top(s) \/ CountResults(s) \/ IsOpen(s) \/ RunSteps(s) \/ Teardown(s)
    BY <1>1 DEF Top, CountResults, IsOpen, RunSteps, Teardown, SlotFails, Goto, Calm, wvars,
                Fails, Moves, Busy
  <1>2. CASE Claim(s)
    <2>1. CASE /\ \E c \in Cases : ClaimJob(c, Lease)
               /\ job' = [job EXCEPT ![s] = CHOOSE j \in issued' : j.token = minted']
               /\ Goto(s, "steps") /\ Calm
      <3> DEFINE n == CHOOSE j \in issued' : j.token = minted'
      <3>1. n \in issued' /\ n.token = minted + 1 /\ minted' = minted + 1
        BY <2>1, ClaimIsNew
      <3>2. job' = [job EXCEPT ![s] = n]
        BY <2>1
      <3> HIDE DEF n
      <3>3. Takes(s, n)
        BY <2>1, <3>1, <3>2 DEF Goto, Calm, Takes
      <3> QED
        BY <1>2, <3>1, <3>3 DEF Claim
    <2>2. CASE Goto(s, "count") /\ UNCHANGED job /\ Calm
      BY <1>2, <2>2 DEF Claim, Goto, Calm, Moves, Busy
    <2> QED
      BY <1>2, <2>1, <2>2 DEF Claim, SlotFails, Goto, Fails
  <1>3. CASE Submit(s)
    <2>1. job[s] \in issued /\ verdict[s] \in Statuses /\ Busy(s)
      BY <1>3 DEF Submit, DInv, Holding, Busy, DTypeOK
    <2>2. CASE /\ \/ CompleteJob(s)
                  \/ (~Owns(job[s]) \/ Finished(job[s].case)) /\ UNCHANGED qvars
               /\ Goto(s, "top") /\ lost' = lost \ {job[s].token}
               /\ UNCHANGED <<wstate, error, beat, job>>
      <3>1. CompleteJob(s) => ~Owns(job[s])'
        BY <2>1, <2>2, CompletedGone DEF CompleteJob, DInv
      <3>2. Finished(job[s].case) => ~Owns(job[s])
        BY <2>1, FinishedGone DEF DInv
      <3>3. ~Owns(job[s]) /\ UNCHANGED qvars => ~Owns(job[s])'
        BY <2>2 DEF Owns, Active, qvars, store
      <3> QED
        BY <1>3, <2>1, <2>2, <3>1, <3>2, <3>3 DEF Submit, Ends, Goto
    <2>3. CASE SlotFails(s, CompleteJob(s))
      BY <1>3, <2>3 DEF Submit, SlotFails, Goto, Fails
    <2> QED
      BY <1>3, <2>2, <2>3 DEF Submit
  <1> QED
    BY <1>1, <1>2, <1>3 DEF SlotStep, Claim, Submit

\* What the other steps do.
Rests(w) ==
    /\ UNCHANGED <<svars, lost>>
    /\ error' = error \/ error' = [error EXCEPT ![w] = TRUE]
    /\ beat' = beat \/ beat' = [beat EXCEPT ![w] = {}]
    /\ \/ UNCHANGED wstate
       \/ /\ wstate' = [wstate EXCEPT ![w] = "exited"]
          /\ wstate[w] = "waiting" \/ \A s \in SlotsOf(w) : ~Busy(s)

LEMMA StepEffect ==
    ASSUME DInv, [DNext]_dvars
    PROVE  \/ UNCHANGED <<svars, wvars>>
           \/ \E w \in Workers : \/ PlanArrives(w) \/ Rests(w) \/ WorkerCrash(w) \/ BeatStart(w)
                                 \/ \E j \in beat[w] : BeatRenew(w, j)
           \/ \E s \in Slots : Running(s) /\ (\/ Fails(s) \/ (\E n \in issued' : Takes(s, n))
                                              \/ Ends(s) \/ Moves(s))
  <1>1. CASE Time \/ UNCHANGED dvars
    BY <1>1 DEF Time, dvars
  <1>2. ASSUME NEW k \in Coordinators, CoordStep(k) \/ CoordInterrupt(k) \/ CoordCrash(k)
        PROVE  UNCHANGED <<svars, wvars>>
    BY <1>2 DEF CoordStep, CoordStart, CoordCreate, CoordCollect, CoordCheck, CoordClose,
                CoordInterrupt, CoordCrash
  <1>3. ASSUME NEW w \in Workers,
               PlanTimeout(w) \/ PlanRefused(w) \/ PlanError(w) \/ WorkerExit(w) \/ StopSignal(w)
        PROVE  Rests(w)
    BY <1>3 DEF PlanTimeout, PlanRefused, PlanError, GiveUpWaiting, WorkerExit, StopSignal,
                Rests, Busy
  <1> QED
    BY <1>1, <1>2, <1>3, SlotEffect DEF DNext, WorkerStep

LEMMA OneSlotKept ==
    ASSUME DInv, OneSlotEach, [DNext]_dvars
    PROVE  OneSlotEach'
  <1>1. CASE UNCHANGED job
    BY <1>1 DEF OneSlotEach
  <1>2. ASSUME NEW w \in Workers, WorkerCrash(w)
        PROVE  OneSlotEach'
    <2> SUFFICES ASSUME NEW s \in Slots, NEW t \in Slots, job'[s] # NoJob,
                        job'[s].token = job'[t].token
                 PROVE  s = t
      BY DEF OneSlotEach
    <2>1. job'[s] = job[s] /\ job[s] # NoJob /\ job[s].token # NoToken
      BY <1>2, TokensApart DEF WorkerCrash, Dies
    <2>2. job'[t] = job[t]
      BY <1>2, <2>1 DEF WorkerCrash, Dies, NoJob
    <2> QED
      BY <2>1, <2>2 DEF OneSlotEach
  <1>3. ASSUME NEW r \in Slots, NEW n \in issued', Takes(r, n)
        PROVE  OneSlotEach'
    <2>1. minted \in Nat /\ job \in [Slots -> issued \cup {NoJob}]
      BY DEF DInv, DTypeOK, IInv, TypeOK
    <2>2. \A s \in Slots : job[s].token \in 0..minted
      BY <2>1, TokensApart DEF NoToken
    <2>3. \A s \in Slots : job'[s] = IF s = r THEN n ELSE job[s]
      BY <1>3, <2>1 DEF Takes
    <2>4. n.token = minted + 1
      BY <1>3 DEF Takes
    <2> QED
      BY <2>1, <2>2, <2>3, <2>4 DEF OneSlotEach
  <1> QED
    BY <1>1, <1>2, <1>3, StepEffect
       DEF svars, PlanArrives, Rests, BeatStart, BeatRenew, Fails, Ends, Moves

LEMMA BeatsKept ==
    ASSUME DInv, OneSlotEach, BeatsOwn, [DNext]_dvars
    PROVE  BeatsOwn'
  <1>1. /\ beat \in [Workers -> SUBSET issued] /\ job \in [Slots -> issued \cup {NoJob}]
        /\ minted \in Nat /\ \A j \in issued : j.token \in 1..minted /\ j # NoJob
    BY TokenMinted DEF DInv, DTypeOK, IInv, TypeOK, NoJob, NoToken
  <1>2. CASE UNCHANGED job /\ \A w \in Workers : beat'[w] \subseteq beat[w]
    BY <1>2 DEF BeatsOwn
  <1>3. ASSUME NEW w \in Workers, BeatStart(w)
        PROVE  BeatsOwn'
    <2> SUFFICES ASSUME NEW j \in beat'[w], NEW s \in Slots, job[s] = j
                 PROVE  WorkerOf(s) = w
      BY <1>1, <1>3 DEF BeatsOwn, BeatStart, svars
    <2>1. PICK r \in SlotsOf(w) : Busy(r) /\ job[r] = j
      BY <1>1, <1>3 DEF BeatStart
    <2>2. job[r] \in issued
      BY <2>1 DEF DInv, Holding, SlotsOf
    <2>3. r = s
      BY <1>1, <2>1, <2>2 DEF OneSlotEach, SlotsOf
    <2> QED
      BY <2>1, <2>3 DEF SlotsOf
  <1>4. ASSUME NEW w \in Workers, WorkerCrash(w)
        PROVE  BeatsOwn'
    <2> SUFFICES ASSUME NEW v \in Workers, NEW j \in beat'[v], NEW s \in Slots, job'[s] = j
                 PROVE  WorkerOf(s) = v
      BY DEF BeatsOwn
    <2>1. j \in beat[v]
      BY <1>1, <1>4 DEF WorkerCrash, Dies
    <2>2. job'[s] = job[s]
      BY <1>1, <1>4, <2>1 DEF WorkerCrash, Dies
    <2> QED
      BY <2>1, <2>2 DEF BeatsOwn
  <1>5. ASSUME NEW r \in Slots, NEW n \in issued', Takes(r, n)
        PROVE  BeatsOwn'
    <2> SUFFICES ASSUME NEW v \in Workers, NEW j \in beat[v], NEW s \in Slots, job'[s] = j
                 PROVE  WorkerOf(s) = v
      BY <1>5 DEF BeatsOwn, Takes, wvars
    <2>1. j.token \in 1..minted /\ n.token = minted + 1
      BY <1>1, <1>5 DEF Takes
    <2>2. job'[s] = job[s]
      BY <1>1, <1>5, <2>1 DEF Takes
    <2> QED
      BY <2>2 DEF BeatsOwn
  <1>6. ASSUME NEW w \in Workers, PlanArrives(w) \/ Rests(w) \/ \E j \in beat[w] : BeatRenew(w, j)
        PROVE  UNCHANGED job /\ \A v \in Workers : beat'[v] \subseteq beat[v]
    BY <1>1, <1>6 DEF PlanArrives, Rests, BeatRenew, svars
  <1>7. ASSUME NEW s \in Slots, Fails(s) \/ Ends(s) \/ Moves(s)
        PROVE  UNCHANGED <<job, beat>>
    BY <1>7 DEF Fails, Ends, Moves, wvars
  <1> QED
    BY <1>2, <1>3, <1>4, <1>5, <1>6, <1>7, StepEffect DEF svars, wvars

LEMMA BusyKept ==
    ASSUME DInv, BusyRuns, [DNext]_dvars
    PROVE  BusyRuns'
  <1>1. /\ wstate \in [Workers -> {"waiting", "running", "exited", "dead"}]
        /\ pc \in [Slots -> {"off", "top", "claim", "count", "open", "steps", "teardown", "complete"}]
        /\ \A s \in Slots : WorkerOf(s) \in Workers
    BY DEF DInv, DTypeOK, Slots, WorkerOf
  <1>2. CASE UNCHANGED <<svars, wvars>>
    BY <1>2 DEF BusyRuns, Busy, Running, svars, wvars
  <1>3. ASSUME NEW w \in Workers, PlanArrives(w) PROVE BusyRuns'
    BY <1>1, <1>3 DEF BusyRuns, Busy, Running, PlanArrives, SlotsOf
  <1>4. ASSUME NEW w \in Workers, Rests(w) PROVE BusyRuns'
    BY <1>1, <1>4 DEF BusyRuns, Busy, Running, Rests, SlotsOf, svars
  <1>5. ASSUME NEW w \in Workers, WorkerCrash(w) PROVE BusyRuns'
    BY <1>1, <1>5 DEF BusyRuns, Busy, Running, WorkerCrash, Dies, SlotsOf
  <1>6. ASSUME NEW w \in Workers, BeatStart(w) \/ \E j \in beat[w] : BeatRenew(w, j) PROVE BusyRuns'
    BY <1>6 DEF BusyRuns, Busy, Running, BeatStart, BeatRenew, svars
  <1>7. ASSUME NEW r \in Slots, Running(r),
               Fails(r) \/ (\E n \in issued' : Takes(r, n)) \/ Ends(r) \/ Moves(r)
        PROVE  BusyRuns'
    <2>1. UNCHANGED wstate /\ \E label : pc' = [pc EXCEPT ![r] = label]
      BY <1>7 DEF Fails, Takes, Ends, Moves, wvars
    <2> QED
      BY <1>1, <1>7, <2>1 DEF BusyRuns, Busy, Running
  <1> QED
    BY <1>2, <1>3, <1>4, <1>5, <1>6, <1>7, StepEffect

---------------------------------------------------------------------------
(* The two properties *)

\* A job a slot keeps is as lost as it was.
LEMMA StaysGone ==
    ASSUME DInv, [DNext]_dvars, NEW s \in Slots, job'[s] = job[s], job[s] # NoJob, ~Owns(job[s])
    PROVE  ~Owns(job[s])'
  <1>1. [Next]_qvars /\ IInv /\ job[s] \in issued
    BY StepUses, TokensApart DEF DInv
  <1> DEFINE j == job[s]
  <1>2. \A k \in issued : ~Owns(k) => ~Owns(k)'
    BY <1>1, LeaseGone
  <1> QED
    BY <1>1, <1>2 DEF Owns, Active

\* An error that has been noted is not forgotten.
LEMMA ErrorStays ==
    ASSUME DInv, [DNext]_dvars, NEW w \in Workers, ~error'[w]
    PROVE  ~error[w]
  <1>1. error \in [Workers -> BOOLEAN]
    BY DEF DInv, DTypeOK
  <1>2. \/ UNCHANGED error
        \/ \E v : error' = [error EXCEPT ![v] = TRUE]
    BY StepEffect
       DEF wvars, PlanArrives, Rests, WorkerCrash, Dies, BeatStart, BeatRenew, Fails, Takes, Ends, Moves
  <1> QED
    BY <1>1, <1>2

LEMMA LostKept ==
    ASSUME LInv, [DNext]_dvars
    PROVE  LostIsFenced'
  <1> SUFFICES ASSUME NEW s \in Slots, ~error'[WorkerOf(s)], job'[s].token \in lost'
               PROVE  ~Owns(job[s])'
    BY DEF LostIsFenced
  <1>1. /\ DInv /\ WorkerOf(s) \in Workers /\ lost \subseteq 1..minted /\ minted \in Nat
        /\ job \in [Slots -> issued \cup {NoJob}] /\ error \in [Workers -> BOOLEAN]
        /\ ~error[WorkerOf(s)]
    BY ErrorStays DEF LInv, DInv, DTypeOK, IInv, TypeOK, Slots, WorkerOf
  <1>2. ASSUME job'[s] = job[s], job[s].token \in lost
        PROVE  ~Owns(job[s])'
    <2>1. ~Owns(job[s])
      BY <1>1, <1>2 DEF LInv, LostIsFenced
    <2>2. job[s] # NoJob
      BY <1>1, <1>2 DEF NoJob, NoToken
    <2> QED
      BY <1>1, <1>2, <2>1, <2>2, StaysGone
  <1>3. CASE UNCHANGED <<job, lost>>
    BY <1>2, <1>3
  <1>4. ASSUME NEW w \in Workers, WorkerCrash(w)
        PROVE  ~Owns(job[s])'
    <2>1. job'[s].token \in lost /\ job'[s].token \in 1..minted
      BY <1>1, <1>4 DEF WorkerCrash, Dies
    <2>2. job'[s] = job[s]
      BY <1>4, <2>1 DEF WorkerCrash, Dies, NoJob, NoToken
    <2> QED
      BY <1>2, <2>1, <2>2
  <1>5. ASSUME NEW w \in Workers, NEW j \in beat[w], BeatRenew(w, j)
        PROVE  ~Owns(job[s])'
    <2>1. UNCHANGED job /\ (lost' = lost \/ lost' = lost \cup {j.token})
      BY <1>5 DEF BeatRenew, BeatMarks, svars
    <2>2. CASE job[s].token \in lost
      BY <1>2, <2>1, <2>2
    <2>3. CASE job[s].token \notin lost
      <3>1. job[s].token = j.token /\ j \in issued /\ lost' # lost
        BY <1>1, <2>1, <2>3 DEF DInv, DTypeOK
      <3>2. job[s] = j /\ WorkerOf(s) = w
        BY <1>1, <3>1, TokensApart DEF LInv, BeatsOwn
      <3>3. ~Owns(j) /\ UNCHANGED qvars
        BY <1>1, <1>5, <3>1, <3>2 DEF BeatRenew
      <3> QED
        BY <2>1, <3>2, <3>3 DEF Owns, Active, qvars, store
    <2> QED
      BY <2>2, <2>3
  <1>6. ASSUME NEW r \in Slots, Fails(r) \/ Ends(r) \/ Moves(r)
        PROVE  ~Owns(job[s])'
    <2>1. UNCHANGED job /\ lost' \subseteq lost
      BY <1>6 DEF Fails, Ends, Moves, wvars
    <2> QED
      BY <1>2, <2>1
  <1>7. ASSUME NEW r \in Slots, NEW n \in issued', Takes(r, n)
        PROVE  ~Owns(job[s])'
    <2>1. lost' = lost /\ n.token \notin lost
      BY <1>1, <1>7 DEF Takes, wvars
    <2>2. job'[s] = job[s]
      BY <1>1, <1>7, <2>1 DEF Takes
    <2> QED
      BY <1>2, <2>1, <2>2
  <1>8. ASSUME NEW w \in Workers, PlanArrives(w) \/ Rests(w) \/ BeatStart(w)
        PROVE  UNCHANGED <<job, lost>>
    BY <1>8 DEF PlanArrives, Rests, BeatStart, svars
  <1> QED
    BY <1>1, <1>3, <1>4, <1>5, <1>6, <1>7, <1>8, StepEffect DEF svars, wvars

LEMMA LeftKept ==
    ASSUME LInv, [DNext]_dvars
    PROVE  NothingLeftBehind'
  <1> SUFFICES ASSUME NEW s \in Slots, ~Busy(s)', ~error'[WorkerOf(s)], job'[s] # NoJob
               PROVE  ~Owns(job[s])'
    BY DEF NothingLeftBehind
  <1>1. /\ DInv /\ WorkerOf(s) \in Workers
        /\ job \in [Slots -> issued \cup {NoJob}] /\ error \in [Workers -> BOOLEAN]
        /\ pc \in [Slots -> {"off", "top", "claim", "count", "open", "steps", "teardown", "complete"}]
        /\ ~error[WorkerOf(s)]
    BY ErrorStays DEF LInv, DInv, DTypeOK, Slots, WorkerOf
  <1>2. ASSUME job'[s] = job[s], ~Busy(s)
        PROVE  ~Owns(job[s])'
    BY <1>1, <1>2, StaysGone DEF LInv, NothingLeftBehind
  <1>3. CASE UNCHANGED svars
    BY <1>2, <1>3 DEF svars, Busy
  <1>4. ASSUME NEW w \in Workers, PlanArrives(w)
        PROVE  ~Owns(job[s])'
    <2>1. ~Busy(s)
      BY <1>1, <1>4 DEF LInv, BusyRuns, Running, PlanArrives, Busy, SlotsOf
    <2> QED
      BY <1>2, <1>4, <2>1 DEF PlanArrives
  <1>5. ASSUME NEW w \in Workers, WorkerCrash(w)
        PROVE  ~Owns(job[s])'
    <2>1. s \notin SlotsOf(w)
      BY <1>5 DEF WorkerCrash, Dies
    <2> QED
      BY <1>2, <1>5, <2>1 DEF WorkerCrash, Dies, Busy
  <1>6. ASSUME NEW r \in Slots, r # s, \E label : pc' = [pc EXCEPT ![r] = label],
               job'[s] = job[s]
        PROVE  ~Owns(job[s])'
    BY <1>1, <1>2, <1>6 DEF Busy
  <1>7. ASSUME NEW r \in Slots, Fails(r)
        PROVE  ~Owns(job[s])'
    <2>1. r # s
      BY <1>1, <1>7 DEF Fails
    <2> QED
      BY <1>6, <1>7, <2>1 DEF Fails
  <1>8. ASSUME NEW r \in Slots, NEW n \in issued', Takes(r, n)
        PROVE  ~Owns(job[s])'
    <2>1. r # s
      BY <1>1, <1>8 DEF Takes, Busy
    <2> QED
      BY <1>1, <1>6, <1>8, <2>1 DEF Takes
  <1>9. ASSUME NEW r \in Slots, Ends(r)
        PROVE  ~Owns(job[s])'
    <2>1. CASE r = s
      BY <1>9, <2>1 DEF Ends
    <2>2. CASE r # s
      BY <1>6, <1>9, <2>2 DEF Ends
    <2> QED
      BY <2>1, <2>2
  <1>10. ASSUME NEW r \in Slots, Moves(r)
         PROVE  ~Owns(job[s])'
    <2>1. CASE r = s
      <3>1. ~Busy(s)
        BY <1>1, <1>10, <2>1 DEF Moves, Busy
      <3> QED
        BY <1>2, <1>10, <3>1 DEF Moves
    <2>2. CASE r # s
      BY <1>6, <1>10, <2>2 DEF Moves
    <2> QED
      BY <2>1, <2>2
  <1>11. ASSUME NEW w \in Workers, Rests(w) \/ BeatStart(w) \/ \E j \in beat[w] : BeatRenew(w, j)
         PROVE  UNCHANGED svars
    BY <1>11 DEF Rests, BeatStart, BeatRenew
  <1> QED
    BY <1>1, <1>3, <1>4, <1>5, <1>7, <1>8, <1>9, <1>10, <1>11, StepEffect

LEMMA InitLInv == DInit => LInv
  <1> SUFFICES ASSUME DInit PROVE LInv
    OBVIOUS
  <1>1. DInv
    BY InitDInv
  <1>2. \A s \in Slots : job[s] = NoJob /\ ~Busy(s)
    BY DEF DInit, Busy
  <1>3. OneSlotEach /\ BusyRuns /\ NothingLeftBehind
    BY <1>2 DEF OneSlotEach, BusyRuns, NothingLeftBehind
  <1>4. BeatsOwn /\ LostIsFenced
    BY DEF DInit, BeatsOwn, LostIsFenced
  <1> QED
    BY <1>1, <1>3, <1>4 DEF LInv

LEMMA NextLInv == LInv /\ [DNext]_dvars => LInv'
  BY NextDInv, OneSlotKept, BeatsKept, BusyKept, LostKept, LeftKept DEF LInv

\* No job is in two slots, heartbeats renew only jobs of their own worker, only
\* running workers have jobs, and the two properties below.
THEOREM LeaseInvariant == DSpec => []LInv
  BY InitLInv, NextLInv, PTL DEF DSpec

\* The lost-lease flag is no false alarm: unless Redis failed the worker, a job
\* that is flagged can neither be renewed nor completed (Worker.heartbeat).
THEOREM FlagsAreTrue == DSpec => []LostIsFenced
  <1>1. LInv => LostIsFenced
    BY DEF LInv
  <1> QED
    BY <1>1, LeaseInvariant, PTL

\* A slot that has finished its job holds no live lease on it, however the job
\* ended, unless Redis failed the worker (Worker.consume, COMPLETE).
THEOREM SlotsLeaveNothing == DSpec => []NothingLeftBehind
  <1>1. LInv => NothingLeftBehind
    BY DEF LInv
  <1> QED
    BY <1>1, LeaseInvariant, PTL

---------------------------------------------------------------------------
(* The drill of CrashRecovery, whatever fails and whenever the first       *)
(* worker is killed: what was proved of the queue and its workers carries  *)
(* over to the steps the script adds.                                      *)

\* Nothing is started before the try, and from `close' on nothing that was is alive.
Stopped ==
    /\ spc \in {"create", "start"} => started = {}
    /\ spc \in {"close", "delete", "done"} => \A w \in started : ~Alive(w)

\* Once close() has returned the run is over, and once delete() has it is gone.
Cleared ==
    /\ spc \in {"delete", "done"} => ~Active \/ failed \cap {"create", "start", "close"} # {}
    /\ spc = "done" => meta = NoRun \/ failed \cap {"create", "start", "close", "delete"} # {}

KInv == DInv /\ started \subseteq Workers /\ Stopped /\ Cleared

\* What a worker that was started does is what any worker does.
LEMMA RunsAsWorker == ASSUME NEW w \in Workers, Runs(w) PROVE DNext
  BY DEF Runs, DNext, SlotsOf

LEMMA TimeAsBefore == KTime => DNext
  BY DEF KTime, DNext

LEMMA DeleteKeeps == DInv /\ SDelete => DInv'
  <1> SUFFICES ASSUME DInv, SDelete PROVE DInv'
    OBVIOUS
  <1>1. (Delete \/ UNCHANGED qvars) /\ UNCHANGED <<issued, minted, run, wvars, svars, cvars>> /\ (Fault \/ UNCHANGED faults)
    BY DEF SDelete, Failing, Delete, history, qvars
  <1>2. IInv'
    <2>1. CASE Delete
      <3>1. /\ ready' \in [Cases -> {Absent}] /\ leases' \in [Cases -> {0}] /\ owners' \in [Cases -> {NoToken}]
            /\ attempts' \in [Cases -> {0}] /\ results' \in [Cases -> {NoResult}]
        BY <2>1 DEF Delete
      <3>2. meta' = NoRun /\ tasks' = {} /\ volatile' = {} /\ UNCHANGED history /\ now' \in Nat \ {0}
        BY <2>1 DEF Delete, DInv, IInv, TypeOK
      <3> QED
        BY <3>1, <3>2, EmptiedIInv DEF DInv
    <2>2. CASE UNCHANGED qvars
      BY <2>2, NextIInv DEF DInv
    <2> QED
      BY <1>1, <2>1, <2>2
  <1>3. (DTypeOK /\ Holding)'
    <2>1. faults' \in 0..MaxFaults
      BY <1>1, FaultCounted DEF DInv, DTypeOK
    <2> QED
      BY <1>1, <2>1 DEF DInv, DTypeOK, Holding, Busy, Alive, wvars, svars, cvars
  <1> QED
    BY <1>2, <1>3 DEF DInv

\* A step that leaves workers, slots and coordinators alone, or kills or stops a worker.
LEMMA ScriptTyped ==
    ASSUME DInv, [Next]_qvars, UNCHANGED cvars, Fault \/ UNCHANGED faults,
           \/ UNCHANGED <<wvars, svars>>
           \/ \E w \in Workers : Told(w) \/ Dies(w)
    PROVE  DInv'
  <1>1. IInv'
    BY NextIInv DEF DInv
  <1>2. SlotTypes' /\ WorkerTypes' /\ CoordTypes' /\ faults' \in 0..MaxFaults
    <2>1. CASE UNCHANGED <<wvars, svars>>
      <3>1. SlotTypes /\ WorkerTypes /\ CoordTypes /\ faults \in 0..MaxFaults
        BY Types DEF DInv
      <3>2. /\ issued \subseteq issued' /\ minted <= minted' /\ minted' \in Nat
            /\ run <= run' /\ run' \in Nat /\ minted \in Nat /\ run \in Nat
        BY HistoryGrows DEF DInv, IInv, TypeOK
      <3> QED
        BY <2>1, <3>1, <3>2, SlotsKept, WorkersKept, CoordsKept, FaultCounted
    <2> QED
      BY <2>1, WorkerTyped
  <1>3. (DTypeOK /\ Holding)'
    <2>1. (SlotTypes /\ WorkerTypes /\ CoordTypes /\ faults \in 0..MaxFaults)'
      BY <1>2
    <2> QED
      BY <2>1, Types, PTL
  <1> QED
    BY <1>1, <1>3 DEF DInv

LEMMA DrillKeeps ==
    ASSUME DrillAssumption, DInv, [KNext]_kvars
    PROVE  DInv'
  <1>1. CASE KTime \/ \E w \in Workers : Runs(w)
    BY <1>1, RunsAsWorker, TimeAsBefore, NextDInv
  <1>2. CASE SDelete
    BY <1>2, DeleteKeeps
  <1>3. CASE UNCHANGED dvars
    BY <1>3, NextDInv
  <1>4. CASE SCreate \/ SClose
    <2>1. [Next]_qvars /\ UNCHANGED <<wvars, svars, cvars>> /\ (Fault \/ UNCHANGED faults)
      BY <1>4, CreateIsNext, CloseIsNext DEF SCreate, SClose, Failing, Fault, qvars
    <2> QED
      BY <2>1, ScriptTyped
  <1>5. CASE SKill
    BY <1>3, <1>5, ScriptTyped DEF SKill, Dies, DrillAssumption
  <1>6. CASE \E w \in Workers : StopProcess(w)
    <2>1. \E w \in Workers : (Told(w) \/ Dies(w)) /\ UNCHANGED faults
      BY <1>6 DEF StopProcess, Told
    <2> QED
      BY <2>1, ScriptTyped DEF Told, Dies
  <1> QED
    BY <1>1, <1>2, <1>3, <1>4, <1>5, <1>6
       DEF KNext, Script, SStart, SSeesOwner, SRestart, SSeesResult, SCheck, SExit, SStopped, SGivesUp, kvars

---------------------------------------------------------------------------
(* No process and no key is left *)

LEMMA StartedKnown ==
    ASSUME DrillAssumption, started \subseteq Workers, [KNext]_kvars
    PROVE  started' \subseteq Workers
  BY DEF KNext, Script, SCreate, SStart, SSeesOwner, SKill, SRestart, SSeesResult, SCheck, SExit, SGivesUp, StopProcess,
         SStopped, SClose, SDelete, Runs, KTime, kvars, DrillAssumption

\* A process that has ended takes no step.
LEMMA DeadTakeNoStep ==
    ASSUME NEW w \in Workers, Runs(w)
    PROVE  Alive(w) /\ w \in started
  <1>1. \A s \in SlotsOf(w) : SlotStep(s) => wstate[w] = "running"
    BY DEF SlotStep, Top, Claim, CountResults, IsOpen, RunSteps, Teardown, Submit, Running, SlotsOf
  <1> QED
    BY <1>1 DEF Runs, Alive, WorkerStep, PlanArrives, PlanTimeout, WorkerExit, PlanError, GiveUpWaiting,
                BeatStart, BeatRenew

\* Where no process is alive only the script moves, and the clock.
LEMMA NobodyRuns ==
    ASSUME [KNext]_kvars, \A w \in started : ~Alive(w)
    PROVE  Script \/ SGivesUp \/ KTime \/ UNCHANGED kvars
  <1>1. \A w \in Workers : ~Runs(w) /\ ~StopProcess(w)
    BY DeadTakeNoStep DEF StopProcess
  <1> QED
    BY <1>1 DEF KNext

LEMMA StoppedKept ==
    ASSUME DInv, started \subseteq Workers, Stopped, [KNext]_kvars
    PROVE  Stopped'
  <1>1. CASE spc \in {"create", "start"}
    <2>1. Script \/ SGivesUp \/ KTime \/ UNCHANGED kvars
      BY <1>1, NobodyRuns DEF Stopped
    <2>2. \/ started' = {}
          \/ spc' = "owner"
      BY <1>1, <2>1 DEF Script, SCreate, SStart, SSeesOwner, SKill, SRestart, SSeesResult, SCheck, SExit, SGivesUp,
                        SStopped, SClose, SDelete, SGoto, KTime, Stopped, kvars
    <2> QED
      BY <2>2 DEF Stopped
  <1>2. CASE spc \in {"close", "delete", "done"}
    <2>1. Script \/ SGivesUp \/ KTime \/ UNCHANGED kvars
      BY <1>2, NobodyRuns DEF Stopped
    <2>2. UNCHANGED <<wstate, started>> /\ spc' \notin {"create", "start"}
      BY <1>2, <2>1 DEF Script, SCreate, SStart, SSeesOwner, SKill, SRestart, SSeesResult, SCheck, SExit, SGivesUp,
                        SStopped, SClose, SDelete, SGoto, Raise, KTime, Time, kvars, dvars, wvars
    <2> QED
      BY <1>2, <2>2 DEF Stopped, Alive
  <1>3. CASE spc \notin {"create", "start", "close", "delete", "done"}
    <2>1. SStopped \/ spc' \notin {"create", "start", "close", "delete", "done"}
      BY <1>3 DEF KNext, Script, SCreate, SStart, SSeesOwner, SKill, SRestart, SSeesResult, SCheck, SExit, SGivesUp,
                  StopProcess, SClose, SDelete, Runs, KTime, SGoto, Raise, kvars
    <2>2. SStopped => UNCHANGED <<wstate, started>> /\ spc' = "close"
      BY DEF SStopped, SGoto, dvars, wvars
    <2> QED
      BY <2>1, <2>2 DEF SStopped, Stopped, Alive
  <1> QED
    BY <1>1, <1>2, <1>3

LEMMA ClearedKept ==
    ASSUME DInv, started \subseteq Workers, Stopped, Cleared, [KNext]_kvars
    PROVE  Cleared'
  <1>1. IInv /\ TypeOK
    BY DEF DInv, IInv
  <1>2. CASE spc = "delete"
    <2>1. Script \/ SGivesUp \/ KTime \/ UNCHANGED kvars
      BY <1>2, NobodyRuns DEF Stopped
    <2>2. SDelete \/ KTime \/ UNCHANGED kvars
      BY <1>2, <2>1 DEF Script, SCreate, SStart, SSeesOwner, SKill, SRestart, SSeesResult, SCheck, SExit, SGivesUp,
                        SStopped, SClose
    <2>3. CASE SDelete
      <3>1. \/ meta' = NoRun /\ UNCHANGED failed
            \/ failed' = failed \cup {"delete"} /\ (meta' = NoRun \/ UNCHANGED <<now, meta>>)
        BY <1>2, <2>3 DEF SDelete, Delete, Failing, SGoto, Raise, qvars, store
      <3>2. ~Active' \/ failed' \cap {"create", "start", "close"} # {}
        BY <1>2, <3>1 DEF Cleared, Active, NoRun
      <3> QED
        BY <3>1, <3>2 DEF Cleared
    <2>4. CASE KTime \/ UNCHANGED kvars
      <3>1. UNCHANGED <<spc, failed, run>> /\ [Next]_qvars
        BY <2>4 DEF KTime, Time, Tick, ExpireKeys, history, Next, kvars, dvars, qvars
      <3> QED
        BY <1>1, <1>2, <3>1, OverKept DEF Cleared
    <2> QED
      BY <2>2, <2>3, <2>4
  <1>3. CASE spc = "done"
    <2>1. Script \/ SGivesUp \/ KTime \/ UNCHANGED kvars
      BY <1>3, NobodyRuns DEF Stopped
    <2>2. KTime \/ UNCHANGED kvars
      BY <1>3, <2>1 DEF Script, SCreate, SStart, SSeesOwner, SKill, SRestart, SSeesResult, SCheck, SExit, SGivesUp,
                        SStopped, SClose, SDelete
    <2>3. UNCHANGED <<spc, failed, run>> /\ [Next]_qvars
      BY <2>2 DEF KTime, Time, Tick, ExpireKeys, history, Next, kvars, dvars, qvars
    <2>4. meta = NoRun => meta' = NoRun
      BY <2>3, GoneUntilCreated DEF DInv
    <2>5. ~Active => ~Active'
      BY <1>1, <2>3, OverKept
    <2> QED
      BY <1>3, <2>3, <2>4, <2>5 DEF Cleared
  <1>4. CASE spc \notin {"delete", "done"}
    <2>1. SCreate \/ SStart \/ SClose \/ spc' \notin {"delete", "done"}
      BY <1>4 DEF KNext, Script, SSeesOwner, SKill, SRestart, SSeesResult, SCheck, SExit, SGivesUp, StopProcess,
                  SStopped, SDelete, Runs, KTime, SGoto, Raise, kvars
    <2>2. SCreate \/ SStart => spc' \notin {"delete", "done"} \/ failed' \cap {"create", "start"} # {}
      BY DEF SCreate, SStart, SGoto, Raise
    <2>3. SClose => (spc' = "delete" /\ ~Active') \/ "close" \in failed'
      BY <1>1, CloseEnds DEF SClose, SGoto, Raise
    <2> QED
      BY <2>1, <2>2, <2>3 DEF Cleared
  <1> QED
    BY <1>2, <1>3, <1>4

\* The invariant of the drill: that of queue and workers, with the script's own steps.
LEMMA DrillInvariant ==
    ASSUME DrillAssumption
    PROVE  KSpec => []KInv
  <1>1. KInit => KInv
    BY InitDInv DEF KInit, KInv, Stopped, Cleared
  <1>2. KInv /\ [KNext]_kvars => KInv'
    BY DrillKeeps, StartedKnown, StoppedKept, ClearedKept DEF KInv
  <1> QED
    BY <1>1, <1>2, PTL DEF KSpec

\* However the drill ends, no process it started is alive.  A key is left only if it raised
\* before the try or Redis failed its finally clause, an open run only if close() did not return,
\* and every key left will expire (crash_recovery, stop_process, close and delete).
THEOREM DrillLeavesNothing ==
    ASSUME DrillAssumption
    PROVE  KSpec => []NothingLeft
  <1>1. ASSUME KInv PROVE NothingLeft
    <2>1. /\ meta = NoRun => ExistingKeys = {}
          /\ ExistingKeys \subseteq volatile
      BY <1>1 DEF KInv, DInv, IInv, Blank, KeysExpire, ExistingKeys, KeyExists
    <2> QED
      BY <1>1, <2>1 DEF KInv, Stopped, Cleared, NothingLeft
  <1> QED
    BY <1>1, DrillInvariant, PTL
=============================================================================
