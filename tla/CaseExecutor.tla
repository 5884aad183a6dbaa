----------------------------- MODULE CaseExecutor -----------------------------
(***************************************************************************)
(* One case in src/api_sentinel/executor.py: CaseExecutor.run takes it     *)
(* through setup, test and teardown, CaseExecutor.step sends the request   *)
(* of a step and judges the answer.  The API, the network, the clock and   *)
(* the heartbeat that loses the lease are the environment.                 *)
(*                                                                         *)
(* Time passes while the thread is blocked in the network or sleeps.  Each *)
(* such phase of a request (connect, TLS handshake, write, every read) has *)
(* a timeout of its own, the same for all of them.                         *)
(***************************************************************************)
EXTENDS Integers, Sequences

CONSTANTS
    Setup, Test, Teardown,  \* the steps of the case, in order
    RequestTimeout,         \* timeout
    CaseTimeout,            \* case_timeout
    CleanupTimeout,         \* 15 in run(): most the teardown may take
    ConnectRetries,         \* connect_retries
    Pause,                  \* 0.05 in step(): sleep before a retry, per attempt
    MaxChunks,              \* max_response_bytes, in chunks
    QuietReads              \* reads of an answer in a row that bring no chunk: its
                            \* head takes at least one, compressed data may take some

\* What matters of a step: whether its method may be retried.
Step == [safe : BOOLEAN]

ASSUME CaseAssumption ==
    /\ Setup \in Seq(Step)
    /\ Test \in Seq(Step) \ {<<>>}
    /\ Teardown \in Seq(Step)

ASSUME BudgetAssumption ==
    /\ RequestTimeout \in Nat \ {0}
    /\ CaseTimeout \in Nat \ {0}
    /\ CleanupTimeout \in Nat \ {0}
    /\ ConnectRetries \in Nat
    /\ Pause \in Nat
    /\ MaxChunks \in Nat
    /\ QuietReads \in Nat \ {0}

VARIABLES
    now,        \* time.monotonic(), from the start of run()
    lost,       \* lease_valid() is False
    phase,      \* phase of the step being executed, "done" after the last
    at,         \* its place in the phase
    pc,         \* where it is in step()
    tries,      \* attempts
    budget,     \* timeout of the request
    since,      \* when the thread blocked
    size,       \* chunks received
    quiet,      \* reads since the request went out or the last chunk
    deadline,   \* the deadline in force
    results,    \* the step results so far
    sent,       \* history: how often the request of each step went out
    late        \* history: requests that went out after the lease was lost

xvars == <<now, lost, phase, at, pc, tries, budget, since, size, quiet, deadline, results, sent, late>>

Phases == {"setup", "test", "teardown"}

StepsOf(p) ==
    CASE p = "setup" -> Setup [] p = "test" -> Test [] p = "teardown" -> Teardown [] OTHER -> <<>>

Places == UNION {{<<p, i>> : i \in 1..Len(StepsOf(p))} : p \in Phases}

Current == StepsOf(phase)[at]

AtMost(a, b) == IF a < b THEN a ELSE b

---------------------------------------------------------------------------
(* CaseExecutor.run *)

\* Where a phase begins, or what follows if it has no steps.
Entry(p) ==
    IF p = "setup" /\ Setup # <<>> THEN <<"setup", 1>>
    ELSE IF p \in {"setup", "test"} THEN <<"test", 1>>
    ELSE IF Teardown # <<>> THEN <<"teardown", 1>> ELSE <<"done", 0>>

\* Fault: the teardown ends with its first step that does not pass.
TeardownStops(status) ==
    IF at < Len(StepsOf(phase)) /\ status = "passed" THEN <<phase, at + 1>>
    ELSE IF phase = "setup" /\ status = "passed" THEN Entry("test")
    ELSE IF phase = "teardown" THEN <<"done", 0>>
    ELSE Entry("teardown")
\* The next step: setup and test stop at the first that does not pass, the
\* teardown is attempted in any case and to the end.
Following(status) ==
    IF at < Len(StepsOf(phase)) /\ (status = "passed" \/ phase = "teardown") THEN <<phase, at + 1>>
    ELSE IF phase = "setup" /\ status = "passed" THEN Entry("test")
    ELSE IF phase = "teardown" THEN <<"done", 0>>
    ELSE Entry("teardown")

NextStep(status) ==
    /\ results' = Append(results, [phase |-> phase, at |-> at, status |-> status, tries |-> tries])
    /\ phase' = Following(status)[1]
    /\ at' = Following(status)[2]
    /\ deadline' = IF phase # "teardown" /\ phase' \in {"teardown", "done"}
                   THEN now + AtMost(CaseTimeout, CleanupTimeout) ELSE deadline
    /\ pc' = "begin"

\* The step returns; the teardown has a deadline of its own.
Return(status) == NextStep(status) /\ tries' = 0

\* What setup and test have come to.
StatusWithoutCleanup ==
    LET statuses == {results[i].status : i \in {k \in DOMAIN results : results[k].phase # "teardown"}}
    IN  IF "error" \in statuses THEN "error" ELSE IF "failed" \in statuses THEN "failed" ELSE "passed"

\* The status of the case.
Status ==
    LET statuses == {results[i].status : i \in DOMAIN results}
    IN  IF "error" \in statuses THEN "error" ELSE IF "failed" \in statuses THEN "failed" ELSE "passed"

---------------------------------------------------------------------------
(* CaseExecutor.step *)

Stay == UNCHANGED <<phase, at, deadline, results>>

\* render, and Contract.request: an exception, or failures, or neither.  What it
\* is depends on the step and the environment (RequestContract), and every step
\* begins once.
Begin ==
    /\ pc = "begin" /\ phase \in Phases
    /\ \/ \E status \in {"failed", "error"} : Return(status)
       \/ pc' = "check" /\ Stay /\ UNCHANGED tries
    /\ UNCHANGED <<now, lost, budget, since, size, quiet, sent, late>>

Sends(timeout) ==
    /\ tries' = tries + 1
    /\ budget' = timeout
    /\ since' = now
    /\ pc' = "connect"
    /\ Stay

\* Fault: the lease is not looked at.
CheckDeadlineOnly ==
    /\ pc = "check"
    /\ \/ now >= deadline /\ Return("error") /\ UNCHANGED <<budget, since>>
       \/ now < deadline /\ Sends(AtMost(deadline - now, RequestTimeout))
    /\ UNCHANGED <<now, lost, size, quiet, sent, late>>
\* Fault: a request may take its full timeout, however little is left.
CheckFullTimeout ==
    /\ pc = "check"
    /\ \/ (lost \/ now >= deadline) /\ Return("error") /\ UNCHANGED <<budget, since>>
       \/ ~lost /\ now < deadline /\ Sends(RequestTimeout)
    /\ UNCHANGED <<now, lost, size, quiet, sent, late>>

\* Fault: without the lease the step waits for it to come back.
CheckWaits ==
    /\ pc = "check" /\ ~lost
    /\ \/ now >= deadline /\ Return("error") /\ UNCHANGED <<budget, since>>
       \/ now < deadline /\ Sends(AtMost(deadline - now, RequestTimeout))
    /\ UNCHANGED <<now, lost, size, quiet, sent, late>>

\* lease_valid() and the deadline, before every attempt
Check ==
    /\ pc = "check"
    /\ \/ (lost \/ now >= deadline) /\ Return("error") /\ UNCHANGED <<budget, since>>
       \/ ~lost /\ now < deadline /\ Sends(AtMost(deadline - now, RequestTimeout))
    /\ UNCHANGED <<now, lost, size, quiet, sent, late>>

MayRetry == Current.safe /\ tries <= ConnectRetries

\* The connection stands, with or without TLS; or ConnectError or ConnectTimeout.
Connect ==
    /\ pc \in {"connect", "handshake"}
    /\ \/ pc = "connect" /\ pc' = "handshake" /\ since' = now /\ Stay /\ UNCHANGED tries
       \/ pc' = "write" /\ since' = now /\ Stay /\ UNCHANGED tries
       \/ MayRetry /\ pc' = "backoff" /\ since' = now /\ Stay /\ UNCHANGED tries
       \/ ~MayRetry /\ Return("error") /\ UNCHANGED since
    /\ UNCHANGED <<now, lost, budget, size, quiet, sent, late>>

Nap == AtMost(Pause * tries, IF deadline > since THEN deadline - since ELSE 0)

\* time.sleep before the next attempt
Wake ==
    /\ pc = "backoff" /\ now >= since + Nap
    /\ pc' = "check"
    /\ Stay
    /\ UNCHANGED <<now, lost, tries, budget, since, size, quiet, sent, late>>

GoesOut ==
    /\ sent' = [sent EXCEPT ![<<phase, at>>] = @ + 1]
    /\ late' = IF lost THEN late + 1 ELSE late

\* The request goes out; or WriteError or WriteTimeout, when it may have or not.
Write ==
    /\ pc = "write"
    /\ \/ /\ GoesOut
          /\ pc' = "answer" /\ since' = now /\ size' = 0 /\ quiet' = 0
          /\ Stay /\ UNCHANGED tries
       \/ (GoesOut \/ UNCHANGED <<sent, late>>) /\ Return("error") /\ UNCHANGED <<since, size, quiet>>
    /\ UNCHANGED <<now, lost, budget>>

QuietRead == quiet < QuietReads /\ quiet' = quiet + 1 /\ since' = now /\ Stay /\ UNCHANGED tries

\* Fault: a step that may be retried is sent again after a read timeout.
AnswerRetried ==
    /\ pc = "answer"
    /\ \/ QuietRead /\ pc' \in {"answer", "body"}
       \/ MayRetry /\ pc' = "check" /\ Stay /\ UNCHANGED <<since, tries, quiet>>
       \/ Return("error") /\ UNCHANGED <<since, quiet>>
    /\ UNCHANGED <<now, lost, budget, size, sent, late>>

\* A part of the answer's head, or the last of it; or ReadError or ReadTimeout.
Answer ==
    /\ pc = "answer"
    /\ \/ QuietRead /\ pc' \in {"answer", "body"}
       \/ Return("error") /\ UNCHANGED <<since, quiet>>
    /\ UNCHANGED <<now, lost, budget, size, sent, late>>

\* A read that completes no chunk, after which the loop over them does not turn.
ReadOn ==
    /\ pc = "body"
    /\ QuietRead
    /\ UNCHANGED <<now, lost, pc, budget, size, sent, late>>

\* A chunk of the body: too much, too late, without the lease, or one more.
Chunk ==
    /\ pc = "body"
    /\ size' = size + 1
    /\ quiet' = 0
    /\ \/ (size' > MaxChunks \/ now >= deadline \/ lost) /\ Return("error") /\ UNCHANGED since
       \/ /\ size' <= MaxChunks /\ now < deadline /\ ~lost
          /\ since' = now
          /\ Stay /\ UNCHANGED <<pc, tries>>
    /\ UNCHANGED <<now, lost, budget, sent, late>>

\* The end of the body and the verdict on the answer; or an exception.
Judge ==
    /\ pc = "body"
    /\ \E status \in {"passed", "failed", "error"} : Return(status)
    /\ UNCHANGED <<now, lost, budget, since, size, quiet, sent, late>>

---------------------------------------------------------------------------
(* The environment *)

\* How long the thread may stay blocked.
Patience == IF pc = "backoff" THEN Nap ELSE budget

Tick ==
    /\ pc \in {"connect", "handshake", "write", "answer", "body", "backoff"}
    /\ now < since + Patience
    /\ now' = now + 1
    /\ UNCHANGED <<lost, phase, at, pc, tries, budget, since, size, quiet, deadline, results, sent, late>>

\* The heartbeat sets the flag; nothing resets it.
LoseLease ==
    /\ ~lost /\ phase # "done"
    /\ lost' = TRUE
    /\ UNCHANGED <<now, phase, at, pc, tries, budget, since, size, quiet, deadline, results, sent, late>>

Init ==
    /\ now = 0
    /\ lost \in BOOLEAN
    /\ phase = Entry("setup")[1]
    /\ at = Entry("setup")[2]
    /\ pc = "begin"
    /\ tries = 0
    /\ budget = 0
    /\ since = 0
    /\ size = 0
    /\ quiet = 0
    /\ deadline = CaseTimeout
    /\ results = <<>>
    /\ sent = [p \in Places |-> 0]
    /\ late = 0

Thread ==
    Begin \/ Check \/ Connect \/ Wake \/ Write \/ Answer \/ ReadOn \/ Chunk \/ Judge

Next == Thread \/ Tick \/ LoseLease

Spec == Init /\ [][Next]_xvars

\* The thread runs when it can, and a network phase ends by its timeout.
FairSpec == Spec /\ WF_xvars(Thread) /\ WF_xvars(Tick)

---------------------------------------------------------------------------
(* Properties *)

\* Type invariant of the case.
TypeOK ==
    /\ now \in Nat
    /\ lost \in BOOLEAN
    /\ <<phase, at>> \in Places \cup {<<"done", 0>>}
    /\ pc \in {"begin", "check", "connect", "handshake", "backoff", "write", "answer", "body"}
    /\ tries \in 0..(ConnectRetries + 1)
    /\ budget \in 0..RequestTimeout
    /\ since \in 0..now
    /\ size \in 0..(MaxChunks + 1)
    /\ quiet \in 0..QuietReads
    /\ deadline \in Nat
    /\ results \in Seq([phase : Phases, at : Nat, status : {"passed", "failed", "error"},
                        tries : 0..(ConnectRetries + 1)])
    /\ sent \in [Places -> Nat]
    /\ late \in Nat

Reported(p, i) == \E k \in DOMAIN results : results[k].phase = p /\ results[k].at = i
Passed(p, i) ==
    \E k \in DOMAIN results :
        results[k].phase = p /\ results[k].at = i /\ results[k].status = "passed"

\* Cleanup is attempted to the end, whatever failed before: after a failed
\* setup, without the lease, past the deadline and after a failed cleanup step.
TeardownAttempted ==
    phase = "done" => \A i \in 1..Len(Teardown) : Reported("teardown", i)

\* Nothing hides behind a passed case: every step of it, cleanup included, went
\* out exactly once and passed (docs/ARCHITECTURE.md:61, "cleanup failure
\* cannot be hidden by passing tests").
PassedMeansAll ==
    phase = "done" /\ Status = "passed" =>
        \A p \in Places : sent[p] = 1 /\ Passed(p[1], p[2])

\* No request is replayed: only what never left is tried again, so the API sees
\* the request of a step at most once, and a write is not even connected twice.
NoReplay ==
    /\ \A p \in Places : sent[p] <= 1
    /\ phase \in Phases /\ ~Current.safe => tries <= 1
    /\ \A k \in DOMAIN results :
          ~StepsOf(results[k].phase)[results[k].at].safe => results[k].tries <= 1

\* A test step goes out only when setup and all test steps before it passed.
TestNeedsSetup ==
    \A i \in 1..Len(Test) :
        sent[<<"test", i>>] > 0 =>
            /\ \A k \in 1..Len(Setup) : Passed("setup", k)
            /\ \A k \in 1..(i - 1) : Passed("test", k)

\* With the lease gone at most one request still goes out, the one that was
\* past its check when the flag was set, and cleanup is no exception.
OneAfterLoss == late <= 1

\* The case ends in bounded time however slow the API is: a step begun in time
\* overruns its deadline at most by a handshake, a write and the reads up to the
\* first chunk, since only a chunk and the next attempt look at the clock again.
Overrun == (3 + QuietReads) * RequestTimeout

CaseBounded ==
    now <= CaseTimeout + Overrun + AtMost(CaseTimeout, CleanupTimeout) + Overrun

\* The case comes to its end, and its result can be submitted.
CaseEnds == <>(phase = "done")

\* A case is the two steps that a worker's slot takes it for: one verdict of
\* setup and test, which the teardown can only make worse.  The flag counts from
\* the next test of it on: what was past its test when it was set may still pass,
\* but nothing that comes after it.
Outline == INSTANCE CaseOutline WITH
    HasTeardown <- Teardown # <<>>,
    stage <- IF phase \in {"teardown", "done"} THEN phase ELSE "steps",
    verdict <- IF phase = "done" THEN Status ELSE StatusWithoutCleanup,
    cut <- lost /\ pc \in {"begin", "check"}

ImplementsOutline == Outline!Spec
=============================================================================
