# API Sentinel in TLA+

Models, model checks and proofs of the distributed test runner in
`src/src/api_sentinel/` and of the demo service it is tried on. Paths below are
relative to that directory unless they begin with `docs/`, `examples/` or `scripts/`.

## 1. The system

A *suite* is a list of *cases*; a case is setup, test and teardown *steps*, each an
HTTP request and what is expected of its answer. `run --distributed` makes the
process a *coordinator*: it puts the suite into Redis under a run ID, waits and
reports. `worker` processes claim cases, execute them and submit results.

| Component | State it keeps | Operations | Talks to |
| --- | --- | --- | --- |
| Run queue (`queue.py`) | seven Redis keys per run ID: `meta`, `tasks`, `ready`, `leases`, `owners`, `attempts`, `results` | five Lua scripts CREATE, CLAIM, RENEW, COMPLETE, CLOSE; reads `plan`, `is_open`, `results`, `count` | called by workers and coordinators; Redis runs a script without interleaving and keeps the clock |
| Worker (`worker.py`) | `stop`, `error`, the table `active` and a `lost` flag per job, shared by a main thread, a heartbeat thread and the pool | `run`, `heartbeat`, `consume` | the queue; the executor calls back `lease_valid`, which reads `lost` |
| Coordinator (`coordinator.py`) | the results read last, its error, its own clock | `distributed_run` | the queue |
| Case executor (`executor.py`) | the step in progress, attempts, deadlines | `run`, `step` | the API under test, contracts, `lease_valid` |
| Contracts (`contracts.py`) | the operations and their parameters, collected once | `Contract`, `validate_suite`, `request`, `response_errors`, `pointer` | called by the command line and the executor |
| Models (`models.py`) | none | schemas, `RunReport.exit_code` | everyone |
| Reporting (`reporting.py`) | two files in a directory | `atomic_write`, `write_reports` | file system |
| Configuration (`config.py`) | none | `load_document`, `render`, `validate_base_url` | command line, executor |
| Command line (`cli.py`) | signal handlers, exit code | `main` | everything |
| Local runner (`worker.run_local`) | futures of the cases, the HTTP client they share | one pool over `CaseExecutor.run` | executor |
| Demo API (`examples/demo_api/app.py`) | SQLite tables of namespaces, products, orders | seed, delete, list, get, order | called by the steps of the example suites |
| Crash drill (`scripts/verify_local.py`) | the processes it started | `crash_recovery` | the queue, two worker processes |
| Other scripts, event log | none | drivers and output | — |

What makes it hard, and what makes each part correct:

- **Queue.** Clients are slow, paused, superseded, left over from a former run with the
  same ID, and they do not know which of their calls took effect (`connect` switches
  retries off). A case must never be lost or be in two places; a late result must
  never replace a newer one; deliveries are bounded; results are final; no key may
  outlive the run.
- **Worker.** Three kinds of threads share flags. The heartbeat works on a copy of
  the table of jobs. The lease is known only through a flag that trails it. A worker
  must not raise false alarms, must not leave leases behind when it drains, and must
  always come to an end.
- **Coordinator.** Reads results, deadline and state one after the other and then
  closes the run, while workers go on. A green exit code must be green, a report must
  be the last word on its run, and it must not tell of another run.
- **Executor.** Anything can fail at any step; nothing may be replayed; cleanup is
  attempted anyway; the case must end in bounded time against an API that is slow.
- **Reporting.** A crash between any two system calls.
- **Contracts and configuration.** Pure, but with many ways to write the same thing:
  references, ranges of statuses, overriding parameters, templates, escapes. A step must
  pass exactly if the answer conforms, and what is sent must be what was meant.
- **Command line and local runner.** Everything they call may raise, signals arrive at any
  moment, twice if need be. The exit code must not lie, and one interrupt must not leave a
  case without its teardown.
- **Demo API.** Deliveries overlap and requests arrive after their sender has gone. An order
  ID must stand for one order, a fixture must stay put, a lock must come back.
- **Crash drill.** Kills a worker at a moment it cannot know. The case must be recovered,
  and the drill must clear up wherever its `try` was left.

`PROJECT.json` lists all hazards with their lines and the properties about them.

## 2. The modules

| Module | Models | Notes |
| --- | --- | --- |
| `ResultLedger` | what the queue promises, abstractly | one line per case: delivered so often, closed once |
| `RunQueue` | `queue.py` | implements `ResultLedger` |
| `DistributedRun` | `worker.py`, `coordinator.py`, `RunReport.exit_code`, signals of `cli.py` | EXTENDS `RunQueue`: the same scripts with their real clients |
| `CaseOutline` | what `CaseExecutor.run` promises a worker, abstractly | the two steps a case has in `DistributedRun` |
| `CaseExecutor` | `executor.py` | one case in detail; implements `CaseOutline` |
| `RequestContract` | `render`, parameters, preflight, `Contract.request` | from a raw step to what is sent |
| `ResponseContract` | `_inspect`, `deref`, `validate_suite`, `response_errors` | from an answer to a verdict |
| `JsonAssertions` | `pointer` and the comparison in `response_errors` | detail of `CheckAssertion` in `ResponseContract` |
| `HeaderTexts` | header names and texts, `coerce` | EXTENDed by `RequestContract` and `ResponseContract` |
| `CommandLine` | `main` and `run_local` | `worker` and `run --distributed` have an outcome here, `DistributedRun` is their detail |
| `AtomicReports` | `reporting.py` | files, renames, kills, outages |
| `PublishedRun` | `main` with the report directory | composes `CommandLine` and `AtomicReports`, and what an interrupt does inside `atomic_write` |
| `DemoApi` | `examples/demo_api/app.py` and the deliveries that call it | composes the service with what `CaseExecutor` sends |
| `CrashRecovery` | `crash_recovery` of `scripts/verify_local.py`, `RunQueue.delete` | EXTENDS `DistributedRun`; the script takes the coordinator's place |
| `MC...` | — | small instances for TLC; `MCContracts` sets the three modules on `contracts.py` side by side |
| `RunQueueProofs`, `DistributedRunProofs`, `CaseProofs`, `RequestProofs`, `ContractProofs`, `AssertionProofs`, `PublishedRunProofs`, `DemoApiProofs` | — | theorems |

Definitions commented `Fault:` are variants of the definition below them with a
plausible bug. No specification uses them; each shows that one property would notice.

### RunQueue

A Redis command takes effect in one step, so a script is one action. A sorted set or
a hash is a function from cases with a value for "absent" (`Absent` is -1 because a
reclaimed case has score 0). `Ahead` is Redis' order: by score, then by member; cases
are numbers only for that. CLAIM is written declaratively: `Reclaimed` are the expired
leases it takes back (at most `ScanLimit`, 100 in the code), `Score` the ready set with
them in front, `Popped` the members the loop can reach, `Discarded` those before the
first that still has a delivery, `Granted` that one. `volatile` is the set of keys with
a PEXPIREAT: `touch()` sets it on the keys that exist when it runs, and Redis forgets it
with a collection's last member. `ExpireKeys` removes the volatile keys and no others,
so a key left without expiry would survive into the next run of the same ID.

`issued` keeps every job ever handed out, and any of them can be renewed or completed
at any time and repeatedly. That is more than real workers do; section 4 shows that
they stay within it. `Job.run` and the token and run in a result are history.

### DistributedRun

`wstate`, `stop`, `error` and `beat` belong to a worker; `pc`, `job` and `verdict` to a
slot (a thread in `consume`); `lost` holds the tokens whose flag is set; `cpc`,
`cdeadline`, `cresults`, `cerror` to a coordinator. Each Redis command is a step of its
own, and so is each test of `stop`; everything may happen between two of them,
including the passing of time, so a lease can lapse under its holder anywhere.

`Failing(A)` is a command that raises `RedisError`: it took effect or it did not.
`SlotFails` is the `except RedisError` of `consume`. A worker may be killed
(`WorkerCrash`), or get a signal (`StopSignal`); a coordinator may be interrupted or
killed. `BeatStart` copies the table, `BeatRenew` renews one job of the copy.
`Worker.active` is not a variable: a job is in it exactly while its slot is in the `try`
that puts it there, which is `Busy`. `heartbeat.join(timeout=5)` and a daemon
heartbeat that outlives `run` are left out: at that moment no job is active.
`is_open` reads the state and then the time; one step stands for both, because an
answer of two moments is always the answer of one of them.

A case is two steps here, `RunSteps` and `Teardown`, each with any outcome, except that
nothing passes once the flag is set. `CaseOutline` is these two steps, and `CaseExecutor`
implements it: what was past its last test of the flag may still pass, which here is the
step taken before the flag was set.

### CaseExecutor

`phase` and `at` are the step, `pc` where `step()` is: rendering and contract (`begin`),
lease and deadline (`check`), `connect`, TLS `handshake`, `write`, the head of the
`answer`, the `body`, or the sleep before a retry (`backoff`). Time passes only while the
thread is blocked; `since` is when it blocked and `budget` the timeout of the request,
which httpx applies to every phase anew. Any phase may fail. A write that fails may
have reached the API. `QuietReads` bounds the reads that bring no chunk (head of
the answer, framing, compressed data): after those the loop does not turn and
nobody looks at the clock. Whether a step can be rendered and meets its contract is
open (`Begin`), and so is what `response_errors` and the latency budget say: passed,
failed or error. `lost` is the worker's flag, set at any moment and never reset.

Taken for granted about the network: a host has one address, and a request goes out in
one write; name resolution takes no time. Without that no bound on time would hold, the
code does not look at the clock there.

The refinement mapping of `CaseOutline`: setup and test are the stage `steps`, the verdict
so far is `StatusWithoutCleanup`, and the case is `cut` when the flag is set and the thread
is before its next test of it (`begin`, `check`), since from there nothing is sent any more.

### RequestContract

A value is a JSON type and a text, a text is a sequence of pieces, so that a placeholder of
a path, a character and either of them percent-encoded are told apart. Loading collects the
parameters (`InEffect`: the last declaration of a name), the preflight compares placeholders,
`RenderStep` resolves templates from variables and environment, each turn of the two loops of
`request` is a step. Python iterates dictionaries in insertion order; the model takes any
order, and `PathIntact` shows that it makes no difference: a service that takes the path apart at its slashes and
then decodes it reads the contract's path with the text of each value in place of its name. That no value is a
segment of dots is shown of values, as the code tests it; a contract may still join one to other characters of a segment.

Simplified: parameters and bodies have a scalar type (so the contract demands it of
parameters); references to parameters are left to `ResponseContract`, which models `deref`;
a step gives a header once, in whatever case.

### ResponseContract

A contract is its responses and named components, any of which may be a reference. `Inspect` is
the test of all references on loading and the preflight of a step, `Follow` one turn of the loop
in `deref`, `DerefFails` its two ways to fail and what the caller makes of them: refused before a
run, a failed step, or an exception that makes the step an error. The early returns of
`response_errors` are `CheckAnswerBody`. A schema is the set of bodies it accepts, a header's schema a
type; what `jsonschema` does beyond that is external. The reference does not walk: `Chain` are the
references a node leads to, as the least set closed under the names, `Final` is the node where
they end, and an answer conforms to a definition without taking a step (`Conforms`).

### JsonAssertions

A JSON value is a function from its places to what is there: a place is the sequence of the names
on the way to it, a name is a key or an index. A document of any depth is then one flat function, a step of `pointer`
appends a name (`Target`), and what is below a place is a document again (`Actual`). Names and tokens are
sequences of characters, because `~01` and the order of the two replacements are about characters: `Replace` is
`str.replace` from left to right, `IndexOf` is what `int` makes of the digits. `PyEqual` is Python's `==`, for
which `True`, `1` and `1.0` are the same number; NaN, which is not JSON, is left out. The reference goes the
other way: `Escape` makes the token of a name as RFC 6901 has it, `Tokens` the pointer of a place, and
`AssertionsSound` compares the outcome with the places that have the pointer's tokens, without walking.

### CommandLine

`pc` is where `main` is, `raised` what is on its way up. Every call may raise instead of
returning. `Interrupt` says where a KeyboardInterrupt goes from each place: through the pool's
`__exit__`, which waits, and the `finally` that closes the client; out of a handler, to an
uncaught exception; into `worker.stop` while a worker serves. A case is `Begin` (its setup has
been sent) and `Finish`; `untidy` are the cases between the two. `Leave` is the interpreter, which
waits for the threads of the pool once more.

### PublishedRun

`Own` is the writer of the command, the other writers are commands that came before it or overlap it.
While `main` is in `write_reports` the steps are those of the writer; `Written` is its return, or what it raises.
`InterruptWriting` raises in `atomic_write`, whose `finally` (`Finally`) then comes before the handlers of `main`;
an interrupt in that `finally` cuts it short (`InterruptFinally`) and leaves the temporary file.
A process that ends without another word (`Ends`), or with its machine (`GoesDown`), leaves its writer where it was.

### DemoApi

`Send`, `Receive`, `GiveUp` and `Kill` are a delivery: seed, tests, delete. What was sent is executed
whenever the service gets to it, also after its sender has given up or died. A write transaction
is two steps, `Begin` (BEGIN IMMEDIATE and its reads, kept in `view`) and its commit; a deletion is one
statement. `Busy` is the timeout of SQLite's lock, `Crash` a restart that rolls back. `era` and
`doubt` are history. An answer's body is the code and the total of an order.

### CrashRecovery

`Script` follows `crash_recovery` line by line on the unchanged workers of `DistributedRun`. `failed` is where it
has raised. `SCreate` and `SStart` (`create`, then opening the log and the first `Popen`) precede the `try`, so
when they raise the drill is over and nothing is cleared up. From there on every failure leads to the `finally`
clause: `SRestart` is the second `Popen`, `SGivesUp` any timeout or Redis error of what the script reads. In that clause
`SClose` and `SDelete` may raise too, with or without effect, and what follows is then left out. `SKill` is the
SIGKILL at any moment after an owner was seen; the second worker is started at `LastKill` at the latest, a bound
on the clock. Left out are interrupts of the script itself and a process that survives its SIGKILL.

### AtomicReports

`mkstemp`, write, `fsync`, `replace` and `unlink` are steps, each can raise. The file
system is external: `Flush` takes a directory entry to the disk at any later time,
`Outage` brings back what the disk has, and a file that was never synced comes back
incomplete. Writers start in the order of their numbers, may overlap, fail or be killed.

## 3. The runs

| Run | Question | Bounds | Result |
| --- | --- | --- | --- |
| `queue` | does the queue keep its promises under any clients, and what is left for a second run with the same ID? | 3 cases, two different suites, 2 deliveries, scan limit 2, leases of 1 or 2 ticks, timeouts 0 and 3, 2 runs | holds |
| `workers` | are flags true, is green green, is a report final, what does a thread leave behind? | 1 worker of 2 threads, 2 cases, 1 delivery each, 1 fault, symmetric threads | holds |
| `resubmit` | two submissions of one ID, expiry of the keys between them: do processes use the queue as clients may, is a report of one run, and does everybody come to an end? | 2 coordinators, 1 worker, 1 case, 1 delivery, timeout 1, retention 1; the first submission at tick 1, the second until tick 4; 1 fault | holds |
| `case` | is a case executed, retried, cleaned up and bounded as it should, and is it what a worker takes it for? | 1 setup, 2 test, 2 teardown steps, reads and writes; timeout 2, case 2, cleanup 1, one retry, one quiet read | holds |
| `published` | do exit codes tell the truth, of the pool and of the files; does an interrupt spoil anything? | 2 writers, 2 cases, 1 thread, 2 signals, 1 outage | holds |
| `demo` | deliveries that meet in one service | a delivery and its redelivery, two processes with one run ID and two seeds, or one without the token; an order sent twice, a lookup, 1 crash | holds |
| `contracts` | is what is sent valid and its path intact; does a step pass exactly if the answer conforms; does an assertion judge the right place, and right? | 18 operations; contracts of 3 entries and 4 components, cyclic and broken ones too; documents of depth 2, pointers of 2 tokens | holds |
| `crash_recovery` | is the case of a killed worker recovered, is the drill tidy? | 2 workers, 1 case, lease of 1 tick, kill and second worker until tick 2, 1 fault; any start or wait may fail | holds |
| `late_step` | docs/ARCHITECTURE.md:49, no steps after a lost lease | 1 worker, 1 case, no faults | violated |
| `lost_accepted` | docs/ARCHITECTURE.md:62, lost leases are not trusted | 1 worker, 1 case, 1 fault | violated |
| `unseen_result` | coordinator.py:37, missing results are missing | 1 worker, 1 case, no faults | violated |
| `types_strict` | docs/SUITES.md:17, types are compared strictly | the assertions of `contracts` | violated |

Why the bounds are enough. Two deliveries show the first, the last and the one too many
(`workers` and `resubmit` have one: redelivery is the subject of `queue` and `crash_recovery`). Three
cases with a scan limit of two put more cases in front than a call handles, and suite order is the
reverse of ID order so that ties between reclaimed cases matter. A lease of one tick lapses at the next, which is
the boundary `<=` and `>` are about; two ticks let a renewal move it. A timeout of 0 is one below a
millisecond, which `int(timeout * 1000)` truncates; what the exit code then says is proved for every timeout
(`GreenIsGreen`). Time stops after the deadline, or, in `queue` and `resubmit`, after the keys of the first run have
expired and the second run has come to its own deadline. `LastStart` bounds when a coordinator begins. In
`resubmit` the first run is created at tick 1 and its keys expire at 3, or never exist because its coordinator
was killed; the second submission meets it open, closed, over, or gone, and creates a run anew while the
worker may still hold a job of the first. `MaxTime` 5 is the deadline of a run created at 4. One fault at a time,
at any command, is what the recovery has to survive; nothing in the code counts faults.
In the case the request timeout is as long as the case's, the cleanup's is shorter, so
that each step can be cut short, on time or late.
`contracts` enumerates its inputs, one part of `contracts.py` per behaviour: every document, step and answer of the
sets in the MC module is an initial state, and the sets hold one representative of each way
the code can turn. Two components that may refer to each other give cycles of one and two; a
path with two placeholders is the shortest in which one value can be mistaken for the other's
place. In `demo` two deliveries are enough for every conflict, since a transaction looks
at one namespace and the lock is held by one request; an order that is sent twice with another
quantity meets itself, its repetition and its contradiction. In `published` one thread and two cases
leave one case waiting while the other runs; a second signal reaches the handlers' own interrupt, the `finally` of
`atomic_write` and the interpreter's wait at exit, and a second writer is the former run's report, or an overlapping one. In the
drill the run outlives the clock, so that only a worker can bring the case to an end.
`CHECK_DEADLOCK FALSE` is set everywhere since all of these systems end: clocks and
faults are bounded in guards, and a finished run has nothing left to do.

Fairness, for `resubmit` (`FairSpec` of `DistributedRun`): time passes; a process that is
not killed goes on, and so does each of its threads, because operating system and
interpreter schedule them and every Redis command ends in an answer or, after three
seconds, in an error. Weak fairness is enough: polling loops take their turns again and
again. No fairness for faults, signals or the heartbeat: that workers leave must not
depend on a renewal. In `case`, the thread takes its steps and blocked time passes: every
network phase has a timeout.
In `published` the main thread and the threads of the pool run, and a case ends
(`CaseEnds`); system calls return. In `crash_recovery` time passes, the script goes on and so do the threads of the processes it
has started; its timeouts, kills and Redis errors need not happen. `workers`, `demo` and `contracts`
state safety alone.

## 4. What is proved

`tlapm` checks every proof below to its leaves, for all values of the constants that
satisfy the named assumptions: any finite set of cases, any suites, lease times,
timeouts, limits, any number of workers, threads and coordinators.

- **RunQueueProofs.** `IInv` is inductive. `OnePlace`, `KeysExpire` and `NamespacesDistinct`
  are in it; what is added is why they stay true. `Blank`: without metadata
  there is nothing, which needs that every key had its expiry. `Counted`: only a case that
  was given up is counted past the limit. `Tokens`, `Delivered`, `AllIssued` tie the
  history of jobs to the counters. `Holder`: a token in the store is that of the latest
  delivery, from which fencing follows. `Provenance`: where a result came from. `Front`:
  redelivered cases have score 0 and fresh ones their place, from which priority follows.
  `LeasesProtect` has two halves: a live lease is not taken away, and a lapsed one is of no use to its holder (`LapsedIsLost`).
  From `IInv` follow the invariants and action properties of `queue`, and some that
  have no run of their own: the type invariant, that deliveries have numbers and so namespaces of their own, that the queue gives up
  late, that a run starts clean, that results are final and that a run which is over stays over.
  The last part is the refinement (`LedgerImplemented`): initial states map to initial states and
  every step to a ledger step or a stutter; the claim is the interesting case, one delivery and any
  number of cases given up in one call.
- **DistributedRunProofs.** Whatever workers and coordinators do is a step of `RunQueue`
  (`StepUses`): it needs that slots and heartbeats only ever hold issued jobs (`Holding`).
  So every theorem about the queue carries over. `DInv` also types the processes.
  `Snapshot` is the invariant behind the reports: what a coordinator has read of the
  current run is what Redis still has, because results are final. Then exit code 0 is
  green (`GreenIsGreen`), a report is fresh (`ReportsAreFresh`) and final (`ReportsAreLast`).
  And a job that could not be completed once never can be again (`StaysGone`):
  with jobs being in one slot each (`OneSlotEach`), a set flag is no false alarm, and slots
  leave no live lease.
  The last part is the crash drill. The script takes the coordinator's place, but its steps are those of a
  client of the queue too, except for the deletion, which empties the store (`DeleteKeeps`); `DInv` stays invariant under all
  of them. `KInv` adds
  that nothing runs before it is started and that after the `finally` clause has stopped the processes none is left,
  one after the other (`Stopped`), and what is left in Redis at the end, by the place where the script raised
  (`Cleared`): nothing, unless that was before the `try`, in `close` or in `delete`. With the expiry of every key
  from `IInv` this is `DrillLeavesNothing`. Its hypothesis, `DrillAssumption`, says that there
  are two workers and no coordinator; nothing else rests on it.
- **CaseProofs.** At most one request after the loss (`LossInv`), and the bound on a
  case's time: `StepInTime` says how late each blocking phase may begin, phase by phase.
  `CourseInv` is the course of a case: `TriesInv` counts attempts, `TrailInv` ties the results to
  the steps that lie behind the current one (`Behind`), `SentInv` ties both to what went out. From it:
  nothing is replayed, tests need their setup, cleanup is attempted, and a passed case hides
  nothing. `OutlineImplemented` is the refinement: every step of the executor is a result
  (`ResultOutlined`), which is a verdict of the outline or nothing to it, or leaves a noticed loss noticed
  (`StepKinds`).
- **RequestProofs.** `QInv` follows a request: while parameters are checked there is an error exactly
  if one of those already looked at is unsound (`Looked`), and the parameters in effect are those the operation
  demands (`Declared`), which is where the order of the two lists matters. From it `SentIsValid`, for any
  operations, steps, variables and environment. Its one hypothesis, `OperationAssumption`, is OpenAPI's: a list of
  parameters does not declare one twice. `PathInv` says of a path under construction that it is the contract's path
  with all values that are no longer to do put in at once (`Filling`), so one replacement more (`FillingMore`) finds
  its own placeholder and nothing in a value put in before, because a quoted text has neither braces nor slashes (`Quoted`).
  At the end the path reads as it is meant to (`FilledReads`), which is `PathIsIntact`, for paths and values of any
  length, any number of placeholders and any order. Its hypothesis, `TextAssumption`, types the texts. TLC evaluates both for the instance.
  Both lemmas rest on what becomes of a sequence whose elements are replaced by sequences (`ReplacingJoined`, `ReplacingTwice`),
  which is induction on its length: the installed theorems for that take an operator, so `NumbersBySteps` gets it
  from a well-founded order instead, for membership in a set, and `FlattenAppend` applies it to the
  recursion in `FlattenSeq`.
- **ContractProofs.** What `deref` has visited is a beginning of the chain (`TrailBegins`,
  `TrailGoesOn`), so where it stops is where the chain leads (`TrailEnds`), or the chain is a cycle
  (`TrailCycles`), and no induction along the references is needed: `Chain` is the least closed set. `RInv` says
  stage by stage what the errors found so far are (`Looked`: there is one exactly if some part of the response
  looked at does not conform), that a step which was sent has a definition for its status (`Sendable`) and whom an
  exception is to be blamed on. From it a step passes exactly if the answer conforms
  (`PassesExactly`), the preflight suffices (`PreflightEnough`) and only cycles raise (`CyclesOnly`).
- **AssertionProofs.** `AInv`: as long as a well-formed pointer is followed, the names so far are those
  of its tokens so far (`OnTheWay`). A step keeps it because the name that `pointer` reads is the one the token is for
  (`UnescapeInverts`). That has two halves. `EscapedReturns`: the token of a name is read as the name, by induction on
  the name; between the two replacements a half-way text must not end in `~` either (`Closed`), which is where their order
  matters. `HasName`: every well-formed token is that of a name, by induction on its length, one or two characters at a
  time. Both use what `Replace` does with one character more (`ReplaceAppend`, `ReplacePair`), and that comes from the
  two recursions having one shape (`Builds`, `BuiltOnce`). A step that leads nowhere means that no place has the pointer's
  tokens, since the way to a place consists of places (`WayThere`, `MissingRight`), and an index has one way to be written
  (`IndexIsName`). At the end a longer pointer names what is below the current place (`NamesBelow`), so the comparison is
  judged place by place (`HoldsRight`, `MismatchRight`). The hypothesis, `PointerAssumption`, is what JSON is and that `split`
  leaves no `/` in a token; TLC evaluates it for the instance.
- **PublishedRunProofs.** First `AtomicReports`. `ReadInv`: only whole temporary files are renamed, and what the disk
  may bring back under a name was synced before. `OrderInv` and `PairInv` order the writers, for the two
  files. Any number of writers, kills and outages. Then `PublishedRun`, whose steps are steps of `AtomicReports`
  (`ReportsImplemented`), interrupts inside `atomic_write` included. `CommandInv` ties the exit code to the report, the
  report to the cases and the cases to pool, client and interrupts; `WrittenDone` ties the report of the command
  to its writer. They give `ReportsTell`, `CodesTell`, `InterruptsAreClean`, and with `PairInv` `CodesOnFile`.
- **DemoApiProofs.** `LockHeld`: one transaction at a time, it holds the lock, and what it has read is still
  what the tables are, the point of BEGIN IMMEDIATE (`OneTransaction`). With it `Consistent` is inductive, inserts never
  fail (`InsertsHold`), and what was answered in the current life of a namespace is what is
  stored (`AnswerInv`, which gives `OneOrder`). `LifeInv` follows a delivery that is alone in its namespace:
  nobody else sends a deletion, so its fixtures stay (`FixturesStay`). `CleanInv` follows it to its end: a delivery that moves
  on with all its answers has no seed request under way (`Settled`), without the token nothing of it ever gets in (`Barred`), and an answered
  deletion has left no row (`Deleted`); hence `NothingRemains`. Any deliveries, seeds,
  catalogues and tests, and any number of crashes.

Only model-checked: liveness (`CoordinatorEnds`, `WorkersLeave`, `CaseEnds`, `Exits`,
`CaseRecovers`), which is out of reach of the provers. Every invariant and every action property of a
passing run is a theorem.
Only proved, in no run: the type invariants (`TypeCorrect`, `ProcessesTyped`, `CaseTyped`, `ReportsTyped`,
`ServiceTyped`), `TestsNeedSetup`, `JunitLags`, `BothInPlace`, `InsertsHold` and the five of the queue named above.

## 5. Where code and documents disagree

1. *Late steps.* A worker learns of a lost lease from its next heartbeat. Until then it
   sends steps, cleanup included, which docs/ARCHITECTURE.md:49 and README.md:87 exclude.
   Results stay fenced and namespaces apart, which is proved.
2. *Lost leases accepted.* A renewal that raises sets the flag of a live lease; the case is
   cut short as an error, and that error is accepted as final instead of the case going to another worker.
3. *Unseen results.* A result accepted after the last `results()` is reported as missing.
   The exit code is 2 either way, so this fails closed.
4. *Strict types.* `json_equals` compares types strictly only outside of lists and objects; inside,
   `true`, `1` and `1.0` are equal (`AssertionsSound` is what holds).

These four have a run that shows them. The others are met in the models, where the weaker
statement that does hold is the one that is checked:

5. *Slow reads.* docs/OPERATIONS.md:19 has a read overrun its deadline by up to a request timeout. Connect,
   TLS, write and each read of the head have one of their own; `CaseBounded` is the bound that holds.
6. *Late seeds.* A seed request that was given up may be executed after the teardown of its
   delivery, and its namespace stays. docs/OPERATIONS.md:25 knows this of killed workers only. `CleanedUp` is about
   deliveries whose requests were all answered; nothing else is harmed, for nobody uses that namespace (`Isolated`).
7. *Exit code 1.* If stderr is broken, the handler of an infrastructure failure raises and the
   process exits with 1, which cli.py:1 reserves for a failed assertion. It is never 0 (`CodeTellsReport`).
8. *The drill's race.* The worker may finish its case before it is killed; scripts/verify_local.py:116, which asserts that the
   case was delivered twice, then fails on a correct system. The case has its result all the same (`CaseRecovers`).

## 6. Not modelled

- Loss of Redis data (fail-over, eviction, lost AOF tail), which docs/ARCHITECTURE.md:45 excludes,
  and the payload limits of `create`.
- JSON schema validation (`jsonschema`), external: a schema is what it accepts. Of loading a
  contract: the tests of the version, of path syntax and unique operationIds, `$id` and
  `check_schema`, each of which only refuses a document. Pydantic's validation of suites
  and `load_document`, `validate_base_url` likewise.
- The parser of arguments; the text of reports, events and messages.
- Of the demo service: `health`, the delay, `DEMO_BREAK_CONTRACT`, the switch that hides the test support,
  and field validation.
- Scripts other than the drill: they start processes, take times, compare reports and generate
  example files, and keep no state that could go wrong between two steps.
- Composition in one state space of queue, executor, contracts and service. The modules meet at
  interfaces instead: `DistributedRun` takes a case for what `CaseOutline` says, which `CaseExecutor` implements;
  `CaseExecutor` takes a request for sent, failed or an error and an answer for passed, failed or
  an error, which are the outcomes of `RequestContract` and `ResponseContract`; `DemoApi` takes a delivery
  for the order of steps that `CaseProofs` proves, at most one request per step, cleanup always.
