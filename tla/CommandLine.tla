------------------------------ MODULE CommandLine ------------------------------
(***************************************************************************)
(* main() of src/api_sentinel/cli.py, what its commands exit with, and     *)
(* run_local() of src/api_sentinel/worker.py: the cases of a suite in a    *)
(* pool of threads that share one HTTP client.  Anything main calls may    *)
(* raise, and signals arrive at any moment.  What `worker' and             *)
(* `run --distributed' do in between is the subject of DistributedRun,     *)
(* here they have an outcome.                                              *)
(***************************************************************************)
EXTENDS Integers, Sequences, FiniteSets

CONSTANTS
    Size,           \* cases of the suite
    Concurrency,    \* threads of the pool
    MaxSignals,     \* bound on SIGINTs and SIGTERMs
    StderrFails     \* writing to stderr may raise

VARIABLES
    command,    \* validate, local, distributed or worker
    pc,         \* where the main thread is
    raised,     \* the exception on its way up
    code,       \* the exit code, or -1
    task,       \* the future of each case
    status,     \* status of each case
    results,    \* what run_local, or the coordinator, has collected
    open,       \* the HTTP client is open
    written,    \* the reports are written
    signals,    \* history: SIGINTs and SIGTERMs so far
    untidy      \* history: cases that sent their setup and not yet their teardown

mvars == <<command, pc, raised, code, task, status, results, open, written, signals, untidy>>

Cases == 1..Size

Pool == <<task, status, open, untidy>>

Raise(what) == raised' = what /\ pc' = "except"
Goto(label) == pc' = label /\ UNCHANGED raised
Exit(n) == code' = n /\ pc' = "exiting"

---------------------------------------------------------------------------
(* main *)

\* load_suite, load_document, Contract, validate_suite; and validate_base_url,
\* which `validate' does without
Load ==
    /\ pc = "load"
    /\ \/ command = "validate" /\ Exit(0) /\ UNCHANGED raised
       \/ /\ command # "validate"
          /\ Goto(CASE command = "worker" -> "connect" [] command = "local" -> "submit" [] OTHER -> "distribute")
          /\ UNCHANGED code
       \/ Raise("error") /\ UNCHANGED code
    /\ UNCHANGED <<command, results, written, signals, Pool>>

\* connect, Worker, and the signal handlers
Connect ==
    /\ pc = "connect"
    /\ Goto("serve") \/ Raise("error")
    /\ UNCHANGED <<command, code, results, written, signals, Pool>>

\* worker.run() with the handlers in force
Serve ==
    /\ pc = "serve"
    /\ \/ \E n \in {0, 2} : Exit(n) /\ UNCHANGED raised
       \/ Raise("error") /\ UNCHANGED code
    /\ UNCHANGED <<command, results, written, signals, Pool>>

\* connect, and distributed_run(), which fills in what is missing
Distribute ==
    /\ pc = "distribute"
    /\ \/ results' \in [Cases -> {"passed", "failed", "error"}] /\ Goto("write")
       \/ Raise("error") /\ UNCHANGED results
    /\ UNCHANGED <<command, code, written, signals, Pool>>

\* RunReport.exit_code
ExitCode ==
    LET there == {results[i] : i \in DOMAIN results}
    IN  IF Len(results) # Size \/ "error" \in there THEN 2 ELSE IF "failed" \in there THEN 1 ELSE 0

\* write_reports
Write ==
    /\ pc = "write"
    /\ \/ written' = TRUE /\ Goto("print")
       \/ Raise("error") /\ UNCHANGED written
    /\ UNCHANGED <<command, code, results, signals, Pool>>

\* The summary on stdout, and the exit code
Report ==
    /\ pc = "print"
    /\ \/ Exit(ExitCode) /\ UNCHANGED raised
       \/ Raise("error") /\ UNCHANGED code
    /\ UNCHANGED <<command, results, written, signals, Pool>>

\* Fault: an interrupted run exits as its report would.
HandleLeniently ==
    /\ pc = "except"
    /\ Exit(IF raised = "interrupt" THEN ExitCode ELSE 2)
    /\ UNCHANGED <<command, raised, results, written, signals, Pool>>

\* except KeyboardInterrupt, except Exception; a handler that raises itself
\* ends the process with a traceback and 1
Handle ==
    /\ pc = "except"
    /\ Exit(2) \/ (StderrFails /\ Exit(1))
    /\ UNCHANGED <<command, raised, results, written, signals, Pool>>

\* The interpreter waits for the threads of the pool and what is queued there.
Leave ==
    /\ pc = "exiting"
    /\ \A c \in Cases : task[c] \notin {"waiting", "running"}
    /\ Goto("exited")
    /\ UNCHANGED <<command, code, results, written, signals, Pool>>

---------------------------------------------------------------------------
(* run_local *)

Submit ==
    /\ pc = "submit"
    /\ \E c \in Cases :
          /\ task[c] = "none" /\ \A d \in Cases : d < c => task[d] # "none"
          /\ task' = [task EXCEPT ![c] = "waiting"]
          /\ Goto(IF c = Size THEN "collect" ELSE "submit")
    /\ UNCHANGED <<command, code, status, results, open, written, signals, untidy>>

\* Fault: results are taken as they come.
CollectAny ==
    /\ pc = "collect"
    /\ \E c \in Cases : task[c] = "done" /\ results' = Append(results, status[c])
    /\ Goto(IF Len(results') = Size THEN "shutdown" ELSE "collect")
    /\ UNCHANGED <<command, code, written, signals, Pool>>

\* future.result(), in the order of the suite
Collect ==
    /\ pc = "collect"
    /\ task[Len(results) + 1] = "done"
    /\ results' = Append(results, status[Len(results) + 1])
    /\ Goto(IF Len(results') = Size THEN "shutdown" ELSE "collect")
    /\ UNCHANGED <<command, code, written, signals, Pool>>

\* Fault: the pool is not waited for.
ShutdownAtOnce ==
    /\ pc = "shutdown"
    /\ Goto("close")
    /\ UNCHANGED <<command, code, results, written, signals, Pool>>

\* The pool's __exit__ waits for every case that was submitted, exception or not.
Shutdown ==
    /\ pc = "shutdown"
    /\ \A c \in Cases : task[c] \notin {"waiting", "running"}
    /\ Goto("close")
    /\ UNCHANGED <<command, code, results, written, signals, Pool>>

\* finally: executor.close()
Close ==
    /\ pc = "close"
    /\ open' = FALSE
    /\ Goto(IF raised = "none" THEN "write" ELSE "except")
    /\ UNCHANGED <<command, code, task, status, results, written, signals, untidy>>

Running == {c \in Cases : task[c] = "running"}

\* Fault: a case is not begun without the client.
BeginOpenOnly ==
    /\ pc # "exited" /\ Cardinality(Running) < Concurrency /\ open
    /\ \E c \in Cases :
          /\ task[c] = "waiting" /\ \A d \in Cases : d < c => task[d] # "waiting"
          /\ task' = [task EXCEPT ![c] = "running"]
          /\ untidy' = untidy \cup {c}
          /\ UNCHANGED status
    /\ UNCHANGED <<command, pc, raised, code, results, open, written, signals>>

\* A thread takes the next case; on a closed client nothing is sent.
Begin ==
    /\ pc # "exited" /\ Cardinality(Running) < Concurrency
    /\ \E c \in Cases :
          /\ task[c] = "waiting" /\ \A d \in Cases : d < c => task[d] # "waiting"
          /\ task' = [task EXCEPT ![c] = "running"]
          /\ untidy' = IF open THEN untidy \cup {c} ELSE untidy
          /\ status' = IF open THEN status ELSE [status EXCEPT ![c] = "error"]
    /\ UNCHANGED <<command, pc, raised, code, results, open, written, signals>>

\* Test and teardown, which cannot be sent if the client was closed meanwhile.
Finish ==
    /\ pc # "exited"
    /\ \E c \in Running :
          /\ task' = [task EXCEPT ![c] = "done"]
          /\ untidy' = IF open THEN untidy \ {c} ELSE untidy
          /\ \E s \in {"passed", "failed", "error"} :
                status' = [status EXCEPT ![c] = IF open /\ @ # "error" THEN s ELSE "error"]
    /\ UNCHANGED <<command, pc, raised, code, results, open, written, signals>>

---------------------------------------------------------------------------
(* Signals *)

Signal == signals < MaxSignals /\ signals' = signals + 1

\* KeyboardInterrupt in the main thread: it leaves the pool's block through
\* __exit__, and that through the finally; in a handler, or while the interpreter
\* waits for threads, nobody catches it.
Interrupt ==
    /\ Signal
    /\ \/ /\ pc \in {"load", "connect", "distribute", "write", "print"}
          /\ Raise("interrupt") /\ UNCHANGED <<code, open>>
       \/ /\ pc \in {"submit", "collect"}
          /\ raised' = "interrupt" /\ pc' = "shutdown" /\ UNCHANGED <<code, open>>
       \/ pc = "shutdown" /\ raised' = "interrupt" /\ pc' = "close" /\ UNCHANGED <<code, open>>
       \/ pc = "close" /\ Raise("interrupt") /\ open' \in {open, FALSE} /\ UNCHANGED code
       \/ pc = "except" /\ Exit(130) /\ UNCHANGED <<raised, open>>
       \/ pc = "exiting" /\ code' \in {code, 130} /\ pc' \in {pc, "exited"} /\ UNCHANGED <<raised, open>>
       \/ pc = "serve" /\ UNCHANGED <<pc, raised, code, open>>     \* worker.stop
    /\ UNCHANGED <<command, task, status, results, written, untidy>>

\* SIGTERM, which only a worker handles.
Terminate ==
    /\ Signal
    /\ pc \notin {"serve", "exited"}
    /\ code' = 143 /\ Goto("exited")
    /\ UNCHANGED <<command, results, written, Pool>>

\* SIGKILL, or the machine goes down.
Die ==
    /\ pc # "exited"
    /\ code' = 137 /\ Goto("exited")
    /\ UNCHANGED <<command, results, written, signals, Pool>>

Init ==
    /\ command \in {"validate", "local", "distributed", "worker"}
    /\ pc = "load"
    /\ raised = "none"
    /\ code = -1
    /\ task = [c \in Cases |-> "none"]
    /\ status = [c \in Cases |-> "none"]
    /\ results = <<>>
    /\ open = TRUE
    /\ written = FALSE
    /\ signals = 0
    /\ untidy = {}

Main ==
    \/ Load \/ Connect \/ Serve \/ Distribute \/ Submit \/ Collect \/ Shutdown \/ Close
    \/ Write \/ Report \/ Handle \/ Leave

Next == Main \/ Begin \/ Finish \/ Interrupt \/ Terminate \/ Die

Spec == Init /\ [][Next]_mvars

---------------------------------------------------------------------------
(* Properties *)

\* The report of a local run tells of every case, each in its place and with
\* its final status, and when it is written nothing is running any more.
ReportTells ==
    command = "local" /\ written =>
        /\ results = [c \in Cases |-> status[c]]
        /\ \A c \in Cases : task[c] = "done"
        /\ ~open /\ untidy = {}

\* The exit code tells of the report.  0 is green: nothing was raised, and a run
\* has published a report in which everything passed, whatever else was thrown or
\* signalled.  Who exits with 1 and raised nothing has published one with a failure
\* and without an error.
CodeTellsReport ==
    /\ code = 0 =>
        /\ raised = "none"
        /\ command \in {"local", "distributed"} => written /\ results = [c \in Cases |-> "passed"]
    /\ code = 1 /\ raised = "none" =>
        written /\ \E c \in Cases : results[c] = "failed" /\ \A d \in Cases : results[d] # "error"

\* One interrupt spoils nothing: what a local run has begun it cleans up, and
\* no case loses the client it uses.
InterruptIsClean ==
    signals <= 1 /\ code \notin {137, 143} =>
        /\ pc = "exited" => untidy = {}
        /\ ~open => \A c \in Cases : task[c] \notin {"waiting", "running"}

\* The process comes to its end, however it is interrupted.
Exits == <>(pc = "exited")
=============================================================================
