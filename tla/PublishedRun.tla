----------------------------- MODULE PublishedRun -----------------------------
(***************************************************************************)
(* A `run' command with the report directory it writes to: CommandLine and *)
(* AtomicReports together.  main() of src/api_sentinel/cli.py calls        *)
(* write_reports once it has a report; an interrupt or an error that       *)
(* arrives in atomic_write leaves through its finally, a process that dies *)
(* leaves its writer where it was.  The other writers are other commands.  *)
(***************************************************************************)
EXTENDS AtomicReports

CONSTANTS
    Own,            \* the writer of the command, the last one to start
    Size, Concurrency, MaxSignals, StderrFails      \* as in CommandLine

ASSUME CommandAssumption ==
    /\ Own \in Writers /\ \A w \in Writers : w <= Own
    /\ Size \in Nat \ {0}
    /\ Concurrency \in Nat \ {0}
    /\ MaxSignals \in Nat
    /\ StderrFails \in BOOLEAN

VARIABLES command, at, raised, code, task, status, results, open, written, signals, untidy

cvars == <<command, at, raised, code, task, status, results, open, written, signals, untidy>>
pvars == <<rvars, cvars>>

Command == INSTANCE CommandLine WITH pc <- at

---------------------------------------------------------------------------
(* The command *)

\* A step of atomic_write, inside write_reports.
OwnStep ==
    /\ at = "write" /\ WriterStep(Own)
    /\ UNCHANGED cvars

\* Fault: main goes on although write_reports raised.
WrittenAnyway ==
    /\ pc[Own] \in {"done", "failed"}
    /\ Command!Write
    /\ written'
    /\ UNCHANGED rvars

\* write_reports has returned, or raised what atomic_write raised.
Written ==
    /\ pc[Own] \in {"done", "failed"}
    /\ Command!Write
    /\ written' = (pc[Own] = "done")
    /\ UNCHANGED rvars

\* The finally of atomic_write comes before the handlers of main.
Finally ==
    /\ at = "except" /\ Unlink(Own)
    /\ UNCHANGED cvars

\* What main does besides.
Proceed ==
    /\ at # "write" /\ ~Active(Own)
    /\ Command!Main
    /\ UNCHANGED rvars

MainThread == OwnStep \/ Written \/ Finally \/ Proceed

PoolThread == (Command!Begin \/ Command!Finish) /\ UNCHANGED rvars

---------------------------------------------------------------------------
(* Signals, and the end of the process *)

\* An interrupt in write_reports raises where the thread is.
InterruptWriting ==
    /\ at = "write" /\ Active(Own)
    /\ Command!Interrupt
    /\ \/ pc[Own] = "create" /\ Create(Own) /\ pc'[Own] = "failed"
       \/ pc[Own] = "unlink" /\ Unlink(Own)
       \/ Raises(Own) /\ pc[Own] \notin {"create", "unlink"} /\ UNCHANGED <<disk, overlap, outages>>

\* One more cuts the finally short; main catches this one in its place.
InterruptFinally ==
    /\ at = "except" /\ Active(Own)
    /\ Command!Signal
    /\ Unlink(Own)
    /\ UNCHANGED <<command, at, raised, code, task, status, results, open, written, untidy>>

InterruptElsewhere ==
    /\ ~Active(Own)
    /\ Command!Interrupt
    /\ UNCHANGED rvars

\* The process ends without another word.
Ends ==
    /\ Command!Terminate \/ Command!Die
    /\ IF Active(Own) THEN Kill(Own) ELSE UNCHANGED rvars

\* The machine goes down, and the command with it.
GoesDown ==
    /\ Outage
    /\ IF at # "exited" THEN Command!Die ELSE UNCHANGED cvars

---------------------------------------------------------------------------
(* The other commands, and the disk *)

Others ==
    /\ \/ \E w \in Writers \ {Own} : WriterStep(w) \/ Kill(w)
       \/ \E n \in Names : Flush(n)
    /\ UNCHANGED cvars

PInit == Init /\ Command!Init

PNext ==
    \/ MainThread \/ PoolThread
    \/ InterruptWriting \/ InterruptFinally \/ InterruptElsewhere
    \/ Ends \/ GoesDown \/ Others

PSpec == PInit /\ [][PNext]_pvars

\* The threads of the command run.
FairSpec == PSpec /\ WF_pvars(MainThread) /\ WF_pvars(Command!Begin /\ UNCHANGED rvars)
    /\ WF_pvars(Command!Finish /\ UNCHANGED rvars)

---------------------------------------------------------------------------
(* Properties *)

\* The report of a local run tells of every case, each in its place and with its
\* final status, and when it is written nothing is running any more (run_local).
ReportTells == Command!ReportTells

\* The exit code tells of the report: 0 is green and has a report in which everything
\* passed, 1 has one with a failure and without an error (main, RunReport.exit_code).
CodeTellsReport == Command!CodeTellsReport

\* One interrupt spoils nothing: what a local run has begun it cleans up, and no
\* case loses the client it uses (the pool and the client in run_local).
InterruptIsClean == Command!InterruptIsClean

\* The process comes to its end, however it is interrupted (main).
Exits == Command!Exits

\* Whoever reads the directory once the command has ended learns from it what
\* the exit code says: with 0, and with 1 unless something was raised, both
\* files are whole and of this run, if no other command wrote in the meantime.
CodeIsOnFile ==
    /\ at = "exited" /\ command \in {"local", "distributed"} /\ raised = "none" /\ code \in {0, 1}
    /\ ~overlap /\ outages = 0
    => \A n \in Names : file[n].by = Own /\ file[n].whole
=============================================================================
