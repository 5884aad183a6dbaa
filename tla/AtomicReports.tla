----------------------------- MODULE AtomicReports -----------------------------
(***************************************************************************)
(* The report directory of src/api_sentinel/reporting.py: write_reports    *)
(* puts results.json and then junit.xml there, each by atomic_write, that  *)
(* is through a temporary file that is synced and then renamed.  A writer  *)
(* is one `run' command; writers may follow one another or overlap, fail   *)
(* in any call, be killed at any moment, or go down with the machine.      *)
(*                                                                         *)
(* The file system is external: a rename takes effect in one step and      *)
(* reaches the disk at any later time, and a file that was not synced      *)
(* before the machine went down comes back incomplete.                     *)
(***************************************************************************)
EXTENDS Integers

CONSTANTS
    Writers,        \* the commands, numbered in the order they start, if they do
    MaxOutages      \* bound on how often the machine goes down

ASSUME ReportsAssumption == Writers \subseteq Nat /\ MaxOutages \in Nat

VARIABLES
    pc,         \* where a writer is in atomic_write
    target,     \* the file it is writing
    temp,       \* its temporary file, or NoFile
    file,       \* the reports in the directory
    disk,       \* the directory entries the disk has
    overlap,    \* history: two writers were active at once
    outages     \* history: how often the machine went down

rvars == <<pc, target, temp, file, disk, overlap, outages>>

Names  == {"results.json", "junit.xml"}
NoFile == [by |-> -1, whole |-> FALSE, synced |-> FALSE]

Active(w) == pc[w] \in {"create", "write", "sync", "replace", "unlink"}

Goto(w, label) == pc' = [pc EXCEPT ![w] = label]

---------------------------------------------------------------------------
(* write_reports *)

\* results.json is written before junit.xml.
First(name) == name = "results.json"

Start(w) ==
    /\ pc[w] = "idle"
    /\ \A v \in Writers : v > w => pc[v] = "idle"
    /\ Goto(w, "create")
    /\ \E name \in Names : First(name) /\ target' = [target EXCEPT ![w] = name]
    /\ overlap' = (overlap \/ \E v \in Writers : Active(v))
    /\ UNCHANGED <<temp, file, disk, outages>>

\* One file is in place: the other one, or the end, with the exit code of the run.
GoOn(w) ==
    IF First(target[w])
    THEN Goto(w, "create") /\ target' = [target EXCEPT ![w] = CHOOSE n \in Names : ~First(n)]
    ELSE Goto(w, "done") /\ UNCHANGED target

---------------------------------------------------------------------------
(* atomic_write *)

Raises(w) == Goto(w, "unlink") /\ UNCHANGED <<target, temp, file>>

\* mkstemp
Create(w) ==
    /\ pc[w] = "create"
    /\ \/ temp' = [temp EXCEPT ![w] = [by |-> w, whole |-> FALSE, synced |-> FALSE]]
          /\ Goto(w, "write")
       \/ Goto(w, "failed") /\ UNCHANGED temp
    /\ UNCHANGED <<target, file, disk, overlap, outages>>

\* write and flush
Write(w) ==
    /\ pc[w] = "write"
    /\ \/ temp' = [temp EXCEPT ![w].whole = TRUE] /\ Goto(w, "sync") /\ UNCHANGED <<target, file>>
       \/ Raises(w)
    /\ UNCHANGED <<disk, overlap, outages>>

\* Fault: no fsync.
NoSync(w) ==
    /\ pc[w] = "sync"
    /\ Goto(w, "replace")
    /\ UNCHANGED <<target, temp, file, disk, overlap, outages>>

\* fsync
Sync(w) ==
    /\ pc[w] = "sync"
    /\ \/ temp' = [temp EXCEPT ![w].synced = TRUE] /\ Goto(w, "replace") /\ UNCHANGED <<target, file>>
       \/ Raises(w)
    /\ UNCHANGED <<disk, overlap, outages>>

\* os.replace
Replace(w) ==
    /\ pc[w] = "replace"
    /\ \/ /\ file' = [file EXCEPT ![target[w]] = temp[w]]
          /\ temp' = [temp EXCEPT ![w] = NoFile]
          /\ GoOn(w)
       \/ Raises(w)
    /\ UNCHANGED <<disk, overlap, outages>>

\* finally: unlink; the exception goes on to main(), which exits with 2.
Unlink(w) ==
    /\ pc[w] = "unlink"
    /\ temp' = [temp EXCEPT ![w] = NoFile]
    /\ Goto(w, "failed")
    /\ UNCHANGED <<target, file, disk, overlap, outages>>

---------------------------------------------------------------------------
(* The environment *)

\* SIGKILL; the temporary file stays in the directory, where nobody looks at it.
Kill(w) ==
    /\ Active(w)
    /\ Goto(w, "killed")
    /\ temp' = [temp EXCEPT ![w] = NoFile]
    /\ UNCHANGED <<target, file, disk, overlap, outages>>

\* A directory entry reaches the disk.
Flush(name) ==
    /\ disk[name] # file[name]
    /\ disk' = [disk EXCEPT ![name] = file[name]]
    /\ UNCHANGED <<pc, target, temp, file, overlap, outages>>

\* What comes back of a file.
Remains(f) == IF f.synced THEN f ELSE [f EXCEPT !.whole = FALSE]

Outage ==
    /\ outages < MaxOutages
    /\ outages' = outages + 1
    /\ file' = [n \in Names |-> Remains(disk[n])]
    /\ disk' = file'
    /\ pc' = [w \in Writers |-> IF Active(w) THEN "killed" ELSE pc[w]]
    /\ temp' = [w \in Writers |-> NoFile]
    /\ UNCHANGED <<target, overlap>>

Init ==
    /\ pc = [w \in Writers |-> "idle"]
    /\ target = [w \in Writers |-> "results.json"]
    /\ temp = [w \in Writers |-> NoFile]
    /\ file = [n \in Names |-> NoFile]
    /\ disk = [n \in Names |-> NoFile]
    /\ overlap = FALSE
    /\ outages = 0

WriterStep(w) == Start(w) \/ Create(w) \/ Write(w) \/ Sync(w) \/ Replace(w) \/ Unlink(w)

Next ==
    \/ \E w \in Writers : WriterStep(w) \/ Kill(w)
    \/ \E n \in Names : Flush(n)
    \/ Outage

Spec == Init /\ [][Next]_rvars

---------------------------------------------------------------------------
(* Properties *)

File == [by : Writers \cup {-1}, whole : BOOLEAN, synced : BOOLEAN]

\* Type invariant of the directory and its writers; a command has a temporary
\* file only inside atomic_write, so one that ends by itself leaves none.
TypeOK ==
    /\ pc \in [Writers -> {"idle", "create", "write", "sync", "replace", "unlink",
                           "done", "failed", "killed"}]
    /\ target \in [Writers -> Names]
    /\ temp \in [Writers -> File]
    /\ file \in [Names -> File]
    /\ disk \in [Names -> File]
    /\ overlap \in BOOLEAN
    /\ outages \in 0..MaxOutages
    /\ \A w \in Writers : temp[w] # NoFile <=> pc[w] \in {"write", "sync", "replace", "unlink"}

\* A consumer never meets half a report, whoever writes, fails, is killed or
\* goes down with the machine while it is written (atomic_write).
Readable == \A n \in Names : file[n] # NoFile => file[n].whole

\* Without overlapping writers and outages the two files disagree in one way
\* only: junit.xml may be older than results.json (docs/SUITES.md:50).
PairInOrder ==
    ~overlap /\ outages = 0 => file["junit.xml"].by <= file["results.json"].by

\* An exit code that comes from the report means that both files tell of this
\* run, unless another command wrote there as well.
ExitMeansPublished ==
    \A w \in Writers :
        pc[w] = "done" /\ ~overlap /\ outages = 0 /\ (\A v \in Writers : v > w => pc[v] = "idle")
            => \A n \in Names : file[n].by = w
=============================================================================
