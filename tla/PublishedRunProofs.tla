-------------------------- MODULE PublishedRunProofs --------------------------
(***************************************************************************)
(* Proofs about the reports and the commands that write them.  First about *)
(* AtomicReports, for any number of writers and outages: no reader meets   *)
(* half a report, and what the two files tell of each other.  Then about   *)
(* PublishedRun, for any suite, pool and writers and any number of signals *)
(* and outages: what the report and the exit code of a command say is so,  *)
(* what one interrupt leaves behind is clean, and the report directory     *)
(* holds what the exit code tells of.                                      *)
(***************************************************************************)
EXTENDS PublishedRun, SequenceTheorems, TLAPS

USE ReportsAssumption, CommandAssumption

---------------------------------------------------------------------------
(* AtomicReports *)


LEMMA NamesKnown ==
    /\ "results.json" \in Names /\ "junit.xml" \in Names
    /\ \A n \in Names : First(n) <=> n = "results.json"
    /\ (CHOOSE n \in Names : ~First(n)) = "junit.xml"
  <1>1. \A n \in Names : ~First(n) <=> n = "junit.xml"
    BY DEF Names, First
  <1>2. (CHOOSE n \in Names : ~First(n)) = "junit.xml"
    <2>1. "junit.xml" \in Names /\ ~First("junit.xml")
      BY DEF Names, First
    <2>2. (CHOOSE n \in Names : ~First(n)) \in Names /\ ~First(CHOOSE n \in Names : ~First(n))
      BY <2>1
    <2> QED
      BY <1>1, <2>2
  <1> QED
    BY <1>2 DEF Names, First

LEMMA GoesOn ==
    ASSUME TypeOK, NEW w \in Writers, GoOn(w)
    PROVE  \/ target[w] = "results.json" /\ pc' = [pc EXCEPT ![w] = "create"] /\ target' = [target EXCEPT ![w] = "junit.xml"]
           \/ target[w] = "junit.xml" /\ pc' = [pc EXCEPT ![w] = "done"] /\ target' = target
  <1>1. target[w] \in {"results.json", "junit.xml"}
    BY DEF TypeOK, Names
  <1>2. CASE target[w] = "results.json"
    BY <1>2, NamesKnown DEF GoOn, Goto, First
  <1>3. CASE target[w] = "junit.xml"
    BY <1>3, NamesKnown DEF GoOn, Goto, First
  <1> QED
    BY <1>1, <1>2, <1>3

\* What the steps of a writer do, one disjunct for each way they may go.
LEMMA WriterSteps ==
    ASSUME TypeOK, NEW w \in Writers, WriterStep(w) \/ Kill(w)
    PROVE  /\ UNCHANGED <<disk, outages>>
           /\ \/ /\ pc[w] = "idle" /\ pc' = [pc EXCEPT ![w] = "create"]
                 /\ \A v \in Writers : v > w => pc[v] = "idle"
                 /\ target' = [target EXCEPT ![w] = "results.json"] /\ UNCHANGED <<temp, file>>
                 /\ overlap' = (overlap \/ \E v \in Writers : Active(v))
              \/ /\ pc[w] = "create" /\ pc' = [pc EXCEPT ![w] = "write"]
                 /\ temp' = [temp EXCEPT ![w] = [by |-> w, whole |-> FALSE, synced |-> FALSE]]
                 /\ UNCHANGED <<target, file, overlap>>
              \/ /\ pc[w] = "create" /\ pc' = [pc EXCEPT ![w] = "failed"]
                 /\ UNCHANGED <<target, temp, file, overlap>>
              \/ /\ pc[w] = "write" /\ pc' = [pc EXCEPT ![w] = "sync"]
                 /\ temp' = [temp EXCEPT ![w].whole = TRUE] /\ UNCHANGED <<target, file, overlap>>
              \/ /\ pc[w] = "sync" /\ pc' = [pc EXCEPT ![w] = "replace"]
                 /\ temp' = [temp EXCEPT ![w].synced = TRUE] /\ UNCHANGED <<target, file, overlap>>
              \/ /\ pc[w] = "replace" /\ file' = [file EXCEPT ![target[w]] = temp[w]]
                 /\ temp' = [temp EXCEPT ![w] = NoFile] /\ GoOn(w) /\ UNCHANGED overlap
              \/ /\ pc[w] \in {"write", "sync", "replace"} /\ pc' = [pc EXCEPT ![w] = "unlink"]
                 /\ UNCHANGED <<target, temp, file, overlap>>
              \/ /\ Active(w) /\ pc'[w] \in {"failed", "killed"} /\ pc' = [pc EXCEPT ![w] = pc'[w]]
                 /\ temp' = [temp EXCEPT ![w] = NoFile] /\ UNCHANGED <<target, file, overlap>>
  <1>1. CASE Start(w)
    BY <1>1, NamesKnown DEF Start, Goto
  <1>2. CASE Create(w)
    BY <1>2 DEF Create, Goto
  <1>3. CASE Write(w)
    BY <1>3 DEF Write, Raises, Goto
  <1>4. CASE Sync(w)
    BY <1>4 DEF Sync, Raises, Goto
  <1>5. CASE Replace(w)
    BY <1>5 DEF Replace, Raises, Goto
  <1>6. CASE Unlink(w) \/ Kill(w)
    BY <1>6 DEF Unlink, Kill, Goto, Active, TypeOK
  <1> QED
    BY <1>1, <1>2, <1>3, <1>4, <1>5, <1>6 DEF WriterStep

LEMMA FilesTyped ==
    /\ NoFile \in File /\ ~NoFile.synced
    /\ \A f \in File : Remains(f) \in File /\ (f.synced => Remains(f) = f)
    /\ Remains(NoFile) = NoFile
    /\ \A f \in File : /\ [f EXCEPT !.whole = TRUE] \in File /\ [f EXCEPT !.whole = TRUE] # NoFile
                       /\ [f EXCEPT !.synced = TRUE] \in File /\ [f EXCEPT !.synced = TRUE] # NoFile
    /\ \A w \in Writers : LET f == [by |-> w, whole |-> FALSE, synced |-> FALSE] IN f \in File /\ f # NoFile
  <1>1. NoFile \in File /\ ~NoFile.synced
    BY DEF File, NoFile
  <1>2. \A f \in File : Remains(f) \in File /\ (f.synced => Remains(f) = f)
    BY DEF File, Remains
  <1>3. Remains(NoFile) = NoFile
    <2>1. Remains(NoFile) = [NoFile EXCEPT !.whole = FALSE]
      BY <1>1 DEF Remains
    <2>2. \A f, g \in File : f.by = g.by /\ f.whole = g.whole /\ f.synced = g.synced => f = g
      BY DEF File
    <2>3. LET g == [NoFile EXCEPT !.whole = FALSE] IN
            g \in File /\ g.by = NoFile.by /\ g.whole = FALSE /\ g.synced = NoFile.synced
      BY <1>1 DEF File
    <2>4. NoFile.whole = FALSE
      BY DEF NoFile
    <2> QED
      BY <1>1, <2>1, <2>2, <2>3, <2>4
  <1>4. ASSUME NEW f \in File
        PROVE  /\ [f EXCEPT !.whole = TRUE] \in File /\ [f EXCEPT !.whole = TRUE].whole
               /\ [f EXCEPT !.synced = TRUE] \in File /\ [f EXCEPT !.synced = TRUE].synced
    BY DEF File
  <1>5. ASSUME NEW w \in Writers
        PROVE  LET f == [by |-> w, whole |-> FALSE, synced |-> FALSE] IN f \in File /\ f.by # -1
    BY DEF File
  <1>6. NoFile.by = -1 /\ ~NoFile.whole
    BY DEF NoFile
  <1> QED
    BY <1>1, <1>2, <1>3, <1>4, <1>5, <1>6

LEMMA WriterTyped ==
    ASSUME TypeOK, NEW w \in Writers, WriterStep(w) \/ Kill(w)
    PROVE  TypeOK'
  <1> USE DEF TypeOK
  <1>1. UNCHANGED <<disk, outages>>
    BY WriterSteps
  <1>2. CASE Start(w)
    BY <1>1, <1>2, NamesKnown DEF Start, Goto
  <1>3. CASE Create(w)
    BY <1>1, <1>3, FilesTyped DEF Create, Goto
  <1>4. CASE Write(w)
    <2>1. CASE Raises(w)
      BY <1>1, <1>4, <2>1 DEF Write, Raises, Goto
    <2>2. CASE temp' = [temp EXCEPT ![w].whole = TRUE] /\ Goto(w, "sync") /\ UNCHANGED <<target, file>>
      BY <1>1, <1>4, <2>2, FilesTyped DEF Write, Goto
    <2> QED
      BY <1>4, <2>1, <2>2 DEF Write
  <1>5. CASE Sync(w)
    <2>1. CASE Raises(w)
      BY <1>1, <1>5, <2>1 DEF Sync, Raises, Goto
    <2>2. CASE temp' = [temp EXCEPT ![w].synced = TRUE] /\ Goto(w, "replace") /\ UNCHANGED <<target, file>>
      BY <1>1, <1>5, <2>2, FilesTyped DEF Sync, Goto
    <2> QED
      BY <1>5, <2>1, <2>2 DEF Sync
  <1>6. CASE Replace(w)
    <2>1. CASE Raises(w)
      BY <1>1, <1>6, <2>1 DEF Replace, Raises, Goto
    <2>2. CASE file' = [file EXCEPT ![target[w]] = temp[w]] /\ temp' = [temp EXCEPT ![w] = NoFile] /\ GoOn(w)
      <3>1. target' \in [Writers -> Names] /\ (pc' = [pc EXCEPT ![w] = "create"] \/ pc' = [pc EXCEPT ![w] = "done"])
        BY <2>2, GoesOn, NamesKnown
      <3> QED
        BY <1>1, <1>6, <2>2, <3>1, FilesTyped DEF Replace
    <2> QED
      BY <1>6, <2>1, <2>2 DEF Replace
  <1>7. CASE Unlink(w)
    BY <1>1, <1>7, FilesTyped DEF Unlink, Goto
  <1>8. CASE Kill(w)
    BY <1>1, <1>8, FilesTyped DEF Kill, Goto
  <1> QED
    BY <1>2, <1>3, <1>4, <1>5, <1>6, <1>7, <1>8 DEF WriterStep

LEMMA NextTyped == TypeOK /\ [Next]_rvars => TypeOK'
  <1> SUFFICES ASSUME TypeOK, [Next]_rvars PROVE TypeOK'
    OBVIOUS
  <1>1. ASSUME NEW w \in Writers, WriterStep(w) \/ Kill(w) PROVE TypeOK'
    BY <1>1, WriterTyped
  <1>2. ASSUME NEW n \in Names, Flush(n) PROVE TypeOK'
    BY <1>2 DEF Flush, TypeOK
  <1>3. CASE Outage
    <2>1. file' \in [Names -> File] /\ disk' \in [Names -> File] /\ outages' \in 0..MaxOutages
      BY <1>3, FilesTyped DEF Outage, TypeOK
    <2>2. /\ temp' = [w \in Writers |-> NoFile] /\ UNCHANGED <<target, overlap>>
          /\ pc' = [w \in Writers |-> IF Active(w) THEN "killed" ELSE pc[w]]
      BY <1>3 DEF Outage
    <2> QED
      BY <2>1, <2>2, FilesTyped DEF TypeOK, Active
  <1>4. CASE UNCHANGED rvars
    BY <1>4 DEF rvars, TypeOK
  <1> QED
    BY <1>1, <1>2, <1>3, <1>4 DEF Next

LEMMA InitTyped == Init => TypeOK
  <1> SUFFICES ASSUME Init PROVE TypeOK
    OBVIOUS
  <1>1. /\ pc = [w \in Writers |-> "idle"] /\ target = [w \in Writers |-> "results.json"]
        /\ temp = [w \in Writers |-> NoFile]
    BY DEF Init
  <1>2. file \in [Names -> File] /\ disk \in [Names -> File]
    BY FilesTyped DEF Init
  <1>3. overlap \in BOOLEAN
    BY DEF Init
  <1>4. outages \in 0..MaxOutages
    BY DEF Init
  <1>5. \A w \in Writers : temp[w] # NoFile <=> pc[w] \in {"write", "sync", "replace", "unlink"}
    BY <1>1
  <1> QED
    BY <1>1, <1>2, <1>3, <1>4, <1>5, NamesKnown, FilesTyped DEF TypeOK

\* The directory stays within its types, and a writer has a temporary file only
\* inside atomic_write.
THEOREM ReportsTyped == Spec => []TypeOK
  BY InitTyped, NextTyped, PTL DEF Spec

---------------------------------------------------------------------------
(* Only what was written to the end and synced gets its name. *)

Sound(f) == f # NoFile => f.whole /\ f.synced

ReadInv ==
    /\ TypeOK
    /\ \A n \in Names : Sound(file[n]) /\ Sound(disk[n])
    /\ \A w \in Writers : /\ pc[w] \in {"sync", "replace"} => temp[w].whole
                          /\ pc[w] = "replace" => temp[w].synced

LEMMA WriterSound ==
    ASSUME ReadInv, NEW w \in Writers, WriterStep(w) \/ Kill(w)
    PROVE  ReadInv'
  <1> USE DEF ReadInv
  <1>1. TypeOK' /\ UNCHANGED disk
    BY WriterTyped, WriterSteps
  <1>2. ASSUME NEW n \in Names PROVE Sound(file[n])'
    <2>1. CASE UNCHANGED file
      BY <2>1 DEF Sound, NoFile
    <2>2. CASE pc[w] = "replace" /\ file' = [file EXCEPT ![target[w]] = temp[w]]
      <3>1. file'[n] = file[n] \/ file'[n] = temp[w]
        BY <2>2 DEF TypeOK
      <3>2. temp[w].whole /\ temp[w].synced
        BY <2>2
      <3> QED
        BY <3>1, <3>2 DEF Sound
    <2> QED
      BY <2>1, <2>2, WriterSteps
  <1>3. ASSUME NEW v \in Writers
        PROVE  /\ pc'[v] \in {"sync", "replace"} => temp'[v].whole
               /\ pc'[v] = "replace" => temp'[v].synced
    <2>1. CASE v # w
      <3>1. pc'[v] = pc[v] /\ temp'[v] = temp[v]
        BY <2>1, WriterSteps, GoesOn DEF TypeOK
      <3> QED
        BY <3>1
    <2>2. CASE v = w
      <3>1. \/ pc'[w] \notin {"sync", "replace"}
            \/ pc'[w] = "sync" /\ temp'[w] = [temp[w] EXCEPT !.whole = TRUE]
            \/ pc[w] = "sync" /\ pc'[w] = "replace" /\ temp'[w] = [temp[w] EXCEPT !.synced = TRUE]
        <4>1. GoOn(w) => pc'[w] \in {"create", "done"}
          BY GoesOn DEF TypeOK
        <4>2. pc'[w] \in {"create", "done", "failed", "killed", "write", "unlink"}
                => pc'[w] \notin {"sync", "replace"}
          OBVIOUS
        <4>3. pc = [u \in Writers |-> pc[u]] /\ temp = [u \in Writers |-> temp[u]]
          BY DEF TypeOK
        <4>4. CASE pc' = [pc EXCEPT ![w] = "sync"] /\ temp' = [temp EXCEPT ![w].whole = TRUE]
          BY <4>3, <4>4
        <4>5. CASE /\ pc[w] = "sync" /\ pc' = [pc EXCEPT ![w] = "replace"]
                   /\ temp' = [temp EXCEPT ![w].synced = TRUE]
          BY <4>3, <4>5
        <4>6. CASE \E p \in {"create", "failed", "write", "unlink"} : pc' = [pc EXCEPT ![w] = p]
          BY <4>2, <4>3, <4>6
        <4> QED
          BY <4>1, <4>2, <4>4, <4>5, <4>6, WriterSteps
      <3> QED
        BY <2>2, <3>1 DEF TypeOK, File
    <2> QED
      BY <2>1, <2>2
  <1>4. \A n \in Names : Sound(disk[n])'
    BY <1>1 DEF Sound, NoFile
  <1> QED
    BY <1>1, <1>2, <1>3, <1>4

LEMMA InitRead == Init => ReadInv
  <1> SUFFICES ASSUME Init PROVE ReadInv
    OBVIOUS
  <1>1. TypeOK
    BY InitTyped
  <1> QED
    BY <1>1 DEF Init, ReadInv, Sound

LEMMA ReadKept == ReadInv /\ [Next]_rvars => ReadInv'
  <1> SUFFICES ASSUME ReadInv, [Next]_rvars PROVE ReadInv'
    OBVIOUS
  <1> USE DEF ReadInv
  <1>1. ASSUME NEW w \in Writers, WriterStep(w) \/ Kill(w) PROVE ReadInv'
    BY <1>1, WriterSound
  <1>2. TypeOK'
    BY NextTyped
  <1>3. ASSUME NEW n \in Names, Flush(n) PROVE ReadInv'
    BY <1>2, <1>3 DEF Flush, Sound, NoFile, TypeOK
  <1>4. CASE Outage
    <2>1. \A n \in Names : file'[n] = Remains(disk[n]) /\ disk'[n] = file'[n]
      BY <1>4 DEF Outage
    <2>2. \A n \in Names : file'[n] = disk[n] /\ disk'[n] = disk[n]
      BY <2>1, FilesTyped DEF Sound, TypeOK
    <2>3. \A n \in Names : Sound(file[n])' /\ Sound(disk[n])'
      BY <2>2 DEF Sound, NoFile
    <2>4. \A w \in Writers : pc'[w] \notin {"sync", "replace"}
      BY <1>4 DEF Outage, Active
    <2> QED
      BY <1>2, <2>3, <2>4
  <1>5. CASE UNCHANGED rvars
    BY <1>2, <1>5 DEF rvars, Sound, NoFile
  <1> QED
    BY <1>1, <1>3, <1>4, <1>5 DEF Next

\* No interleaving of writers, failures, kills and outages lets a reader meet half
\* a report (atomic_write).
THEOREM NeverHalf == Spec => []Readable
  <1>1. ReadInv => Readable
    BY DEF ReadInv, Readable, Sound
  <1> QED
    BY <1>1, InitRead, ReadKept, PTL DEF Spec

---------------------------------------------------------------------------
(* What the two files tell of each other: writers start in their order, and *)
(* the last one that started is the only one that may still be writing.     *)

Later(w) == {v \in Writers : v > w /\ pc[v] # "idle"}

OrderInv ==
    /\ \A w \in Writers : temp[w] # NoFile => temp[w].by = w
    /\ \A n \in Names : \A f \in {file[n], disk[n]} : f.by = -1 \/ pc[f.by] # "idle"
    /\ ~overlap => \A w \in Writers : Active(w) => Later(w) = {}

PairInv ==
    ~overlap /\ outages = 0 =>
        /\ file["junit.xml"].by <= file["results.json"].by
        /\ \A w \in Writers :
               /\ Active(w) /\ target[w] = "junit.xml" => file["results.json"].by = w
               /\ pc[w] = "done" /\ Later(w) = {} => \A n \in Names : file[n].by = w

LEMMA PcMoves ==
    ASSUME TypeOK, NEW w \in Writers, WriterStep(w) \/ Kill(w)
    PROVE  /\ \A v \in Writers \ {w} : pc'[v] = pc[v]
           /\ pc'[w] # "idle"
           /\ pc[w] # "idle" => Active(w) /\ UNCHANGED overlap
           /\ pc[w] = "idle" => /\ \A v \in Writers : v > w => pc[v] = "idle"
                                /\ UNCHANGED <<file, temp>> /\ pc'[w] = "create" /\ target'[w] = "results.json"
                                /\ overlap' = (overlap \/ \E v \in Writers : Active(v))
           /\ \A v \in Writers \ {w} : target'[v] = target[v]
  <1>1. pc = [v \in Writers |-> pc[v]] /\ target = [v \in Writers |-> target[v]]
    BY DEF TypeOK
  <1>2. CASE pc[w] = "replace" /\ GoOn(w) /\ UNCHANGED overlap
    BY <1>1, <1>2, GoesOn DEF Active
  <1>3. CASE pc[w] = "idle"
    BY <1>1, <1>3, WriterSteps DEF Active
  <1>4. CASE pc[w] # "idle" /\ ~(pc[w] = "replace" /\ GoOn(w) /\ UNCHANGED overlap)
    <2>1. /\ UNCHANGED <<target, overlap>> /\ Active(w)
          /\ \E p \in {"write", "failed", "sync", "replace", "unlink", "killed"} : pc' = [pc EXCEPT ![w] = p]
      BY <1>4, WriterSteps DEF Active
    <2> QED
      BY <1>1, <1>4, <2>1
  <1> QED
    BY <1>2, <1>3, <1>4

LEMMA WriterOrder ==
    ASSUME TypeOK, OrderInv, NEW w \in Writers, WriterStep(w) \/ Kill(w)
    PROVE  OrderInv'
  <1> USE PcMoves
  <1>1. UNCHANGED disk
    BY WriterSteps
  <1>3. ASSUME NEW v \in Writers, temp'[v] # NoFile PROVE temp'[v].by = v
    <2>1. temp = [u \in Writers |-> temp[u]]
      BY DEF TypeOK
    <2>2. CASE v # w
      BY <1>3, <2>1, <2>2, WriterSteps DEF OrderInv
    <2>3. CASE v = w
      <3>1. \/ temp'[w] = temp[w]
            \/ temp'[w] = NoFile
            \/ temp'[w].by = w
            \/ pc[w] \in {"write", "sync"} /\ temp'[w].by = temp[w].by
        <4>1. temp[w] \in File
          BY DEF TypeOK
        <4> QED
          BY <2>1, <4>1, WriterSteps DEF File
      <3>2. pc[w] \in {"write", "sync"} => temp[w].by = w
        BY DEF OrderInv, TypeOK
      <3> QED
        BY <1>3, <2>3, <3>1, <3>2 DEF OrderInv
    <2> QED
      BY <2>2, <2>3
  <1>4. ASSUME NEW n \in Names, NEW f, f = file'[n] \/ f = disk'[n] PROVE f.by = -1 \/ pc'[f.by] # "idle"
    <2>1. f \in {file[n], disk[n], temp[w]}
      <3>1. file' = file \/ file' = [file EXCEPT ![target[w]] = temp[w]]
        BY WriterSteps
      <3> QED
        BY <1>1, <1>4, <3>1 DEF TypeOK
    <2>2. f.by = -1 \/ f.by \in Writers
      BY <2>1 DEF TypeOK, File
    <2>3. CASE f = temp[w] /\ f \notin {file[n], disk[n]}
      BY <2>2, <2>3 DEF OrderInv, NoFile
    <2>4. CASE f \in {file[n], disk[n]}
      <3>1. f.by = -1 \/ pc[f.by] # "idle"
        BY <2>4 DEF OrderInv
      <3>2. \A v \in Writers : pc[v] # "idle" => pc'[v] # "idle"
        OBVIOUS
      <3> QED
        BY <2>2, <3>1, <3>2
    <2> QED
      BY <2>1, <2>3, <2>4
  <1>5. ASSUME ~overlap', NEW u \in Writers, Active(u)', NEW v \in Later(u)' PROVE FALSE
    <2>1. v \in Writers /\ v > u /\ pc'[v] # "idle"
      BY DEF Later
    <2>2. CASE pc[w] # "idle"
      <3>1. Active(u) /\ ~overlap
        BY <1>5, <2>2 DEF Active
      <3>2. v \in Later(u)
        BY <2>1, <2>2 DEF Later
      <3> QED
        BY <3>1, <3>2 DEF OrderInv
    <2>3. CASE pc[w] = "idle"
      <3>1. u = w
        BY <1>5, <2>3 DEF Active
      <3>2. pc[v] = "idle" /\ v # w
        BY <2>1, <2>3, <3>1, ReportsAssumption
      <3> QED
        BY <2>1, <3>2
    <2> QED
      BY <2>2, <2>3
  <1> QED
    BY <1>3, <1>4, <1>5 DEF OrderInv

LEMMA NextOrder == TypeOK /\ OrderInv /\ [Next]_rvars => OrderInv'
  <1> SUFFICES ASSUME TypeOK, OrderInv, [Next]_rvars PROVE OrderInv'
    OBVIOUS
  <1>1. ASSUME NEW w \in Writers, WriterStep(w) \/ Kill(w) PROVE OrderInv'
    BY <1>1, WriterOrder
  <1>2. ASSUME NEW n \in Names, Flush(n) PROVE OrderInv'
    <2>1. \A m \in Names : disk'[m] \in {file[m], disk[m]}
      BY <1>2 DEF Flush, TypeOK
    <2>2. UNCHANGED <<pc, temp, file, overlap>>
      BY <1>2 DEF Flush
    <2>3. ASSUME NEW m \in Names, NEW f, f \in {file'[m], disk'[m]} PROVE f.by = -1 \/ pc'[f.by] # "idle"
      BY <2>1, <2>2, <2>3 DEF OrderInv
    <2> QED
      BY <2>2, <2>3 DEF OrderInv, Later, Active
  <1>3. CASE Outage
    <2>1. \A w \in Writers : temp'[w] = NoFile /\ ~Active(w)'
      BY <1>3 DEF Outage, Active
    <2>2. \A w \in Writers : pc'[w] # "idle" <=> pc[w] # "idle"
      BY <1>3 DEF Outage, Active
    <2>3. \A n \in Names : file'[n].by = disk[n].by /\ disk'[n] = file'[n] /\ disk[n].by \in Writers \cup {-1}
      BY <1>3 DEF Outage, Remains, TypeOK, File
    <2>4. ASSUME NEW n \in Names, NEW f, f \in {file'[n], disk'[n]} PROVE f.by = -1 \/ pc'[f.by] # "idle"
      <3>1. f.by = disk[n].by /\ disk[n] \in {file[n], disk[n]}
        BY <2>3, <2>4
      <3>2. disk[n].by = -1 \/ pc[disk[n].by] # "idle"
        BY <3>1 DEF OrderInv
      <3> QED
        BY <2>2, <2>3, <3>1, <3>2
    <2> QED
      BY <2>1, <2>4 DEF OrderInv
  <1>4. CASE UNCHANGED rvars
    BY <1>4 DEF rvars, OrderInv, Later, Active
  <1> QED
    BY <1>1, <1>2, <1>3, <1>4 DEF Next

LEMMA WriterPair ==
    ASSUME TypeOK, OrderInv, PairInv, NEW w \in Writers, WriterStep(w) \/ Kill(w), ~overlap', outages' = 0
    PROVE  PairInv'
  <1> USE PcMoves, NamesKnown
  <1>1. ~overlap /\ outages = 0
    BY WriterSteps
  <1>2. \A u, v \in Writers : Active(u) /\ Active(v) => u = v
    BY <1>1 DEF OrderInv, Later, Active
  <1>3. ASSUME pc[w] # "idle", NEW u \in Writers \ {w} PROVE ~Active(u)'
    BY <1>2, <1>3 DEF Active
  <1>4. ASSUME NEW u \in Writers, pc'[u] = "done", Later(u)' = {}
        PROVE  IF u = w THEN pc[w] = "replace" /\ file' = [file EXCEPT ![target[w]] = temp[w]] /\ GoOn(w)
               ELSE pc[u] = "done" /\ Later(u) = {} /\ w < u
    <2>1. CASE u = w
      <3>1. pc = [v \in Writers |-> pc[v]]
        BY DEF TypeOK
      <3>2. pc[w] = "replace" /\ file' = [file EXCEPT ![target[w]] = temp[w]] /\ GoOn(w)
        BY <1>4, <2>1, <3>1, WriterSteps
      <3> QED
        BY <2>1, <3>2
    <2>2. CASE u # w
      <3>1. pc[u] = "done"
        BY <1>4, <2>2
      <3>2. \A v \in Writers : v > u => pc'[v] = "idle"
        BY <1>4 DEF Later
      <3>3. ~(w > u)
        BY <3>2
      <3>4. \A v \in Writers : v > u => pc[v] = "idle"
        BY <3>2, <3>3
      <3>5. Later(u) = {}
        BY <3>4 DEF Later
      <3>6. u \in Int /\ w \in Int
        OBVIOUS
      <3>7. w < u
        BY <2>2, <3>3, <3>6
      <3> QED
        BY <2>2, <3>1, <3>5, <3>7
    <2> QED
      BY <2>1, <2>2
  <1>5. CASE UNCHANGED file /\ pc[w] = "idle"
    <2>1. ASSUME NEW u \in Writers, pc'[u] = "done", Later(u)' = {} PROVE \A n \in Names : file'[n].by = u
      BY <1>1, <1>4, <1>5, <2>1 DEF PairInv
    <2>2. ASSUME NEW u \in Writers, Active(u)', target'[u] = "junit.xml" PROVE file'["results.json"].by = u
      BY <1>1, <1>5, <2>2 DEF PairInv, Active
    <2> QED
      BY <1>1, <1>5, <2>1, <2>2 DEF PairInv
  <1>6. CASE /\ pc[w] # "idle" /\ UNCHANGED <<file, target>>
             /\ ~(pc[w] = "replace" /\ file' = [file EXCEPT ![target[w]] = temp[w]] /\ GoOn(w))
    <2>1. Active(w)
      BY <1>6
    <2>2. ASSUME NEW u \in Writers, pc'[u] = "done", Later(u)' = {} PROVE \A n \in Names : file'[n].by = u
      <3>1. u # w
        BY <1>4, <1>6, <2>2
      <3> QED
        BY <1>1, <1>4, <1>6, <2>2, <3>1 DEF PairInv
    <2>3. ASSUME NEW u \in Writers, Active(u)', target'[u] = "junit.xml" PROVE file'["results.json"].by = u
      BY <1>1, <1>3, <1>6, <2>1, <2>3 DEF PairInv
    <2> QED
      BY <1>1, <1>6, <2>2, <2>3 DEF PairInv
  <1>7. CASE pc[w] = "replace" /\ file' = [file EXCEPT ![target[w]] = temp[w]] /\ GoOn(w)
    <2>1. Active(w) /\ temp[w].by = w
      BY <1>7 DEF Active, TypeOK, OrderInv
    <2>2. \A n \in Names : file[n].by <= w
      <3>1. ASSUME NEW n \in Names PROVE file[n].by <= w
        <4>1. w \in Nat
          BY ReportsAssumption
        <4>2. CASE file[n].by = -1
          BY <4>1, <4>2
        <4>3. CASE file[n].by # -1
          <5>1. file[n].by \in Writers /\ pc[file[n].by] # "idle"
            BY <4>3 DEF TypeOK, File, OrderInv
          <5>2. file[n].by \notin Later(w)
            BY <1>1, <2>1 DEF OrderInv
          <5>3. \A v \in Writers : v \in Int
            BY ReportsAssumption
          <5>4. ~(file[n].by > w)
            BY <5>1, <5>2 DEF Later
          <5>5. \A v \in Writers : ~(v > w) => v <= w
            BY <4>1, <5>3
          <5> QED
            BY <5>1, <5>4, <5>5
        <4> QED
          BY <4>2, <4>3
      <3> QED
        BY <3>1
    <2>3. target[w] = "junit.xml" => file["results.json"].by = w
      BY <1>1, <2>1 DEF PairInv
    <2>4. target[w] = "results.json" => file'["results.json"].by = w /\ file'["junit.xml"].by = file["junit.xml"].by
      BY <1>7, <2>1 DEF TypeOK
    <2>5. target[w] = "junit.xml" => file'["junit.xml"].by = w /\ file'["results.json"].by = w
      BY <1>7, <2>1, <2>3 DEF TypeOK
    <2>6. target[w] \in {"results.json", "junit.xml"}
      BY DEF TypeOK, Names
    <2>7. \A n \in Names : n = "results.json" \/ n = "junit.xml"
      BY DEF Names
    <2>8. ASSUME NEW u \in Writers, Active(u)' \/ (pc'[u] = "done" /\ Later(u)' = {}) PROVE u = w
      <3>1. CASE Active(u)'
        BY <1>3, <1>7, <3>1
      <3>2. CASE pc'[u] = "done" /\ Later(u)' = {} /\ u # w
        BY <1>1, <1>4, <2>1, <3>2 DEF OrderInv, Later
      <3> QED
        BY <2>8, <3>1, <3>2
    <2>9. file'["junit.xml"].by <= file'["results.json"].by
      BY <2>2, <2>4, <2>5, <2>6
    <2>10. file'["results.json"].by = w
      BY <2>4, <2>5, <2>6
    <2>11. pc'[w] = "done" => target[w] = "junit.xml"
      BY <1>7, GoesOn DEF TypeOK
    <2> QED
      BY <2>5, <2>7, <2>8, <2>9, <2>10, <2>11 DEF PairInv
  <1> QED
    BY <1>5, <1>6, <1>7, WriterSteps

LEMMA InitInOrder == Init => TypeOK /\ OrderInv /\ PairInv
  <1> SUFFICES ASSUME Init PROVE OrderInv /\ PairInv
    BY InitTyped
  <1>1. /\ \A w \in Writers : pc[w] = "idle" /\ ~Active(w) /\ temp[w] = NoFile
        /\ \A n \in Names : file[n].by = -1 /\ disk[n].by = -1
    BY DEF Init, Active, NoFile
  <1>2. OrderInv
    BY <1>1 DEF OrderInv
  <1>3. PairInv
    <2>1. file["junit.xml"].by = -1 /\ file["results.json"].by = -1 /\ -1 <= -1
      BY <1>1, NamesKnown
    <2>2. \A w \in Writers : ~Active(w) /\ pc[w] # "done"
      BY <1>1
    <2> QED
      BY <2>1, <2>2 DEF PairInv
  <1> QED
    BY <1>2, <1>3

LEMMA InOrderKept == TypeOK /\ OrderInv /\ PairInv /\ [Next]_rvars => TypeOK' /\ OrderInv' /\ PairInv'
  <1> SUFFICES ASSUME TypeOK, OrderInv, PairInv, [Next]_rvars PROVE TypeOK' /\ OrderInv' /\ PairInv'
    OBVIOUS
  <1>1. TypeOK' /\ OrderInv'
    BY NextTyped, NextOrder
  <1>2. ASSUME NEW w \in Writers, WriterStep(w) \/ Kill(w) PROVE PairInv'
    <2>1. CASE ~overlap' /\ outages' = 0
      BY <1>2, <2>1, WriterPair
    <2>2. CASE ~(~overlap' /\ outages' = 0)
      BY <2>2 DEF PairInv
    <2> QED
      BY <2>1, <2>2
  <1>3. ASSUME NEW n \in Names, Flush(n) PROVE PairInv'
    BY <1>3 DEF Flush, PairInv, Later, Active
  <1>4. Outage => PairInv'
    <2>1. Outage => outages' # 0
      BY DEF Outage, TypeOK
    <2> QED
      BY <2>1 DEF PairInv
  <1>5. UNCHANGED rvars => PairInv'
    <2>1. SUFFICES ASSUME UNCHANGED <<pc, target, file, overlap, outages>> PROVE PairInv'
      BY DEF rvars
    <2>2. \A w \in Writers : Later(w)' = Later(w) /\ Active(w)' = Active(w)
      BY <2>1 DEF Later, Active
    <2> QED
      BY <2>1, <2>2 DEF PairInv
  <1> QED
    BY <1>1, <1>2, <1>3, <1>4, <1>5 DEF Next

\* Together they hold in every state.
LEMMA InOrder == Spec => [](TypeOK /\ OrderInv /\ PairInv)
  BY InitInOrder, InOrderKept, PTL DEF Spec

\* junit.xml never tells of a later run than results.json, as long as commands do
\* not overlap and the machine stays up (write_reports).
THEOREM JunitLags == Spec => []PairInOrder
  <1>1. PairInv => PairInOrder
    BY DEF PairInv, PairInOrder
  <1> QED
    BY <1>1, InOrder, PTL

\* A command that left with the exit code of its report has put both files in place
\* (write_reports, run).
THEOREM BothInPlace == Spec => []ExitMeansPublished
  <1>1. PairInv => ExitMeansPublished
    BY DEF PairInv, ExitMeansPublished, Later
  <1> QED
    BY <1>1, InOrder, PTL
---------------------------------------------------------------------------
(* PublishedRun *)

Cases == 1..Size
Verdicts == {"passed", "failed", "error"}

\* The pool has nothing to do, and never will have once everything is submitted.
Quiet == \A c \in Cases : task[c] \notin {"waiting", "running"}

---------------------------------------------------------------------------
(* The parts of the inductive invariant *)

CommandTyped ==
    /\ command \in {"validate", "local", "distributed", "worker"}
    /\ at \in {"load", "connect", "serve", "distribute", "submit", "collect", "shutdown", "close",
               "write", "print", "except", "exiting", "exited"}
    /\ raised \in {"none", "error", "interrupt"}
    /\ code \in Int
    /\ task \in [Cases -> {"none", "waiting", "running", "done"}]
    /\ status \in [Cases -> {"none"} \cup Verdicts] /\ \A c \in Cases : task[c] = "done" => status[c] # "none"
    /\ results \in Seq(Verdicts) /\ Len(results) <= Size
    /\ open \in BOOLEAN /\ written \in BOOLEAN
    /\ signals \in Nat
    /\ untidy \subseteq Cases

\* The places of the main thread, and which command takes it there.
Places ==
    /\ at \in {"submit", "collect", "shutdown", "close"} => command = "local"
    /\ at = "distribute" => command = "distributed"
    /\ at \in {"write", "print"} => command \in {"local", "distributed"}
    /\ at \in {"connect", "serve"} => command = "worker"

\* Where something has been raised; in run_local only an interrupt can have been.
Raising ==
    /\ at \in {"load", "connect", "serve", "distribute", "submit", "collect", "write", "print"}
          => raised = "none"
    /\ at = "except" => raised # "none"
    /\ at \in {"shutdown", "close"} /\ raised # "none" => signals > 0

\* The exit code and the mark of written reports come at their places.
Marks ==
    /\ code # -1 => at \in {"exiting", "exited"}
    /\ written => at \in {"print", "except", "exiting", "exited"}
    /\ at = "print" => written

\* What run_local has collected is final, and it goes on only with all of it.
Collected ==
    /\ at \in {"load", "distribute", "submit"} => results = <<>>
    /\ at = "collect" => Len(results) < Size
    /\ command = "local" => \A i \in Cases : i <= Len(results) => task[i] = "done" /\ results[i] = status[i]
    /\ command = "local" /\ (written \/ at \in {"write", "print"} \/ (at \in {"shutdown", "close"} /\ raised = "none"))
          => Len(results) = Size

\* The client: open until the pool is left, and closed before the report.
Client ==
    /\ at \in {"load", "connect", "serve", "distribute", "submit", "collect", "shutdown", "close"} => open
    /\ open => \A c \in untidy : task[c] = "running"
    /\ command = "local" /\ (written \/ at \in {"write", "print"}) => ~open /\ untidy = {}

\* The pool: a single interrupt does not keep main from waiting for it.
Waited ==
    /\ at = "load" \/ command # "local" => \A c \in Cases : task[c] = "none"
    /\ signals <= 1 =>
         /\ at \in {"close", "write", "print", "except", "exiting"} \/ ~open => Quiet
         /\ at = "exited" /\ code \notin {137, 143} => Quiet
         /\ \A c \in untidy : task[c] = "running"

CommandInv ==
    CommandTyped /\ Places /\ Raising /\ Marks /\ Collected /\ Client /\ Waited /\ CodeTellsReport

\* Reports are written when the writer is through with both files, and remain so.
WrittenDone == written => pc[Own] = "done"

---------------------------------------------------------------------------
(* A step of the command with its reports is a step of each, or of none *)

\* An interrupt that is caught in the finally of atomic_write.
CaughtInFinally ==
    /\ at = "except" /\ Command!Signal
    /\ UNCHANGED <<command, at, raised, code, task, status, results, open, written, untidy>>

LEMMA ReportsStep == [PNext]_pvars => [Next]_rvars
  <1> SUFFICES ASSUME [PNext]_pvars PROVE [Next]_rvars
    OBVIOUS
  <1>1. ASSUME NEW w \in Writers, WriterStep(w) \/ Kill(w) PROVE Next
    BY <1>1 DEF Next
  <1>2. Own \in Writers
    OBVIOUS
  <1>3. CASE OwnStep \/ Finally \/ InterruptFinally
    BY <1>1, <1>2, <1>3 DEF OwnStep, Finally, InterruptFinally, WriterStep
  <1>4. CASE InterruptWriting
    <2>1. CASE Create(Own) \/ Unlink(Own)
      BY <1>1, <1>2, <2>1 DEF WriterStep
    <2>2. CASE Raises(Own) /\ pc[Own] \in {"write", "sync", "replace"} /\ UNCHANGED <<disk, overlap, outages>>
      <3>1. Write(Own) \/ Sync(Own) \/ Replace(Own)
        BY <2>2 DEF Write, Sync, Replace
      <3> QED
        BY <1>1, <1>2, <3>1 DEF WriterStep
    <2> QED
      BY <1>4, <2>1, <2>2 DEF InterruptWriting, Active
  <1>5. CASE Ends
    BY <1>1, <1>2, <1>5 DEF Ends
  <1>6. CASE GoesDown
    BY <1>6 DEF GoesDown, Next
  <1>7. CASE Others
    BY <1>1, <1>7 DEF Others, Next
  <1>8. CASE Written \/ Proceed \/ PoolThread \/ InterruptElsewhere \/ UNCHANGED pvars
    BY <1>8 DEF Written, Proceed, PoolThread, InterruptElsewhere, pvars
  <1> QED
    BY <1>3, <1>4, <1>5, <1>6, <1>7, <1>8 DEF PNext, MainThread

LEMMA CommandStep ==
    [PNext]_pvars =>
        \/ Command!Main /\ at # "write"
        \/ Command!Write /\ written' = (pc[Own] = "done") /\ UNCHANGED pc
        \/ Command!Begin \/ Command!Finish \/ Command!Interrupt \/ CaughtInFinally
        \/ Command!Terminate \/ Command!Die
        \/ UNCHANGED cvars
  <1> SUFFICES ASSUME [PNext]_pvars
               PROVE  \/ Command!Main /\ at # "write"
                      \/ Command!Write /\ written' = (pc[Own] = "done") /\ UNCHANGED pc
                      \/ Command!Begin \/ Command!Finish \/ Command!Interrupt \/ CaughtInFinally
                      \/ Command!Terminate \/ Command!Die
                      \/ UNCHANGED cvars
    OBVIOUS
  <1>1. CASE MainThread
    BY <1>1 DEF MainThread, OwnStep, Written, Finally, Proceed, rvars
  <1>2. CASE PoolThread \/ InterruptWriting \/ InterruptElsewhere \/ Ends \/ GoesDown \/ Others
    BY <1>2 DEF PoolThread, InterruptWriting, InterruptElsewhere, Ends, GoesDown, Others
  <1>3. CASE InterruptFinally
    BY <1>3 DEF InterruptFinally, CaughtInFinally
  <1> QED
    BY <1>1, <1>2, <1>3 DEF PNext, pvars

---------------------------------------------------------------------------
(* Every step of the command preserves the invariant *)

LEMMA InitCommand == Command!Init => CommandInv
  <1> SUFFICES ASSUME Command!Init PROVE CommandInv
    OBVIOUS
  <1> USE DEF Command!Init, Command!Cases, Cases
  <1>1. CommandTyped
    <2>1. open \in BOOLEAN
      OBVIOUS
    <2>2. written \in BOOLEAN
      OBVIOUS
    <2>3. results \in Seq(Verdicts) /\ Len(results) = 0
      OBVIOUS
    <2> QED
      BY <2>1, <2>2, <2>3 DEF CommandTyped
  <1>2. Places /\ Raising /\ Marks /\ Client
    BY DEF Places, Raising, Marks, Client
  <1>3. Collected
    BY DEF Collected
  <1>4. Waited
    BY DEF Waited, Quiet
  <1>5. CodeTellsReport
    BY DEF CodeTellsReport, Command!CodeTellsReport
  <1> QED
    BY <1>1, <1>2, <1>3, <1>4, <1>5 DEF CommandInv

LEMMA MovesKeep ==
    ASSUME CommandInv,
           \/ Command!Load \/ Command!Connect \/ Command!Serve \/ Command!Shutdown \/ Command!Write
           \/ Command!Report \/ Command!Handle \/ Command!Leave \/ Command!Interrupt \/ CaughtInFinally
           \/ Command!Terminate \/ Command!Die
    PROVE  CommandInv'
  <1> USE DEF CommandInv, CommandTyped, Places, Raising, Marks, Collected, Client, Waited, CodeTellsReport, Command!CodeTellsReport, Quiet,
              Command!Pool, Command!Goto, Command!Raise, Command!Exit, Command!Signal, Cases, Command!Cases
  <1>1. CASE Command!Load
    BY <1>1 DEF Command!Load
  <1>2. CASE Command!Connect
    BY <1>2 DEF Command!Connect
  <1>3. CASE Command!Serve
    BY <1>3 DEF Command!Serve
  <1>4. CASE Command!Shutdown
    BY <1>4 DEF Command!Shutdown
  <1>5. CASE Command!Write
    BY <1>5 DEF Command!Write
  <1>6. CASE Command!Report
    <2>1. CASE raised' # "none"
      BY <1>6, <2>1 DEF Command!Report
    <2>2. CASE raised' = "none"
      <3>1. /\ at = "print" /\ at' = "exiting" /\ code' = Command!ExitCode
            /\ UNCHANGED <<command, raised, task, status, results, open, written, signals, untidy>>
        BY <1>6, <2>2 DEF Command!Report
      <3>2. Command!ExitCode \in {0, 1, 2}
        BY DEF Command!ExitCode
      <3>3. Command!ExitCode = 0 => results = [c \in Cases |-> "passed"]
        <4>1. SUFFICES ASSUME Command!ExitCode = 0 PROVE results = [c \in Cases |-> "passed"]
          OBVIOUS
        <4>2. Len(results) = Size /\ \A i \in DOMAIN results : results[i] \notin {"error", "failed"}
          BY <4>1 DEF Command!ExitCode
        <4>3. results \in [1..Size -> Verdicts]
          BY <4>2, LenProperties
        <4>4. \A i \in 1..Size : results[i] = "passed"
          BY <4>2, <4>3 DEF Verdicts
        <4> QED
          BY <4>3, <4>4
      <3>4. Command!ExitCode = 1 => \E c \in Cases : results[c] = "failed" /\ \A d \in Cases : results[d] # "error"
        BY DEF Command!ExitCode
      <3> HIDE DEF Command!ExitCode
      <3> QED
        BY <3>1, <3>2, <3>3, <3>4
    <2> QED
      BY <2>1, <2>2
  <1>7. CASE Command!Handle
    BY <1>7 DEF Command!Handle
  <1>8. CASE Command!Leave
    BY <1>8 DEF Command!Leave
  <1>9. CASE Command!Interrupt
    <2>1. signals' = signals + 1 /\ UNCHANGED <<command, task, status, results, written, untidy>>
      BY <1>9 DEF Command!Interrupt
    <2>2. CASE at \in {"load", "connect", "distribute", "write", "print"}
      <3>1. raised' = "interrupt" /\ at' = "except" /\ UNCHANGED <<code, open>>
        BY <1>9, <2>2 DEF Command!Interrupt
      <3> QED
        BY <2>1, <2>2, <3>1
    <2>3. CASE at \in {"submit", "collect"}
      <3>1. raised' = "interrupt" /\ at' = "shutdown" /\ UNCHANGED <<code, open>>
        BY <1>9, <2>3 DEF Command!Interrupt
      <3> QED
        BY <2>1, <2>3, <3>1
    <2>4. CASE at = "shutdown"
      <3>1. raised' = "interrupt" /\ at' = "close" /\ UNCHANGED <<code, open>>
        BY <1>9, <2>4 DEF Command!Interrupt
      <3> QED
        BY <2>1, <2>4, <3>1
    <2>5. CASE at = "close"
      <3>1. raised' = "interrupt" /\ at' = "except" /\ code' = code /\ open' \in {open, FALSE}
        BY <1>9, <2>5 DEF Command!Interrupt
      <3>2. CASE open' = open
        BY <2>1, <2>5, <3>1, <3>2
      <3>3. CASE open' = FALSE
        <4>1. ~open' /\ open' \in BOOLEAN
          BY <3>3
        <4>2. CommandTyped'
          BY <2>1, <2>5, <3>1, <4>1
        <4>3. signals = 0 => raised = "none" /\ Quiet /\ untidy = {}
          BY <2>5
        <4>4. Waited'
          BY <2>1, <2>5, <3>1, <4>1, <4>3
        <4> QED
          BY <2>1, <2>5, <3>1, <4>1, <4>2, <4>4
      <3> QED
        BY <3>1, <3>2, <3>3
    <2>6. CASE at = "except"
      <3>1. code' = 130 /\ at' = "exiting" /\ UNCHANGED <<raised, open>>
        BY <1>9, <2>6 DEF Command!Interrupt
      <3> QED
        BY <2>1, <2>6, <3>1
    <2>7. CASE at = "exiting"
      <3>1. code' \in {code, 130} /\ at' \in {at, "exited"} /\ UNCHANGED <<raised, open>>
        BY <1>9, <2>7 DEF Command!Interrupt
      <3> QED
        BY <2>1, <2>7, <3>1
    <2>8. CASE at = "serve"
      <3>1. UNCHANGED <<at, raised, code, open>>
        BY <1>9, <2>8 DEF Command!Interrupt
      <3> QED
        BY <2>1, <2>8, <3>1
    <2> QED
      BY <1>9, <2>2, <2>3, <2>4, <2>5, <2>6, <2>7, <2>8 DEF Command!Interrupt
  <1>10. CASE Command!Terminate
    BY <1>10 DEF Command!Terminate
  <1>11. CASE Command!Die
    BY <1>11 DEF Command!Die
  <1>12. CASE CaughtInFinally
    BY <1>12 DEF CaughtInFinally
  <1> QED
    BY <1>1, <1>2, <1>3, <1>4, <1>5, <1>6, <1>7, <1>8, <1>9, <1>10, <1>11, <1>12

LEMMA DistributeKeeps == CommandInv /\ Command!Distribute => CommandInv'
  <1> SUFFICES ASSUME CommandInv, Command!Distribute PROVE CommandInv'
    OBVIOUS
  <1> USE DEF Command!Cases, Cases, Command!Pool
  <1>1. CASE results' \in [Cases -> Verdicts] /\ at' = "write" /\ UNCHANGED raised
    <2>1. results' \in Seq(Verdicts) /\ Len(results') = Size
      BY <1>1, IsASeq
    <2> QED
      BY <1>1, <2>1 DEF Command!Distribute, CommandInv, CommandTyped, Places, Raising, Marks, Collected,
                        Client, Waited, Quiet, CodeTellsReport, Command!CodeTellsReport
  <1>2. CASE raised' = "error" /\ at' = "except" /\ UNCHANGED results
    BY <1>2 DEF Command!Distribute, CommandInv, CommandTyped, Places, Raising, Marks, Collected,
                Client, Waited, Quiet, CodeTellsReport, Command!CodeTellsReport
  <1> QED
    BY <1>1, <1>2 DEF Command!Distribute, Command!Goto, Command!Raise, Verdicts

LEMMA SubmitKeeps == CommandInv /\ Command!Submit => CommandInv'
  <1> SUFFICES ASSUME CommandInv, Command!Submit PROVE CommandInv'
    OBVIOUS
  <1> USE DEF Command!Cases, Cases, CommandInv
  <1>1. PICK c \in Cases : task[c] = "none" /\ task' = [task EXCEPT ![c] = "waiting"]
    BY DEF Command!Submit
  <1>2. /\ at = "submit" /\ at' \in {"submit", "collect"}
        /\ UNCHANGED <<command, raised, code, status, results, open, written, signals, untidy>>
    BY DEF Command!Submit, Command!Goto
  <1>3. CommandTyped'
    BY <1>1, <1>2 DEF CommandTyped
  <1>4. Places' /\ Raising' /\ Marks'
    BY <1>2 DEF Places, Raising, Marks
  <1>5. Collected' /\ Client' /\ Waited'
    BY <1>1, <1>2 DEF Collected, Client, Waited, Quiet, CommandTyped, Places, Raising, Marks
  <1>6. CodeTellsReport'
    BY <1>2 DEF Marks, CodeTellsReport, Command!CodeTellsReport
  <1> QED
    BY <1>3, <1>4, <1>5, <1>6

LEMMA CollectKeeps == CommandInv /\ Command!Collect => CommandInv'
  <1> SUFFICES ASSUME CommandInv, Command!Collect PROVE CommandInv'
    OBVIOUS
  <1> USE DEF Command!Cases, Cases, CommandInv
  <1> DEFINE n == Len(results) + 1
  <1>1. /\ at = "collect" /\ command = "local" /\ task[n] = "done" /\ results' = Append(results, status[n])
        /\ at' = (IF Len(results') = Size THEN "shutdown" ELSE "collect")
        /\ UNCHANGED <<command, raised, code, task, status, open, written, signals, untidy>>
    BY DEF Command!Collect, Command!Goto, Command!Pool, Places
  <1>2. n \in Cases
    BY <1>1 DEF Collected, CommandTyped
  <1>3. /\ results' \in Seq(Verdicts) /\ Len(results') = n
        /\ results'[n] = status[n] /\ \A i \in Cases : i < n => results'[i] = results[i]
    BY <1>1, <1>2 DEF CommandTyped
  <1>4. CommandTyped'
    BY <1>1, <1>2, <1>3 DEF CommandTyped
  <1>5. Places' /\ Raising' /\ Marks' /\ Client' /\ Waited'
    BY <1>1 DEF Places, Raising, Marks, Client, Waited, Quiet
  <1>6. Collected'
    BY <1>1, <1>2, <1>3 DEF Collected, Marks
  <1>7. CodeTellsReport'
    BY <1>1 DEF Marks, CodeTellsReport, Command!CodeTellsReport
  <1> QED
    BY <1>4, <1>5, <1>6, <1>7

LEMMA CloseKeeps == CommandInv /\ Command!Close => CommandInv'
  <1> SUFFICES ASSUME CommandInv, Command!Close PROVE CommandInv'
    OBVIOUS
  <1> USE DEF Command!Cases, Cases, CommandInv
  <1>1. /\ at = "close" /\ command = "local" /\ ~open'  /\ open' \in BOOLEAN
        /\ at' = (IF raised = "none" THEN "write" ELSE "except")
        /\ UNCHANGED <<command, raised, code, task, status, results, written, signals, untidy>>
    BY DEF Command!Close, Command!Goto, Places
  <1>2. raised = "none" => untidy = {} /\ Quiet
    BY <1>1 DEF Collected, Client, Quiet, CommandTyped
  <1>3. CommandTyped' /\ Places' /\ Raising' /\ Marks'
    BY <1>1 DEF CommandTyped, Places, Raising, Marks
  <1>4. Collected' /\ Client' /\ Waited'
    BY <1>1, <1>2 DEF Collected, Client, Waited, Quiet, Marks
  <1>5. CodeTellsReport'
    BY <1>1 DEF Marks, CodeTellsReport, Command!CodeTellsReport
  <1> QED
    BY <1>3, <1>4, <1>5

LEMMA BeginKeeps == CommandInv /\ Command!Begin => CommandInv'
  <1> SUFFICES ASSUME CommandInv, Command!Begin PROVE CommandInv'
    OBVIOUS
  <1> USE DEF Command!Cases, Cases, CommandInv
  <1>1. PICK c \in Cases :
          /\ task[c] = "waiting" /\ task' = [task EXCEPT ![c] = "running"]
          /\ untidy' = (IF open THEN untidy \cup {c} ELSE untidy)
          /\ status' = (IF open THEN status ELSE [status EXCEPT ![c] = "error"])
    BY DEF Command!Begin
  <1>2. UNCHANGED <<command, at, raised, code, results, open, written, signals>>
    BY DEF Command!Begin
  <1>3. CommandTyped'
    BY <1>1, <1>2 DEF CommandTyped, Verdicts
  <1>4. Places' /\ Raising' /\ Marks'
    BY <1>2 DEF Places, Raising, Marks
  <1>5. Collected'
    BY <1>1, <1>2 DEF Collected, CommandTyped
  <1>6. Client' /\ Waited'
    BY <1>1, <1>2 DEF Client, Waited, Quiet, Collected, CommandTyped
  <1>7. CodeTellsReport'
    BY <1>2 DEF CodeTellsReport, Command!CodeTellsReport
  <1> QED
    BY <1>3, <1>4, <1>5, <1>6, <1>7

LEMMA FinishKeeps == CommandInv /\ Command!Finish => CommandInv'
  <1> SUFFICES ASSUME CommandInv, Command!Finish PROVE CommandInv'
    OBVIOUS
  <1> USE DEF Command!Cases, Cases, CommandInv
  <1>1. PICK c \in Cases :
          /\ task[c] = "running" /\ task' = [task EXCEPT ![c] = "done"]
          /\ untidy' = (IF open THEN untidy \ {c} ELSE untidy)
          /\ \E s \in Verdicts : status' = [status EXCEPT ![c] = s]
    BY DEF Command!Finish, Command!Running, Verdicts
  <1>2. UNCHANGED <<command, at, raised, code, results, open, written, signals>>
    BY DEF Command!Finish
  <1>3. CommandTyped'
    BY <1>1, <1>2 DEF CommandTyped, Verdicts
  <1>4. Places' /\ Raising' /\ Marks'
    BY <1>2 DEF Places, Raising, Marks
  <1>5. Collected'
    BY <1>1, <1>2 DEF Collected, CommandTyped
  <1>6. Client' /\ Waited'
    BY <1>1, <1>2 DEF Client, Waited, Quiet, Collected, CommandTyped
  <1>7. CodeTellsReport'
    BY <1>2 DEF CodeTellsReport, Command!CodeTellsReport
  <1> QED
    BY <1>3, <1>4, <1>5, <1>6, <1>7
---------------------------------------------------------------------------
(* The invariant, and what follows from it *)

PInv == TypeOK /\ OrderInv /\ PairInv /\ ReadInv /\ CommandInv /\ WrittenDone

LEMMA CommandKept == CommandInv /\ [PNext]_pvars => CommandInv'
  <1> SUFFICES ASSUME CommandInv, [PNext]_pvars PROVE CommandInv'
    OBVIOUS
  <1>1. CASE Command!Main
    BY <1>1, MovesKeep, DistributeKeeps, SubmitKeeps, CollectKeeps, CloseKeeps DEF Command!Main
  <1>2. CASE UNCHANGED cvars
    <2>1. UNCHANGED <<command, at, raised, code, task, status, results, open, written, signals, untidy>>
      BY <1>2 DEF cvars
    <2> QED
      BY <2>1 DEF CommandInv, CommandTyped, Places, Raising, Marks, Collected, Client, Waited, Quiet,
                  CodeTellsReport, Command!CodeTellsReport
  <1> QED
    BY <1>1, <1>2, CommandStep, MovesKeep, BeginKeeps, FinishKeeps

\* Who is through with both files stays so.
LEMMA DoneStays == TypeOK /\ pc[Own] = "done" /\ [Next]_rvars => pc'[Own] = "done"
  <1> SUFFICES ASSUME TypeOK, pc[Own] = "done", [Next]_rvars PROVE pc'[Own] = "done"
    OBVIOUS
  <1>1. ASSUME NEW w \in Writers, WriterStep(w) \/ Kill(w) PROVE pc'[Own] = "done"
    BY <1>1, PcMoves DEF Active
  <1>2. CASE Outage
    BY <1>2 DEF Outage, Active
  <1> QED
    BY <1>1, <1>2 DEF Next, Flush, rvars

LEMMA WrittenKept == TypeOK /\ WrittenDone /\ CommandInv /\ [PNext]_pvars => WrittenDone'
  <1> SUFFICES ASSUME TypeOK, WrittenDone, CommandInv, [PNext]_pvars, written' PROVE pc'[Own] = "done"
    BY DEF WrittenDone
  <1>1. CASE written
    BY <1>1, ReportsStep, DoneStays DEF WrittenDone
  <1>2. CASE ~written
    <2>1. ~(Command!Main /\ at # "write")
      BY <1>2 DEF Command!Main, Command!Load, Command!Connect, Command!Serve, Command!Distribute, Command!Submit,
                  Command!Collect, Command!Shutdown, Command!Close, Command!Write, Command!Report, Command!Handle,
                  Command!Leave
    <2>2. UNCHANGED cvars => FALSE
      BY <1>2 DEF cvars
    <2> QED
      BY <1>2, <2>1, <2>2, CommandStep
         DEF Command!Begin, Command!Finish, Command!Interrupt, CaughtInFinally, Command!Terminate, Command!Die
  <1> QED
    BY <1>1, <1>2

LEMMA PublishedInvariant == PSpec => []PInv
  <1>1. ASSUME PInit PROVE PInv
    <2>1. TypeOK /\ OrderInv /\ PairInv /\ ReadInv
      BY <1>1, InitTyped, InitInOrder, InitRead DEF PInit
    <2>2. CommandInv /\ ~written
      BY <1>1, InitCommand DEF PInit, Command!Init
    <2> QED
      BY <2>1, <2>2 DEF PInv, WrittenDone
  <1>2. ASSUME PInv, [PNext]_pvars PROVE PInv'
    BY <1>2, ReportsStep, InOrderKept, ReadKept, CommandKept, WrittenKept DEF PInv
  <1> QED
    BY <1>1, <1>2, PTL DEF PSpec

\* Whatever the command does in between, interrupts in write_reports included, its
\* reports are written as AtomicReports has it: all that is proved of them holds here.
THEOREM ReportsImplemented == PSpec => Spec
  <1>1. PInit => Init
    BY DEF PInit
  <1> QED
    BY <1>1, ReportsStep, PTL DEF PSpec, Spec

\* The report of a local run tells of every case, in its place and with its final
\* status, and nothing runs any more when it is written (run_local).
THEOREM ReportsTell == PSpec => []ReportTells
  <1>1. ASSUME PInv PROVE ReportTells
    <2> SUFFICES ASSUME command = "local", written
                 PROVE  /\ results = [c \in Cases |-> status[c]]
                        /\ \A c \in Cases : task[c] = "done"
                        /\ ~open /\ untidy = {}
      BY DEF ReportTells, Command!ReportTells, Command!Cases, Cases
    <2>1. Len(results) = Size /\ results \in Seq(Verdicts)
      BY <1>1 DEF PInv, CommandInv, CommandTyped, Collected
    <2>2. results \in [Cases -> Verdicts]
      BY <2>1, LenProperties DEF Cases
    <2>3. \A c \in Cases : task[c] = "done" /\ results[c] = status[c]
      BY <1>1, <2>1 DEF PInv, CommandInv, Collected, Cases
    <2> QED
      BY <1>1, <2>2, <2>3 DEF PInv, CommandInv, Client
  <1> QED
    BY <1>1, PublishedInvariant, PTL

\* The exit code tells of the report: 0 only with a published one in which everything
\* passed, 1 without an exception only with one that has a failure and no error (main).
THEOREM CodesTell == PSpec => []CodeTellsReport
  <1>1. PInv => CodeTellsReport
    BY DEF PInv, CommandInv
  <1> QED
    BY <1>1, PublishedInvariant, PTL

\* After at most one interrupt everything that was begun is cleaned up, and no case
\* loses its client (run_local, main).
THEOREM InterruptsAreClean == PSpec => []InterruptIsClean
  <1>1. ASSUME PInv PROVE InterruptIsClean
    BY <1>1 DEF PInv, CommandInv, CommandTyped, Waited, Quiet, InterruptIsClean, Command!InterruptIsClean,
                Command!Cases, Cases
  <1> QED
    BY <1>1, PublishedInvariant, PTL

\* Whoever reads the directory after the command learns from it what the exit code
\* says, unless another command wrote there meanwhile (main, write_reports).
THEOREM CodesOnFile == PSpec => []CodeIsOnFile
  <1>1. ASSUME PInv PROVE CodeIsOnFile
    <2> SUFFICES ASSUME command \in {"local", "distributed"}, raised = "none", code \in {0, 1},
                        ~overlap, outages = 0, NEW n \in Names
                 PROVE  file[n].by = Own /\ file[n].whole
      BY DEF CodeIsOnFile
    <2>1. pc[Own] = "done"
      BY <1>1 DEF PInv, CommandInv, CodeTellsReport, Command!CodeTellsReport, WrittenDone
    <2>2. Later(Own) = {}
      <3>1. Own \in Nat
        BY ReportsAssumption, CommandAssumption
      <3>2. ASSUME NEW v \in Writers PROVE ~(v > Own)
        <4>1. v \in Nat
          BY ReportsAssumption
        <4>2. v <= Own
          BY CommandAssumption
        <4> QED
          BY <3>1, <4>1, <4>2
      <3> QED
        BY <3>2 DEF Later
    <2>3. file[n].by = Own
      BY <1>1, <2>1, <2>2 DEF PInv, PairInv
    <2>4. file[n] # NoFile
      BY <2>3, ReportsAssumption DEF NoFile
    <2> QED
      BY <1>1, <2>3, <2>4 DEF PInv, ReadInv, Sound
  <1> QED
    BY <1>1, PublishedInvariant, PTL
=============================================================================
