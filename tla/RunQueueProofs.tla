--------------------------- MODULE RunQueueProofs ---------------------------
(***************************************************************************)
(* Proofs about RunQueue, for any set of cases, any suites, limits, lease  *)
(* times and clients.  The inductive invariant IInv says what the store    *)
(* and the history of issued jobs have to do with one another; the         *)
(* properties checked by TLC follow from it.                               *)
(***************************************************************************)
EXTENDS RunQueue, FiniteSetTheorems, TLAPS

---------------------------------------------------------------------------
(* The parts of the inductive invariant *)

\* Once the metadata of the run is gone nothing of it is left.
Blank ==
    meta = NoRun =>
        /\ tasks = {}
        /\ \A c \in Cases :
              /\ ready[c] = Absent
              /\ leases[c] = 0
              /\ owners[c] = NoToken
              /\ attempts[c] = 0
              /\ results[c] = NoResult

\* Only a case the queue has given up has been counted past the limit.
Counted ==
    \A c \in Cases :
        /\ attempts[c] <= MaxDeliveries + 1
        /\ attempts[c] = MaxDeliveries + 1 => Finished(c)

\* Waiting cases that were delivered before have score 0, the others their place.
Front == \A c \in Cases : InReady(c) => (ready[c] = 0 <=> attempts[c] # 0)

\* A token belongs to one job.
Tokens ==
    \A j \in issued :
        /\ j.token <= minted
        /\ j.run <= run
        /\ j.delivery <= MaxDeliveries
        /\ \A k \in issued : j.token = k.token => j = k

\* The jobs of the current run have been counted ...
Delivered ==
    \A j \in issued : j.run = run /\ meta # NoRun => j.delivery <= attempts[j.case]

\* ... and every delivery counted has its job.
Issued(c, d) == \E j \in issued : j.case = c /\ j.run = run /\ j.delivery = d

AllIssued ==
    \A c \in Cases : \A d \in 1..MaxDeliveries : d <= attempts[c] => Issued(c, d)

\* A token in the store is that of the latest delivery of its case.
Latest(c, token) ==
    \E j \in issued :
        j.token = token /\ j.case = c /\ j.run = run /\ j.delivery = attempts[c]

Holder == \A c \in Cases : owners[c] # NoToken => Latest(c, owners[c])

Provenance ==
    \A c \in Cases : Finished(c) =>
        /\ results[c].run = run
        /\ results[c].token = NoToken =>
              /\ results[c].delivery = MaxDeliveries
              /\ results[c].status = "error"
              /\ attempts[c] = MaxDeliveries + 1
        /\ results[c].token # NoToken =>
              /\ results[c].delivery = attempts[c]
              /\ Latest(c, results[c].token)

IInv ==
    /\ TypeOK
    /\ Blank
    /\ KeysExpire
    /\ OnePlace
    /\ Counted
    /\ Front
    /\ Tokens
    /\ NamespacesDistinct
    /\ Delivered
    /\ AllIssued
    /\ Holder
    /\ Provenance
---------------------------------------------------------------------------
(* What CLAIM picks *)

\* A selected case is one of those selected from.
LEMMA FirstOfSubset ==
    ASSUME NEW S, NEW score, NEW k
    PROVE  FirstOf(S, score, k) \subseteq S
  BY DEF FirstOf

\* CLAIM reclaims only leases that have ended.
LEMMA ReclaimedEnded ==
    ASSUME NEW c \in Reclaimed
    PROVE  c \in Cases /\ Leased(c) /\ leases[c] <= now
  BY FirstOfSubset DEF Reclaimed, Leased

\* CLAIM delivers or discards only cases that wait or have just been reclaimed,
\* and never one with a result.
LEMMA PoppedWaiting ==
    ASSUME TypeOK, OnePlace, NEW c \in Popped
    PROVE  /\ c \in Cases
           /\ ~Finished(c)
           /\ c \in tasks
           /\ c \in Reclaimed \/ (InReady(c) /\ ~Leased(c))
           /\ c \notin Reclaimed => Score[c] = ready[c]
           /\ c \in Reclaimed => Score[c] = 0
  <1>1. c \in Waiting
    BY FirstOfSubset DEF Popped
  <1>2. c \in Cases /\ Score[c] # Absent
    BY <1>1 DEF Waiting
  <1>3. CASE c \in Reclaimed
    <2>1. Leased(c)
      BY <1>3, ReclaimedEnded
    <2>2. ~Finished(c) /\ c \in tasks
      BY <1>2, <2>1 DEF OnePlace
    <2> QED
      BY <1>2, <1>3, <2>2 DEF Score, Finished
  <1>4. CASE c \notin Reclaimed
    <2>1. Score[c] = ready[c]
      BY <1>2, <1>4 DEF Score
    <2>2. InReady(c)
      BY <1>2, <2>1 DEF InReady
    <2> QED
      BY <1>2, <1>4, <2>1, <2>2 DEF OnePlace
  <1> QED
    BY <1>3, <1>4

\* The scores stay integers, so that the sorted set is ordered.
LEMMA ScoreType ==
    ASSUME TypeOK
    PROVE  Score \in [Cases -> Nat \cup {Absent}]
  BY DEF TypeOK, Score

\* CLAIM delivers at most one case.
LEMMA OneGranted ==
    ASSUME TypeOK, NEW c \in Granted, NEW d \in Granted
    PROVE  c = d
  <1> SUFFICES ASSUME c # d PROVE FALSE
    OBVIOUS
  <1>1. c \in Waiting /\ d \in Waiting
    BY FirstOfSubset DEF Granted, Popped
  <1>2. c \in Int /\ d \in Int /\ Score[c] \in Int /\ Score[d] \in Int
    BY <1>1, ScoreType, CasesAssumption DEF Waiting, Absent
  <1>3. Ahead(Score, c, d) \/ Ahead(Score, d, c)
    BY <1>2 DEF Ahead
  <1> QED
    BY <1>1, <1>3 DEF Granted

\* A delivered case has a delivery left, a discarded one has none.
LEMMA SpentOrNot ==
    /\ \A c \in Granted : c \in Popped /\ ~Spent(c)
    /\ \A c \in Discarded : c \in Popped /\ Spent(c)
    /\ Granted \cap Discarded = {}
  BY DEF Granted, Discarded

---------------------------------------------------------------------------
(* IInv is inductive: one lemma per action *)

USE CasesAssumption, SettingsAssumption

LEMMA InitIInv == Init => IInv
  <1> SUFFICES ASSUME Init PROVE IInv
    OBVIOUS
  <1> USE DEF Init, NoRun, NoResult, NoToken, Absent
  <1>1. TypeOK
    BY DEF TypeOK
  <1>2. Blank /\ KeysExpire
    BY DEF Blank, KeysExpire, ExistingKeys, KeyExists, Keys
  <1>3. OnePlace /\ Counted /\ Front
    BY DEF OnePlace, Counted, Front, InReady, Leased, Finished
  <1>4. Tokens /\ NamespacesDistinct /\ Delivered
    BY DEF Tokens, NamespacesDistinct, Delivered
  <1>5. AllIssued /\ Holder /\ Provenance
    BY DEF AllIssued, Holder, Provenance, Finished
  <1> QED
    BY <1>1, <1>2, <1>3, <1>4, <1>5 DEF IInv

LEMMA CreateIInv ==
    ASSUME IInv, NEW suite \in Suites, NEW timeout \in RunTimeouts,
           Create(suite, timeout)
    PROVE  IInv'
  <1> USE DEF Create, SubmitRun
  <1>1. /\ \A c \in Cases : /\ ready[c] = Absent /\ leases[c] = 0 /\ owners[c] = NoToken
                            /\ attempts[c] = 0 /\ results[c] = NoResult
        /\ tasks' = suite
        /\ suite \subseteq Cases
    BY DEF IInv, Blank
  <1>2. \A c \in Cases : ready'[c] = IF c \in suite THEN Position[c] ELSE Absent
    BY <1>1
  <1>3. TypeOK'
    <2>1. ready' \in [Cases -> Nat \cup {Absent}]
      BY DEF IInv, TypeOK
    <2>2. meta' \in [state : {"none", "open", "closed"}, deadline : Nat, expires : Nat]
      BY DEF IInv, TypeOK
    <2>3. volatile' \subseteq Keys
      BY DEF Touch, ExistingKeys
    <2> QED
      BY <1>1, <2>1, <2>2, <2>3 DEF IInv, TypeOK
  <1>4. Blank' /\ KeysExpire'
    BY DEF Blank, KeysExpire, NoRun, Touch
  <1>5. OnePlace' /\ Counted' /\ Front'
    BY <1>1, <1>2 DEF OnePlace, Counted, Front, InReady, Leased, Finished, Absent
  <1>6. Tokens'
    BY DEF IInv, TypeOK, Tokens, Job
  <1>7. NamespacesDistinct' /\ Delivered'
    BY DEF IInv, TypeOK, NamespacesDistinct, Delivered, Tokens
  <1>8. AllIssued' /\ Holder' /\ Provenance'
    BY <1>1 DEF AllIssued, Holder, Provenance, Finished
  <1> QED
    BY <1>3, <1>4, <1>5, <1>6, <1>7, <1>8 DEF IInv

LEMMA RenewIInv ==
    ASSUME IInv, NEW job \in issued, NEW lease \in LeaseTimes, Renew(job, lease)
    PROVE  IInv'
  <1> USE DEF Renew, Owns, Active
  <1>1. job.case \in Cases /\ leases[job.case] # 0
    BY DEF IInv, TypeOK, Job
  <1>2. TypeOK'
    <2>1. leases' \in [Cases -> Nat]
      BY <1>1 DEF IInv, TypeOK
    <2>2. volatile' \subseteq Keys
      BY DEF Touch, ExistingKeys
    <2> QED
      BY <2>1, <2>2 DEF IInv, TypeOK, history
  <1>3. Blank' /\ KeysExpire'
    BY DEF Blank, KeysExpire, NoRun, Touch
  <1>4. \A c \in Cases : leases'[c] # 0 <=> leases[c] # 0
    BY <1>1 DEF IInv, TypeOK
  <1>5. OnePlace' /\ Counted' /\ Front'
    BY <1>4 DEF IInv, OnePlace, Counted, Front, InReady, Leased, Finished
  <1>6. Tokens' /\ NamespacesDistinct' /\ Delivered' /\ AllIssued' /\ Holder' /\ Provenance'
    BY DEF IInv, Tokens, NamespacesDistinct, Delivered, AllIssued, Issued, Holder,
           Provenance, Latest, Finished, history
  <1> QED
    BY <1>2, <1>3, <1>5, <1>6 DEF IInv

\* The job that completes a case is the latest delivery of it.
LEMMA OwnerIsLatest ==
    ASSUME IInv, NEW job \in issued, Owns(job)
    PROVE  /\ job.case \in Cases /\ job.token \in Nat \ {0}
           /\ job.run = run
           /\ job.delivery = attempts[job.case]
           /\ leases[job.case] # 0
           /\ ~Finished(job.case)
  <1>1. job.case \in Cases /\ job.token \in Nat \ {0}
    BY DEF IInv, TypeOK, Job
  <1>2. owners[job.case] = job.token /\ leases[job.case] # 0
    BY <1>1 DEF Owns, IInv, TypeOK
  <1>3. Latest(job.case, job.token)
    BY <1>1, <1>2 DEF IInv, Holder, NoToken
  <1>4. job.run = run /\ job.delivery = attempts[job.case]
    BY <1>3 DEF Latest, IInv, Tokens
  <1>5. ~Finished(job.case)
    BY <1>1, <1>2 DEF IInv, OnePlace, Leased
  <1> QED
    BY <1>1, <1>2, <1>4, <1>5

LEMMA CompleteIInv ==
    ASSUME IInv, NEW job \in issued, NEW status \in Statuses, Complete(job, status)
    PROVE  IInv'
  <1> DEFINE k == job.case
             r == [status |-> status, token |-> job.token,
                   delivery |-> job.delivery, run |-> job.run]
  <1>1. Owns(job) /\ UNCHANGED <<now, meta, tasks, ready, attempts, run, minted, issued>>
    BY DEF Complete, history
  <1>2. /\ k \in Cases /\ job.token \in Nat \ {0} /\ job.run = run
        /\ job.delivery = attempts[k] /\ leases[k] # 0 /\ ~Finished(k)
    BY <1>1, OwnerIsLatest
  <1>3. /\ results' = [results EXCEPT ![k] = r]
        /\ owners' = [owners EXCEPT ![k] = NoToken]
        /\ leases' = [leases EXCEPT ![k] = 0]
        /\ Touch
    BY DEF Complete, SetResult
  <1>4. /\ r \in Result /\ r # NoResult /\ r.token # NoToken
    BY <1>2 DEF Result, NoResult, NoToken, IInv, TypeOK, Job
  <1>5. TypeOK'
    <2>1. results' \in [Cases -> Result \cup {NoResult}]
      BY <1>3, <1>4 DEF IInv, TypeOK
    <2>2. owners' \in [Cases -> Nat] /\ leases' \in [Cases -> Nat]
      BY <1>3 DEF IInv, TypeOK, NoToken
    <2>3. volatile' \subseteq Keys
      BY <1>3 DEF Touch, ExistingKeys
    <2> QED
      BY <1>1, <2>1, <2>2, <2>3 DEF IInv, TypeOK
  <1>6. Blank' /\ KeysExpire'
    BY <1>1, <1>3 DEF Blank, KeysExpire, NoRun, Touch, Owns, Active
  <1>7. /\ results'[k] = r /\ owners'[k] = NoToken /\ leases'[k] = 0
        /\ \A c \in Cases \ {k} :
              results'[c] = results[c] /\ owners'[c] = owners[c] /\ leases'[c] = leases[c]
    BY <1>2, <1>3 DEF IInv, TypeOK
  <1>8. OnePlace'
    <2> SUFFICES ASSUME NEW c \in Cases
                 PROVE  /\ Leased(c)' <=> owners'[c] # NoToken
                        /\ ~(InReady(c) /\ Leased(c))'
                        /\ ~(Finished(c) /\ (InReady(c) \/ Leased(c)))'
                        /\ c \in tasks' <=> (InReady(c) \/ Leased(c) \/ Finished(c))'
      BY DEF OnePlace
    <2>1. CASE c = k
      BY <1>1, <1>2, <1>4, <1>7, <2>1 DEF IInv, OnePlace, InReady, Leased, Finished
    <2>2. CASE c # k
      <3>1. /\ results'[c] = results[c] /\ owners'[c] = owners[c] /\ leases'[c] = leases[c]
            /\ ready'[c] = ready[c] /\ tasks' = tasks
        BY <1>1, <1>7, <2>2
      <3> QED
        BY <3>1 DEF IInv, OnePlace, InReady, Leased, Finished
    <2> QED
      BY <2>1, <2>2
  <1>9. Counted' /\ Front'
    BY <1>1, <1>4, <1>7 DEF IInv, Counted, Front, InReady, Finished
  <1>10. Tokens' /\ NamespacesDistinct' /\ Delivered' /\ AllIssued'
    BY <1>1 DEF IInv, Tokens, NamespacesDistinct, Delivered, AllIssued, Issued
  <1>11. Holder'
    BY <1>1, <1>7 DEF IInv, Holder, Latest
  <1>12. Provenance'
    <2>1. Latest(k, job.token)'
      BY <1>1, <1>2 DEF Latest
    <2> QED
      BY <1>1, <1>2, <1>4, <1>7, <2>1 DEF IInv, Provenance, Latest, Finished
  <1> QED
    BY <1>5, <1>6, <1>8, <1>9, <1>10, <1>11, <1>12 DEF IInv

(* A claim does one of four things to a case. *)

\* It delivers it,
Given(c, token, lease) ==
    /\ c \in Granted /\ c \in tasks /\ ~Finished(c)
    /\ attempts[c] < MaxDeliveries
    /\ ready'[c] = Absent
    /\ leases'[c] = now + lease
    /\ owners'[c] = token
    /\ attempts'[c] = attempts[c] + 1
    /\ results'[c] = results[c]

\* discards it,
GaveUp(c) ==
    /\ c \in tasks /\ ~Finished(c)
    /\ attempts[c] = MaxDeliveries
    /\ ready'[c] = Absent
    /\ leases'[c] = 0
    /\ owners'[c] = NoToken
    /\ attempts'[c] = attempts[c] + 1
    /\ results'[c] = LimitExhausted(c)

\* takes it back from its holder,
TookBack(c) ==
    /\ c \in tasks /\ ~Finished(c) /\ Leased(c) /\ leases[c] <= now
    /\ attempts[c] # 0
    /\ ready'[c] = 0
    /\ leases'[c] = 0
    /\ owners'[c] = NoToken
    /\ attempts'[c] = attempts[c]
    /\ results'[c] = results[c]

\* or leaves it alone.
Untouched(c) ==
    /\ ready'[c] = ready[c]
    /\ leases'[c] = leases[c]
    /\ owners'[c] = owners[c]
    /\ attempts'[c] = attempts[c]
    /\ results'[c] = results[c]

LEMMA ClaimEffect ==
    ASSUME IInv, NEW token \in Nat \ {0}, NEW lease \in LeaseTimes,
           ClaimScript(token, lease), NEW c \in Cases
    PROVE  /\ Given(c, token, lease) \/ GaveUp(c) \/ TookBack(c) \/ Untouched(c)
           /\ c \in Granted => Given(c, token, lease)
           /\ c \notin Granted => GaveUp(c) \/ TookBack(c) \/ Untouched(c)
  <1> USE DEF IInv
  <1>1. /\ attempts[c] \in Nat /\ attempts[c] <= MaxDeliveries + 1
        /\ attempts[c] = MaxDeliveries + 1 => Finished(c)
        /\ leases[c] \in Nat
    BY DEF TypeOK, Counted
  <1>2. /\ ready'[c] = IF c \in Discarded \cup Granted THEN Absent ELSE Score[c]
        /\ leases'[c] = IF c \in Granted THEN now + lease
                        ELSE IF c \in Reclaimed THEN 0 ELSE leases[c]
        /\ owners'[c] = IF c \in Granted THEN token
                        ELSE IF c \in Reclaimed THEN NoToken ELSE owners[c]
        /\ attempts'[c] = IF c \in Discarded \cup Granted THEN attempts[c] + 1 ELSE attempts[c]
        /\ results'[c] = IF c \in Discarded THEN LimitExhausted(c) ELSE results[c]
    BY DEF ClaimScript, CountDeliveries
  <1>3. CASE c \in Granted
    <2>1. c \in Popped /\ ~Spent(c) /\ c \notin Discarded
      BY <1>3, SpentOrNot
    <2>2. ~Finished(c) /\ c \in tasks
      BY <2>1, PoppedWaiting
    <2> QED
      BY <1>1, <1>2, <1>3, <2>1, <2>2 DEF Given, Spent
  <1>4. CASE c \in Discarded
    <2>1. c \in Popped /\ Spent(c) /\ c \notin Granted
      BY <1>4, SpentOrNot
    <2>2. ~Finished(c) /\ c \in tasks /\ (c \in Reclaimed \/ ~Leased(c))
      BY <2>1, PoppedWaiting
    <2>3. leases'[c] = 0 /\ owners'[c] = NoToken
      BY <1>2, <2>1, <2>2 DEF OnePlace, Leased
    <2>4. attempts[c] = MaxDeliveries
      BY <1>1, <2>1, <2>2 DEF Spent
    <2> QED
      BY <1>2, <1>4, <2>1, <2>2, <2>3, <2>4 DEF GaveUp
  <1>5. CASE c \in Reclaimed /\ c \notin Discarded \cup Granted
    <2>1. Leased(c) /\ leases[c] <= now
      BY <1>5, ReclaimedEnded
    <2>2. c \in tasks /\ ~Finished(c) /\ owners[c] # NoToken
      BY <2>1 DEF OnePlace
    <2>3. Score[c] = 0
      BY <1>5, <2>2 DEF Score, Finished
    <2>4. attempts[c] # 0
      BY <2>2 DEF Holder, Latest, TypeOK, Job
    <2> QED
      BY <1>2, <1>5, <2>1, <2>2, <2>3, <2>4 DEF TookBack
  <1>6. CASE c \notin Reclaimed /\ c \notin Discarded \cup Granted
    <2>1. Score[c] = ready[c]
      BY <1>6 DEF Score
    <2> QED
      BY <1>2, <1>6, <2>1 DEF Untouched
  <1> QED
    BY <1>3, <1>4, <1>5, <1>6, SpentOrNot

\* What a claim preserves whether or not it returns a job.
LEMMA ClaimScriptIInv ==
    ASSUME IInv, NEW token \in Nat \ {0}, NEW lease \in LeaseTimes,
           ClaimScript(token, lease)
    PROVE  /\ ready' \in [Cases -> Nat \cup {Absent}]
           /\ leases' \in [Cases -> Nat]
           /\ owners' \in [Cases -> Nat]
           /\ attempts' \in [Cases -> Nat]
           /\ results' \in [Cases -> Result \cup {NoResult}]
           /\ volatile' \subseteq Keys
           /\ Blank' /\ KeysExpire' /\ OnePlace' /\ Counted' /\ Front'
  <1> USE DEF IInv
  <1>1. \A c \in Cases : Given(c, token, lease) \/ GaveUp(c) \/ TookBack(c) \/ Untouched(c)
    BY ClaimEffect
  <1>2. \A c \in Cases : LimitExhausted(c) \in Result /\ LimitExhausted(c) # NoResult
    BY DEF LimitExhausted, Result, NoResult, NoToken, TypeOK
  <1>3. ready' \in [Cases -> Nat \cup {Absent}]
    BY ScoreType DEF ClaimScript, TypeOK
  <1>4. leases' \in [Cases -> Nat] /\ owners' \in [Cases -> Nat] /\ attempts' \in [Cases -> Nat]
    BY DEF ClaimScript, CountDeliveries, TypeOK, NoToken
  <1>5. results' \in [Cases -> Result \cup {NoResult}]
    BY <1>2 DEF ClaimScript, TypeOK
  <1>6. volatile' \subseteq Keys /\ KeysExpire'
    BY DEF ClaimScript, Touch, ExistingKeys, KeysExpire
  <1>7. Blank'
    BY DEF ClaimScript, Active, Blank, NoRun
  <1>8. tasks' = tasks
    BY DEF ClaimScript
  <1>9. now \in Nat /\ lease \in Nat \ {0} /\ \A c \in Cases : now + lease # 0
    BY DEF TypeOK
  <1>10. OnePlace'
    <2> SUFFICES ASSUME NEW c \in Cases
                 PROVE  /\ Leased(c)' <=> owners'[c] # NoToken
                        /\ ~(InReady(c) /\ Leased(c))'
                        /\ ~(Finished(c) /\ (InReady(c) \/ Leased(c)))'
                        /\ c \in tasks' <=> (InReady(c) \/ Leased(c) \/ Finished(c))'
      BY DEF OnePlace
    <2>1. CASE Given(c, token, lease)
      BY <1>8, <1>9, <2>1 DEF Given, Leased, InReady, Finished, NoToken
    <2>2. CASE GaveUp(c)
      BY <1>2, <1>8, <2>2 DEF GaveUp, Leased, InReady, Finished
    <2>3. CASE TookBack(c)
      BY <1>8, <2>3 DEF TookBack, Leased, InReady, Finished, Absent
    <2>4. CASE Untouched(c)
      BY <1>8, <2>4 DEF Untouched, OnePlace, Leased, InReady, Finished
    <2> QED
      BY <1>1, <2>1, <2>2, <2>3, <2>4
  <1>11. Counted'
    <2> SUFFICES ASSUME NEW c \in Cases
                 PROVE  /\ attempts'[c] <= MaxDeliveries + 1
                        /\ attempts'[c] = MaxDeliveries + 1 => Finished(c)'
      BY DEF Counted
    <2>1. attempts[c] \in Nat /\ LimitExhausted(c) # NoResult
      BY <1>2 DEF TypeOK
    <2> QED
      BY <1>1, <2>1 DEF Counted, Given, GaveUp, TookBack, Untouched, Finished
  <1>12. Front'
    <2> SUFFICES ASSUME NEW c \in Cases, InReady(c)'
                 PROVE  ready'[c] = 0 <=> attempts'[c] # 0
      BY DEF Front
    <2> QED
      BY <1>1 DEF Front, Given, GaveUp, TookBack, Untouched, InReady
  <1> QED
    BY <1>3, <1>4, <1>5, <1>6, <1>7, <1>10, <1>11, <1>12

LEMMA ClaimJobIInv ==
    ASSUME IInv, NEW c \in Cases, NEW lease \in LeaseTimes, ClaimJob(c, lease)
    PROVE  IInv'
  <1> DEFINE token == minted + 1
             n == [case |-> c, token |-> token, delivery |-> attempts'[c], run |-> run]
  <1>1. /\ c \in Granted /\ ClaimScript(token, lease)
        /\ minted' = token /\ issued' = issued \cup {n} /\ meta # NoRun
        /\ UNCHANGED <<now, meta, tasks, run>>
    BY DEF ClaimJob, ClaimScript, Active, NoRun
  <1>2. TypeOK /\ token \in Nat \ {0} /\ minted \in Nat /\ run \in Nat
    BY DEF IInv, TypeOK
  <1>3. Given(c, token, lease)
    BY <1>1, <1>2, ClaimEffect
  <1>4. \A d \in Cases \ {c} : GaveUp(d) \/ TookBack(d) \/ Untouched(d)
    <2> SUFFICES ASSUME NEW d \in Cases \ {c}
                 PROVE  GaveUp(d) \/ TookBack(d) \/ Untouched(d)
      OBVIOUS
    <2>1. d \notin Granted
      BY <1>1, <1>2, OneGranted
    <2> QED
      BY <1>1, <1>2, <2>1, ClaimEffect
  <1>5. /\ attempts[c] \in Nat /\ attempts'[c] = attempts[c] + 1
        /\ attempts'[c] <= MaxDeliveries
    BY <1>2, <1>3 DEF Given, TypeOK
  <1>6. n \in Job /\ \A j \in issued : j \in Job /\ j.token <= minted
    BY <1>2, <1>5 DEF Job, TypeOK, IInv, Tokens
  <1>7. TypeOK'
    <2>1. issued' \subseteq Job
      BY <1>1, <1>6
    <2> QED
      BY <1>1, <1>2, <2>1, ClaimScriptIInv DEF TypeOK
  <1>8. Blank' /\ KeysExpire' /\ OnePlace' /\ Counted' /\ Front'
    BY <1>1, <1>2, ClaimScriptIInv
  <1>9. \A d \in Cases : attempts[d] \in Nat /\ attempts'[d] \in Nat /\ attempts'[d] >= attempts[d]
    BY <1>4, <1>5 DEF GaveUp, TookBack, Untouched, IInv, TypeOK
  <1>10. \A j \in issued : j.run = run => j.delivery <= attempts[j.case]
    BY <1>1 DEF IInv, Delivered
  <1>11. Tokens'
    <2> SUFFICES ASSUME NEW j \in issued'
                 PROVE  /\ j.token <= minted' /\ j.run <= run' /\ j.delivery <= MaxDeliveries
                        /\ \A k \in issued' : j.token = k.token => j = k
      BY DEF Tokens
    <2>1. CASE j = n
      BY <1>1, <1>2, <1>5, <1>6, <2>1 DEF Job
    <2>2. CASE j \in issued
      BY <1>1, <1>2, <1>6, <2>2 DEF IInv, Tokens, Job
    <2> QED
      BY <1>1, <2>1, <2>2
  <1>12. \A j \in issued : ~(j.run = run /\ j.case = c /\ j.delivery = n.delivery)
    BY <1>5, <1>6, <1>10 DEF Job
  <1>13. NamespacesDistinct'
    <2> SUFFICES ASSUME NEW j \in issued', NEW k \in issued',
                        j.run = k.run, j.case = k.case, j.delivery = k.delivery
                 PROVE  j = k
      BY DEF NamespacesDistinct
    <2> QED
      BY <1>1, <1>12 DEF IInv, NamespacesDistinct
  <1>14. Delivered'
    <2> SUFFICES ASSUME NEW j \in issued', j.run = run
                 PROVE  j.delivery <= attempts'[j.case]
      BY <1>1 DEF Delivered
    <2>1. CASE j = n
      BY <1>5, <2>1
    <2>2. CASE j \in issued
      <3>1. j \in Job /\ j.delivery <= attempts[j.case]
        BY <1>6, <1>10, <2>2
      <3>2. j.case \in Cases /\ j.delivery \in Nat
        BY <3>1 DEF Job
      <3>3. /\ attempts[j.case] \in Nat /\ attempts'[j.case] \in Nat
            /\ attempts[j.case] <= attempts'[j.case]
        BY <1>9, <3>2
      <3> QED
        BY <3>1, <3>2, <3>3
    <2> QED
      BY <1>1, <2>1, <2>2
  <1>15. \A d \in Cases, e \in Nat : Issued(d, e) => Issued(d, e)'
    BY <1>1 DEF Issued
  <1>16. Issued(c, attempts[c])'
    <2>1. n \in issued' /\ n.case = c /\ n.run = run' /\ n.delivery = attempts'[c]
      BY <1>1
    <2> QED
      BY <2>1 DEF Issued
  <1>17. AllIssued'
    <2> SUFFICES ASSUME NEW d \in Cases, NEW e \in 1..MaxDeliveries, e <= attempts'[d]
                 PROVE  Issued(d, e)'
      BY DEF AllIssued
    <2>1. CASE e <= attempts[d]
      BY <1>15, <2>1 DEF IInv, AllIssued
    <2>2. CASE ~(e <= attempts[d]) /\ d = c
      BY <1>5, <1>16, <2>2
    <2>3. CASE ~(e <= attempts[d]) /\ d # c
      BY <1>4, <1>9, <2>3 DEF GaveUp, TookBack, Untouched
    <2> QED
      BY <2>1, <2>2, <2>3
  <1>18. Latest(c, minted)'
    <2>1. /\ n \in issued' /\ n.token = minted' /\ n.case = c /\ n.run = run'
          /\ n.delivery = attempts'[c]
      BY <1>1
    <2> QED
      BY <2>1 DEF Latest
  <1>19. \A d \in Cases \ {c}, t \in Nat :
            Latest(d, t) /\ attempts'[d] = attempts[d] => Latest(d, t)'
    BY <1>1 DEF Latest
  <1>20. Holder'
    <2> SUFFICES ASSUME NEW d \in Cases, owners'[d] # NoToken
                 PROVE  Latest(d, owners[d])'
      BY DEF Holder
    <2>1. CASE d = c
      BY <1>1, <1>3, <1>18, <2>1 DEF Given
    <2>2. CASE d # c
      <3>1. Untouched(d)
        BY <1>4, <2>2 DEF GaveUp, TookBack
      <3> QED
        BY <1>19, <2>2, <3>1 DEF Untouched, IInv, TypeOK, Holder
    <2> QED
      BY <2>1, <2>2
  <1>21. Provenance'
    <2> SUFFICES ASSUME NEW d \in Cases, Finished(d)'
                 PROVE  /\ results'[d].run = run'
                        /\ results'[d].token = NoToken =>
                              /\ results'[d].delivery = MaxDeliveries
                              /\ results'[d].status = "error"
                              /\ attempts'[d] = MaxDeliveries + 1
                        /\ results'[d].token # NoToken =>
                              /\ results'[d].delivery = attempts'[d]
                              /\ Latest(d, results[d].token)'
      BY DEF Provenance
    <2>1. d # c
      BY <1>3 DEF Given, Finished
    <2>2. CASE GaveUp(d)
      BY <1>1, <2>2 DEF GaveUp, LimitExhausted
    <2>3. CASE Untouched(d)
      <3>1. Finished(d) /\ results'[d] = results[d] /\ attempts'[d] = attempts[d]
        BY <2>3 DEF Untouched, Finished
      <3>2. results[d].token \in Nat
        BY <1>2, <3>1 DEF TypeOK, Finished, Result
      <3> QED
        BY <1>1, <1>19, <2>1, <3>1, <3>2 DEF IInv, Provenance
    <2>4. CASE TookBack(d)
      BY <2>4 DEF TookBack, Finished
    <2> QED
      BY <1>4, <2>1, <2>2, <2>3, <2>4
  <1> QED
    BY <1>7, <1>8, <1>11, <1>13, <1>14, <1>17, <1>20, <1>21 DEF IInv

LEMMA ClaimNoneIInv ==
    ASSUME IInv, NEW lease \in LeaseTimes, ClaimNone(lease)
    PROVE  IInv'
  <1> DEFINE token == minted + 1
  <1>1. /\ Granted = {} /\ ClaimScript(token, lease) /\ meta # NoRun
        /\ UNCHANGED <<now, meta, tasks, run, minted, issued>>
    BY DEF ClaimNone, ClaimScript, Active, NoRun
  <1>2. TypeOK /\ token \in Nat \ {0}
    BY DEF IInv, TypeOK
  <1>3. \A d \in Cases : GaveUp(d) \/ TookBack(d) \/ Untouched(d)
    BY <1>1, <1>2, ClaimEffect
  <1>4. TypeOK'
    BY <1>1, <1>2, ClaimScriptIInv DEF TypeOK
  <1>5. Blank' /\ KeysExpire' /\ OnePlace' /\ Counted' /\ Front'
    BY <1>1, <1>2, ClaimScriptIInv
  <1>6. Tokens' /\ NamespacesDistinct'
    BY <1>1 DEF IInv, Tokens, NamespacesDistinct
  <1>7. \A d \in Cases : /\ attempts[d] \in Nat
                         /\ attempts'[d] = attempts[d] \/ attempts'[d] = attempts[d] + 1
                         /\ attempts'[d] # attempts[d] => GaveUp(d)
    BY <1>2, <1>3 DEF GaveUp, TookBack, Untouched, TypeOK
  <1>8. Delivered'
    <2> SUFFICES ASSUME NEW j \in issued, j.run = run
                 PROVE  j.delivery <= attempts'[j.case]
      BY <1>1 DEF Delivered
    <2>1. j.case \in Cases /\ j.delivery \in Nat /\ j.delivery <= attempts[j.case]
      BY <1>1 DEF IInv, TypeOK, Job, Delivered
    <2>2. attempts[j.case] \in Nat /\ attempts'[j.case] \in {attempts[j.case], attempts[j.case] + 1}
      BY <1>7, <2>1
    <2> QED
      BY <2>1, <2>2
  <1>9. AllIssued'
    <2> SUFFICES ASSUME NEW d \in Cases, NEW e \in 1..MaxDeliveries, e <= attempts'[d]
                 PROVE  Issued(d, e)
      BY <1>1 DEF AllIssued, Issued
    <2>1. e <= attempts[d]
      BY <1>7 DEF GaveUp
    <2> QED
      BY <2>1 DEF IInv, AllIssued
  <1>10. \A d \in Cases, t \in Nat : Latest(d, t) /\ attempts'[d] = attempts[d] => Latest(d, t)'
    BY <1>1 DEF Latest
  <1>11. Holder'
    <2> SUFFICES ASSUME NEW d \in Cases, owners'[d] # NoToken
                 PROVE  Latest(d, owners[d])'
      BY DEF Holder
    <2>1. Untouched(d)
      BY <1>3 DEF GaveUp, TookBack
    <2> QED
      BY <1>2, <1>10, <2>1 DEF Untouched, IInv, TypeOK, Holder
  <1>12. Provenance'
    <2> SUFFICES ASSUME NEW d \in Cases, Finished(d)'
                 PROVE  /\ results'[d].run = run'
                        /\ results'[d].token = NoToken =>
                              /\ results'[d].delivery = MaxDeliveries
                              /\ results'[d].status = "error"
                              /\ attempts'[d] = MaxDeliveries + 1
                        /\ results'[d].token # NoToken =>
                              /\ results'[d].delivery = attempts'[d]
                              /\ Latest(d, results[d].token)'
      BY DEF Provenance
    <2>1. CASE GaveUp(d)
      BY <1>1, <2>1 DEF GaveUp, LimitExhausted
    <2>2. CASE Untouched(d)
      <3>1. Finished(d) /\ results'[d] = results[d] /\ attempts'[d] = attempts[d]
        BY <2>2 DEF Untouched, Finished
      <3>2. results[d].token \in Nat
        BY <1>2, <3>1 DEF TypeOK, Finished, Result
      <3> QED
        BY <1>1, <1>10, <3>1, <3>2 DEF IInv, Provenance
    <2>3. CASE TookBack(d)
      BY <2>3 DEF TookBack, Finished
    <2> QED
      BY <1>3, <2>1, <2>2, <2>3
  <1> QED
    BY <1>4, <1>5, <1>6, <1>8, <1>9, <1>11, <1>12 DEF IInv

\* Nothing but the clock and the state of the run changes.
LEMMA QuietIInv ==
    ASSUME IInv,
           UNCHANGED <<tasks, ready, leases, owners, attempts, results, volatile,
                       run, minted, issued>>,
           meta' = NoRun <=> meta = NoRun,
           now' \in Nat \ {0},
           meta' \in [state : {"none", "open", "closed"}, deadline : Nat, expires : Nat]
    PROVE  IInv'
  <1> USE DEF IInv
  <1>1. TypeOK'
    BY DEF TypeOK
  <1>2. ExistingKeys' = ExistingKeys
    BY DEF ExistingKeys, KeyExists
  <1>3. Blank' /\ KeysExpire'
    BY <1>2 DEF Blank, KeysExpire
  <1>4. OnePlace' /\ Counted' /\ Front'
    BY DEF OnePlace, Counted, Front, InReady, Leased, Finished
  <1>5. Tokens' /\ NamespacesDistinct' /\ Delivered' /\ AllIssued'
    BY DEF Tokens, NamespacesDistinct, Delivered, AllIssued, Issued
  <1>6. Holder' /\ Provenance'
    BY DEF Holder, Provenance, Latest, Finished
  <1> QED
    BY <1>1, <1>3, <1>4, <1>5, <1>6

LEMMA CloseIInv == IInv /\ Close => IInv'
  <1> SUFFICES ASSUME IInv, Close PROVE IInv'
    OBVIOUS
  <1>1. meta' # NoRun /\ meta # NoRun
    BY DEF Close, NoRun, IInv, TypeOK
  <1>2. meta' \in [state : {"none", "open", "closed"}, deadline : Nat, expires : Nat]
    BY DEF Close, IInv, TypeOK
  <1> QED
    BY <1>1, <1>2, QuietIInv DEF Close, history, IInv, TypeOK

LEMMA TickIInv == IInv /\ Tick => IInv'
  BY QuietIInv DEF Tick, store, history, IInv, TypeOK

LEMMA StutterIInv == IInv /\ UNCHANGED qvars => IInv'
  BY QuietIInv DEF qvars, store, history, IInv, TypeOK

\* Every key that exists is volatile, so nothing survives the expiry.
LEMMA ExpireEffect ==
    ASSUME IInv, ExpireKeys
    PROVE  /\ meta' = NoRun
           /\ tasks' = {}
           /\ \A c \in Cases : /\ ready'[c] = Absent /\ leases'[c] = 0 /\ owners'[c] = NoToken
                               /\ attempts'[c] = 0 /\ results'[c] = NoResult
  <1>1. \A k \in Keys : KeyExists(k) => k \in volatile
    BY DEF IInv, KeysExpire, ExistingKeys
  <1>2. meta' = NoRun
    BY <1>1 DEF ExpireKeys, KeyExists, Keys
  <1>3. tasks' = {}
    BY <1>1 DEF ExpireKeys, KeyExists, Keys
  <1>4. ASSUME NEW c \in Cases PROVE ready'[c] = Absent
    BY <1>1 DEF ExpireKeys, KeyExists, Keys
  <1>5. ASSUME NEW c \in Cases PROVE leases'[c] = 0
    BY <1>1 DEF ExpireKeys, KeyExists, Keys
  <1>6. ASSUME NEW c \in Cases PROVE owners'[c] = NoToken
    BY <1>1 DEF ExpireKeys, KeyExists, Keys
  <1>7. ASSUME NEW c \in Cases PROVE attempts'[c] = 0
    BY <1>1 DEF ExpireKeys, KeyExists, Keys
  <1>8. ASSUME NEW c \in Cases PROVE results'[c] = NoResult
    BY <1>1 DEF ExpireKeys, KeyExists, Keys
  <1> QED
    BY <1>2, <1>3, <1>4, <1>5, <1>6, <1>7, <1>8

\* Without a key of the run, and with the history as it was, nothing can be wrong.
LEMMA EmptiedIInv ==
    ASSUME IInv, meta' = NoRun, tasks' = {}, volatile' = {}, now' \in Nat \ {0}, UNCHANGED history,
           ready' \in [Cases -> {Absent}], leases' \in [Cases -> {0}], owners' \in [Cases -> {NoToken}],
           attempts' \in [Cases -> {0}], results' \in [Cases -> {NoResult}]
    PROVE  IInv'
  <1>1. /\ meta' = NoRun /\ tasks' = {}
        /\ \A c \in Cases : /\ ready'[c] = Absent /\ leases'[c] = 0 /\ owners'[c] = NoToken
                            /\ attempts'[c] = 0 /\ results'[c] = NoResult
        /\ UNCHANGED <<run, minted, issued>>
    BY DEF history
  <1>2. TypeOK'
    <2>1. /\ ready' \in [Cases -> Nat \cup {Absent}] /\ leases' \in [Cases -> Nat]
          /\ owners' \in [Cases -> Nat]
      BY DEF NoToken
    <2>2. attempts' \in [Cases -> Nat] /\ results' \in [Cases -> Result \cup {NoResult}]
      OBVIOUS
    <2>3. /\ meta' \in [state : {"none", "open", "closed"}, deadline : Nat, expires : Nat]
          /\ tasks' \subseteq Cases
      BY <1>1 DEF NoRun
    <2> QED
      BY <1>1, <2>1, <2>2, <2>3 DEF IInv, TypeOK
  <1>3. Blank'
    BY <1>1 DEF Blank
  <1>4. KeysExpire'
    <2>1. ASSUME NEW k \in Keys PROVE ~KeyExists(k)'
      BY <1>1 DEF KeyExists
    <2> QED
      BY <2>1 DEF KeysExpire, ExistingKeys
  <1>5. OnePlace' /\ Counted' /\ Front'
    BY <1>1 DEF OnePlace, Counted, Front, InReady, Leased, Finished
  <1>6. Tokens' /\ NamespacesDistinct' /\ Delivered'
    BY <1>1 DEF IInv, Tokens, NamespacesDistinct, Delivered
  <1>7. AllIssued'
    <2>1. ASSUME NEW c \in Cases, NEW d \in 1..MaxDeliveries PROVE ~(d <= attempts'[c])
      BY <1>1
    <2> QED
      BY <2>1 DEF AllIssued
  <1>8. Holder' /\ Provenance'
    BY <1>1 DEF Holder, Provenance, Finished
  <1> QED
    BY <1>2, <1>3, <1>4, <1>5, <1>6, <1>7, <1>8 DEF IInv

LEMMA ExpireIInv == IInv /\ ExpireKeys => IInv'
  <1> SUFFICES ASSUME IInv, ExpireKeys PROVE IInv'
    OBVIOUS
  <1>1. now' \in Nat \ {0} /\ volatile' = {} /\ UNCHANGED history
    BY DEF ExpireKeys, IInv, TypeOK
  <1>2. /\ ready' \in [Cases -> {Absent}] /\ leases' \in [Cases -> {0}] /\ owners' \in [Cases -> {NoToken}]
        /\ attempts' \in [Cases -> {0}] /\ results' \in [Cases -> {NoResult}]
    <2>1. /\ ready' \in [Cases -> Nat \cup {Absent}] /\ leases' \in [Cases -> Nat]
          /\ owners' \in [Cases -> Nat] /\ attempts' \in [Cases -> Nat]
          /\ results' \in [Cases -> Result \cup {NoResult}]
      BY DEF ExpireKeys, IInv, TypeOK, NoToken
    <2> QED
      BY <2>1, ExpireEffect
  <1> QED
    BY <1>1, <1>2, ExpireEffect, EmptiedIInv

LEMMA NextIInv == IInv /\ [Next]_qvars => IInv'
  <1> SUFFICES ASSUME IInv, [Next]_qvars PROVE IInv'
    OBVIOUS
  <1>1. CASE \E suite \in Suites, timeout \in RunTimeouts : Create(suite, timeout)
    BY <1>1, CreateIInv
  <1>2. CASE \E c \in Cases, lease \in LeaseTimes : ClaimJob(c, lease)
    BY <1>2, ClaimJobIInv
  <1>3. CASE \E lease \in LeaseTimes : ClaimNone(lease)
    BY <1>3, ClaimNoneIInv
  <1>4. CASE \E job \in issued, lease \in LeaseTimes : Renew(job, lease)
    BY <1>4, RenewIInv
  <1>5. CASE \E job \in issued, status \in Statuses : Complete(job, status)
    BY <1>5, CompleteIInv
  <1>6. CASE Close
    BY <1>6, CloseIInv
  <1>7. CASE Tick
    BY <1>7, TickIInv
  <1>8. CASE ExpireKeys
    BY <1>8, ExpireIInv
  <1>9. CASE UNCHANGED qvars
    BY <1>9, StutterIInv
  <1> QED
    BY <1>1, <1>2, <1>3, <1>4, <1>5, <1>6, <1>7, <1>8, <1>9 DEF Next

\* The inductive invariant holds in every reachable state.
THEOREM Invariant == Spec => []IInv
  BY InitIInv, NextIInv, PTL DEF Spec

---------------------------------------------------------------------------
(* The safety invariants *)

\* The store and the history keep their types (what the scripts read and write).
THEOREM TypeCorrect == Spec => []TypeOK
  BY Invariant, PTL DEF IInv

\* Each case of the run is available, leased or finished, and only one of them
\* (what CLAIM and COMPLETE move between ready, leases and results).
THEOREM CasesInOnePlace == Spec => []OnePlace
  BY Invariant, PTL DEF IInv

\* Every key that exists carries the run's expiry (touch() at the end of the scripts).
THEOREM AllKeysExpire == Spec => []KeysExpire
  BY Invariant, PTL DEF IInv

\* Two jobs of a run never share case and delivery number (HINCRBY in CLAIM),
\* from which the executor derives the fixture namespace.
THEOREM DistinctNamespaces == Spec => []NamespacesDistinct
  BY Invariant, PTL DEF IInv

\* An accepted result is the one of the latest delivery, whatever superseded
\* workers still send (the token and lease tests of COMPLETE).
THEOREM Fencing == Spec => []LatestDeliveryWins
  <1>1. IInv => LatestDeliveryWins
    <2> SUFFICES ASSUME IInv, NEW c \in Cases, NEW job \in issued,
                        Finished(c), job.case = c, job.run = run
                 PROVE  /\ job.delivery <= results[c].delivery
                        /\ job.delivery = results[c].delivery /\ results[c].token # NoToken
                              => job.token = results[c].token
      BY DEF LatestDeliveryWins
    <2>1. meta # NoRun
      BY DEF IInv, Blank, Finished
    <2>2. job.delivery <= attempts[c] /\ job.delivery <= MaxDeliveries
      BY <2>1 DEF IInv, Delivered, Tokens
    <2>3. CASE results[c].token = NoToken
      BY <2>2, <2>3 DEF IInv, Provenance
    <2>4. CASE results[c].token # NoToken
      <3>1. results[c].delivery = attempts[c] /\ Latest(c, results[c].token)
        BY <2>4 DEF IInv, Provenance
      <3>2. job.delivery = attempts[c] => job.token = results[c].token
        BY <3>1 DEF IInv, NamespacesDistinct, Latest
      <3> QED
        BY <2>2, <3>1, <3>2
    <2> QED
      BY <2>3, <2>4
  <1> QED
    BY Invariant, <1>1, PTL

\* The queue's own error stands only where every allowed delivery was made, and
\* no more were made (the comparison with `deliveries' in CLAIM).
THEOREM GivesUpLate == Spec => []GivenUpOnlyWhenSpent
  <1>1. IInv => GivenUpOnlyWhenSpent
    <2> SUFFICES ASSUME IInv PROVE GivenUpOnlyWhenSpent
      OBVIOUS
    <2>1. \A job \in issued : job.delivery <= MaxDeliveries
      BY DEF IInv, Tokens
    <2>2. ASSUME NEW c \in Cases, Finished(c), results[c].token = NoToken,
                 NEW d \in 1..MaxDeliveries
          PROVE  \E job \in issued : job.case = c /\ job.run = run /\ job.delivery = d
      <3>1. attempts[c] = MaxDeliveries + 1
        BY <2>2 DEF IInv, Provenance
      <3> QED
        BY <3>1 DEF IInv, AllIssued, Issued
    <2> QED
      BY <2>1, <2>2 DEF GivenUpOnlyWhenSpent
  <1> QED
    BY Invariant, <1>1, PTL

\* Whatever the store says of a case was put there in the current run, also when
\* the run ID was used before (expiry of all keys, then CREATE).
THEOREM RunsStartClean == Spec => []CleanRun
  <1>1. IInv => CleanRun
    <2> SUFFICES ASSUME IInv, NEW c \in Cases
                 PROVE  /\ Finished(c) => results[c].run = run
                        /\ attempts[c] # 0 => \E job \in issued : job.case = c /\ job.run = run
      BY DEF CleanRun
    <2>1. Finished(c) => results[c].run = run
      BY DEF IInv, Provenance
    <2>2. attempts[c] # 0 => Issued(c, 1)
      BY DEF IInv, TypeOK, AllIssued
    <2> QED
      BY <2>1, <2>2 DEF Issued
  <1> QED
    BY Invariant, <1>1, PTL

---------------------------------------------------------------------------
(* What a step may not do *)

\* The steps by what they may do to owners and results.
LEMMA StepKinds ==
    ASSUME IInv, [Next]_qvars
    PROVE  \/ \E token \in Nat \ {0}, lease \in LeaseTimes : ClaimScript(token, lease)
           \/ \E job \in issued, status \in Statuses : Complete(job, status)
           \/ ExpireKeys
           \/ UNCHANGED <<owners, results>>
  <1>1. minted + 1 \in Nat \ {0}
    BY DEF IInv, TypeOK
  <1>2. CASE \E suite \in Suites, timeout \in RunTimeouts : Create(suite, timeout)
    BY <1>2 DEF Create, SubmitRun
  <1>3. CASE \E c \in Cases, lease \in LeaseTimes : ClaimJob(c, lease)
    BY <1>1, <1>3 DEF ClaimJob
  <1>4. CASE \E lease \in LeaseTimes : ClaimNone(lease)
    BY <1>1, <1>4 DEF ClaimNone
  <1>5. CASE \E job \in issued, lease \in LeaseTimes : Renew(job, lease)
    BY <1>5 DEF Renew
  <1>6. CASE Close \/ Tick \/ UNCHANGED qvars
    BY <1>6 DEF Close, Tick, qvars, store
  <1> QED
    BY <1>2, <1>3, <1>4, <1>5, <1>6 DEF Next

LEMMA ResultKept ==
    ASSUME IInv, [Next]_qvars, NEW c \in Cases, Finished(c)
    PROVE  results'[c] = results[c] \/ Forgotten
  <1>1. ASSUME NEW token \in Nat \ {0}, NEW lease \in LeaseTimes, ClaimScript(token, lease)
        PROVE  results'[c] = results[c]
    BY <1>1, ClaimEffect DEF Given, GaveUp, TookBack, Untouched
  <1>2. ASSUME NEW job \in issued, NEW status \in Statuses, Complete(job, status)
        PROVE  results'[c] = results[c]
    BY <1>2, OwnerIsLatest DEF Complete, SetResult, IInv, TypeOK
  <1>3. ASSUME ExpireKeys PROVE Forgotten
    BY <1>3, ExpireEffect DEF Forgotten, ExpireKeys, Outlived
  <1> QED
    BY <1>1, <1>2, <1>3, StepKinds

\* A result once accepted stays until the keys of the run expire (HEXISTS in
\* COMPLETE and in CLAIM's reclaim, EXISTS in CREATE).
THEOREM ResultsFinal == Spec => ResultFinal
  <1>1. IInv /\ [Next]_qvars =>
            \A c \in Cases : Finished(c) => results'[c] = results[c] \/ Forgotten
    BY ResultKept
  <1> QED
    BY Invariant, <1>1, PTL DEF Spec, ResultFinal

\* What becomes of a lease that has lapsed: it is reclaimed or expires with the run.
LEMMA LapsedIsLost ==
    ASSUME IInv, [Next]_qvars, NEW c \in Cases, leases[c] \in 1..now, leases'[c] # leases[c]
    PROVE  owners'[c] # owners[c] /\ results'[c].token = NoToken
  <1>1. /\ leases[c] # 0 /\ leases[c] \in Nat /\ leases[c] <= now /\ now \in Nat
        /\ minted \in Nat /\ owners[c] \in Nat
    BY DEF IInv, TypeOK
  <1>2. owners[c] # NoToken /\ results[c] = NoResult
    BY <1>1 DEF IInv, OnePlace, Leased, Finished
  <1>3. owners[c] <= minted
    BY <1>2 DEF IInv, Holder, Latest, Tokens
  <1>4. ASSUME NEW job \in issued, Owns(job) PROVE c # job.case
    BY <1>1, <1>4 DEF Owns
  <1>5. ASSUME NEW lease \in LeaseTimes, ClaimScript(minted + 1, lease)
        PROVE  owners'[c] # owners[c] /\ results'[c].token = NoToken
    <2>1. /\ leases'[c] = IF c \in Granted THEN now + lease ELSE IF c \in Reclaimed THEN 0 ELSE leases[c]
          /\ owners'[c] = IF c \in Granted THEN minted + 1 ELSE IF c \in Reclaimed THEN NoToken ELSE owners[c]
          /\ results'[c] = IF c \in Discarded THEN LimitExhausted(c) ELSE results[c]
      BY <1>5 DEF ClaimScript
    <2>2. owners'[c] # owners[c]
      BY <1>1, <1>2, <1>3, <2>1
    <2> QED
      BY <1>2, <2>1, <2>2 DEF LimitExhausted, NoResult
  <1>6. CASE ExpireKeys
    BY <1>2, <1>6, ExpireEffect DEF NoResult
  <1>7. ~(\E job \in issued, lease \in LeaseTimes : Renew(job, lease))
    BY <1>4 DEF Renew, IInv, TypeOK
  <1>8. ~(\E job \in issued, status \in Statuses : Complete(job, status))
    BY <1>4 DEF Complete, IInv, TypeOK
  <1>9. ~(\E suite \in Suites, timeout \in RunTimeouts : Create(suite, timeout))
    BY DEF Create, SubmitRun
  <1>10. ~Close /\ ~Tick /\ ~UNCHANGED qvars
    BY DEF Close, Tick, qvars, store
  <1> QED
    BY <1>5, <1>6, <1>7, <1>8, <1>9, <1>10 DEF Next, ClaimJob, ClaimNone

\* While a lease is live only the accepted result of its holder ends it, and once it has
\* lapsed its holder has lost it (the boundary in CLAIM, RENEW and COMPLETE, their token test).
THEOREM LeasesProtect == Spec => LeaseProtects
  <1> DEFINE P == \A c \in Cases :
                    /\ leases[c] > now /\ owners'[c] # owners[c]
                         => Forgotten \/ (~Finished(c) /\ results'[c].token = owners[c])
                    /\ leases[c] \in 1..now /\ leases'[c] # leases[c]
                         => owners'[c] # owners[c] /\ results'[c].token = NoToken
  <1>1. ASSUME IInv, [Next]_qvars, NEW c \in Cases, leases[c] > now, owners'[c] # owners[c]
        PROVE  Forgotten \/ (~Finished(c) /\ results'[c].token = owners[c])
    <2> USE <1>1
    <2>1. now \in Nat \ {0} /\ leases[c] \in Nat /\ leases[c] # 0 /\ minted + 1 \in Nat \ {0}
      BY DEF IInv, TypeOK
    <2>2. ASSUME NEW token \in Nat \ {0}, NEW lease \in LeaseTimes, ClaimScript(token, lease)
          PROVE  FALSE
      <3>1. c \notin Reclaimed
        BY <2>1, ReclaimedEnded
      <3>2. c \notin Granted
        <4>1. c \notin Popped
          BY <2>1, <3>1, PoppedWaiting DEF IInv, Leased
        <4> QED
          BY <4>1, SpentOrNot
      <3> QED
        BY <2>2, <3>1, <3>2 DEF ClaimScript
    <2>3. ASSUME NEW job \in issued, NEW status \in Statuses, Complete(job, status)
          PROVE  ~Finished(c) /\ results'[c].token = owners[c]
      <3>1. c = job.case
        BY <2>3 DEF Complete, IInv, TypeOK
      <3> QED
        BY <2>3, <3>1, OwnerIsLatest DEF Complete, SetResult, Owns, IInv, TypeOK
    <2>4. ASSUME ExpireKeys PROVE Forgotten
      BY <2>4, ExpireEffect DEF Forgotten, ExpireKeys, Outlived
    <2> QED
      BY <2>2, <2>3, <2>4, StepKinds
  <1>2. IInv /\ [Next]_qvars => P
    BY <1>1, LapsedIsLost
  <1> QED
    BY Invariant, <1>2, PTL DEF Spec, LeaseProtects

LEMMA OverKept ==
    ASSUME IInv, [Next]_qvars, ~Active, run' = run
    PROVE  ~Active' /\ issued' = issued /\ (results' = results \/ Forgotten)
  <1>1. run \in Nat /\ now \in Nat /\ meta.deadline \in Nat
    BY DEF IInv, TypeOK
  <1>2. CASE \E suite \in Suites, timeout \in RunTimeouts : Create(suite, timeout)
    BY <1>1, <1>2 DEF Create, SubmitRun
  <1>3. CASE Close
    BY <1>3 DEF Close, Active, history, IInv, TypeOK
  <1>4. CASE Tick
    BY <1>1, <1>4 DEF Tick, Active, store, history
  <1>5. CASE ExpireKeys
    BY <1>5, ExpireEffect DEF ExpireKeys, Active, NoRun, Forgotten, Outlived, history
  <1>6. CASE UNCHANGED qvars
    BY <1>6 DEF qvars, store, history, Active
  <1>7. ~(\E c \in Cases, lease \in LeaseTimes : ClaimJob(c, lease))
    BY DEF ClaimJob, ClaimScript
  <1>8. ~(\E lease \in LeaseTimes : ClaimNone(lease))
    BY DEF ClaimNone, ClaimScript
  <1>9. ~(\E job \in issued, lease \in LeaseTimes : Renew(job, lease))
    BY DEF Renew, Owns
  <1>10. ~(\E job \in issued, status \in Statuses : Complete(job, status))
    BY DEF Complete, Owns
  <1> QED
    BY <1>2, <1>3, <1>4, <1>5, <1>6, <1>7, <1>8, <1>9, <1>10 DEF Next

\* A run that is over accepts and hands out nothing more (active() in every
\* script that does, CLOSE and the deadline).
THEOREM OverStaysOver == Spec => OverIsFinal
  <1>1. IInv /\ [Next]_qvars =>
            (~Active /\ run' = run
               => /\ ~Active'
                  /\ issued' = issued
                  /\ results' = results \/ Forgotten)
    BY OverKept
  <1> QED
    BY Invariant, <1>1, PTL DEF Spec, OverIsFinal

\* The order of a sorted set is transitive.
LEMMA AheadTransitive ==
    ASSUME NEW score \in [Cases -> Int], NEW b \in Cases, NEW c \in Cases, NEW d \in Cases,
           Ahead(score, b, c), Ahead(score, c, d)
    PROVE  Ahead(score, b, d)
  <1>1. b \in Int /\ c \in Int /\ d \in Int
    OBVIOUS
  <1>2. score[b] \in Int /\ score[c] \in Int /\ score[d] \in Int
    OBVIOUS
  <1> QED
    BY <1>1, <1>2 DEF Ahead

\* With a member a selection has all that come before it.
LEMMA FirstOfClosed ==
    ASSUME NEW S \in SUBSET Cases, NEW score \in [Cases -> Int], NEW k \in Nat,
           NEW c \in FirstOf(S, score, k), NEW d \in S, Ahead(score, d, c)
    PROVE  d \in FirstOf(S, score, k)
  <1> DEFINE B(e) == {b \in S : Ahead(score, b, e)}
  <1>1. c \in S /\ Cardinality(B(c)) < k
    BY DEF FirstOf
  <1>2. B(d) \subseteq B(c)
    BY <1>1, AheadTransitive
  <1>3. IsFiniteSet(S)
    BY FS_Subset
  <1>4. IsFiniteSet(B(c)) /\ IsFiniteSet(B(d))
    BY <1>3, FS_Subset
  <1>5. Cardinality(B(d)) <= Cardinality(B(c)) /\ Cardinality(B(d)) \in Nat
        /\ Cardinality(B(c)) \in Nat
    BY <1>2, <1>4, FS_Subset, FS_CardinalityType
  <1>6. Cardinality(B(d)) < k
    BY <1>1, <1>5
  <1> QED
    BY <1>6 DEF FirstOf

\* Reclaimed work goes first: a first delivery is made only when no case that
\* was delivered before is left waiting (score 0 in CLAIM's ZADD, places from 1
\* in CREATE's).
THEOREM ReclaimedGoFirst == Spec => ReclaimedFirst
  <1> DEFINE P == \A job \in issued' \ issued :
                    job.delivery = 1 => \A c \in Cases : ready'[c] # Absent => attempts'[c] = 0
  <1>1. ASSUME IInv, NEW c \in Cases, NEW lease \in LeaseTimes, ClaimJob(c, lease),
               NEW job \in issued' \ issued, job.delivery = 1,
               NEW d \in Cases, ready'[d] # Absent
        PROVE  attempts'[d] = 0
    <2> SUFFICES ASSUME attempts'[d] # 0 PROVE FALSE
      OBVIOUS
    <2> USE <1>1
    <2>1. /\ c \in Granted /\ ClaimScript(minted + 1, lease) /\ minted + 1 \in Nat \ {0}
          /\ job.delivery = attempts'[c]
      BY DEF ClaimJob, IInv, TypeOK
    <2>2. attempts[c] = 0
      BY <2>1, ClaimEffect DEF Given, IInv, TypeOK
    <2>3. c \in Popped /\ Score[c] > 0
      <3>1. c \in Popped
        BY <2>1, SpentOrNot
      <3>2. c \notin Reclaimed
        <4> SUFFICES ASSUME c \in Reclaimed PROVE FALSE
          OBVIOUS
        <4>1. owners[c] # NoToken
          BY ReclaimedEnded DEF IInv, OnePlace
        <4> QED
          BY <2>2, <4>1 DEF IInv, Holder, Latest, TypeOK, Job
      <3>3. Score[c] = ready[c] /\ InReady(c)
        BY <3>1, <3>2, PoppedWaiting DEF IInv
      <3> QED
        BY <2>2, <3>1, <3>3 DEF IInv, Front, InReady, TypeOK, Absent
    <2>4. d \notin Discarded \cup Granted /\ ready'[d] = Score[d]
      BY <2>1 DEF ClaimScript
    <2>5. Score[d] = 0
      <3>1. TookBack(d) \/ Untouched(d)
        BY <2>1, <2>4, ClaimEffect DEF GaveUp
      <3>2. CASE TookBack(d)
        BY <2>4, <3>2 DEF TookBack
      <3>3. CASE Untouched(d)
        BY <2>4, <3>3 DEF Untouched, IInv, Front, InReady
      <3> QED
        BY <3>1, <3>2, <3>3
    <2>6. d \in Waiting /\ Ahead(Score, d, c)
      BY <2>3, <2>5 DEF Waiting, Ahead, Absent
    <2>7. Score \in [Cases -> Int] /\ Waiting \in SUBSET Cases
      BY ScoreType DEF IInv, Waiting, Absent
    <2>8. d \in Popped
      BY <2>3, <2>6, <2>7, FirstOfClosed DEF Popped
    <2>9. \A e \in Waiting : Ahead(Score, e, c) => Spent(e)
      BY <2>1 DEF Granted
    <2>10. \A e \in Waiting : Ahead(Score, e, d) => Spent(e)
      BY <2>6, <2>7, <2>9, AheadTransitive
    <2> QED
      BY <2>4, <2>6, <2>8, <2>9, <2>10 DEF Discarded
  <1>2. ASSUME IInv, [Next]_qvars PROVE P
    <2>1. CASE \E c \in Cases, lease \in LeaseTimes : ClaimJob(c, lease)
      BY <1>1, <1>2, <2>1
    <2>2. CASE issued' = issued
      BY <2>2
    <2> QED
      BY <1>2, <2>1, <2>2
         DEF Next, Create, SubmitRun, ClaimNone, Renew, Complete, Close, Tick, ExpireKeys,
             qvars, history
  <1> QED
    BY Invariant, <1>2, PTL DEF Spec, ReclaimedFirst

---------------------------------------------------------------------------
(***************************************************************************)
(* The scripts of the run queue implement the ledger: every step of        *)
(* RunQueue maps to a step of ResultLedger or to a stutter.                *)
(***************************************************************************)

\* The mapped delivery count of a case.
Deliveries(c) == IF attempts[c] > MaxDeliveries THEN MaxDeliveries ELSE attempts[c]

MappedDeliveries == [c \in Cases |-> IF attempts[c] > MaxDeliveries THEN MaxDeliveries ELSE attempts[c]]
MappedOutcome == [c \in Cases |-> LedgerLine(results[c])]

LEMMA InitLedger == Init => Ledger!Init
  BY DEF Init, Ledger!Init, Ledger!Blank, Ledger!Pending, Phase, LedgerLine, NoResult

\* What a claim does to the ledger's line of a case.
LEMMA GivenLine ==
    ASSUME IInv, NEW c \in Cases, NEW token, NEW lease, Given(c, token, lease)
    PROVE  Ledger!Deliver(c)
  <1>1. results[c] = NoResult /\ attempts[c] \in Nat /\ attempts[c] < MaxDeliveries
    BY DEF Given, Finished, IInv, TypeOK
  <1> QED
    BY <1>1 DEF Given, Ledger!Deliver, Ledger!Pending, LedgerLine, NoResult

LEMMA GaveUpLine ==
    ASSUME IInv, NEW c \in Cases, GaveUp(c)
    PROVE  Ledger!GiveUp(c)
  <1>1. results[c] = NoResult /\ attempts[c] = MaxDeliveries /\ attempts'[c] = MaxDeliveries + 1
    BY DEF GaveUp, Finished
  <1>2. results'[c] = LimitExhausted(c) /\ LimitExhausted(c) # NoResult
    BY <1>1 DEF GaveUp, LimitExhausted, NoResult
  <1> QED
    BY <1>1, <1>2 DEF Ledger!GiveUp, Ledger!GivenUp, Ledger!Pending, LedgerLine, NoResult,
                      LimitExhausted

LEMMA SameLine ==
    ASSUME NEW c \in Cases, attempts'[c] = attempts[c], results'[c] = results[c]
    PROVE  Ledger!Same(c)
  BY DEF Ledger!Same, LedgerLine

\* A claim is one call of the ledger, or changes nothing of it.
LEMMA ClaimServes ==
    ASSUME IInv, NEW token \in Nat \ {0}, NEW lease \in LeaseTimes,
           ClaimScript(token, lease)
    PROVE  Ledger!Serve \/ UNCHANGED Ledger!lvars
  <1>1. Phase = "open" /\ Phase' = "open"
    BY DEF ClaimScript, Phase, Active, NoRun
  <1>2. \A c \in Cases :
          c \notin Granted => Ledger!Same(c) \/ Ledger!GiveUp(c)
    BY ClaimEffect, GaveUpLine, SameLine DEF TookBack, Untouched
  <1>3. CASE Granted # {}
    <2>1. PICK s \in Granted : TRUE
      BY <1>3
    <2>2. s \in Cases
      BY <2>1, SpentOrNot, PoppedWaiting DEF IInv
    <2>3. Ledger!Deliver(s)
      BY <2>1, <2>2, ClaimEffect, GivenLine
    <2>4. \A c \in Cases \ {s} : Ledger!Same(c) \/ Ledger!GiveUp(c)
      BY <1>2, <2>1, OneGranted DEF IInv
    <2> QED
      BY <1>1, <2>2, <2>3, <2>4 DEF Ledger!Serve
  <1>4. CASE Granted = {} /\ Cases # {}
    <2>1. PICK s \in Cases : TRUE
      BY <1>4
    <2> QED
      BY <1>1, <1>2, <1>4, <2>1 DEF Ledger!Serve
  <1>5. CASE Cases = {}
    BY <1>1, <1>5 DEF Ledger!lvars
  <1> QED
    BY <1>3, <1>4, <1>5

LEMMA CompleteServes ==
    ASSUME IInv, NEW job \in issued, NEW status \in Statuses, Complete(job, status)
    PROVE  Ledger!Serve
  <1> DEFINE k == job.case
  <1>1. /\ Owns(job) /\ UNCHANGED <<now, meta, attempts>>
        /\ results' = [results EXCEPT ![k] =
                         [status |-> status, token |-> job.token,
                          delivery |-> job.delivery, run |-> job.run]]
    BY DEF Complete, SetResult
  <1>2. /\ k \in Cases /\ job.token \in Nat \ {0} /\ job.delivery = attempts[k]
        /\ job.delivery \in Nat \ {0} /\ job.delivery <= MaxDeliveries
        /\ results[k] = NoResult
    BY <1>1, OwnerIsLatest DEF IInv, TypeOK, Job, Tokens, Finished
  <1>3. Phase = "open" /\ Phase' = "open"
    BY <1>1 DEF Owns, Phase, Active, NoRun
  <1>4. results'[k] = [status |-> status, token |-> job.token,
                       delivery |-> job.delivery, run |-> job.run]
    BY <1>1, <1>2 DEF IInv, TypeOK
  <1>5. results'[k] # NoResult /\ results'[k].token # NoToken
    BY <1>2, <1>4 DEF NoResult, NoToken
  <1>6. Deliveries(k) = attempts[k] /\ Deliveries(k)' = attempts[k]
    BY <1>1, <1>2 DEF Deliveries
  <1>7. LedgerLine(results[k]) = Ledger!Pending
    BY <1>2 DEF LedgerLine, Ledger!Pending, NoResult
  <1>8. LedgerLine(results[k])' = Ledger!Reported(attempts[k], status)
    BY <1>2, <1>4, <1>5 DEF LedgerLine, Ledger!Reported
  <1>9. Ledger!Accept(k)
    BY <1>2, <1>6, <1>7, <1>8 DEF Ledger!Accept, Deliveries
  <1>10. \A c \in Cases \ {k} : Ledger!Same(c)
    BY <1>1, SameLine DEF IInv, TypeOK
  <1> QED
    BY <1>2, <1>3, <1>9, <1>10 DEF Ledger!Serve

\* A step that leaves counts and results alone shows only in the phase.
LEMMA CountsKept ==
    ASSUME UNCHANGED <<attempts, results>>
    PROVE  UNCHANGED <<MappedDeliveries, MappedOutcome>>
  BY DEF MappedDeliveries, MappedOutcome, LedgerLine

LEMMA NextLedger == IInv /\ [Next]_qvars => [Ledger!Next]_Ledger!lvars
  <1> SUFFICES ASSUME IInv, [Next]_qvars PROVE [Ledger!Next]_Ledger!lvars
    OBVIOUS
  <1> USE DEF Ledger!Next
  <1>1. CASE \E suite \in Suites, timeout \in RunTimeouts : Create(suite, timeout)
    <2>1. UNCHANGED <<MappedDeliveries, MappedOutcome>>
      BY <1>1, CountsKept DEF Create, SubmitRun
    <2>2. Phase = "none" /\ Phase' \in {"open", "over"}
      BY <1>1 DEF Create, SubmitRun, Phase, NoRun
    <2> QED
      BY <2>1, <2>2 DEF Ledger!Begin, MappedDeliveries, MappedOutcome
  <1>2. CASE \E c \in Cases, lease \in LeaseTimes : ClaimJob(c, lease)
    <2>1. minted + 1 \in Nat \ {0}
      BY DEF IInv, TypeOK
    <2> QED
      BY <1>2, <2>1, ClaimServes DEF ClaimJob
  <1>3. CASE \E lease \in LeaseTimes : ClaimNone(lease)
    <2>1. minted + 1 \in Nat \ {0}
      BY DEF IInv, TypeOK
    <2> QED
      BY <1>3, <2>1, ClaimServes DEF ClaimNone
  <1>4. CASE \E job \in issued, lease \in LeaseTimes : Renew(job, lease)
    <2>1. UNCHANGED <<MappedDeliveries, MappedOutcome>>
      BY <1>4, CountsKept DEF Renew
    <2>2. Phase' = Phase
      BY <1>4 DEF Renew, Phase, Active
    <2> QED
      BY <2>1, <2>2 DEF Ledger!lvars, MappedDeliveries, MappedOutcome
  <1>5. CASE \E job \in issued, status \in Statuses : Complete(job, status)
    BY <1>5, CompleteServes
  <1>6. CASE Close
    <2>1. UNCHANGED <<MappedDeliveries, MappedOutcome>>
      BY <1>6, CountsKept DEF Close
    <2>2. Phase \in {"open", "over"} /\ Phase' = "over"
      BY <1>6 DEF Close, Phase, Active, NoRun, IInv, TypeOK
    <2> QED
      BY <2>1, <2>2 DEF Ledger!lvars, Ledger!End, MappedDeliveries, MappedOutcome
  <1>7. CASE Tick
    <2>1. UNCHANGED <<MappedDeliveries, MappedOutcome>>
      BY <1>7, CountsKept DEF Tick, store
    <2>2. Phase' = Phase \/ (Phase = "open" /\ Phase' = "over")
      BY <1>7 DEF Tick, store, Phase, Active, IInv, TypeOK
    <2> QED
      BY <2>1, <2>2 DEF Ledger!lvars, Ledger!End, MappedDeliveries, MappedOutcome
  <1>8. CASE ExpireKeys
    <2>1. Phase # "none" /\ Phase' = "none"
      BY <1>8, ExpireEffect DEF ExpireKeys, Outlived, Phase
    <2>2. \A c \in Cases : attempts'[c] = 0 /\ results'[c] = NoResult
      BY <1>8, ExpireEffect
    <2>3. MappedDeliveries' = [c \in Cases |-> 0]
      BY <2>2 DEF MappedDeliveries
    <2>4. MappedOutcome' = [c \in Cases |-> Ledger!Pending]
      BY <2>2 DEF MappedOutcome, LedgerLine, Ledger!Pending, NoResult
    <2> QED
      BY <2>1, <2>3, <2>4 DEF Ledger!Forget, MappedDeliveries, MappedOutcome
  <1>9. CASE UNCHANGED qvars
    <2>1. UNCHANGED <<MappedDeliveries, MappedOutcome>>
      BY <1>9, CountsKept DEF qvars, store
    <2>2. Phase' = Phase
      BY <1>9 DEF qvars, store, Phase, Active
    <2> QED
      BY <2>1, <2>2 DEF Ledger!lvars, MappedDeliveries, MappedOutcome
  <1> QED
    BY <1>1, <1>2, <1>3, <1>4, <1>5, <1>6, <1>7, <1>8, <1>9 DEF Next

\* Every behaviour of the five scripts, the clock and the expiry, whatever jobs
\* are renewed or completed when, is a behaviour of the ledger.
THEOREM LedgerImplemented == Spec => ImplementsLedger
  <1>1. Init /\ [][Next]_qvars /\ []IInv => Ledger!Init /\ [][Ledger!Next]_Ledger!lvars
    BY InitLedger, NextLedger, PTL
  <1> QED
    BY <1>1, Invariant, PTL DEF Spec, ImplementsLedger, Ledger!Spec
=============================================================================
