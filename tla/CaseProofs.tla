------------------------------ MODULE CaseProofs ------------------------------
(***************************************************************************)
(* Proofs about CaseExecutor, for any case, timeouts and retries: what may *)
(* still go out once the lease is lost, how long a case may take, and that *)
(* its results tell what was sent: nothing twice, no test without its      *)
(* setup, cleanup always, and passed only if all of it passed.             *)
(***************************************************************************)
EXTENDS CaseExecutor, TLAPS

USE CaseAssumption, BudgetAssumption

---------------------------------------------------------------------------
(* The lost lease *)

\* Requests go out late only after the flag is set, and while one is past its
\* check none has gone out late yet.
LossInv ==
    /\ late \in Nat
    /\ late > 0 => lost
    /\ pc \in {"connect", "handshake", "write"} => late = 0
    /\ OneAfterLoss

LEMMA LossKept == LossInv /\ [Next]_xvars => LossInv'
  <1> SUFFICES ASSUME LossInv, [Next]_xvars PROVE LossInv'
    OBVIOUS
  <1> USE DEF LossInv, OneAfterLoss
  <1>1. CASE Begin
    BY <1>1 DEF Begin, Return, NextStep
  <1>2. CASE Check
    BY <1>2 DEF Check, Sends, Return, NextStep
  <1>3. CASE Connect
    BY <1>3 DEF Connect, Return, NextStep
  <1>4. CASE Wake
    BY <1>4 DEF Wake
  <1>5. CASE Write
    BY <1>5 DEF Write, GoesOut, Return, NextStep
  <1>6. CASE Answer
    BY <1>6 DEF Answer, QuietRead, Return, NextStep
  <1>7. CASE Chunk
    BY <1>7 DEF Chunk, Return, NextStep
  <1>12. CASE ReadOn
    BY <1>12 DEF ReadOn
  <1>8. CASE Judge
    BY <1>8 DEF Judge, Return, NextStep
  <1>9. CASE Tick
    BY <1>9 DEF Tick
  <1>10. CASE LoseLease
    BY <1>10 DEF LoseLease
  <1>11. CASE UNCHANGED xvars
    BY <1>11 DEF xvars
  <1> QED
    BY <1>1, <1>2, <1>3, <1>4, <1>5, <1>6, <1>7, <1>8, <1>9, <1>10, <1>11, <1>12 DEF Next, Thread

\* Once the lease is lost at most one request still goes out, the one that was
\* past its check (lease_valid() in CaseExecutor.step, which cleanup obeys too).
THEOREM AtMostOneLate == Spec => []OneAfterLoss
  <1>1. Init => LossInv
    BY DEF Init, LossInv, OneAfterLoss
  <1>2. LossInv => OneAfterLoss
    BY DEF LossInv
  <1> QED
    BY <1>1, <1>2, LossKept, PTL DEF Spec

---------------------------------------------------------------------------
(* Time *)

\* The types the bound rests on.
TimesTyped ==
    /\ now \in Nat /\ since \in Nat /\ deadline \in Nat /\ budget \in Nat /\ tries \in Nat
    /\ budget <= RequestTimeout /\ quiet \in 0..QuietReads
    /\ phase \in {"setup", "test", "teardown", "done"}
    /\ pc \in {"begin", "check", "connect", "handshake", "backoff", "write", "answer", "body"}
    /\ phase = "done" => pc = "begin"

\* Each blocking phase of a request begun in time, and the step as a whole.
StepInTime ==
    /\ now <= deadline + Overrun
    /\ pc = "connect" => now <= since + budget /\ since + budget <= deadline
    /\ pc = "handshake" => now <= since + budget /\ since <= deadline
    /\ pc = "backoff" => now <= deadline + RequestTimeout
                         /\ (since <= deadline => now <= deadline)
                         /\ (since > deadline => now = since)
    /\ pc = "write" => now <= since + budget /\ since <= deadline + RequestTimeout
    /\ pc \in {"answer", "body"} =>
          now <= since + budget /\ since <= deadline + 2 * RequestTimeout + quiet * RequestTimeout

\* The teardown's part of the bound.
Cleanup == AtMost(CaseTimeout, CleanupTimeout)

DeadlineKnown ==
    /\ phase \in {"setup", "test"} => deadline = CaseTimeout
    /\ deadline <= CaseTimeout + Overrun + Cleanup

TimeInv == TimesTyped /\ StepInTime /\ DeadlineKnown

LEMMA CleanupTyped == Cleanup \in Nat /\ Cleanup > 0
  BY DEF Cleanup, AtMost

\* What the reads of an answer add up to.
LEMMA ReadsAddUp ==
    /\ Overrun \in Nat /\ Overrun >= 4 * RequestTimeout
    /\ Overrun = 3 * RequestTimeout + QuietReads * RequestTimeout
    /\ \A q \in 0..QuietReads :
          /\ q * RequestTimeout \in Nat
          /\ q * RequestTimeout <= QuietReads * RequestTimeout
          /\ (q + 1) * RequestTimeout = q * RequestTimeout + RequestTimeout
  BY DEF Overrun

LEMMA EntryPhase ==
    ASSUME NEW p \in {"setup", "test", "teardown"}
    PROVE  /\ Entry(p)[1] \in {"setup", "test", "teardown", "done"}
           /\ p = "teardown" => Entry(p)[1] \in {"teardown", "done"}
  <1>1. CASE p = "setup" /\ Setup # <<>>
    BY <1>1 DEF Entry
  <1>2. CASE p \in {"setup", "test"} /\ ~(p = "setup" /\ Setup # <<>>)
    BY <1>2 DEF Entry
  <1>3. CASE p = "teardown"
    BY <1>3 DEF Entry
  <1> QED
    BY <1>1, <1>2, <1>3

LEMMA FollowingPhase ==
    ASSUME phase \in {"setup", "test", "teardown"}, NEW status
    PROVE  /\ Following(status)[1] \in {"setup", "test", "teardown", "done"}
           /\ phase = "teardown" => Following(status)[1] \in {"teardown", "done"}
  <1>1. CASE at < Len(StepsOf(phase)) /\ (status = "passed" \/ phase = "teardown")
    <2>1. Following(status) = <<phase, at + 1>>
      BY <1>1 DEF Following
    <2> QED
      BY <2>1
  <1>2. CASE ~(at < Len(StepsOf(phase)) /\ (status = "passed" \/ phase = "teardown"))
    <2>1. CASE phase = "setup" /\ status = "passed"
      <3>1. Following(status) = Entry("test")
        BY <1>2, <2>1 DEF Following
      <3> QED
        BY <3>1, <2>1, EntryPhase
    <2>2. CASE phase = "teardown"
      <3>1. Following(status) = <<"done", 0>>
        BY <1>2, <2>2 DEF Following
      <3> QED
        BY <3>1
    <2>3. CASE ~(phase = "setup" /\ status = "passed") /\ phase # "teardown"
      <3>1. Following(status) = Entry("teardown")
        BY <1>2, <2>3 DEF Following
      <3> QED
        BY <3>1, <2>3, EntryPhase
    <2> QED
      BY <2>1, <2>2, <2>3
  <1> QED
    BY <1>1, <1>2

\* A step that returns leaves the case in time.
LEMMA ReturnInTime ==
    ASSUME TimeInv, phase # "done", NEW status, Return(status),
           now' = now, since' \in Nat, budget' \in Nat, budget' <= RequestTimeout,
           quiet' \in 0..QuietReads
    PROVE  TimeInv'
  <1>1. phase \in {"setup", "test", "teardown"}
    BY DEF TimeInv, TimesTyped
  <1>2. phase' = Following(status)[1]
    BY DEF Return, NextStep
  <1>3. /\ phase' \in {"setup", "test", "teardown", "done"}
        /\ phase = "teardown" => phase' \in {"teardown", "done"}
    BY <1>1, <1>2, FollowingPhase
  <1>4. deadline' = IF phase # "teardown" /\ phase' \in {"teardown", "done"}
                    THEN now + Cleanup ELSE deadline
    BY DEF Return, NextStep, Cleanup
  <1>5. pc' = "begin" /\ tries' = 0
    BY DEF Return, NextStep
  <1>6. now \in Nat /\ deadline \in Nat
    BY DEF TimeInv, TimesTyped
  <1>7. TimesTyped'
    BY <1>3, <1>4, <1>5, <1>6, CleanupTyped DEF TimesTyped
  <1>8. StepInTime'
    BY <1>4, <1>5, <1>6, CleanupTyped, ReadsAddUp DEF TimeInv, StepInTime
  <1>9. DeadlineKnown'
    BY <1>1, <1>3, <1>4, <1>6, CleanupTyped, ReadsAddUp DEF TimeInv, StepInTime, DeadlineKnown
  <1> QED
    BY <1>7, <1>8, <1>9 DEF TimeInv

\* Nap never goes past the deadline it was computed for.
LEMMA NapShort ==
    ASSUME TimesTyped
    PROVE  /\ Nap \in Nat
           /\ since <= deadline => since + Nap <= deadline
           /\ since > deadline => Nap = 0
  <1>1. tries \in Nat /\ since \in Nat /\ deadline \in Nat
    BY DEF TimesTyped
  <1>2. Pause * tries \in Nat
    BY <1>1
  <1> QED
    BY <1>1, <1>2 DEF Nap, AtMost

LEMMA NextTime == TimeInv /\ [Next]_xvars => TimeInv'
  <1> SUFFICES ASSUME TimeInv, [Next]_xvars PROVE TimeInv'
    OBVIOUS
  <1>1. TimesTyped /\ StepInTime /\ DeadlineKnown
    BY DEF TimeInv
  <1> USE DEF TimesTyped
  <1>2. CASE Begin
    <2>1. CASE pc' = "check" /\ Stay /\ UNCHANGED tries
      BY <1>1, <1>2, <2>1 DEF Begin, Stay, TimeInv, StepInTime, DeadlineKnown, Phases
    <2>2. ASSUME NEW status, Return(status) PROVE TimeInv'
      BY <1>1, <1>2, <2>2, ReturnInTime DEF Begin, Phases
    <2> QED
      BY <1>2, <2>1, <2>2 DEF Begin
  <1>3. CASE Check
    <2>1. CASE Return("error") /\ UNCHANGED <<budget, since>>
      BY <1>1, <1>3, <2>1, ReturnInTime DEF Check
    <2>2. CASE now < deadline /\ Sends(AtMost(deadline - now, RequestTimeout))
      BY <1>1, <1>3, <2>2 DEF Check, Sends, Stay, AtMost, TimeInv, StepInTime, DeadlineKnown
    <2> QED
      BY <1>3, <2>1, <2>2 DEF Check
  <1>4. CASE Connect
    <2>1. CASE Return("error") /\ UNCHANGED since
      BY <1>1, <1>4, <2>1, ReturnInTime DEF Connect
    <2>2. CASE /\ pc' = "handshake" \/ pc' \in {"write", "backoff"}
               /\ pc' = "handshake" => pc = "connect"
               /\ since' = now /\ Stay /\ UNCHANGED tries
      BY <1>1, <1>4, <2>2, ReadsAddUp DEF Connect, Stay, TimeInv, StepInTime, DeadlineKnown
    <2> QED
      BY <1>4, <2>1, <2>2 DEF Connect
  <1>5. CASE Wake
    BY <1>1, <1>5 DEF Wake, Stay, TimeInv, StepInTime, DeadlineKnown
  <1>6. CASE Write
    <2>1. CASE Return("error") /\ UNCHANGED <<since, size, quiet>>
      BY <1>1, <1>6, <2>1, ReturnInTime DEF Write
    <2>2. CASE pc' = "answer" /\ since' = now /\ quiet' = 0 /\ Stay /\ UNCHANGED tries
      BY <1>1, <1>6, <2>2 DEF Write, Stay, TimeInv, StepInTime, DeadlineKnown
    <2> QED
      BY <1>6, <2>1, <2>2 DEF Write
  <1>7. ASSUME QuietRead, pc \in {"answer", "body"}, pc' \in {"answer", "body"}, UNCHANGED <<now, budget>>
        PROVE  TimeInv'
    BY <1>1, <1>7, ReadsAddUp DEF QuietRead, Stay, TimeInv, StepInTime, DeadlineKnown
  <1>8. CASE Answer
    <2>1. CASE Return("error") /\ UNCHANGED <<since, quiet>>
      BY <1>1, <1>8, <2>1, ReturnInTime DEF Answer
    <2> QED
      BY <1>7, <1>8, <2>1 DEF Answer
  <1>13. CASE ReadOn
    BY <1>7, <1>13 DEF ReadOn
  <1>14. CASE Chunk
    <2>1. CASE Return("error") /\ UNCHANGED since
      BY <1>1, <1>14, <2>1, ReturnInTime DEF Chunk
    <2>2. CASE now < deadline /\ since' = now /\ Stay /\ UNCHANGED <<pc, tries>>
      BY <1>1, <1>14, <2>2, ReadsAddUp DEF Chunk, Stay, TimeInv, StepInTime, DeadlineKnown
    <2> QED
      BY <1>14, <2>1, <2>2 DEF Chunk
  <1>9. CASE Judge
    <2>1. ASSUME NEW status, Return(status) PROVE TimeInv'
      BY <1>1, <1>9, <2>1, ReturnInTime DEF Judge
    <2> QED
      BY <1>9, <2>1 DEF Judge
  <1>10. CASE Tick
    <2>1. /\ Nap \in Nat
          /\ since <= deadline => since + Nap <= deadline
          /\ since > deadline => Nap = 0
      BY <1>1, NapShort
    <2> QED
      BY <1>1, <1>10, <2>1, ReadsAddUp DEF Tick, Patience, TimeInv, StepInTime, DeadlineKnown
  <1>11. CASE LoseLease
    BY <1>1, <1>11 DEF LoseLease, TimeInv, StepInTime, DeadlineKnown
  <1>12. CASE UNCHANGED xvars
    BY <1>1, <1>12 DEF xvars, TimeInv, StepInTime, DeadlineKnown
  <1> QED
    BY <1>2, <1>3, <1>4, <1>5, <1>6, <1>8, <1>9, <1>10, <1>11, <1>12, <1>13, <1>14 DEF Next, Thread

\* A case ends in bounded time however slow the API is: the deadlines that run
\* and step look at between the blocking calls add up to this.
THEOREM CaseInTime == Spec => []CaseBounded
  <1>1. Init => TimeInv
    <2> SUFFICES ASSUME Init PROVE TimeInv
      OBVIOUS
    <2>1. phase \in {"setup", "test", "teardown", "done"} /\ phase # "done"
      BY DEF Init, Entry
    <2> QED
      BY <2>1, CleanupTyped, ReadsAddUp DEF Init, TimeInv, TimesTyped, StepInTime, DeadlineKnown
  <1>2. TimeInv => CaseBounded
    BY CleanupTyped, ReadsAddUp DEF TimeInv, TimesTyped, StepInTime, DeadlineKnown, CaseBounded, Cleanup
  <1> QED
    BY <1>1, <1>2, NextTime, PTL DEF Spec
---------------------------------------------------------------------------
(* The course of a case *)

LEMMA StepsTyped ==
    /\ StepsOf("setup") = Setup /\ StepsOf("test") = Test /\ StepsOf("teardown") = Teardown
    /\ \A p \in Phases : StepsOf(p) \in Seq(Step) /\ Len(StepsOf(p)) \in Nat
    /\ Len(Test) >= 1
    /\ Setup # <<>> => Len(Setup) >= 1
    /\ Teardown # <<>> => Len(Teardown) >= 1
  <1>1. StepsOf("setup") = Setup /\ StepsOf("test") = Test /\ StepsOf("teardown") = Teardown
    BY DEF StepsOf
  <1>2. \A p \in Phases : StepsOf(p) \in Seq(Step) /\ Len(StepsOf(p)) \in Nat
    BY <1>1 DEF Phases
  <1> QED
    BY <1>1, <1>2

LEMMA PlacesKnown ==
    /\ \A p, i : <<p, i>> \in Places <=> p \in Phases /\ i \in 1..Len(StepsOf(p))
    /\ \A q \in Places : q = <<q[1], q[2]>>
  BY DEF Places

LEMMA EntryKnown ==
    /\ Setup # <<>> => Entry("setup") = <<"setup", 1>>
    /\ Setup = <<>> => Entry("setup") = <<"test", 1>>
    /\ Entry("test") = <<"test", 1>>
    /\ Entry("teardown") = IF Teardown # <<>> THEN <<"teardown", 1>> ELSE <<"done", 0>>
  BY DEF Entry

\* A place that was executed or skipped.
Behind(p, i) ==
    \/ phase = "done"
    \/ phase = "teardown" /\ (p \in {"setup", "test"} \/ (p = "teardown" /\ i < at))
    \/ phase = "test" /\ (p = "setup" \/ (p = "test" /\ i < at))
    \/ phase = "setup" /\ p = "setup" /\ i < at

AllPassed == \A k \in DOMAIN results : results[k].status = "passed"

\* What the results so far tell of the places behind.
TrailInv ==
    /\ \A k \in DOMAIN results :
          /\ <<results[k].phase, results[k].at>> \in Places
          /\ Behind(results[k].phase, results[k].at)
    /\ phase \in {"setup", "test"} => \A p \in Phases : \A i \in 1..Len(StepsOf(p)) : Behind(p, i) => Passed(p, i)
    /\ phase \in {"teardown", "done"} =>
          /\ \A i \in 1..Len(Teardown) : Behind("teardown", i) => Reported("teardown", i)
          /\ AllPassed => \A p \in {"setup", "test"} : \A i \in 1..Len(StepsOf(p)) : Passed(p, i)

\* What went out, place by place.
SentInv ==
    /\ \A p \in Phases : \A i \in 1..Len(StepsOf(p)) :
          /\ sent[<<p, i>>] <= 1
          /\ ~Behind(p, i) =>
                sent[<<p, i>>] = IF p = phase /\ i = at /\ pc \in {"answer", "body"} THEN 1 ELSE 0
    /\ \A k \in DOMAIN results :
          results[k].status = "passed" => sent[<<results[k].phase, results[k].at>>] = 1
    /\ TestNeedsSetup

\* How often a step was tried, and how much of an answer was taken.
TriesInv ==
    /\ pc \in {"answer", "body"} => size <= MaxChunks
    /\ pc = "begin" => tries = 0
    /\ pc \in {"check", "backoff"} => tries <= ConnectRetries
    /\ phase = "done" => pc = "begin"
    /\ phase \in Phases => Current.safe \in BOOLEAN
    /\ pc = "backoff" => Current.safe
    /\ phase \in Phases /\ ~Current.safe => tries <= 1
    /\ pc = "check" /\ ~Current.safe => tries = 0
    /\ \A k \in DOMAIN results :
          ~StepsOf(results[k].phase)[results[k].at].safe => results[k].tries <= 1

CourseInv == TypeOK /\ TriesInv /\ TrailInv /\ SentInv

\* Where a step leads that has a result.
LEMMA Moves ==
    ASSUME <<phase, at>> \in Places, NEW status, Return(status)
    PROVE  \/ /\ at < Len(StepsOf(phase)) /\ (status = "passed" \/ phase = "teardown")
              /\ phase' = phase /\ at' = at + 1
           \/ phase = "setup" /\ status = "passed" /\ at = Len(Setup) /\ phase' = "test" /\ at' = 1
           \/ /\ phase \in {"setup", "test"} /\ (status # "passed" \/ (phase = "test" /\ at = Len(Test)))
              /\ \/ Teardown # <<>> /\ phase' = "teardown" /\ at' = 1
                 \/ Teardown = <<>> /\ phase' = "done" /\ at' = 0
           \/ phase = "teardown" /\ at = Len(Teardown) /\ phase' = "done" /\ at' = 0
  <1>1. phase \in Phases /\ at \in 1..Len(StepsOf(phase))
    BY PlacesKnown
  <1>2. phase' = Following(status)[1] /\ at' = Following(status)[2]
    BY DEF Return, NextStep
  <1>3. CASE at < Len(StepsOf(phase)) /\ (status = "passed" \/ phase = "teardown")
    <2>1. Following(status) = <<phase, at + 1>>
      BY <1>3 DEF Following
    <2> QED
      BY <1>2, <1>3, <2>1
  <1>4. CASE ~(at < Len(StepsOf(phase)) /\ (status = "passed" \/ phase = "teardown"))
    <2>0. at = Len(StepsOf(phase)) \/ (status # "passed" /\ phase # "teardown")
      BY <1>1, <1>4, StepsTyped
    <2>1. CASE phase = "setup" /\ status = "passed"
      <3>1. Following(status) = <<"test", 1>>
        BY <1>4, <2>1, EntryKnown DEF Following
      <3> QED
        BY <1>2, <2>0, <2>1, <3>1, StepsTyped
    <2>2. CASE phase = "teardown"
      <3>1. Following(status) = <<"done", 0>>
        BY <1>4, <2>2 DEF Following
      <3> QED
        BY <1>2, <2>0, <2>2, <3>1, StepsTyped
    <2>3. CASE ~(phase = "setup" /\ status = "passed") /\ phase # "teardown"
      <3>1. Following(status) = Entry("teardown")
        BY <1>4, <2>3 DEF Following
      <3>2. phase \in {"setup", "test"} /\ (status # "passed" \/ phase = "test")
        BY <1>1, <2>3 DEF Phases
      <3> QED
        BY <1>2, <2>0, <3>1, <3>2, EntryKnown, StepsTyped
    <2> QED
      BY <2>1, <2>2, <2>3
  <1> QED
    BY <1>3, <1>4

StepResult == [phase : Phases, at : Nat, status : {"passed", "failed", "error"}, tries : 0..(ConnectRetries + 1)]

LEMMA Appended ==
    ASSUME NEW S, NEW s \in Seq(S), NEW e \in S
    PROVE  /\ Append(s, e) \in Seq(S)
           /\ DOMAIN Append(s, e) = DOMAIN s \cup {Len(s) + 1} /\ Len(s) + 1 \notin DOMAIN s
           /\ \A k \in DOMAIN s : Append(s, e)[k] = s[k]
           /\ Append(s, e)[Len(s) + 1] = e
  OBVIOUS

\* What a result adds to the results.
LEMMA ResultAdded ==
    ASSUME TypeOK, <<phase, at>> \in Places, NEW status \in {"passed", "failed", "error"}, Return(status)
    PROVE  /\ results' \in Seq(StepResult)
           /\ DOMAIN results' = DOMAIN results \cup {Len(results) + 1}
           /\ \A k \in DOMAIN results : results'[k] = results[k]
           /\ Len(results) + 1 \notin DOMAIN results
           /\ results'[Len(results) + 1] = [phase |-> phase, at |-> at, status |-> status, tries |-> tries]
  <1>1. phase \in Phases /\ at \in Nat
    BY PlacesKnown, StepsTyped
  <1>2. [phase |-> phase, at |-> at, status |-> status, tries |-> tries] \in StepResult
    BY <1>1 DEF TypeOK, StepResult
  <1>3. results \in Seq(StepResult)
    BY DEF TypeOK, StepResult
  <1>4. results' = Append(results, [phase |-> phase, at |-> at, status |-> status, tries |-> tries])
    BY DEF Return, NextStep
  <1> HIDE DEF StepResult
  <1> QED
    BY <1>2, <1>3, <1>4, Appended

LEMMA ReportedAfter ==
    ASSUME TypeOK, <<phase, at>> \in Places, NEW status \in {"passed", "failed", "error"}, Return(status),
           NEW p, NEW i
    PROVE  /\ Reported(p, i)' <=> Reported(p, i) \/ (p = phase /\ i = at)
           /\ Passed(p, i)' <=> Passed(p, i) \/ (p = phase /\ i = at /\ status = "passed")
  <1>1. /\ DOMAIN results' = DOMAIN results \cup {Len(results) + 1}
        /\ \A k \in DOMAIN results : results'[k] = results[k]
        /\ results'[Len(results) + 1].phase = phase /\ results'[Len(results) + 1].at = at
        /\ results'[Len(results) + 1].status = status
    BY ResultAdded
  <1>2. Reported(p, i)' <=> Reported(p, i) \/ (p = phase /\ i = at)
    BY <1>1 DEF Reported
  <1>3. Passed(p, i)' <=> Passed(p, i) \/ (p = phase /\ i = at /\ status = "passed")
    BY <1>1 DEF Passed
  <1> QED
    BY <1>2, <1>3

LEMMA ReturnTyped ==
    ASSUME TypeOK, <<phase, at>> \in Places,
           NEW status \in {"passed", "failed", "error"}, Return(status)
    PROVE  /\ <<phase', at'>> \in Places \cup {<<"done", 0>>}
           /\ pc' = "begin" /\ tries' = 0 /\ deadline' \in Nat
           /\ results' \in Seq(StepResult)
  <1>1. phase \in Phases /\ at \in 1..Len(StepsOf(phase)) /\ Len(StepsOf(phase)) \in Nat
    BY PlacesKnown, StepsTyped
  <1>2. <<phase', at'>> \in Places \cup {<<"done", 0>>}
    BY <1>1, Moves, PlacesKnown, StepsTyped DEF Phases
  <1>3. pc' = "begin" /\ tries' = 0 /\ deadline' \in Nat
    BY CleanupTyped DEF TypeOK, Return, NextStep, Cleanup
  <1> QED
    BY <1>2, <1>3, ResultAdded

LEMMA BehindGrows ==
    ASSUME <<phase, at>> \in Places, NEW status, Return(status),
           NEW p \in Phases, NEW i \in 1..Len(StepsOf(p)), Behind(p, i) \/ (p = phase /\ i = at)
    PROVE  Behind(p, i)'
  <1>1. phase \in Phases /\ at \in 1..Len(StepsOf(phase)) /\ Len(StepsOf(phase)) \in Nat
    BY PlacesKnown, StepsTyped
  <1> QED
    BY <1>1, Moves, StepsTyped DEF Behind, Phases

LEMMA ReturnTrail ==
    ASSUME TypeOK, TrailInv, <<phase, at>> \in Places,
           NEW status \in {"passed", "failed", "error"}, Return(status)
    PROVE  TrailInv'
  <1>1. phase \in Phases /\ at \in 1..Len(StepsOf(phase)) /\ Len(StepsOf(phase)) \in Nat
    BY PlacesKnown, StepsTyped
  <1>0. PICK p0 \in Phases, i0 \in 1..Len(StepsOf(phase)) : p0 = phase /\ i0 = at
    BY <1>1
  <1>2. /\ \A p \in Phases : \A i \in 1..Len(StepsOf(p)) : Behind(p, i) => Behind(p, i)'
        /\ Behind(p0, i0)'
    BY <1>0, <1>1, BehindGrows
  <1>3. ASSUME NEW k \in DOMAIN results'
        PROVE  /\ <<results'[k].phase, results'[k].at>> \in Places
               /\ Behind(results[k].phase, results[k].at)'
    <2>1. CASE k \in DOMAIN results
      <3>1. PICK p, i : p \in Phases /\ i \in 1..Len(StepsOf(p)) /\ p = results[k].phase /\ i = results[k].at
        BY <2>1, PlacesKnown DEF TrailInv
      <3>2. results'[k] = results[k] /\ Behind(p, i)'
        BY <1>2, <2>1, <3>1, ResultAdded DEF TrailInv
      <3> QED
        BY <3>1, <3>2, PlacesKnown
    <2>2. CASE k = Len(results) + 1
      <3>1. results'[k].phase = p0 /\ results'[k].at = i0
        BY <1>0, <2>2, ResultAdded
      <3> QED
        BY <1>0, <1>2, <3>1
    <2> QED
      BY <1>3, <2>1, <2>2, ResultAdded
  <1>4. ASSUME phase' \in {"setup", "test"}, NEW p \in Phases, NEW i \in 1..Len(StepsOf(p)), Behind(p, i)'
        PROVE  Passed(p, i)'
    <2>1. status = "passed" /\ phase \in {"setup", "test"}
      BY <1>1, <1>4, Moves DEF Phases
    <2>2. Behind(p, i) \/ (p = phase /\ i = at)
      BY <1>1, <1>4, <2>1, Moves, StepsTyped DEF Behind, Phases
    <2> QED
      BY <2>1, <2>2, ReportedAfter DEF TrailInv
  <1>5. ASSUME phase' \in {"teardown", "done"}, NEW i \in 1..Len(Teardown), Behind("teardown", i)'
        PROVE  Reported("teardown", i)'
    <2>1. phase = "teardown" /\ (Behind("teardown", i) \/ i = at)
      BY <1>1, <1>5, Moves, StepsTyped DEF Behind, Phases
    <2> QED
      BY <2>1, ReportedAfter DEF TrailInv
  <1>6. ASSUME phase' \in {"teardown", "done"}, AllPassed', NEW p \in {"setup", "test"}, NEW i \in 1..Len(StepsOf(p))
        PROVE  Passed(p, i)'
    <2>1. AllPassed /\ status = "passed"
      <3>1. \A k \in DOMAIN results \cup {Len(results) + 1} : results'[k].status = "passed"
        BY <1>6, ResultAdded DEF AllPassed
      <3>2. results'[Len(results) + 1].status = status /\ \A k \in DOMAIN results : results'[k] = results[k]
        BY ResultAdded
      <3> QED
        BY <3>1, <3>2 DEF AllPassed
    <2>2. CASE phase = "teardown"
      BY <1>6, <2>1, <2>2, ReportedAfter DEF TrailInv
    <2>3. CASE phase # "teardown"
      <3>1. phase = "test" /\ at = Len(Test)
        BY <1>1, <1>6, <2>1, <2>3, Moves DEF Phases
      <3>2. Behind(p, i) \/ (p = phase /\ i = at)
        BY <1>6, <3>1, StepsTyped DEF Behind
      <3> QED
        BY <1>6, <2>1, <3>1, <3>2, ReportedAfter DEF TrailInv, Phases
    <2> QED
      BY <2>2, <2>3
  <1> QED
    BY <1>3, <1>4, <1>5, <1>6 DEF TrailInv

LEMMA ReturnTries ==
    ASSUME TypeOK, TriesInv, <<phase, at>> \in Places,
           NEW status \in {"passed", "failed", "error"}, Return(status)
    PROVE  TriesInv'
  <1>1. phase \in Phases /\ (~Current.safe => tries <= 1)
    BY PlacesKnown DEF TriesInv
  <1>2. pc' = "begin" /\ tries' = 0 /\ <<phase', at'>> \in Places \cup {<<"done", 0>>}
    BY ReturnTyped
  <1>3. ASSUME phase' \in Phases PROVE Current'.safe \in BOOLEAN
    <2>1. at' \in 1..Len(StepsOf(phase'))
      BY <1>2, <1>3, PlacesKnown DEF Phases
    <2>2. StepsOf(phase')[at'] \in Step
      BY <1>3, <2>1, StepsTyped
    <2> QED
      BY <2>2 DEF Current, Step
  <1>4. ASSUME NEW k \in DOMAIN results', ~StepsOf(results'[k].phase)[results'[k].at].safe
        PROVE  results'[k].tries <= 1
    <2>1. CASE k \in DOMAIN results
      <3>1. results'[k] = results[k]
        BY <2>1, ResultAdded
      <3> QED
        BY <1>4, <2>1, <3>1 DEF TriesInv
    <2>2. CASE k = Len(results) + 1
      <3>1. results'[k].phase = phase /\ results'[k].at = at /\ results'[k].tries = tries
        BY <2>2, ResultAdded
      <3> QED
        BY <1>1, <1>4, <3>1 DEF Current
    <2> QED
      BY <1>4, <2>1, <2>2, ResultAdded
  <1>5. ConnectRetries \in Nat
    OBVIOUS
  <1> QED
    BY <1>2, <1>3, <1>4, <1>5 DEF TriesInv, Phases

\* What is sent goes out for the current step only.
LEMMA NeedsKept ==
    ASSUME TypeOK, TrailInv, TestNeedsSetup, <<phase, at>> \in Places,
           \A q \in Places : q # <<phase, at>> => sent'[q] = sent[q],
           \A p \in Phases : \A i \in 1..Len(StepsOf(p)) : Passed(p, i) => Passed(p, i)'
    PROVE  TestNeedsSetup'
  <1> SUFFICES ASSUME NEW i \in 1..Len(Test), sent'[<<"test", i>>] > 0
               PROVE  /\ \A k \in 1..Len(Setup) : Passed("setup", k)'
                      /\ \A k \in 1..(i - 1) : Passed("test", k)'
    BY DEF TestNeedsSetup
  <1>1. <<"test", i>> \in Places
    BY PlacesKnown, StepsTyped DEF Phases
  <1>2. /\ \A k \in 1..Len(Setup) : Passed("setup", k)
        /\ \A k \in 1..(i - 1) : Passed("test", k)
    <2>1. CASE <<phase, at>> = <<"test", i>>
      <3>1. phase = "test" /\ at = i
        BY <2>1
      <3>2. /\ \A k \in 1..Len(Setup) : Behind("setup", k)
            /\ \A k \in 1..(i - 1) : Behind("test", k) /\ k \in 1..Len(Test)
        BY <3>1, StepsTyped DEF Behind
      <3> QED
        BY <3>1, <3>2, StepsTyped DEF TrailInv, Phases
    <2>2. CASE <<phase, at>> # <<"test", i>>
      <3>1. sent[<<"test", i>>] > 0
        BY <1>1, <2>2
      <3> QED
        BY <3>1 DEF TestNeedsSetup
    <2> QED
      BY <2>1, <2>2
  <1>3. \A k \in 1..(i - 1) : k \in 1..Len(Test)
    BY StepsTyped
  <1> QED
    BY <1>2, <1>3, StepsTyped DEF Phases

LEMMA ReturnSent ==
    ASSUME TypeOK, TrailInv, SentInv, <<phase, at>> \in Places,
           NEW status \in {"passed", "failed", "error"}, Return(status),
           \A q \in Places : q # <<phase, at>> => sent'[q] = sent[q],
           sent'[<<phase, at>>] \in 0..1,
           status = "passed" => sent'[<<phase, at>>] = 1
    PROVE  SentInv'
  <1>1. pc' = "begin"
    BY DEF Return, NextStep
  <1>2. ASSUME NEW p \in Phases, NEW i \in 1..Len(StepsOf(p))
        PROVE  sent'[<<p, i>>] <= 1 /\ (~Behind(p, i)' => sent'[<<p, i>>] = 0)
    <2>1. <<p, i>> \in Places
      BY PlacesKnown
    <2>2. CASE p = phase /\ i = at
      BY <2>2, BehindGrows
    <2>3. CASE ~(p = phase /\ i = at)
      <3>1. sent'[<<p, i>>] = sent[<<p, i>>]
        BY <2>1, <2>3
      <3>2. ~Behind(p, i)' => ~Behind(p, i)
        BY BehindGrows
      <3> QED
        BY <2>3, <3>1, <3>2 DEF SentInv
    <2> QED
      BY <2>2, <2>3
  <1>3. ASSUME NEW k \in DOMAIN results', results'[k].status = "passed"
        PROVE  sent'[<<results'[k].phase, results'[k].at>>] = 1
    <2>1. CASE k \in DOMAIN results
      <3>1. results'[k] = results[k]
        BY <2>1, ResultAdded
      <3>2. sent[<<results[k].phase, results[k].at>>] = 1 /\ <<results[k].phase, results[k].at>> \in Places
        BY <1>3, <2>1, <3>1 DEF SentInv, TrailInv
      <3>3. <<results[k].phase, results[k].at>> # <<phase, at>>
        <4>1. Behind(results[k].phase, results[k].at)
          BY <2>1 DEF TrailInv
        <4>2. ~Behind(phase, at)
          BY PlacesKnown, StepsTyped DEF Behind, Phases
        <4> QED
          BY <4>1, <4>2
      <3> QED
        BY <3>1, <3>2, <3>3
    <2>2. CASE k = Len(results) + 1
      <3>1. results'[k].phase = phase /\ results'[k].at = at /\ results'[k].status = status
        BY <2>2, ResultAdded
      <3> QED
        BY <1>3, <3>1
    <2> QED
      BY <1>3, <2>1, <2>2, ResultAdded
  <1>4. TestNeedsSetup'
    BY NeedsKept, ReportedAfter DEF SentInv
  <1> QED
    BY <1>1, <1>2, <1>3, <1>4 DEF SentInv

\* The delta of an action that returns a result.
LEMMA ReturnCourse ==
    ASSUME CourseInv, phase \in Phases,
           NEW status \in {"passed", "failed", "error"}, Return(status),
           UNCHANGED <<now, lost>>, budget' \in 0..RequestTimeout, since' \in 0..now,
           size' \in 0..(MaxChunks + 1), quiet' \in 0..QuietReads, late' \in Nat,
           sent' \in [Places -> Nat],
           \A q \in Places : q # <<phase, at>> => sent'[q] = sent[q],
           sent'[<<phase, at>>] \in 0..1,
           status = "passed" => sent'[<<phase, at>>] = 1
    PROVE  CourseInv'
  <1>1. <<phase, at>> \in Places
    BY DEF CourseInv, TypeOK, Phases
  <1>2. TypeOK /\ TriesInv /\ TrailInv /\ SentInv
    BY DEF CourseInv
  <1>3. TriesInv' /\ TrailInv' /\ SentInv'
    BY <1>1, <1>2, ReturnTries, ReturnTrail, ReturnSent
  <1>4. TypeOK'
    BY <1>1, <1>2, ReturnTyped DEF TypeOK, StepResult
  <1> QED
    BY <1>3, <1>4 DEF CourseInv

LEMMA StayTrail ==
    ASSUME TrailInv, UNCHANGED <<phase, at, results>>
    PROVE  TrailInv'
  <1>1. \A p, i : /\ Behind(p, i)' <=> Behind(p, i)
                  /\ Passed(p, i)' <=> Passed(p, i)
                  /\ Reported(p, i)' <=> Reported(p, i)
    BY DEF Behind, Passed, Reported
  <1>2. AllPassed' <=> AllPassed
    BY DEF AllPassed
  <1>3. ASSUME NEW k \in DOMAIN results'
        PROVE  <<results'[k].phase, results'[k].at>> \in Places /\ Behind(results[k].phase, results[k].at)'
    BY <1>3 DEF TrailInv, Behind
  <1> QED
    BY <1>1, <1>2, <1>3 DEF TrailInv

LEMMA StaySent ==
    ASSUME SentInv, UNCHANGED <<phase, at, results, sent>>,
           pc' \in {"answer", "body"} <=> pc \in {"answer", "body"}
    PROVE  SentInv'
  <1>1. \A p, i : Behind(p, i)' <=> Behind(p, i)
    BY DEF Behind
  <1>2. \A p, i : Passed(p, i)' <=> Passed(p, i)
    BY DEF Passed
  <1>3. TestNeedsSetup'
    BY <1>2 DEF SentInv, TestNeedsSetup
  <1> QED
    BY <1>1, <1>3 DEF SentInv

\* The current step goes out once.
LEMMA CurrentSent ==
    ASSUME CourseInv, phase \in Phases
    PROVE  /\ <<phase, at>> \in Places
           /\ sent[<<phase, at>>] = IF pc \in {"answer", "body"} THEN 1 ELSE 0
           /\ Current.safe \in BOOLEAN
  <1>1. <<phase, at>> \in Places
    BY DEF CourseInv, TypeOK, Phases
  <1>2. ~Behind(phase, at) /\ at \in 1..Len(StepsOf(phase))
    BY <1>1, PlacesKnown, StepsTyped DEF Behind, Phases
  <1> QED
    BY <1>1, <1>2 DEF CourseInv, SentInv, TriesInv

\* A result without anything sent.
LEMMA ReturnQuietly ==
    ASSUME CourseInv, phase \in Phases,
           NEW status \in {"passed", "failed", "error"}, Return(status),
           UNCHANGED <<now, lost, budget, sent, late>>, since' \in 0..now,
           size' \in 0..(MaxChunks + 1), quiet' \in 0..QuietReads,
           status = "passed" => pc = "body"
    PROVE  CourseInv'
  <1>1. /\ sent[<<phase, at>>] = IF pc \in {"answer", "body"} THEN 1 ELSE 0
        /\ TypeOK
    BY CurrentSent DEF CourseInv
  <1> QED
    BY <1>1, ReturnCourse DEF TypeOK

\* A step that goes on without anything sent.
LEMMA GoOnQuietly ==
    ASSUME CourseInv, phase \in Phases, Stay, UNCHANGED <<now, lost, sent, late>>,
           budget' \in 0..RequestTimeout, since' \in 0..now,
           size' \in 0..(MaxChunks + 1), quiet' \in 0..QuietReads,
           tries' \in 0..(ConnectRetries + 1),
           pc' \in {"check", "connect", "handshake", "backoff", "write", "answer", "body"},
           pc' \in {"answer", "body"} <=> pc \in {"answer", "body"},
           pc' \in {"check", "backoff"} => tries' <= ConnectRetries,
           pc' = "backoff" => Current.safe,
           pc' \in {"answer", "body"} => size' <= MaxChunks,
           ~Current.safe => tries' <= 1 /\ (pc' = "check" => tries' = 0)
    PROVE  CourseInv'
  <1>1. TypeOK /\ TriesInv /\ TrailInv /\ SentInv /\ Current.safe \in BOOLEAN
    BY CurrentSent DEF CourseInv
  <1>2. UNCHANGED <<phase, at, deadline, results>> /\ Current' = Current
    BY DEF Stay, Current
  <1>3. TypeOK'
    BY <1>1, <1>2 DEF TypeOK
  <1>4. TriesInv'
    BY <1>1, <1>2 DEF TriesInv, Phases
  <1>5. TrailInv' /\ SentInv'
    BY <1>1, <1>2, StayTrail, StaySent
  <1> QED
    BY <1>3, <1>4, <1>5 DEF CourseInv

\* GoesOut, before any answer, sends the current step for the first time.
LEMMA FirstSent ==
    ASSUME CourseInv, phase \in Phases, pc = "write", GoesOut
    PROVE  /\ sent' \in [Places -> Nat] /\ late' \in Nat
           /\ \A q \in Places : q # <<phase, at>> => sent'[q] = sent[q]
           /\ sent'[<<phase, at>>] = 1
  <1>1. <<phase, at>> \in Places /\ sent[<<phase, at>>] = 0 /\ TypeOK
    BY CurrentSent DEF CourseInv
  <1> QED
    BY <1>1 DEF TypeOK, GoesOut

LEMMA WriteCourse == CourseInv /\ Write => CourseInv'
  <1> SUFFICES ASSUME CourseInv, Write PROVE CourseInv'
    OBVIOUS
  <1>1. TypeOK /\ TriesInv /\ TrailInv /\ SentInv /\ pc = "write" /\ UNCHANGED <<now, lost, budget>>
    BY DEF CourseInv, Write
  <1>2. phase \in Phases
    BY <1>1, PlacesKnown DEF TypeOK, TriesInv, Phases
  <1>3. <<phase, at>> \in Places /\ sent[<<phase, at>>] = 0
    BY <1>1, <1>2, CurrentSent
  <1>4. CASE GoesOut /\ Return("error") /\ UNCHANGED <<since, size, quiet>>
    BY <1>1, <1>2, <1>4, FirstSent, ReturnCourse DEF TypeOK
  <1>5. CASE UNCHANGED <<sent, late>> /\ Return("error") /\ UNCHANGED <<since, size, quiet>>
    BY <1>1, <1>2, <1>5, ReturnQuietly DEF TypeOK
  <1>6. CASE /\ GoesOut
             /\ pc' = "answer" /\ since' = now /\ size' = 0 /\ quiet' = 0
             /\ Stay /\ UNCHANGED tries
    <2>1. UNCHANGED <<phase, at, deadline, results, tries>> /\ Current' = Current
      BY <1>6 DEF Stay, Current
    <2>2. /\ sent' \in [Places -> Nat] /\ late' \in Nat /\ sent'[<<phase, at>>] = 1
          /\ \A q \in Places : q # <<phase, at>> => sent'[q] = sent[q]
      BY <1>1, <1>2, <1>6, FirstSent
    <2>3. TypeOK'
      BY <1>1, <1>6, <2>1, <2>2 DEF TypeOK
    <2>4. TriesInv'
      BY <1>1, <1>2, <1>6, <2>1 DEF TriesInv, Phases
    <2>5. TrailInv'
      BY <1>1, <2>1, StayTrail
    <2>6. \A p, i : (Behind(p, i)' <=> Behind(p, i)) /\ (Passed(p, i)' <=> Passed(p, i))
      BY <2>1 DEF Behind, Passed
    <2>7. ~Behind(phase, at)
      BY <1>3, PlacesKnown, StepsTyped DEF Behind, Phases
    <2>8. ASSUME NEW p \in Phases, NEW i \in 1..Len(StepsOf(p))
          PROVE  /\ sent'[<<p, i>>] <= 1
                 /\ ~Behind(p, i) => sent'[<<p, i>>] = IF p = phase /\ i = at THEN 1 ELSE 0
      <3>1. <<p, i>> \in Places
        BY PlacesKnown
      <3>2. CASE p = phase /\ i = at
        BY <2>2, <3>2
      <3>3. CASE ~(p = phase /\ i = at)
        BY <1>1, <2>2, <3>1, <3>3 DEF SentInv
      <3> QED
        BY <3>2, <3>3
    <2>9. ASSUME NEW k \in DOMAIN results, results[k].status = "passed"
          PROVE  sent'[<<results[k].phase, results[k].at>>] = 1
      <3>1. /\ sent[<<results[k].phase, results[k].at>>] = 1
            /\ <<results[k].phase, results[k].at>> \in Places
        BY <1>1, <2>9 DEF SentInv, TrailInv
      <3> QED
        BY <1>3, <2>2, <3>1
    <2>10. TestNeedsSetup'
      BY <1>1, <1>3, <2>2, <2>6, NeedsKept DEF SentInv
    <2>11. SentInv'
      BY <1>6, <2>1, <2>6, <2>8, <2>9, <2>10 DEF SentInv
    <2> QED
      BY <2>3, <2>4, <2>5, <2>11 DEF CourseInv
  <1> QED
    BY <1>4, <1>5, <1>6 DEF Write

LEMMA NextCourse == CourseInv /\ [Next]_xvars => CourseInv'
  <1> SUFFICES ASSUME CourseInv, [Next]_xvars PROVE CourseInv'
    OBVIOUS
  <1>1. TypeOK /\ TriesInv /\ TrailInv /\ SentInv
    BY DEF CourseInv
  <1>2. pc # "begin" => phase \in Phases
    BY <1>1, PlacesKnown DEF TypeOK, TriesInv, Phases
  <1>3. phase \in Phases => Current.safe \in BOOLEAN
    BY CurrentSent
  <1>4. CASE Begin
    <2>1. CASE pc' = "check" /\ Stay /\ UNCHANGED tries
      BY <1>1, <1>3, <1>4, <2>1, GoOnQuietly DEF Begin, TypeOK, TriesInv
    <2>2. CASE Return("error")
      BY <1>1, <1>4, <2>2, ReturnQuietly DEF Begin, TypeOK
    <2>3. CASE Return("failed")
      BY <1>1, <1>4, <2>3, ReturnQuietly DEF Begin, TypeOK
    <2> QED
      BY <1>4, <2>1, <2>2, <2>3 DEF Begin
  <1>5. CASE Check
    <2>1. CASE Return("error") /\ UNCHANGED <<budget, since>>
      BY <1>1, <1>2, <1>5, <2>1, ReturnQuietly DEF Check, TypeOK
    <2>2. CASE ~lost /\ now < deadline /\ Sends(AtMost(deadline - now, RequestTimeout))
      <3>1. budget' \in 0..RequestTimeout
        BY <1>1, <2>2 DEF Sends, AtMost, TypeOK
      <3> QED
        BY <1>1, <1>2, <1>3, <1>5, <2>2, <3>1, GoOnQuietly DEF Check, Sends, TypeOK, TriesInv
    <2> QED
      BY <1>5, <2>1, <2>2 DEF Check
  <1>6. CASE Connect
    <2>1. CASE ~MayRetry /\ Return("error") /\ UNCHANGED since
      BY <1>1, <1>2, <1>6, <2>1, ReturnQuietly DEF Connect, TypeOK
    <2>2. CASE pc' \in {"handshake", "write"} /\ since' = now /\ Stay /\ UNCHANGED tries
      BY <1>1, <1>2, <1>3, <1>6, <2>2, GoOnQuietly DEF Connect, TypeOK, TriesInv
    <2>3. CASE MayRetry /\ pc' = "backoff" /\ since' = now /\ Stay /\ UNCHANGED tries
      BY <1>1, <1>2, <1>3, <1>6, <2>3, GoOnQuietly DEF Connect, MayRetry, TypeOK, TriesInv
    <2> QED
      BY <1>6, <2>1, <2>2, <2>3 DEF Connect
  <1>7. CASE Wake
    BY <1>1, <1>2, <1>3, <1>7, GoOnQuietly DEF Wake, TypeOK, TriesInv
  <1>8. CASE Write
    BY <1>8, WriteCourse
  <1>9. CASE Answer
    <2>1. CASE Return("error") /\ UNCHANGED <<since, quiet>>
      BY <1>1, <1>2, <1>9, <2>1, ReturnQuietly DEF Answer, TypeOK
    <2>2. CASE QuietRead /\ pc' \in {"answer", "body"}
      BY <1>1, <1>2, <1>3, <1>9, <2>2, GoOnQuietly DEF Answer, QuietRead, TypeOK, TriesInv
    <2> QED
      BY <1>9, <2>1, <2>2 DEF Answer
  <1>10. CASE ReadOn
    BY <1>1, <1>2, <1>3, <1>10, GoOnQuietly DEF ReadOn, QuietRead, TypeOK, TriesInv
  <1>11. CASE Chunk
    <2>1. CASE (size' > MaxChunks \/ now >= deadline \/ lost) /\ Return("error") /\ UNCHANGED since
      <3>1. /\ pc = "body" /\ size' \in 0..(MaxChunks + 1) /\ quiet' = 0
            /\ UNCHANGED <<now, lost, budget, sent, late>>
        BY <1>1, <1>11 DEF Chunk, TypeOK, TriesInv
      <3>2. since' \in 0..now /\ quiet' \in 0..QuietReads
        BY <1>1, <2>1, <3>1 DEF TypeOK
      <3> QED
        BY <1>2, <2>1, <3>1, <3>2, ReturnQuietly
    <2>2. CASE /\ size' <= MaxChunks /\ now < deadline /\ ~lost
               /\ since' = now
               /\ Stay /\ UNCHANGED <<pc, tries>>
      BY <1>1, <1>2, <1>3, <1>11, <2>2, GoOnQuietly DEF Chunk, TypeOK, TriesInv
    <2> QED
      BY <1>11, <2>1, <2>2 DEF Chunk
  <1>12. CASE Judge
    BY <1>1, <1>2, <1>12, ReturnQuietly DEF Judge, TypeOK
  <1>13. CASE Tick \/ LoseLease \/ UNCHANGED xvars
    <2>1. UNCHANGED <<phase, at, pc, tries, budget, since, size, quiet, deadline, results, sent, late>>
      BY <1>13 DEF Tick, LoseLease, xvars
    <2>2. TypeOK'
      <3>1. now' \in Nat /\ now' >= now /\ lost' \in BOOLEAN
        <4>1. CASE Tick
          BY <1>1, <4>1 DEF Tick, TypeOK
        <4>2. CASE LoseLease
          BY <1>1, <4>2 DEF LoseLease, TypeOK
        <4>3. CASE UNCHANGED xvars
          BY <1>1, <4>3 DEF xvars, TypeOK
        <4> QED
          BY <1>13, <4>1, <4>2, <4>3
      <3> QED
        BY <1>1, <2>1, <3>1 DEF TypeOK
    <2>3. TriesInv'
      BY <1>1, <2>1 DEF TriesInv, Current
    <2> QED
      BY <1>1, <2>1, <2>2, <2>3, StayTrail, StaySent DEF CourseInv
  <1> QED
    BY <1>4, <1>5, <1>6, <1>7, <1>8, <1>9, <1>10, <1>11, <1>12, <1>13 DEF Next, Thread

LEMMA InitCourse == Init => CourseInv
  <1> SUFFICES ASSUME Init PROVE CourseInv
    OBVIOUS
  <1>1. /\ phase = Entry("setup")[1] /\ at = Entry("setup")[2]
        /\ \/ Setup # <<>> /\ phase = "setup" /\ at = 1
           \/ Setup = <<>> /\ phase = "test" /\ at = 1
    BY EntryKnown DEF Init
  <1>2. <<phase, at>> \in Places /\ phase \in Phases
    BY <1>1, PlacesKnown, StepsTyped DEF Phases
  <1>3. results = <<>> /\ DOMAIN results = {} /\ pc = "begin" /\ tries = 0
    BY DEF Init
  <1>4. TypeOK
    BY <1>2, <1>3 DEF Init, TypeOK
  <1>5. TriesInv
    <2>1. StepsOf(phase)[at] \in Step
      BY <1>2, PlacesKnown, StepsTyped
    <2> QED
      BY <1>2, <1>3, <2>1 DEF TriesInv, Current, Step, Phases
  <1>6. \A p \in Phases : \A i \in 1..Len(StepsOf(p)) : ~Behind(p, i)
    BY <1>1, StepsTyped DEF Behind, Phases
  <1>7. TrailInv
    BY <1>1, <1>3, <1>6 DEF TrailInv
  <1>8. \A p \in Phases : \A i \in 1..Len(StepsOf(p)) : sent[<<p, i>>] = 0
    BY PlacesKnown DEF Init
  <1>9. SentInv
    BY <1>3, <1>8, StepsTyped DEF SentInv, TestNeedsSetup, Phases
  <1> QED
    BY <1>4, <1>5, <1>7, <1>9 DEF CourseInv

LEMMA Course == Spec => []CourseInv
  BY InitCourse, NextCourse, PTL DEF Spec

---------------------------------------------------------------------------
(* What follows *)

\* The executor's state stays within its types: attempts, chunks and budgets keep
\* to their limits (CaseExecutor.run and step).
THEOREM CaseTyped == Spec => []TypeOK
  BY Course, PTL DEF CourseInv

\* A step's request goes out at most once, and a write is tried at most once (the
\* method test before a retry in CaseExecutor.step).
THEOREM NothingReplayed == Spec => []NoReplay
  <1>1. CourseInv => NoReplay
    <2> SUFFICES ASSUME CourseInv PROVE NoReplay
      OBVIOUS
    <2>1. \A q \in Places : sent[q] <= 1
      <3> SUFFICES ASSUME NEW q \in Places PROVE sent[q] <= 1
        OBVIOUS
      <3>1. PICK p, i : q = <<p, i>> /\ p \in Phases /\ i \in 1..Len(StepsOf(p))
        BY PlacesKnown
      <3> QED
        BY <3>1 DEF CourseInv, SentInv
    <2> QED
      BY <2>1 DEF NoReplay, CourseInv, TriesInv
  <1> QED
    BY <1>1, Course, PTL

\* A test step goes out only after setup and the test steps before it passed (the
\* breaks in CaseExecutor.run).
THEOREM TestsNeedSetup == Spec => []TestNeedsSetup
  BY Course, PTL DEF CourseInv, SentInv

\* The teardown is attempted to its end whatever failed before it (the finally
\* clause of CaseExecutor.run).
THEOREM CleanupAttempted == Spec => []TeardownAttempted
  <1>1. CourseInv => TeardownAttempted
    BY StepsTyped DEF CourseInv, TrailInv, TeardownAttempted, Behind
  <1> QED
    BY <1>1, Course, PTL

\* A passed case had every step, cleanup included, sent once and passed (the
\* status that CaseExecutor.run computes).
THEOREM NothingHidden == Spec => []PassedMeansAll
  <1>1. CourseInv => PassedMeansAll
    <2> SUFFICES ASSUME CourseInv, phase = "done", Status = "passed", NEW q \in Places
                 PROVE  sent[q] = 1 /\ Passed(q[1], q[2])
      BY DEF PassedMeansAll
    <2>1. TypeOK /\ TrailInv /\ SentInv
      BY DEF CourseInv
    <2>2. AllPassed
      <3> SUFFICES ASSUME NEW k \in DOMAIN results PROVE results[k].status = "passed"
        BY DEF AllPassed
      <3>1. results[k].status \in {"passed", "failed", "error"}
        <4>1. results \in Seq(StepResult)
          BY <2>1 DEF TypeOK, StepResult
        <4>2. results[k] \in StepResult
          BY <4>1
        <4> QED
          BY <4>2 DEF StepResult
      <3>2. results[k].status # "error" /\ results[k].status # "failed"
        BY DEF Status
      <3> QED
        BY <3>1, <3>2
    <2>3. PICK p, i : q = <<p, i>> /\ q[1] = p /\ q[2] = i /\ p \in Phases /\ i \in 1..Len(StepsOf(p))
      BY PlacesKnown
    <2>4. Passed(p, i)
      <3>1. CASE p = "teardown"
        <4>1. Reported("teardown", i)
          BY <2>1, <2>3, <3>1, StepsTyped DEF TrailInv, Behind
        <4> QED
          BY <2>2, <3>1, <4>1 DEF Reported, Passed, AllPassed
      <3>2. CASE p # "teardown"
        BY <2>1, <2>2, <2>3, <3>2 DEF TrailInv, Phases
      <3> QED
        BY <3>1, <3>2
    <2>5. PICK k \in DOMAIN results :
             results[k].phase = p /\ results[k].at = i /\ results[k].status = "passed"
      BY <2>4 DEF Passed
    <2> QED
      BY <2>1, <2>3, <2>4, <2>5 DEF SentInv
  <1> QED
    BY <1>1, Course, PTL
---------------------------------------------------------------------------
(* The outline *)

Stage == IF phase \in {"teardown", "done"} THEN phase ELSE "steps"
Verdict == IF phase = "done" THEN Status ELSE StatusWithoutCleanup
Cut == lost /\ pc \in {"begin", "check"}

Found(x) == \E k \in DOMAIN results : results[k].status = x
FoundBefore(x) == \E k \in DOMAIN results : results[k].phase # "teardown" /\ results[k].status = x

LEMMA StatusFound ==
    /\ Status = IF Found("error") THEN "error" ELSE IF Found("failed") THEN "failed" ELSE "passed"
    /\ StatusWithoutCleanup =
         IF FoundBefore("error") THEN "error" ELSE IF FoundBefore("failed") THEN "failed" ELSE "passed"
  <1>1. \A x : x \in {results[i].status : i \in DOMAIN results} <=> Found(x)
    BY DEF Found
  <1>2. \A x : x \in {results[i].status : i \in {k \in DOMAIN results : results[k].phase # "teardown"}}
                 <=> FoundBefore(x)
    BY DEF FoundBefore
  <1> QED
    BY <1>1, <1>2 DEF Status, StatusWithoutCleanup

\* The same of the next state.
LEMMA StatusFoundNext ==
    /\ Status' = IF Found("error")' THEN "error" ELSE IF Found("failed")' THEN "failed" ELSE "passed"
    /\ StatusWithoutCleanup' =
         IF FoundBefore("error")' THEN "error" ELSE IF FoundBefore("failed")' THEN "failed" ELSE "passed"
  <1>1. \A x : x \in {results'[i].status : i \in DOMAIN results'} <=> Found(x)'
    BY DEF Found
  <1>2. \A x : x \in {results'[i].status : i \in {k \in DOMAIN results' : results'[k].phase # "teardown"}}
                 <=> FoundBefore(x)'
    BY DEF FoundBefore
  <1> QED
    BY <1>1, <1>2 DEF Status, StatusWithoutCleanup

LEMMA FoundAfter ==
    ASSUME TypeOK, <<phase, at>> \in Places, NEW status \in {"passed", "failed", "error"}, Return(status),
           NEW x
    PROVE  /\ Found(x)' <=> Found(x) \/ x = status
           /\ FoundBefore(x)' <=> FoundBefore(x) \/ (x = status /\ phase # "teardown")
  <1>1. /\ DOMAIN results' = DOMAIN results \cup {Len(results) + 1}
        /\ \A k \in DOMAIN results : results'[k] = results[k]
        /\ results'[Len(results) + 1].phase = phase
        /\ results'[Len(results) + 1].status = status
    BY ResultAdded
  <1>2. Found(x)' <=> Found(x) \/ x = status
    BY <1>1 DEF Found
  <1>3. FoundBefore(x)' <=> FoundBefore(x) \/ (x = status /\ phase # "teardown")
    BY <1>1 DEF FoundBefore
  <1> QED
    BY <1>2, <1>3

\* What a step is to the outline: a result, which only the end of an answer makes
\* a pass, or nothing, after which a noticed loss is noticed still.
LEMMA StepKinds ==
    ASSUME CourseInv, [Next]_xvars
    PROVE  \/ /\ phase \in Phases /\ lost' = lost
              /\ \E status \in {"passed", "failed", "error"} :
                    Return(status) /\ (status = "passed" => pc = "body")
           \/ UNCHANGED <<phase, at, results>> /\ (Cut => Cut')
  <1>1. TypeOK /\ TriesInv
    BY DEF CourseInv
  <1>2. pc # "begin" => phase \in Phases
    BY <1>1, PlacesKnown DEF TypeOK, TriesInv, Phases
  <1>3. CASE Begin
    BY <1>3 DEF Begin, Stay, Cut
  <1>4. CASE Check
    BY <1>2, <1>4 DEF Check, Sends, Stay, Cut
  <1>5. CASE Connect
    BY <1>2, <1>5 DEF Connect, Stay, Cut
  <1>6. CASE Wake
    BY <1>6 DEF Wake, Stay, Cut
  <1>7. CASE Write
    BY <1>2, <1>7 DEF Write, Stay, Cut
  <1>8. CASE Answer \/ ReadOn
    BY <1>2, <1>8 DEF Answer, ReadOn, QuietRead, Stay, Cut
  <1>9. CASE Chunk
    BY <1>2, <1>9 DEF Chunk, Stay, Cut
  <1>10. CASE Judge
    BY <1>2, <1>10 DEF Judge
  <1>11. CASE Tick \/ LoseLease \/ UNCHANGED xvars
    BY <1>11 DEF Tick, LoseLease, xvars, Cut
  <1> QED
    BY <1>3, <1>4, <1>5, <1>6, <1>7, <1>8, <1>9, <1>10, <1>11 DEF Next, Thread

\* A result is a verdict of the outline, or is none of its business.
LEMMA ResultOutlined ==
    ASSUME CourseInv, phase \in Phases, lost' = lost,
           NEW status \in {"passed", "failed", "error"}, Return(status), status = "passed" => pc = "body"
    PROVE  Outline!Next \/ UNCHANGED Outline!ovars
  <1>1. TypeOK /\ <<phase, at>> \in Places
    BY DEF CourseInv, TypeOK, Phases
  <1>2. /\ \A x : Found(x)' <=> Found(x) \/ x = status
        /\ \A x : FoundBefore(x)' <=> FoundBefore(x) \/ (x = status /\ phase # "teardown")
    BY <1>1, FoundAfter
  <1>3. pc' = "begin" /\ Cut' \in {Cut, TRUE}
    BY DEF Return, NextStep, Cut
  <1>4. Cut => status # "passed"
    BY DEF Cut
  <1>5. CASE phase' \in {"setup", "test"}
    <2>1. phase \in {"setup", "test"} /\ status = "passed"
      BY <1>1, <1>5, Moves DEF Phases
    <2>2. StatusWithoutCleanup' = StatusWithoutCleanup
      BY <1>2, <2>1, StatusFound, StatusFoundNext
    <2>3. Verdict' = Verdict /\ Stage' = Stage
      BY <1>5, <2>1, <2>2 DEF Verdict, Stage
    <2> QED
      BY <1>3, <2>3 DEF Outline!Next, Outline!Notice, Outline!ovars, Verdict, Stage, Cut
  <1>6. CASE phase \in {"setup", "test"} /\ phase' \in {"teardown", "done"}
    <2>1. phase' = IF Teardown # <<>> THEN "teardown" ELSE "done"
      BY <1>1, <1>6, Moves
    <2>2. /\ Status' \in {"passed", "failed", "error"} /\ StatusWithoutCleanup' \in {"passed", "failed", "error"}
          /\ Cut => Status' # "passed" /\ StatusWithoutCleanup' # "passed"
      BY <1>2, <1>4, <1>6, StatusFoundNext
    <2>3. Stage = "steps" /\ Stage' = phase' /\ Verdict' \in {"passed", "failed", "error"} /\ (Cut => Verdict' # "passed")
      BY <1>6, <2>2 DEF Stage, Verdict
    <2>4. Outline!RunSteps
      BY <1>3, <2>1, <2>3 DEF Outline!RunSteps, Outline!Outcomes, Outline!MayNotice, Verdict, Stage, Cut
    <2> QED
      BY <2>4 DEF Outline!Next
  <1>7. CASE phase = "teardown" /\ phase' = "teardown"
    <2>1. StatusWithoutCleanup' = StatusWithoutCleanup
      BY <1>2, <1>7, StatusFound, StatusFoundNext
    <2>2. Verdict' = Verdict /\ Stage' = Stage
      BY <1>7, <2>1 DEF Verdict, Stage
    <2> QED
      BY <1>3, <2>2 DEF Outline!Next, Outline!Notice, Outline!ovars, Verdict, Stage, Cut
  <1>8. CASE phase = "teardown" /\ phase' = "done"
    <2>1. \A x : FoundBefore(x) => Found(x)'
      BY <1>2 DEF Found, FoundBefore
    <2>2. /\ Status' \in {"passed", "failed", "error"} /\ (Cut => Status' # "passed")
          /\ StatusWithoutCleanup = "error" => Status' = "error"
          /\ StatusWithoutCleanup = "failed" => Status' \in {"failed", "error"}
          /\ StatusWithoutCleanup \in {"passed", "failed", "error"}
      BY <1>2, <1>4, <2>1, StatusFound, StatusFoundNext
    <2>3. Stage = "teardown" /\ Stage' = "done" /\ Verdict = StatusWithoutCleanup /\ Verdict' = Status'
      BY <1>8 DEF Stage, Verdict
    <2>4. Status' \in Outline!Outcomes /\ Status' = Outline!Worse(Verdict, Status')
      BY <2>2, <2>3 DEF Outline!Outcomes, Outline!Worse, Cut
    <2>5. Outline!CleanUp
      BY <1>3, <2>3, <2>4 DEF Outline!CleanUp, Outline!MayNotice, Verdict, Stage, Cut
    <2> QED
      BY <2>5 DEF Outline!Next
  <1>9. phase' \in {"setup", "test", "teardown", "done"} /\ (phase = "teardown" => phase' \in {"teardown", "done"})
    BY <1>1, Moves DEF Phases
  <1> QED
    BY <1>5, <1>6, <1>7, <1>8, <1>9 DEF Phases

LEMMA NextOutlined == CourseInv /\ [Next]_xvars => [Outline!Next]_Outline!ovars
  <1> SUFFICES ASSUME CourseInv, [Next]_xvars PROVE Outline!Next \/ UNCHANGED Outline!ovars
    OBVIOUS
  <1>1. CASE /\ phase \in Phases /\ lost' = lost
             /\ \E status \in {"passed", "failed", "error"} :
                   Return(status) /\ (status = "passed" => pc = "body")
    BY <1>1, ResultOutlined
  <1>2. CASE UNCHANGED <<phase, at, results>> /\ (Cut => Cut')
    <2>1. Verdict' = Verdict /\ Stage' = Stage
      BY <1>2 DEF Verdict, Stage, Status, StatusWithoutCleanup
    <2>2. Cut' = TRUE \/ Cut' = Cut
      BY <1>2 DEF Cut
    <2> QED
      BY <2>1, <2>2 DEF Outline!Next, Outline!Notice, Outline!ovars, Verdict, Stage, Cut
  <1> QED
    BY <1>1, <1>2, StepKinds

LEMMA InitOutlined == Init => Outline!Init
  <1> SUFFICES ASSUME Init PROVE Outline!Init
    OBVIOUS
  <1>1. phase \in {"setup", "test"} /\ results = <<>> /\ DOMAIN results = {}
    BY EntryKnown DEF Init
  <1>2. StatusWithoutCleanup = "passed"
    BY <1>1 DEF StatusWithoutCleanup
  <1>3. (lost /\ pc \in {"begin", "check"}) \in BOOLEAN
    OBVIOUS
  <1> QED
    BY <1>1, <1>2, <1>3 DEF Outline!Init

\* A case is what a slot of the worker takes it for (RunSteps and Teardown of
\* DistributedRun): one verdict of setup and test, a teardown that can only make it
\* worse, and nothing passes after a loss that was noticed (CaseExecutor.run).
THEOREM OutlineImplemented == Spec => ImplementsOutline
  <1>1. Init /\ [][Next]_xvars /\ []CourseInv => Outline!Init /\ [][Outline!Next]_Outline!ovars
    BY InitOutlined, NextOutlined, PTL
  <1> QED
    BY <1>1, Course, PTL DEF Spec, ImplementsOutline, Outline!Spec
===============================================================================
