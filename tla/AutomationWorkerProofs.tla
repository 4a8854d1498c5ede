----------------------- MODULE AutomationWorkerProofs -----------------------
(***************************************************************************)
(* Theorems about AutomationWorker, for every set of events, workers and   *)
(* actions, every plan, every bound and every set of faults.               *)
(***************************************************************************)
EXTENDS AutomationWorker, IdempotencyTableProofs, TLAPS

-----------------------------------------------------------------------------
(* The action at hand of a run that has one.                               *)

LEMMA KeysOfActions ==
  ASSUME NEW e \in Events, NEW a \in Actions
  PROVE  buildIdempotencyKey(e, a) \in Keys
  BY DEF Keys

LEMMA ActionAtHand ==
  ASSUME RunsTyped, NEW w \in Workers, pc[w] # "idle", todo[w] # <<>>
  PROVE  /\ on[w] \in Events
         /\ Head(todo[w]) \in Actions
         /\ Tail(todo[w]) \in Seq(Actions)
         /\ KeyAtHand(w) \in Keys
<1>1. on[w] \in Events
  BY DEF RunsTyped
<1>2. todo[w] \in Seq(Actions)
  BY DEF RunsTyped
<1>3. Head(todo[w]) \in Actions /\ Tail(todo[w]) \in Seq(Actions)
  BY <1>2
<1> QED
  BY <1>1, <1>3, KeysOfActions DEF KeyAtHand

-----------------------------------------------------------------------------
(* How a run moves on keeps its variables typed.                           *)

LEMMA GoToTyped ==
  ASSUME RunsTyped, NEW w \in Workers, pc[w] # "idle",
         NEW p \in PC \ {"idle"}, p \in Holding => todo[w] # <<>>,
         GoTo(w, p)
  PROVE  RunsTyped'
  BY DEF RunsTyped, GoTo, PC, Holding

LEMMA ReleaseTyped ==
  ASSUME RunsTyped, NEW w \in Workers, Release(w)
  PROVE  RunsTyped'
<1>1. <<>> \in Seq(Actions)
  OBVIOUS
<1> QED
  BY <1>1, NullsAssumption, BoundsAssumption DEF RunsTyped, Release, PC, Holding

LEMMA NextActionTyped ==
  ASSUME RunsTyped, NEW w \in Workers, pc[w] # "idle", todo[w] # <<>>, NextAction(w)
  PROVE  RunsTyped'
  BY ActionAtHand DEF RunsTyped, NextAction, PC, Holding

LEMMA ProceedTyped ==
  ASSUME RunsTyped, NEW w \in Workers, pc[w] \in DOMAIN OnThrow,
         NEW p \in PC \ {"idle"}, p \in Holding => todo[w] # <<>>,
         Proceed(w, p)
  PROVE  RunsTyped'
<1>1. pc[w] # "idle"
  BY DEF OnThrow, InTry
<1>2. /\ OnThrow[pc[w]] \in PC \ {"idle"}
      /\ OnThrow[pc[w]] \in Holding => todo[w] # <<>>
  BY DEF OnThrow, InTry, PC, Holding, RunsTyped
<1>3. CASE GoTo(w, p)
  BY <1>1, <1>3, GoToTyped
<1>4. CASE GoTo(w, OnThrow[pc[w]])
  BY <1>1, <1>2, <1>4, GoToTyped
<1> QED
  BY <1>3, <1>4 DEF Proceed

-----------------------------------------------------------------------------
(* Type correctness needs to know of a job that it is owned while it is    *)
(* active and has an attempt left while it is not settled.                 *)
JobsSound ==
  \A e \in Events :
    /\ job[e].state = "active" <=> job[e].owner # NoWorker
    /\ job[e].state \in {"waiting", "active"} => job[e].made < MaxAttempts

TypeInv == TypeOK /\ JobsSound

LEMMA TypeInvInit == Init => TypeInv
<1> SUFFICES ASSUME Init
             PROVE  TypeInv
  OBVIOUS
<1> USE NullsAssumption, BoundsAssumption DEF Init
<1>1. <<>> \in Seq(Actions)
  OBVIOUS
<1>2. RunsTyped
  BY <1>1 DEF RunsTyped, PC, Holding
<1>3. job \in [Events -> Job]
  BY DEF Job, JobState
<1>4. jobLog \in [Events -> [status : LogStatus, attempts : 0 .. MaxAttempts]]
  BY DEF LogStatus
<1>5. row \in [Keys -> IdempotencyRow]
  BY DEF NoRow, IdempotencyRow, Status
<1>6. JobsSound
  BY DEF JobsSound
<1> QED
  BY <1>2, <1>3, <1>4, <1>5, <1>6 DEF TypeInv, TypeOK

LEMMA JobFields ==
  ASSUME NEW j \in Job
  PROVE  /\ j.state \in JobState /\ j.owner \in Workers \cup {NoWorker}
         /\ j.made \in Nat /\ j.made \in 0 .. MaxAttempts
         /\ j.made < MaxAttempts => j.made + 1 \in 0 .. MaxAttempts
         /\ j.stalled \in Nat /\ j.stalled \in 0 .. MaxStalled
         /\ j.stalled < MaxStalled => j.stalled + 1 \in 0 .. MaxStalled
         /\ j.adds \in Nat /\ j.adds \in 0 .. MaxAdds
         /\ j.adds < MaxAdds => j.adds + 1 \in 0 .. MaxAdds
<1>1. /\ j.state \in JobState /\ j.owner \in Workers \cup {NoWorker}
      /\ j.made \in 0 .. MaxAttempts /\ j.stalled \in 0 .. MaxStalled
      /\ j.adds \in 0 .. MaxAdds
  BY DEF Job
<1> QED
  BY <1>1, BoundsAssumption

(* A report to BullMQ that counts comes from the owner of an active job.   *)
LEMMA ReportTyped ==
  ASSUME TypeInv, NEW w \in Workers, pc[w] # "idle",
         NEW s \in {"waiting", "completed", "failed"},
         s = "waiting" => job[on[w]].made + 1 < MaxAttempts,
         Report(w, Settled(on[w], s))
  PROVE  TypeInv'
<1> USE DEF TypeInv
<1>1. on[w] \in Events
  BY DEF TypeOK, RunsTyped
<1>2. RunsTyped'
  BY ReleaseTyped DEF Report, TypeOK
<1>3. job \in [Events -> Job]
  BY DEF TypeOK
<1>4. CASE job[on[w]].owner # w
  <2>1. job' = job
    BY <1>1, <1>3, <1>4 DEF Report
  <2> QED
    BY <1>2, <2>1 DEF Report, TypeOK, JobsSound, dbVars, worldVars
<1>5. CASE job[on[w]].owner = w
  <2>1. job' = [job EXCEPT ![on[w]] = Settled(on[w], s)]
    BY <1>1, <1>3, <1>5 DEF Report
  <2>2. job[on[w]].made < MaxAttempts
    BY <1>1, <1>3, <1>5, NullsAssumption DEF JobsSound
  <2>3. /\ Settled(on[w], s) \in Job
        /\ Settled(on[w], s).state = s
        /\ Settled(on[w], s).owner = NoWorker
        /\ Settled(on[w], s).made = job[on[w]].made + 1
    <3>1. job[on[w]] \in Job
      BY <1>1, <1>3
    <3>2. s \in JobState
      BY DEF JobState
    <3> QED
      BY <2>2, <3>1, <3>2, JobFields DEF Settled, Job
  <2>4. job' \in [Events -> Job]
    BY <1>1, <1>3, <2>1, <2>3
  <2>5. JobsSound'
    BY <1>1, <1>3, <2>1, <2>3 DEF JobsSound
  <2> QED
    BY <1>2, <2>4, <2>5 DEF Report, TypeOK, dbVars, worldVars
<1> QED
  BY <1>4, <1>5

(* Steps of the queue.                                                     *)
LEMMA QueueStepTyped ==
  ASSUME TypeInv, NEW e \in Events, Enqueue(e) \/ Evict(e) \/ Stall(e)
  PROVE  TypeInv'
<1> USE BoundsAssumption, NullsAssumption DEF TypeInv
<1>1. job[e] \in Job
  BY DEF TypeOK
<1>2. PICK j \in Job :
        /\ job' = [job EXCEPT ![e] = j]
        /\ j.state = "active" <=> j.owner # NoWorker
        /\ j.state \in {"waiting", "active"} => j.made < MaxAttempts
  <2>1. CASE Enqueue(e)
    <3> DEFINE new == [state |-> "waiting", owner |-> NoWorker, made |-> 0,
                       stalled |-> 0, adds |-> job[e].adds + 1]
    <3>1. job[e].adds < MaxAdds
      BY <2>1 DEF Enqueue
    <3>2. job[e].adds + 1 \in 0 .. MaxAdds
      BY <1>1, <3>1, JobFields
    <3>3. new \in Job
      BY <3>2 DEF Job, JobState
    <3>4. new.state = "waiting" /\ new.owner = NoWorker /\ new.made = 0
      OBVIOUS
    <3>5. job' = [job EXCEPT ![e] = new]
      BY <2>1 DEF Enqueue
    <3>6. 0 < MaxAttempts
      OBVIOUS
    <3> HIDE DEF new, TypeInv
    <3>7. WITNESS new \in Job
    <3> QED
      BY <3>4, <3>5, <3>6
  <2>2. CASE Evict(e)
    <3>1. [job[e] EXCEPT !.state = "absent"] \in Job
      BY <1>1 DEF Job, JobState
    <3> QED
      BY <1>1, <2>2, <3>1 DEF Evict, Job, JobsSound, TypeOK
  <2>3. CASE Stall(e)
    <3> DEFINE again == [job[e] EXCEPT !.state = "waiting", !.owner = NoWorker,
                                       !.stalled = job[e].stalled + 1]
               over == [job[e] EXCEPT !.state = "failed", !.owner = NoWorker]
    <3>1. over \in Job
      BY <1>1 DEF Job, JobState
    <3>2. job[e].stalled < MaxStalled => again \in Job
      BY <1>1, JobFields DEF Job, JobState
    <3>3. job[e].made < MaxAttempts
      BY <2>3 DEF Stall, JobsSound
    <3>4. /\ again.state = "waiting" /\ again.owner = NoWorker /\ again.made = job[e].made
          /\ over.state = "failed" /\ over.owner = NoWorker
      BY <1>1 DEF Job
    <3>5. job' = [job EXCEPT ![e] = IF job[e].stalled < MaxStalled THEN again ELSE over]
      BY <2>3 DEF Stall, TypeOK
    <3> HIDE DEF again, over
    <3> QED
      BY <3>1, <3>2, <3>3, <3>4, <3>5
  <2> QED
    BY <2>1, <2>2, <2>3
<1>3. job' \in [Events -> Job] /\ JobsSound'
  BY <1>2 DEF TypeOK, JobsSound
<1> QED
  BY <1>3 DEF TypeOK, RunsTyped, Enqueue, Evict, Stall, runVars, dbVars, worldVars

LEMMA TakeTyped ==
  ASSUME TypeInv, NEW w \in Workers, NEW e \in Events, Take(w, e)
  PROVE  TypeInv'
<1> USE BoundsAssumption, NullsAssumption DEF TypeInv
<1>1. job[e] \in Job /\ job[e].made < MaxAttempts
  BY DEF TypeOK, JobsSound, Take
<1>2. job' = [job EXCEPT ![e] = [job[e] EXCEPT !.state = "active", !.owner = w]]
  BY DEF Take, TypeOK, Job
<1>3. [job[e] EXCEPT !.state = "active", !.owner = w] \in Job
  BY <1>1 DEF Job, JobState
<1>4. job' \in [Events -> Job] /\ JobsSound'
  BY <1>1, <1>2, <1>3 DEF TypeOK, JobsSound, Job
<1>5. RunsTyped'
  BY <1>1 DEF TypeOK, RunsTyped, Take, PC, Holding, Job
<1> QED
  BY <1>4, <1>5 DEF TypeOK, Take, dbVars, worldVars

(* Steps of process() and executeRule().                                   *)
LEMMA RunStepTyped ==
  ASSUME TypeInv, NEW w \in Workers, RunStep(w)
  PROVE  TypeInv'
<1> USE DEF TypeInv
<1>0. /\ RunsTyped
      /\ pc[w] # "idle" => on[w] \in Events /\ made[w] < MaxAttempts
      /\ made[w] \in 0 .. MaxAttempts
  BY DEF TypeOK, RunsTyped
<1>1. CASE MarkInvalidPayload(w)
  <2>1. RunsTyped'
    BY <1>0, <1>1, GoToTyped DEF MarkInvalidPayload, PC, Holding
  <2> QED
    BY <1>0, <1>1, <2>1, BoundsAssumption
    DEF MarkInvalidPayload, WriteLog, TypeOK, JobsSound, LogStatus, worldVars
<1>2. CASE MarkProcessing(w)
  <2>1. RunsTyped'
    BY <1>0, <1>2, ProceedTyped DEF MarkProcessing, PC, Holding, OnThrow, InTry
  <2> QED
    BY <1>0, <1>2, <2>1
    DEF MarkProcessing, WriteLog, TypeOK, JobsSound, LogStatus, worldVars
<1>3. CASE FindAudit(w)
  <2>1. RunsTyped'
    BY <1>0, <1>3, GoToTyped DEF FindAudit, PC, Holding
  <2> QED
    BY <1>3, <2>1 DEF FindAudit, TypeOK, JobsSound, dbVars, worldVars
<1>4. CASE CreateAudit(w)
  <2>1. RunsTyped'
    BY <1>0, <1>4, ProceedTyped DEF CreateAudit, PC, Holding, OnThrow, InTry
  <2> QED
    BY <1>0, <1>4, <2>1 DEF CreateAudit, TypeOK, JobsSound, worldVars
<1>5. CASE FindRules(w)
  <2>1. rules[on[w]] \in Seq(Actions)
    BY <1>0, <1>5, PlansAssumption DEF FindRules, TypeOK
  <2>2. RunsTyped'
    BY <1>0, <1>5, <2>1 DEF FindRules, RunsTyped, PC, Holding
  <2> QED
    BY <1>5, <2>2 DEF FindRules, TypeOK, JobsSound, dbVars, worldVars
<1>6. CASE Acquire(w)
  <2>1. RunsTyped'
    BY <1>0, <1>6, ProceedTyped DEF Acquire, PC, Holding, OnThrow, InTry
  <2>2. KeyAtHand(w) \in Keys
    BY <1>0, <1>6, ActionAtHand DEF Acquire
  <2>3. Acquired(row[KeyAtHand(w)]) \in IdempotencyRow
    BY <2>2, RowUpdates DEF TypeOK
  <2>4. row' \in [Keys -> IdempotencyRow]
    BY <1>6, <2>3 DEF Acquire, TypeOK
  <2> QED
    BY <1>6, <2>1, <2>4 DEF Acquire, TypeOK, JobsSound, worldVars
<1>7. CASE Skip(w)
  <2>1. RunsTyped'
    BY <1>0, <1>7, NextActionTyped DEF Skip
  <2> QED
    BY <1>7, <2>1 DEF Skip, TypeOK, JobsSound, dbVars, worldVars
<1>8. CASE Perform(w) \/ PerformThrows(w)
  <2>1. pc[w] = "perform" /\ todo[w] # <<>>
    BY <1>0, <1>8 DEF Perform, PerformThrows, RunsTyped, Holding
  <2>2. RunsTyped'
    BY <1>0, <1>8, <2>1, GoToTyped DEF Perform, PerformThrows, PC, Holding
  <2>3. Head(todo[w]) \in Actions /\ on[w] \in Events /\ KeyAtHand(w) \in Keys
    BY <1>0, <2>1, ActionAtHand
  <2>4. effects' \in [Keys -> Nat] /\ sent' \in [Events -> SUBSET Actions]
    <3>1. effects \in [Keys -> Nat] /\ sent \in [Events -> SUBSET Actions]
      BY DEF TypeOK
    <3>2. TakesPlace(w) \/ UNCHANGED <<effects, sent>>
      BY <1>8 DEF Perform, PerformThrows, worldVars
    <3>3. CASE TakesPlace(w)
      <4> DEFINE k == KeyAtHand(w)
      <4>1. k \in Keys
        BY <2>3
      <4>2. effects' = [effects EXCEPT ![k] = effects[k] + 1]
        BY <3>3 DEF TakesPlace
      <4>3. sent' = [sent EXCEPT ![on[w]] = sent[on[w]] \cup {Head(todo[w])}]
        BY <3>3 DEF TakesPlace
      <4> HIDE DEF k
      <4>4. effects' \in [Keys -> Nat]
        BY <3>1, <4>1, <4>2
      <4>5. sent' \in [Events -> SUBSET Actions]
        BY <2>3, <3>1, <4>3
      <4> QED
        BY <4>4, <4>5
    <3> QED
      BY <3>1, <3>2, <3>3
  <2> QED
    BY <1>8, <2>2, <2>4 DEF Perform, PerformThrows, TypeOK, JobsSound, dbVars
<1>9. CASE Complete(w) \/ Fail(w)
  <2>1. pc[w] \in {"complete", "fail"} /\ todo[w] # <<>>
    BY <1>0, <1>9 DEF Complete, Fail, RunsTyped, Holding
  <2>2. RunsTyped'
    BY <1>0, <1>9, <2>1, GoToTyped, NextActionTyped
    DEF Complete, Fail, PC, Holding, OnThrow, InTry
  <2>3. KeyAtHand(w) \in Keys
    BY <1>0, <2>1, ActionAtHand
  <2>4. /\ Completed(row[KeyAtHand(w)]) \in IdempotencyRow
        /\ Failed(row[KeyAtHand(w)]) \in IdempotencyRow
    BY <2>3, RowUpdates DEF TypeOK
  <2>5. row' \in [Keys -> IdempotencyRow]
    BY <1>9, <2>4 DEF Complete, Fail, TypeOK
  <2> QED
    BY <1>9, <2>2, <2>5 DEF Complete, Fail, TypeOK, JobsSound, worldVars
<1>10. CASE MarkCompleted(w)
  <2>1. RunsTyped'
    BY <1>0, <1>10, ProceedTyped DEF MarkCompleted, PC, Holding, OnThrow, InTry
  <2> QED
    BY <1>0, <1>10, <2>1
    DEF MarkCompleted, WriteLog, TypeOK, JobsSound, LogStatus, worldVars
<1>11. CASE MarkFailed(w)
  <2>1. RunsTyped'
    BY <1>0, <1>11, ProceedTyped DEF MarkFailed, PC, Holding, OnThrow, InTry
  <2> QED
    BY <1>0, <1>11, <2>1, BoundsAssumption
    DEF MarkFailed, WriteLog, TypeOK, JobsSound, LogStatus, worldVars
<1>12. CASE MoveToDlq(w)
  <2>1. RunsTyped'
    BY <1>0, <1>12, GoToTyped DEF MoveToDlq, PC, Holding
  <2> QED
    BY <1>0, <1>12, <2>1 DEF MoveToDlq, TypeOK, JobsSound, dbVars, worldVars
<1>13. CASE Return(w)
  BY <1>13, ReportTyped DEF Return
<1>14. CASE Throw(w)
  <2>1. CASE job[on[w]].made + 1 < MaxAttempts
    BY <1>14, <2>1, ReportTyped DEF Throw
  <2>2. CASE ~(job[on[w]].made + 1 < MaxAttempts)
    BY <1>14, <2>2, ReportTyped DEF Throw
  <2> QED
    BY <2>1, <2>2
<1>15. CASE Discard(w)
  BY <1>15, ReportTyped DEF Discard
<1>16. CASE StepThrows(w)
  <2>1. /\ pc[w] # "idle" /\ OnThrow[pc[w]] \in PC \ {"idle"}
        /\ OnThrow[pc[w]] \in Holding => todo[w] # <<>>
    BY <1>0, <1>16 DEF StepThrows, OnThrow, InTry, PC, Holding, RunsTyped
  <2>2. RunsTyped'
    BY <1>0, <1>16, <2>1, GoToTyped DEF StepThrows
  <2> QED
    BY <1>16, <2>2 DEF StepThrows, TypeOK, JobsSound, dbVars, worldVars
<1> QED
  BY <1>1, <1>2, <1>3, <1>4, <1>5, <1>6, <1>7, <1>8, <1>9, <1>10, <1>11, <1>12,
     <1>13, <1>14, <1>15, <1>16 DEF RunStep

LEMMA TypeInvStep == TypeInv /\ [Next]_vars => TypeInv'
<1> SUFFICES ASSUME TypeInv, [Next]_vars
             PROVE  TypeInv'
  OBVIOUS
<1> USE DEF TypeInv
<1>1. ASSUME NEW w \in Workers, Crash(w)
      PROVE  TypeInv'
  <2>1. RunsTyped'
    BY <1>1, ReleaseTyped DEF Crash, TypeOK
  <2> QED
    BY <1>1, <2>1 DEF Crash, TypeOK, JobsSound, dbVars, worldVars
<1>2. ASSUME NEW e \in Events, EditRules(e)
      PROVE  TypeInv'
  BY <1>2 DEF EditRules, TypeOK, RunsTyped, JobsSound, runVars, dbVars, worldVars
<1>3. ASSUME NEW k \in Keys, Expire(k)
      PROVE  TypeInv'
  <2>1. Outlived(row[k]) \in IdempotencyRow
    BY <1>3, RowUpdates DEF TypeOK
  <2>2. row' \in [Keys -> IdempotencyRow]
    BY <1>3, <2>1 DEF Expire, TypeOK
  <2> QED
    BY <1>3, <2>2 DEF Expire, TypeOK, RunsTyped, JobsSound, runVars, worldVars
<1>4. CASE UNCHANGED vars
  BY <1>4 DEF vars, TypeOK, RunsTyped, JobsSound, runVars, dbVars, worldVars
<1> QED
  BY <1>1, <1>2, <1>3, <1>4, RunStepTyped, QueueStepTyped, TakeTyped DEF Next

(* Type correctness: an attempt is counted exactly once (no job is handed  *)
(* to a run, and no log row is written, beyond MaxAttempts), stalls and    *)
(* adds stay within their bounds, and a run inside the try block of        *)
(* executeRule has an action at hand.                                      *)
THEOREM TypeCorrect == Spec => []TypeOK
<1>1. TypeInv => TypeOK
  BY DEF TypeInv
<1> QED
  BY <1>1, TypeInvInit, TypeInvStep, PTL DEF Spec

-----------------------------------------------------------------------------
(* What steps have in common.                                              *)

LEMMA NextKeeps ==
  ASSUME [Next]_vars
  PROVE  faults' = faults /\ valid' = valid
<1>1. ASSUME NEW w \in Workers, RunStep(w)
      PROVE  faults' = faults /\ valid' = valid
  BY <1>1 DEF RunStep, MarkInvalidPayload, MarkProcessing, FindAudit, CreateAudit,
     FindRules, Acquire, Skip, Perform, PerformThrows, Complete, Fail, MarkCompleted,
     MarkFailed, MoveToDlq, Return, Throw, Discard, StepThrows, Report
<1>2. ASSUME NEW w \in Workers, Crash(w) \/ \E e \in Events : Take(w, e)
      PROVE  faults' = faults /\ valid' = valid
  BY <1>2 DEF Crash, Take
<1>3. ASSUME NEW e \in Events, Enqueue(e) \/ Evict(e) \/ Stall(e) \/ EditRules(e)
      PROVE  faults' = faults /\ valid' = valid
  BY <1>3 DEF Enqueue, Evict, Stall, EditRules
<1>4. ASSUME NEW k \in Keys, Expire(k)
      PROVE  faults' = faults /\ valid' = valid
  BY <1>4 DEF Expire
<1> QED
  BY <1>1, <1>2, <1>3, <1>4 DEF Next, vars

(* A step inside process(): the run stays with its job, BullMQ hears       *)
(* nothing of it.                                                          *)
InsideStep(w) ==
  \/ MarkInvalidPayload(w) \/ MarkProcessing(w) \/ FindAudit(w) \/ CreateAudit(w)
  \/ FindRules(w) \/ Acquire(w) \/ Skip(w) \/ Perform(w) \/ PerformThrows(w)
  \/ Complete(w) \/ Fail(w) \/ MarkCompleted(w) \/ MarkFailed(w) \/ MoveToDlq(w)
  \/ StepThrows(w)

LEMMA InsideStepStays ==
  ASSUME NEW w \in Workers, InsideStep(w)
  PROVE  /\ job' = job /\ on' = on /\ made' = made
         /\ pc[w] # "idle"
         /\ \E p \in PC \ {"idle"} : pc' = [pc EXCEPT ![w] = p]
<1> USE DEF GoTo, NextAction, PC, OnThrow, InTry
<1>1. CASE MarkInvalidPayload(w) \/ MarkProcessing(w) \/ FindAudit(w) \/ CreateAudit(w)
  BY <1>1 DEF MarkInvalidPayload, MarkProcessing, FindAudit, CreateAudit, Proceed
<1>2. CASE FindRules(w) \/ Acquire(w) \/ Skip(w)
  BY <1>2 DEF FindRules, Acquire, Skip, Proceed
<1>3. CASE Perform(w) \/ PerformThrows(w) \/ Complete(w) \/ Fail(w)
  BY <1>3 DEF Perform, PerformThrows, Complete, Fail
<1>4. CASE MarkCompleted(w) \/ MarkFailed(w) \/ MoveToDlq(w)
  BY <1>4 DEF MarkCompleted, MarkFailed, MoveToDlq, Proceed
<1>5. CASE StepThrows(w)
  BY <1>5 DEF StepThrows
<1> QED
  BY <1>1, <1>2, <1>3, <1>4, <1>5 DEF InsideStep

(* The end of process(): only BullMQ hears of it, and only if the run      *)
(* still owns the job.                                                     *)
ReportStep(w) == Return(w) \/ Throw(w) \/ Discard(w)

LEMMA ReportStepEnds ==
  ASSUME TypeOK, NEW w \in Workers, ReportStep(w)
  PROVE  /\ on[w] \in Events /\ Release(w)
         /\ UNCHANGED <<jobLog, audit, row, dlq, effects, sent>>
         /\ \/ job' = job /\ job[on[w]].owner # w
            \/ /\ job[on[w]].owner = w
               /\ \E s \in {"waiting", "completed", "failed"} :
                    /\ job' = [job EXCEPT ![on[w]] = Settled(on[w], s)]
                    /\ s = "completed" <=> pc[w] = "return"
                    /\ s = "waiting" <=>
                         pc[w] = "throw" /\ job[on[w]].made + 1 < MaxAttempts
<1>1. on[w] \in Events
  BY DEF ReportStep, Return, Throw, Discard, TypeOK, RunsTyped
<1>2. job \in [Events -> Job]
  BY DEF TypeOK
<1>3. PICK s \in {"waiting", "completed", "failed"} :
        /\ Report(w, Settled(on[w], s))
        /\ s = "completed" <=> pc[w] = "return"
        /\ s = "waiting" <=> pc[w] = "throw" /\ job[on[w]].made + 1 < MaxAttempts
  BY DEF ReportStep, Return, Throw, Discard
<1> QED
  BY <1>1, <1>2, <1>3 DEF Report, dbVars, worldVars

LEMMA SettledFields ==
  ASSUME NEW e \in Events, job[e] \in Job, NEW s
  PROVE  /\ Settled(e, s).state = s /\ Settled(e, s).owner = NoWorker
         /\ Settled(e, s).made = job[e].made + 1 /\ Settled(e, s).adds = job[e].adds
  BY DEF Settled, Job

LEMMA RunStepKinds ==
  ASSUME NEW w \in Workers
  PROVE  RunStep(w) <=> InsideStep(w) \/ ReportStep(w)
  BY DEF RunStep, InsideStep, ReportStep

(* What the queue does by itself changes jobs only.                        *)
LEMMA StallFields ==
  ASSUME TypeOK, NEW e \in Events, Stall(e)
  PROVE  /\ job'[e].state \in {"waiting", "failed"} /\ job'[e].owner = NoWorker
         /\ job'[e].made = job[e].made /\ job'[e].adds = job[e].adds
         /\ job'[e].state = "failed" => job'[e].stalled = MaxStalled
         /\ \A f \in Events \ {e} : job'[f] = job[f]
         /\ job[e].state = "active"
         /\ Abandoned(e) \/ "zombie" \in faults
<1>1. job \in [Events -> Job] /\ job[e] \in Job
  BY DEF TypeOK
<1>2. ~(job[e].stalled < MaxStalled) => job[e].stalled = MaxStalled
  BY <1>1, JobFields, BoundsAssumption
<1> QED
  BY <1>1, <1>2 DEF Stall, Job

-----------------------------------------------------------------------------
(* While no live run loses its lock, a run owns the job it processes: a    *)
(* job has one run at a time.                                              *)
RunsOwnJobs ==
  Without({"zombie"}) =>
    \A w \in Workers :
      pc[w] # "idle" => job[on[w]].state = "active" /\ job[on[w]].owner = w

LEMMA RunsOwnJobsInit == Init => RunsOwnJobs
  BY DEF Init, RunsOwnJobs

LEMMA RunsOwnJobsStep == TypeInv /\ RunsOwnJobs /\ [Next]_vars => RunsOwnJobs'
<1> SUFFICES ASSUME TypeInv, RunsOwnJobs, [Next]_vars, "zombie" \notin faults,
                    NEW v \in Workers, pc'[v] # "idle"
             PROVE  job'[on'[v]].state = "active" /\ job'[on'[v]].owner = v
  BY NextKeeps DEF RunsOwnJobs, Without
<1>0. /\ TypeOK
      /\ \A w \in Workers :
           pc[w] # "idle" => /\ on[w] \in Events
                             /\ job[on[w]].state = "active" /\ job[on[w]].owner = w
  BY DEF TypeInv, TypeOK, RunsTyped, RunsOwnJobs, Without
<1>1. ASSUME NEW w \in Workers, InsideStep(w)
      PROVE  job'[on'[v]].state = "active" /\ job'[on'[v]].owner = v
  BY <1>0, <1>1, InsideStepStays DEF TypeOK, RunsTyped
<1>2. ASSUME NEW w \in Workers, ReportStep(w)
      PROVE  job'[on'[v]].state = "active" /\ job'[on'[v]].owner = v
  <2>1. v # w /\ pc[v] # "idle" /\ on'[v] = on[v]
    BY <1>0, <1>2, ReportStepEnds DEF Release, TypeOK, RunsTyped
  <2>2. on[v] # on[w] \/ job' = job
    BY <1>0, <1>2, <2>1, ReportStepEnds
  <2> QED
    BY <1>0, <1>2, <2>1, <2>2, ReportStepEnds DEF TypeOK
<1>3. ASSUME NEW w \in Workers, Crash(w)
      PROVE  job'[on'[v]].state = "active" /\ job'[on'[v]].owner = v
  BY <1>0, <1>3 DEF Crash, Release, TypeOK, RunsTyped
<1>4. ASSUME NEW w \in Workers, NEW e \in Events, Take(w, e)
      PROVE  job'[on'[v]].state = "active" /\ job'[on'[v]].owner = v
  <2>1. job' = [job EXCEPT ![e] = [job[e] EXCEPT !.state = "active", !.owner = w]]
    BY <1>0, <1>4 DEF Take, TypeOK, Job
  <2>2. job'[e].state = "active" /\ job'[e].owner = w
    BY <1>0, <2>1 DEF TypeOK, Job
  <2>3. \A f \in Events \ {e} : job'[f] = job[f]
    BY <1>0, <2>1 DEF TypeOK
  <2>4. CASE v = w
    BY <1>0, <1>4, <2>2, <2>4 DEF Take, TypeOK, RunsTyped
  <2>5. CASE v # w
    <3>1. pc[v] # "idle" /\ on'[v] = on[v]
      BY <1>0, <1>4, <2>5 DEF Take, TypeOK, RunsTyped
    <3>2. on[v] # e
      BY <1>0, <1>4, <3>1 DEF Take
    <3> QED
      BY <1>0, <2>3, <3>1, <3>2
  <2> QED
    BY <2>4, <2>5
<1>5. ASSUME NEW e \in Events, Stall(e)
      PROVE  job'[on'[v]].state = "active" /\ job'[on'[v]].owner = v
  <2>1. pc[v] # "idle" /\ on'[v] = on[v]
    BY <1>5 DEF Stall, runVars
  <2>2. on[v] # e
    BY <1>0, <1>5, <2>1, StallFields DEF Abandoned
  <2> QED
    BY <1>0, <1>5, <2>1, <2>2, StallFields
<1>6. ASSUME NEW e \in Events, Enqueue(e) \/ Evict(e)
      PROVE  job'[on'[v]].state = "active" /\ job'[on'[v]].owner = v
  <2>1. pc[v] # "idle" /\ on'[v] = on[v]
    BY <1>6 DEF Enqueue, Evict, runVars
  <2>2. on[v] # e
    BY <1>0, <1>6, <2>1 DEF Enqueue, Evict
  <2> QED
    BY <1>0, <1>6, <2>1, <2>2 DEF Enqueue, Evict, TypeOK
<1>7. CASE \/ \E e \in Events : EditRules(e)
           \/ \E k \in Keys : Expire(k)
           \/ UNCHANGED vars
  BY <1>0, <1>7 DEF EditRules, Expire, vars, runVars
<1> QED
  BY <1>1, <1>2, <1>3, <1>4, <1>5, <1>6, <1>7, RunStepKinds DEF Next

-----------------------------------------------------------------------------
(* The audit log.  Inductive: a run about to create a record is the only   *)
(* run of its event and has seen that there is none.                       *)
AuditSeen ==
  Without({"zombie"}) =>
    /\ \A e \in Events : audit[e] <= 1
    /\ \A w \in Workers : pc[w] = "createAudit" => audit[on[w]] = 0

AuditInv == TypeInv /\ RunsOwnJobs /\ AuditSeen

LEMMA AuditInvInit == Init => AuditInv
  BY TypeInvInit, RunsOwnJobsInit DEF AuditInv, AuditSeen, Init

LEMMA AuditInvStep == AuditInv /\ [Next]_vars => AuditInv'
<1> SUFFICES ASSUME AuditInv, [Next]_vars, "zombie" \notin faults
             PROVE  /\ \A e \in Events : audit'[e] <= 1
                    /\ \A w \in Workers : pc'[w] = "createAudit" => audit'[on'[w]] = 0
  BY TypeInvStep, RunsOwnJobsStep, NextKeeps DEF AuditInv, AuditSeen, Without
<1>0. /\ TypeOK /\ RunsTyped
      /\ \A w \in Workers :
           pc[w] # "idle" => /\ on[w] \in Events /\ job[on[w]].owner = w
      /\ \A e \in Events : audit[e] \in Nat /\ audit[e] <= 1
      /\ \A w \in Workers : pc[w] = "createAudit" => audit[on[w]] = 0
  BY DEF AuditInv, TypeInv, TypeOK, RunsTyped, RunsOwnJobs, AuditSeen, Without
<1>1. ASSUME NEW w \in Workers, CreateAudit(w)
      PROVE  /\ \A e \in Events : audit'[e] <= 1
             /\ \A v \in Workers : pc'[v] = "createAudit" => audit'[on'[v]] = 0
  <2>1. audit' = [audit EXCEPT ![on[w]] = 1]
    <3>1. audit[on[w]] = 0
      BY <1>0, <1>1 DEF CreateAudit
    <3>2. audit' = [audit EXCEPT ![on[w]] = audit[on[w]] + 1]
      BY <1>1 DEF CreateAudit
    <3> QED
      BY <3>1, <3>2
  <2>2. pc'[w] # "createAudit"
    BY <1>0, <1>1 DEF CreateAudit, Proceed, GoTo, OnThrow, InTry, RunsTyped
  <2>3. \A v \in Workers \ {w} : pc'[v] = pc[v] /\ on'[v] = on[v]
    BY <1>0, <1>1 DEF CreateAudit, Proceed, GoTo, RunsTyped
  <2>4. \A v \in Workers \ {w} : pc[v] = "createAudit" => on[v] # on[w]
    BY <1>0, <1>1 DEF CreateAudit
  <2> QED
    BY <1>0, <1>1, <2>1, <2>2, <2>3, <2>4 DEF TypeOK
<1>2. ASSUME NEW w \in Workers, FindAudit(w)
      PROVE  /\ \A e \in Events : audit'[e] <= 1
             /\ \A v \in Workers : pc'[v] = "createAudit" => audit'[on'[v]] = 0
  BY <1>0, <1>2 DEF FindAudit, GoTo, dbVars, RunsTyped
<1>3. CASE /\ audit' = audit
           /\ \A v \in Workers : pc'[v] = "createAudit" => pc[v] = pc'[v] /\ on'[v] = on[v]
  BY <1>0, <1>3
<1>4. ASSUME NEW w \in Workers, InsideStep(w), ~FindAudit(w), ~CreateAudit(w)
      PROVE  /\ audit' = audit
             /\ \A v \in Workers : pc'[v] = "createAudit" => pc[v] = pc'[v] /\ on'[v] = on[v]
  <2> USE <1>0 DEF GoTo, NextAction, Proceed, OnThrow, InTry, RunsTyped, dbVars
  <2>1. CASE MarkInvalidPayload(w) \/ MarkProcessing(w) \/ FindRules(w) \/ StepThrows(w)
    BY <2>1 DEF MarkInvalidPayload, MarkProcessing, FindRules, StepThrows
  <2>2. CASE Acquire(w) \/ Skip(w) \/ Perform(w) \/ PerformThrows(w)
    BY <2>2 DEF Acquire, Skip, Perform, PerformThrows
  <2>3. CASE Complete(w) \/ Fail(w)
    BY <2>3 DEF Complete, Fail
  <2>4. CASE MarkCompleted(w) \/ MarkFailed(w) \/ MoveToDlq(w)
    BY <2>4 DEF MarkCompleted, MarkFailed, MoveToDlq
  <2> QED
    BY <1>4, <2>1, <2>2, <2>3, <2>4 DEF InsideStep
<1>5. ASSUME NEW w \in Workers, ReportStep(w) \/ Crash(w) \/ \E e \in Events : Take(w, e)
      PROVE  /\ audit' = audit
             /\ \A v \in Workers : pc'[v] = "createAudit" => pc[v] = pc'[v] /\ on'[v] = on[v]
  <2>1. RunsTyped
    BY <1>0
  <2>2. CASE ReportStep(w) \/ Crash(w)
    <3>1. audit' = audit
      BY <1>0, <2>2, ReportStepEnds DEF Crash, dbVars
    <3>2. Release(w)
      BY <1>0, <2>2, ReportStepEnds DEF Crash
    <3> QED
      BY <2>1, <3>1, <3>2 DEF Release, RunsTyped
  <2>3. ASSUME NEW e \in Events, Take(w, e)
        PROVE  /\ audit' = audit
               /\ \A v \in Workers : pc'[v] = "createAudit" => pc[v] = pc'[v] /\ on'[v] = on[v]
    <3>1. audit' = audit
      BY <2>3 DEF Take, dbVars
    <3>2. pc'[w] # "createAudit"
      BY <2>1, <2>3 DEF Take, RunsTyped
    <3>3. \A v \in Workers \ {w} : pc'[v] = pc[v] /\ on'[v] = on[v]
      BY <2>1, <2>3 DEF Take, RunsTyped
    <3> QED
      BY <3>1, <3>2, <3>3
  <2> QED
    BY <1>5, <2>2, <2>3
<1>6. CASE \/ \E e \in Events : Enqueue(e) \/ Evict(e) \/ Stall(e) \/ EditRules(e)
           \/ \E k \in Keys : Expire(k)
           \/ UNCHANGED vars
  BY <1>3, <1>6 DEF Enqueue, Evict, Stall, EditRules, Expire, vars, runVars, dbVars
<1> QED
  BY <1>1, <1>2, <1>3, <1>4, <1>5, <1>6, RunStepKinds DEF Next

(* Retries, crashes and redelivery after a stall write the audit record of *)
(* an event at most once, as long as no stale run is at work: the look     *)
(* before the create in AuditLogAutoMationService.save() is enough.        *)
THEOREM AuditWrittenOnce == Spec => []AuditOnce
<1>1. AuditInv => AuditOnce
  BY DEF AuditInv, AuditSeen, AuditOnce
<1> QED
  BY <1>1, AuditInvInit, AuditInvStep, PTL DEF Spec

-----------------------------------------------------------------------------
(* No effect without an audit record, under any faults.  Inductive: a run  *)
(* that got past save() has seen, or written, a record.                    *)
PastSave == {"findRules", "actions"} \cup Holding

AuditedFirst ==
  /\ \A w \in Workers : pc[w] \in PastSave => audit[on[w]] > 0
  /\ AuditBeforeEffect

EffectInv == TypeInv /\ AuditedFirst

LEMMA EffectInvInit == Init => EffectInv
  BY TypeInvInit DEF EffectInv, AuditedFirst, AuditBeforeEffect, PastSave, Holding, Init

LEMMA EffectInvStep == EffectInv /\ [Next]_vars => EffectInv'
<1> SUFFICES ASSUME EffectInv, [Next]_vars
             PROVE  /\ \A v \in Workers : pc'[v] \in PastSave => audit'[on'[v]] > 0
                    /\ \A e \in Events : sent'[e] # {} => audit'[e] > 0
  BY TypeInvStep DEF EffectInv, AuditedFirst, AuditBeforeEffect
<1>0. /\ TypeOK /\ RunsTyped
      /\ \A w \in Workers : pc[w] # "idle" => on[w] \in Events
      /\ \A e \in Events : audit[e] \in Nat
      /\ \A w \in Workers : pc[w] \in PastSave => audit[on[w]] > 0
      /\ \A e \in Events : sent[e] # {} => audit[e] > 0
  BY DEF EffectInv, TypeInv, TypeOK, RunsTyped, AuditedFirst, AuditBeforeEffect
<1>1. CASE /\ audit' = audit /\ sent' = sent
           /\ \A v \in Workers : pc'[v] \in PastSave => pc[v] \in PastSave /\ on'[v] = on[v]
  BY <1>0, <1>1
<1>2. ASSUME NEW w \in Workers, CreateAudit(w)
      PROVE  /\ \A v \in Workers : pc'[v] \in PastSave => audit'[on'[v]] > 0
             /\ \A e \in Events : sent'[e] # {} => audit'[e] > 0
  <2>1. audit'[on[w]] > 0 /\ \A e \in Events : audit'[e] >= audit[e]
    BY <1>0, <1>2 DEF CreateAudit, TypeOK
  <2>2. on' = on /\ sent' = sent /\ \A v \in Workers \ {w} : pc'[v] = pc[v]
    BY <1>0, <1>2 DEF CreateAudit, Proceed, GoTo, RunsTyped, worldVars
  <2>3. audit' \in [Events -> Nat]
    BY <1>0, <1>2 DEF CreateAudit, TypeOK
  <2> QED
    BY <1>0, <2>1, <2>2, <2>3 DEF PastSave, Holding
<1>3. ASSUME NEW w \in Workers, FindAudit(w)
      PROVE  /\ \A v \in Workers : pc'[v] \in PastSave => audit'[on'[v]] > 0
             /\ \A e \in Events : sent'[e] # {} => audit'[e] > 0
  BY <1>0, <1>3 DEF FindAudit, GoTo, dbVars, worldVars, RunsTyped, PastSave, Holding
<1>4. ASSUME NEW w \in Workers, Perform(w) \/ PerformThrows(w)
      PROVE  /\ \A v \in Workers : pc'[v] \in PastSave => audit'[on'[v]] > 0
             /\ \A e \in Events : sent'[e] # {} => audit'[e] > 0
  <2>1. audit[on[w]] > 0
    BY <1>0, <1>4 DEF Perform, PerformThrows, PastSave, Holding
  <2>2. \A e \in Events \ {on[w]} : sent'[e] = sent[e]
    BY <1>0, <1>4 DEF Perform, PerformThrows, TakesPlace, TypeOK, worldVars
  <2>3. /\ audit' = audit /\ on' = on
        /\ \A v \in Workers : pc'[v] \in PastSave => pc[v] \in PastSave
    BY <1>0, <1>4 DEF Perform, PerformThrows, GoTo, dbVars, RunsTyped, PastSave, Holding
  <2> QED
    BY <1>0, <2>1, <2>2, <2>3
<1>5. ASSUME NEW w \in Workers, InsideStep(w), ~FindAudit(w), ~CreateAudit(w),
             ~Perform(w), ~PerformThrows(w)
      PROVE  /\ audit' = audit /\ sent' = sent
             /\ \A v \in Workers : pc'[v] \in PastSave => pc[v] \in PastSave /\ on'[v] = on[v]
  <2> USE <1>0 DEF GoTo, NextAction, Proceed, OnThrow, InTry, RunsTyped, dbVars, worldVars,
          PastSave, Holding
  <2>1. CASE MarkInvalidPayload(w) \/ MarkProcessing(w) \/ FindRules(w) \/ StepThrows(w)
    BY <2>1 DEF MarkInvalidPayload, MarkProcessing, FindRules, StepThrows
  <2>2. CASE Acquire(w) \/ Skip(w)
    BY <2>2 DEF Acquire, Skip
  <2>3. CASE Complete(w) \/ Fail(w)
    BY <2>3 DEF Complete, Fail
  <2>4. CASE MarkCompleted(w) \/ MarkFailed(w) \/ MoveToDlq(w)
    BY <2>4 DEF MarkCompleted, MarkFailed, MoveToDlq
  <2> QED
    BY <1>5, <2>1, <2>2, <2>3, <2>4 DEF InsideStep
<1>6. ASSUME NEW w \in Workers, ReportStep(w) \/ Crash(w) \/ \E e \in Events : Take(w, e)
      PROVE  /\ audit' = audit /\ sent' = sent
             /\ \A v \in Workers : pc'[v] \in PastSave => pc[v] \in PastSave /\ on'[v] = on[v]
  <2> USE DEF RunsTyped, dbVars, worldVars, PastSave, Holding
  <2>1. CASE ReportStep(w)
    BY <1>0, <2>1, ReportStepEnds DEF Release
  <2>2. CASE Crash(w)
    BY <1>0, <2>2 DEF Crash, Release
  <2>3. CASE \E e \in Events : Take(w, e)
    BY <1>0, <2>3 DEF Take
  <2> QED
    BY <1>6, <2>1, <2>2, <2>3
<1>7. CASE \/ \E e \in Events : Enqueue(e) \/ Evict(e) \/ Stall(e) \/ EditRules(e)
           \/ \E k \in Keys : Expire(k)
           \/ UNCHANGED vars
  BY <1>1, <1>7 DEF Enqueue, Evict, Stall, EditRules, Expire, vars, runVars, dbVars, worldVars
<1> QED
  BY <1>1, <1>2, <1>3, <1>4, <1>5, <1>6, <1>7, RunStepKinds DEF Next

(* The processor's ordering promise under every combination of faults: an  *)
(* action that took place has an audit record in front of it.              *)
THEOREM AuditPrecedesEffects == Spec => []AuditBeforeEffect
<1>1. EffectInv => AuditBeforeEffect
  BY DEF EffectInv, AuditedFirst
<1> QED
  BY <1>1, EffectInvInit, EffectInvStep, PTL DEF Spec

-----------------------------------------------------------------------------
(* An invalid payload.  Inductive: its runs are on the first branch of the *)
(* catch block, and its job has not used an attempt.                       *)
RefusedRuns ==
  \A w \in Workers :
    pc[w] # "idle" /\ ~valid[on[w]] => pc[w] \in {"markInvalidPayload", "discard"}

InvalidInv == TypeInv /\ RefusedRuns /\ InvalidInert

LEMMA InvalidInvInit == Init => InvalidInv
  BY TypeInvInit DEF InvalidInv, RefusedRuns, InvalidInert, Init

LEMMA InvalidInvStep == InvalidInv /\ [Next]_vars => InvalidInv'
<1> SUFFICES ASSUME InvalidInv, [Next]_vars
             PROVE  RefusedRuns' /\ InvalidInert'
  BY TypeInvStep DEF InvalidInv
<1>0. /\ TypeOK /\ RunsTyped /\ RefusedRuns /\ InvalidInert /\ valid' = valid
      /\ \A w \in Workers : pc[w] # "idle" => on[w] \in Events
  BY NextKeeps DEF InvalidInv, TypeInv, TypeOK, RunsTyped
<1>1. CASE /\ UNCHANGED <<audit, sent>>
           /\ \A v \in Workers : pc'[v] # "idle" => pc'[v] = pc[v] /\ on'[v] = on[v]
           /\ \A e \in Events :
                ~valid[e] /\ job'[e].state \in {"waiting", "active"} => job'[e].made = 0
  BY <1>0, <1>1 DEF RefusedRuns, InvalidInert
<1>2. ASSUME NEW w \in Workers, InsideStep(w)
      PROVE  RefusedRuns' /\ InvalidInert'
  <2>1. /\ job' = job /\ on' = on /\ on[w] \in Events
        /\ \A v \in Workers \ {w} : pc'[v] = pc[v]
    BY <1>0, <1>2, InsideStepStays DEF RunsTyped
  <2>2. CASE MarkInvalidPayload(w)
    BY <1>0, <2>1, <2>2
    DEF MarkInvalidPayload, GoTo, RefusedRuns, InvalidInert, RunsTyped, worldVars
  <2>3. CASE ~MarkInvalidPayload(w)
    <3>1. pc[w] \notin {"idle", "markInvalidPayload", "discard"}
      BY <1>2, <2>3
      DEF InsideStep, MarkProcessing, FindAudit, CreateAudit, FindRules, Acquire, Skip,
          Perform, PerformThrows, Complete, Fail, MarkCompleted, MarkFailed, MoveToDlq,
          StepThrows, OnThrow, InTry
    <3>2. valid[on[w]]
      BY <1>0, <3>1 DEF RefusedRuns
    <3>3. \A e \in Events \ {on[w]} :
            audit'[e] = audit[e] /\ sent'[e] = sent[e]
      <4> USE <1>0 DEF TypeOK, dbVars, worldVars
      <4>1. CASE MarkProcessing(w) \/ FindAudit(w) \/ CreateAudit(w) \/ FindRules(w)
        BY <4>1 DEF MarkProcessing, FindAudit, CreateAudit, FindRules
      <4>2. CASE Acquire(w) \/ Skip(w) \/ Complete(w) \/ Fail(w) \/ StepThrows(w)
        BY <4>2 DEF Acquire, Skip, Complete, Fail, StepThrows
      <4>3. CASE Perform(w) \/ PerformThrows(w)
        BY <4>3 DEF Perform, PerformThrows, TakesPlace
      <4>4. CASE MarkCompleted(w) \/ MarkFailed(w) \/ MoveToDlq(w)
        BY <4>4 DEF MarkCompleted, MarkFailed, MoveToDlq
      <4> QED
        BY <1>2, <2>3, <4>1, <4>2, <4>3, <4>4 DEF InsideStep
    <3> QED
      BY <1>0, <2>1, <3>2, <3>3 DEF RefusedRuns, InvalidInert
  <2> QED
    BY <2>2, <2>3
<1>3. ASSUME NEW w \in Workers, ReportStep(w)
      PROVE  RefusedRuns' /\ InvalidInert'
  <2>1. UNCHANGED <<audit, sent>> /\ on[w] \in Events
    BY <1>0, <1>3, ReportStepEnds
  <2>2. \A v \in Workers : pc'[v] # "idle" => pc'[v] = pc[v] /\ on'[v] = on[v]
    BY <1>0, <1>3, ReportStepEnds DEF Release, RunsTyped
  <2>3. CASE job' = job
    BY <1>0, <1>1, <2>1, <2>2, <2>3 DEF InvalidInert
  <2>4. CASE job' # job
    <3>1. PICK s \in {"waiting", "completed", "failed"} :
            /\ job' = [job EXCEPT ![on[w]] = Settled(on[w], s)]
            /\ s = "waiting" => pc[w] = "throw"
      BY <1>0, <1>3, <2>4, ReportStepEnds
    <3>2. job'[on[w]].state = s /\ \A e \in Events \ {on[w]} : job'[e] = job[e]
      BY <1>0, <2>1, <3>1, SettledFields DEF TypeOK
    <3>3. s = "waiting" => valid[on[w]]
      BY <1>0, <3>1 DEF RefusedRuns
    <3>4. \A e \in Events :
            ~valid[e] /\ job'[e].state \in {"waiting", "active"} => job'[e].made = 0
      BY <1>0, <3>2, <3>3 DEF InvalidInert
    <3> QED
      BY <1>1, <2>1, <2>2, <3>4
  <2> QED
    BY <2>3, <2>4
<1>4. ASSUME NEW w \in Workers, Crash(w)
      PROVE  RefusedRuns' /\ InvalidInert'
  BY <1>0, <1>4 DEF Crash, Release, RunsTyped, dbVars, worldVars, RefusedRuns, InvalidInert
<1>5. ASSUME NEW w \in Workers, NEW e \in Events, Take(w, e)
      PROVE  RefusedRuns' /\ InvalidInert'
  <2>1. /\ job'[e].made = job[e].made /\ job[e].state = "waiting"
        /\ \A f \in Events \ {e} : job'[f] = job[f]
    BY <1>0, <1>5 DEF Take, TypeOK, Job
  <2>2. \A v \in Workers : pc'[v] = "moveToDlq" => pc[v] = "moveToDlq" /\ on'[v] = on[v]
    BY <1>0, <1>5 DEF Take, RunsTyped
  <2>3. UNCHANGED <<audit, sent>>
    BY <1>5 DEF Take, dbVars, worldVars
  <2>4. InvalidInert'
    BY <1>0, <2>1, <2>2, <2>3 DEF InvalidInert
  <2>5. RefusedRuns'
    BY <1>0, <1>5 DEF RefusedRuns, Take, RunsTyped
  <2> QED
    BY <2>4, <2>5
<1>6. ASSUME NEW e \in Events, Enqueue(e) \/ Evict(e) \/ Stall(e)
      PROVE  RefusedRuns' /\ InvalidInert'
  <2>1. /\ UNCHANGED <<audit, sent>>
        /\ \A v \in Workers : pc'[v] # "idle" => pc'[v] = pc[v] /\ on'[v] = on[v]
    BY <1>6 DEF Enqueue, Evict, Stall, runVars, dbVars, worldVars
  <2>2. \A f \in Events \ {e} : job'[f] = job[f]
    BY <1>0, <1>6, StallFields DEF Enqueue, Evict, TypeOK
  <2>3. job'[e].state \in {"waiting", "active"} =>
          \/ job'[e].made = 0
          \/ job[e].state = "active" /\ job'[e].made = job[e].made
    <3>1. CASE Enqueue(e)
      <4>1. job'[e] = [state |-> "waiting", owner |-> NoWorker, made |-> 0,
                       stalled |-> 0, adds |-> job[e].adds + 1]
        BY <1>0, <3>1 DEF Enqueue, TypeOK
      <4> QED
        BY <4>1
    <3>2. CASE Evict(e)
      <4>1. job' = [job EXCEPT ![e] = [job[e] EXCEPT !.state = "absent"]]
        BY <1>0, <3>2 DEF Evict, TypeOK
      <4>2. job'[e] = [job[e] EXCEPT !.state = "absent"] /\ job[e] \in Job
        BY <1>0, <4>1 DEF TypeOK
      <4>3. job'[e].state = "absent"
        BY <4>2 DEF Job
      <4> QED
        BY <4>3
    <3>3. CASE Stall(e)
      BY <1>0, <3>3, StallFields
    <3> QED
      BY <1>6, <3>1, <3>2, <3>3
  <2>4. \A f \in Events :
          ~valid[f] /\ job'[f].state \in {"waiting", "active"} => job'[f].made = 0
    BY <1>0, <2>2, <2>3 DEF InvalidInert
  <2> QED
    BY <1>1, <2>1, <2>4
<1>7. CASE \/ \E e \in Events : EditRules(e)
           \/ \E k \in Keys : Expire(k)
           \/ UNCHANGED vars
  BY <1>0, <1>7
  DEF EditRules, Expire, vars, runVars, dbVars, worldVars, RefusedRuns, InvalidInert
<1> QED
  BY <1>2, <1>3, <1>4, <1>5, <1>6, <1>7, RunStepKinds DEF Next

(* An event whose payload fails the schema stays without effect, audit     *)
(* record, DLQ step and second attempt, under every combination of faults. *)
THEOREM InvalidPayloadsInert == Spec => []InvalidInert
<1>1. InvalidInv => InvalidInert
  BY DEF InvalidInv
<1> QED
  BY <1>1, InvalidInvInit, InvalidInvStep, PTL DEF Spec

-----------------------------------------------------------------------------
(* Job outcome and job log.  While no run is stale, a run counts the       *)
(* attempts that its job counts.                                           *)
RunsCountAttempts ==
  Without({"zombie"}) =>
    \A w \in Workers : pc[w] # "idle" => made[w] = job[on[w]].made

(* What a run that is about to report has written, and what only an        *)
(* invalid payload leads to.                                               *)
ReportsLogged ==
  /\ Without({"zombie"}) =>
       \A w \in Workers : pc[w] = "return" => jobLog[on[w]].status = "COMPLETED"
  /\ Without({"zombie", "db"}) =>
       \A w \in Workers :
         pc[w] = "moveToDlq" \/ (pc[w] = "throw" /\ isFinalAttempt(w)) =>
           jobLog[on[w]].status = "FAILED"
  /\ \A w \in Workers : pc[w] \in {"markInvalidPayload", "discard"} => ~valid[on[w]]

(* What SettledLogAgrees says of an event whose job failed for good.       *)
FailureExplained(e) ==
  \/ jobLog[e].status = "FAILED"
  \/ job[e].made < MaxAttempts /\ job[e].stalled = MaxStalled

LogInv ==
  /\ TypeInv /\ RunsOwnJobs /\ RunsCountAttempts /\ ReportsLogged
  /\ CompletedIsLogged /\ SettledLogAgrees

LEMMA LogInvInit == Init => LogInv
<1> SUFFICES ASSUME Init
             PROVE  RunsCountAttempts /\ ReportsLogged /\ CompletedIsLogged /\ SettledLogAgrees
  BY TypeInvInit, RunsOwnJobsInit DEF LogInv
<1> QED
  BY DEF Init, RunsCountAttempts, ReportsLogged, CompletedIsLogged, SettledLogAgrees

LEMMA RunsCountAttemptsStep ==
  TypeInv /\ RunsOwnJobs /\ RunsCountAttempts /\ [Next]_vars => RunsCountAttempts'
<1> SUFFICES ASSUME TypeInv, RunsOwnJobs, RunsCountAttempts, [Next]_vars,
                    "zombie" \notin faults,
                    NEW v \in Workers, pc'[v] # "idle"
             PROVE  made'[v] = job'[on'[v]].made
  BY NextKeeps DEF RunsCountAttempts, Without
<1>0. /\ TypeOK /\ RunsTyped
      /\ \A w \in Workers : pc[w] # "idle" =>
           /\ on[w] \in Events /\ made[w] = job[on[w]].made
           /\ job[on[w]].state = "active" /\ job[on[w]].owner = w
  BY DEF TypeInv, TypeOK, RunsTyped, RunsOwnJobs, RunsCountAttempts, Without
<1>1. ASSUME NEW w \in Workers, InsideStep(w)
      PROVE  made'[v] = job'[on'[v]].made
  BY <1>0, <1>1, InsideStepStays DEF RunsTyped
<1>2. ASSUME NEW w \in Workers, ReportStep(w)
      PROVE  made'[v] = job'[on'[v]].made
  <2>1. v # w /\ pc[v] # "idle" /\ on'[v] = on[v] /\ made'[v] = made[v]
    BY <1>0, <1>2, ReportStepEnds DEF Release, RunsTyped
  <2>2. on[v] # on[w] \/ job' = job
    BY <1>0, <1>2, <2>1, ReportStepEnds
  <2> QED
    BY <1>0, <1>2, <2>1, <2>2, ReportStepEnds DEF TypeOK
<1>3. ASSUME NEW w \in Workers, Crash(w)
      PROVE  made'[v] = job'[on'[v]].made
  BY <1>0, <1>3 DEF Crash, Release, RunsTyped
<1>4. ASSUME NEW w \in Workers, NEW e \in Events, Take(w, e)
      PROVE  made'[v] = job'[on'[v]].made
  <2>1. /\ job'[e].made = job[e].made
        /\ \A g \in Events \ {e} : job'[g] = job[g]
    BY <1>0, <1>4 DEF Take, TypeOK, Job
  <2>2. /\ on'[w] = e /\ made'[w] = job[e].made
        /\ \A u \in Workers \ {w} : pc'[u] = pc[u] /\ on'[u] = on[u] /\ made'[u] = made[u]
    BY <1>0, <1>4 DEF Take, RunsTyped
  <2>3. CASE v = w
    BY <2>1, <2>2, <2>3
  <2>4. CASE v # w
    <3>1. on[v] # e
      BY <1>0, <1>4, <2>2, <2>4 DEF Take
    <3> QED
      BY <1>0, <2>1, <2>2, <2>4, <3>1
  <2> QED
    BY <2>3, <2>4
<1>5. ASSUME NEW e \in Events, Enqueue(e) \/ Evict(e) \/ Stall(e)
      PROVE  made'[v] = job'[on'[v]].made
  <2>1. pc[v] # "idle" /\ on'[v] = on[v] /\ made'[v] = made[v]
    BY <1>5 DEF Enqueue, Evict, Stall, runVars
  <2>2. CASE Stall(e)
    BY <1>0, <2>1, <2>2, StallFields
  <2>3. CASE Enqueue(e) \/ Evict(e)
    <3>1. on[v] # e
      BY <1>0, <2>1, <2>3 DEF Enqueue, Evict
    <3> QED
      BY <1>0, <2>1, <2>3, <3>1 DEF Enqueue, Evict, TypeOK
  <2> QED
    BY <1>5, <2>2, <2>3
<1>6. CASE \/ \E e \in Events : EditRules(e)
           \/ \E k \in Keys : Expire(k)
           \/ UNCHANGED vars
  BY <1>0, <1>6 DEF EditRules, Expire, vars, runVars
<1> QED
  BY <1>1, <1>2, <1>3, <1>4, <1>5, <1>6, RunStepKinds DEF Next

LEMMA LogFrame ==
  ASSUME TypeOK, NEW w \in Workers, InsideStep(w)
  PROVE  /\ \A e \in Events \ {on[w]} : jobLog'[e] = jobLog[e]
         /\ pc'[w] = "return" => jobLog'[on[w]].status = "COMPLETED"
         /\ pc'[w] = "discard" => pc[w] = "markInvalidPayload"
         /\ pc'[w] # "markInvalidPayload"
         /\ pc'[w] = "moveToDlq" => isFinalAttempt(w) /\ jobLog'[on[w]].status = "FAILED"
         /\ jobLog'[on[w]].status = "FAILED" =>
              \/ jobLog[on[w]].status = "FAILED"
              \/ isFinalAttempt(w) \/ pc[w] = "markInvalidPayload"
         /\ pc'[w] = "throw" =>
              \/ pc[w] = "moveToDlq" /\ jobLog' = jobLog
              \/ "db" \in faults
              \/ isFinalAttempt(w) => "ack" \in faults /\ jobLog'[on[w]].status = "FAILED"
<1>0. /\ jobLog \in [Events -> [status : LogStatus, attempts : 0 .. MaxAttempts]]
      /\ pc \in [Workers -> PC]
      /\ on[w] \in Events
  BY InsideStepStays DEF TypeOK, RunsTyped
<1>1. \A status, n : WriteLog(on[w], status, n) =>
        /\ jobLog'[on[w]].status = status
        /\ \A e \in Events \ {on[w]} : jobLog'[e] = jobLog[e]
  BY <1>0 DEF WriteLog
<1> USE <1>0 DEF GoTo, NextAction, Proceed, OnThrow, InTry, dbVars
<1>2. CASE MarkInvalidPayload(w)
  BY <1>1, <1>2 DEF MarkInvalidPayload
<1>3. CASE MarkProcessing(w)
  BY <1>1, <1>3 DEF MarkProcessing
<1>4. CASE FindAudit(w) \/ CreateAudit(w) \/ FindRules(w)
  BY <1>4 DEF FindAudit, CreateAudit, FindRules
<1>5. CASE Acquire(w) \/ Skip(w) \/ Perform(w) \/ PerformThrows(w)
  BY <1>5 DEF Acquire, Skip, Perform, PerformThrows
<1>6. CASE Complete(w) \/ Fail(w) \/ StepThrows(w)
  BY <1>6 DEF Complete, Fail, StepThrows
<1>7. CASE MarkCompleted(w)
  BY <1>1, <1>7 DEF MarkCompleted
<1>8. CASE MarkFailed(w)
  BY <1>1, <1>8 DEF MarkFailed
<1>9. CASE MoveToDlq(w)
  BY <1>9 DEF MoveToDlq
<1> QED
  BY <1>2, <1>3, <1>4, <1>5, <1>6, <1>7, <1>8, <1>9 DEF InsideStep

LEMMA LogInvStep == LogInv /\ [Next]_vars => LogInv'
<1> SUFFICES ASSUME LogInv, [Next]_vars
             PROVE  ReportsLogged' /\ CompletedIsLogged' /\ SettledLogAgrees'
  BY TypeInvStep, RunsOwnJobsStep, RunsCountAttemptsStep DEF LogInv
<1>0. /\ TypeOK /\ RunsTyped /\ valid' = valid /\ faults' = faults
      /\ ReportsLogged /\ CompletedIsLogged /\ SettledLogAgrees
      /\ \A w \in Workers : pc[w] # "idle" => on[w] \in Events
      /\ "zombie" \notin faults =>
           \A w \in Workers :
             pc[w] # "idle" => job[on[w]].state = "active" /\ job[on[w]].owner = w
  BY NextKeeps DEF LogInv, TypeInv, TypeOK, RunsTyped, RunsOwnJobs, Without
<1> USE DEF Without
\* A step that writes no log row and moves no run except out of process() or
\* to the start of it.
<1>1. ASSUME jobLog' = jobLog,
             \A v \in Workers :
               pc'[v] \notin {"idle", "markProcessing", "markInvalidPayload"} =>
                 pc'[v] = pc[v] /\ on'[v] = on[v] /\ made'[v] = made[v],
             \A v \in Workers : pc'[v] = "markInvalidPayload" => ~valid[on'[v]],
             "zombie" \notin faults =>
               \A e \in Events :
                 job'[e].state = "completed" => jobLog[e].status = "COMPLETED",
             faults \cap {"zombie", "db"} = {} =>
               \A e \in Events :
                 valid[e] /\ job'[e].state = "failed" => FailureExplained(e)'
      PROVE  ReportsLogged' /\ CompletedIsLogged' /\ SettledLogAgrees'
  <2>1. ReportsLogged'
    BY <1>0, <1>1 DEF ReportsLogged, isFinalAttempt
  <2> QED
    BY <1>0, <1>1, <2>1 DEF CompletedIsLogged, SettledLogAgrees, FailureExplained
<1>2. ASSUME NEW w \in Workers, InsideStep(w)
      PROVE  ReportsLogged' /\ CompletedIsLogged' /\ SettledLogAgrees'
  <2>1. /\ job' = job /\ on' = on /\ made' = made /\ pc[w] # "idle"
        /\ \A v \in Workers \ {w} : pc'[v] = pc[v]
    BY <1>0, <1>2, InsideStepStays DEF RunsTyped
  <2>2. \A e \in Events \ {on[w]} : jobLog'[e] = jobLog[e]
    BY <1>0, <1>2, LogFrame
  <2>3. "zombie" \notin faults =>
          /\ job[on[w]].state = "active"
          /\ \A v \in Workers \ {w} : pc[v] # "idle" => on[v] # on[w]
    BY <1>0, <2>1
  <2>4. CompletedIsLogged' /\ SettledLogAgrees'
    BY <1>0, <2>1, <2>2, <2>3 DEF CompletedIsLogged, SettledLogAgrees
  <2>5. "zombie" \notin faults =>
          \A v \in Workers : pc'[v] = "return" => jobLog'[on'[v]].status = "COMPLETED"
    BY <1>0, <1>2, <2>1, <2>2, <2>3, LogFrame DEF ReportsLogged
  <2>6. \A v \in Workers : pc'[v] \in {"markInvalidPayload", "discard"} => ~valid'[on'[v]]
    BY <1>0, <1>2, <2>1, LogFrame DEF ReportsLogged
  <2>7. ASSUME faults \cap {"zombie", "db"} = {}, NEW v \in Workers,
               \/ pc'[v] = "moveToDlq"
               \/ pc'[v] = "throw" /\ isFinalAttempt(v)
        PROVE  jobLog'[on[v]].status = "FAILED"
    <3>1. CASE v # w
      BY <1>0, <2>1, <2>2, <2>3, <2>7, <3>1 DEF ReportsLogged
    <3>2. CASE v = w /\ pc'[w] = "moveToDlq"
      BY <1>0, <1>2, <3>2, LogFrame
    <3>3. CASE v = w /\ pc'[w] = "throw" /\ pc[w] = "moveToDlq" /\ jobLog' = jobLog
      BY <1>0, <2>7, <3>3 DEF ReportsLogged
    <3>4. CASE v = w /\ pc'[w] = "throw" /\ ~(pc[w] = "moveToDlq" /\ jobLog' = jobLog)
      BY <1>0, <1>2, <2>7, <3>4, LogFrame
    <3> QED
      BY <2>7, <3>1, <3>2, <3>3, <3>4
  <2>8. \A v \in Workers : isFinalAttempt(v)' <=> isFinalAttempt(v)
    BY <2>1 DEF isFinalAttempt
  <2>9. ReportsLogged'
    BY <1>0, <2>1, <2>5, <2>6, <2>7, <2>8 DEF ReportsLogged
  <2> QED
    BY <2>4, <2>9
<1>3. ASSUME NEW w \in Workers, ReportStep(w)
      PROVE  ReportsLogged' /\ CompletedIsLogged' /\ SettledLogAgrees'
  <2>1. /\ jobLog' = jobLog /\ on[w] \in Events /\ pc[w] \in {"return", "throw", "discard"}
        /\ \A v \in Workers :
             pc'[v] # "idle" => pc'[v] = pc[v] /\ on'[v] = on[v] /\ made'[v] = made[v]
    BY <1>0, <1>3, ReportStepEnds
    DEF Release, RunsTyped, ReportStep, Return, Throw, Discard
  <2>2. CASE job' = job
    BY <1>0, <1>1, <2>1, <2>2
    DEF CompletedIsLogged, SettledLogAgrees, ReportsLogged, FailureExplained
  <2>3. CASE job' # job
    <3>1. PICK s \in {"waiting", "completed", "failed"} :
            /\ job' = [job EXCEPT ![on[w]] = Settled(on[w], s)]
            /\ s = "completed" <=> pc[w] = "return"
            /\ s = "waiting" <=> pc[w] = "throw" /\ job[on[w]].made + 1 < MaxAttempts
      BY <1>0, <1>3, <2>3, ReportStepEnds
    <3>2. job'[on[w]].state = s /\ \A e \in Events \ {on[w]} : job'[e] = job[e]
      BY <1>0, <2>1, <3>1, SettledFields DEF TypeOK
    <3>3. "zombie" \notin faults /\ s = "completed" => jobLog[on[w]].status = "COMPLETED"
      BY <1>0, <3>1 DEF ReportsLogged
    <3>4. ASSUME faults \cap {"zombie", "db"} = {}, s = "failed", valid[on[w]]
          PROVE  jobLog[on[w]].status = "FAILED"
      <4>1. pc[w] = "throw" /\ ~(job[on[w]].made + 1 < MaxAttempts)
        BY <1>0, <2>1, <3>1, <3>4 DEF ReportsLogged
      <4>2. made[w] = job[on[w]].made
        BY <1>0, <2>1, <3>4 DEF LogInv, RunsCountAttempts
      <4>3. job[on[w]].made \in Nat /\ MaxAttempts \in Nat
        BY <1>0, <2>1, JobFields, BoundsAssumption DEF TypeOK
      <4>4. isFinalAttempt(w)
        BY <4>1, <4>2, <4>3 DEF isFinalAttempt
      <4> QED
        BY <1>0, <3>4, <4>1, <4>4 DEF ReportsLogged
    <3>5. "zombie" \notin faults =>
            \A e \in Events : job'[e].state = "completed" => jobLog[e].status = "COMPLETED"
      BY <1>0, <3>2, <3>3 DEF CompletedIsLogged
    <3>6. faults \cap {"zombie", "db"} = {} =>
            \A e \in Events :
              valid[e] /\ job'[e].state = "failed" => FailureExplained(e)'
      BY <1>0, <2>1, <3>2, <3>4 DEF SettledLogAgrees, FailureExplained
    <3> QED
      BY <1>0, <1>1, <2>1, <3>5, <3>6 DEF ReportsLogged
  <2> QED
    BY <2>2, <2>3
<1>4. ASSUME NEW w \in Workers, Crash(w)
      PROVE  ReportsLogged' /\ CompletedIsLogged' /\ SettledLogAgrees'
  <2>1. /\ jobLog' = jobLog /\ job' = job
        /\ \A v \in Workers :
             pc'[v] # "idle" => pc'[v] = pc[v] /\ on'[v] = on[v] /\ made'[v] = made[v]
    BY <1>0, <1>4 DEF Crash, Release, RunsTyped, dbVars
  <2> QED
    BY <1>0, <1>1, <2>1
    DEF CompletedIsLogged, SettledLogAgrees, ReportsLogged, FailureExplained
<1>5. ASSUME NEW w \in Workers, NEW e \in Events, Take(w, e)
      PROVE  ReportsLogged' /\ CompletedIsLogged' /\ SettledLogAgrees'
  <2>1. /\ jobLog' = jobLog /\ job'[e].state = "active"
        /\ \A f \in Events \ {e} : job'[f] = job[f]
    BY <1>0, <1>5 DEF Take, TypeOK, Job, dbVars
  <2>2. /\ \A v \in Workers \ {w} : pc'[v] = pc[v] /\ on'[v] = on[v] /\ made'[v] = made[v]
        /\ pc'[w] = (IF valid[e] THEN "markProcessing" ELSE "markInvalidPayload")
        /\ on'[w] = e
    BY <1>0, <1>5 DEF Take, RunsTyped
  <2>3. \A v \in Workers : pc'[v] = "markInvalidPayload" => ~valid[on'[v]]
    BY <1>0, <2>2 DEF ReportsLogged
  <2>4. "zombie" \notin faults =>
          \A f \in Events : job'[f].state = "completed" => jobLog[f].status = "COMPLETED"
    BY <1>0, <2>1 DEF CompletedIsLogged
  <2>5. faults \cap {"zombie", "db"} = {} =>
          \A f \in Events :
            valid[f] /\ job'[f].state = "failed" => FailureExplained(f)'
    BY <1>0, <2>1 DEF SettledLogAgrees, FailureExplained
  <2>6. \A v \in Workers :
          pc'[v] \notin {"idle", "markProcessing", "markInvalidPayload"} =>
            pc'[v] = pc[v] /\ on'[v] = on[v] /\ made'[v] = made[v]
    BY <2>2
  <2>7. jobLog' = jobLog
    BY <2>1
  <2> HIDE DEF Without
  <2> QED
    BY <1>1, <2>3, <2>4, <2>5, <2>6, <2>7
<1>6. ASSUME NEW e \in Events, Enqueue(e) \/ Evict(e) \/ Stall(e)
      PROVE  ReportsLogged' /\ CompletedIsLogged' /\ SettledLogAgrees'
  <2>1. UNCHANGED <<jobLog, pc, on, made>>
    BY <1>6 DEF Enqueue, Evict, Stall, runVars, dbVars
  <2>2. \A f \in Events \ {e} : job'[f] = job[f]
    <3>1. CASE Stall(e)
      BY <1>0, <3>1, StallFields
    <3>2. CASE Enqueue(e) \/ Evict(e)
      BY <1>0, <3>2 DEF Enqueue, Evict, TypeOK
    <3> QED
      BY <1>6, <3>1, <3>2
  <2>3. job'[e].state # "completed"
    <3>1. CASE Stall(e)
      BY <1>0, <3>1, StallFields
    <3>2. CASE Enqueue(e) \/ Evict(e)
      BY <1>0, <3>2 DEF Enqueue, Evict, TypeOK, Job
    <3> QED
      BY <1>6, <3>1, <3>2
  <2>4. job'[e].state = "failed" => FailureExplained(e)'
    <3>1. CASE Stall(e)
      <4>1. job[e].made < MaxAttempts
        BY <1>0, <3>1, StallFields DEF LogInv, TypeInv, JobsSound
      <4> QED
        BY <1>0, <3>1, <4>1, StallFields DEF FailureExplained
    <3>2. CASE Enqueue(e) \/ Evict(e)
      BY <1>0, <3>2 DEF Enqueue, Evict, TypeOK, Job
    <3> QED
      BY <1>6, <3>1, <3>2
  <2>5. "zombie" \notin faults =>
          \A f \in Events : job'[f].state = "completed" => jobLog[f].status = "COMPLETED"
    BY <1>0, <2>2, <2>3 DEF CompletedIsLogged
  <2>6. faults \cap {"zombie", "db"} = {} =>
          \A f \in Events :
            valid[f] /\ job'[f].state = "failed" => FailureExplained(f)'
    BY <1>0, <2>1, <2>2, <2>4 DEF SettledLogAgrees, FailureExplained
  <2>7. /\ \A v \in Workers : pc'[v] = "markInvalidPayload" => ~valid[on'[v]]
        /\ \A v \in Workers : pc'[v] = pc[v] /\ on'[v] = on[v] /\ made'[v] = made[v]
    BY <1>0, <2>1 DEF ReportsLogged
  <2> QED
    BY <1>1, <2>1, <2>5, <2>6, <2>7
<1>7. CASE \/ \E e \in Events : EditRules(e)
           \/ \E k \in Keys : Expire(k)
           \/ UNCHANGED vars
  <2>1. UNCHANGED <<jobLog, pc, on, made, job>>
    BY <1>7 DEF EditRules, Expire, vars, runVars, dbVars
  <2> QED
    BY <1>0, <1>1, <2>1
    DEF CompletedIsLogged, SettledLogAgrees, ReportsLogged, FailureExplained
<1> QED
  BY <1>2, <1>3, <1>4, <1>5, <1>6, <1>7, RunStepKinds DEF Next

(* While no stale run is at work, a job BullMQ reports as completed has a  *)
(* COMPLETED log row, whatever crashes or fails.                           *)
THEOREM CompletionIsLogged == Spec => []CompletedIsLogged
<1>1. LogInv => CompletedIsLogged
  BY DEF LogInv
<1> QED
  BY <1>1, LogInvInit, LogInvStep, PTL DEF Spec

(* With a database that answers and no stale run, the log row of a settled *)
(* job of a valid event says how it was settled, crashes and all, unless   *)
(* BullMQ failed the job for stalling.                                     *)
THEOREM LogAgreesWithQueue == Spec => []SettledLogAgrees
<1>1. LogInv => SettledLogAgrees
  BY DEF LogInv
<1> QED
  BY <1>1, LogInvInit, LogInvStep, PTL DEF Spec

-----------------------------------------------------------------------------
(* A FAILED row.  In the first life of a job no run, stale ones included,  *)
(* counts more attempts than the job does; before it nothing is there.     *)
RunsBehind ==
  \A w \in Workers :
    pc[w] # "idle" /\ job[on[w]].adds <= 1 => made[w] <= job[on[w]].made

NotYetAdded ==
  \A e \in Events : job[e].adds = 0 =>
    /\ job[e].state = "absent" /\ jobLog[e].status # "FAILED"
    /\ \A w \in Workers : on[w] # e

FinalInv == LogInv /\ RunsBehind /\ NotYetAdded /\ FailedRowIsFinal

LEMMA FinalInvInit == Init => FinalInv
<1> SUFFICES ASSUME Init
             PROVE  RunsBehind /\ NotYetAdded /\ FailedRowIsFinal
  BY LogInvInit DEF FinalInv
<1> QED
  BY NullsAssumption DEF Init, RunsBehind, NotYetAdded, FailedRowIsFinal

LEMMA FinalInvStep == FinalInv /\ [Next]_vars => FinalInv'
<1> SUFFICES ASSUME FinalInv, [Next]_vars
             PROVE  RunsBehind' /\ NotYetAdded' /\ FailedRowIsFinal'
  BY LogInvStep DEF FinalInv
<1>0. /\ TypeOK /\ RunsTyped /\ valid' = valid
      /\ RunsBehind /\ NotYetAdded /\ FailedRowIsFinal
      /\ \A w \in Workers : pc[w] # "idle" => on[w] \in Events
      /\ \A w \in Workers : pc[w] = "markInvalidPayload" => ~valid[on[w]]
  BY NextKeeps DEF FinalInv, LogInv, TypeInv, TypeOK, RunsTyped, ReportsLogged
<1>a. /\ \A e \in Events : job[e] \in Job
      /\ \A e \in Events : job[e].made \in Nat /\ job[e].adds \in Nat
      /\ \A w \in Workers : made[w] \in Nat
      /\ MaxAttempts \in Nat
  BY <1>0, JobFields, BoundsAssumption DEF TypeOK, RunsTyped
\* A step that writes no log row, starts no run and adds no job.
<1>1. ASSUME jobLog' = jobLog,
             \A v \in Workers : on'[v] \in {NoEvent, on[v]},
             \A v \in Workers : pc'[v] # "idle" =>
               pc'[v] = pc[v] /\ on'[v] = on[v] /\ made'[v] = made[v],
             \A e \in Events :
               /\ job'[e].adds = job[e].adds
               /\ job'[e].made \in Nat /\ job[e].made <= job'[e].made
               /\ job[e].state = "absent" => job'[e].state = "absent"
      PROVE  RunsBehind' /\ NotYetAdded' /\ FailedRowIsFinal'
  <2>1. RunsBehind'
    BY <1>0, <1>a, <1>1 DEF RunsBehind
  <2>2. NotYetAdded'
    BY <1>0, <1>1, NullsAssumption DEF NotYetAdded
  <2>3. FailedRowIsFinal'
    BY <1>0, <1>a, <1>1 DEF FailedRowIsFinal
  <2> QED
    BY <2>1, <2>2, <2>3
<1>2. ASSUME NEW w \in Workers, InsideStep(w)
      PROVE  RunsBehind' /\ NotYetAdded' /\ FailedRowIsFinal'
  <2>1. /\ job' = job /\ on' = on /\ made' = made /\ pc[w] # "idle" /\ on[w] \in Events
        /\ \A v \in Workers \ {w} : pc'[v] = pc[v]
    BY <1>0, <1>2, InsideStepStays DEF RunsTyped
  <2>2. \A e \in Events \ {on[w]} : jobLog'[e] = jobLog[e]
    BY <1>0, <1>2, LogFrame
  <2>3. RunsBehind'
    BY <1>0, <2>1 DEF RunsBehind
  <2>4. NotYetAdded'
    BY <1>0, <2>1, <2>2 DEF NotYetAdded
  <2>5. ASSUME valid[on[w]], job[on[w]].adds <= 1, jobLog'[on[w]].status = "FAILED"
        PROVE  job[on[w]].made + 1 >= MaxAttempts
    <3>1. jobLog[on[w]].status = "FAILED" \/ isFinalAttempt(w)
      BY <1>0, <1>2, <2>5, LogFrame
    <3>2. CASE jobLog[on[w]].status = "FAILED"
      BY <1>0, <2>1, <2>5, <3>2 DEF FailedRowIsFinal
    <3>3. CASE isFinalAttempt(w)
      <4>1. made[w] <= job[on[w]].made /\ made[w] + 1 >= MaxAttempts
        BY <1>0, <2>1, <2>5, <3>3 DEF RunsBehind, isFinalAttempt
      <4> QED
        BY <1>a, <2>1, <4>1
    <3> QED
      BY <3>1, <3>2, <3>3
  <2>6. FailedRowIsFinal'
    BY <1>0, <2>1, <2>2, <2>5 DEF FailedRowIsFinal
  <2> QED
    BY <2>3, <2>4, <2>6
<1>3. ASSUME NEW w \in Workers, ReportStep(w)
      PROVE  RunsBehind' /\ NotYetAdded' /\ FailedRowIsFinal'
  <2>1. jobLog' = jobLog /\ Release(w) /\ on[w] \in Events
    BY <1>0, <1>3, ReportStepEnds
  <2>2. /\ \A v \in Workers : on'[v] \in {NoEvent, on[v]}
        /\ \A v \in Workers : pc'[v] # "idle" =>
             pc'[v] = pc[v] /\ on'[v] = on[v] /\ made'[v] = made[v]
    BY <1>0, <2>1 DEF Release, RunsTyped
  <2>3. job[on[w]].adds # 0
    BY <1>0, <1>a, <1>3, <2>1 DEF NotYetAdded
  <2>4. CASE job' = job
    BY <1>0, <1>a, <1>1, <2>1, <2>2, <2>4
  <2>5. CASE job' # job
    <3>1. PICK s : job' = [job EXCEPT ![on[w]] = Settled(on[w], s)]
      BY <1>0, <1>3, <2>5, ReportStepEnds
    <3>2. /\ job'[on[w]].adds = job[on[w]].adds /\ job'[on[w]].made = job[on[w]].made + 1
          /\ \A e \in Events \ {on[w]} : job'[e] = job[e]
      BY <1>0, <1>a, <2>1, <3>1, SettledFields DEF TypeOK
    <3>3. RunsBehind'
      BY <1>0, <1>a, <2>1, <2>2, <3>2 DEF RunsBehind
    <3>4. NotYetAdded'
      BY <1>0, <2>1, <2>2, <2>3, <3>2, NullsAssumption DEF NotYetAdded
    <3>5. FailedRowIsFinal'
      BY <1>0, <1>a, <2>1, <3>2 DEF FailedRowIsFinal
    <3> QED
      BY <3>3, <3>4, <3>5
  <2> QED
    BY <2>4, <2>5
<1>4. ASSUME NEW w \in Workers, Crash(w)
      PROVE  RunsBehind' /\ NotYetAdded' /\ FailedRowIsFinal'
  <2>1. /\ jobLog' = jobLog /\ job' = job
        /\ \A v \in Workers : on'[v] \in {NoEvent, on[v]}
        /\ \A v \in Workers : pc'[v] # "idle" =>
             pc'[v] = pc[v] /\ on'[v] = on[v] /\ made'[v] = made[v]
    BY <1>0, <1>4 DEF Crash, Release, RunsTyped, dbVars
  <2> QED
    BY <1>a, <1>1, <2>1
<1>5. ASSUME NEW w \in Workers, NEW e \in Events, Take(w, e)
      PROVE  RunsBehind' /\ NotYetAdded' /\ FailedRowIsFinal'
  <2>1. /\ jobLog' = jobLog /\ job[e].state = "waiting"
        /\ job'[e].made = job[e].made /\ job'[e].adds = job[e].adds
        /\ \A f \in Events \ {e} : job'[f] = job[f]
    BY <1>0, <1>5 DEF Take, TypeOK, Job, dbVars
  <2>2. /\ on'[w] = e /\ made'[w] = job[e].made
        /\ \A v \in Workers \ {w} : pc'[v] = pc[v] /\ on'[v] = on[v] /\ made'[v] = made[v]
    BY <1>0, <1>5 DEF Take, RunsTyped
  <2>3. job[e].adds # 0
    BY <1>0, <2>1 DEF NotYetAdded
  <2>4. RunsBehind'
    BY <1>0, <1>a, <2>1, <2>2 DEF RunsBehind
  <2>5. NotYetAdded'
    BY <1>0, <2>1, <2>2, <2>3 DEF NotYetAdded
  <2>6. FailedRowIsFinal'
    BY <1>0, <2>1 DEF FailedRowIsFinal
  <2> QED
    BY <2>4, <2>5, <2>6
<1>6. ASSUME NEW e \in Events, Enqueue(e)
      PROVE  RunsBehind' /\ NotYetAdded' /\ FailedRowIsFinal'
  <2>1. UNCHANGED <<jobLog, pc, on, made>> /\ \A f \in Events \ {e} : job'[f] = job[f]
    BY <1>0, <1>6 DEF Enqueue, runVars, dbVars, TypeOK
  <2>2. job'[e].adds = job[e].adds + 1
    BY <1>0, <1>6 DEF Enqueue, TypeOK
  <2>3. job'[e].adds # 0 /\ (job'[e].adds <= 1 => job[e].adds = 0)
    BY <1>a, <2>2
  <2>4. RunsBehind'
    BY <1>0, <2>1, <2>3 DEF RunsBehind, NotYetAdded
  <2>5. NotYetAdded'
    BY <1>0, <2>1, <2>3 DEF NotYetAdded
  <2>6. FailedRowIsFinal'
    BY <1>0, <2>1, <2>3 DEF FailedRowIsFinal, NotYetAdded
  <2> QED
    BY <2>4, <2>5, <2>6
<1>7. ASSUME NEW e \in Events, Evict(e) \/ Stall(e)
      PROVE  RunsBehind' /\ NotYetAdded' /\ FailedRowIsFinal'
  <2>1. UNCHANGED <<jobLog, pc, on, made>>
    BY <1>7 DEF Evict, Stall, runVars, dbVars
  <2>2. /\ \A f \in Events \ {e} : job'[f] = job[f]
        /\ job'[e].made = job[e].made /\ job'[e].adds = job[e].adds
        /\ job[e].state # "absent"
    <3>1. CASE Stall(e)
      BY <1>0, <3>1, StallFields
    <3>2. CASE Evict(e)
      BY <1>0, <1>a, <3>2 DEF Evict, TypeOK, Job
    <3> QED
      BY <1>7, <3>1, <3>2
  <2> QED
    BY <1>a, <1>1, <2>1, <2>2
<1>8. CASE \/ \E e \in Events : EditRules(e)
           \/ \E k \in Keys : Expire(k)
           \/ UNCHANGED vars
  <2>1. UNCHANGED <<jobLog, pc, on, made, job>>
    BY <1>8 DEF EditRules, Expire, vars, runVars, dbVars
  <2> QED
    BY <1>a, <1>1, <2>1
<1> QED
  BY <1>2, <1>3, <1>4, <1>5, <1>6, <1>7, <1>8, RunStepKinds DEF Next

(* Under every combination of faults, a log row says FAILED only when no   *)
(* attempt is left after the one BullMQ has under way: the attempt number  *)
(* a run was handed never runs ahead of the queue's, whatever stalled,     *)
(* crashed or went stale meanwhile.                                        *)
THEOREM FailedRowsAreFinal == Spec => []FailedRowIsFinal
<1>1. FinalInv => FailedRowIsFinal
  BY DEF FinalInv
<1> QED
  BY <1>1, FinalInvInit, FinalInvStep, PTL DEF Spec

-----------------------------------------------------------------------------
(* The pipeline implements IdempotencyKeys.                                *)

Stages == [w \in Workers |-> StageOf(w)]
KeysHeld == [w \in Workers |-> HeldBy(w)]

\* One run moves: one caller's stage and key may change.
LEMMA OneRunMoves ==
  ASSUME NEW w \in Workers,
         \A v \in Workers \ {w} : pc'[v] = pc[v] /\ on'[v] = on[v] /\ todo'[v] = todo[v]
  PROVE  /\ Stages' = [Stages EXCEPT ![w] = StageOf(w)']
         /\ KeysHeld' = [KeysHeld EXCEPT ![w] = HeldBy(w)']
  BY DEF Stages, KeysHeld, StageOf, HeldBy, KeyAtHand, buildIdempotencyKey

\* A run that is outside executeRule's try block before and after its step.
LEMMA OutsideTry ==
  ASSUME NEW w \in Workers, pc[w] \notin Holding, pc'[w] \notin Holding,
         \A v \in Workers \ {w} : pc'[v] = pc[v] /\ on'[v] = on[v] /\ todo'[v] = todo[v]
  PROVE  Stages' = Stages /\ KeysHeld' = KeysHeld
  BY DEF Stages, KeysHeld, StageOf, HeldBy, KeyAtHand, buildIdempotencyKey, Holding

LEMMA KeyTableStutters ==
  ASSUME UNCHANGED <<faults, row, effects>>, Stages' = Stages, KeysHeld' = KeysHeld
  PROVE  UNCHANGED KeyTable!vars
  BY DEF KeyTable!vars, Stages, KeysHeld

LEMMA KeyTableInit == Init => KeyTable!Init
  BY DEF Init, KeyTable!Init, KeyTable!KeyFaults, KeyTable!NoRow, NoRow, StageOf, HeldBy,
     Holding

LEMMA RunMovesAlone ==
  ASSUME RunsTyped, NEW w \in Workers, InsideStep(w)
  PROVE  \A v \in Workers \ {w} : pc'[v] = pc[v] /\ on'[v] = on[v] /\ todo'[v] = todo[v]
<1> USE DEF RunsTyped, GoTo, NextAction, Proceed
<1>1. CASE MarkInvalidPayload(w) \/ MarkProcessing(w) \/ FindAudit(w) \/ CreateAudit(w)
  BY <1>1 DEF MarkInvalidPayload, MarkProcessing, FindAudit, CreateAudit
<1>2. CASE FindRules(w) \/ Acquire(w) \/ Skip(w)
  BY <1>2 DEF FindRules, Acquire, Skip
<1>3. CASE Perform(w) \/ PerformThrows(w) \/ Complete(w) \/ Fail(w) \/ StepThrows(w)
  BY <1>3 DEF Perform, PerformThrows, Complete, Fail, StepThrows
<1>4. CASE MarkCompleted(w) \/ MarkFailed(w) \/ MoveToDlq(w)
  BY <1>4 DEF MarkCompleted, MarkFailed, MoveToDlq
<1> QED
  BY <1>1, <1>2, <1>3, <1>4 DEF InsideStep

LEMMA AcquireMaps ==
  ASSUME TypeOK, NEW w \in Workers, Acquire(w)
  PROVE  \E k \in Keys : KeyTable!Acquire(w, k)
<1>0. RunsTyped
  BY DEF TypeOK
<1>1. /\ pc[w] = "actions" /\ todo[w] # <<>> /\ Acquirable(row[KeyAtHand(w)])
      /\ row' = [row EXCEPT ![KeyAtHand(w)] = Acquired(row[KeyAtHand(w)])]
      /\ UNCHANGED <<faults, effects>>
  BY DEF Acquire, worldVars
<1>2. PICK k \in Keys : k = KeyAtHand(w)
  BY <1>0, <1>1, ActionAtHand
<1>3. row[k] \in IdempotencyRow
  BY DEF TypeOK
<1>4. row[k].attempts + 1 \in Nat
  BY <1>3 DEF IdempotencyRow
<1>5. Stages[w] = "idle"
  BY <1>1 DEF Stages, StageOf
<1>6. /\ Stages' = [Stages EXCEPT ![w] = StageOf(w)']
      /\ KeysHeld' = [KeysHeld EXCEPT ![w] = HeldBy(w)']
  BY <1>0, RunMovesAlone, OneRunMoves DEF InsideStep
<1>7. \/ GoTo(w, "perform")
      \/ "ack" \in faults /\ GoTo(w, "markFailed")
  BY <1>1 DEF Acquire, Proceed, OnThrow, InTry
<1>8. \/ /\ Stages' = [Stages EXCEPT ![w] = "acting"]
         /\ KeysHeld' = [KeysHeld EXCEPT ![w] = k]
      \/ "ack" \in faults /\ UNCHANGED <<Stages, KeysHeld>>
  <2>1. CASE GoTo(w, "perform")
    <3>1. pc'[w] = "perform" /\ KeyAtHand(w)' = k
      BY <1>0, <1>2, <2>1 DEF GoTo, RunsTyped, KeyAtHand, buildIdempotencyKey
    <3>2. StageOf(w)' = "acting" /\ HeldBy(w)' = k
      BY <3>1 DEF StageOf, HeldBy, Holding
    <3> QED
      BY <1>6, <3>2
  <2>2. CASE "ack" \in faults /\ GoTo(w, "markFailed")
    <3>1. pc[w] \notin Holding /\ pc'[w] \notin Holding
      BY <1>0, <1>1, <2>2 DEF GoTo, RunsTyped, Holding
    <3> QED
      BY <1>0, <2>2, <3>1, RunMovesAlone, OutsideTry DEF InsideStep
  <2> QED
    BY <1>7, <2>1, <2>2
<1> QED
  BY <1>1, <1>2, <1>4, <1>5, <1>8
  DEF KeyTable!Acquire, KeyTable!Acquirable, KeyTable!Acquired, Acquirable, Acquired,
      Stages, KeysHeld

LEMMA PerformMaps ==
  ASSUME TypeOK, NEW w \in Workers, Perform(w) \/ PerformThrows(w)
  PROVE  KeyTable!Perform(w) \/ KeyTable!PerformThrows(w)
<1>0. RunsTyped
  BY DEF TypeOK
<1>1. pc[w] = "perform" /\ UNCHANGED <<faults, row>>
  BY DEF Perform, PerformThrows, dbVars
<1>2. Stages[w] = "acting" /\ KeysHeld[w] = KeyAtHand(w)
  BY <1>1 DEF Stages, StageOf, KeysHeld, HeldBy, Holding
<1>3. KeyAtHand(w) \in Keys
  BY <1>0, <1>1, ActionAtHand DEF RunsTyped, Holding
<1>4. effects[KeyAtHand(w)] \in Nat /\ effects \in [Keys -> Nat]
  BY <1>3 DEF TypeOK
<1>5. /\ Stages' = [Stages EXCEPT ![w] = StageOf(w)']
      /\ KeysHeld' = [KeysHeld EXCEPT ![w] = HeldBy(w)']
  BY <1>0, RunMovesAlone, OneRunMoves DEF InsideStep
<1>6. ASSUME NEW p \in {"complete", "fail"}, GoTo(w, p)
      PROVE  Stages' = [Stages EXCEPT ![w] = IF p = "complete" THEN "closing" ELSE "failing"]
             /\ KeysHeld' = KeysHeld
  <2>1. pc'[w] = p /\ KeyAtHand(w)' = KeyAtHand(w)
    BY <1>0, <1>6 DEF GoTo, RunsTyped, KeyAtHand, buildIdempotencyKey
  <2>2. /\ StageOf(w)' = (IF p = "complete" THEN "closing" ELSE "failing")
        /\ HeldBy(w)' = KeyAtHand(w)
    BY <1>6, <2>1 DEF StageOf, HeldBy, Holding
  <2>3. KeysHeld' = KeysHeld
    BY <1>2, <1>5, <2>2 DEF KeysHeld
  <2> QED
    BY <1>5, <2>2, <2>3
<1>7. CASE Perform(w)
  <2>1. /\ effects' = [effects EXCEPT ![KeysHeld[w]] = effects[KeysHeld[w]] + 1]
        /\ GoTo(w, "complete")
    BY <1>2, <1>7 DEF Perform, TakesPlace
  <2> QED
    BY <1>1, <1>2, <1>6, <2>1 DEF KeyTable!Perform, KeyTable!GoTo, Stages, KeysHeld
<1>8. CASE PerformThrows(w)
  <2>1. \E n \in {0, 1} : effects' = [effects EXCEPT ![KeysHeld[w]] = effects[KeysHeld[w]] + n]
    <3>1. CASE UNCHANGED worldVars
      <4>1. effects' = [effects EXCEPT ![KeysHeld[w]] = effects[KeysHeld[w]] + 0]
        BY <1>2, <1>4, <3>1 DEF worldVars
      <4> QED
        BY <4>1
    <3>2. CASE TakesPlace(w)
      <4>1. effects' = [effects EXCEPT ![KeysHeld[w]] = effects[KeysHeld[w]] + 1]
        BY <1>2, <3>2 DEF TakesPlace
      <4> QED
        BY <4>1
    <3> QED
      BY <1>8, <3>1, <3>2 DEF PerformThrows
  <2>2. GoTo(w, "fail")
    BY <1>8 DEF PerformThrows
  <2> QED
    BY <1>1, <1>2, <1>6, <2>1, <2>2
    DEF KeyTable!PerformThrows, KeyTable!GoTo, Stages, KeysHeld
<1> QED
  BY <1>7, <1>8

\* A run that leaves the try block stops being a caller that holds a key.
LEMMA LeavesTry ==
  ASSUME RunsTyped, NEW w \in Workers, pc'[w] \notin Holding,
         \A v \in Workers \ {w} : pc'[v] = pc[v] /\ on'[v] = on[v] /\ todo'[v] = todo[v]
  PROVE  /\ Stages' = [Stages EXCEPT ![w] = "idle"]
         /\ KeysHeld' = [KeysHeld EXCEPT ![w] = NoKey]
<1>1. StageOf(w)' = "idle" /\ HeldBy(w)' = NoKey
  BY DEF StageOf, HeldBy, Holding
<1> QED
  BY <1>1, OneRunMoves

LEMMA CompleteMaps ==
  ASSUME TypeOK, NEW w \in Workers, Complete(w)
  PROVE  KeyTable!Complete(w)
<1>0. RunsTyped
  BY DEF TypeOK
<1>1. /\ pc[w] = "complete" /\ UNCHANGED <<faults, effects>>
      /\ row' = [row EXCEPT ![KeyAtHand(w)] = Completed(row[KeyAtHand(w)])]
  BY DEF Complete, worldVars
<1>2. Stages[w] = "closing" /\ KeysHeld[w] = KeyAtHand(w)
  BY <1>1 DEF Stages, StageOf, KeysHeld, HeldBy, Holding
<1>3. \A v \in Workers \ {w} : pc'[v] = pc[v] /\ on'[v] = on[v] /\ todo'[v] = todo[v]
  BY <1>0, RunMovesAlone DEF InsideStep
<1>4. CASE NextAction(w)
  <2>1. pc'[w] \notin Holding
    BY <1>0, <1>4 DEF NextAction, RunsTyped, Holding
  <2>2. /\ Stages' = [Stages EXCEPT ![w] = "idle"]
        /\ KeysHeld' = [KeysHeld EXCEPT ![w] = NoKey]
    BY <1>0, <1>3, <2>1, LeavesTry
  <2> QED
    BY <1>1, <1>2, <2>2
    DEF KeyTable!Complete, KeyTable!Completed, KeyTable!GoIdle, Completed, Stages, KeysHeld
<1>5. CASE "ack" \in faults /\ GoTo(w, "fail")
  <2>1. pc'[w] = "fail" /\ KeyAtHand(w)' = KeyAtHand(w)
    BY <1>0, <1>5 DEF GoTo, RunsTyped, KeyAtHand, buildIdempotencyKey
  <2>2. StageOf(w)' = "failing" /\ HeldBy(w)' = KeysHeld[w]
    BY <1>2, <2>1 DEF StageOf, HeldBy, Holding
  <2>3. Stages' = [Stages EXCEPT ![w] = "failing"] /\ KeysHeld' = KeysHeld
    BY <1>3, <2>2, OneRunMoves DEF KeysHeld
  <2> QED
    BY <1>1, <1>2, <1>5, <2>3
    DEF KeyTable!Complete, KeyTable!Completed, KeyTable!GoTo, Completed, Stages, KeysHeld
<1> QED
  BY <1>1, <1>4, <1>5 DEF Complete, OnThrow, InTry

LEMMA FailMaps ==
  ASSUME TypeOK, NEW w \in Workers, Fail(w)
  PROVE  KeyTable!Fail(w)
<1>0. RunsTyped
  BY DEF TypeOK
<1>1. /\ pc[w] = "fail" /\ UNCHANGED <<faults, effects>>
      /\ row' = [row EXCEPT ![KeyAtHand(w)] = Failed(row[KeyAtHand(w)])]
  BY DEF Fail, worldVars
<1>2. Stages[w] = "failing" /\ KeysHeld[w] = KeyAtHand(w)
  BY <1>1 DEF Stages, StageOf, KeysHeld, HeldBy, Holding
<1>3. pc'[w] \notin Holding
  BY <1>0 DEF Fail, GoTo, RunsTyped, Holding
<1>4. /\ Stages' = [Stages EXCEPT ![w] = "idle"]
      /\ KeysHeld' = [KeysHeld EXCEPT ![w] = NoKey]
  BY <1>0, <1>3, RunMovesAlone, LeavesTry DEF InsideStep
<1> QED
  BY <1>1, <1>2, <1>4
  DEF KeyTable!Fail, KeyTable!Failed, KeyTable!GoIdle, Failed, Stages, KeysHeld

\* A run that is cut short in the try block, or leaves it by an exception.
LEMMA AbandonMaps ==
  ASSUME RunsTyped, NEW w \in Workers, pc[w] \in Holding, pc'[w] \notin Holding,
         UNCHANGED <<faults, row, effects>>,
         \A v \in Workers \ {w} : pc'[v] = pc[v] /\ on'[v] = on[v] /\ todo'[v] = todo[v]
  PROVE  KeyTable!Abandon(w)
<1>1. Stages[w] # "idle"
  BY DEF Stages, StageOf, Holding
<1>2. /\ Stages' = [Stages EXCEPT ![w] = "idle"]
      /\ KeysHeld' = [KeysHeld EXCEPT ![w] = NoKey]
  BY LeavesTry
<1> QED
  BY <1>1, <1>2 DEF KeyTable!Abandon, KeyTable!GoIdle, Stages, KeysHeld

LEMMA StepThrowsMaps ==
  ASSUME TypeOK, NEW w \in Workers, StepThrows(w)
  PROVE  KeyTable!CompleteThrows(w) \/ KeyTable!Abandon(w) \/ UNCHANGED KeyTable!vars
<1>0. RunsTyped /\ InsideStep(w)
  BY DEF TypeOK, InsideStep
<1>1. /\ UNCHANGED <<faults, row, effects>> /\ GoTo(w, OnThrow[pc[w]])
      /\ pc[w] \in InTry \cup {"complete", "markFailed"}
  BY DEF StepThrows, dbVars, worldVars, OnThrow
<1>2. \A v \in Workers \ {w} : pc'[v] = pc[v] /\ on'[v] = on[v] /\ todo'[v] = todo[v]
  BY <1>0, RunMovesAlone
<1>3. CASE pc[w] = "complete"
  <2>1. pc'[w] = "fail" /\ KeyAtHand(w)' = KeyAtHand(w)
    BY <1>0, <1>1, <1>3
    DEF GoTo, OnThrow, InTry, RunsTyped, KeyAtHand, buildIdempotencyKey
  <2>2. /\ Stages[w] = "closing" /\ KeysHeld[w] = KeyAtHand(w)
        /\ StageOf(w)' = "failing" /\ HeldBy(w)' = KeyAtHand(w)
    BY <1>3, <2>1 DEF Stages, KeysHeld, StageOf, HeldBy, Holding
  <2>3. Stages' = [Stages EXCEPT ![w] = "failing"] /\ KeysHeld' = KeysHeld
    <3>1. /\ Stages' = [Stages EXCEPT ![w] = StageOf(w)']
          /\ KeysHeld' = [KeysHeld EXCEPT ![w] = HeldBy(w)']
      BY <1>2, OneRunMoves
    <3>2. [KeysHeld EXCEPT ![w] = KeysHeld[w]] = KeysHeld
      BY DEF KeysHeld
    <3> QED
      BY <2>2, <3>1, <3>2
  <2> QED
    BY <1>1, <2>2, <2>3 DEF KeyTable!CompleteThrows, KeyTable!GoTo, Stages, KeysHeld
<1>4. CASE pc[w] = "fail"
  <2>1. pc[w] \in Holding /\ pc'[w] \notin Holding
    BY <1>0, <1>1, <1>4 DEF GoTo, OnThrow, InTry, RunsTyped, Holding
  <2> QED
    BY <1>0, <1>1, <1>2, <2>1, AbandonMaps
<1>5. CASE pc[w] \notin {"complete", "fail"}
  <2>1. pc[w] \notin Holding /\ pc'[w] \notin Holding
    BY <1>0, <1>1, <1>5 DEF GoTo, OnThrow, InTry, RunsTyped, Holding
  <2> QED
    BY <1>1, <1>2, <2>1, OutsideTry, KeyTableStutters
<1> QED
  BY <1>3, <1>4, <1>5

LEMMA KeyTableStep == TypeInv /\ [Next]_vars => [KeyTable!Next]_KeyTable!vars
<1> SUFFICES ASSUME TypeInv, [Next]_vars
             PROVE  KeyTable!Next \/ UNCHANGED KeyTable!vars
  OBVIOUS
<1>0. TypeOK /\ RunsTyped
  BY DEF TypeInv, TypeOK
<1>1. ASSUME NEW w \in Workers, InsideStep(w)
      PROVE  KeyTable!Next \/ UNCHANGED KeyTable!vars
  <2>1. CASE Acquire(w)
    BY <1>0, <2>1, AcquireMaps DEF KeyTable!Next
  <2>2. CASE Perform(w) \/ PerformThrows(w)
    BY <1>0, <2>2, PerformMaps DEF KeyTable!Next
  <2>3. CASE Complete(w)
    BY <1>0, <2>3, CompleteMaps DEF KeyTable!Next
  <2>4. CASE Fail(w)
    BY <1>0, <2>4, FailMaps DEF KeyTable!Next
  <2>5. CASE StepThrows(w)
    BY <1>0, <2>5, StepThrowsMaps DEF KeyTable!Next
  <2>6. CASE ~(\/ Acquire(w) \/ Perform(w) \/ PerformThrows(w)
               \/ Complete(w) \/ Fail(w) \/ StepThrows(w))
    <3>1. /\ pc[w] \notin Holding /\ pc'[w] \notin Holding
          /\ UNCHANGED <<faults, row, effects>>
      <4> USE <1>0 DEF RunsTyped, GoTo, NextAction, Proceed, OnThrow, InTry, Holding,
              dbVars, worldVars
      <4>1. CASE MarkInvalidPayload(w) \/ MarkProcessing(w)
        BY <4>1 DEF MarkInvalidPayload, MarkProcessing
      <4>2. CASE FindAudit(w) \/ CreateAudit(w) \/ FindRules(w)
        BY <4>2 DEF FindAudit, CreateAudit, FindRules
      <4>3. CASE Skip(w)
        BY <4>3 DEF Skip
      <4>4. CASE MarkCompleted(w) \/ MarkFailed(w) \/ MoveToDlq(w)
        BY <4>4 DEF MarkCompleted, MarkFailed, MoveToDlq
      <4> QED
        BY <1>1, <2>6, <4>1, <4>2, <4>3, <4>4 DEF InsideStep
    <3> QED
      BY <1>0, <1>1, <3>1, RunMovesAlone, OutsideTry, KeyTableStutters
  <2> QED
    BY <2>1, <2>2, <2>3, <2>4, <2>5, <2>6
<1>2. ASSUME NEW w \in Workers, ReportStep(w) \/ Crash(w)
      PROVE  KeyTable!Next \/ UNCHANGED KeyTable!vars
  <2>1. UNCHANGED <<faults, row, effects>> /\ Release(w)
    BY <1>0, <1>2, ReportStepEnds, NextKeeps DEF Crash, dbVars, worldVars
  <2>2. /\ pc'[w] \notin Holding
        /\ \A v \in Workers \ {w} : pc'[v] = pc[v] /\ on'[v] = on[v] /\ todo'[v] = todo[v]
    BY <1>0, <2>1 DEF Release, RunsTyped, Holding
  <2>3. CASE pc[w] \in Holding
    BY <1>0, <2>1, <2>2, <2>3, AbandonMaps DEF KeyTable!Next
  <2>4. CASE pc[w] \notin Holding
    BY <2>1, <2>2, <2>4, OutsideTry, KeyTableStutters
  <2> QED
    BY <2>3, <2>4
<1>3. ASSUME NEW w \in Workers, NEW e \in Events, Take(w, e)
      PROVE  KeyTable!Next \/ UNCHANGED KeyTable!vars
  <2>1. /\ UNCHANGED <<faults, row, effects>>
        /\ pc[w] \notin Holding /\ pc'[w] \notin Holding
        /\ \A v \in Workers \ {w} : pc'[v] = pc[v] /\ on'[v] = on[v] /\ todo'[v] = todo[v]
    BY <1>0, <1>3 DEF Take, RunsTyped, Holding, dbVars, worldVars
  <2> QED
    BY <2>1, OutsideTry, KeyTableStutters
<1>4. ASSUME NEW k \in Keys, Expire(k)
      PROVE  KeyTable!Next \/ UNCHANGED KeyTable!vars
  <2>1. /\ row[k].status = "PROCESSING" /\ ~row[k].stale
        /\ row' = [row EXCEPT ![k] = Outlived(row[k])]
        /\ UNCHANGED <<faults, effects, pc, on, todo>>
    BY <1>4 DEF Expire, runVars, worldVars
  <2>2. "overrun" \in faults \/ \A w \in Workers : KeysHeld[w] # k
    BY <1>4 DEF Expire, KeysHeld
  <2>3. Stages' = Stages /\ KeysHeld' = KeysHeld
    BY <2>1 DEF Stages, KeysHeld, StageOf, HeldBy, KeyAtHand, buildIdempotencyKey
  <2>4. KeyTable!Expire(k)
    BY <2>1, <2>2, <2>3
    DEF KeyTable!Expire, KeyTable!Outlived, Outlived, Stages, KeysHeld
  <2> QED
    BY <2>4 DEF KeyTable!Next
<1>5. CASE \/ \E e \in Events : Enqueue(e) \/ Evict(e) \/ Stall(e) \/ EditRules(e)
           \/ UNCHANGED vars
  <2>1. UNCHANGED <<faults, row, effects, pc, on, todo>>
    BY <1>5 DEF Enqueue, Evict, Stall, EditRules, vars, runVars, dbVars, worldVars
  <2>2. Stages' = Stages /\ KeysHeld' = KeysHeld
    BY <2>1 DEF Stages, KeysHeld, StageOf, HeldBy, KeyAtHand, buildIdempotencyKey
  <2> QED
    BY <2>1, <2>2, KeyTableStutters
<1> QED
  BY <1>1, <1>2, <1>3, <1>4, <1>5, RunStepKinds DEF Next

(* The loop over actions, its retries, stalls, crashes and stale runs use  *)
(* the idempotency table the way IdempotencyKeys does, so the theorems of  *)
(* IdempotencyKeysProofs (one holder per key, COMPLETED only after the     *)
(* effect, attempts bound the effects) are theorems about the pipeline.    *)
THEOREM PipelineImplementsKeys == Spec => ImplementsKeys
<1> QED
  BY KeyTableInit, KeyTableStep, TypeInvInit, TypeInvStep, PTL
  DEF Spec, ImplementsKeys, KeyTable!Spec

=============================================================================
