-------------------------- MODULE AutomationWorker --------------------------
(***************************************************************************)
(* The automation pipeline: the BullMQ queue with its automation jobs, the *)
(* worker runs that execute AutomationProcessor.process() and, in it, the  *)
(* rule engine's loop over actions, and what they leave behind: job log,   *)
(* audit log, idempotency keys, dead letter queue, and side effects in the *)
(* outside world.                                                          *)
(*                                                                         *)
(* A run's program counter stands at the await it makes next.  Between two *)
(* awaits nothing else of this process runs, so one action of this module  *)
(* is one awaited call with the synchronous code after it.                 *)
(*                                                                         *)
(* faults, fixed by Init, says what this execution has to live with:       *)
(*   "action"  an action service throws                                    *)
(*   "late"    it throws although the outside world saw the effect (a mail *)
(*             was sent, the log row then failed; a webhook timed out)     *)
(*   "db"      a Postgres statement throws and changes nothing             *)
(*   "ack"     a Postgres statement commits and throws                     *)
(*   "crash"   a worker process dies                                       *)
(*   "zombie"  a live run loses its BullMQ lock (Redis out of reach, event *)
(*             loop blocked longer than lockDuration)                      *)
(*   "overrun" a key's lock outlives the TTL while its holder is at work   *)
(*   "evict"   a settled job falls out of the retained removeOnComplete /  *)
(*             removeOnFail window, so its jobId may be used again         *)
(*   "edit"    rules are changed between two runs                          *)
(*   "reorder" rules of equal priority come in another order               *)
(***************************************************************************)
EXTENDS IdempotencyTable, Sequences, FiniteSets, Functions

CONSTANTS
  Events,        \* automation events; the job of e has id automation:event:e
  Workers,       \* concurrently executing slots of the worker processes
  Actions,       \* rule actions, records with rule, type and (resolved) target
  Plans,         \* the action sequences the active rules can amount to
  MaxAttempts,   \* queue.attempts: 1 .. 5, default 5
  MaxStalled,    \* queue.maxStalledCount: 0 .. 3, default 1
  MaxAdds,       \* bound: how often one event is added to the queue
  FaultSets,     \* the fault sets Init chooses from
  NoWorker, NoEvent, NoKey

AllFaults == {"action", "late", "db", "ack", "crash", "zombie", "overrun", "evict",
              "edit", "reorder"}

ASSUME PlansAssumption == Plans \subseteq Seq(Actions)
ASSUME BoundsAssumption ==
  MaxAttempts \in Nat \ {0} /\ MaxStalled \in Nat /\ MaxAdds \in Nat
ASSUME FaultSetsAssumption == FaultSets \subseteq SUBSET AllFaults
ASSUME NullsAssumption == NoWorker \notin Workers /\ NoEvent \notin Events
ASSUME WorkersAssumption == IsFiniteSet(Workers)

VARIABLES
  faults,    \* what this execution is exposed to
  valid,     \* valid[e]: does the payload of e pass AuditLogSchema
  rules,     \* rules[e]: actions of the active rules that match e, in order
  job,       \* job[e]: the BullMQ job of e
  pc,        \* pc[w]: the await run w makes next
  on,        \* on[w]: the event run w processes
  made,      \* made[w]: job.attemptsMade as run w was handed it
  todo,      \* todo[w]: actions of the rules run w loaded that are left
  jobLog,    \* jobLog[e]: the automation job log row of e
  audit,     \* audit[e]: number of audit log rows of e
  row,       \* row[k]: automation_idempotency_keys
  dlq,       \* events in the dead letter queue
  effects,   \* effects[k]: side effects performed under key k (history)
  sent       \* sent[e]: actions that took place for e (history)

runVars == <<pc, on, made, todo>>
dbVars == <<jobLog, audit, row>>
worldVars == <<effects, sent>>
vars == <<faults, valid, rules, job, runVars, dbVars, dlq, worldVars>>

-----------------------------------------------------------------------------
JobState == {"absent", "waiting", "active", "completed", "failed"}
LogStatus == {"none", "PROCESSING", "RETRYING", "FAILED", "COMPLETED"}

Job == [state : JobState, owner : Workers \cup {NoWorker},
        made : 0 .. MaxAttempts, stalled : 0 .. MaxStalled, adds : 0 .. MaxAdds]

PC == {"idle", "markInvalidPayload", "discard", "markProcessing", "findAudit",
       "createAudit", "findRules", "actions", "perform", "complete", "fail",
       "markFailed", "moveToDlq", "return", "throw"}

Holding == {"perform", "complete", "fail"}

(* The stableStringify of these four fields; an action's own id is not one *)
(* of them.                                                                *)
buildIdempotencyKey(e, a) == <<e, a.rule, a.type, a.target>>

Keys == {buildIdempotencyKey(e, a) : e \in Events, a \in Actions}

ASSUME NoKeyAssumption == NoKey \notin Keys

KeyAtHand(w) == buildIdempotencyKey(on[w], Head(todo[w]))

HeldBy(w) == IF pc[w] \in Holding THEN KeyAtHand(w) ELSE NoKey

RunsTyped ==
  /\ pc \in [Workers -> PC]
  /\ on \in [Workers -> Events \cup {NoEvent}]
  /\ made \in [Workers -> 0 .. MaxAttempts]
  /\ todo \in [Workers -> Seq(Actions)]
  /\ \A w \in Workers :
       /\ pc[w] = "idle" <=> on[w] = NoEvent
       /\ pc[w] \in Holding => todo[w] # <<>>
       /\ pc[w] # "idle" => made[w] < MaxAttempts

TypeOK ==
  /\ faults \in FaultSets
  /\ valid \in [Events -> BOOLEAN]
  /\ rules \in [Events -> Plans]
  /\ job \in [Events -> Job]
  /\ RunsTyped
  /\ jobLog \in [Events -> [status : LogStatus, attempts : 0 .. MaxAttempts]]
  /\ audit \in [Events -> Nat]
  /\ row \in [Keys -> IdempotencyRow]
  /\ dlq \subseteq Events
  /\ effects \in [Keys -> Nat]
  /\ sent \in [Events -> SUBSET Actions]

Init ==
  /\ faults \in FaultSets
  /\ valid \in [Events -> BOOLEAN]
  /\ rules \in [Events -> Plans]
  /\ job = [e \in Events |-> [state |-> "absent", owner |-> NoWorker,
                              made |-> 0, stalled |-> 0, adds |-> 0]]
  /\ pc = [w \in Workers |-> "idle"]
  /\ on = [w \in Workers |-> NoEvent]
  /\ made = [w \in Workers |-> 0]
  /\ todo = [w \in Workers |-> <<>>]
  /\ jobLog = [e \in Events |-> [status |-> "none", attempts |-> 0]]
  /\ audit = [e \in Events |-> 0]
  /\ row = [k \in Keys |-> NoRow]
  /\ dlq = {}
  /\ effects = [k \in Keys |-> 0]
  /\ sent = [e \in Events |-> {}]

-----------------------------------------------------------------------------
(* Moving a run on.                                                        *)

GoTo(w, p) ==
  /\ pc' = [pc EXCEPT ![w] = p]
  /\ UNCHANGED <<on, made, todo>>

Release(w) ==
  /\ pc' = [pc EXCEPT ![w] = "idle"]
  /\ on' = [on EXCEPT ![w] = NoEvent]
  /\ made' = [made EXCEPT ![w] = 0]
  /\ todo' = [todo EXCEPT ![w] = <<>>]

(* Where the exception of an awaited call lands: the try/catch of          *)
(* executeRule around the action, and the one of process() around          *)
(* everything.  markFailed stands in the catch of process(): when it       *)
(* throws, the DLQ step is not reached.                                    *)
InTry == {"markProcessing", "findAudit", "createAudit", "findRules", "actions", "fail"}

OnThrow ==
  [p \in InTry \cup {"complete", "markFailed"} |->
     IF p \in InTry THEN "markFailed" ELSE IF p = "complete" THEN "fail" ELSE "throw"]

(* The database write of w's step is done: the run goes on to p, or has    *)
(* lost the answer and takes the exception path.                           *)
Proceed(w, p) ==
  \/ GoTo(w, p)
  \/ "ack" \in faults /\ GoTo(w, OnThrow[pc[w]])

(* The database is out of reach for one statement.                         *)
StepThrows(w) ==
  /\ "db" \in faults
  /\ pc[w] \in DOMAIN OnThrow
  /\ GoTo(w, OnThrow[pc[w]])
  /\ UNCHANGED <<faults, valid, rules, job, dbVars, dlq, worldVars>>

-----------------------------------------------------------------------------
(* The queue.                                                              *)

(* Custom job ids, split at their colons.  BullMQ keeps ":" for itself:    *)
(* add() throws on an id with a colon, unless it has three parts.          *)
JobId(e) == <<"automation", "event", e>>
DlqJobId(e) == <<"dlq", "automation-events">> \o JobId(e)

AcceptsCustomId(id) == Len(id) \in {1, 3}

(* AutomationQueueProducer.enqueue: while the job of e is retained, add()  *)
(* with its jobId changes nothing.                                         *)
Enqueue(e) ==
  /\ AcceptsCustomId(JobId(e))
  /\ job[e].state = "absent"
  /\ job[e].adds < MaxAdds
  /\ job' = [job EXCEPT ![e] = [state |-> "waiting", owner |-> NoWorker, made |-> 0,
                                stalled |-> 0, adds |-> job[e].adds + 1]]
  /\ UNCHANGED <<faults, valid, rules, runVars, dbVars, dlq, worldVars>>

Evict(e) ==
  /\ "evict" \in faults
  /\ job[e].state \in {"completed", "failed"}
  /\ job' = [job EXCEPT ![e].state = "absent"]
  /\ UNCHANGED <<faults, valid, rules, runVars, dbVars, dlq, worldVars>>

(* Faulty variant: the payload is taken as it comes.                       *)
TakeUnparsed(w, e) ==
  /\ pc[w] = "idle"
  /\ job[e].state = "waiting"
  /\ job' = [job EXCEPT ![e].state = "active", ![e].owner = w]
  /\ pc' = [pc EXCEPT ![w] = "markProcessing"]
  /\ on' = [on EXCEPT ![w] = e]
  /\ made' = [made EXCEPT ![w] = job[e].made]
  /\ UNCHANGED <<faults, valid, rules, todo, dbVars, dlq, worldVars>>

(* A free slot fetches the job and process() parses its payload: a         *)
(* ZodError goes to the first branch of the catch block.                   *)
Take(w, e) ==
  /\ pc[w] = "idle"
  /\ job[e].state = "waiting"
  /\ job' = [job EXCEPT ![e].state = "active", ![e].owner = w]
  /\ pc' = [pc EXCEPT ![w] = IF valid[e] THEN "markProcessing" ELSE "markInvalidPayload"]
  /\ on' = [on EXCEPT ![w] = e]
  /\ made' = [made EXCEPT ![w] = job[e].made]
  /\ UNCHANGED <<faults, valid, rules, todo, dbVars, dlq, worldVars>>

(* The lock of an active job expires: nobody renews it, or the run that    *)
(* should has lost Redis.  The stalled-job check puts the job back, or     *)
(* fails it once it has stalled more than maxStalledCount times.           *)
Abandoned(e) == job[e].state = "active" /\ on[job[e].owner] # e

(* Faulty variant: stalls are not counted.                                 *)
StallUncounted(e) ==
  /\ job[e].state = "active"
  /\ Abandoned(e) \/ "zombie" \in faults
  /\ job' = [job EXCEPT ![e].state = "waiting", ![e].owner = NoWorker]
  /\ UNCHANGED <<faults, valid, rules, runVars, dbVars, dlq, worldVars>>

Stall(e) ==
  /\ job[e].state = "active"
  /\ Abandoned(e) \/ "zombie" \in faults
  /\ job' = [job EXCEPT ![e] =
       IF @.stalled < MaxStalled
       THEN [@ EXCEPT !.state = "waiting", !.owner = NoWorker, !.stalled = job[e].stalled + 1]
       ELSE [@ EXCEPT !.state = "failed", !.owner = NoWorker]]
  /\ UNCHANGED <<faults, valid, rules, runVars, dbVars, dlq, worldVars>>

Crash(w) ==
  /\ "crash" \in faults
  /\ pc[w] # "idle"
  /\ Release(w)
  /\ UNCHANGED <<faults, valid, rules, job, dbVars, dlq, worldVars>>

(* What the worker reports to BullMQ counts only under the job's lock.     *)
Report(w, outcome) ==
  /\ job' = [job EXCEPT ![on[w]] = IF @.owner = w THEN outcome ELSE @]
  /\ Release(w)
  /\ UNCHANGED <<faults, valid, rules, dbVars, dlq, worldVars>>

Settled(e, state) ==
  [job[e] EXCEPT !.state = state, !.owner = NoWorker, !.made = job[e].made + 1]

Return(w) ==
  /\ pc[w] = "return"
  /\ Report(w, Settled(on[w], "completed"))

(* Faulty variant: one attempt too many.                                   *)
ThrowOnceMore(w) ==
  /\ pc[w] = "throw"
  /\ Report(w, Settled(on[w], IF job[on[w]].made < MaxAttempts THEN "waiting" ELSE "failed"))

(* process() rethrows: BullMQ counts the attempt and retries while         *)
(* attempts are left.                                                      *)
Throw(w) ==
  /\ pc[w] = "throw"
  /\ Report(w, Settled(on[w], IF job[on[w]].made + 1 < MaxAttempts THEN "waiting" ELSE "failed"))

(* job.discard() and UnrecoverableError: no retry.                         *)
Discard(w) ==
  /\ pc[w] = "discard"
  /\ Report(w, Settled(on[w], "failed"))

-----------------------------------------------------------------------------
(* AutomationProcessor.process().                                          *)

WriteLog(e, status, attempts) ==
  jobLog' = [jobLog EXCEPT ![e] = [status |-> status, attempts |-> attempts]]

(* bestEffortMarkInvalidPayload: the row of e, a row of its own            *)
(* (invalid:<jobId>) or, when the write fails, none; then discard.         *)
MarkInvalidPayload(w) ==
  /\ pc[w] = "markInvalidPayload"
  /\ WriteLog(on[w], "FAILED", made[w] + 1) \/ UNCHANGED jobLog
  /\ GoTo(w, "discard")
  /\ UNCHANGED <<faults, valid, rules, job, audit, row, dlq, worldVars>>

MarkProcessing(w) ==
  /\ pc[w] = "markProcessing"
  /\ WriteLog(on[w], "PROCESSING", made[w])
  /\ Proceed(w, "findAudit")
  /\ UNCHANGED <<faults, valid, rules, job, audit, row, dlq, worldVars>>

(* Faulty variants: a save() that does not look for an earlier record, and *)
(* one whose error is only logged.                                         *)
FindAuditUnread(w) ==
  /\ pc[w] = "findAudit"
  /\ GoTo(w, "createAudit")
  /\ UNCHANGED <<faults, valid, rules, job, dbVars, dlq, worldVars>>

CreateAuditBestEffort(w) ==
  /\ pc[w] = "createAudit"
  /\ \/ audit' = [audit EXCEPT ![on[w]] = @ + 1]
     \/ "db" \in faults /\ UNCHANGED audit
  /\ GoTo(w, "findRules")
  /\ UNCHANGED <<faults, valid, rules, job, jobLog, row, dlq, worldVars>>

(* AuditLogAutoMationService.save: look, then create.  event_id has no     *)
(* unique constraint, so the create never fails on a duplicate.            *)
FindAudit(w) ==
  /\ pc[w] = "findAudit"
  /\ GoTo(w, IF audit[on[w]] > 0 THEN "findRules" ELSE "createAudit")
  /\ UNCHANGED <<faults, valid, rules, job, dbVars, dlq, worldVars>>

CreateAudit(w) ==
  /\ pc[w] = "createAudit"
  /\ audit' = [audit EXCEPT ![on[w]] = @ + 1]
  /\ Proceed(w, "findRules")
  /\ UNCHANGED <<faults, valid, rules, job, jobLog, row, dlq, worldVars>>

(* RuleEngineService.process: the active rules that match now.             *)
FindRules(w) ==
  /\ pc[w] = "findRules"
  /\ todo' = [todo EXCEPT ![w] = rules[on[w]]]
  /\ pc' = [pc EXCEPT ![w] = "actions"]
  /\ UNCHANGED <<faults, valid, rules, job, on, made, dbVars, dlq, worldVars>>

Reordered(plan) ==
  {p \in Plans : \E f \in Bijection(DOMAIN p, DOMAIN plan) : \A i \in DOMAIN p : p[i] = plan[f[i]]}

(* orderBy priority alone leaves the order of equals to the database.      *)
EditRules(e) ==
  /\ \E p \in Plans :
       /\ "edit" \in faults \/ ("reorder" \in faults /\ p \in Reordered(rules[e]))
       /\ rules' = [rules EXCEPT ![e] = p]
  /\ UNCHANGED <<faults, valid, job, runVars, dbVars, dlq, worldVars>>

(* Faulty variant: an error of markCompleted is only logged.               *)
MarkCompletedBestEffort(w) ==
  /\ pc[w] = "actions"
  /\ todo[w] = <<>>
  /\ \/ WriteLog(on[w], "COMPLETED", jobLog[on[w]].attempts)
     \/ "db" \in faults /\ UNCHANGED jobLog
  /\ GoTo(w, "return")
  /\ UNCHANGED <<faults, valid, rules, job, audit, row, dlq, worldVars>>

(* All actions done or skipped.                                            *)
MarkCompleted(w) ==
  /\ pc[w] = "actions"
  /\ todo[w] = <<>>
  /\ WriteLog(on[w], "COMPLETED", jobLog[on[w]].attempts)
  /\ Proceed(w, "return")
  /\ UNCHANGED <<faults, valid, rules, job, audit, row, dlq, worldVars>>

(* Faulty variants: attemptsMade not incremented, or incremented twice.    *)
isFinalAttemptLate(w) == made[w] >= MaxAttempts
isFinalAttemptEarly(w) == made[w] + 2 >= MaxAttempts

isFinalAttempt(w) == made[w] + 1 >= MaxAttempts

MarkFailed(w) ==
  /\ pc[w] = "markFailed"
  /\ WriteLog(on[w], IF isFinalAttempt(w) THEN "FAILED" ELSE "RETRYING", made[w] + 1)
  /\ Proceed(w, IF isFinalAttempt(w) THEN "moveToDlq" ELSE "throw")
  /\ UNCHANGED <<faults, valid, rules, job, audit, row, dlq, worldVars>>

(* bestEffortMoveToDlq: an add that throws is logged and forgotten.  It    *)
(* always throws: the id has five parts, and BullMQ refuses it.            *)
MoveToDlq(w) ==
  /\ pc[w] = "moveToDlq"
  /\ dlq' = IF AcceptsCustomId(DlqJobId(on[w])) THEN dlq \cup {on[w]} ELSE dlq
  /\ GoTo(w, "throw")
  /\ UNCHANGED <<faults, valid, rules, job, dbVars, worldVars>>

-----------------------------------------------------------------------------
(* RuleEngineService.executeRule(), for the action at the head of todo.    *)

NextAction(w) ==
  /\ pc' = [pc EXCEPT ![w] = "actions"]
  /\ todo' = [todo EXCEPT ![w] = Tail(@)]
  /\ UNCHANGED <<on, made>>

(* Faulty variant: the answer of acquire() is not looked at.               *)
AcquireUnasked(w) ==
  /\ pc[w] = "actions"
  /\ todo[w] # <<>>
  /\ row' = IF Acquirable(row[KeyAtHand(w)])
            THEN [row EXCEPT ![KeyAtHand(w)] = Acquired(@)] ELSE row
  /\ Proceed(w, "perform")
  /\ UNCHANGED <<faults, valid, rules, job, jobLog, audit, dlq, worldVars>>

Acquire(w) ==
  /\ pc[w] = "actions"
  /\ todo[w] # <<>>
  /\ Acquirable(row[KeyAtHand(w)])
  /\ row' = [row EXCEPT ![KeyAtHand(w)] = Acquired(@)]
  /\ Proceed(w, "perform")
  /\ UNCHANGED <<faults, valid, rules, job, jobLog, audit, dlq, worldVars>>

(* !acquired: continue.                                                    *)
Skip(w) ==
  /\ pc[w] = "actions"
  /\ todo[w] # <<>>
  /\ ~Acquirable(row[KeyAtHand(w)])
  /\ NextAction(w)
  /\ UNCHANGED <<faults, valid, rules, job, dbVars, dlq, worldVars>>

TakesPlace(w) ==
  /\ effects' = [effects EXCEPT ![KeyAtHand(w)] = @ + 1]
  /\ sent' = [sent EXCEPT ![on[w]] = @ \cup {Head(todo[w])}]

Perform(w) ==
  /\ pc[w] = "perform"
  /\ TakesPlace(w)
  /\ GoTo(w, "complete")
  /\ UNCHANGED <<faults, valid, rules, job, dbVars, dlq>>

(* Faulty variant: the action's exception is only logged.                  *)
PerformSwallowsError(w) ==
  /\ "action" \in faults
  /\ pc[w] = "perform"
  /\ UNCHANGED worldVars
  /\ GoTo(w, "complete")
  /\ UNCHANGED <<faults, valid, rules, job, dbVars, dlq>>

PerformThrows(w) ==
  /\ "action" \in faults
  /\ pc[w] = "perform"
  /\ \/ UNCHANGED worldVars
     \/ "late" \in faults /\ TakesPlace(w)
  /\ GoTo(w, "fail")
  /\ UNCHANGED <<faults, valid, rules, job, dbVars, dlq>>

Complete(w) ==
  /\ pc[w] = "complete"
  /\ row' = [row EXCEPT ![KeyAtHand(w)] = Completed(@)]
  /\ \/ NextAction(w)
     \/ "ack" \in faults /\ GoTo(w, OnThrow[pc[w]])
  /\ UNCHANGED <<faults, valid, rules, job, jobLog, audit, dlq, worldVars>>

(* Faulty variants: the lock is kept, and the loop goes on.                *)
FailKeepingLock(w) ==
  /\ pc[w] = "fail"
  /\ GoTo(w, "markFailed")
  /\ UNCHANGED <<faults, valid, rules, job, dbVars, dlq, worldVars>>

FailAndGoOn(w) ==
  /\ pc[w] = "fail"
  /\ row' = [row EXCEPT ![KeyAtHand(w)] = Failed(@)]
  /\ NextAction(w)
  /\ UNCHANGED <<faults, valid, rules, job, jobLog, audit, dlq, worldVars>>

(* fail(), then the action's exception is rethrown.                        *)
Fail(w) ==
  /\ pc[w] = "fail"
  /\ row' = [row EXCEPT ![KeyAtHand(w)] = Failed(@)]
  /\ GoTo(w, "markFailed")
  /\ UNCHANGED <<faults, valid, rules, job, jobLog, audit, dlq, worldVars>>

(* idempotencyLockTtlMs passes.                                            *)
Expire(k) ==
  /\ row[k].status = "PROCESSING" /\ ~row[k].stale
  /\ "overrun" \in faults \/ \A w \in Workers : HeldBy(w) # k
  /\ row' = [row EXCEPT ![k] = Outlived(@)]
  /\ UNCHANGED <<faults, valid, rules, job, runVars, jobLog, audit, dlq, worldVars>>

-----------------------------------------------------------------------------
RunStep(w) ==
  \/ MarkInvalidPayload(w) \/ MarkProcessing(w) \/ FindAudit(w) \/ CreateAudit(w)
  \/ FindRules(w) \/ Acquire(w) \/ Skip(w) \/ Perform(w) \/ PerformThrows(w)
  \/ Complete(w) \/ Fail(w) \/ MarkCompleted(w) \/ MarkFailed(w) \/ MoveToDlq(w)
  \/ Return(w) \/ Throw(w) \/ Discard(w) \/ StepThrows(w)

Next ==
  \/ \E w \in Workers :
       \/ RunStep(w)
       \/ Crash(w)
       \/ \E e \in Events : Take(w, e)
  \/ \E e \in Events : Enqueue(e) \/ Evict(e) \/ Stall(e) \/ EditRules(e)
  \/ \E k \in Keys : Expire(k)

Spec == Init /\ [][Next]_vars

(* A run that is not crashed goes on; a free slot fetches a waiting job;   *)
(* the stalled-job check runs every stalledInterval.                       *)
Fairness ==
  /\ \A w \in Workers : WF_vars(RunStep(w))
  /\ \A e \in Events : /\ WF_vars(\E w \in Workers : Take(w, e))
                       /\ WF_vars(Abandoned(e) /\ Stall(e))

FairSpec == Spec /\ Fairness

-----------------------------------------------------------------------------
(* What the job's outcome and the job log say of each other.               *)

Without(some) == faults \cap some = {}

(* No run is stale and no write of the job log fails: then a job that      *)
(* BullMQ counts as completed or failed for good has a log row that says   *)
(* the same ("Runtime/system errors are marked failed or retrying",        *)
(* automation.processor.ts), crashes and all.  Only a job that BullMQ      *)
(* fails for stalling, outside process(), keeps the row it had.            *)
SettledLogAgrees ==
  Without({"zombie", "db"}) =>
    \A e \in Events : valid[e] =>
      /\ job[e].state = "completed" => jobLog[e].status = "COMPLETED"
      /\ job[e].state = "failed" =>
           \/ jobLog[e].status = "FAILED"
           \/ job[e].made < MaxAttempts /\ job[e].stalled = MaxStalled

(* Whatever fails, as long as no stale run writes: BullMQ never counts a   *)
(* job as completed whose log row is in another state (markCompleted is    *)
(* awaited before process() returns).                                      *)
CompletedIsLogged ==
  Without({"zombie"}) =>
    \A e \in Events : job[e].state = "completed" => jobLog[e].status = "COMPLETED"

(* A log row says FAILED, where it could say RETRYING, only if no attempt  *)
(* is left after the one BullMQ has under way: by whatever run it was      *)
(* written, a stale one included, and whatever stalls, crashes and lost    *)
(* answers there were before.  An event enqueued anew starts with the row  *)
(* of its first life, so the property is about that one.                   *)
FailedRowIsFinal ==
  \A e \in Events : valid[e] /\ job[e].adds <= 1 /\ jobLog[e].status = "FAILED" =>
    job[e].made + 1 >= MaxAttempts

-----------------------------------------------------------------------------
(* The actions.                                                            *)

ActionsOf(e) == {rules[e][i] : i \in DOMAIN rules[e]}

(* The actions of e's rules have idempotency keys of their own.            *)
OwnKeys(e) ==
  \A i, j \in DOMAIN rules[e] :
    buildIdempotencyKey(e, rules[e][i]) = buildIdempotencyKey(e, rules[e][j]) => i = j

(* The promise of the retry scheme ("Failed actions rethrow so BullMQ      *)
(* retries the whole job", rule-engine.service.ts): when the job completes *)
(* every action took place, the one that failed at first included, in      *)
(* whatever order each attempt found rules of equal priority.              *)
CompletedActionsSent ==
  Without({"crash", "zombie", "db", "ack", "edit"}) =>
    \A e \in Events :
      job[e].state = "completed" /\ OwnKeys(e) => ActionsOf(e) \subseteq sent[e]

(* "Executes actions sequentially to preserve action order" (executeRule): *)
(* no action takes place before the actions in front of it did, over all   *)
(* attempts.                                                               *)
InOrder ==
  Without({"crash", "zombie", "db", "ack", "edit", "reorder"}) =>
    \A e \in Events : OwnKeys(e) =>
      \A i, j \in DOMAIN rules[e] :
        i < j /\ rules[e][j] \in sent[e] => rules[e][i] \in sent[e]

(* After crashes and database errors a completed job may have skipped an   *)
(* action, but never without a trace: the key of the action it skipped is  *)
(* still PROCESSING.                                                       *)
SkippedLeavesTrace ==
  Without({"zombie", "edit"}) =>
    \A e \in Events : job[e].state = "completed" /\ OwnKeys(e) =>
      \A a \in ActionsOf(e) \ sent[e] : row[buildIdempotencyKey(e, a)].status = "PROCESSING"

(* While a job has one run at a time, retries and crashes write its audit  *)
(* record only once: save() looks before it creates, and nothing else      *)
(* keeps event_id unique.                                                  *)
AuditOnce ==
  Without({"zombie"}) => \A e \in Events : audit[e] <= 1

(* "The event is persisted to audit logs before rules execute": no action  *)
(* takes place for an event without an audit record, whatever goes wrong.  *)
AuditBeforeEffect ==
  \A e \in Events : sent[e] # {} => audit[e] > 0

(* An invalid payload is refused for good at its first attempt: nothing of *)
(* it is carried out or audited, no run of it comes to the DLQ step, and   *)
(* it is not retried ("No retry and no DLQ for schema errors"), whatever   *)
(* goes wrong.                                                             *)
InvalidInert ==
  \A e \in Events : ~valid[e] =>
    /\ sent[e] = {} /\ audit[e] = 0
    /\ \A w \in Workers : on[w] = e => pc[w] # "moveToDlq"
    /\ job[e].state \in {"waiting", "active"} => job[e].made = 0

(* An enqueued job gets an outcome: every attempt ends, a dead worker's    *)
(* job is given back, and both attempts and stalls are counted.            *)
EveryJobSettles ==
  \A e \in Events :
    job[e].state = "waiting" ~> job[e].state \in {"completed", "failed", "absent"}

-----------------------------------------------------------------------------
(* Statements of the repository that do not hold without the conditions of *)
(* the properties above; the violation runs refute them.                   *)

(* "Failed actions rethrow so BullMQ retries the whole job" (a comment of  *)
(* rule-engine.service.ts): an action that failed is retried, so a         *)
(* completed job has none that did not take place.                         *)
FailedActionsAreRetried ==
  \A e \in Events :
    job[e].state = "completed" /\ OwnKeys(e) => ActionsOf(e) \subseteq sent[e]

(* "If there are several actions they are executed one after the other"    *)
(* (2.executeRule.md): each of them is.                                    *)
EveryActionExecutes ==
  \A e \in Events : job[e].state = "completed" => ActionsOf(e) \subseteq sent[e]

(* "Idempotency keys protect already-completed actions"                    *)
(* (rule-engine.service.ts): what is COMPLETED stays so.                   *)
CompletedIsProtected ==
  [][\A k \in Keys : row[k].status = "COMPLETED" => row'[k].status = "COMPLETED"]_vars

(* AUTOMATION_DLQ_QUEUE holds the "final-attempt automation failures"      *)
(* (bullmq.module.ts): a valid event whose job failed for good is there.   *)
ExhaustedInDlq ==
  \A e \in Events : job[e].state = "failed" /\ valid[e] => e \in dlq

-----------------------------------------------------------------------------
(* Seen from the idempotency table, the worker runs are callers that keep  *)
(* to the protocol of IdempotencyKeys, so what is proved there holds of    *)
(* the pipeline: the loop over actions, retries, stalls, crashes and stale *)
(* runs never touch a key in another way.                                  *)
StageOf(w) ==
  IF pc[w] = "perform" THEN "acting"
  ELSE IF pc[w] = "complete" THEN "closing"
  ELSE IF pc[w] = "fail" THEN "failing"
  ELSE "idle"

KeyTable == INSTANCE IdempotencyKeys WITH
  Callers <- Workers,
  AttemptNumbers <- Nat,
  faults <- faults \cap {"overrun", "ack"},
  stage <- [w \in Workers |-> StageOf(w)],
  held <- [w \in Workers |-> HeldBy(w)]

ImplementsKeys == KeyTable!Spec

=============================================================================
