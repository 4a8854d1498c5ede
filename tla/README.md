# Verification of the automation backend

TLA+ specifications of this repository, the TLC runs that check them on small
instances, and TLAPS proofs for every value of the constants. Paths are relative
to the repository root (`src/...` is the application, `prisma/...` its schema).

    tlc -workers 2 -config <run>.cfg <MC module>     # a run of the table below
    tlapm <module>Proofs.tla                         # the proofs

## 1. The system

An *automation event* (a user was created, a booking paid, ...) is published to a
BullMQ queue. A worker process takes the job, writes an audit record, loads the
active rules for the event's type, keeps those whose conditions match, and carries
out their actions: mails, notifications, webhooks. Around this core stand the
management of rules, files with a queue of their own, users, and read models.

| component | state | operations | talks to |
|---|---|---|---|
| producer, `automation-queue.producer.ts`, `bullmq.module.ts` | Redis queue: one job per event id while retained | `enqueue`, `enqueueAndWait`, `testJobEnqueue` | queue |
| worker runner, `automation-worker.runner.ts` | concurrency slots, BullMQ locks | fetch, report, stalled-job check | processor |
| processor, `automation.processor.ts` | none across awaits but its program counter | `process` | all below |
| job log, `job-log.service.ts` | one row per event: status, attempts | `markProcessing`, `markCompleted`, `markFailed`, `markInvalidPayload` | Postgres |
| audit record, `audit-log-auto.service.ts` | rows per event, no unique key | `save`: look, then create | Postgres |
| rule engine, `rule-engine.service.ts` | the actions left in the loop | `process`, `executeRule`, `matchConditions`, `resolveTemplate` | rules, keys, action services |
| idempotency keys, `idempotency.service.ts` | one row per key: status, locked_at, attempts | `acquire`, `complete`, `fail` | Postgres |
| action services, `email-`, `notification-action.service.ts`, `executeWebhook` | email and notification logs | `send` | SMTP, Pusher, HTTP |
| dead letters, `automation-dlq.service.ts` | a queue meant for the events that failed for good | `moveToDlq` | queue |
| rules, `modules/rule` | rule, conditions, actions, config rows, each soft-deleted | create, update, remove, duplicate check | read by the engine |
| files, `modules/files` | file rows, S3 objects, file queue | confirm, delete, sign, process | S3, queue |
| users, admins | rows with unique email / username / userId | create, update, remove | Postgres |
| notification log | read flag and time | list, mark one, mark all | written by the actions |
| partition bootstrap (the maintenance process) | one table per service and log | create what is missing when the process starts | Postgres; the other processes do not wait for it |
| log cleanup | - | delete rows older than three months | Postgres |

**What is hard.** Nothing runs in parallel inside a process, but every `await` lets
another run in, several processes share the tables, and BullMQ delivers *at least
once*: a job comes back after a thrown error (retry), after a dead worker (stall),
or while its first run is still alive (lost lock). Each statement may fail, commit
and lose its answer, or be the last one before a crash; and the idempotency lock
has a time limit which knows nothing of its holder.

**What makes the components correct.**
- keys: no two runs perform one keyed action together; what is COMPLETED was
  performed and is not performed again; a failed action can be retried.
- pipeline: a completed job carried out every action, in order; the job log and
  the audit log agree with the queue, and the dead letter queue has what failed for
  good; an invalid payload has no effect; every job settles.
- rules: no two live rules with the same event, service and conditions; what is stored
  is what the duplicate check was asked about; deletion takes everything along, and no
  action is left without its config.
- action services: the log rows say what happened; who is to be told is told, and no
  more often than the retries need; a call that returns took effect, once.
- files: one primary file per entity; no row whose object is gone, and no object of a
  deleted row left, up to the queue's retries.
- users: unique addresses among the rows the application can see.
- partitions: a process past its bootstrap can insert anywhere; starting twice is
  harmless in the end.

`PROJECT.json` lists, under `hazards`, each line where one of these bites, with the
properties that cover it or the reason why none does.

## 2. Modules

| module | models |
|---|---|
| `IdempotencyTable` | one row of `automation_idempotency_keys` and the three SQL statements on it |
| `GuardedActions` | the abstract promise: a key is open, held by one caller, or done for ever |
| `IdempotencyKeys` | concurrent callers of `acquire` / action / `complete` / `fail`; implements `GuardedActions` |
| `AutomationWorker` | queue, worker runs, processor, rule loop, logs, DLQ step; implements `IdempotencyKeys` |
| `RuleConditions` | matching, the column mapping, sparse operations, the normal form of the duplicate check, as operators |
| `RuleBook` | the abstract promise: a list of identities, changed in single steps, never twice the same |
| `RuleStore` | `create`, `update`, `remove` over both child services and the repositories, overlapping; implements `RuleBook` where requests come one at a time |
| `PartitionBootstrap` | maintenance processes that create partitions, lose the race, die, start again |
| `ActionCalls` | the abstract promise: a call that returns took effect, once; one that throws may have |
| `ActionServices` | mail, notification and webhook, called by overlapping runs, and the notification log's two write operations; composed with `PartitionBootstrap`, implements `ActionCalls` |
| `Files` | uploads, `confirmUpload`, `deleteFile`, the delete jobs and S3 |
| `MC...` | constants for TLC |
| `IdempotencyTableProofs`, `IdempotencyKeysProofs` | theorems about one row, and about callers that compete for keys |
| `AutomationWorkerProofs`, `ActionOrderProofs` | theorems about the pipeline: its logs, queue and keys; what its retries make of the actions of an event |
| `FilesProofs`, `ActionServicesProofs` | theorems about files; about partitions, mails, notifications |
| `RuleStoreProofs`, `RuleBookProofs` | theorems about the tables of rule management; about its prediction, its duplicate check and the refinement of `RuleBook` |

How they fit together: `AutomationWorker` performs an action in one step that may throw
before or after its effect. `ActionServices` opens that step, and `ImplementsActionCalls`
shows that what it opens into is no more than the step assumed. `AutomationWorker` takes
the rules of an event as a value that may change between attempts; `RuleStore` is what
changes them.

### From the code to the model

*One action is one awaited call with the synchronous code after it.* The program
counter `pc[w]` of a run stands at the await it makes next; `OnThrow` says where an
exception of that call lands (the `try` of `executeRule` around the action, the `try`
of `process()` around everything, the unprotected `markFailed` in its `catch`).

| model | code |
|---|---|
| `Enqueue`, `Evict` | `queue.add` with `jobId automation:event:<eventId>`: a no-op while the job is retained; `removeOnComplete` / `removeOnFail` |
| `Take` | the worker callback and `AuditLogSchema.parseAsync`; `valid[e]` is its verdict |
| `MarkProcessing`, `FindAudit`, `CreateAudit`, `FindRules` | the awaits of the `try` block, `save()` being two |
| `Acquire`, `Skip`, `Perform`, `PerformThrows`, `Complete`, `Fail` | the loop body of `executeRule` for the action at the head of `todo[w]` |
| `MarkCompleted`, `Return` | end of the `try` block, then BullMQ's `moveToCompleted` |
| `MarkFailed`, `MoveToDlq`, `Throw` | the second branch of the `catch` block, then BullMQ's retry or `moveToFailed` |
| `MarkInvalidPayload`, `Discard` | the `ZodError` branch |
| `StepThrows`, `Proceed` | a Postgres statement fails; it commits and its answer is lost |
| `Stall`, `Crash`, `Report` | a lock expires; a worker dies; a report counts only under the job's lock |
| `Expire` | `idempotencyLockTtlMs` passes for a PROCESSING row |
| `EditRules` | rules change between two attempts, or equals come in another order (`orderBy: priority` says nothing of them) |
| `RuleStore`: `Start`, `Find`, `CheckDuplicate`, `Insert` / `UpdateParent`, `Reload` | the controller's parsed request and the awaits of `RuleService.create` and `update` |
| `DeleteCondition`, `CreateCondition`, `FindCondition`, `RewriteCondition` | one pass of the loop of `RuleConditionService.applyOperations` |
| `DeleteAction`, `CreateAction`, `FindAction`, `FindConfig`, `WriteConfig` | the same for `RuleActionService`; `DeleteAction` is one transaction |
| `CollectActions`, `SoftDelete` | `RuleRepository.softDelete`: the query before the transaction, the transaction |
| `PartitionBootstrap`: `Launch`, `Look`, `CreatePartition`, `BootFails` | start of the maintenance process, the two statements of the loop, `process.exit(1)` |
| `ActionServices`: `Call`, `Leave` | `executeRule` around a call: `acquire` before it, `complete` or `fail` after it |
| `CreateEmailLog`, `SendMail`, `MarkSent`, `MarkFailed` | `EmailActionService.send`; the first is outside its `try`, the last is its `catch`, which may itself throw |
| `CreateNotice`, `TellUser`, `Trigger` | `NotificationActionService.send` |
| `Fetch` | `executeWebhook` |
| `FindUnread`, `MarkAsRead`, `MarkAllAsRead` | `NotificationLogService` |
| `Files`: `ConfirmUpload`, `VerifyFileExists`, `UnsetPrimary`, `Create` | the awaits of `confirmUpload` |
| `DeleteFile`, `SoftDelete`, `AddDeleteS3FileJob` | the awaits of `deleteFile` |
| `Take`, `DeleteS3File`, `DeleteFails`, `Stall`, `Forget` | the file worker and its queue's options |

Names of the form `...Late`, `...Unread`, `...KeepingLock` and so on, introduced by a
"Faulty variant" comment, are no part of the system: they are the mutations each
property is tried against.

### Abstractions

- *Rules* of an event are one sequence of actions (those of the matching rules, in
  priority order, templates resolved). An action is its rule, type and target, which
  is what its key is built from, and an `id` which is not part of the key.
- *Action services* are one step with three outcomes: done, thrown, thrown although
  the outside world saw it ("late": the mail was sent and the log update failed, the
  webhook timed out after delivery). A webhook that answers with a non-2xx status
  counts as done, as in the code.
- *Time.* `locked_at` is a flag `stale`, set at any moment by `Expire`; without
  "overrun" only for a key nobody holds. Backoff, rate limiter and concurrency are
  scheduling: a job that waits for its backoff is `waiting`, and TLC takes it whenever
  it likes.
- *BullMQ* is external. From the options the code gives it: `attempts`,
  `maxStalledCount`, retention, custom job ids, `UnrecoverableError`. `attemptsMade`
  grows when a run reports, and a report without the lock is refused.
- *Custom job ids* are sequences of the parts between their colons. BullMQ (5.76.5 in
  `pnpm-lock.yaml`) keeps the colon for its own keys: `add` throws on a custom id with a
  colon unless it has three parts (`AcceptsCustomId`; this is BullMQ's code, not the
  repository's). `automation:event:<eventId>` passes. The id of a dead letter,
  `dlq:automation-events:automation:event:<eventId>`, has five parts and never does;
  `bestEffortMoveToDlq` logs the error and returns, so `MoveToDlq` goes on to `throw`
  with the dead letter queue, a set of events, as it was: empty.
- Events are objects, as `enqueue` types them: for a payload that is a bare string the
  `in` test of the `catch` block would itself throw.
- The job log keeps `status` and `attempts`, the columns a property speaks of. A
  payload so broken that its failure is logged under `invalid:<jobId>` leaves the
  event's own row alone (one of the two outcomes of `MarkInvalidPayload`).

- *Conditions.* A value is a member of a small set that comes with what JavaScript makes
  of it: what `Number()` gives, whether it is an array and of what. Stored rows are
  positions in a sequence, so a soft-deleted row keeps its id.
- *Requests to rule management* are a set of parsed bodies chosen to meet one another:
  creates with and without the conditions field, updates that swap, drop and rewrite
  conditions, actions of the rule itself and of another one.
- *A notification* is whether a user is to be told, whether it has an `eventName`, and
  what kind of `pushChannel`. Its template is resolved. `marks` counts the writes of
  `read_at`: more than one means the time was overwritten.
- *Partitions.* The run has two of the 4 x |ServiceName| partitions, those the actions
  insert into, and starts with any prefix of them, as an earlier start would have left.
- *Files.* A path goes by the name of the key it was signed with; `asked` keeps the
  `isPrimary` of the confirmation so that properties can speak of it. The job that
  `confirmUpload` adds does nothing (`processUploadedFile` is a placeholder), so neither
  it nor its refusal is modelled: refused, the caller sees an error and the row is there.
  An error of S3 is "not uploaded", as `verifyFileExists` catches everything. A lost
  answer is the step followed by `Abort`.

### Faults

`faults`, a variable fixed by `Init`, says what an execution has to live with (each
module's head lists its own). Some are failures of the world (db, ack, crash, late, s3,
queue), some are inputs or overlaps that not every claim survives (writers, removal,
foreign, overlap, twice, mixed), so that one module serves both the claim and the
behaviour without it. Each property names the faults it excludes, so a run that includes all of
them checks the property where it is claimed and the theorem states precisely when it
holds. Excluding a fault is never hidden in the model.

### Fairness

`EveryJobSettles` assumes, of every run, that it makes its next step unless its
process dies (each awaited call has a timeout or returns); that a free slot eventually
fetches a waiting job (BullMQ workers block on the queue); and that the stalled-job
check, which every worker makes each `stalledInterval` (`QUEUE_STALLED_INTERVAL_MS`),
finds a job whose lock nobody renews. Nothing is assumed of producers, eviction, lock
expiry, or of crashes ending: each crash is paid for by the stall counter.

`EveryMaintainerComesUp` assumes that a maintenance process that exited is started again
(`restart: always` in `docker-compose.yml`) and that its statements return. The process
that loses the race for a partition exits, but the partition is there for its next start,
so it loses at most once for each.

`DeletedObjectGoes` assumes that an awaited call of a request returns, that a file worker
takes a waiting job, and that S3 answers it, well or not. It is stated without "abort",
"queue" and "again": in those cases the code leaves the object.

## 3. Runs

| run | property: what it shows |
|---|---|
| `idem_keys` | `OneHolder` without overrun; `CompletedWasPerformed`, `EffectsWithinAttempts` under every fault; `ImplementsGuardedActions` without overrun and lost answers |
| `pipeline_orderly` | `SettledLogAgrees`: log row and queue, over crashes, lost answers, retries and a re-enqueue; `CompletedActionsSent`, `InOrder`: the promises of a healthy database and worker; `CompletedIsLogged`, `SkippedLeavesTrace`, `AuditOnce`, `EveryJobSettles`: what survives crashes, failing statements, lost answers |
| `pipeline_everything` | `TypeOK`, `FailedRowIsFinal`, `AuditBeforeEffect`, `InvalidInert`, `ImplementsKeys`: what survives everything, stale runs and edited rules included |
| `rules` | `LiveRulesDistinct`, `StoredAsForeseen`, `MatchesAsForeseen`: the duplicate check and its prediction do their work one request at a time (the second also where removals overlap no create or update of the same rule, the third as long as no request changes a condition twice); `DeletedTogether` also under overlapping writers; `LiveActionHasConfig`, `EventHasChannel`: what overlapping, aborted and removed-under-the-hand updates cannot break; `ImplementsRuleBook` |
| `delivery` | `UpMeansComplete`, `EveryMaintainerComesUp`: the partitions; `StatusHonest`, `PendingIsInProgress`: the email log; `DeliveredAsConfigured`, `NoNeedlessRepeat`: who is told, and how often; `FirstReadStays`: the notification log; `ImplementsActionCalls` under every fault |
| `files` | `OnePrimary` whatever fails, `LastPrimaryStays` whatever overlaps; `FileHasObject` under late, repeated and stalled delete jobs; `DeletedObjectGoes` |

Six more runs *refute* statements of the repository's comments and docs, and each has
an entry under `findings`:

| run | statement | what happens |
|---|---|---|
| `retry_skips_failed_action` | failed actions are retried with the whole job (`rule-engine.service.ts:39`) | when `fail()` fails as well, the retry sees a fresh PROCESSING key, skips the action and completes |
| `shared_key_skips_action` | several actions execute one after another (`docs/automation/rule-engine/2.executeRule.md:72`) | two with one type and target share a key; the second is skipped |
| `stale_run_reopens_key` | keys protect completed actions (`rule-engine.service.ts:40`) | a run whose lock was taken over overwrites COMPLETED with FAILED |
| `exhausted_without_dlq` | the DLQ holds the final-attempt failures (`bullmq.module.ts:13`) | its custom job id has five parts, BullMQ refuses it, and the error is only logged: no event is ever there |
| `duplicate_unconditional` | duplicates are rules equal in event, service and normalised conditions (`rule.service.ts:333`) | a create without the conditions field compares `{}` with `[]` and is let in |
| `update_back_and_forth` | the duplicate check compares the final effective shape (`rule.service.ts:234`) | one update turns a condition into `exists` and back: in memory the value survives, in the tables it does not |

`SkippedLeavesTrace` is the useful half of the first of these: a completed job that
skipped an action has left its key PROCESSING, so such jobs can be found with one
query on the table. `FailedRowIsFinal` is what is left of the last-attempt handling
while the dead letter queue stays empty: a log row that says FAILED, and not RETRYING,
belongs to an event whose last attempt is over or under way (a stall may give that one
back, never a further one). Together with `SettledLogAgrees`, which says when the row of
a job that failed for good does read FAILED, this makes the log the place to look. An
invalid payload is the exception, and an event enqueued anew has the row of its first
life until it is processed.

Further observations, met while modelling and left without a run of their own:

- In the catch block of the processor `markFailed` is awaited outside any `try`, before the
  DLQ step (`automation.processor.ts:145`): when the database refuses that write too, the
  DLQ step is not reached and the row of the final attempt stays PROCESSING. An accepted
  DLQ id would not help these events. `SettledLogAgrees` therefore excludes "db".
- A job that stalls more often than `maxStalledCount` is failed by BullMQ outside
  `process()`: no DLQ step, and its row stays as the last run left it, which is the second
  disjunct of `SettledLogAgrees`.
- `NotificationLogRepository.findOne` hands `findFirst` the compound key
  `id_serviceName`, which only `findUnique` knows (`NotificationLogWhereInput` has no such
  field), so `findOne` and `markAsRead` are refused by the client at run time; the unit
  tests mock the repository. The fault "refused" is this; without it the model has what
  the service would do.
- Two primary files of one entity confirmed together end up both primary, against the
  comment of `unsetPrimary` (`files.repository.ts:92`); a key confirmed twice at once can
  leave the entity with none.
- The update to SENT stands in the same `try` as the sending: if it fails the row says
  FAILED of a mail that is on its way, and the retry sends it again.
- A notification whose channel Pusher refuses tells the user once per attempt and leaves
  a row for each.
- A soft delete of an action through another rule's id marks its config and not the
  action, which the engine then skips without a word (fault "foreign" of `RuleStore`).

### Bounds

In the pipeline runs: one event, because jobs of different events share nothing: keys and rows all carry the
event's id. Two workers: one run and one that overlaps it, or a run and its
replacement. Two or three attempts (`QUEUE_ATTEMPTS` is 1 to 5): a first, a middle and
a last one are all the kinds there are; `pipeline_orderly` has three, `pipeline_everything`
two. One stall, the default of
`QUEUE_MAX_STALLED_COUNT`, reached and exceeded. Up to two actions per plan, enough for
an order and for a skip in front of a failure. `MaxAdds` bounds how often an event is
enqueued: twice in `pipeline_orderly`, where re-enqueueing matters. That run does not take
the product of all faults but seven sets of them, for otherwise
it would be too large to check at every change: failing and late actions with eviction and overrun
locks, with lost answers and eviction, with reordered rules; failing actions and eviction
with crashes, with database errors; crashes and database errors with reordered rules; and
everything but stale runs, edits, reordering and eviction (1.2 million states). Pairs not
among them, such as lost answers with reordered rules, are left to the proofs. `AttemptNumbers` (1..3) bounds the
`attempts` column in `idem_keys`; three acquires make a holder, a second one that takes
over and a third after a failure. The proofs lift every one of these bounds.

In `rules`: two requests at a time and four in all, over two rules, one of them
inactive, with a notification config from before `pushChannel` was required. The
fourteen requests are chosen to meet: two creates of one identity, updates that move one
rule onto the other's identity by its service, its event or its conditions, removals of
both and of a rule just created. Three fault sets serve one request at a time and three
let requests overlap.

Deadlock is not checked: when all jobs are settled and their additions used up the
queue is empty and the system really has nothing to do; the same holds of the requests
of the other runs.

## 4. Proofs

Every safety property of the passing runs, refinements and action properties included,
is also a theorem: it holds for every number of events, workers, requests, rules, files,
actions, attempts and stalls. The assumptions are the ASSUMEs of the modules, no more:

- plans are sequences of actions, bounds are naturals with at least one attempt, callers
  and workers are finitely many, the null values are no real ones;
- `ValuesAssumption`: the tables that say what JavaScript makes of a value are tables;
- `RequestsAssumption`: requests have passed the Zod schemas;
- `StoresAssumption`, `PastAssumption`: the rules there are to begin with came out of the
  tables (an `exists` has a boolean) and nothing went wrong before (live rules are
  distinct, deleted ones deleted with all they had, live actions have their config).
  Without the second the corresponding properties would be false in the first state;
  the empty table satisfies it.

### Keys

`IdempotencyTableProofs` states once what the three SQL statements do to a row
(`RowUpdates`); the modules on keys and on the pipeline cite it. `IdempotencyKeysProofs`:

- `TypeCorrect`, `AtMostOneHolder`: a held key is PROCESSING and not stale as long as
  there is no overrun, so `Acquirable` is false for it.
- `CompletedMeansPerformed`, `AttemptsBoundEffects`: an effect under a key belongs to an
  acquire. The count is not inductive for several stale holders, so the invariant
  strengthens it: effects plus callers that may still perform stay within attempts
  (which is why the set of callers is assumed finite).
- `KeysImplementGuardedActions`: the refinement maps a row and its holder to a phase; an
  execution with overrun or lost answers maps to the initial state for ever, so the
  theorem speaks of the others.

### Pipeline

| theorem of `AutomationWorkerProofs` | rests on |
|---|---|
| `TypeCorrect` | `JobsSound`: an active job, and only one, is owned; an unsettled one has an attempt left |
| `AuditWrittenOnce` | `RunsOwnJobs`: without stale runs a busy run owns its active job, hence is its only one; `AuditSeen`: at `createAudit` no record exists |
| `AuditPrecedesEffects` | `AuditedFirst`: past `save()` the event has a record |
| `InvalidPayloadsInert` | `RefusedRuns`: the run of an invalid event stands in the first branch of the catch block |
| `CompletionIsLogged`, `LogAgreesWithQueue` | `ReportsLogged`: what a run is about to report is what it wrote last; `RunsCountAttempts`: a run that is not stale counts the attempts its job counts. A job failed by the stalled-job check has an attempt left (`JobsSound`), which tells it from one that was exhausted |
| `FailedRowsAreFinal` | `RunsBehind`: in the first life of a job no run, stale ones included, was handed a higher attempt number than the queue's; `NotYetAdded`: before that life there is no run, no FAILED row |
| `PipelineImplementsKeys` | every step of the pipeline is a step of one caller on one key, or a stutter |

By the last theorem what `IdempotencyKeysProofs` shows of callers holds of the pipeline.

| theorem of `ActionOrderProofs` | rests on |
|---|---|
| `SkippedActionsLeaveTrace` | `AccountInv`: each action of the plan took place, has its key PROCESSING, or is still in `todo` of the event's one run; a key is COMPLETED only after its action |
| `RetriesLoseNoAction` | `LocksHeld`: while no worker dies and no statement fails, a PROCESSING key is held by a run, so that none is left when the last run returns |
| `ActionsInOrder` | `LastOf`: what a run has left are the last actions of the plan; `OrderKept`: whatever took place, all in front of it did or has its key PROCESSING |

These are proved for whatever order the database returns equals in: `EditRules` without
"edit" permutes the rules, and a permutation keeps both the set of the actions and
whether their keys are distinct (`ReorderedSame`).

### Files

| theorem of `FilesProofs` | rests on |
|---|---|
| `FilesTyped` | `JobsLeft`: a pending job has attempts and stalls left |
| `AtMostOnePrimary` | `PrimaryInv`: from `unsetPrimary` to the create the entity of an undisturbed confirmation has no primary file |
| `LastConfirmedIsPrimary` | `LastInv`: a key confirmed once has no row before its confirmation ends |
| `LiveFilesHaveObjects` | `ObjectInv`: a job pends only for the path of a deleted row; a confirmation past its HEAD finds its object or its key taken |

### Partitions and action services

| theorem of `ActionServicesProofs` | rests on |
|---|---|
| `PartitionsComplete` | `BootInv`: a process at the k-th partition has all before it |
| `ServicesTyped` | `RowsCounted`: rows and calls that have yet to insert one stay within the calls made |
| `EmailStatusHonest`, `PendingEmailsInProgress` | `OwnRows`: no two calls share a row; `MailStages`: what the row says at each await of `send` |
| `NotificationsDelivered` | `NoticeStages`, the same for notifications |
| `NotificationsNotRepeated` | `RepeatInv`: an action is one run's and none's once COMPLETED; a notification that reached the last it is for is closed |
| `FirstReadKept` | `FirstRead`: an action property, step by step |
| `ServicesImplementCalls` | a call is running, returned or threw; its row, or `reached`, says whether it took effect |

`ServicesImplementCalls` holds under every fault, and what `ActionCalls` promises is what
`Perform` and `PerformThrows` of the pipeline assume.

### Rules

| theorem of `RuleStoreProofs` | rests on |
|---|---|
| `RulesTyped` | `InStage`: what a handler remembers at each await |
| `ConfigsKept` | `ConfigInv`: as the property, with every request naming actions of its own rule |
| `RulesDeletedTogether` | `RemovalInv`: a removal past its query has seen all actions, as no update of the rule is under way |
| `ConfigsStayDeliverable` | `ChannelInv`: at `write` what the operation brings still suffices for the row as it is *now*; no write takes that away |

`RuleBookProofs` is about the duplicate check, whose question is a prediction and whose
answer is used many awaits later. The argument, bottom up:

1. *The path.* `computeFinalConditions` walks through a list of rows `p[0], p[1], ...`
   (`IsPath`). Each statement of `applyOperations` does to the stored rows what one step
   of the path does to the foreseen ones (`OpForeseen`), up to what the columns cannot
   hold: `Mirrors` relates the two, `Plain` says where they may differ.
2. *The update.* `PathInv`: an update at operation k has the rows of `p[k]`, and what it
   wants is the identity of the last. Hence `StoredAsPredicted` and `MatchesAsPredicted`.
   `CreateInv` is the same for a create. Removals may overlap: a rule that is gone is
   excused.
3. *No early end.* `KnownInv`: the conditions an update still has to change are live, so
   no `findById` of an orderly update throws, and it ends as wanted or not at all
   (`EndsAsWanted`; by then it has written nothing or everything).
4. *The book.* `BookInv`: no two entries are equal (`Distinct`), and the answer of a
   duplicate check holds until the last write that relies on it (`StillChecked`).
   An entry shows the identity an update read until that update ends. `BookMoves`:
   every step leaves all entries, clears one, changes one or adds one, and to nothing
   that is there. `RulesStayDistinct` and `RulesImplementBook` both follow from it.

`computeFinalConditions` is a recursive function over its operations. No induction rule
is needed for what is proved of it: the sets of operations at which a fact fails is a
set of naturals and has a least member (`Least`), which is then refuted.

### What the proofs changed

Planning a proof showed where a model or a property was wrong, and TLC agreed each time:

- `MatchesAsForeseen` was false for a request that changes one condition twice: the
  finding `update_back_and_forth`, and the fault "twice".
- `StoredAsForeseen` was false for a rule removed between its insert and the final read
  of its own create: "removal" now covers creates, and a run asks for it.
- `SettledLogAgrees` excluded crashes. Its proof needed that only to rule out stalls, and a
  stalled job is told from an exhausted one by its attempts: the property now includes
  crashes and says which rows are left behind.
- `Reordered(plan)` of `AutomationWorker` allowed any sequence over the same set of
  actions, which a plan that names an action twice could be shortened by. It is a
  permutation now.

**Model-checked only.** `EveryJobSettles`, `EveryMaintainerComesUp` and
`DeletedObjectGoes` are liveness under fairness, which this prover does not reach. The
operators of `RuleConditions` are proved about where rule management uses them; that
`matchCondition` is what the engine computes is a translation, and no theorem.

## 5. Not modelled

- *Users and admins*: one check and one insert per request. The unique columns decide
  every race, and `GlobalExceptionFilter` answers 409 to their error as to the check's;
  no state spans two steps. A deleted user's address stays taken, because the check
  filters deleted rows and the constraint does not.
- *`enqueueAndWait`'s wait* changes no state: after a timeout the job goes on as
  `AutomationWorker` has it, and a second call finds the retained job.
  `testJobEnqueue` adds a diagnostic job of its own.
- *The engine's read in the middle of an update* (parent new, conditions old) is the
  fault "edit" of `AutomationWorker`: rules of any content, at any attempt.
- *Log cleanup* deletes rows three months old, far beyond the life of a job, a call or a
  request.
- Authentication and guards, HTTP layer, configuration, logging, Redis plumbing, the
  queue's observability endpoints, the audit log's read API and single-row ingestion: no
  state that several steps could bring into disagreement.
- `src/generated/prisma` is the output of Prisma's generator, some 30 000 of the 40 500
  lines of the repository's TypeScript: types and a query client, without behaviour of
  this program. Most of the rest is DTOs, controllers, Swagger decorations, tests and
  wiring, so that the share of all lines the models map is small, although every
  component that changes state over more than one step is modelled.

## 6. Plan

The safety properties of all runs are proved. What could be added:

1. Under "overrun" and "ack" `KeysImplementGuardedActions` says nothing. A weaker
   abstract guard (a key may be performed again, but only after its lock expired or its
   answer was lost) would say what is left of the promise there.
2. `SettledLogAgrees` and `SkippedLeavesTrace` together give an operator's recipe for
   finding every action that did not take place; stated as one property over all events
   it would name the faults after which none exists. With a DLQ job id that BullMQ accepts,
   `ExhaustedInDlq` would be a property to claim and to prove, and its run would say so.
3. The safety halves of the liveness properties: that no job is lost from the queue
   while it has attempts left, and that a deleted file has a pending job, an object
   gone, or attempts used up.
