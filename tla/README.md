# Verification of six-1-core-api

TLA+ models, TLC runs and TLAPS proofs for the NestJS back end under `src/`: the
workflow engine and the projects it works for, the task scheduler with its queue
and its calendar arithmetic, the notification pipeline, and the authoring and
serving of configuration.

## 1. Inventory

| Component (`src/src/...`) | State | Operations | Meets | What is hard | What makes it correct |
|---|---|---|---|---|---|
| Step orchestrator (`automation/step-orchestrator.service.ts`) | `process_instance_steps.status`, `process_instances.status` | `attemptAdvance`, `markCompleted`, `resumeParentAfterChildCallProcess` | everything below, in one transaction each | row locks with snapshot reads, deadlocks, no retry, work after the commit | no early completion, none lost, approved steps open |
| Child processes (`child-process-orchestration.service.ts`) | child row, `parent_step_id`, contexts | spawn and block, mark completed, `handleChildTerminal` | orchestrator, facade, event bridge | hand-over in memory between two transactions | one child per step; the step completes only through it, and does |
| Lifecycle facade, instantiation (`process-lifecycle.facade.ts`, `process-instantiation.service.ts`) | rows of a new process | `startProcess` and its variants | controllers, bootstrap, spawn, hosts | first steps inserted `ready` | rows appear together |
| Completion rules (`process-completion.service.ts`) | none | `evaluate` | orchestrator | rules differ from `areAllStepsCompleted` for canceled steps | announced only when complete |
| Event bridge (`automation-event-bridge.listener.ts`) | `process_instance_step_triggers.status` | five asynchronous listeners | event emitter, orchestrator | not awaited, lost in a crash | each event leads to its call |
| Triggers, timers (`trigger-engine.service.ts`, `bullmq.*.ts`) | delayed jobs | `evaluate`, job processor | orchestrator | every evaluation adds a timer job | a fired trigger opens its step |
| Config-object step executor (`config-object-step-executor.service.ts`) | `process_instance_step_object_instances.status` | gate, provision, re-validate | orchestrator, bridge | gate and provisioning wait for each other; a valid binding can fail later | a bound step opens; completion sees valid bindings |
| Requirement submissions (`process_instances/...submissions.service.ts`) | requirement and submission status | create, review | orchestrator | update and advance are separate transactions | an approval opens the step |
| Projects and their host (`projects/`, `process-host/project-host.adapter.ts`) | `projects.status`, `tasks.task_status_id` | create, update, the four callbacks of the host | engine's transactions, users, configured lifecycles | users write what they validated earlier, the engine writes in between | cards follow steps, the project closes with its process, done stays done |
| Configured lifecycles (`config_objects/config_lifecycle.service.ts`) | states, transitions | author them; validate a change of status | projects, tasks | check, then write | statuses follow the configured graph |
| Task scheduler (`scheduler/`) | `scheduled_tasks`, BullMQ jobs | schedule, pause, resume, reschedule, cancel; worker start and end, failure listener | queue, calendar, engine | tokens checked, then unconditional updates; stale saves; re-adding an active job id; retries | what is settled stays settled; a shift is settled in the end |
| Scheduling (`scheduler.service.ts`, `calendar.adapter.ts`, `time_utils.ts`) | rows of an assignee | fit to working hours, serialise, push behind conflicts | task scheduler | nights, days off, overlapping intervals; look-up and insertion are apart | first working tick, exact working time, nobody booked twice |
| Scheduled-task bootstrap and host | `scheduled_tasks.process_instance_id`, `status` | `attachProcessIfEnabled`, host callbacks | scheduler, engine | one more writer of the status | see task scheduler |
| Notifications, event logs (`notifications/`, `events/event_logs`) | `event_logs`, `notifications`, `notification_logs` | create logs; prepare and send, every minute | cron, channels | runs overlap, nothing is in a transaction, failed awaits | at least once; exactly once while nothing fails |
| Configuration authoring (`config_objects/`) | eleven tables and an audit log | create, update, delete of each | database keys | check and write are separate statements | no orphans, no duplicates, no row the log does not know |
| Runtime views (`config_objects/`) | `config_object_views`, three caches | activate, upsert, edit, delete; compose a manifest; clear caches | authoring, readers | writes do not touch the caches, a clearing meets readings in flight | one active view per scope; bounded staleness |
| Tenants, users, roles, templates, sharing, storage, auth | rows of their own | CRUD, guards | gateway | few multi-step protocols | see section 8 |

## 2. Modules

| Module | Role |
|---|---|
| `ProcessLifecycle` | Abstract contract of the engine: every change of the two status columns is one atomic move that the current statuses allow. |
| `ProcessEngine` | The engine as the code runs it: transactions with locks and snapshots, calls in memory, failures. `Lifecycle == INSTANCE ProcessLifecycle`. |
| `ProcessEngineMC`, `ProcessEngineClaims`, `ProcessEngineProofs` | Instances ("nested", "chain"); what comments promise and the code does not keep; proofs. |
| `ProjectBoard` (`MC`, `Proofs`) | Extends `ProcessEngine`: the engine composed with a project, its host adapter and its users. |
| `TaskScheduler` (`Proofs`) | Rows and queue jobs of shifts and windows, and all their writers. |
| `ShiftPlanner` (`MC`, `Proofs`) | Where a shift is placed: pure calendar functions, and the calls that race for an assignee. |
| `DeliveryContract` | Abstract contract of notifications: obligations that only move forward, and are attempted in the end. |
| `NotificationPipeline` (`MC`, `Proofs`) | The cron handler, cut at its awaits. `Delivery == INSTANCE DeliveryContract WITH stage <- ...`. |
| `RuntimeViews` (`MC`, `Proofs`) | Views of a config object, the requests that change them, caches and readers. |
| `ConfigAuthoring` (`MC`, `Proofs`) | All authoring operations of configuration on their eleven tables. |

An `MC` module gives the constants that a cfg cannot write down; `TaskScheduler`
needs none. An action is what one actor does between two awaits, or a whole
transaction where the code opens one and the locks make it atomic.

### ProcessEngine

`stepStatus`, `procStatus`, `reqStatus`, `bindStatus` are the status columns, with
`"absent"` for a row not inserted yet. One requirement and one binding stand for
all mandatory ones of a step. `tx[s]` is the transaction that holds the lock of row
`s`, with the snapshot it reads; `calls` are `attemptAdvance` and resume calls that
a listener or a handler has started and that have not taken their lock (a set, for
two waiting calls for one step act as one). `finalizing` holds children that
committed `completed` and whose `handleChildTerminal` has still to run. `dropped` is
history: the call steps whose resume was rolled back or lost.

| Action | Code |
|---|---|
| `StartProcess` | `startProcess`, then `attemptAdvance` of the first step by the controller |
| `SubmitRequirement`, `ReviewSubmission` | `create` and `update` of the submissions service, with the call they end in |
| `ValidateBinding` | `validateByCustomInstanceId` and the bridge's listener |
| `TriggerFires` | `onAnyDomainEvent` for an event, the BullMQ processor for a timer |
| `BeginAdvance`, `BeginComplete`, `BeginResume` | the locking read, the early returns and the snapshot of the three orchestrator methods |
| `Commit` | all that the method does until its commit: `enableNextSteps`, spawning, `maybeCompleteJob`, provisioning |
| `HandleChildTerminal` | `handleChildTerminal(c, 'completed')` after the commit, and the event it emits |
| `Abort`, `AbortChildTerminal`, `DeadlockVictim`, `Crash` | a failed or rolled back transaction, and the end of the server process |

**Isolation.** The orchestrator starts its transactions with MySQL's default,
REPEATABLE READ: plain SELECTs read the snapshot taken at the first of them, right
after the lock; `FOR UPDATE` and UPDATE see committed rows. This is why `Enabled`
tests `stepStatus` and everything else reads `tx[s].snap`. For the resume call,
whose first plain read follows its scan, the model also admits an older snapshot.

**Locks of the scan.** Which rows `SELECT ... WHERE process_instance_id = ? AND
step_order = ? AND status = 'pending' FOR UPDATE` locks depends on the index used,
and the base schema of `process_instance_steps` is not in the repository
(migrations only alter it). `ScanScope` covers both possibilities: the foreign key's
index locks every row of the process (`"process"`), a composite index the next
order only (`"order"`). All theorems but one hold for both. `NoLostCompletion` needs
`"process"`: with the narrower lock two transactions that complete the last two steps
each miss the other's and the process stays active (this is its mutant, and a reason
to pin that index, or to lock the process row).

### ProjectBoard

`shown` is the column of each step's card and the status of the project; `updates`
are users' requests between `validate...StatusTransition` and their write. The
adapter is called with the engine's `EntityManager`, so what it writes belongs to the
transaction: `CommitWithHost(s)` is `Commit(s)` together with `syncTaskColumn` for the
steps whose new status is dispatched (`Told`) and the UPDATE of the project
(`Closes`). `CreateProject` is `StartProcess` with the board. `BeginUpdate` and
`FinishUpdate` are the two halves of `TasksService.update` and
`ProjectsService.update`. `PatchProject` is `applySorBoundInstancePatch` of a project, one
transaction that does not ask the lifecycle. `SetControl` writes a card's `statusControl`
(`manual`); what `syncTaskColumn` reads of it is the engine transaction's snapshot
(`spared`), so a card taken over while a transaction is open may still be moved once.
All other actions are the engine's and leave the board
alone; among them `HandleChild`, which completes a calling step and dispatches
nothing. `byUser` and `stale` are history for the properties.

### TaskScheduler

A shift is a row with an assignee and two jobs; a window has no assignee, no jobs,
and perhaps a process. `CreateActive`, `Enqueue` (twice), `MarkQueued` are the awaits
of `scheduleFromShifts`. `PauseOrResume` writes one column. `reschedule` and `cancel` save an entity
read earlier, which is three steps: `FindForSave` is their `findOne`, `Reload` the SELECT by
which TypeORM's `save` finds the columns that differ, `Update` the UPDATE of just those
columns. Requests that have read alike are one. A worker goes through
`Take`, `ReadRow` and then `MarkRunning`/`EmitEvent`, `MarkCompleted`, or
`PauseForCalendar`/`Requeue`, and `Finish`. `AttemptFails`, `OnFailed`, `Crash` and
stalled jobs are the queue's side, `StepStateChanged` and `ProcessCompleted` the host
adapter's. `Added` is `queue.add`: an id that the queue knows is ignored.

### ShiftPlanner

`NextAllowed` and `AddDuration` are `nextAllowedUtc` and
`addDurationWithinWorkingHours`, as recursive functions over the days they search
(`Search`, `WorkDays`) and over the intervals of a day (`WorkIntervals`); a time is a
tick. `SlotsOn` is what `isOffDateLocal` and `getWorkingIntervalsLocal` answer for a day,
`IntervalsOn` what `buildIntervalsForDay` makes of it. `BeginPlan`, `Place`, `Recheck`,
`Create` are the loop of `scheduleFromShifts` cut at its queries. Calendars are UTC;
`Works` and `Worked`, which count ticks, are the reference the properties compare
with, up to the `Horizon` of the search.

### NotificationPipeline

`job[j]` holds the local variables of a run of `handleNotificationJob`: event logs
still to prepare, listeners of the one at hand, the batch, the notification at hand.
`Tick`, `CreateNotification`, `ExplainFailure`, `MarkProcessed`, `FetchPending`,
`Send`, `LogAttempt`, `UpdateStatus` are its awaits, `PrepareFails` and `SendFails` its
two catch blocks. `Tick` may start a run beside another, which counts as a fault.

### RuntimeViews

`view` is the table, `request` a request between its reads and its writes (with the
entity it will save), `reading` a `getRuntimeManifest` with its parallel queries,
`cache` and `manifest` the caches with the age and rest of life of each entry.
`Begin...` actions check and read, `ClearScope`, `Save`, `Insert`, `AssertHolds`/
`AssertFails`, `Remove` write; `StartReading`, `LookUpViews`, `QueryOwn`,
`QueryGlobal`, `Store`, `StoreManifest`, `ReadingFails` read; `Tick` is time.
`Invalidate(S, C)` is `invalidateRuntimeCaches` of the scopes `S` and of the caches `C`, any
subset of the three: the `include...Cache` flags leave out whole caches, and so does an
`entityKey` that is not the name a cache knows the object by. Schemas are cached under the
canonical object type, views and manifests under the name the reader gave, and `matches`
compares the raw key, so that clearing by an alias leaves the schema and clearing by the
canonical name leaves views and manifests cached under an alias. Entries of other objects
are not modelled; clearing them is clearing none of these.

### ConfigAuthoring

One record per row, of any of eleven tables; `request` holds the entity read or to be
inserted. Each operation of the two services is an action of its own name that reads
and checks (35 of them); `Check` is the query for a duplicate, `Write` the statement,
which the database may refuse (`Clashes`, `Rooted`), `LogConfigChange` the audit row.
Three of the actions are the scoped operations on views: `UpsertScopedConfigView` of a row
that is there, `InsertScopedConfigView`, whose row is validated after it was inserted
(`AssertHolds`) or removed again without a log row (`AssertFails`), and
`SwitchScopedConfigView`, which activates or deactivates one view. `log` is the set of rows
whose creation the audit log tells of. `raced`, `revived` and `untold` are history for the
properties.

## 3. Runs

| Run | What it shows | Bounds |
|---|---|---|
| `engine_nested` | Safety and refinement of the engine, with crash, failing transactions and the narrower scan lock. | Root of three steps, the second a `call_process` step, the third automated with a clock-dependent condition; two ids for the one child, so that a second spawn would show; the child has two first steps that users complete concurrently. 2 edits (one approval for each step with a requirement), 1 crash at any point. 55,846 states. |
| `engine_chain` | No lost completion, no step blocked for ever, liveness, with bindings, requirements and a deferred trigger. | Root of three steps and a child of two, each with a conditional second step. 3 edits: validation, approvals, a change of mind. No failures but deadlocks, for these properties do not survive them. 21,359 states. |
| `board` | Cards, project and engine agree; only an overtaken update or a patch takes a completion back. | Root of a manual step and, second in order, a `call_process` beside an automated step; a child of one step; 1 edit, 1 crash, failing transactions, 2 updates, patches or changes of control by users, a lifecycle without a way out of completed. 1,175,048 states. |
| `scheduler` | Settled rows stay settled, jobs are not used up, a completed shift is active only if revived, every enqueued shift is settled. | One shift, one window, one worker, 2 attempts per job, 2 requests, 2 faults (a rejected await, a crash, a stalled job). 961,570 states. |
| `planner` | Calendar arithmetic against its reference; double bookings only behind a push or a race. | Three concurrent calls, two of one task; days of 6 ticks, 4 of them searched, so that the search also fails; one user who works in two intervals every second day and is off on one of those, one whose intervals overlap, one without hours. 204,525 states. |
| `notifications` | At least once in the end; once without faults; sent means logged. | Two logs, two listeners with different outcomes, two runs, batches of one, 8 rows, 3 faults. 377,896 states. |
| `views` | One active view per scope, bounded staleness, effective clearing, agreement in the end. | 3 row ids, one tenant and the global scope, 2 requests in flight, 1 reader, life of 2 ticks, readings of 1 tick, 2 operations, several beginnings; clearings of every scope and every subset of the caches. 339,646 states. |
| `authoring` | Orphans, duplicates, fields of system tables, rows the log does not know. | 6 ids, 2 keys, 2 requests, 2 operations, 1 fault; requests are symmetric. Five initial contents, one of them a standalone object with an instance. 769,885 states. |
| `claim_first_call`, `claim_trigger` | Violated, see section 6. | One root, at most one child. |
| `claim_deferral` | Violated, see section 6. | One shift, no requests, no faults. |
| `claim_overlap` | Violated: see section 6. | As `planner`. |

`CHECK_DEADLOCK FALSE` where a system stops because its users have used up their
operations. Bounds are constants named `Max...` (and `Tables`, `Served`, `Slow`);
the proofs hold for all their values. Why they are enough: what a process meets is
its parent's step and its children, and a third level of calls adds no interaction;
two requests are needed for every race of check and write, and a third only repeats
one; a batch of one and two notifications show a row waiting behind another; two
attempts show a retry and a last failure; a life of two ticks with a slow reading
shows an entry that grows old while another still counts on it.

### What the properties are about

* `CompletedProcessIsDone`, `OneChildPerCallStep`, `CallStepCompletesThroughChild`,
  `ImplementsLifecycle`: decisions are taken on snapshots that other transactions
  overtake; the row locks and the locking scan keep the outcome right all the same.
* `BlockedStepWillBeResumed`, `NoLostCompletion`, `ChildCompletionReachesParent`,
  `ChildCompletionUnlocksSuccessors`, `ApprovalOpensStep`: nothing that a step or a
  process waits for is forgotten, while nothing fails.
* `CardFollowsStep`: every way a step can change reaches its card, whichever
  transaction it is. The exception is stated: the card of a `call_process` step never
  leaves "To Do", neither when it blocks (`blockParentStep` writes without a
  dispatch) nor when its child has returned. `ProjectClosesWithProcess` relates the
  project's status to the engine's, in both directions. `DoneStays` names the one
  update that undoes a completion: validated before it, written after it.
* `EndJobNotWasted`, `EndJobSettles`, `SettledStaysSettled`, `CompletedIsInactive`: five
  kinds of writers update one row by its id without looking at it. `CompletedIsInactive`
  says where the row can end up completed and active: a reschedule found it active, its
  `save` reloaded it when a cancellation (resumed since) had it inactive, the end worker
  completed it, and the reschedule's UPDATE writes `is_active` alone. Nothing else does it.
* `PlacedAtFirstWorkingTick`, `GivenItsWorkingTime` compare the calendar functions
  with a definition by ticks; `ShiftsAreSerial` and `DoubleBookedOnlyByPushOrRace`
  survive concurrent calls.
* `ProcessedMeansNoted`, `SentIsAudited`, `OnceIfNoFault`, `ImplementsDelivery`: the
  pipeline has no transactions and its runs overlap.
* `OneActivePerScope`: rests on a unique index over a generated column, each request
  having deactivated only what it saw. `StalenessBounded`, `ClearingIsEffective`,
  `EventuallyFresh`: what caches that no write touches may serve, and for how long.
* `NoOrphans`, `KeysUnique`, `SystemTableHasNoFields`, `RowsAreLogged`: check, write and
  log are statements of their own and the row written was read earlier. The exceptions are
  what the code leaves open: `raced` (the reading had been overtaken), `revived` (a save has
  inserted a deleted row again) and `untold` (the creator failed after the insertion).

What they do not show:

* `BlockedStepWillBeResumed` and `ChildCompletionReachesParent` are checked without crashes
  and failed hand-overs: they catch a hand-over that is forgotten, not one that is lost.
  `NoLostCompletion` excepts roots with bindings, and so the binding that fails later.
* `raced` excepts the two races of check and insertion (two requests with one rule; a field
  and a change of binding mode). `KeysUnique` and `SystemTableHasNoFields` describe these
  races; what they catch is any other way to such rows.
* `RowsAreLogged` is about creations. Updates and deletions whose log row fails have no
  property, nor have the statements that never are logged: `deactivateViewsInScope`, which
  three operations call, and `deactivateScopedConfigView` of a whole scope.
* `DoubleBookedOnlyByPushOrRace` is about the rows `scheduleFromShifts` inserts;
  `reschedule` moves a row without looking for overlaps.
* The calendar properties assume that an interval starts before it ends, which the DTO of
  working hours does not enforce.

### What TLC found while these were written

* An edit can turn a root's binding from valid to failed after its step completed;
  the completion rules then bar the process. `NoLostCompletion` excepts such roots.
* A resume call can be the deadlock victim of a step advanced out of order. Nothing
  repeats it: successors stay pending and the root may never complete. `dropped`
  records it and is the exception in two properties.
* `ApprovalOpensStep` excepts automated steps: their advance scans rows too and may
  be a victim. A plain manual step's advance locks one row only.
* A crash, or a failed `handleChildTerminal`, between the child's commit and its
  parent's leaves the parent blocked: the hand-over is a local variable.
* A stale `reschedule` revives a shift whose jobs are gone (`revived`), and may leave a
  completed one active.
* An upsert inserts a view, its validation fails, an update reads the view in between, the
  upsert removes it, and the update's save inserts it again: an invalid view the log does
  not know (`revived`).
* A reading in flight while the caches are cleared stores what it read before.

## 4. Fairness

* Engine: `WF` on beginning, committing or being rolled back for every call, for Node
  works off its event queue and MySQL answers. `WF` on `HandleChildTerminal`: it is the
  continuation of an awaited promise. `SF` on some transaction committing: InnoDB
  grants a freed row lock to the waiter first, so that a user who repeats a rolled
  back request cannot keep all others from committing.
* Scheduler: `WF` on each worker's handling of its job, and on the enqueueing of jobs
  by a request that has inserted its row.
* Notifications: `WF` on the cron tick (every minute) and on the steps of a run.
* Views: `WF` on time and on each reading.

Nothing is assumed of users, triggers, requests or failures.

## 5. Proofs

`tlapm` checks eight modules. Every constant is arbitrary but for the named
assumptions of each module (types, foreign keys, disjointness, positive bounds); sets
of steps, processes, rows, readers are of any size, infinite ones included unless an
assumption says otherwise.

* **ProcessEngine.** `SafetyInv` is inductive (`Safety`). The statuses alone are not: a
  commit writes what a snapshot justified. `LockedRowUnchanged` says that a
  transaction's own row still has the status it found, `SnapshotsLag` that other rows
  differ from the snapshot in one direction only. With them each commit is a step of
  `ProcessLifecycle!Next` (`Refinement`), and `ProcessLifecycle!NextInv` preserves the
  contract's invariant; nothing about the statuses is proved twice. `TypeCorrect`,
  `CompletionIsSound`, `CallProcessIsSound`, `ParentWaitsForChild` are corollaries.
  `BlockedIsResumed` (assuming `CanFail = FALSE` and `MaxCrash = 0`) and `CompletionIsNotLost`
  (assuming the wide scan lock) add what callers wait for, in snapshots too, and that
  a snapshot misses only completions by resumes.
* **ProjectBoard.** `BoardRunsEngine`: `BoardSpec => Spec`, so the engine's theorems hold
  of projects. `BoardInv` adds to `SafetyInv` that first steps never wait and only
  `call_process` steps block (`Calling`), that a project and its cards appear together
  with the process (`ShownTogether`), and that an update not overtaken was validated
  against what is shown now (`UpdatesSound`), and that a card which an open transaction
  spares is a user's or has been moved by a younger one (`ControlSound`); from it `BoardTypeCorrect`,
  `CardsFollowTheEngine`, `ProjectClosesOnTime`, `DoneIsKept`. The crux is that the project's
  UPDATE and the process's are decided by different queries (the completion rules,
  `canCompleteJob`, `areAllStepsCompleted`), which agree because they read one snapshot.
* **TaskScheduler.** `QueueInv` is the lock of the queue: a job is active exactly while
  one worker holds it. On it rest `SchedulerInv` (what each handler and each stale save
  has seen) and `TypeCorrect`, `EndJobIsNotWasted`, `CompletedShiftsAreInactive`,
  `SettledForGood`. A save may write one column of what it has read; that a completed shift
  is active only if revived therefore needs `CompletedWhenRead`: the row of a request that
  has read `completed` is inactive, or has been revived since, so that writing the status
  alone does no harm, and writing `is_active` alone is what `revived` records.
* **ShiftPlanner.** First what the calendar functions compute, for every calendar and
  input. `NextAllowedIsFirstWorked`: the first working tick of the days searched, or the
  request where they have none. `HoursAreAlwaysFound`: with some working hours in the
  week, no days off and two weeks to search (the code has 366 days), there is one.
  `AddDurationIsExact`: as many working ticks as asked for, and the last of them is
  worked. The crux of it is that intervals may overlap and a day may begin past some of
  them: `IntervalWorked` says that after each interval the ticks used and the ticks left
  add up, and that all earlier intervals are behind, so that none is left out or counted
  twice, for they are sorted by their start. Then the invariant: what a call holds was
  fitted to the calendar (`FittedToCalendar`), a call's rows and the shift at hand are
  in the order of the plan (`PlacedInOrder`), and a shift about to be inserted is clear
  of its assignee's rows unless it was pushed or raced (`ClearOfRows`). From it
  `TypeCorrect`, `PlacedWell`, `TimeKept`, `InSeries`, `BookedOnce`.
  The library's induction theorems take an operator as a parameter and cannot be
  instantiated here; the inductions (that a recursive function satisfies its equation,
  that a property holds of all its arguments) are therefore on the least natural number
  of a set, `LeastNatural`, with the set given by the property.
* **NotificationPipeline.** `PipelineInv`: what a run has passed is noted
  (`PassedAreNoted`), and the result it holds is true. `ProcessedLogsAreNoted`,
  `SentNotesAreAudited`, `TypeCorrect`, and `DeliversSafely`, the refinement of the safety
  part of `DeliveryContract`. `OnceWithoutFaults` needs `Once`, which holds until the first
  fault: one run is under way (`OneRun`); an active log has notifications only from the
  run that has it at hand, for listeners it has passed (`NotedOnce`); a pending row was
  not delivered, unless a run is about to write that it was (`DeliveredOnce`). `Alone`
  says the same of the one run, so that each step is argued once for it.
* **ConfigAuthoring.** `TablesInv` (a request's reading is up to date or marked raced) for
  `NoRowIsOrphaned`, `KeysAreUnique`, `SystemTablesHaveNoFields`; `LogInv` for
  `EveryRowIsLogged` and, with it, `TypeCorrect`: a row comes into existence only by a write
  whose request then owes it to the log, or by a save that revives it (`NewRowStep`), and a
  request stops owing a row only by logging it, removing it or failing (`TellingStep`).
* **RuntimeViews.** In three layers: `RowsInv` (`OneActiveView`), `AgesInv` (no entry is
  older than its remaining life allows: `ServedWithinTwoLives`), `CleanInv` (what a clean
  scope's entries and readings hold is true: `ClearedMeansTrue`). A scope becomes clean when
  all three caches are cleared and no reading is in flight; a partial clearing only removes
  entries (`CleanThroughClearing`).

Every invariant and every action property of the passing runs is a theorem.
Model-checked only: liveness, which is out of TLAPS's reach together with ENABLED, that
is `EndJobSettles`, `EventuallyFresh`, `ChildCompletionReachesParent`,
`ChildCompletionUnlocksSuccessors`, `ApprovalOpensStep`, and in `ImplementsDelivery` the
fairness of `DeliveryContract`. No module declares a RECURSIVE operator.

## 6. Disagreements of code and comments

The `claim_*` runs:

1. `instantiateProcessIn` inserts steps of order 1 as `ready` while children are
   spawned only for `pending` steps.
2. `TriggerEngineService.evaluate` never returns true for event and time triggers and
   nobody reads the `met` status the bridge writes.
3. A worker that finds the calendar closed adds the start job again under its own id,
   which the queue ignores while the job of that id is active; the job is then removed, and
   the shift is not started at the next slot ("defers the job to the next valid slot",
   `task.processor.ts:28`; "idempotent re-enqueue", line 105).
4. A shift pushed behind its assignee's conflicts is not checked against his other
   rows where it lands ("Prevent conflicts with user's other active schedules").

Noted in passing, and not the subject of a run:

* The gate wants a valid binding before a later step is ready, and a `create_on_enter`
  binding is provisioned only when it is ("Creates standalone instances for pending
  `create_on_enter` bindings when a step becomes ready"): with `HasBinding` on the second
  step of `ProcessEngineClaims` TLC finds it pending for ever.
* `invalidateRuntimeCaches` with an `entityKey` that is an alias leaves the schema it is
  meant to clear, for at most a life.
* The deactivation of views (`deactivateViewsInScope`, a whole scope in
  `deactivateScopedConfigView`, the removal of a view that failed its validation) leaves no
  row in `config_audit_logs`.
* `ConfigLifecycleService.logConfigChange` writes tenant 0 for the global scope; the
  foreign key refuses it where no such tenant exists, after the change was made.
* The unique key of template sets has a nullable column: two global sets of a key are
  possible.
* `applySorBoundInstancePatch` writes a project's `status` (it is among the writable SoR
  fields) without `validateProjectStatusTransition`, which `ProjectsService.update` asks:
  `DoneStays` excepts it. No comment promises otherwise.
* `invalidateRuntimeCaches` reports one life of an entry as `ttlMs`; what is served may
  be two lives old.
* `ProjectsService.create` emits `project_created` inside its transaction, commented
  "after commit"; its retries, like those of `withTxRetry`, compare `err.code || err.errno`
  with 1205 and 1213, while the MySQL driver's `code` is a string, so that a real
  deadlock is never retried (the test sets `errno` alone); a second attempt would
  start without a process, for the first one deletes `processTemplateId` from the DTO.

## 7. Abstractions

* Contexts, subjects, payloads, timestamps, correlation ids and (but for views and
  sets) the tenant are left out. Events consumed outside a component are not modelled,
  those consumed inside are the calls they lead to.
* Engine: `in_progress` is set and left within one transaction. The engine's methods
  are the only writers of the status columns: the generic CRUD `update` is excluded (and
  listed as a hazard). `markCompleted` is the engine's public way to complete a manual
  step; in this commit tests call it and no handler does, the model lets users call it
  at any time. Nothing cancels: `handleChildTerminal(c, 'canceled')` has no caller. A
  requirement's update and the call it ends in are one action: `Crash` right after it
  shows the call lost. Optional requirements and bindings constrain nothing and are left
  out; a `skipped` binding is as good as `valid`. A timer and an event trigger differ only
  in who makes the call.
* Board: a project with a process; mappings from states to columns and the lifecycles do
  not change, cards are not deleted. `process` and `hybrid` control are one (both are
  synchronised). A request that writes a column and the control is two. The reverse look-up of "Done" takes either of its two
  states. Child processes have generic hosts and no cards.
* Scheduler: `status` and `is_active` are the columns; times are not. History rows and resources are left out. The
  index `uq_active_per_task` is declared with `unique: false` and constrains nothing.
* Notifications: preferences, rendering and channels are constant outcomes; a listener
  whose outcome is to be skipped leaves no trace and no step. The CRUD update of a
  notification also writes its status; it is excluded.
* Configuration: `save()` is one step, its SELECT and its UPDATE together (unlike in
  `TaskScheduler`), and writes the whole row. One key stands for both ends of a
  relationship. Rows and keys of views and the log rows of their creation are in
  `ConfigAuthoring`; scopes, `is_active`, with the statements that set nothing else, and
  caches are in `RuntimeViews`.
* External, modelled as the code relies on it: MySQL's locks, deadlock detection, keys
  and cascades; BullMQ's job ids, attempts and stalled jobs; TypeORM's `save`; the end of
  the server process.

## 8. Not modelled, and the plan

Next, in this order: (1) several children of one parent ending at once and the merging
of their contexts; the policies of `handleChildTerminal` for canceled children belong
here too, but outside the tests it is only ever called with `'completed'`
(`step-orchestrator.service.ts:385`), so they are not reached today; (2) `TimerQueue`:
timer jobs and their multiplication by evaluation; (3) the configurable-instance host:
the completion rules of instances and their tie to processes; (4) dependencies between
tasks and the rescheduling of successors.

The map covers about 8.5 % of the implementation's lines. Most of the rest has no protocol
to explore: request and response types, entities and CRUD services that keep rows
independently of each other (templates, tenants, users, customers, categories,
settings, roles, sharing), guards, storage I/O, migrations, generated types, and the
validation of JSON documents (list queries, panel layouts, event variables), which are
functions of their input alone.
