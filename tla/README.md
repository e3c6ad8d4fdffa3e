# A TLA+ model of hibernator

Hibernator is a Kubernetes operator. A `HibernatePlan` names targets (clusters,
databases, instances, workloads), a schedule of off-hours and an execution
strategy; the controller shuts the targets down when off-hours begin and wakes
them up when they end. The work on one target is done by a runner, a Kubernetes
Job. What a shutdown needs to be undone is kept as restore data in a ConfigMap.

This directory holds TLA+ modules for the parts that decide what happens and in
which order, TLC configurations that check them on small instances, and TLAPS
proofs. Paths below are relative to `src/`; `state/` stands for
`internal/provider/processor/plan/state/`.

## 1. Inventory

| Component | State it keeps | Operations | What makes it hard | What makes it correct |
|---|---|---|---|---|
| Provider (`internal/provider/provider.go`) | the watchable map of `PlanContext`s | `Reconcile`, predicates on Jobs and plans | status writes trigger no event, only the first result of a Job does | a change of spec, annotation or Job reaches the worker |
| Coordinator, keyed worker pool (`plan/coordinator.go`, `pkg/keyedworker`) | one goroutine and one slot per plan | `Deliver`, `Remove`, idle reaping | delivery racing the end of a worker | one worker per plan, the latest context is not lost |
| Plan worker (`plan/worker.go`, `plan/timer.go`) | cached `PlanContext` with an optimistic status, four timers, miss counters | `run`, `handleWithDepth`, `mergeIncoming` | a handler's result is all that drives the next one; recursion limit | no state without a timer or an event that leads out of it |
| Phase handlers (`state/`) | the plan's status: phase, operation, cycle ID, stage index, executions, retry count | idle, execution, finalize, suspension, resume, recovery, override, restart, deletion | Jobs appear, fail and vanish on their own; the status is persisted later | stages in order, one Job per target, drains before suspension, errors retried |
| Status writer (`internal/provider/processor/status`) | FIFO of mutators per object | `Send`, `apply` | a restart loses the queue; a mutator shares slices with the worker's memory | memory, queue and API server tell one story |
| Runner (`cmd/runner`) | accumulated restore data | shutdown, wakeup, flush, mark restored | flush and annotation updates fail separately from the operation | a resource that is down can be woken up |
| Restore manager (`internal/restore`) | ConfigMap of restore data, `restored-*` annotations | save, mark, unlock, prepare | several runners and the controller write one ConfigMap | data is given up only when its target is up |
| Planner (`internal/scheduler/planner.go`) | none | `PlanSequential`, `PlanParallel`, `PlanStaged`, `PlanDAG` | repeated edges, cycles | stages respect dependencies, each target once |
| Webhooks (`internal/validationwebhook`) | none | strategy, DAG, stages, exceptions | a second implementation of the cycle check; exceptions change a validated plan | what is admitted can be executed |
| Schedule evaluator, requeue processor (`internal/scheduler/schedule.go`, `processor/requeue`) | next boundary per plan | evaluate, compute boundary | windows over midnight, exceptions | every boundary is seen |
| Exception lifecycle (`processor/scheduleexception`) | exception state, finalizer | Pending, Active, Expired, Detached | deletion of plan and exception in either order | an exception is active exactly in its window |
| Notifications (`internal/notification`, `processor/notification`) | streams of requests, cache and record of sink states, bindings and finalizer | submit, deliver to a thread, record, bind, unbind | states are cached, expire, are written later and pruned; bindings carry old copies | one thread per operation, its root shows the outcome; bindings settle |
| Streaming (`internal/streaming`) | per-execution progress and log buffers | gRPC, websocket, webhook | reconnects | progress is monotonic |
| Executors (`internal/executor/*`) | none of their own | shutdown, wakeup of one kind of resource; `awaitCompletion` | partial progress, resources in transition, idempotency | a repeated shutdown does not lose what to restore; a wakeup restores that and nothing else |
| Rate limit, cache, conflation (`pkg/*`) | buckets, entries | - | concurrency | limits hold |
| CLI (`cmd/kubectl-hibernator`) | none | suspend, resume, retry, restart, override, restore | races with the controller | - |

How they interact: the provider turns API events into a `PlanContext` and puts
it in the plan's slot; the worker takes it, keeps its own status, and calls the
handler of the status' phase; the handler reads and creates Jobs, patches the
plan's annotations at once, and sends status mutators that apply to the
worker's memory at once and to the API server later; runners change resources
and restore data; their Jobs' results come back as events and through polling.

## 2. Modules

| Module | Models |
|---|---|
| `PlanWorker` | one plan: worker, phase handlers, status writer, provider, slot, runner Jobs, restore data, users, restarts |
| `MCPlanWorker` | stages of each strategy over one to three targets, and per run how often the environment interferes |
| `PlanWorkerProofs` | theorems about `PlanWorker` |
| `PlanLifecycle` | abstract specification: the phases of a plan, their edges, and a status that is persisted later, in order |
| `PlanLifecycleProofs` | theorems about `PlanLifecycle` |
| `PlanRefinement` | `PlanWorker` as an implementation of `PlanLifecycle`: the refinement mapping |
| `PlanRefinementProofs` | the proof that it is one, and what follows for `PlanWorker` |
| `Planner` | the four planning functions; `PlanDAG` as a state machine, one step per round |
| `PlanAdmission` | plan webhook, exceptions that disable targets or replace the strategy, `buildExecutionPlan`, composed with `Planner`, which it extends |
| `PlanAdmissionProofs` | theorems about `Planner` and `PlanAdmission` |
| `RestoreData` | merge, staleness and loading of a target's restore data, as operators |
| `RunnerJob` | what a runner and its executor work on: resources, restore data, progress |
| `ExecutorEC2`, `ExecutorEKS`, `ExecutorRDS`, `ExecutorKarpenter`, `ExecutorWorkloadScaler` | the executors, resource by resource |
| `Runner` | a runner from start to exit, the controller around it, killed pods, failing calls, owners; composes the seven above |
| `RunnerProofs` | theorems about `RestoreData` and `Runner` with the executors |
| `MCRunner` | instance for TLC |
| `Schedule` | the schedule evaluator as operators of the time |
| `ScheduleDelivery` | provider, watchable map and requeue processor around it |
| `Exceptions` | exception webhook, delivery, lifecycle processor |
| `Overrides` | override, restart and deletion of a plan; the worker's copy against the plan |
| `OverridesProofs` | theorems about `Overrides` |
| `NotificationDispatch` | dispatcher, Slack thread delivery and the record of sink states |
| `NotificationDispatchProofs` | theorems about `NotificationDispatch` |
| `NotificationBinding` | bindings, finalizer and watched plans of a notification |
| `KeyedPool` | the keyed worker pool at the grain of its locks and channels |
| `KeyedPoolProofs` | theorems about `KeyedPool` |
| `TimerSet` | the four timers of a worker and its event loop |
| `MCDecisions` | instances of `PlanAdmission`, `ScheduleDelivery`, `Exceptions`, `Overrides` and `NotificationDispatch`, side by side |
| `MCServices` | instances of `KeyedPool`, `TimerSet`, `Exceptions` and `NotificationBinding`, side by side |

`MCDecisions` and `MCServices` hold components that share no state. The variable
`part` chooses the one a behaviour exercises while the others rest; no property
of one can be violated, or made true, by a step of another.

### PlanWorker and the code

The handlers of one plan run on one goroutine, so one handler call is one step.
Everything between two calls is an interleaving: status writes, deliveries, Job
steps, users, restarts.

| Variables | In the code |
|---|---|
| `mem`, `sendq`, `db` | `plan.Status` in the worker, the updates queued in `UpdateProcessor`, the status in the API server. A queued update is represented by the status it will produce |
| `api`, `dirty`, `slot`, `ctx` | spec and annotations in the API server, an event the provider has not handled, the latest-wins slot, the worker's cached context |
| `wake`, `depth`, `watchdog` | what drives the worker next (a delivery, a poll tick, a requeue, nothing), the recursion depth, the armed `TimeoutAfter` |
| `miss` | `consecutiveJobMisses` |
| `jobs`, `made`, `marking` | runner Jobs, counters that name them, `markJobAsStale` goroutines in flight |
| `cycles`, `live`, `restored`, `saved` | cycle IDs generated, the cycle of a target's live restore data, `restored-*` annotations, entries of the ConfigMap |
| `sched` | `schedule.ShouldHibernate` now |
| `res` | an observation: whether the resource is really up |
| `used` | how often each environment event has happened, against `Budget` |

The actions carry the names of the functions they stand for; section "map" of
`PROJECT.json` gives the lines. `execute` is split by what it finds
(`ExecuteStageError`, `ExecuteAdvance`, `ExecuteDispatch`, `ExecuteWait`,
`ExecuteFinalize`), each beginning with the observation of the Jobs
(`updateExecutionStatuses`) that the code makes first. `ExecuteForStage` leaves
open which targets the loop reaches before it stops, because the order of a
stage's targets is data, and which creations fail or fail after the fact. The
two calls of `postWakeupCleanup` may fail, and then nothing is unlocked;
`ManualRetryFails` is the patch of `handleManualRetry` that fails.

Two details of the status writer matter. `Send` applies the mutator to the
worker's plan immediately; and the mutators of the executions assign the
worker's own slice, so a write may already show what a later update of the same
operation would bring. `WriteStatus` therefore takes the executions of any
queued status of the same cycle and operation. A mutator that reads the status it
is applied to (`handleRetry` the stage index, others the phase) is represented by
its result on the newest queued status: updates are applied in order, and what a
mutator finds when it is written is what the ones before it left, which is that
status. `Reconcile` marks every change as delivered, also a context that equals
the stored one, which the code suppresses (`internal/message/types.go:158`): the
worker then runs more often than in the program, never less, and no property
counts on the extra run, because an event that changes nothing is not one of
the events of the model.

A patch of the plan (`patchAndPreserveStatus`) is the difference between the
cached plan before and after: when an earlier attempt failed, its annotation is
still in the cache and the next patch does not contain it. `PerformSuspension`
and `SuspensionPatchFails` keep that.

Abstractions: timestamps, messages, history and conditions of the status are
left out; times become "a tick that is due may come"; an execution keeps its
state and whether `FinishedAt` and `LogsRef` are set, which is what the code
decides on; a Job keeps its labels, its result and whether a pod failed; errors
are not classified by their text; stage names are positions. An error of the
API is modelled where the handler continues differently (creation of a Job,
patch of plan or Job, conflict on the restore ConfigMap, flush) and as one
action, `TransientError`, where it fails before anything changed.

### PlanLifecycle and the refinement

`PlanLifecycle` is what the worker promises to a reader of the plan's status: a
status of phase, operation, cycle, stage and retry count moves along ten edges
(`Setup`, `StartShutdown`, `StartWakeup`, `Advance`, `Complete`, `Fail`,
`Suspend`, `Resume`, `Retry`, `RetryNow`), every status it passes is queued and
persisted in that order, and a restart resumes from the last one persisted. What
makes an edge be taken is left open. One handler call may take one edge, or the
next stage and its failure (`executeForStage` in the same call); each status it
sends is one that such a call can reach. `ResumeAhead` is the one step that
changes the memory and sends nothing: `forceWakeUpOnResume` sets the phase
Hibernated for the idle handler that follows, so a reader may see the wakeup
follow the suspension directly (`Follows`).

`PlanRefinement` maps the worker's memory to the current status, the queued
updates to the pending ones and the API server's status to the durable one, each
without its executions. `ImplementsLifecycle` says that `PlanWorker` with all its
handlers, faults, users and restarts is then a behaviour of `PlanLifecycle`.

### Planner and PlanAdmission

`PlanDAG` keeps its map of in-degrees as a function on the targets not placed
yet. The dependencies are a list, so repetitions count. `PlanAdmission` has the
webhook's own Kahn's algorithm (over the reversed edges, one node of the queue
per step, in any order, since Go's map iteration fills the queue), the check of
`targetOverrides[*].disabled`, the filtering of `buildEffectivePlan` down to a
plan without targets, the strategy of an `executionOverride`, which replaces the
plan's own as a whole and of which the exception webhook checks the type only
(`ReplaceStrategy`), and `buildExecutionPlan` for shutdown and wakeup, whose DAG
case sets the variables of `Planner` to the effective targets and the directed
dependencies and lets it run.

### Runner and the executors

A runner prepares, loads (wakeup), finds its resources, works on them one by one
or with one call, awaits, flushes what the executor reported (shutdown) or marks
the target restored (wakeup), and ends; `job.pc` is where it is. `cloud` is the
state of each resource: up with a size, in transition, down or gone. The
controller around it starts Jobs, retries them in the same cycle, reuses a cycle
ID, unlocks; owners change resources; a pod is killed at any point. Four
observations say what the code itself cannot: what a shutdown owes (`owed`), what
of it is not yet flushed (`unsaved`), what was lost in a way the code accepts
(`forfeit`: a killed pod, a failed flush, a database passed over), what its owner
changed (`touched`). A size stands for replicas, desired size or a whole
NodePool spec, which is what tells restored from not restored. Cloud calls
succeed, fail without effect, or find the resource missing.

`RestoreData` is one entry per key and follows the strategies of
`internal/restore/strategy.go` in the order `save.go` tries them.

### Schedule, exceptions and overrides

`Schedule` evaluates windows at a time, with the cron semantics of a window
(next and last occurrence of its start and end on its days), the grace at both
boundaries and the three exception types with their next-time adjustments.
`ScheduleDelivery` is the loop that nobody polls: evaluate, store unless equal,
arm one timer, fire, reconcile. Time has two units to a minute so that the
safety buffer and the schedule buffer fall below and above one.

`Exceptions` has the webhook's rules, the context delivered to the lifecycle
processor (suppressed when nothing it compares has changed), and its handlers,
each of which works on the copy it was given. The plan goes through its phases
without the provider seeing it, since status writes are filtered out; what queues
a reconcile is a Job that ends (before the phase is written), an edit, the start
or end of a validity and a boundary of the schedule. The windows are there twice:
as the webhook compares them, and as the evaluator opens them minute by minute
(`OpenAt`), for `ExceptionsCompose` to hold the one against the other. `Overrides` keeps the worker's
copy of annotations beside the plan's: a handler changes the copy and then
patches, so after a failed patch the copy is ahead until the next delivery.
Operations are one step there, since their inner life is in `PlanWorker`.

### Pool, timers and notifications

`KeyedPool` is one key: the map entry, every entry ever created for the key,
their goroutines (`at`) and callers between two lock acquisitions, those of
`Deliver` and those of `Remove`, which deletes the entry, cancels its goroutine
and drains its slot one after the other. The same actions serve both kinds of
pool the program builds (`kpKind`). `TimerSet` keeps
for each timer the time left and whether the loop's `select` has seen it, since
a timer armed during the `select` is noticed only through the notify channel.
`NotificationDispatch` follows one plan and one Slack sink in thread mode,
stream by stream; a delivery is three steps (root, reply, reaction), each of
which may fail. Two assumptions of it are about time. A status write takes
seconds and an operation minutes, so a delivery lags behind by fewer operations
than entries are kept for, and a worker at rest has taken its request before the
next operation begins. And a cached state expires ten minutes after its last
use, not while something of its stream is under way. Both are guards
(`NextOperation`, `ExpireState`). Without the second half of the first, a request
that lay for a whole operation in front of an idle worker could find its thread
expired from the cache and pruned from the status. `NotificationBinding` is one notification and the plans of its
namespace.

## 3. Runs

Each run ends within five minutes. `CHECK_DEADLOCK FALSE` is set because the
systems may stop: an idle plan waits for the next event, planning ends with a
result, a stopped pool has nothing to do.

| Run | Instance | Checks |
|---|---|---|
| `strict_crash` | two stages of one target, Strict with failFast, no retries but a manual one; one schedule change, restart, Job failure, failing creation and API error | `StatusCoherent`, `StageGate`, `StageIsolation`, `CompletedIsReal`, `SingleRunner` |
| `suspend` | sequential a, b; one schedule change, suspend switched twice, writer one update behind | `DrainBeforeSuspend`, `InterruptedWakeupNotActive`, `SuspendHonoured` |
| `suspend_crash` | one target; suspend switched three times, a restart, a failing patch, an expired drain, writer two updates behind | `TypeOK`, `UniqueCurrentJob`, `MemoryIsTail`, `ImplementsLifecycle` |
| `besteffort_dag` | DAG a -> b beside c, limit 1, BestEffort; schedule change, Job failure, conflict, flush error | `UpstreamCompleted`, `ConcurrencyLimit`, `RestorePointKept` |
| `job_faults` | one target, two retries; schedule change and either two Job failures or a Job failure, pod failure, deletion and collection | `OperationEnds` |
| `runner` | two resources of each of the six executor types and of one that is not enabled; two cycles, two pods per Job, one failing call, one killed pod or lost flush, one change by the owner | `OwedIsRestorable`, `MarkedIsBack`, `NeverUnasked`, `RunnerEnds` |
| `decisions`, planning | all plans over 3 names, up to 4 dependencies (3 through the webhook, 2 with an exception) or 2 stages; exceptions that disable any targets of any strategy, up to all of them, or bring one of six strategies, among them a cycle, stages that name only some targets and none | `DependenciesFirst`, `PlacedOnce`, `CycleIffKnotted`, `AcceptedIsPlannable`, `StagesPartitionTargets`, `WakeupReverses` |
| `decisions`, schedule | a week of three days of six minutes; over a hundred combinations of windows by day and overnight with extend, replace and suspend exceptions of several validities, created at any time of a week, and one reconcile or deletion at any time | `AnswerIsCurrent`, `SuspensionKeepsAwake` |
| `decisions`, exceptions | two exceptions, four contents (windows by day and over midnight, two with overrides), three edits, or two with a plan that is deleted and created again or enters a cycle | `ExceptionsCompose` |
| `decisions`, overrides | two requests at a schedule boundary with a failing call, or one with a failing call and a restart of the controller | `RestartRunsOnce`, `IntentFollowed` |
| `decisions`, notifications | three operations, a stream buffer of one; two events with one failing call and one exit, three with one of these, or four of which the last is an outcome | `OneThreadPerStart`, `OutcomeStaysMarked` |
| `services`, pool | two senders, three values, two entries, one removal, FIFO capacity two | `OnePlanWorker`, `NothingStranded` |
| `services`, timers | inactivity 3; polls, deadlines and timeouts below, at and above it | `DrivenAgain` |
| `services`, exceptions | one exception with three contents, two edits, two changes of the plan; or one failing call with two of these | `ExpiryIsRecorded`, `DeletionEnds` |
| `services`, bindings | two plans, two labels, two edits, one failing patch | `BindingsSettle`, `NotificationDeletionEnds` |
| `refute_*` | see section 6 | one documented claim each |

Bounds. `QueueBound` is how many updates may be unwritten when a handler starts,
also one that is called from another (the code never waits for the writer): a
handler that sends several updates exceeds it. It is 0 where a property is
about restarts between handlers, since a restart with a lagging status already
breaks it in a known way (section 6), and 1 or 2 where it holds beyond. Two
targets suffice for order between stages and for one overlooked runner beside a
seen one, three for a DAG with an independent branch under a limit. The budgets
allow each fault once: the counterexamples of section 6 need one fault each, or
several of different kinds. `MissThreshold` is 2 instead of the code's 3 to
keep the states few (one miss is tolerated, the next is not); `MaxHandleDepth`
is the code's 5. Three names with four dependencies include every graph with a
repeated edge beside a cycle.

Two resources suffice for a call that treats several at once and for one that
fails beside one that does not; two cycles for data of an earlier cycle to meet
a later one. Two sizes tell a restored size from another. `MaxStaleCount` is the
code's 3. The week of three days keeps a window over midnight, one over the end
of the week and a day without windows; a day of six minutes keeps windows that
touch, nest and overlap. Two entries and one removal are what a value needs to
fall between a worker that ends and one that starts. The clock of `Exceptions`
stands between instants, three of them, with validities of one or two; a week of
two days of four minutes has windows over midnight on one day and on both. A
cycle that applies an override and ends is two changes of the plan, with the
deletion in between.
A behaviour of the `decisions` exceptions ends where `exCalm` does, since
`ExceptionsCompose` says nothing from there on. Three operations with two entries
kept let an entry be pruned, and the fourth event is the outcome of the third.

Symmetry is not used: targets differ by their stage. Where names are
interchangeable (`MCRunner`, bindings in `MCServices`) the initial states are
restricted to one order instead.

Fairness. `PlanWorker!FairSpec`: the worker's loop takes what is there, the
status writer writes, the provider's queue and the slot deliver, goroutines that
label Jobs end, the Job controller starts pods and a runner that runs ends.
These are Go goroutines and Kubernetes controllers without conditions on each
other. No fairness is assumed for users, faults, restarts, schedule changes, the
collection of Jobs or the expiry of the drain: that expiry is 30 minutes away
and nothing should depend on it. `Runner`: the pod's own steps, including the
deadline of an await; resources need not change. `KeyedPool`: senders inside
`Deliver`, goroutines, and strong fairness for taking a pending signal, because
Go's `select` chooses at random among ready cases; idle timers and further
deliveries may never come. `TimerSet`: time passes, both goroutines run, and the
same `select` argument. `Exceptions` and `NotificationBinding`: provider,
processor and status writer run and time passes, which includes that a plan is
reconciled at the boundaries of its schedule, again and again (a schedule has a
next boundary for ever, but for the case `Unscheduled` of section 6); users, Jobs,
the phases of the plan and faults have none.

Every property has a mutant: a named variant ("Slip") of one definition, as a
plausible mistake in that code would have it, under which TLC finds the
property violated.

## 4. What is proved

With TLAPS, for all values of the constants that satisfy the named assumptions
(finitely many targets, stages made of targets, at least one stage, positive
thresholds):

* `PlanWorkerProofs`: `WorkerTypeCorrect`, `UniqueCurrentJobHolds`,
  `MemoryIsTailHolds`, from `WorkerInvariant`. The type of a new Job depends on
  the stage that the status' index selects, and a restart takes the status from
  the API server, which has it from the queue: so the invariant covers every
  status in memory, queue and API server, gives each a stage index inside the
  plan of its operation, and makes memory and the end of the queue agree on
  operation, cycle, stage and retry count. `UniqueCurrentJob` is then
  inductive: steps that create no Job only move Jobs towards their end or label
  them (`MoveUnique`), and `executeForStage` creates one only where
  `JobExistsForTarget` finds none (`DispatchUnique`). `MemoryIsTail` goes
  through the handlers one by one, because each sends what it changes
  (`TailInv`, which also covers an override as long as nothing is pruned).
* `PlanWorkerProofs`, the stages: `StageGateHolds`, from `GateInvariant`. A
  restart resumes from the persisted status, and a completed execution could be
  taken back by a Job that an observation finds later; so the invariant has the
  gate for memory, for each queued status and for the persisted one, and says
  that the Jobs of a completed execution are done (`Done`). It holds over restarts
  while the writer keeps up (`QueueBound = 0`: every handler finds the queue
  written), because a restart then loses at most what the last handler sent; and
  for any lag without a restart. `strict_crash` is an instance of the first kind.
* `PlanLifecycleProofs`: `LineHolds`, `DurableMovesHold`, for every number of
  stages and retries (`PlanOK`: both positive, respectively natural). `LineOK` is
  inductive: persisted, queued and current status form one line along the edges,
  each with a stage of its operation's plan and at most `MaxRetries` retries.
  Writing takes the head of the line, a restart cuts it behind its first.
* `PlanRefinementProofs`: `LifecycleImplemented` (`Spec => ImplementsLifecycle`),
  and through it `WorkerLine` and `PersistedMovesHold`, the two results above for
  `PlanWorker`. The handlers decide on the phase in memory and their updates
  extend the queue, so the simulation needs, beside `WorkerInvariant`, that
  memory and the newest queued status agree on the phase, except for
  `forceWakeUpOnResume` (`PhaseInv`). Each handler is shown to extend the queue
  only at its end (`Grows`) by statuses its edge reaches from memory (`Sent`). The
  bound on the retry count is a result of the refinement: `PlanWorker` itself
  increments it in one handler and resets it in four.
  `CoherentUntilSuspended`: as long as no user has suspended the plan,
  `StatusCoherent` holds, for any restarts, lag and faults. Its invariant
  (`OrderlyInv`) says that then no status is Suspended, no drain is armed and in
  every status the phase matches the operation; stage and retry count are in
  bounds by `WorkerLine`. After a suspension it can fail (section 6).
* `PlanRefinementProofs`, the runners: `StageIsolationHolds`, `SingleRunnerHolds`,
  `ConcurrencyLimitHolds`, from `RunnersInPlace`. None of the three is inductive: a
  Job at work that the handlers no longer see (because it is labelled stale, or is
  taken for failed) would get a second one beside it or stay behind when
  `execute` moves on. `LabelInvariant` says that this happens only to Jobs that are
  over, also for the `markJobAsStale` goroutines still to run; it needs Job names
  that are not reused, and no pod that fails while its Job goes on, which
  `handleRetry` takes for a failed Job. `RunInv` then says that every Job at work is
  of the operation, cycle and stage in memory, that there is room for them, and
  that an execution that is over has none. Regime: no restart, no suspension, no
  such pod (`Steady`), and a plan where nothing is pruned (`Unpruned`: Strict, or no
  dependencies), because a wakeup may prune the target of a Job at work.
* `PlanRefinementProofs`, the DAG: `UpstreamCompletedHolds`. Under Strict it
  follows from the gate and `RunInv`. Under BestEffort stages are left with failed
  targets, so `ShutdownInvariant` follows a shutdown alone: the stages before are
  over, and its Jobs at work are behind completed targets, because
  `executeForStage` prunes the others before it dispatches. Hypotheses: `Steady`;
  stages that put sources first (`DepsStaged`, which `DependenciesFirstHolds` proves
  of the Planner); under BestEffort no override, which keeps the pruning out of
  memory.
* `PlanRefinementProofs`, what Completed means: `CompletedIsRealHolds`,
  `RestorePointKeptHolds`, from `RealInvariant`. The worker learns of a completion
  from a Job or from a finish time it noted earlier, of a target it may have
  worked on in an earlier cycle; so `RealInv` starts at the Job and says that
  whatever a Job or the status claims (`Sure`) is so of the resource and the
  restore data (`Real`), that the data is complete when a wakeup begins and gone
  when the plan is Active (`DataInv`), and that a shutdown's cycle has no Job of a
  wakeup (`CycleInv`). Regime: `Steady`, `Unpruned`, and no runner fails, no flush
  of its restore data fails and no `MarkTargetRestored` loses its update
  (`Smooth`); Jobs may be deleted or collected, calls of the controller may fail
  and the writer may lag.
* `PlanRefinementProofs`, the drain: `DrainBeforeSuspendHolds`, from
  `DrainInvariant`. `performSuspension` drains what the executions in memory call
  running, so the invariant relates these to the Jobs: beside `RunInv`, which now
  has to survive suspensions and resumptions, nothing failed and a finish time is
  that of a completion (`CleanInv`), and runners work only while the operation is
  under way. Regime (`Gentle`): no restart, no failed Job or pod, with `failFast` no
  failing Create, and `Unpruned`. The theorem allows any number of suspensions,
  also of the drain itself.
* `PlanAdmissionProofs`, the Planner: `TypeCorrect`, `DependenciesFirstHolds`, `PlacedOnceHolds`,
  `NoIdleStageHolds`, `CycleIffKnottedHolds`, all from `Inductive`. The
  inductive invariant says what the in-degrees mean: each counts the
  dependencies on targets that are not placed yet (`DegreesCount`). The
  properties alone are not inductive: that a target of in-degree 0 has
  everything it needs in earlier stages follows only from that meaning, and
  that no member of a cycle is ever placed (`KnotsUnplaced`) from it as well.
* `PlanAdmissionProofs`, the webhook: `WebhookIsExact`, `AcceptedIsPlannableHolds`,
  `StagesPartitionTargetsHolds`, `WakeupReversesHolds`, from `AdmissionInvariant`,
  for any names, dependency lists and stage lists. What `validateDAG` has visited
  are the names of degree 0 outside its queue, and a degree counts the dependents
  not visited (`KahnRuns`): so no member of a set in which everyone has a
  dependent is ever visited, and of a set in which everyone depends on a member
  one stays out. The two kinds of sets are the cycles that `PlanDAG` meets in the
  reversed and in the declared direction, so counting visited names decides for
  both. From the call of the Planner on, the invariant of `PlanDAG` (`IInv`) carries
  the argument. None has a hypothesis: where an exception breaks a plan (section
  6), the properties say which and how. `AcceptedIsPlannable` is exact for the
  plan's own strategy (planning fails if and only if a target that depends on
  another is disabled), and `StagesPartitionTargets` gives the targets of the
  stages in every case but that of stages an exception brings.
* `KeyedPoolProofs`: `PoolInvariant`, `OnePlanWorkerHolds`, for any number of
  senders, values, entries and removals. `OnePlanWorker` alone is not inductive:
  a caller of `Deliver` holds an entry between two locks and would start its
  goroutine after the entry was removed. The invariant adds that such a caller's
  entry is the one in the map (`CallersOK`; the coordinator delivers and removes on
  one goroutine), and that every other entry is between two sections of `Remove`,
  or has no signal left and no goroutine but one that is cancelled or was started
  again before `Drain` (`PlanEntries`). It is restricted to the plan kind; for a status writer's FIFO pool with auto-removal it is false
  (section 6).
* `OverridesProofs`: `OverridesInvariant`, `RestartRunsOnceHolds`,
  `IntentFollowedHolds`, for any horizon and any number of requests, boundaries,
  failing calls and restarts. The difficulty is the copy that a worker acts on
  after the plan has moved on: `RestartsCounted` counts a restart at every place
  it can wait, `StaleIsReplaced` says that a copy with a restart the plan no
  longer has is always about to be replaced, and `RestIsSettled` and
  `CopiesAreReads` say what the worker's copy, timers and slot are once nothing
  is queued. Every outcome of the handlers is shown to be `Allowed` first
  (`OutcomeType`, `Keeps`, `Settles`), so that the steps of the specification
  need one argument instead of one per branch. The proof corrected the model: a
  worker that ends takes its slot with it (`Leaves`).
* `RunnerProofs`, the restore data: `SaveKeepsShape`, `RetriesKeepDemand`,
  `OnlyThisCycleIsLoaded`, for any set of resources and any `MaxStaleCount`. The
  shape (`Kept`: an entry was reported in the data's cycle or is stale, never
  both) holds of no data and survives every write (`OthersKeepShape`); the other
  two follow from it by the cases of the merge.
* `RunnerProofs`, the runner: `TakenDownStaysRestorable`, `MarkedOnlyWhenBack`,
  `WakeupsAreAsked`, from `RunnerInvariant`, for all executors, any resources,
  sizes, cycles, attempts and budgets of faults and owners' changes. None of the
  three properties is inductive: what is owed is known at first to the
  accumulator alone and in the restore data only after the flush, the mark is
  written long after the last resource came back, and a wakeup acts on what it
  loaded before. `RunnerInv` adds where the operation is and what it holds
  (`JobInv`), that the data of a running shutdown is of its own cycle
  (`StoreInv`), and for every resource that what is owed is down and recorded
  with its size (`OwedInv`, `SizeInv`), that what a wakeup would act on is owed,
  up, forfeited or its owner's (`AskedInv`, `WakeupInv`), that a shutdown reports
  a resource once, EC2 before it stops one (`ShutdownInv`), and for Karpenter that
  an older entry kept for a pool has the pool's size (`PoolInv`). Each executor's step touches
  one resource; a lemma on the others leaves one resource to look at.
* `NotificationDispatchProofs`: `OneThread`, `OutcomeMarked`, from
  `DispatchInvariant`, for any number of operations, events, failing calls,
  exits, buffers and entries kept (`NdAssumption`: at least one operation and one
  entry). What is known of a thread is in four places: the delivery under way,
  the cache, the queued status updates, the status. `NDInv` says which is the
  latest: the last queued update agrees with the cache (`WriteInv`), and without
  a cached state the status says as much as was ever known (`MemoryInv`), with
  the reaction on the root and the last outcome beside it (`MarkInv`). Pruning
  drops the entry of the earliest delivery; that this is never the current
  operation's (`CurrentStays`) is a counting argument over `OrderInv`: only
  entries of the last `NdKept` operations can follow it. The proof corrected the
  model: the guard on a waiting request (section 2) was missing, and three events
  were too few for TLC to notice.

`NoIdleStage` is proved and no longer part of a run.

Only model-checked, and why:

* Liveness (`OperationEnds`, `SuspendHonoured`, `RunnerEnds`, `NothingStranded`,
  `DrivenAgain`, `ExpiryIsRecorded`, `DeletionEnds`, `BindingsSettle`,
  `NotificationDeletionEnds`): fairness is beyond the prover.
* Properties of `PlanWorker` outside the regimes above, where they are false for
  some values of the constants because of what the code does (section 6 has the
  weaknesses that a document contradicts). The runs check them there on instances
  where they still hold:
  * `StatusCoherent` after a suspension, with a restart or a failing patch;
  * `ConcurrencyLimit` after a restart with a lagging writer: the worker resumes
    with executions older than the stage, or starts a new cycle beside a Job at
    work. (`StageIsolation` and `SingleRunner` are stated for a controller that was
    not restarted, and `StageGate` excludes the same case in its statement.)
  * `StageIsolation`, `SingleRunner`, `ConcurrencyLimit` after a suspension, where they
    are proved only while nothing failed (`DrainInvariant` contains `RunInv`): the
    drain may miss a retried runner. After a pod failed under a running Job,
    `handleRetry` labels that Job stale and dispatches a second. Where a wakeup
    prunes a target whose Job runs, no handler waits for it.
  * `CompletedIsReal`, `RestorePointKept` after a failed Job: the finish time of the
    failed attempt stays in the execution, and when the second Job is deleted, the
    execution counts as completed; after a lost `MarkTargetRestored`, the next
    shutdown reuses the cycle ID and finds the Jobs of the wakeup.
  * `DrainBeforeSuspend` after a failed Job, for the same finish time, and with
    `failFast` after a failing Create, which puts the plan in Error with runners at
    work.
  * `UpstreamCompleted` under BestEffort with an override, whose pruning is lost.
* `InterruptedWakeupNotActive`: it depends on how often a plan is suspended. A
  wakeup that was suspended and resumed in off-hours is Hibernated with its
  operation unfinished; suspended there and resumed in off-hours once more, it
  is Active. `suspend` has one suspension.
* `AnswerIsCurrent`, `SuspensionKeepsAwake`, `ExceptionsCompose`: arithmetic of
  calendars with scaled constants; the evaluator searches days one by one.

## 5. What is not modelled

`PROJECT.json` lists every part with its status. Left out, and why:

* Streaming of logs and progress, metrics, printers, message templates and the
  sinks other than Slack's threads, rate limiting, log sinks: they show, format
  or delay; no decision of the system reads them.
* The executors for GKE and Cloud SQL, which the runner does not enable unless
  told to (`cmd/runner/app/factory.go`, "pending API integration"); a target of
  such a type fails at once, which is modelled.
* Time zones and daylight saving, the formats the webhooks check, the
  classification of errors by their text: data, tested by examples.
* A target list that changes in mid-cycle, `suspend-until`, status updates lost
  to permanent API errors. They would change the constants and the queue that
  the proofs about `PlanWorker` rest on.
* Calls that fail with an unknown effect (a timeout after the cloud has acted),
  except for the creation of Jobs, where the handler's next attempt differs.
* Deletion as a state of its own where nothing depends on it: in
  `ScheduleDelivery` a deleted exception is gone at once (the provider also drops
  one with a `DeletionTimestamp`). An `override-action` annotation without a valid
  target, which holds the schedule back (`state/state_override.go:160`), is not
  among the requests of `Overrides`. `NotificationBinding` leaves out the write for
  a changed `ObservedGeneration` alone.
* `pruneSinkStatusesToMaxEntries` (`processor/notification/lifecycle.go:384`), the
  cap over all plans of a notification: `NotificationDispatch` has one plan and the
  cap per plan. With more streams under way than the cap holds, the entry of a
  running one is dropped, and it opens a second thread once its cache expires.
* The moment between the read and the update of one scale: `ScaleNodeGroup` (EKS)
  and the workload scaler read a size and write another in one step, so an owner's
  change in between is not seen.
* The restore editor of the CLI, which writes restore data as a user pleases.

What remains of the plan: proofs of the properties of `PlanWorker` above under
the budgets for which they hold, as `CoherentUntilSuspended` does for one of
them; a changing target list.

## 6. Where code and documentation disagree

Shown by runs, each with a counterexample of TLC:

* `refute_schedule`: when off-hours end while the shutdown still executes, the
  event is consumed by the executing handler; `finalize` arms no timer, and the
  plan stays Hibernated in on-hours until something else happens.
* `refute_override`: under an exception override `pruneTarget` changes the
  effective copy, not the worker's status; the operation never ends.
* `refute_restore`: `restored-*` annotations are not tied to a cycle; those of
  an incomplete BestEffort wakeup help a later one to unlock data of a target
  that is still down.
* `refute_orphan`: a restart between the creation of the first Job and the
  first status write gives the shutdown a new cycle ID; two runners then work
  on one target.

Met on the way, each reproducible by changing constants of a run above; the
properties hold in the runs because these faults are not in their budgets:

* The deferred flush error of a shutdown is assigned to `operationErr`, which is
  not a named result (`cmd/runner/app/runner.go:234`): the comment above it says
  "If shutdown succeeded but flush failed, prioritize flush error", and the
  runner reports success without restore data. `ShutdownSucceeds` has both
  outcomes.
* A retry keeps `FinishedAt` of the failed attempt (`state/state_recovery.go:151`).
  With a Job failure and a deleted Job the lost second attempt is taken for a
  collected success (`CompletedIsReal`; `state/state_execution.go:459`); the
  same happens without a deletion when the second attempt fails, its Job is
  labelled stale and the controller restarts before the failure is persisted
  (two Job failures in `strict_crash`). And
  with a Job failure and a suspension the drain overlooks the second runner
  (`DrainBeforeSuspend`; `state/state.go:415`).
* `relabelStaleFailedJobs` labels a Job that lost a pod and still retries; it
  no longer counts against the limit (`ConcurrencyLimit` with a pod failure and
  a failing creation; `state/state_recovery.go:254`).
* A failed suspension patch, or a restart between the annotation patch and the
  status write of a resume, leaves a Suspended plan without
  `suspended-at-phase`, and an interrupted wakeup resumes as Active
  (`InterruptedWakeupNotActive`); a stale annotation resumes into a phase that
  does not match the operation (`StatusCoherent`).
* `FindFailedUpstream` reads the dependencies in the declared direction during
  a wakeup too (`state/utils.go:157`), so `UpstreamCompleted` is stated for
  shutdowns only.
* The exception webhook refuses to disable a target others depend on, not one
  that depends on others; the dangling dependency makes `PlanDAG` fail
  with "target not found" (`state/state.go:316`; `Dangling` in
  `AcceptedIsPlannable`). A disabled target stays in the plan's own stages and
  keeps its stage open; with all targets of a Parallel plan disabled the execution
  plan is one empty stage (`StagesPartitionTargets`). A strategy in an
  `executionOverride` is checked by its type only
  (`internal/validationwebhook/scheduleexception_validator.go:491`): it may have a
  cycle, or stages that leave targets out or name unknown ones. And target
  overrides are compared with the plan as it was when the exception was written.
* When a Job is deleted during a drain, its execution keeps `LogsRef` and the
  drain waits for the timeout (`SuspendHonoured` with a deleted Job).
* `handleManualRetry` deletes `retry-now` from the cached plan before it patches
  (`state/state_recovery.go:87`): when the patch fails, the handler that is driven
  30 seconds later no longer sees the request, and the plan stays in Error until
  it is delivered again (`ManualRetryFails`). A failing call in
  `postWakeupCleanup` leaves the restore data of an Active plan live.
* The label that `markJobAsStale` sets in a goroutine (`state/state_execution.go:540`)
  is not retried when the patch fails. A later shutdown that reuses the cycle ID
  then finds the old Job and takes its success for its own. In `PlanWorker` the
  label comes at any later time, but comes.
* `handleWithDepth` beyond `maxHandleDepth` returns with all timers reset: with
  failing creations under failFast an Error with retries left is not retried
  until the next event (`plan/worker.go:177`).

Met while modelling the other components. Where a property would fail because of
one of these, it names the exception (`forfeit`, `ovExcused`, `exCalm`,
`Unscheduled`, `revived`, `ndLost`, ...) and holds otherwise:

* Runner. Executors say "Incremental save: persist ... immediately"
  (`internal/executor/ec2/ec2.go:180`, `eks/eks.go:490`,
  `karpenter/karpenter.go:463`); the callback only collects in memory, and a pod
  killed before the flush leaves resources down without restore data. A shutdown
  that fails before its flush leaves data of an earlier cycle, not live, which
  the next wakeup uses with a warning. A NodePool edited between two shutdowns
  of one cycle comes back with the older spec. An RDS wakeup without
  `awaitCompletion` skips a database in transition and still marks the target.
  `pkg/executorparams/params.go:29` says an operation fails when it does not
  complete in time; the RDS executor counts it and succeeds (`rds/rds.go:564`).
  The stale count of a key grows with each attempt of a Job, not each cycle.
* Schedule. `processor/requeue/processor.go:38` promises "one timer per plan key,
  always set to the nearest upcoming boundary". A plan that is reconciled, for
  whatever reason, in the grace after a suspension window, with its own windows
  not in grace, has none: `applySuspend` reports the grace but not its end
  (`internal/scheduler/schedule.go:532`), so the next event is the zero time plus
  the safety buffer. The processor enqueues the plan at once, the provider stores
  an equal context, which is suppressed, and no timer remains; the plan stays
  awake until something else reconciles it. `AnswerIsCurrent` names this case
  (`Unscheduled`) and the run reaches it.
  A window with equal start and end is admitted, and the evaluator rejects it. A
  lead time has no boundary of its own. `findNextSuspensionStart` looks at today
  and tomorrow only. A suspension's start is acted on after the schedule buffer.
  A failure to list exceptions evaluates without them, and a full channel drops
  the requeue (`internal/provider/types.go:116`).
* Exceptions. The webhook compares with exceptions that carry a label, which the
  controller sets when it first handles them, and skips Expired and Detached ones:
  of two that are written at the same time, or while there is no plan, both are
  admitted; one that was Detached, or whose "Expired" a queued write recorded after
  it was edited, comes back without a comparison. `ExceptionsCompose` is therefore
  about writes that find the controller settled. An extend or replace window over
  midnight on a part of the week is open until the next end on a listed day
  (`internal/scheduler/windows.go:303`: start and end have the same days, where the
  comment of `ParseWindowToCron` lets an overnight window end the next day), and the
  webhook takes both halves for the listed day: MON 20:00-06:00 and TUE 02:00-05:00
  are admitted together and open together (`SpillsOver`). A failed patch while the plan
  is deleted leaves the finalizer on an exception without a plan, and an owned
  exception with a finalizer outlives its plan. A deletion that a cycle blocked is
  not retried when the cycle ends, since the provider does not see the phase, but
  at the next boundary of the schedule. A handler that finds the wanted state in
  its copy writes nothing, although an older write is still queued.
* Overrides. `state/state_override.go:38` says the controller revokes an
  override when its deadline is reached; one whose deadline has passed when the
  idle handler first sees it (the controller was down, or an operation ran) is
  never revoked. An override that starts an operation arms its deadline only at
  the next delivery. After a failed patch the worker's copy is already changed:
  a restart is not acted on until the next delivery (`:214` says "the annotation
  survives, preserving intent"), a plan whose finalizer could not be removed
  stays Terminating until another event (`state_lifecycle.go:66`). A restart of
  the controller between the consumption of the annotation and the status write
  loses the restart.
* Notifications. A reply that fails after the root was posted loses the root, and
  the next event posts another. A failed delivery with states that could not be
  read overwrites the persisted ones. A reaction call that fails on a new root
  keeps the reaction of the old one in mind. A failed finalizer patch is not
  repeated until the object changes.
* Pool and timers. `Remove` cancels a plan's goroutine and drains its slot after
  releasing the lock in between (`pkg/keyedworker/pool.go:227`). A goroutine that
  ends there with its slot still signalled is started again by the deferred half of
  `runEntry`, with a context nobody will cancel: it may handle the last value of
  the deleted plan, beside the worker of a plan of the same name that was created
  meanwhile, and stays until its idle timeout (`revived` in `OnePlanWorker`).
  Auto-removal deletes the key whichever entry holds it
  (`pkg/keyedworker/pool.go`), so two entries of a FIFO key can be drained side
  by side. A full FIFO drops the newest value; `processor/status/processor.go:76`
  says the oldest. A dropped timeout event is not repeated, unlike a poll. A
  backoff of exactly the inactivity timeout ends the worker before its retry,
  which `DrivenAgain` leaves out. An inactivity event already queued ends a
  worker that a delivery has just driven.
