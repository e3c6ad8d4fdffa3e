----------------------------- MODULE PlanWorker -----------------------------
(***************************************************************************)
(* One HibernatePlan and everything that moves it: the worker goroutine    *)
(* that owns the plan (internal/provider/processor/plan), its phase        *)
(* handlers (.../plan/state), the asynchronous status writer               *)
(* (.../processor/status), the runner Jobs on the cluster, and the         *)
(* restore ConfigMap the runners keep (internal/restore).                  *)
(*                                                                         *)
(* The worker keeps the plan's status in memory and acts on it at once;    *)
(* the status writer persists every change later, in FIFO order.  A        *)
(* restart of the controller keeps only what was persisted.                *)
(*                                                                         *)
(* Left to other modules or to later work: how a strategy becomes stages   *)
(* (Planner), suspend-until, the override-action and restart annotations,  *)
(* changes of the target list, deletion of the plan.                       *)
(***************************************************************************)
EXTENDS Naturals, Sequences, FiniteSets

CONSTANTS
  Targets,         \* plan.Spec.Targets, by name
  Stages,          \* operation -> sequence of [targets, max] (buildExecutionPlan)
  Deps,            \* DAG dependencies <<from, to>>; {} when the strategy is not DAG
  Mode,            \* behavior.mode: "Strict" or "BestEffort"
  FailFast,        \* behavior.failFast
  MaxRetries,      \* behavior.retries
  MissThreshold,   \* consecutiveJobMissThreshold
  MaxHandleDepth,  \* maxHandleDepth
  Overridden,      \* an exception override is in force: effectivePlan is a copy
  QueueBound,      \* how far the status writer may lag when a handler starts
  Budget           \* how often each environment event may happen

Ops == {"shutdown", "wakeup"}

Phases == {"", "Active", "Hibernating", "Hibernated", "WakingUp", "Suspended", "Error"}

Terminal == {"Completed", "Failed", "Aborted"}

ExecStates == {"Pending", "Running"} \cup Terminal

\* Everything the environment may do, each counted against Budget.
Events == {"crash", "jobFailure", "podFailure", "lost", "gc", "createError", "patchError",
           "conflict", "flushError", "apiError", "timeout", "suspend", "flip", "retryNow"}

ASSUME TargetsAssumption == IsFiniteSet(Targets)
ASSUME StagesAssumption ==
  /\ Stages \in [Ops -> Seq([targets : SUBSET Targets, max : Nat])]
  /\ \A op \in Ops : Len(Stages[op]) > 0
ASSUME DepsAssumption == Deps \subseteq Targets \X Targets
ASSUME ModeAssumption == Mode \in {"Strict", "BestEffort"} /\ FailFast \in BOOLEAN
ASSUME BoundsAssumption ==
  /\ MaxRetries \in Nat
  /\ MissThreshold \in Nat \ {0}
  /\ MaxHandleDepth \in Nat \ {0}
  /\ QueueBound \in Nat
  /\ Overridden \in BOOLEAN
ASSUME BudgetAssumption == Budget \in [Events -> Nat]

VARIABLES
  mem,       \* the worker's plan.Status (optimistic, in memory)
  sendq,     \* statuses the queued updates will produce, oldest first
  db,        \* the status persisted in the API server
  api,       \* the plan object's spec and annotations in the API server
  dirty,     \* the provider has a change of the plan still to reconcile
  slot,      \* the PlanContext waiting in the worker's latest-wins slot, if any
  ctx,       \* the worker's cached PlanContext
  wake,      \* what drives the worker next (its timers and its slot)
  depth,     \* recursion depth of handleWithDepth
  watchdog,  \* the TimeoutAfter timer is armed
  miss,      \* consecutiveJobMisses
  jobs,      \* runner Jobs in the cluster
  made,      \* number of Jobs ever created per target (names them)
  marking,   \* markJobAsStale goroutines in flight
  cycles,    \* number of cycle IDs generated so far
  live,      \* per target: cycle of its live restore data, 0 when none
  restored,  \* targets with a restored-<target> annotation
  saved,     \* targets with an entry in the restore ConfigMap
  sched,     \* schedule.ShouldHibernate as of now
  res,       \* observation: the state the cloud resource is really in
  used       \* environment events so far

planVars == <<api, dirty, slot, ctx>>
timerVars == <<wake, depth, watchdog>>
jobVars == <<jobs, made, marking>>
restoreVars == <<live, restored, saved>>
vars == <<mem, sendq, db, planVars, timerVars, miss, jobVars, cycles, restoreVars, sched,
          res, used>>

-----------------------------------------------------------------------------
(* Data *)

ExecStatus == [state : ExecStates, fin : BOOLEAN, logs : BOOLEAN]

Status == [phase : Phases, op : Ops \cup {""}, cycle : Nat, stage : Nat \ {0},
           ex : [Targets -> ExecStatus], retry : Nat]

Job == [t : Targets, n : Nat, op : Ops, cyc : Nat,
        st : {"created", "active", "done", "failed"}, podFailed : BOOLEAN, stale : BOOLEAN]

PlanObject == [suspend : BOOLEAN, suspendedAt : Phases, retryNow : BOOLEAN]

PlanContext == [suspend : BOOLEAN, suspendedAt : Phases, retryNow : BOOLEAN,
                hibernate : BOOLEAN, hasData : BOOLEAN]

\* A freshly initialised ExecutionStatus: pending, never started.
PendingExec == [state |-> "Pending", fin |-> FALSE, logs |-> FALSE]

PhaseOf(op) == IF op = "shutdown" THEN "Hibernating" ELSE "WakingUp"

Executing(s) == s.phase \in {"Hibernating", "WakingUp"}

Finished(j) == j.st \in {"done", "failed"}

\* An environment event that may still happen, and its count.
May(e) == used[e] < Budget[e]
Count(e) == used' = [used EXCEPT ![e] = @ + 1]

\* UpdateProcessor: a Send appends; the status an update will produce is its
\* mutator applied to what the updates before it produce.
Newest(q) == IF q = <<>> THEN db ELSE q[Len(q)]

\* Slip: an update not yet written is replaced by the next one.
EnqueueLatest(q, s) ==
  IF s = Newest(q) THEN q ELSE IF q = <<>> THEN <<s>> ELSE [q EXCEPT ![Len(q)] = s]

Enqueue(q, s) == IF s = Newest(q) THEN q ELSE Append(q, s)

-----------------------------------------------------------------------------
(* StateResult: how a handler's result sets the worker's timers *)

\* Slip: no recursion limit.
RequeueUnbounded == watchdog' = FALSE /\ depth' = depth + 1 /\ wake' = "chain"

\* Requeue: all timers reset, the next handler runs at once; past the depth
\* limit the recursion stops with no timer armed.
Requeue ==
  /\ watchdog' = FALSE
  /\ depth' = IF depth + 1 >= MaxHandleDepth THEN 0 ELSE depth + 1
  /\ wake' = IF depth + 1 >= MaxHandleDepth THEN "quiet" ELSE "chain"

RequeueAfter == wake' = "poll" /\ depth' = 0 /\ watchdog' = FALSE

AwaitDrain == wake' = "poll" /\ depth' = 0 /\ watchdog' = TRUE

GoQuiet == wake' = "quiet" /\ depth' = 0 /\ watchdog' = FALSE

\* The worker's loop picks up a delivery, a poll tick or a requeue.
Awake == wake \in {"event", "poll", "chain"} /\ Len(sendq) <= QueueBound

\* Slip: a running shutdown is not interrupted.
SuspensionGateLate == ctx.suspend /\ mem.phase \notin {"Suspended", "Hibernating"}

\* suspensionGate: an unsuspended plan with Spec.Suspend goes to preSuspensionState.
SuspensionGate == ctx.suspend /\ mem.phase # "Suspended"

Selected(phase) == Awake /\ ~SuspensionGate /\ mem.phase = phase

-----------------------------------------------------------------------------
(* Observing runner Jobs: updateExecutionStatuses *)

\* Jobs of the current cycle and operation for target t that are not stale.
CurrentJobs(t) ==
  {j \in jobs : j.t = t /\ j.cyc = mem.cycle /\ j.op = mem.op /\ ~j.stale}

\* Slip: any terminal condition counts as completion.
FromJobOptimistic(exec, job) ==
  [state |-> CASE job.st = "active" -> "Running" [] Finished(job) -> "Completed"
               [] OTHER -> exec.state,
   fin |-> exec.fin \/ Finished(job), logs |-> TRUE]

\* exec is the target's status, job the Job found for it.
FromJob(exec, job) ==
  [state |-> CASE job.st = "active" -> "Running"
               [] job.st = "done"   -> "Completed"
               [] job.st = "failed" -> "Failed"
               [] OTHER             -> exec.state,
   fin   |-> exec.fin \/ Finished(job),
   logs  |-> TRUE]

\* Slip: a lost Job is waited for.
FromNoJobPatient(exec, misses) ==
  IF exec.state = "Running" /\ exec.fin THEN [exec EXCEPT !.state = "Completed"] ELSE exec

\* No Job found: a finished one was collected, a running one may be lost.
FromNoJob(exec, misses) ==
  CASE exec.state = "Running" /\ exec.fin -> [exec EXCEPT !.state = "Completed"]
    [] exec.state = "Running" /\ ~exec.fin /\ misses + 1 >= MissThreshold ->
         [exec EXCEPT !.state = "Pending"]
    [] OTHER -> exec

Observed(t) ==
  IF CurrentJobs(t) # {}
  THEN FromJob(mem.ex[t], CHOOSE j \in CurrentJobs(t) : TRUE)
  ELSE FromNoJob(mem.ex[t], miss[t])

ObservedEx == [t \in Targets |-> Observed(t)]

\* trackConsecutiveJobMiss / resetConsecutiveJobMiss
MissesAfter(t) ==
  CASE CurrentJobs(t) # {} -> 0
    [] CurrentJobs(t) = {} /\ mem.ex[t].state = "Running" /\ ~mem.ex[t].fin ->
         (IF miss[t] + 1 >= MissThreshold THEN 0 ELSE miss[t] + 1)
    [] OTHER -> miss[t]

\* Jobs whose target turned terminal just now get a markJobAsStale goroutine.
NewlyTerminal ==
  {j \in jobs : /\ j \in CurrentJobs(j.t)
                /\ Finished(j)
                /\ ObservedEx[j.t].state # mem.ex[j.t].state}

\* The worker's bookkeeping that goes with every observation.
TrackJobs ==
  /\ miss' = [t \in Targets |-> MissesAfter(t)]
  /\ marking' = marking \cup {<<j.t, j.n>> : j \in NewlyTerminal}

\* In memory and in the queue after the observation: one Send when it changed.
MemObserved == [mem EXCEPT !.ex = ObservedEx]
\* Slip: the observation is not sent to the status writer.
QueueUnobserved == sendq

QueueObserved ==
  IF ObservedEx = mem.ex THEN sendq
  ELSE Enqueue(sendq, [Newest(sendq) EXCEPT !.ex = ObservedEx])

-----------------------------------------------------------------------------
(* Stage execution: execute, executeForStage *)

StageAt(k) == Stages[mem.op][k]

LastStage == mem.stage >= Len(Stages[mem.op])

\* Slip: a stage is done once nothing is pending.
StageNotPending == \A t \in StageAt(mem.stage).targets : ObservedEx[t].state # "Pending"

StageTerminal == \A t \in StageAt(mem.stage).targets : ObservedEx[t].state \in Terminal

StageFailed == \E t \in StageAt(mem.stage).targets : ObservedEx[t].state \in {"Failed", "Aborted"}

StagePending == \E t \in StageAt(mem.stage).targets : ObservedEx[t].state = "Pending"

\* FindFailedUpstream reads the dependencies as declared, in both directions.
FailedUpstream(t, ex) == {d \in Deps : d[2] = t /\ ex[d[1]].state \in {"Failed", "Aborted"}}

Unfinished(k, ex) == {t \in StageAt(k).targets : ex[t].state \notin Terminal}

\* Slip: failed upstreams are not looked for.
BlockedNever(k, ex) == {}

Blocked(k, ex) == {t \in Unfinished(k, ex) : FailedUpstream(t, ex) # {}}

\* Slip: JobExistsForTarget is not asked.
EligibleAgain(k, ex) == Unfinished(k, ex) \ Blocked(k, ex)

Eligible(k, ex) == {t \in Unfinished(k, ex) \ Blocked(k, ex) : CurrentJobs(t) = {}}

\* CountRunningJobsInStage and the concurrency limit (0 means the stage's size).
RunningInStage(k) ==
  {j \in jobs : j.t \in StageAt(k).targets /\ j \in CurrentJobs(j.t) /\ ~Finished(j)}

MaxConcurrency(k) ==
  IF StageAt(k).max = 0 THEN Cardinality(StageAt(k).targets) ELSE StageAt(k).max

\* Slip: Jobs already running take no slot.
SlotsFresh(k) == MaxConcurrency(k)

Slots(k) ==
  IF Cardinality(RunningInStage(k)) >= MaxConcurrency(k) THEN 0
  ELSE MaxConcurrency(k) - Cardinality(RunningInStage(k))

NewJob(t) ==
  [t |-> t, n |-> made[t] + 1, op |-> mem.op, cyc |-> mem.cycle,
   st |-> "created", podFailed |-> FALSE, stale |-> FALSE]

\* pruneTarget for every target of P.
Pruned(s, P) ==
  [s EXCEPT !.ex = [t \in Targets |-> IF t \in P THEN [s.ex[t] EXCEPT !.state = "Aborted"]
                                      ELSE s.ex[t]]]

WithPhase(s, phase) == [s EXCEPT !.phase = phase]

\* How far the loop over the stage's targets gets: D are those it tries to
\* create a Job for, F those whose Create fails, P those it prunes.  It ends
\* early when the slots run out, or with a PlanError.
LoopOutcome(k, ex, D, F, P, failed) ==
  /\ Cardinality(D) <= Slots(k)
  /\ Mode = "Strict" => P = {}
  /\ Mode = "Strict" /\ FailFast => Cardinality(F) <= 1
  /\ IF failed
     THEN Mode = "Strict" /\ (Blocked(k, ex) # {} \/ (FailFast /\ F # {}))
     ELSE /\ ~(Mode = "Strict" /\ FailFast /\ F # {})
          /\ \/ D = Eligible(k, ex) /\ P = Blocked(k, ex)
             \/ D # Eligible(k, ex) /\ Cardinality(D) = Slots(k)

\* executeForStage on stage k, from in-memory status s and queue q.  A Create
\* that reports an error may still have created the Job (G).  The pruning goes
\* to the effective plan: the worker's own status when there is no override, a
\* deep copy of it otherwise.
ExecuteForStage(k, s, q) ==
  \E D \in SUBSET Eligible(k, s.ex), P \in SUBSET Blocked(k, s.ex), failed \in BOOLEAN :
    \E F \in SUBSET D : \E G \in SUBSET F :
      /\ LoopOutcome(k, s.ex, D, F, P, failed)
      /\ IF F = {} THEN UNCHANGED used ELSE May("createError") /\ Count("createError")
      /\ jobs' = jobs \cup {NewJob(t) : t \in (D \ F) \cup G}
      /\ made' = [t \in Targets |-> IF t \in (D \ F) \cup G THEN made[t] + 1 ELSE made[t]]
      /\ LET s1 == IF Overridden THEN s ELSE Pruned(s, P)
             q1 == IF P = {} THEN q ELSE Enqueue(q, Pruned(Newest(q), P))
         IN IF failed
            THEN /\ mem' = WithPhase(s1, "Error")
                 /\ sendq' = Enqueue(q1, WithPhase(Newest(q1), "Error"))
                 /\ Requeue
            ELSE mem' = s1 /\ sendq' = q1 /\ RequeueAfter

Handles(phase, op) == op \in Ops /\ phase = PhaseOf(op)

ExecutionStep == Awake /\ ~SuspensionGate /\ Handles(mem.phase, mem.op) /\ TrackJobs

\* hibernatingState.Handle and wakingUpState.Handle refuse a phase that does not
\* match the operation.
OperationMismatch ==
  /\ Awake /\ ~SuspensionGate /\ Executing(mem) /\ ~Handles(mem.phase, mem.op)
  /\ mem' = WithPhase(mem, "Error")
  /\ sendq' = Enqueue(sendq, WithPhase(Newest(sendq), "Error"))
  /\ Requeue
  /\ UNCHANGED <<db, planVars, miss, jobVars, cycles, restoreVars, sched, res, used>>

\* Every target of the stage is terminal and, under Strict, one failed.
ExecuteStageError ==
  /\ ExecutionStep
  /\ StageTerminal /\ StageFailed /\ Mode = "Strict"
  /\ mem' = WithPhase(MemObserved, "Error")
  /\ sendq' = Enqueue(QueueObserved, WithPhase(Newest(QueueObserved), "Error"))
  /\ Requeue
  /\ UNCHANGED <<db, planVars, jobs, made, cycles, restoreVars, sched, res, used>>

\* The stage is done: move to the next one and dispatch it.
ExecuteAdvance ==
  /\ ExecutionStep
  /\ StageTerminal /\ ~(StageFailed /\ Mode = "Strict") /\ ~LastStage
  /\ LET next == mem.stage + 1
     IN ExecuteForStage(next, [MemObserved EXCEPT !.stage = next],
                        Enqueue(QueueObserved, [Newest(QueueObserved) EXCEPT !.stage = next]))
  /\ UNCHANGED <<db, planVars, cycles, restoreVars, sched, res>>

\* The stage still has pending targets: dispatch within the concurrency limit.
ExecuteDispatch ==
  /\ ExecutionStep
  /\ ~StageTerminal /\ StagePending
  /\ ExecuteForStage(mem.stage, MemObserved, QueueObserved)
  /\ UNCHANGED <<db, planVars, cycles, restoreVars, sched, res>>

\* All remaining targets of the stage run: poll again later.
ExecuteWait ==
  /\ ExecutionStep
  /\ ~StageTerminal /\ ~StagePending
  /\ mem' = MemObserved /\ sendq' = QueueObserved
  /\ RequeueAfter
  /\ UNCHANGED <<db, planVars, jobs, made, cycles, restoreVars, sched, res, used>>

\* patchAndPreserveStatus: the server's answer replaces the cached spec and
\* annotations, the status stays the worker's.
PatchPlan(o) ==
  /\ api' = o
  /\ dirty' = (dirty \/ o # api)
  /\ ctx' = [ctx EXCEPT !.suspend = o.suspend, !.suspendedAt = o.suspendedAt,
                        !.retryNow = o.retryNow]
  /\ slot' = slot

Finalized(s) ==
  [s EXCEPT !.phase = IF mem.op = "shutdown" THEN "Hibernated" ELSE "Active", !.retry = 0]

\* Slip: the restore data is unlocked whatever was restored.
UnconditionalCleanup ==
  restored' = {} /\ live' = [t \in Targets |-> 0] /\ UNCHANGED <<planVars, used>>

\* cleanupSuspensionAnnotations: a failing patch is not fatal.
CleanupSuspensionAnnotations ==
  \/ /\ ctx.suspendedAt = ""
     /\ UNCHANGED <<planVars, used>>
  \/ /\ ctx.suspendedAt # ""
     /\ PatchPlan([api EXCEPT !.suspendedAt = ""])
     /\ UNCHANGED used
  \/ /\ ctx.suspendedAt # ""
     /\ May("patchError") /\ Count("patchError")
     /\ ctx' = [ctx EXCEPT !.suspendedAt = ""]
     /\ UNCHANGED <<api, dirty, slot>>

\* UnlockRestoreData, then the removal of an annotation that is still in the cache.
Unlock ==
  restored' = {} /\ live' = [t \in Targets |-> 0] /\ CleanupSuspensionAnnotations

\* postWakeupCleanup: once every target has its restored annotation, these and
\* the cycle IDs of all restore data are cleared.  A call that fails is logged,
\* and the restore data stays as it is.
PostWakeupCleanup ==
  \/ restored = Targets /\ Unlock
  \/ restored # Targets /\ UNCHANGED <<restored, live, planVars, used>>
  \/ May("apiError") /\ Count("apiError") /\ UNCHANGED <<restored, live, planVars>>

\* finalize: nothing happens when some execution is not terminal yet.
ExecuteFinalize ==
  /\ ExecutionStep
  /\ StageTerminal /\ ~(StageFailed /\ Mode = "Strict") /\ LastStage
  /\ LET complete == \A t \in Targets : ObservedEx[t].state \in Terminal
     IN /\ IF complete
           THEN /\ mem' = Finalized(MemObserved)
                /\ sendq' = Enqueue(QueueObserved, Finalized(Newest(QueueObserved)))
           ELSE mem' = MemObserved /\ sendq' = QueueObserved
        /\ IF complete /\ mem.op = "wakeup" THEN PostWakeupCleanup
           ELSE UNCHANGED <<restored, live, planVars, used>>
  /\ GoQuiet
  /\ UNCHANGED <<db, jobs, made, cycles, saved, sched, res>>

-----------------------------------------------------------------------------
(* The other phase handlers *)

\* lifecycleState.handle: first-time setup, PrepareRestorePoint included.
LifecycleInit ==
  /\ Selected("")
  /\ mem' = WithPhase(mem, "Active")
  /\ sendq' = Enqueue(sendq, WithPhase(Newest(sendq), "Active"))
  /\ live' = [t \in Targets |-> 0]
  /\ Requeue
  /\ UNCHANGED <<db, planVars, miss, jobVars, cycles, restored, saved, sched, res, used>>

\* Slip: CurrentOperation is left as it was.
StartedSameOp(s, op, cycle) ==
  [phase |-> PhaseOf(op), op |-> s.op, cycle |-> cycle, stage |-> 1,
   ex |-> [t \in Targets |-> PendingExec], retry |-> s.retry]

Started(s, op, cycle) ==
  [phase |-> PhaseOf(op), op |-> op, cycle |-> cycle, stage |-> 1,
   ex |-> [t \in Targets |-> PendingExec], retry |-> s.retry]

\* getExistingCycleIDForHibernation: the cycle of live restore data is reused.
LiveCycles == {live[t] : t \in Targets} \ {0}

TransitionToHibernating ==
  /\ Selected("Active") /\ ctx.hibernate
  /\ \E c \in IF LiveCycles = {} THEN {cycles + 1} ELSE LiveCycles :
       /\ mem' = Started(mem, "shutdown", c)
       /\ sendq' = Enqueue(sendq, Started(Newest(sendq), "shutdown", c))
       /\ cycles' = IF c > cycles THEN c ELSE cycles
  /\ Requeue
  /\ UNCHANGED <<db, planVars, miss, jobVars, restoreVars, sched, res, used>>

TransitionToWakingUp ==
  /\ Selected("Hibernated") /\ ~ctx.hibernate /\ ctx.hasData
  /\ mem' = Started(mem, "wakeup", mem.cycle)
  /\ sendq' = Enqueue(sendq, Started(Newest(sendq), "wakeup", Newest(sendq).cycle))
  /\ Requeue
  /\ UNCHANGED <<db, planVars, miss, jobVars, cycles, restoreVars, sched, res, used>>

\* idleState.Handle without a transition.
IdleStay ==
  /\ \/ Selected("Active") /\ ~ctx.hibernate
     \/ Selected("Hibernated") /\ (ctx.hibernate \/ ~ctx.hasData)
  /\ GoQuiet
  /\ UNCHANGED <<mem, sendq, db, planVars, miss, jobVars, cycles, restoreVars, sched, res, used>>

\* Slip: only executions seen running are drained.
ActiveIfRunning == {t \in Targets : mem.ex[t].state = "Running" /\ ~ObservedEx[t].fin}

ActiveExecutions == {t \in Targets : ObservedEx[t].logs /\ ~ObservedEx[t].fin}

\* awaitExecutionDrain with executions still active.
AwaitExecutionDrain ==
  /\ Awake /\ SuspensionGate /\ Executing(mem)
  /\ TrackJobs
  /\ ActiveExecutions # {}
  /\ mem' = MemObserved /\ sendq' = QueueObserved
  /\ AwaitDrain
  /\ UNCHANGED <<db, planVars, jobs, made, cycles, restoreVars, sched, res, used>>

\* performSuspension, from status s and queue q.  The patch is the difference
\* to the cached plan: an annotation the cache already holds is not sent.
PerformSuspension(s, q) ==
  /\ PatchPlan([api EXCEPT !.suspendedAt = IF ctx.suspendedAt = mem.phase THEN @ ELSE mem.phase])
  /\ mem' = WithPhase(s, "Suspended")
  /\ sendq' = Enqueue(q, WithPhase(Newest(q), "Suspended"))
  /\ Requeue
  /\ UNCHANGED <<db, jobs, made, cycles, restoreVars, sched, res>>

\* The patch fails: the annotation stays in the cached plan, OnError requeues.
SuspensionPatchFails(s, q) ==
  /\ May("patchError") /\ Count("patchError")
  /\ ctx' = [ctx EXCEPT !.suspendedAt = mem.phase]
  /\ mem' = s /\ sendq' = q
  /\ RequeueAfter
  /\ UNCHANGED <<db, api, dirty, slot, jobs, made, cycles, restoreVars, sched, res>>

\* preSuspensionState.Handle, drained or not executing.
PreSuspension ==
  /\ Awake /\ SuspensionGate
  /\ IF Executing(mem) THEN TrackJobs /\ ActiveExecutions = {} ELSE UNCHANGED <<miss, marking>>
  /\ LET s == IF Executing(mem) THEN MemObserved ELSE mem
         q == IF Executing(mem) THEN QueueObserved ELSE sendq
     IN \/ PerformSuspension(s, q) /\ UNCHANGED used
        \/ SuspensionPatchFails(s, q)

\* The TimeoutAfter timer fires: preSuspensionState.OnDeadline skips the drain.
DrainTimeout ==
  /\ Awake /\ wake = "poll" /\ watchdog
  /\ May("timeout") /\ Count("timeout")
  /\ PerformSuspension(mem, sendq)
  /\ UNCHANGED <<miss, marking>>

SuspendedStay ==
  /\ Selected("Suspended") /\ ctx.suspend
  /\ GoQuiet
  /\ UNCHANGED <<mem, sendq, db, planVars, miss, jobVars, cycles, restoreVars, sched, res, used>>

\* shouldForceWakeUpOnResume, after resumeFromError and resumeFromExecution.
ForcesWakeUp ==
  /\ ctx.suspendedAt \notin {"", "Active", "Error", "Hibernating", "WakingUp"}
  /\ ctx.hasData /\ ~ctx.hibernate

\* Slip: only an interrupted shutdown is continued.
ResumePhaseShutdownOnly ==
  IF ctx.suspendedAt = "Hibernating" /\ ctx.hibernate THEN "Hibernating" ELSE "Active"

\* resumeFromError, resumeFromExecution and the default of resume.
ResumePhase ==
  CASE ctx.suspendedAt = "Error" -> IF mem.op = "wakeup" THEN "Hibernated" ELSE "Active"
    [] ctx.suspendedAt = "Hibernating" -> IF ctx.hibernate THEN "Hibernating" ELSE "Active"
    [] ctx.suspendedAt = "WakingUp" -> IF ctx.hibernate THEN "Hibernated" ELSE "WakingUp"
    [] OTHER -> "Active"

Resumed(s) ==
  [s EXCEPT !.phase = ResumePhase, !.retry = IF ctx.suspendedAt = "Error" THEN 0 ELSE @]

Resume ==
  /\ Selected("Suspended") /\ ~ctx.suspend /\ ~ForcesWakeUp
  /\ mem' = Resumed(mem)
  /\ sendq' = Enqueue(sendq, Resumed(Newest(sendq)))
  /\ CleanupSuspensionAnnotations
  /\ Requeue
  /\ UNCHANGED <<db, miss, jobVars, cycles, restoreVars, sched, res>>

\* The phase changes in memory only; the next handler's update will carry it.
ForceWakeUpOnResume ==
  /\ Selected("Suspended") /\ ~ctx.suspend /\ ForcesWakeUp
  /\ mem' = WithPhase(mem, "Hibernated")
  /\ CleanupSuspensionAnnotations
  /\ Requeue
  /\ UNCHANGED <<sendq, db, miss, jobVars, cycles, restoreVars, sched, res>>

\* recoveryState inside its backoff (which starts with the first retry); a tick
\* of the requeue timer comes when the backoff is over.
RecoveryBackoff ==
  /\ Selected("Error") /\ mem.retry \in 1 .. MaxRetries - 1
  /\ wake # "poll"
  /\ RequeueAfter
  /\ UNCHANGED <<mem, sendq, db, planVars, miss, jobVars, cycles, restoreVars, sched, res, used>>

\* determineRetryOperation
RetryOp ==
  IF mem.op # "" THEN mem.op ELSE IF ctx.hibernate THEN "shutdown" ELSE "wakeup"

Retried(s) ==
  [s EXCEPT !.phase = PhaseOf(RetryOp), !.retry = @ + 1,
            !.ex = [t \in Targets |->
                      IF t \in Stages[RetryOp][mem.stage].targets /\ s.ex[t].state = "Failed"
                      THEN [s.ex[t] EXCEPT !.state = "Pending"] ELSE s.ex[t]]]

\* Jobs relabelStaleFailedJobs labels: any with a failed pod, ended or not.
RetryStale == {j \in jobs : j \in CurrentJobs(j.t) /\ j.podFailed}

Relabelled(J) == (jobs \ J) \cup {[j EXCEPT !.stale = TRUE] : j \in J}

\* handleRetry; relabelling stops at the first patch that fails.
Retry ==
  /\ Selected("Error") /\ mem.retry < MaxRetries
  /\ \E J \in SUBSET RetryStale :
       /\ IF J = RetryStale THEN UNCHANGED used ELSE May("patchError") /\ Count("patchError")
       /\ jobs' = Relabelled(J)
  /\ mem' = Retried(mem)
  /\ sendq' = Enqueue(sendq, Retried(Newest(sendq)))
  /\ Requeue
  /\ UNCHANGED <<db, planVars, miss, made, marking, cycles, restoreVars, sched, res>>

\* handleManualRetry once the automatic retries are used up.
ManualRetry ==
  /\ Selected("Error") /\ mem.retry >= MaxRetries /\ ctx.retryNow
  /\ PatchPlan([api EXCEPT !.retryNow = FALSE])
  /\ mem' = [mem EXCEPT !.retry = 0]
  /\ sendq' = Enqueue(sendq, [Newest(sendq) EXCEPT !.retry = 0])
  /\ Requeue
  /\ UNCHANGED <<db, miss, jobVars, cycles, restoreVars, sched, res, used>>

\* Its patch fails: the annotation is gone from the cached plan all the same, and
\* the handler that is driven next aborts.
ManualRetryFails ==
  /\ Selected("Error") /\ mem.retry >= MaxRetries /\ ctx.retryNow
  /\ May("apiError") /\ Count("apiError")
  /\ ctx' = [ctx EXCEPT !.retryNow = FALSE]
  /\ RequeueAfter
  /\ UNCHANGED <<mem, sendq, db, api, dirty, slot, miss, jobVars, cycles, restoreVars, sched, res>>

RecoveryAborted ==
  /\ Selected("Error") /\ mem.retry >= MaxRetries /\ ~ctx.retryNow
  /\ GoQuiet
  /\ UNCHANGED <<mem, sendq, db, planVars, miss, jobVars, cycles, restoreVars, sched, res, used>>

\* An API call fails before the handler has changed anything: OnError requeues.
TransientError ==
  /\ Awake /\ (Executing(mem) \/ mem.phase = "Error")
  /\ May("apiError") /\ Count("apiError")
  /\ RequeueAfter
  /\ UNCHANGED <<mem, sendq, db, planVars, miss, jobVars, cycles, restoreVars, sched, res>>

-----------------------------------------------------------------------------
(* Around the worker: status writer, provider, restarts, users *)

\* UpdateProcessor.apply on the oldest update.  An update of the executions
\* shares its slice with the worker's memory, so what it writes may already
\* show a later change of the same operation.
WriteStatus ==
  /\ sendq # <<>>
  /\ \E i \in 1 .. Len(sendq) :
       /\ sendq[i].cycle = Head(sendq).cycle /\ sendq[i].op = Head(sendq).op
       /\ db' = [Head(sendq) EXCEPT !.ex = sendq[i].ex]
  /\ sendq' = Tail(sendq)
  /\ UNCHANGED <<mem, planVars, timerVars, miss, jobVars, cycles, restoreVars, sched, res, used>>

\* PlanReconciler.Reconcile: a new PlanContext replaces the one in the slot.
Reconcile ==
  /\ dirty
  /\ dirty' = FALSE
  /\ slot' = {[suspend |-> api.suspend, suspendedAt |-> api.suspendedAt,
               retryNow |-> api.retryNow, hibernate |-> sched, hasData |-> saved # {}]}
  /\ UNCHANGED <<mem, sendq, db, api, ctx, timerVars, miss, jobVars, cycles, restoreVars,
                 sched, res, used>>

\* The worker takes the slot (mergeIncoming): everything but the status comes
\* from the delivery.  A new worker has no status yet and adopts the persisted one.
Deliver ==
  /\ wake # "chain"
  /\ \E pc \in slot : ctx' = pc
  /\ slot' = {}
  /\ wake' = "event"
  /\ UNCHANGED <<mem, sendq, db, api, dirty, depth, watchdog, miss, jobVars, cycles,
                 restoreVars, sched, res, used>>

\* What a worker's end loses: its cache, its timers, its counters.
Forget ==
  /\ mem' = db
  /\ wake' = "down" /\ depth' = 0 /\ watchdog' = FALSE
  /\ miss' = [t \in Targets |-> 0]

\* The inactivity timer ends a worker nothing drives.
IdleExit ==
  /\ wake = "quiet" /\ sendq = <<>> /\ slot = {} /\ ~dirty
  /\ Forget
  /\ UNCHANGED <<sendq, db, planVars, jobVars, cycles, restoreVars, sched, res, used>>

\* The controller process stops and restarts: queued updates are gone, and the
\* provider reconciles every plan again.
Crash ==
  /\ wake # "down"
  /\ May("crash") /\ Count("crash")
  /\ Forget
  /\ sendq' = <<>> /\ slot' = {} /\ dirty' = TRUE /\ marking' = {}
  /\ UNCHANGED <<db, api, ctx, jobs, made, cycles, restoreVars, sched, res>>

UserSuspend ==
  /\ May("suspend") /\ Count("suspend")
  /\ api' = [api EXCEPT !.suspend = ~@]
  /\ dirty' = TRUE
  /\ UNCHANGED <<mem, sendq, db, slot, ctx, timerVars, miss, jobVars, cycles, restoreVars,
                 sched, res>>

UserRetryNow ==
  /\ May("retryNow") /\ Count("retryNow")
  /\ api' = [api EXCEPT !.retryNow = TRUE]
  /\ dirty' = TRUE
  /\ UNCHANGED <<mem, sendq, db, slot, ctx, timerVars, miss, jobVars, cycles, restoreVars,
                 sched, res>>

\* A schedule boundary passes; PlanRequeueProcessor enqueues the plan.
ScheduleBoundary ==
  /\ May("flip") /\ Count("flip")
  /\ sched' = ~sched
  /\ dirty' = TRUE
  /\ UNCHANGED <<mem, sendq, db, api, slot, ctx, timerVars, miss, jobVars, cycles,
                 restoreVars, res>>

-----------------------------------------------------------------------------
(* Runner Jobs: the Job controller and the runner in the pod *)

Became(j, k) == jobs' = (jobs \ {j}) \cup {k}

\* onJobTerminalUpdate: the first success or pod failure of a Job enqueues the plan.
EnqueueOnFirstResult(j) == dirty' = (dirty \/ ~j.podFailed)

JobStart(j) ==
  /\ j.st = "created"
  /\ Became(j, [j EXCEPT !.st = "active"])
  /\ UNCHANGED <<mem, sendq, db, planVars, timerVars, miss, made, marking, cycles, restoreVars,
                 sched, res, used>>

\* A shutdown runner flushes the restore data it accumulated, failed or not.
Save(j) ==
  /\ live' = [live EXCEPT ![j.t] = j.cyc]
  /\ saved' = saved \cup {j.t}

\* A pod fails and the Job controller will start another one.
JobPodFails(j) ==
  /\ j.st = "active"
  /\ May("podFailure") /\ Count("podFailure")
  /\ Became(j, [j EXCEPT !.st = "created", !.podFailed = TRUE])
  /\ EnqueueOnFirstResult(j)
  /\ UNCHANGED <<live, saved>> \/ (j.op = "shutdown" /\ Save(j))
  /\ UNCHANGED <<mem, sendq, db, api, slot, ctx, timerVars, miss, made, marking, cycles,
                 restored, sched, res>>

\* The runner's shutdown succeeds; an error of the flush is only logged.
ShutdownSucceeds(j) ==
  /\ j.st = "active" /\ j.op = "shutdown"
  /\ Became(j, [j EXCEPT !.st = "done"])
  /\ res' = [res EXCEPT ![j.t] = "down"]
  /\ EnqueueOnFirstResult(j)
  /\ \/ Save(j) /\ UNCHANGED used
     \/ May("flushError") /\ Count("flushError") /\ UNCHANGED <<live, saved>>
  /\ UNCHANGED <<mem, sendq, db, api, slot, ctx, timerVars, miss, made, marking, cycles,
                 restored, sched>>

\* The runner's wakeup succeeds, given restore data; MarkTargetRestored may lose
\* its update to a conflict, which is only logged.
WakeupSucceeds(j) ==
  /\ j.st = "active" /\ j.op = "wakeup" /\ j.t \in saved
  /\ Became(j, [j EXCEPT !.st = "done"])
  /\ res' = [res EXCEPT ![j.t] = "up"]
  /\ EnqueueOnFirstResult(j)
  /\ \/ /\ live' = [live EXCEPT ![j.t] = 0]
        /\ restored' = restored \cup {j.t}
        /\ UNCHANGED used
     \/ May("conflict") /\ Count("conflict") /\ UNCHANGED <<live, restored>>
  /\ UNCHANGED <<mem, sendq, db, api, slot, ctx, timerVars, miss, made, marking, cycles, saved,
                 sched>>

\* The Job fails for good: an operation that failed, or no restore data to load.
JobFails(j) ==
  /\ j.st = "active"
  /\ IF j.op = "wakeup" /\ j.t \notin saved THEN UNCHANGED used
     ELSE May("jobFailure") /\ Count("jobFailure")
  /\ Became(j, [j EXCEPT !.st = "failed", !.podFailed = TRUE])
  /\ EnqueueOnFirstResult(j)
  /\ UNCHANGED <<live, saved>> \/ (j.op = "shutdown" /\ Save(j))
  /\ UNCHANGED <<mem, sendq, db, api, slot, ctx, timerVars, miss, made, marking, cycles,
                 restored, sched, res>>

\* A Job disappears: deleted while it runs, or collected by its TTL.
JobRemoved(j) ==
  /\ IF Finished(j) THEN May("gc") /\ Count("gc") ELSE May("lost") /\ Count("lost")
  /\ jobs' = jobs \ {j}
  /\ UNCHANGED <<mem, sendq, db, planVars, timerVars, miss, made, marking, cycles, restoreVars,
                 sched, res>>

\* A markJobAsStale goroutine patches its Job, or fails and gives up.
MarkJobAsStale ==
  \E m \in marking :
    /\ marking' = marking \ {m}
    /\ \/ /\ jobs' = Relabelled({j \in jobs : <<j.t, j.n>> = m})
          /\ UNCHANGED used
       \/ May("patchError") /\ Count("patchError") /\ UNCHANGED jobs
    /\ UNCHANGED <<mem, sendq, db, planVars, timerVars, miss, made, cycles, restoreVars, sched,
                   res>>

-----------------------------------------------------------------------------
(* Specification *)

Init ==
  /\ mem = [phase |-> "", op |-> "", cycle |-> 0, stage |-> 1,
            ex |-> [t \in Targets |-> PendingExec], retry |-> 0]
  /\ sendq = <<>>
  /\ db = mem
  /\ api = [suspend |-> FALSE, suspendedAt |-> "", retryNow |-> FALSE]
  /\ dirty = TRUE
  /\ slot = {}
  /\ ctx = [suspend |-> FALSE, suspendedAt |-> "", retryNow |-> FALSE, hibernate |-> FALSE,
            hasData |-> FALSE]
  /\ wake = "down" /\ depth = 0 /\ watchdog = FALSE
  /\ miss = [t \in Targets |-> 0]
  /\ jobs = {} /\ made = [t \in Targets |-> 0] /\ marking = {}
  /\ cycles = 0
  /\ live = [t \in Targets |-> 0] /\ restored = {} /\ saved = {}
  /\ sched \in BOOLEAN
  /\ res = [t \in Targets |-> "up"]
  /\ used = [e \in Events |-> 0]

Execute ==
  \/ OperationMismatch \/ ExecuteStageError \/ ExecuteAdvance \/ ExecuteDispatch \/ ExecuteWait
  \/ ExecuteFinalize

Suspension ==
  AwaitExecutionDrain \/ PreSuspension \/ SuspendedStay \/ Resume \/ ForceWakeUpOnResume

Recovery == RecoveryBackoff \/ Retry \/ ManualRetry \/ ManualRetryFails \/ RecoveryAborted

Idle == LifecycleInit \/ TransitionToHibernating \/ TransitionToWakingUp \/ IdleStay

\* One call of a phase handler.
Handle == Idle \/ Execute \/ Suspension \/ Recovery

JobStep ==
  \/ \E j \in jobs : \/ JobStart(j) \/ JobPodFails(j) \/ ShutdownSucceeds(j)
                    \/ WakeupSucceeds(j) \/ JobFails(j) \/ JobRemoved(j)
  \/ MarkJobAsStale

Outside == UserSuspend \/ UserRetryNow \/ ScheduleBoundary \/ Crash

Next ==
  \/ Handle \/ DrainTimeout \/ TransientError
  \/ WriteStatus \/ Reconcile \/ Deliver \/ IdleExit
  \/ JobStep
  \/ Outside

Spec == Init /\ [][Next]_vars

\* The worker's loop, the status writer, the provider's queue and the Job
\* controller keep going; a runner that was started ends.
Fairness ==
  /\ WF_vars(Handle)
  /\ WF_vars(WriteStatus)
  /\ WF_vars(Reconcile)
  /\ WF_vars(Deliver)
  /\ WF_vars(MarkJobAsStale)
  /\ WF_vars(\E j \in jobs : JobStart(j))
  /\ WF_vars(\E j \in jobs : ShutdownSucceeds(j) \/ WakeupSucceeds(j) \/ JobFails(j))

FairSpec == Spec /\ Fairness

-----------------------------------------------------------------------------
(* Properties *)

\* The variables keep the shape of the Go values they stand for; the recursion
\* depth and the miss counters stay below their limits.
TypeOK ==
  /\ mem \in Status /\ sendq \in Seq(Status) /\ db \in Status
  /\ api \in PlanObject /\ dirty \in BOOLEAN /\ slot \subseteq PlanContext /\ ctx \in PlanContext
  /\ wake \in {"event", "poll", "chain", "quiet", "down"}
  /\ depth \in 0 .. MaxHandleDepth - 1 /\ watchdog \in BOOLEAN
  /\ miss \in [Targets -> 0 .. MissThreshold - 1]
  /\ jobs \subseteq Job /\ made \in [Targets -> Nat] /\ marking \subseteq Targets \X Nat
  /\ cycles \in Nat
  /\ live \in [Targets -> Nat] /\ restored \subseteq Targets /\ saved \subseteq Targets
  /\ sched \in BOOLEAN /\ res \in [Targets -> {"up", "down"}]
  /\ used \in [Events -> Nat]

\* executeForStage never gives a target a second Job of the same operation and
\* cycle while the first is not labelled stale, whatever is lost or restarted.
UniqueCurrentJob ==
  \A i, j \in jobs :
    /\ ~i.stale /\ ~j.stale
    /\ i.t = j.t /\ i.op = j.op /\ i.cyc = j.cyc
    => i = j

Coherent(s) ==
  /\ s.phase \in {"Hibernating", "WakingUp"} => Handles(s.phase, s.op)
  /\ s.phase \in {"Error", "Hibernated"} => s.op \in Ops
  /\ s.op \in Ops => s.stage <= Len(Stages[s.op])
  /\ s.retry <= MaxRetries

Statuses == {mem, db} \cup {sendq[i] : i \in 1 .. Len(sendq)}

\* Every status, in memory, queued or persisted, has a phase that matches its
\* operation and a stage index inside the execution plan: a handler started on
\* any of them, after any restart, never raises the phase/operation mismatch of
\* hibernatingState.Handle nor indexes past execPlan.Stages in handleRetry.
StatusCoherent == \A s \in Statuses : Coherent(s)

\* Under Strict, execute moves to a stage only when all targets of the stages
\* before it completed: while the controller keeps running, however far the status
\* writer lags, and across restarts when every update is persisted before the next
\* one.  It does not hold for a restart that resumes from a lagging status.
StageGate ==
  (QueueBound = 0 \/ used["crash"] = 0) /\ Mode = "Strict" /\ Handles(mem.phase, mem.op) =>
    \A k \in 1 .. mem.stage - 1 : \A t \in Stages[mem.op][k].targets :
      mem.ex[t].state = "Completed"

\* While the controller keeps running, the Jobs that run for the operation belong
\* to the current stage: no stage is left with a runner behind.
StageIsolation ==
  used["crash"] = 0 /\ Handles(mem.phase, mem.op) =>
    \A j \in jobs : j \in CurrentJobs(j.t) /\ ~Finished(j) => j.t \in StageAt(mem.stage).targets

ResourceAfter(op) == IF op = "shutdown" THEN "down" ELSE "up"

\* An execution the controller reports Completed really took place: the target's
\* resource is in the state the operation leaves it in (updateExecutionStatuses).
CompletedIsReal ==
  Handles(mem.phase, mem.op) =>
    \A t \in Targets : mem.ex[t].state = "Completed" => res[t] = ResourceAfter(mem.op)

RunnersApart == \A i, j \in jobs : i.t = j.t /\ ~Finished(i) /\ ~Finished(j) => i = j

\* While the controller keeps running, no two runners work on one target at a
\* time, of whatever cycle, operation or label.
SingleRunner == used["crash"] = 0 => RunnersApart

\* A restart of the controller does not put a second runner beside the first:
\* the cycle ID is reused (getExistingCycleIDForHibernation).
RestartIsIdempotent == used["crash"] > 0 => RunnersApart

\* performSuspension waits for the runners: a plan in phase Suspended has none
\* at work, unless the drain timed out.
DrainBeforeSuspend ==
  mem.phase = "Suspended" /\ used["timeout"] = 0 => \A j \in jobs : Finished(j)

\* A plan suspended in the middle of a wakeup never resumes as Active with the
\* wakeup unfinished, which would leave targets hibernated for good.
InterruptedWakeupNotActive ==
  [][mem.phase = "Suspended" /\ mem'.phase = "Active" =>
       ~(mem.op = "wakeup" /\ \E t \in Targets : mem.ex[t].state \notin Terminal)]_vars

\* What the worker acts on is what the queued updates will persist (Send applies
\* its mutator to both); only forceWakeUpOnResume runs ahead, by the phase.
MemoryIsTail ==
  \/ mem = Newest(sendq)
  \/ Overridden
  \/ mem.phase = "Hibernated" /\ mem = WithPhase(Newest(sendq), "Hibernated")

\* Live restore data is given up (MarkTargetRestored, UnlockRestoreData) only for
\* a target that is up again.
RestorePointKept ==
  [][\A t \in Targets : live[t] # 0 /\ live'[t] = 0 => res'[t] = "up"]_vars

\* The runners at work on a stage's targets never exceed its concurrency limit.
ConcurrencyLimit ==
  Handles(mem.phase, mem.op) =>
    Cardinality({j \in jobs : j.t \in StageAt(mem.stage).targets /\ ~Finished(j)})
      <= MaxConcurrency(mem.stage)

\* A shutdown's runner works on a target only when every target before it in
\* the DAG completed: a dependent of a failed target is skipped.
UpstreamCompleted ==
  \A j \in jobs : j \in CurrentJobs(j.t) /\ ~Finished(j) /\ Handles(mem.phase, "shutdown") =>
    \A d \in Deps : j.t = d[2] => mem.ex[d[1]].state = "Completed"

\* A started shutdown or wakeup always comes to an end.
OperationEnds == Executing(mem) ~> ~Executing(mem)

\* A plan whose suspension is not taken back becomes Suspended.
SuspendHonoured == <>[]api.suspend => <>(mem.phase = "Suspended")

\* A plan in on-hours for good is not left Hibernated by idleState.
ScheduleFollowed == <>[]~sched => []<>(mem.phase # "Hibernated")

=============================================================================
