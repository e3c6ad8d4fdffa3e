------------------------------ MODULE Overrides ------------------------------
(***************************************************************************)
(* What users ask of a plan beside its schedule, by annotations: an        *)
(* override, with or without a time it ends at, a restart of the last      *)
(* operation, and the plan's deletion; and the handlers that answer        *)
(* (state_override.go, state_restart.go, state_lifecycle.go, idleState).   *)
(* The worker keeps a copy of the plan. A handler changes the copy first   *)
(* and patches the plan with the difference then: what a patch that fails  *)
(* leaves behind is a copy that is ahead of the plan, until the next       *)
(* delivery replaces it.                                                   *)
(*                                                                         *)
(* An operation is one step here, from its phase to the phase it ends in;  *)
(* its Jobs, errors and suspensions are in PlanWorker.                     *)
(***************************************************************************)
EXTENDS Integers

CONSTANTS OvHorizon,       \* bound: the last instant
          OvBudgets        \* bounds: what users ask for, changes of the schedule's
                           \* answer, API calls that fail, restarts of the controller

ASSUME OvAssumption ==
  /\ OvHorizon \in Nat
  /\ OvBudgets \subseteq [requests : Nat, boundaries : Nat, faults : Nat, crashes : Nat]

VARIABLES ovNow,      \* the time
          ovMeta,     \* the plan's metadata in the API server
          ovStatus,   \* its persisted phase and operation
          ovOff,      \* the schedule's answer: off-hours
          ovData,     \* the plan has restore data
          ovQueued,   \* a reconcile of the plan is queued
          ovSlot,     \* the PlanContext in the worker's slot
          ovMem,      \* the worker's copy: metadata, status, schedule, restore data
          ovTimer,    \* its poll and its deadline, 0 for none
          ovAsked,    \* observation: restarts asked for
          ovReran,    \* observation: operations a restart has run
          ovExcused,  \* observation: why the worker need not follow now
          ovBudget    \* requests, boundaries, faults and crashes still to come

ovVars == <<ovNow, ovMeta, ovStatus, ovOff, ovData, ovQueued, ovSlot, ovMem, ovTimer,
            ovAsked, ovReran, ovExcused, ovBudget>>

NewPlan == [exists |-> TRUE, deleting |-> FALSE, finalizer |-> FALSE,
            target |-> "", until |-> 0, restart |-> FALSE, fresh |-> FALSE]
Unset    == [phase |-> "", op |-> ""]
NoWorker == [phase |-> "none"]
Nothing  == [poll |-> FALSE, deadline |-> 0]
EmptySlot == [off |-> "none"]

-----------------------------------------------------------------------------
(* Handlers. A handler maps what it finds, w, to the set of what it may leave: *)
(* the patches it makes may fail.                                              *)

World == [meta |-> ovMeta, mem |-> ovMem, timer |-> ovTimer, faults |-> ovBudget.faults,
          reran |-> ovReran, excused |-> ovExcused]

\* StateResult{}, and what OnError returns for an error that may pass.
NoDirective(w)   == [w EXCEPT !.timer = Nothing]
OnError(w) == [w EXCEPT !.timer = [poll |-> TRUE, deadline |-> 0]]

\* patchAndPreserveStatus, after the change to the copy: the answer of the API
\* server replaces the copy's metadata, an error leaves it changed.
Patch(w, Change(_), Then(_)) ==
  (IF w.meta.exists
   THEN Then([w EXCEPT !.meta = Change(@), !.mem.meta = Change(w.meta)]) ELSE {})
  \cup (IF w.faults > 0 \/ ~w.meta.exists
        THEN {OnError([w EXCEPT !.mem.meta = Change(@), !.excused = @ \cup {"failed"},
                                !.faults = IF w.meta.exists THEN @ - 1 ELSE @])} ELSE {})

\* transitionToHibernating and transitionToWakingUp: the status update is queued,
\* and the handler of the new phase polls.
Starts(w, op) ==
  {[w EXCEPT !.mem.phase = IF op = "hibernate" THEN "Hibernating" ELSE "WakingUp",
             !.mem.op = op, !.timer = [poll |-> TRUE, deadline |-> 0]]}
Hibernate(w)   == Starts(w, "hibernate")
WakeUp(w)      == Starts(w, "wakeup")
Again(w, op)   == Starts([w EXCEPT !.reran = @ + 1], op)

\* idleState.
HandleIdle(w) ==
  CASE w.mem.phase = "Active" /\ w.mem.off -> Hibernate(w)
    [] w.mem.phase = "Hibernated" /\ ~w.mem.off /\ w.mem.data -> WakeUp(w)
    [] OTHER -> {NoDirective(w)}

ConsumeFresh(w, Then(_)) ==
  IF w.mem.meta.fresh THEN Patch(w, LAMBDA m : [m EXCEPT !.fresh = FALSE], Then) ELSE Then(w)

\* Slip: the annotation restart stays.
Kept(m) == m

WithoutRestart(m) == [m EXCEPT !.restart = FALSE]

ConsumeRestart(w, Then(_)) == Patch(w, WithoutRestart, Then)

\* Slip: the override has no deadline.
DeadlineNever(until) == 0

\* initStateResult and Apply: a deadline that is not ahead is not armed.
Deadline(until) == IF until > ovNow THEN until ELSE 0

\* The override handler at rest, with its deadline armed.
Overriding(w) ==
  LET until == w.mem.meta.until
  IN {[w EXCEPT !.timer = [poll |-> FALSE, deadline |-> Deadline(until)],
                !.excused = IF until # 0 /\ until <= ovNow THEN @ \cup {"late"} ELSE @]}

\* overrideActionState.Handle.
HandleOverride(w) ==
  LET At(phase, target) == w.mem.phase = phase /\ w.mem.meta.target = target
      HibernateAgain(v) == Again(v, "hibernate")
      WakeUpAgain(v) == Again(v, "wakeup")
  IN CASE At("Active", "hibernate") -> ConsumeFresh(w, Hibernate)
       [] At("Hibernated", "hibernate") /\ w.mem.meta.restart ->
            ConsumeRestart(w, LAMBDA v : ConsumeFresh(v, HibernateAgain))
       [] At("Hibernated", "wakeup") /\ w.mem.data -> ConsumeFresh(w, WakeUp)
       [] At("Active", "wakeup") /\ w.mem.meta.restart ->
            ConsumeRestart(w, LAMBDA v : IF v.mem.data THEN ConsumeFresh(v, WakeUpAgain)
                                         ELSE Overriding(v))
       [] OTHER -> Overriding(w)

\* overrideActionState.OnDeadline; elsewhere a deadline means nothing here.
OnDeadline(w) ==
  IF w.mem.meta.target # "" /\ w.mem.phase \in {"Active", "Hibernated"}
  THEN Patch(w, LAMBDA m : [m EXCEPT !.target = "", !.until = 0], LAMBDA v : {NoDirective(v)})
  ELSE {NoDirective(w)}

\* restartState.Handle: the annotations go first, whatever comes of it.
HandleRestart(w) ==
  Patch(w, LAMBDA m : [WithoutRestart(m) EXCEPT !.fresh = FALSE],
        LAMBDA v : CASE v.mem.op = "hibernate" /\ v.mem.phase = "Hibernated" -> Again(v, "hibernate")
                     [] v.mem.op = "wakeup" /\ v.mem.phase = "Active" /\ v.mem.data -> Again(v, "wakeup")
                     [] OTHER -> {NoDirective(v)})

SelectIdleHandler(w) ==
  IF w.mem.meta.target # "" THEN HandleOverride(w)
  ELSE IF w.mem.meta.restart THEN HandleRestart(w) ELSE HandleIdle(w)

\* lifecycleState.handle: the finalizer, then the first phase, handled at once.
Initialize(w) ==
  LET Activated(v) == SelectIdleHandler([v EXCEPT !.mem.phase = "Active"])
  IN IF w.mem.meta.finalizer THEN Activated(w)
     ELSE Patch(w, LAMBDA m : [m EXCEPT !.finalizer = TRUE], Activated)

\* lifecycleState.handleDelete: the Jobs, the finalizer and the watchable map's
\* entry, with which the coordinator ends the worker. Without the finalizer in the
\* copy nothing is patched.
HandleDelete(w) ==
  LET Dropped(v) == {[NoDirective(v) EXCEPT !.mem = NoWorker]}
  IN (IF w.faults > 0 THEN {OnError([w EXCEPT !.faults = @ - 1])} ELSE {})
     \cup (IF w.mem.meta.finalizer /\ w.meta.exists
           THEN Patch(w, LAMBDA m : [m EXCEPT !.finalizer = FALSE, !.exists = ~m.deleting], Dropped)
           ELSE Dropped(w))

\* selectHandler, with the deletion gate; the phases of an operation only poll.
SelectHandler(w) ==
  CASE w.mem.meta.deleting -> HandleDelete(w)
    [] ~w.mem.meta.deleting /\ w.mem.phase = "" -> Initialize(w)
    [] ~w.mem.meta.deleting /\ w.mem.phase \in {"Active", "Hibernated"} -> SelectIdleHandler(w)
    [] OTHER -> {OnError(w)}

\* What a handler leaves; a worker that ends takes its slot with it.
Leaves(w, slot) ==
  /\ ovSlot' = IF w.mem = NoWorker THEN EmptySlot ELSE slot
  /\ ovMeta' = w.meta /\ ovMem' = w.mem /\ ovTimer' = w.timer
  /\ ovBudget' = [ovBudget EXCEPT !.faults = w.faults]
  /\ ovReran' = w.reran /\ ovExcused' = w.excused
  /\ ovQueued' = (ovQueued \/ w.meta # ovMeta)   \* the watch sees the patch
  /\ UNCHANGED <<ovNow, ovStatus, ovOff, ovData, ovAsked>>

-----------------------------------------------------------------------------
(* The worker *)

\* mergeIncoming: the copy is replaced, but for the status of a worker that has one.
DeliverContext ==
  /\ ovSlot # EmptySlot
  /\ LET s == ovSlot
         status == IF ovMem = NoWorker THEN s.status ELSE [phase |-> ovMem.phase, op |-> ovMem.op]
         mem == [meta |-> s.meta, off |-> s.off, data |-> s.data,
                 phase |-> status.phase, op |-> status.op]
     IN \E w \in SelectHandler([World EXCEPT !.mem = mem, !.excused = {}]) : Leaves(w, EmptySlot)

Poll ==
  /\ ovMem # NoWorker /\ ovTimer.poll
  /\ \E w \in SelectHandler(World) : Leaves(w, ovSlot)

DeadlineFires ==
  /\ ovMem # NoWorker /\ ovTimer.deadline = ovNow /\ ovNow # 0
  /\ \E w \in OnDeadline(World) : Leaves(w, ovSlot)

\* finalize: an operation outlasts the deliveries under way when it started, and
\* leaves the worker without a timer.
OperationFinishes ==
  /\ ovMem # NoWorker /\ ovMem.phase \in {"Hibernating", "WakingUp"}
  /\ ~ovQueued /\ ovSlot = EmptySlot
  /\ ovMem.phase = "Hibernating" => ovData
  /\ ovMem' = [ovMem EXCEPT !.phase = IF @ = "Hibernating" THEN "Hibernated" ELSE "Active"]
  /\ ovTimer' = Nothing
  /\ ovExcused' = ovExcused \cup {"finalized"}
  /\ UNCHANGED <<ovNow, ovMeta, ovStatus, ovOff, ovData, ovQueued, ovSlot, ovAsked, ovReran, ovBudget>>

\* The status writer catches up with the worker.
Persist ==
  /\ ovMem # NoWorker /\ ovMeta.exists
  /\ ovStatus' = [phase |-> ovMem.phase, op |-> ovMem.op]
  /\ UNCHANGED <<ovNow, ovMeta, ovOff, ovData, ovQueued, ovSlot, ovMem, ovTimer,
                 ovAsked, ovReran, ovExcused, ovBudget>>

-----------------------------------------------------------------------------
(* The provider, and what makes it reconcile *)

\* A plan that is gone ends its worker.
ReconcileContext ==
  /\ ovQueued
  /\ ovQueued' = FALSE
  /\ IF ovMeta.exists
     THEN /\ ovSlot' = [meta |-> ovMeta, status |-> ovStatus, off |-> ovOff, data |-> ovData]
          /\ UNCHANGED ovMem
     ELSE ovSlot' = EmptySlot /\ ovMem' = NoWorker
  /\ UNCHANGED <<ovNow, ovMeta, ovStatus, ovOff, ovData, ovTimer, ovAsked, ovReran,
                 ovExcused, ovBudget>>

Request(meta, asked) ==
  /\ ovBudget.requests > 0 /\ ovMeta.exists /\ meta # ovMeta
  /\ ovBudget' = [ovBudget EXCEPT !.requests = @ - 1]
  /\ ovMeta' = meta
  /\ ovAsked' = ovAsked + asked
  /\ ovQueued' = TRUE
  /\ UNCHANGED <<ovNow, ovStatus, ovOff, ovData, ovSlot, ovMem, ovTimer, ovReran, ovExcused>>

\* kubectl hibernator override, activating and deactivating.
AskOverride(target, until) ==
  Request([ovMeta EXCEPT !.target = target, !.until = until], 0)

\* kubectl hibernator restart, and the annotation fresh beside it.
AskRestart(fresh) ==
  ~ovMeta.restart /\ Request([ovMeta EXCEPT !.restart = TRUE, !.fresh = fresh], 1)

\* kubectl delete: an object without a finalizer is gone at once.
AskDeletion == Request([ovMeta EXCEPT !.deleting = TRUE, !.exists = @ /\ ovMeta.finalizer], 0)

\* A boundary of the schedule: the requeue processor enqueues the plan.
ScheduleBoundary ==
  /\ ovBudget.boundaries > 0 /\ ovMeta.exists
  /\ ovBudget' = [ovBudget EXCEPT !.boundaries = @ - 1]
  /\ ovOff' = ~ovOff
  /\ ovQueued' = TRUE
  /\ UNCHANGED <<ovNow, ovMeta, ovStatus, ovData, ovSlot, ovMem, ovTimer, ovAsked, ovReran, ovExcused>>

\* A runner saves restore data.
DataSaved ==
  /\ ovMem # NoWorker /\ ovMem.phase = "Hibernating" /\ ~ovData
  /\ ovData' = TRUE
  /\ ovQueued' = TRUE
  /\ UNCHANGED <<ovNow, ovMeta, ovStatus, ovOff, ovSlot, ovMem, ovTimer, ovAsked,
                 ovReran, ovExcused, ovBudget>>

\* A new process lists all plans.
Crash ==
  /\ ovBudget.crashes > 0
  /\ ovBudget' = [ovBudget EXCEPT !.crashes = @ - 1]
  /\ ovMem' = NoWorker /\ ovSlot' = EmptySlot /\ ovTimer' = Nothing
  /\ ovQueued' = ovMeta.exists
  /\ UNCHANGED <<ovNow, ovMeta, ovStatus, ovOff, ovData, ovAsked, ovReran, ovExcused>>

\* Time passes, in units in which deliveries arrive and timers fire.
Hour ==
  /\ ovNow < OvHorizon
  /\ ~ovQueued /\ ovSlot = EmptySlot
  /\ ovTimer.deadline # 0 => ovTimer.deadline > ovNow
  /\ ovNow' = ovNow + 1
  /\ UNCHANGED <<ovMeta, ovStatus, ovOff, ovData, ovQueued, ovSlot, ovMem, ovTimer,
                 ovAsked, ovReran, ovExcused, ovBudget>>

-----------------------------------------------------------------------------
OVInit ==
  /\ ovNow = 0 /\ ovMeta = NewPlan /\ ovStatus = Unset
  /\ ovOff = FALSE /\ ovData = FALSE
  /\ ovQueued = TRUE /\ ovSlot = EmptySlot /\ ovMem = NoWorker /\ ovTimer = Nothing
  /\ ovAsked = 0 /\ ovReran = 0 /\ ovExcused = {}
  /\ ovBudget \in OvBudgets

OVNext ==
  \/ DeliverContext \/ Poll \/ DeadlineFires \/ OperationFinishes \/ Persist
  \/ ReconcileContext \/ DataSaved \/ Hour
  \/ \E t \in {"hibernate", "wakeup"} : \E u \in {0} \cup (ovNow + 1) .. OvHorizon : AskOverride(t, u)
  \/ AskOverride("", 0)
  \/ \E f \in BOOLEAN : AskRestart(f)
  \/ AskDeletion
  \/ ScheduleBoundary
  \/ Crash

OVSpec == OVInit /\ [][OVNext]_ovVars

-----------------------------------------------------------------------------
(***************************************************************************)
(* state_override.go:52 "The controller consumes restart in a single       *)
(* atomic patch before re-executing": each restart that was asked for runs *)
(* at most one operation, with and without an override, when the patch     *)
(* fails and is repeated, when a delivery read before the patch arrives    *)
(* after it, and when the controller restarts in between.                  *)
(***************************************************************************)
RestartRunsOnce == ovReran <= ovAsked

InForce == ovMeta.target # "" /\ (ovMeta.until = 0 \/ ovNow < ovMeta.until)
Wanted == IF InForce THEN ovMeta.target = "hibernate" ELSE ovOff

\* Nothing is under way: no reconcile, delivery, poll, due deadline or operation.
AtRest ==
  /\ ~ovQueued /\ ovSlot = EmptySlot
  /\ ~ovTimer.poll /\ (ovTimer.deadline # 0 => ovTimer.deadline > ovNow)

\* The plan is where its users and its schedule want it, or gone.
Followed ==
  \/ ~ovMeta.exists
  \/ /\ ~ovMeta.deleting
     /\ ovMem # NoWorker
     /\ IF Wanted THEN ovMem.phase = "Hibernated" ELSE ovMem.phase = "Active" \/ ~ovData

(***************************************************************************)
(* state_override.go:27-43, gates.go:19: an override holds the plan at its *)
(* phase, its end (override-until or its removal) gives the plan back to   *)
(* the schedule, and a deletion goes through: whenever the controller has  *)
(* come to rest, this has happened, since nothing else would bring it      *)
(* about.  Excused, until the next delivery, is a worker that nothing has  *)
(* looked at since an operation of it ended, one whose patch failed, and   *)
(* one that saw override-until only when it had passed.                    *)
(***************************************************************************)
IntentFollowed == AtRest => ovExcused # {} \/ Followed
=============================================================================
