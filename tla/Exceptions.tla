----------------------------- MODULE Exceptions -----------------------------
(***************************************************************************)
(* ScheduleExceptions of one plan: the webhook that admits them            *)
(* (scheduleexception_validator.go), the provider's delivery of the plan   *)
(* with its exceptions, and the lifecycle processor that gives them their  *)
(* finalizer, label and state and lets them go (lifecycle.go).  The plan   *)
(* itself is its phase and the exception it applied.  Reads go to an       *)
(* informer cache that is current; status writes are queued.  The clock    *)
(* stands between the instants at which a validity starts or ends: at such *)
(* an instant itself the provider calls the exception inactive (Before,    *)
(* After) and the processor calls it Active.                               *)
(***************************************************************************)
EXTENDS Integers, Sequences, FiniteSets

CONSTANTS ExNames,       \* names of exceptions
          ExSpecs,       \* what a user may write in one
          ExHorizon,     \* bound: the last instant
          ExMaxDuration, \* 90 days
          ExMaxEdits,    \* bound: writes of users
          ExMaxPlanEvents, \* bound: changes of the plan
          ExMaxFaults,   \* bound: API calls that fail
          DayMinutes,    \* minutes in a day
          ExDays         \* the days of a week, from 0

VARIABLES exNow,      \* the time
          exPlan,     \* the plan: up, phase, ended (its Jobs), applied (the override in force)
          exObjs,     \* the exception objects, NoException when there is none; version
                      \* tells apart what different writes of users left
          exWrites,   \* queued status writes of each exception
          exRefs,     \* names of the exceptions the plan's status refers to
          exQueued,   \* a reconcile of the plan is queued: "no", "event" or "boundary",
                      \* which evaluates the schedule to another next event
          exContext,  \* the PlanContext that was stored and delivered last
          exBusy,     \* the processor is working on it
          exTodo,     \* the exceptions it has still to handle
          exCalm,     \* users wrote exceptions when the controller had settled, and it
                      \* never took a state for recorded with a write of it under way
          exEdits, exPlanEvents, exFaults

exVars == <<exNow, exPlan, exObjs, exWrites, exRefs, exQueued, exContext, exBusy,
            exTodo, exCalm, exEdits, exPlanEvents, exFaults>>

NoException == [state |-> "absent"]
Exists(x) == exObjs[x] # NoException
NoContext == [kind |-> "none"]
Plan(q, a) == [up |-> TRUE, phase |-> q, applied |-> a, ended |-> FALSE]
NoPlan == [up |-> FALSE, phase |-> "", applied |-> "", ended |-> FALSE]

-----------------------------------------------------------------------------
(* The webhook. *)

\* expandTimeRange: an overnight range is two segments, one without extent none.
ExpandTimeRange(w) ==
    IF w.start < w.end THEN {<<w.start, w.end>>}
    ELSE IF w.start = w.end THEN {}
    ELSE {<<w.start, DayMinutes>>, <<0, w.end>>}

\* Slip: an overnight range is compared as if it ended the same day.
RangesOverlapSameDay(v, w) == v.start < w.end /\ w.start < v.end

TimeRangesOverlap(v, w) ==
    \E a \in ExpandTimeRange(v), b \in ExpandTimeRange(w) : a[1] < b[2] /\ b[1] < a[2]

WindowsCollide(ws, vs) ==
    \E w \in ws, v \in vs : w.days \cap v.days # {} /\ TimeRangesOverlap(w, v)

\* isAllowedTypePair, for two types that differ.
IsAllowedTypePair(s, t) ==
    {s, t} \in {{"extend", "suspend"}, {"replace", "extend"}, {"replace", "suspend"}}

PeriodsMeet(s, t) == s.from < t.until /\ t.from < s.until

\* What the webhook compares with: a list by label, without the settled ones.
Listed(x) == {y \in ExNames \ {x} :
                /\ Exists(y)
                /\ exObjs[y].label
                /\ exObjs[y].state \notin {"Expired", "Detached"}}

ValidateTimeRange(s) == s.from < s.until /\ s.until - s.from <= ExMaxDuration
ValidateTypeSpecificFields(s) == s.lead => s.type = "suspend"
ValidateWindows(s) == s.windows # {} /\ \A w \in s.windows : w.days # {}

ValidateNoOverlapping(x, s) ==
    \A y \in Listed(x) : LET t == exObjs[y].spec IN
        PeriodsMeet(s, t) /\ WindowsCollide(s.windows, t.windows)
            => s.type # t.type /\ IsAllowedTypePair(s.type, t.type)

\* Overrides: not with suspend, only of targets the plan has (when there is a
\* plan to look at) that nothing depends on, and one exception at a time.
ValidateExecutionOverrides(x, s) ==
    s.override # "none" =>
        /\ s.type # "suspend"
        /\ s.override \in {"unknown target", "breaks dag"} => ~exPlan.up
        /\ \A y \in Listed(x) : PeriodsMeet(s, exObjs[y].spec)
                                   => exObjs[y].spec.override = "none"

Validate(x, s) ==
    /\ ValidateTimeRange(s) /\ ValidateTypeSpecificFields(s) /\ ValidateWindows(s)
    /\ ValidateNoOverlapping(x, s)
    /\ ValidateExecutionOverrides(x, s)

MidCycle == {"Hibernating", "WakingUp"}

CheckMidCycleBlock(x) == exPlan.up /\ exPlan.phase \in MidCycle /\ exPlan.applied = x

Enqueue == exQueued' = IF exQueued = "no" THEN "event" ELSE exQueued

\* The controller has taken in everything there is.
SettledDown == exPlan.up /\ exQueued = "no" /\ ~exBusy /\ \A x \in ExNames : exWrites[x] = <<>>

Edit == exEdits < ExMaxEdits /\ exEdits' = exEdits + 1 /\ Enqueue
Admitted == exCalm' = (exCalm /\ SettledDown)

(* A user creates an exception; the watch queues a reconcile of its plan. *)
CreateException(x, s) ==
    /\ Edit
    /\ ~Exists(x)
    /\ s.owned => exPlan.up
    /\ Validate(x, s)
    /\ exObjs' = [exObjs EXCEPT ![x] =
          [spec |-> s, version |-> exEdits, label |-> FALSE, finalizer |-> FALSE,
           deleting |-> FALSE, state |-> ""]]
    /\ Admitted
    /\ UNCHANGED <<exNow, exPlan, exWrites, exRefs, exContext, exBusy, exTodo,
                   exPlanEvents, exFaults>>

UpdateException(x, s) ==
    /\ Edit
    /\ Exists(x) /\ ~exObjs[x].deleting
    /\ s # exObjs[x].spec /\ s.owned = exObjs[x].spec.owned
    /\ exObjs[x].spec.override # s.override => ~CheckMidCycleBlock(x)
    /\ Validate(x, s)
    /\ exObjs' = [exObjs EXCEPT ![x].spec = s, ![x].version = exEdits]
    /\ Admitted
    /\ UNCHANGED <<exNow, exPlan, exWrites, exRefs, exContext, exBusy, exTodo,
                   exPlanEvents, exFaults>>

\* The API server: an object with a finalizer is marked, another one is gone.
Deleted(o) == IF o.finalizer THEN [o EXCEPT !.deleting = TRUE] ELSE NoException

DeleteException(x) ==
    /\ Edit
    /\ Exists(x) /\ ~exObjs[x].deleting
    /\ ~CheckMidCycleBlock(x)
    /\ exObjs' = [exObjs EXCEPT ![x] = Deleted(@)]
    /\ UNCHANGED <<exNow, exPlan, exWrites, exRefs, exContext, exBusy, exTodo,
                   exCalm, exPlanEvents, exFaults>>

-----------------------------------------------------------------------------
(* The provider. *)

\* filterActiveExceptions.
ActiveNames == {x \in ExNames : /\ Exists(x)
                                /\ exObjs[x].spec.from <= exNow /\ exNow < exObjs[x].spec.until
                                /\ ~exObjs[x].deleting}

PlanContext == [kind |-> "update", objs |-> exObjs, active |-> ActiveNames,
                version |-> <<exPlanEvents, exRefs>>]

(***************************************************************************)
(* Reconcile, and the delivery of what it stores to the processor once     *)
(* that is free: the map keeps only the latest context, and one equal to   *)
(* the stored one, next event included, reaches nobody.  The exceptions of *)
(* a deleted plan are listed when its deletion is delivered.               *)
(***************************************************************************)
Stored == IF exPlan.up THEN PlanContext
          ELSE IF exContext = NoContext THEN NoContext ELSE [kind |-> "delete"]

ReconcilePlan ==
    /\ exQueued # "no"
    /\ ~exBusy
    /\ exQueued' = "no"
    /\ exContext' = Stored
    /\ exBusy' = (Stored # exContext \/ (exQueued = "boundary" /\ exPlan.up))
    /\ exTodo' = IF exBusy' THEN {x \in ExNames : Exists(x)} ELSE {}
    /\ UNCHANGED <<exNow, exPlan, exObjs, exWrites, exRefs, exCalm, exEdits, exPlanEvents, exFaults>>

(***************************************************************************)
(* Time passes, in units in which the provider and the processor keep up;  *)
(* the requeue processor queues the plan when a validity starts or has     *)
(* ended, and at the boundaries of the plan's schedule, of which a unit    *)
(* may have some and which come again for ever (the horizon is no end).    *)
(***************************************************************************)
Boundary(t) == \E x \in ExNames : Exists(x) /\ t \in {exObjs[x].spec.from, exObjs[x].spec.until}

ClockTicks ==
    /\ exQueued = "no" /\ ~exBusy
    /\ \/ exNow < ExHorizon /\ exNow' = exNow + 1
       \/ exNow = ExHorizon /\ exPlan.up /\ UNCHANGED exNow
    /\ exQueued' \in IF ~exPlan.up THEN {"no"}
                     ELSE IF exNow' = exNow THEN {"boundary"}
                     ELSE {"boundary", IF Boundary(exNow') THEN "event" ELSE "no"}
    /\ UNCHANGED <<exPlan, exObjs, exWrites, exRefs, exContext, exBusy, exTodo,
                   exCalm, exEdits, exPlanEvents, exFaults>>

(***************************************************************************)
(* The plan is created or deleted, or its worker moves it through a cycle, *)
(* which applies the override of one active exception.  The provider does  *)
(* not watch the status: what it sees of a cycle is that a Job ends or     *)
(* restore data changes, before the phase that follows is written.         *)
(***************************************************************************)
PlanStep(p) ==
    /\ exPlanEvents < ExMaxPlanEvents
    /\ exPlanEvents' = exPlanEvents + 1
    /\ exPlan' = p
    /\ UNCHANGED <<exNow, exWrites, exContext, exBusy, exTodo, exCalm,
                   exEdits, exFaults>>

PlanCreated ==
    /\ ~exPlan.up
    /\ PlanStep(Plan("Active", ""))
    /\ Enqueue
    /\ UNCHANGED <<exObjs, exRefs>>

\* Kubernetes deletes the exceptions that the plan owns, once it is gone itself.
PlanDeleted ==
    /\ exPlan.up
    /\ PlanStep(NoPlan)
    /\ Enqueue
    /\ exRefs' = {}
    /\ exObjs' = [x \in ExNames |->
          IF Exists(x) /\ exObjs[x].spec.owned THEN Deleted(exObjs[x]) ELSE exObjs[x]]

Successors(q) ==
    CASE q = "Active" -> {"Hibernating"}
      [] q = "Hibernating" -> {"Hibernated", "Error"}
      [] q = "Hibernated" -> {"WakingUp"}
      [] q = "WakingUp" -> {"Active", "Error"}
      [] q = "Error" -> MidCycle

\* findActiveExceptionOverride, on what the worker was last given: the latest one.
FindActiveExceptionOverride ==
    {x \in ExNames :
        /\ exContext.kind = "update" /\ exContext.objs[x] # NoException
        /\ LET o == exContext.objs[x] IN
             /\ o.state = "Active" /\ ~o.deleting
             /\ o.spec.type # "suspend" /\ o.spec.override # "none"
             /\ o.spec.from <= exNow /\ exNow < o.spec.until}

Applicable(q) ==
    IF exPlan.phase = "Active" /\ q = "Hibernating"
    THEN IF FindActiveExceptionOverride = {} THEN {""} ELSE FindActiveExceptionOverride
    ELSE {exPlan.applied}

PlanAdvances ==
    /\ exPlan.up
    /\ \E q \in Successors(exPlan.phase) : \E a \in Applicable(q) :
         /\ exPlan.phase \in MidCycle /\ q # "Error" => exPlan.ended
         /\ PlanStep(Plan(q, a))
    /\ UNCHANGED <<exQueued, exObjs, exRefs>>

JobEnds ==
    /\ exPlan.up /\ exPlan.phase \in MidCycle /\ ~exPlan.ended
    /\ exPlan' = [exPlan EXCEPT !.ended = TRUE]
    /\ Enqueue
    /\ UNCHANGED <<exNow, exObjs, exWrites, exRefs, exContext, exBusy, exTodo,
                   exCalm, exEdits, exPlanEvents, exFaults>>

-----------------------------------------------------------------------------
(* The lifecycle processor. *)

\* Slip: an exception never expires.
ComputeDesiredForever(s) == IF exNow < s.from THEN "Pending" ELSE "Active"

ComputeDesiredState(s) ==
    IF exNow < s.from THEN "Pending" ELSE IF exNow >= s.until THEN "Expired" ELSE "Active"

\* Queue a status write of x; one that repeats the last queued write changes nothing.
SendState(x, st) ==
    IF exWrites[x] # <<>> /\ exWrites[x][Len(exWrites[x])] = st THEN exWrites
    ELSE [exWrites EXCEPT ![x] = Append(@, st)]

\* Some of the patches of a handler fail: it may do so, and the error is only logged.
Failing(k) == exFaults + k <= ExMaxFaults /\ exFaults' = exFaults + k

(***************************************************************************)
(* handleExceptionUpdate, from the snapshot of the context: finalizer,     *)
(* label, then the state for the time.  A patch of an object that is gone  *)
(* fails, and so may one of the API server; without the finalizer nothing  *)
(* else is done.                                                           *)
(***************************************************************************)
HandleExceptionUpdate(x) ==
    LET snap == exContext.objs[x]
        st   == ComputeDesiredState(snap.spec)
        live == Exists(x)
    IN /\ exContext.kind = "update" /\ x \in exTodo /\ ~snap.deleting
       /\ exTodo' = exTodo \ {x}
       /\ \E finFails, labelFails \in BOOLEAN :
            /\ finFails => ~snap.finalizer
            /\ labelFails => ~snap.label /\ ~finFails
            /\ Failing(IF live /\ (finFails \/ labelFails) THEN 1 ELSE 0)
            /\ exObjs' = IF ~live THEN exObjs
                         ELSE [exObjs EXCEPT ![x].finalizer = @ \/ ~finFails,
                                             ![x].label = @ \/ ~(finFails \/ labelFails)]
            /\ exWrites' = IF finFails \/ (~live /\ ~snap.finalizer) \/ snap.state = st
                           THEN exWrites ELSE SendState(x, st)
       /\ exCalm' = (exCalm /\ (snap.state = st => exWrites[x] = <<>> /\ exObjs[x].state = st))
       /\ UNCHANGED <<exNow, exPlan, exRefs, exQueued, exContext, exBusy, exEdits,
                      exPlanEvents>>

\* Slip: the finalizer stays while the plan exists.
BlocksDeletionAlways(x) == exPlan.up

\* A finalizer is kept while the plan runs, or failed, with the override of x.
BlocksDeletion(x) ==
    exPlan.up /\ exPlan.phase \in MidCycle \cup {"Error"} /\ exPlan.applied = x

(***************************************************************************)
(* handleExceptionDelete: the reference goes; the finalizer too, unless    *)
(* the deletion is blocked, and with it the object.                        *)
(***************************************************************************)
HandleExceptionDelete(x) ==
    /\ exContext.kind = "update" /\ x \in exTodo /\ exContext.objs[x].deleting
    /\ exTodo' = exTodo \ {x}
    /\ exRefs' = IF Exists(x) THEN exRefs \ {x} ELSE exRefs
    /\ \E fails \in BOOLEAN :
         /\ Failing(IF fails THEN 1 ELSE 0)
         /\ exObjs' = IF ~Exists(x) \/ BlocksDeletion(x) \/ fails THEN exObjs
                      ELSE [exObjs EXCEPT ![x] =
                              IF @.deleting THEN NoException ELSE [@ EXCEPT !.finalizer = FALSE]]
    /\ IF exObjs' # exObjs THEN Enqueue ELSE UNCHANGED exQueued
    /\ UNCHANGED <<exNow, exPlan, exWrites, exContext, exBusy, exCalm, exEdits,
                   exPlanEvents>>

(* handlePlanDelete: an exception the plan owns is left to the garbage collector, *)
(* one that is Detached already is skipped.                                     *)
HandlePlanDelete(x) ==
    /\ exContext.kind = "delete" /\ x \in exTodo
    /\ exTodo' = exTodo \ {x}
    /\ \E fails \in BOOLEAN :
         IF ~Exists(x) \/ exObjs[x].spec.owned \/ exObjs[x].state = "Detached"
         THEN /\ ~fails
              /\ UNCHANGED <<exObjs, exWrites, exFaults>>
         ELSE /\ exWrites' = SendState(x, "Detached")
              /\ fails => exObjs[x].finalizer
              /\ Failing(IF fails THEN 1 ELSE 0)
              /\ exObjs' = IF fails THEN exObjs ELSE [exObjs EXCEPT ![x] =
                              IF @.deleting THEN NoException ELSE [@ EXCEPT !.finalizer = FALSE]]
    /\ IF exObjs' # exObjs THEN Enqueue ELSE UNCHANGED exQueued
    /\ UNCHANGED <<exNow, exPlan, exRefs, exContext, exBusy, exCalm, exEdits,
                   exPlanEvents>>

(* updateExceptionReferences ends the work on a context. *)
UpdateExceptionReferences ==
    /\ exBusy
    /\ exTodo = {}
    /\ exBusy' = FALSE
    /\ exRefs' = IF exContext.kind = "update" /\ exPlan.up
                 THEN {x \in ExNames : exContext.objs[x] # NoException /\ ~exContext.objs[x].deleting}
                 ELSE exRefs
    /\ UNCHANGED <<exNow, exPlan, exObjs, exWrites, exQueued, exContext, exTodo,
                   exCalm, exEdits, exPlanEvents, exFaults>>

(* The status writer persists the oldest write; an object that is gone is skipped. *)
WriteState(x) ==
    /\ exWrites[x] # <<>>
    /\ exWrites' = [exWrites EXCEPT ![x] = Tail(@)]
    /\ exObjs' = IF Exists(x) THEN [exObjs EXCEPT ![x].state = Head(exWrites[x])] ELSE exObjs
    /\ UNCHANGED <<exNow, exPlan, exRefs, exQueued, exContext, exBusy, exTodo,
                   exCalm, exEdits, exPlanEvents, exFaults>>

-----------------------------------------------------------------------------
EXStart ==
    /\ exNow = 0
    /\ exPlan \in {NoPlan, Plan("Active", "")}
    /\ exObjs = [x \in ExNames |-> NoException]
    /\ exWrites = [x \in ExNames |-> <<>>]
    /\ exRefs = {} /\ exTodo = {}
    /\ exQueued = "event"
    /\ exContext = NoContext /\ exBusy = FALSE
    /\ exEdits = 0 /\ exPlanEvents = 0 /\ exFaults = 0

EXInit == EXStart /\ exCalm = TRUE

Lifecycle ==
    \/ \E x \in ExNames : HandleExceptionUpdate(x) \/ HandleExceptionDelete(x)
                             \/ HandlePlanDelete(x)
    \/ UpdateExceptionReferences

EXNext ==
    \/ \E x \in ExNames, s \in ExSpecs : CreateException(x, s) \/ UpdateException(x, s)
    \/ \E x \in ExNames : DeleteException(x)
    \/ PlanCreated \/ PlanDeleted \/ PlanAdvances \/ JobEnds
    \/ ReconcilePlan
    \/ ClockTicks
    \/ Lifecycle
    \/ \E x \in ExNames : WriteState(x)

(* Fairness: the provider, the processor and the status writer run, and time passes, *)
(* with it the boundaries of the schedule.                                         *)
EXFairness ==
    /\ WF_exVars(ReconcilePlan \/ Lifecycle \/ ClockTicks)
    /\ \A x \in ExNames : WF_exVars(WriteState(x))

EXSpec == EXInit /\ [][EXNext]_exVars /\ EXFairness

-----------------------------------------------------------------------------
(* When the evaluator calls a window open, by the minutes of a week from 0. *)

Week == 0 .. Cardinality(ExDays) * DayMinutes - 1

\* schedule.go eval, for extend and replace: the last start is later than the last
\* end, both on the listed days.
OpenBetween(w, k) ==
    LET ago(d, m) == (k - d * DayMinutes - m) % Cardinality(Week)
    IN \E d \in w.days : \A e \in w.days : ago(d, w.start) < ago(e, w.end)

\* windows.go isInTimeWindows, for suspend: both halves of the night on a listed day.
OpenToday(w, k) ==
    /\ k \div DayMinutes \in w.days
    /\ LET m == k % DayMinutes
       IN IF w.start < w.end THEN w.start <= m /\ m < w.end ELSE w.start <= m \/ m < w.end

OpenAt(s, k) ==
    \E w \in s.windows : IF s.type = "suspend" THEN OpenToday(w, k) ELSE OpenBetween(w, k)

\* An extend or replace window over midnight on a part of the week: the evaluator
\* leaves it open until the next listed end, beyond the days the webhook compares.
SpillsOver(s) == s.type # "suspend" /\ \E w \in s.windows : w.end < w.start /\ w.days # ExDays

\* Both are in force at some time from now on.
MeetAgain(s, t) == PeriodsMeet(s, t) /\ exNow < s.until /\ exNow < t.until

(***************************************************************************)
(* scheduleexception_validator.go, with lifecycle.go that labels what it   *)
(* compares: as long as exceptions are written for an existing plan and    *)
(* after the controller has taken in the writes before, no two exceptions  *)
(* that are in force together override the execution, and no two of one    *)
(* type are open at the same minute as the evaluator sees it, whatever is  *)
(* edited, deleted, expired, detached and attached again.  An overnight    *)
(* window on a part of the week is left out.                               *)
(***************************************************************************)
ExceptionsCompose ==
    exCalm /\ exFaults = 0 =>
        \A x, y \in ExNames :
            LET s == exObjs[x].spec
                t == exObjs[y].spec
            IN x # y /\ Exists(x) /\ Exists(y) /\ ~exObjs[x].deleting /\ ~exObjs[y].deleting
               /\ MeetAgain(s, t) =>
                    /\ "none" \in {s.override, t.override}
                    /\ s.type = t.type /\ ~SpillsOver(s) /\ ~SpillsOver(t)
                         => \A k \in Week : ~(OpenAt(s, k) /\ OpenAt(t, k))

(***************************************************************************)
(* lifecycle.go computeDesiredState: the exceptions of a plan are Expired  *)
(* some time after their validity has ended, although states are written   *)
(* late, contexts that changed nothing are not delivered, plans come and   *)
(* go, and a handler may take a state for recorded that a queued write is  *)
(* about to change, or fail to patch the object.                           *)
(***************************************************************************)
ExpiryIsRecorded ==
    \A x \in ExNames :
        (exPlan.up /\ Exists(x) /\ exObjs[x].spec.until <= exNow)
            ~> \/ ~Exists(x) \/ ~exPlan.up
               \/ exObjs[x].deleting \/ exObjs[x].state = "Expired"
               \/ exNow < exObjs[x].spec.until

\* A cycle of the plan runs, or failed, with the override of x.
InUse(x) == exPlan.phase \in {"Hibernating", "WakingUp", "Error"} /\ exPlan.applied = x

(***************************************************************************)
(* lifecycle.go handleExceptionDelete: the deletion of an exception of an  *)
(* existing plan ends, or is blocked again and again by a cycle that runs, *)
(* or failed, with its override: once that is over, although nobody        *)
(* reconciles the plan for the phase it reaches, and a patch may fail.     *)
(***************************************************************************)
DeletionEnds ==
    \A x \in ExNames :
        (exPlan.up /\ Exists(x) /\ exObjs[x].deleting)
            ~> (~Exists(x) \/ ~exPlan.up \/ InUse(x))
=============================================================================
