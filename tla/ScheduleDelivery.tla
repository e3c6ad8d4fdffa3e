-------------------------- MODULE ScheduleDelivery --------------------------
(***************************************************************************)
(* How a plan learns that its schedule has reached a boundary.  The        *)
(* provider evaluates the schedule (Reconcile), puts the answer and the    *)
(* next event into the watchable map, which drops a value equal to the one *)
(* it holds, and the requeue processor arms one timer for the nearest      *)
(* boundary of what it was last given.  Nobody polls: an event that the    *)
(* map suppresses or a boundary nobody computed is found only when         *)
(* something else happens to reconcile the plan.                           *)
(***************************************************************************)
EXTENDS Schedule

CONSTANTS
  Scenarios,      \* [base, excs, touches]: a plan's windows, the exceptions its
                  \* users create, and how often it is reconciled for other reasons
  Start,          \* the time the controller starts at
  CreateUntil,    \* exceptions are created up to this time
  Horizon,        \* the last time looked at
  ErrorInterval   \* RequeueIntervalOnScheduleError

NoTimer == -1
NoCtx   == [hibernate |-> FALSE, nextEvent |-> Zero, active |-> <<>>,
            excs |-> <<>>, version |-> 0]

VARIABLES now,      \* the clock
          base,     \* plan.Spec.Schedule.OffHours
          planned,  \* exceptions still to be created
          excs,     \* the plan's ScheduleException objects, newest first
          version,  \* the plan's ResourceVersion and its delivery nonce
          touches,  \* reconciles for other reasons still to come
          queued,   \* the plan is in the provider's work queue
          stored,   \* the PlanContext in the watchable map
          fresh,    \* ... which the requeue processor has not handled yet
          timer,    \* when its timer for the plan fires
          retryAt   \* RequeueAfter of a failed evaluation

sdVars == <<now, base, planned, excs, version, touches, queued, stored, fresh, timer, retryAt>>

\* filterActiveExceptions: strictly inside the validity, which starts and ends
\* between two units of the clock: e.from and e.until are the last units before.
FilterActiveExceptions(t) == SelectSeq(excs, LAMBDA e : e.from < t /\ t <= e.until)

Evaluation(t) == Evaluate(base, FilterActiveExceptions(t), t)

\* PlanContext.Equal: answer, next event, exceptions and resource versions.
Equal(a, b) == a = b

SDInit ==
  /\ \E s \in Scenarios : base = s.base /\ planned = s.excs /\ touches = s.touches
  /\ now = Start /\ excs = <<>> /\ version = 0
  /\ queued = TRUE /\ stored = NoCtx /\ fresh = FALSE
  /\ timer = NoTimer /\ retryAt = NoTimer

\* PlanReconciler.Reconcile with evaluateSchedule.  Store keeps a context that
\* equals the stored one and tells nobody.
Reconcile ==
  /\ queued
  /\ queued' = FALSE
  /\ \E r \in {Evaluation(now)} :
       \/ /\ r = Error
          /\ retryAt' = now + ErrorInterval
          /\ UNCHANGED <<stored, fresh>>
       \/ /\ r # Error
          /\ stored' = [hibernate |-> r.hibernate, nextEvent |-> ComputeNextEvent(r),
                        active |-> FilterActiveExceptions(now), excs |-> excs,
                        version |-> version]
          /\ fresh' = (fresh \/ ~Equal(stored', stored))
          /\ UNCHANGED retryAt
  /\ UNCHANGED <<now, base, planned, excs, version, touches, timer>>

\* A reconcile for another reason: an annotation, a Job that ended, restore data.
Touch ==
  /\ touches > 0
  /\ touches' = touches - 1
  /\ version' = version + 1
  /\ queued' = TRUE
  /\ UNCHANGED <<now, base, planned, excs, stored, fresh, timer, retryAt>>

\* The user creates or deletes an exception; the watch enqueues its plan.
ExceptionCreated ==
  /\ planned # <<>> /\ now <= CreateUntil
  /\ excs' = <<Head(planned)>> \o excs
  /\ planned' = Tail(planned)
  /\ queued' = TRUE
  /\ UNCHANGED <<now, base, version, touches, stored, fresh, timer, retryAt>>

ExceptionDeleted ==
  /\ excs # <<>> /\ planned = <<>> /\ touches > 0
  /\ touches' = touches - 1
  /\ excs' = Tail(excs)
  /\ queued' = TRUE
  /\ UNCHANGED <<now, base, planned, version, stored, fresh, timer, retryAt>>

\* Slip: the start of an exception is not a boundary.
ComputeBoundaryUntilOnly(ctx) ==
  LET ends == {ctx.excs[i].until : i \in DOMAIN ctx.excs}
  IN EarlierTime(ctx.nextEvent,
       IF \E t \in ends : t >= now THEN Min({t \in ends : t >= now}) ELSE Zero)

\* computeBoundary: the next event, or a validity that starts or ends before it.
ComputeBoundary(ctx) ==
  LET ends == UNION {{ctx.excs[i].from, ctx.excs[i].until} : i \in DOMAIN ctx.excs}
  IN EarlierTime(ctx.nextEvent,
       IF \E t \in ends : t >= now THEN Min({t \in ends : t >= now}) ELSE Zero)

\* The subscription handler of PlanRequeueProcessor.Start.
Requeue ==
  /\ fresh
  /\ fresh' = FALSE
  /\ \/ /\ ComputeBoundary(stored) < now
        /\ queued' = TRUE /\ timer' = NoTimer
     \/ /\ ComputeBoundary(stored) >= now
        /\ timer' = ComputeBoundary(stored) /\ UNCHANGED queued
  /\ UNCHANGED <<now, base, planned, excs, version, touches, stored, retryAt>>

\* A timer fires, and its goroutine runs, after the time it was set to.
Due(t) == t # NoTimer /\ now > t

Fire ==
  /\ Due(timer)
  /\ timer' = NoTimer /\ queued' = TRUE
  /\ UNCHANGED <<now, base, planned, excs, version, touches, stored, fresh, retryAt>>

RequeueAfter ==
  /\ Due(retryAt)
  /\ retryAt' = NoTimer /\ queued' = TRUE
  /\ UNCHANGED <<now, base, planned, excs, version, touches, stored, fresh, timer>>

SDSettled == ~queued /\ ~fresh /\ ~Due(timer) /\ ~Due(retryAt)

\* The queue, the map and the timer goroutines are faster than a unit of time.
Tick ==
  /\ SDSettled /\ now < Horizon
  /\ now' = now + 1
  /\ UNCHANGED <<base, planned, excs, version, touches, queued, stored, fresh, timer, retryAt>>

AtHorizon == SDSettled /\ now = Horizon /\ UNCHANGED sdVars

SDNext ==
  \/ Reconcile \/ Requeue \/ Fire \/ RequeueAfter
  \/ Touch \/ ExceptionCreated \/ ExceptionDeleted
  \/ Tick \/ AtHorizon

SDSpec == SDInit /\ [][SDNext]_sdVars

-----------------------------------------------------------------------------
\* The latest the controller may learn of a boundary: its timer is set Buffer
\* and Safety after it and fires in the next unit.
Lag == Buffer + Safety + 1

\* The provider was asked during the grace period after a suspension window in
\* which the plan's own windows are not in grace: computeNextEvent takes the end
\* of that grace from the windows, a time that is not set.  The boundary has then
\* passed, the requeue processor asks at once, is answered the same, which the map
\* suppresses, and no timer is left.
Unscheduled == stored.nextEvent = Zero + Safety

\* What the plan's worker was last told to do was right at some time in the
\* last Lag units: no boundary of the base windows, of an exception's windows or
\* of its validity passes without a reconcile, through every chain of
\* evaluations, suppressed stores and timers; except after an answer that leaves
\* the plan without a timer (Unscheduled), until the next reconcile.
AnswerIsCurrent ==
  SDSettled => \/ \E t \in now - Lag .. now : \E r \in {Evaluation(t)} :
                    t < Start \/ r = Error \/ stored.hibernate = r.hibernate
               \/ Unscheduled

\* Inside a suspension window, once the reaction time has passed, the plan is
\* not told to hibernate.
SuspensionKeepsAwake ==
  SDSettled => \E t \in now - Lag .. now :
    LET sus == SelectSeq(FilterActiveExceptions(t), LAMBDA e : e.type = "suspend")
    IN \A i \in DOMAIN sus : IsInTimeWindows(sus[i].windows, t) => ~stored.hibernate
=============================================================================
