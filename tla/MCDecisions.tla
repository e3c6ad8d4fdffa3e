----------------------------- MODULE MCDecisions -----------------------------
(***************************************************************************)
(* Instances of the components that decide and share no state: which       *)
(* stages a plan is executed in (PlanAdmission with Planner), when it is   *)
(* told to hibernate (ScheduleDelivery), which exceptions are admitted     *)
(* (Exceptions), what a plan does that its users override (Overrides) and  *)
(* which thread an event belongs to (NotificationDispatch).  A behaviour   *)
(* exercises one of them, part, while the others rest.                     *)
(***************************************************************************)
EXTENDS PlanAdmission, ScheduleDelivery, Exceptions, Overrides, NotificationDispatch

VARIABLE part

-----------------------------------------------------------------------------
(* Strategies that an exception may bring: of every type, with dependencies on a  *)
(* cycle, with stages that leave out a target and without any.                    *)

Dep(f, t) == [from |-> f, to |-> t]
Strategy(t, ds, ss, m) == [type |-> t, deps |-> ds, stages |-> ss, max |-> m]

MCReplacements ==
  {Strategy("Sequential", <<>>, <<>>, 0), Strategy("Parallel", <<>>, <<>>, 0),
   Strategy("DAG", <<Dep("a", "b")>>, <<>>, 1),
   Strategy("DAG", <<Dep("a", "b"), Dep("b", "c"), Dep("c", "a")>>, <<>>, 0),
   Strategy("Staged", <<>>, <<[targets |-> <<"a", "b">>, parallel |-> TRUE, max |-> 0]>>, 1),
   Strategy("Staged", <<>>, <<>>, 0)}

-----------------------------------------------------------------------------
(* Schedules: three days of six minutes, two instants a minute. *)

MCStart == 2 * WeekLen
All     == Days
W(s, e, d) == Window(s, e, d)
Exc(t, ws, l, f, u) == [type |-> t, windows |-> ws, lead |-> l, from |-> MCStart + f, until |-> MCStart + u]
S(b, x, n) == [base |-> b, excs |-> x, touches |-> n]

Bases == {<<W(4, 1, All)>>, <<W(4, 1, {0, 1})>>, <<W(1, 3, {0})>>,
          <<W(1, 3, All), W(3, 5, {1})>>, <<W(0, 5, All)>>}
ExtWindows == {<<W(1, 3, All)>>, <<W(2, 4, {1})>>, <<W(5, 2, All)>>}
SuspendedPlans  == ({<<W(4, 1, All)>>, <<W(4, 1, {0, 1})>>}
                  \X {<<W(4, 5, All)>>, <<W(5, 1, All)>>, <<W(3, 5, All)>>})
              \cup ({<<W(1, 5, All)>>, <<W(0, 5, All)>>}
                  \X {<<W(2, 5, All)>>, <<W(3, 5, All)>>})

MCScenarios ==
  {S(b, <<>>, 1) : b \in Bases}
  \cup {S(b, <<Exc(t, w, 0, f, 27)>>, 1) :
          b \in Bases, t \in {"extend", "replace"}, w \in ExtWindows,
          f \in {3, 9, 14}}
  \cup {S(p[1], <<Exc("suspend", p[2], 0, f, 27)>>, 1) : p \in SuspendedPlans, f \in {0, 3, 9, 14}}
  \* A window without extent: the webhook admits it, the evaluator does not.
  \cup {S(b, <<Exc("extend", <<W(2, 2, All)>>, 0, -1, 27)>>, 1) : b \in Bases}
  \cup {S(<<W(4, 1, All)>>, <<Exc("extend", <<W(1, 3, {1})>>, 0, 3, 30),
                              Exc("suspend", <<W(4, 5, All)>>, 1, 0, 30)>>, 1)}

-----------------------------------------------------------------------------
(* Exceptions: of one type and of two, overnight and by day, with overrides. *)

ExSpec(t, f, u, s, e, d, o) ==
  [type |-> t, from |-> f, until |-> u, windows |-> {[start |-> s, end |-> e, days |-> d]},
   lead |-> FALSE, override |-> o, owned |-> FALSE]

MCSpecs == {ExSpec("extend", 1, 2, 3, 1, {0, 1}, "good"), ExSpec("extend", 0, 2, 0, 2, {1}, "none"),
            ExSpec("suspend", 0, 2, 3, 1, {1}, "none"), ExSpec("replace", 0, 1, 1, 3, {0}, "good")}

\* The names are interchangeable: x is the first.  Bounds: the third write of a user
\* comes in a behaviour in which the plan does not change, and the second change of
\* the plan is that it is created again.  A behaviour ends where it is no longer calm:
\* from there on ExceptionsCompose says nothing.
MCEdits ==
  /\ exCalm'
  /\ exEdits' = 1 => exObjs'["y"] = NoException
  /\ exEdits' = 3 => exPlanEvents' = 0
  /\ exPlanEvents' = 2 => exPlan'.phase = "Active"

-----------------------------------------------------------------------------
(* Overrides *)

\* Two requests at a boundary with an API call that fails; one request with such a
\* call and a restart of the controller.
Bounds(r, b, f, c) == [requests |-> r, boundaries |-> b, faults |-> f, crashes |-> c]
MCBudgets == {Bounds(2, 1, 1, 0), Bounds(1, 0, 1, 1)}

-----------------------------------------------------------------------------
(* Notifications *)

\* Bounds: the third request comes in a behaviour with one failing call or one exit,
\* the fourth, which is the outcome of the third operation, in one without either.
MCRequests ==
  /\ ndSent' = NdMaxEvents => ndFaults' + ndExits' = 0
  /\ ndSent' = NdMaxEvents - 1 => ndFaults' + ndExits' <= 1
  /\ ndSent < ndSent' /\ ndSent' = NdMaxEvents
       => ndCurrent = NdStreams /\ \E e \in Terminal : Submit(e)

-----------------------------------------------------------------------------
(* The components at rest: no plan is applied, the time looked at is over, no *)
(* request is left to submit.                                                 *)

PlanningRests ==
  /\ spec = NoSpec /\ step = "rejected"
  /\ degree = [t \in {} |-> 0] /\ queue = {} /\ visited = 0
  /\ disabled = {} /\ effective = <<>> /\ strategy = Own /\ reverse = FALSE
  /\ targets = {} /\ deps = <<>>
  /\ inDegree = [t \in {} |-> 0] /\ levels = <<>> /\ outcome = "start"

ScheduleRests ==
  /\ base = <<>> /\ planned = <<>> /\ excs = <<>> /\ touches = 0 /\ version = 0
  /\ now = Horizon /\ queued = FALSE /\ stored = NoCtx /\ fresh = FALSE
  /\ timer = NoTimer /\ retryAt = Horizon

ExceptionsRest == EXInit /\ exPlan = NoPlan

OverridesRest ==
  /\ ovNow = OvHorizon /\ ovMeta = [NewPlan EXCEPT !.exists = FALSE] /\ ovStatus = Unset
  /\ ovOff = FALSE /\ ovData = FALSE /\ ovQueued = FALSE /\ ovSlot = EmptySlot
  /\ ovMem = NoWorker /\ ovTimer = Nothing
  /\ ovAsked = 0 /\ ovReran = 0 /\ ovExcused = {} /\ ovBudget = Bounds(0, 0, 0, 0)

MCInit ==
  \/ part = "planning" /\ PAInit /\ ScheduleRests /\ ExceptionsRest /\ OverridesRest /\ NDInit
  \/ part = "schedule" /\ PlanningRests /\ SDInit /\ ExceptionsRest /\ OverridesRest /\ NDInit
  \/ part = "exceptions" /\ PlanningRests /\ ScheduleRests /\ EXInit /\ OverridesRest /\ NDInit
  \/ part = "notifications" /\ PlanningRests /\ ScheduleRests /\ ExceptionsRest /\ OverridesRest /\ NDInit
  \/ part = "overrides" /\ PlanningRests /\ ScheduleRests /\ ExceptionsRest /\ OVInit /\ NDInit

MCNext ==
  \/ part = "planning" /\ PANext /\ UNCHANGED <<part, sdVars, exVars, ndVars, ovVars>>
  \/ part = "schedule" /\ SDNext /\ UNCHANGED <<part, paVars, exVars, ndVars, ovVars>>
  \/ part = "exceptions" /\ EXNext /\ MCEdits /\ UNCHANGED <<part, paVars, sdVars, ndVars, ovVars>>
  \/ part = "notifications" /\ NDNext /\ MCRequests /\ UNCHANGED <<part, paVars, sdVars, exVars, ovVars>>
  \/ part = "overrides" /\ OVNext /\ UNCHANGED <<part, paVars, sdVars, exVars, ndVars>>

MCSpec == MCInit /\ [][MCNext]_<<part, paVars, sdVars, exVars, ovVars, ndVars>>
=============================================================================
