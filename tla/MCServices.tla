----------------------------- MODULE MCServices -----------------------------
(***************************************************************************)
(* Instances of the concurrent services around the plan workers: the keyed *)
(* worker pool, the timers of a worker, the lifecycle of exceptions and    *)
(* the bindings of notifications.  They share no state: a behaviour        *)
(* exercises one of them, part, while the others rest in a state in which  *)
(* nothing is left to do, and each has its own fairness.                   *)
(***************************************************************************)
EXTENDS KeyedPool, TimerSet, Exceptions, NotificationBinding

VARIABLE part

\* Polls, deadlines and timeouts below, at and above the inactivity timeout.
Result(q, t, d) == [req |-> q, tmo |-> t, ddl |-> d]
MCResults == {Result(0, 0, 0), Result(1, 0, 0), Result(3, 0, 0), Result(1, 3, 0),
              Result(0, 0, 2), Result(0, 0, 3), Result(0, 0, 5)}

\* Exceptions with an overnight window and one that the plan owns.
Spec(f, u, w, o, own) ==
  [type |-> "extend", from |-> f, until |-> u, windows |-> {w}, lead |-> FALSE,
   override |-> o, owned |-> own]
Night == [start |-> 3, end |-> 1, days |-> {0, 1}]
Dawn  == [start |-> 0, end |-> 2, days |-> {1}]
Noon  == [start |-> 1, end |-> 3, days |-> {0}]
MCSpecs == {Spec(1, 2, Night, "good", FALSE), Spec(0, 2, Dawn, "none", TRUE),
            Spec(0, 1, Noon, "good", FALSE)}

\* Bound: a call fails in behaviours with at most two writes of users and changes of
\* the plan.
MCFaults == exFaults' > 0 => exEdits' + exPlanEvents' <= 2

-----------------------------------------------------------------------------
(* The services at rest: the pool stopped, the worker ended, no plan and no *)
(* exception or notification left.                                          *)

PoolRests ==
  /\ kpKind = "plans" /\ kpStage = "stopped" /\ kpMap = 0 /\ kpEntries = <<>>
  /\ kpSenders = [s \in Senders |-> Quiet]
  /\ kpFate = <<>> /\ kpRemoves = 0

TimersRest ==
  /\ tsLeft = [t \in Timers |-> Off] /\ tsLength = [t \in Timers |-> 0]
  /\ tsSeen = {} /\ tsNotify = FALSE /\ tsOut = "none"
  /\ tsWorker = "ended" /\ tsSlot = FALSE /\ tsLate = FALSE

ExceptionsRest ==
  /\ exNow = ExHorizon /\ exPlan = NoPlan
  /\ exObjs = [x \in ExNames |-> NoException] /\ exWrites = [x \in ExNames |-> <<>>]
  /\ exRefs = {} /\ exTodo = {} /\ exCalm = FALSE
  /\ exQueued = "no" /\ exContext = NoContext /\ exBusy = FALSE
  /\ exEdits = 0 /\ exPlanEvents = 0 /\ exFaults = 0

BindingsRest ==
  /\ nbPlan = [p \in NbPlans |-> ""] /\ nbNotif = NoNotif
  /\ nbQueued = {} /\ nbPending = {} /\ nbChanged = {}
  /\ nbBinding = [p \in NbPlans |-> NoBinding] /\ nbDropped = [p \in NbPlans |-> NoBinding]
  /\ nbWrites = <<>> /\ nbEdits = 0 /\ nbFaults = 0

MCInit ==
  \/ part = "pool" /\ KPInit /\ TimersRest /\ ExceptionsRest /\ BindingsRest
  \/ part = "timers" /\ PoolRests /\ TSInit /\ ExceptionsRest /\ BindingsRest
  \/ part = "exceptions" /\ PoolRests /\ TimersRest /\ EXStart /\ exPlan.up /\ exCalm = FALSE /\ BindingsRest
  \/ /\ part = "bindings" /\ PoolRests /\ TimersRest /\ ExceptionsRest /\ NBInit
     \* The plans are interchangeable.
     /\ nbPlan \in {[p |-> l, q |-> ""] : l \in NbLabels \cup {""}}
                  \cup {[p |-> "a", q |-> "a"], [p |-> "a", q |-> "b"], [p |-> "b", q |-> "b"]}

MCNext ==
  \/ part = "pool" /\ KPNext /\ UNCHANGED <<part, tsVars, exVars, nbVars>>
  \/ part = "timers" /\ TSNext /\ UNCHANGED <<part, kpVars, exVars, nbVars>>
  \/ part = "exceptions" /\ EXNext /\ MCFaults /\ UNCHANGED <<part, kpVars, tsVars, nbVars>>
  \/ part = "bindings" /\ NBNext /\ UNCHANGED <<part, kpVars, tsVars, exVars>>

MCSpec ==
  /\ MCInit /\ [][MCNext]_<<part, kpVars, tsVars, exVars, nbVars>>
  /\ KPFairness /\ TSFairness /\ EXFairness /\ NBFairness
=============================================================================
