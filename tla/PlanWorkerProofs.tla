-------------------------- MODULE PlanWorkerProofs --------------------------
(***************************************************************************)
(* Type correctness of the plan worker, the agreement of its memory with   *)
(* the status queue, the uniqueness of a target's current Job and, under   *)
(* Strict, the order of the stages, for every set of targets, every        *)
(* execution plan and every number of faults.                              *)
(*                                                                         *)
(* TypeOK is not inductive: a Job's target comes from the stage that       *)
(* CurrentStageIndex selects, and the status a restart finds is what the   *)
(* queue holds.  So the invariant says that every status, in memory,       *)
(* queued or persisted, has a stage index inside the plan of its           *)
(* operation, and that memory and the end of the queue agree.              *)
(*                                                                         *)
(* Nor is StageGate: that a stage before the current one completed is      *)
(* known only as long as no Job of its can say otherwise, in memory, in    *)
(* what is persisted and in every queued status a restart may find.        *)
(***************************************************************************)
EXTENDS PlanWorker, FiniteSetTheorems, SequenceTheorems, TLAPS

\* The stage index a status has is one of the execution plan of its operation.
StageInRange(s) ==
  /\ s.op \in Ops => s.stage <= Len(Stages[s.op])
  /\ s.op = "" => s.stage = 1

QueueOK(q) == q \in Seq(Status) /\ \A i \in 1 .. Len(q) : StageInRange(q[i])

\* What two statuses that differ in phase and executions only have in common.
Agree(r, s) == r.op = s.op /\ r.cycle = s.cycle /\ r.stage = s.stage /\ r.retry = s.retry

StatusInv ==
  /\ mem \in Status /\ StageInRange(mem)
  /\ db \in Status /\ StageInRange(db)
  /\ QueueOK(sendq)
  /\ Agree(mem, Newest(sendq))

PlanInv ==
  /\ api \in PlanObject /\ dirty \in BOOLEAN /\ slot \subseteq PlanContext /\ ctx \in PlanContext

TimerInv ==
  /\ wake \in {"event", "poll", "chain", "quiet", "down"}
  /\ depth \in 0 .. MaxHandleDepth - 1 /\ watchdog \in BOOLEAN

JobInv ==
  /\ miss \in [Targets -> 0 .. MissThreshold - 1]
  /\ jobs \subseteq Job /\ made \in [Targets -> Nat] /\ marking \subseteq Targets \X Nat

RestInv ==
  /\ cycles \in Nat
  /\ live \in [Targets -> Nat] /\ restored \subseteq Targets /\ saved \subseteq Targets
  /\ sched \in BOOLEAN /\ res \in [Targets -> {"up", "down"}]
  /\ used \in [Events -> Nat]

IInv == StatusInv /\ PlanInv /\ TimerInv /\ JobInv /\ RestInv

-----------------------------------------------------------------------------
(* The status queue *)

\* The newest status of a well-formed queue is a status with a valid stage.
LEMMA NewestOK ==
  ASSUME db \in Status, StageInRange(db), NEW q, QueueOK(q)
  PROVE  Newest(q) \in Status /\ StageInRange(Newest(q))
BY DEF Newest, QueueOK

\* A Send makes its status the newest one and keeps the queue well formed.
LEMMA EnqueueOK ==
  ASSUME NEW q, QueueOK(q), NEW s \in Status, StageInRange(s)
  PROVE  QueueOK(Enqueue(q, s)) /\ Newest(Enqueue(q, s)) = s
<1>1. CASE s = Newest(q)
  BY <1>1 DEF Enqueue
<1>2. CASE s # Newest(q)
  <2>1. Enqueue(q, s) = Append(q, s)
    BY <1>2 DEF Enqueue
  <2>2. /\ Append(q, s) \in Seq(Status) /\ Append(q, s) # <<>>
        /\ Len(Append(q, s)) = Len(q) + 1 /\ Append(q, s)[Len(q) + 1] = s
        /\ \A i \in 1 .. Len(q) : Append(q, s)[i] = q[i]
    BY AppendProperties DEF QueueOK
  <2> QED
    BY <2>1, <2>2 DEF QueueOK, Newest
<1> QED
  BY <1>1, <1>2

\* A handler that sends what it writes to memory keeps the status invariant.
LEMMA SendOK ==
  ASSUME StatusInv, UNCHANGED db, NEW q, QueueOK(q), NEW s \in Status, StageInRange(s),
         sendq' = Enqueue(q, s), mem' \in Status, Agree(mem', s)
  PROVE  StatusInv'
<1>1. QueueOK(sendq') /\ Newest(sendq') = s
  BY EnqueueOK
<1>2. Newest(sendq)' = Newest(sendq')
  BY DEF Newest
<1>3. StageInRange(mem')
  BY DEF Agree, StageInRange
<1> QED
  BY <1>1, <1>2, <1>3 DEF StatusInv, QueueOK, StageInRange

\* A handler that sends nothing may still change the phase and the executions.
LEMMA NoSendOK ==
  ASSUME StatusInv, UNCHANGED <<db, sendq>>, mem' \in Status, Agree(mem', mem)
  PROVE  StatusInv'
<1>1. Newest(sendq)' = Newest(sendq)
  BY DEF Newest
<1> QED
  BY <1>1 DEF StatusInv, Agree, StageInRange, QueueOK

-----------------------------------------------------------------------------
(* Timers and patches *)

\* Whatever a handler returns leaves the worker with valid timers.
LEMMA TimersOK ==
  ASSUME TimerInv, Requeue \/ RequeueAfter \/ AwaitDrain \/ GoQuiet
  PROVE  TimerInv'
<1>1. /\ wake' \in {"event", "poll", "chain", "quiet", "down"}
      /\ depth' \in 0 .. MaxHandleDepth - 1
  BY BoundsAssumption DEF TimerInv, Requeue, RequeueAfter, AwaitDrain, GoQuiet
<1>2. watchdog' \in BOOLEAN
  BY Zenon DEF Requeue, RequeueAfter, AwaitDrain, GoQuiet
<1> QED
  BY <1>1, <1>2 DEF TimerInv

\* A patch of the plan object keeps the cached PlanContext well formed.
LEMMA PatchOK ==
  ASSUME PlanInv, NEW o \in PlanObject, PatchPlan(o)
  PROVE  PlanInv'
BY DEF PlanInv, PatchPlan, PlanObject, PlanContext

-----------------------------------------------------------------------------
(* Observing Jobs *)

\* The observed executions are executions, and the counters stay below the
\* threshold.
LEMMA ObservedOK ==
  ASSUME StatusInv, JobInv
  PROVE  /\ ObservedEx \in [Targets -> ExecStatus]
         /\ TrackJobs => /\ miss' \in [Targets -> 0 .. MissThreshold - 1]
                         /\ marking' \subseteq Targets \X Nat
<1>1. \A t \in Targets : mem.ex[t] \in ExecStatus
  BY DEF StatusInv, Status
<1>2. ASSUME NEW t \in Targets PROVE Observed(t) \in ExecStatus
  <2>1. CASE CurrentJobs(t) # {}
    <3>1. PICK j \in jobs : j = CHOOSE i \in CurrentJobs(t) : TRUE
      BY <2>1 DEF CurrentJobs
    <3>2. j \in Job
      BY DEF JobInv
    <3>3. FromJob(mem.ex[t], j) \in ExecStatus
      BY <1>1, <3>2 DEF FromJob, ExecStatus, ExecStates, Terminal, Finished, Job
    <3> QED
      BY <2>1, <3>1, <3>3 DEF Observed
  <2>2. CASE CurrentJobs(t) = {}
    BY <1>1, <2>2 DEF Observed, FromNoJob, ExecStatus, ExecStates, Terminal
  <2> QED
    BY <2>1, <2>2
<1>3. ObservedEx \in [Targets -> ExecStatus]
  BY <1>2 DEF ObservedEx
<1>4. ASSUME NEW t \in Targets PROVE MissesAfter(t) \in 0 .. MissThreshold - 1
  BY BoundsAssumption DEF MissesAfter, JobInv
<1>5. {<<j.t, j.n>> : j \in NewlyTerminal} \subseteq Targets \X Nat
  BY DEF NewlyTerminal, JobInv, Job
<1> QED
  BY <1>3, <1>4, <1>5 DEF TrackJobs, JobInv

\* Memory and queue after an observation agree as they did before.
LEMMA ObservationOK ==
  ASSUME StatusInv, JobInv
  PROVE  /\ MemObserved \in Status /\ Agree(MemObserved, mem)
         /\ QueueOK(QueueObserved)
         /\ Newest(QueueObserved) \in Status /\ StageInRange(Newest(QueueObserved))
         /\ Agree(MemObserved, Newest(QueueObserved))
<1> DEFINE n == Newest(sendq)
<1> DEFINE o == [n EXCEPT !.ex = ObservedEx]
<1>1. ObservedEx \in [Targets -> ExecStatus]
  BY ObservedOK
<1>2. MemObserved \in Status /\ Agree(MemObserved, mem)
  BY <1>1 DEF MemObserved, StatusInv, Status, Agree
<1>3. n \in Status /\ StageInRange(n) /\ Agree(mem, n)
  BY NewestOK DEF StatusInv
<1>4. o \in Status /\ StageInRange(o) /\ Agree(mem, o)
  BY <1>1, <1>3 DEF Status, StageInRange, Agree
<1>5. QueueOK(Enqueue(sendq, o)) /\ Newest(Enqueue(sendq, o)) = o
  BY <1>4, EnqueueOK DEF StatusInv
<1>6. \/ QueueObserved = sendq
      \/ QueueObserved = Enqueue(sendq, o)
  BY DEF QueueObserved
<1>7. Agree(MemObserved, n) /\ Agree(MemObserved, o)
  BY <1>2, <1>3, <1>4 DEF Agree
<1> HIDE DEF o
<1> QED
  BY <1>2, <1>3, <1>4, <1>5, <1>6, <1>7 DEF StatusInv

-----------------------------------------------------------------------------
(* Dispatching a stage *)

\* An event is counted in the Budget's currency.
LEMMA CountOK ==
  ASSUME RestInv, NEW e \in Events, Count(e)
  PROVE  used' \in [Events -> Nat]
BY DEF RestInv, Count

\* Stages hold targets of the plan.
LEMMA StageTargets ==
  ASSUME NEW op \in Ops, NEW k \in 1 .. Len(Stages[op])
  PROVE  Stages[op][k].targets \subseteq Targets
<1>1. Stages[op] \in Seq([targets : SUBSET Targets, max : Nat])
  BY StagesAssumption
<1> DEFINE R == [targets : SUBSET Targets, max : Nat]
<1> DEFINE st == Stages[op]
<1>2. st \in Seq(R) /\ k \in 1 .. Len(st)
  BY <1>1
<1> HIDE DEF R, st
<1>3. st[k] \in R
  BY <1>2, ElementOfSeq
<1> QED
  BY <1>3 DEF R, st

\* Pruning changes the executions only.
LEMMA PrunedOK ==
  ASSUME NEW s \in Status, NEW U
  PROVE  Pruned(s, U) \in Status /\ Agree(Pruned(s, U), s)
<1> DEFINE x == [t \in Targets |-> IF t \in U THEN [s.ex[t] EXCEPT !.state = "Aborted"]
                                  ELSE s.ex[t]]
<1>1. \A t \in Targets : s.ex[t] \in ExecStatus
  BY DEF Status
<1>2. \A t \in Targets : [s.ex[t] EXCEPT !.state = "Aborted"] \in ExecStatus
  BY <1>1 DEF ExecStatus, ExecStates, Terminal
<1>3. x \in [Targets -> ExecStatus]
  BY <1>1, <1>2
<1>4. Pruned(s, U) = [s EXCEPT !.ex = x]
  BY DEF Pruned
<1> HIDE DEF x
<1> QED
  BY <1>3, <1>4 DEF Status, Agree

\* A phase change keeps everything else of a status.
LEMMA WithPhaseOK ==
  ASSUME NEW s \in Status, NEW ph \in Phases
  PROVE  WithPhase(s, ph) \in Status /\ Agree(WithPhase(s, ph), s)
BY DEF WithPhase, Status, Agree

\* A new stage index keeps everything else of a status.
LEMMA WithStageOK ==
  ASSUME NEW s \in Status, NEW k \in Nat \ {0}
  PROVE  LET u == [s EXCEPT !.stage = k]
         IN u \in Status /\ u.stage = k /\ u.op = s.op /\ u.cycle = s.cycle /\ u.retry = s.retry
BY DEF Status

\* executeForStage creates Jobs of the stage's targets only.
LEMMA ExecuteForStageOK ==
  ASSUME IInv, UNCHANGED db, mem.op \in Ops,
         NEW k \in 1 .. Len(Stages[mem.op]),
         NEW s \in Status, NEW q, QueueOK(q), Agree(s, Newest(q)),
         Newest(q) \in Status, StageInRange(Newest(q)),
         ExecuteForStage(k, s, q)
  PROVE  /\ StatusInv' /\ TimerInv'
         /\ jobs' \subseteq Job /\ made' \in [Targets -> Nat] /\ used' \in [Events -> Nat]
<1>1. PICK D \in SUBSET Eligible(k, s.ex), U \in SUBSET Blocked(k, s.ex), failed \in BOOLEAN :
        \E F \in SUBSET D : \E G \in SUBSET F :
          /\ LoopOutcome(k, s.ex, D, F, U, failed)
          /\ IF F = {} THEN UNCHANGED used ELSE May("createError") /\ Count("createError")
          /\ jobs' = jobs \cup {NewJob(t) : t \in (D \ F) \cup G}
          /\ made' = [t \in Targets |-> IF t \in (D \ F) \cup G THEN made[t] + 1 ELSE made[t]]
          /\ LET s1 == IF Overridden THEN s ELSE Pruned(s, U)
                 q1 == IF U = {} THEN q ELSE Enqueue(q, Pruned(Newest(q), U))
             IN IF failed
                THEN /\ mem' = WithPhase(s1, "Error")
                     /\ sendq' = Enqueue(q1, WithPhase(Newest(q1), "Error"))
                     /\ Requeue
                ELSE mem' = s1 /\ sendq' = q1 /\ RequeueAfter
  BY DEF ExecuteForStage
<1> DEFINE s1 == IF Overridden THEN s ELSE Pruned(s, U)
<1> DEFINE q1 == IF U = {} THEN q ELSE Enqueue(q, Pruned(Newest(q), U))
<1>2. PICK F \in SUBSET D, G \in SUBSET D :
        /\ IF F = {} THEN UNCHANGED used ELSE Count("createError")
        /\ jobs' = jobs \cup {NewJob(t) : t \in (D \ F) \cup G}
        /\ made' = [t \in Targets |-> IF t \in (D \ F) \cup G THEN made[t] + 1 ELSE made[t]]
        /\ IF failed
           THEN /\ mem' = WithPhase(s1, "Error")
                /\ sendq' = Enqueue(q1, WithPhase(Newest(q1), "Error"))
                /\ Requeue
           ELSE mem' = s1 /\ sendq' = q1 /\ RequeueAfter
  BY <1>1
<1>3. D \subseteq Targets
  BY StageTargets DEF Eligible, Unfinished, StageAt
<1>4. \A t \in D : NewJob(t) \in Job
  <2>1. mem.cycle \in Nat /\ \A t \in D : t \in Targets /\ made[t] \in Nat
    BY <1>3 DEF IInv, JobInv, StatusInv, Status
  <2>2. FALSE \in BOOLEAN
    BY Zenon
  <2> QED
    BY <2>1, <2>2 DEF NewJob, Job
<1>5. jobs' \subseteq Job
  BY <1>2, <1>4 DEF IInv, JobInv
<1>6. made' \in [Targets -> Nat]
  BY <1>2 DEF IInv, JobInv
<1>7. used' \in [Events -> Nat]
  <2>1. CASE F = {}
    BY <1>2, <2>1 DEF IInv, RestInv
  <2>2. CASE F # {}
    <3>1. Count("createError") /\ "createError" \in Events
      BY <1>2, <2>2 DEF Events
    <3> QED
      BY <3>1, CountOK DEF IInv
  <2> QED
    BY <2>1, <2>2
<1>8. s1 \in Status /\ Agree(s1, s)
  BY PrunedOK DEF Agree
<1>9. LET p == Pruned(Newest(q), U)
      IN p \in Status /\ Agree(p, Newest(q)) /\ StageInRange(p)
  BY PrunedOK DEF Agree, StageInRange
<1>10. /\ QueueOK(q1) /\ Newest(q1) \in Status /\ StageInRange(Newest(q1))
       /\ Agree(Newest(q1), Newest(q))
  BY <1>9, EnqueueOK DEF Agree
<1>11. Agree(s1, Newest(q1))
  BY <1>8, <1>10 DEF Agree
<1> HIDE DEF s1, q1
<1>12. StatusInv' /\ TimerInv'
  <2>1. CASE failed
    <3> DEFINE e == WithPhase(Newest(q1), "Error")
    <3>1. /\ e \in Status /\ Agree(e, Newest(q1)) /\ StageInRange(e)
          /\ WithPhase(s1, "Error") \in Status /\ Agree(WithPhase(s1, "Error"), s1)
      BY <1>8, <1>10, WithPhaseOK DEF Phases, Agree, StageInRange
    <3>2. mem' = WithPhase(s1, "Error") /\ sendq' = Enqueue(q1, e) /\ Requeue
      BY <1>2, <2>1
    <3>3. Agree(mem', e)
      BY <3>1, <3>2, <1>11 DEF Agree
    <3> HIDE DEF e
    <3>4. StatusInv'
      BY <1>10, <3>1, <3>2, <3>3, SendOK DEF IInv
    <3> QED
      BY <3>2, <3>4, TimersOK DEF IInv
  <2>2. CASE ~failed
    <3>1. mem' = s1 /\ sendq' = q1 /\ RequeueAfter
      BY <1>2, <2>2
    <3>2. Newest(sendq)' = Newest(q1)
      BY <3>1 DEF Newest
    <3>3. StatusInv'
      BY <1>8, <1>10, <1>11, <3>1, <3>2 DEF IInv, StatusInv, Agree, StageInRange, QueueOK
    <3> QED
      BY <3>1, <3>3, TimersOK DEF IInv
  <2> QED
    BY <2>1, <2>2
<1> QED
  BY <1>5, <1>6, <1>7, <1>12

-----------------------------------------------------------------------------
(* What a step leaves alone stays well formed *)

\* A step that leaves the three copies of the status alone keeps StatusInv.
LEMMA FrameStatus == StatusInv /\ UNCHANGED <<mem, sendq, db>> => StatusInv'
BY DEF StatusInv, Newest, QueueOK, StageInRange, Agree

\* A step that leaves the plan object and its cache alone keeps PlanInv.
LEMMA FramePlan == PlanInv /\ UNCHANGED planVars => PlanInv'
BY DEF PlanInv, planVars

\* A step that leaves the worker's timers alone keeps TimerInv.
LEMMA FrameTimers == TimerInv /\ UNCHANGED timerVars => TimerInv'
BY DEF TimerInv, timerVars

\* A step that leaves Jobs and miss counters alone keeps JobInv.
LEMMA FrameJobs == JobInv /\ UNCHANGED <<miss, jobVars>> => JobInv'
BY DEF JobInv, jobVars

\* A step that leaves cycles, restore data and the environment alone keeps RestInv.
LEMMA FrameRest == RestInv /\ UNCHANGED <<cycles, restoreVars, sched, res, used>> => RestInv'
BY DEF RestInv, restoreVars

\* The common case of a Send: a new phase, in memory and in the queue.
LEMMA PhaseSendOK ==
  ASSUME StatusInv, UNCHANGED db, NEW m \in Status, NEW q, QueueOK(q),
         Newest(q) \in Status, StageInRange(Newest(q)), Agree(m, Newest(q)),
         NEW ph \in Phases,
         mem' = WithPhase(m, ph), sendq' = Enqueue(q, WithPhase(Newest(q), ph))
  PROVE  StatusInv'
<1> DEFINE n == WithPhase(Newest(q), ph)
<1>1. n \in Status /\ Agree(n, Newest(q))
  BY WithPhaseOK
<1>2. mem' \in Status /\ Agree(mem', m)
  BY WithPhaseOK
<1>3. StageInRange(n) /\ Agree(mem', n)
  BY <1>1, <1>2 DEF Agree, StageInRange
<1> HIDE DEF n
<1> QED
  BY <1>1, <1>2, <1>3, SendOK DEF n

-----------------------------------------------------------------------------
(* The handlers *)

\* ExecutionStep runs inside the execution plan of the operation.
LEMMA ExecutionStepFacts ==
  ASSUME IInv, ExecutionStep
  PROVE  /\ mem.op \in Ops /\ mem.stage \in 1 .. Len(Stages[mem.op])
         /\ Len(Stages[mem.op]) \in Nat
         /\ miss' \in [Targets -> 0 .. MissThreshold - 1] /\ marking' \subseteq Targets \X Nat
<1>1. mem.op \in Ops /\ mem.stage \in Nat \ {0} /\ mem.stage <= Len(Stages[mem.op])
  BY DEF ExecutionStep, Handles, IInv, StatusInv, StageInRange, Status
<1>2. Len(Stages[mem.op]) \in Nat
  BY <1>1, StagesAssumption, LenProperties
<1> QED
  BY <1>1, <1>2, ObservedOK DEF ExecutionStep, IInv

\* cleanupSuspensionAnnotations
LEMMA CleanupOK ==
  ASSUME PlanInv, RestInv, CleanupSuspensionAnnotations
  PROVE  PlanInv' /\ used' \in [Events -> Nat]
<1> DEFINE o == [api EXCEPT !.suspendedAt = ""]
<1>0. o \in PlanObject
  BY DEF PlanInv, PlanObject, Phases
<1>1. CASE UNCHANGED <<planVars, used>>
  BY <1>1, FramePlan DEF RestInv
<1>2. CASE PatchPlan(o) /\ UNCHANGED used
  BY <1>0, <1>2, PatchOK DEF RestInv
<1>3. CASE /\ Count("patchError") /\ UNCHANGED <<api, dirty, slot>>
           /\ ctx' = [ctx EXCEPT !.suspendedAt = ""]
  <2>1. "patchError" \in Events
    BY DEF Events
  <2>2. used' \in [Events -> Nat]
    BY <1>3, <2>1, CountOK
  <2> QED
    BY <1>3, <2>2 DEF PlanInv, PlanContext, Phases
<1> QED
  BY <1>1, <1>2, <1>3 DEF CleanupSuspensionAnnotations

\* The execution handlers (hibernatingState, wakingUpState) keep the invariant.
LEMMA ExecuteIInv == ASSUME IInv, Execute PROVE IInv'
<1> USE DEF IInv
<1>0. /\ StatusInv /\ PlanInv /\ TimerInv /\ JobInv /\ RestInv
      /\ MemObserved \in Status /\ Agree(MemObserved, mem)
      /\ QueueOK(QueueObserved)
      /\ Newest(QueueObserved) \in Status /\ StageInRange(Newest(QueueObserved))
      /\ Agree(MemObserved, Newest(QueueObserved))
  BY ObservationOK
<1>1. CASE OperationMismatch
  <2>1. /\ UNCHANGED <<db, planVars, miss, jobVars, cycles, restoreVars, sched, res, used>>
        /\ Requeue
        /\ mem' = WithPhase(mem, "Error")
        /\ sendq' = Enqueue(sendq, WithPhase(Newest(sendq), "Error"))
    BY <1>1 DEF OperationMismatch
  <2>2. StatusInv'
    BY <1>0, <2>1, NewestOK, PhaseSendOK DEF StatusInv, Phases
  <2> QED
    BY <1>0, <2>1, <2>2, TimersOK, FramePlan, FrameJobs, FrameRest
<1>2. CASE ExecuteStageError
  <2>1. /\ UNCHANGED <<db, planVars, jobs, made, cycles, restoreVars, sched, res, used>>
        /\ Requeue /\ ExecutionStep
        /\ mem' = WithPhase(MemObserved, "Error")
        /\ sendq' = Enqueue(QueueObserved, WithPhase(Newest(QueueObserved), "Error"))
    BY <1>2 DEF ExecuteStageError
  <2>2. StatusInv'
    BY <1>0, <2>1, PhaseSendOK DEF Phases
  <2>3. JobInv'
    BY <1>0, <2>1, ExecutionStepFacts DEF JobInv
  <2> QED
    BY <1>0, <2>1, <2>2, <2>3, TimersOK, FramePlan, FrameRest
<1>3. CASE ExecuteAdvance
  <2> DEFINE next == mem.stage + 1
  <2> DEFINE m == [MemObserved EXCEPT !.stage = next]
  <2> DEFINE n == [Newest(QueueObserved) EXCEPT !.stage = next]
  <2>1. /\ UNCHANGED <<db, planVars, cycles, restoreVars, sched, res>>
        /\ ExecutionStep /\ ~LastStage
        /\ ExecuteForStage(next, m, Enqueue(QueueObserved, n))
    BY <1>3 DEF ExecuteAdvance
  <2>2. mem.op \in Ops /\ next \in 1 .. Len(Stages[mem.op])
    BY <2>1, ExecutionStepFacts DEF LastStage
  <2>3. /\ m \in Status /\ m.stage = next /\ m.op = MemObserved.op
        /\ m.cycle = MemObserved.cycle /\ m.retry = MemObserved.retry
    BY <1>0, <2>2, WithStageOK
  <2>4. LET o == Newest(QueueObserved)
        IN n \in Status /\ n.stage = next /\ n.op = o.op /\ n.cycle = o.cycle /\ n.retry = o.retry
    BY <1>0, <2>2, WithStageOK
  <2> HIDE DEF n, m
  <2>5. n.op = mem.op
    BY <1>0, <2>4 DEF Agree
  <2>6. StageInRange(n) /\ Agree(m, n)
    <3>1. n.op # ""
      BY <2>2, <2>5 DEF Ops
    <3>2. n.stage = next /\ next <= Len(Stages[mem.op])
      BY <2>2, <2>4
    <3>3. Agree(m, n)
      BY <1>0, <2>3, <2>4 DEF Agree
    <3> QED
      BY <2>5, <3>1, <3>2, <3>3 DEF StageInRange
  <2> HIDE DEF next
  <2>7. QueueOK(Enqueue(QueueObserved, n)) /\ Newest(Enqueue(QueueObserved, n)) = n
    BY <1>0, <2>4, <2>6, EnqueueOK
  <2>8. /\ StatusInv' /\ TimerInv'
        /\ jobs' \subseteq Job /\ made' \in [Targets -> Nat] /\ used' \in [Events -> Nat]
    BY <2>1, <2>2, <2>3, <2>4, <2>7, <2>6, ExecuteForStageOK
  <2>9. JobInv'
    BY <2>1, <2>8, ExecutionStepFacts DEF JobInv
  <2>10. RestInv'
    BY <1>0, <2>1, <2>8 DEF RestInv, restoreVars
  <2> QED
    BY <1>0, <2>1, <2>8, <2>9, <2>10, FramePlan
<1>4. CASE ExecuteDispatch
  <2>1. /\ UNCHANGED <<db, planVars, cycles, restoreVars, sched, res>>
        /\ ExecutionStep
        /\ ExecuteForStage(mem.stage, MemObserved, QueueObserved)
    BY <1>4 DEF ExecuteDispatch
  <2>2. mem.op \in Ops /\ mem.stage \in 1 .. Len(Stages[mem.op])
    BY <2>1, ExecutionStepFacts
  <2>6. /\ StatusInv' /\ TimerInv'
        /\ jobs' \subseteq Job /\ made' \in [Targets -> Nat] /\ used' \in [Events -> Nat]
    BY <1>0, <2>1, <2>2, ExecuteForStageOK
  <2>7. JobInv'
    BY <2>1, <2>6, ExecutionStepFacts DEF JobInv
  <2>8. RestInv'
    BY <1>0, <2>1, <2>6 DEF RestInv, restoreVars
  <2> QED
    BY <1>0, <2>1, <2>6, <2>7, <2>8, FramePlan
<1>5. CASE ExecuteWait
  <2>1. /\ UNCHANGED <<db, planVars, jobs, made, cycles, restoreVars, sched, res, used>>
        /\ ExecutionStep /\ RequeueAfter
        /\ mem' = MemObserved /\ sendq' = QueueObserved
    BY <1>5 DEF ExecuteWait
  <2>2. Newest(sendq)' = Newest(QueueObserved)
    BY <2>1 DEF Newest
  <2>3. StatusInv'
    BY <1>0, <2>1, <2>2 DEF StatusInv, Agree, StageInRange, QueueOK
  <2>4. JobInv'
    BY <1>0, <2>1, ExecutionStepFacts DEF JobInv
  <2> QED
    BY <1>0, <2>1, <2>3, <2>4, TimersOK, FramePlan, FrameRest
<1>6. CASE ExecuteFinalize
  <2> DEFINE complete == \A t \in Targets : ObservedEx[t].state \in Terminal
  <2> DEFINE n == Finalized(Newest(QueueObserved))
  <2>1. /\ UNCHANGED <<db, jobs, made, cycles, saved, sched, res>>
        /\ ExecutionStep /\ GoQuiet
        /\ IF complete
           THEN mem' = Finalized(MemObserved) /\ sendq' = Enqueue(QueueObserved, n)
           ELSE mem' = MemObserved /\ sendq' = QueueObserved
        /\ \/ PostWakeupCleanup
           \/ UNCHANGED <<restored, live, planVars, used>>
    BY <1>6 DEF ExecuteFinalize
  <2>2. JobInv'
    BY <1>0, <2>1, ExecutionStepFacts DEF JobInv
  <2>3. StatusInv'
    <3>1. CASE complete
      <4>1. /\ Finalized(MemObserved) \in Status /\ n \in Status
            /\ StageInRange(n) /\ Agree(Finalized(MemObserved), n)
        BY <1>0 DEF Finalized, Status, Phases, StageInRange, Agree
      <4> HIDE DEF n
      <4> QED
        BY <1>0, <2>1, <3>1, <4>1, SendOK
    <3>2. CASE ~complete
      <4>1. Newest(sendq)' = Newest(QueueObserved)
        BY <2>1, <3>2 DEF Newest
      <4> QED
        BY <1>0, <2>1, <3>2, <4>1 DEF StatusInv, Agree, StageInRange, QueueOK
    <3> QED
      BY <3>1, <3>2
  <2>4. PlanInv' /\ RestInv'
    <3>1. CASE UNCHANGED <<restored, live, planVars, used>>
      BY <1>0, <2>1, <3>1, FramePlan DEF RestInv
    <3>2. CASE restored = Targets /\ Unlock
      <4>1. restored' = {} /\ live' = [t \in Targets |-> 0] /\ CleanupSuspensionAnnotations
        BY <3>2, Zenon DEF Unlock
      <4>2. restored' \subseteq Targets /\ live' \in [Targets -> Nat]
        BY <4>1
      <4>3. PlanInv' /\ used' \in [Events -> Nat]
        BY <1>0, <4>1, CleanupOK
      <4> QED
        BY <1>0, <2>1, <4>2, <4>3 DEF RestInv
    <3>3. CASE Count("apiError") /\ UNCHANGED <<restored, live, planVars>>
      <4>1. used' \in [Events -> Nat]
        BY <1>0, <3>3, CountOK DEF Events
      <4> QED
        BY <1>0, <2>1, <3>3, <4>1, FramePlan DEF RestInv
    <3>4. CASE PostWakeupCleanup
      BY <3>1, <3>2, <3>3, <3>4 DEF PostWakeupCleanup
    <3> QED
      BY <2>1, <3>1, <3>4
  <2> QED
    BY <1>0, <2>1, <2>2, <2>3, <2>4, TimersOK
<1> QED
  BY <1>1, <1>2, <1>3, <1>4, <1>5, <1>6 DEF Execute

\* A status put together from its parts.
LEMMA StatusRecord ==
  ASSUME NEW ph \in Phases, NEW op \in Ops \cup {""}, NEW c \in Nat, NEW k \in Nat \ {0},
         NEW x \in [Targets -> ExecStatus], NEW r \in Nat
  PROVE  [phase |-> ph, op |-> op, cycle |-> c, stage |-> k, ex |-> x, retry |-> r] \in Status
BY DEF Status

\* A started operation has a valid stage: its first one.
LEMMA StartedOK ==
  ASSUME NEW s \in Status, NEW op \in Ops, NEW c \in Nat
  PROVE  /\ Started(s, op, c) \in Status /\ StageInRange(Started(s, op, c))
         /\ Started(s, op, c).op = op /\ Started(s, op, c).cycle = c
         /\ Started(s, op, c).stage = 1 /\ Started(s, op, c).retry = s.retry
<1>1. PendingExec \in ExecStatus
  <2>1. FALSE \in BOOLEAN
    BY Zenon
  <2> QED
    BY <2>1 DEF PendingExec, ExecStatus, ExecStates
<1>2. PhaseOf(op) \in Phases
  BY DEF PhaseOf, Phases
<1>3. [t \in Targets |-> PendingExec] \in [Targets -> ExecStatus]
  BY <1>1
<1>4. s.retry \in Nat
  BY DEF Status
<1> DEFINE u == Started(s, op, c)
<1>5. u.op = op /\ u.cycle = c /\ u.stage = 1 /\ u.retry = s.retry
  BY DEF Started
<1>6. u \in Status
  <2> DEFINE x == [t \in Targets |-> PendingExec]
  <2> DEFINE ph == PhaseOf(op)
  <2>1. u = [phase |-> ph, op |-> op, cycle |-> c, stage |-> 1, ex |-> x, retry |-> s.retry]
    BY DEF Started
  <2>2. x \in [Targets -> ExecStatus] /\ ph \in Phases /\ op \in Ops \cup {""}
    BY <1>2, <1>3
  <2>3. PICK k \in Nat \ {0} : k = 1
    OBVIOUS
  <2>4. u = [phase |-> ph, op |-> op, cycle |-> c, stage |-> k, ex |-> x, retry |-> s.retry]
    BY <2>1, <2>3
  <2> HIDE DEF x, ph, u
  <2> QED
    BY <1>4, <2>4, <2>2, StatusRecord
<1> HIDE DEF u
<1>9. Len(Stages[op]) \in Nat /\ Len(Stages[op]) > 0
  BY StagesAssumption, LenProperties
<1>10. StageInRange(u)
  BY <1>5, <1>9 DEF StageInRange, Ops
<1> QED
  BY <1>5, <1>6, <1>10 DEF u

\* The lifecycle and idle handlers keep the invariant.
LEMMA IdleIInv == ASSUME IInv, Idle PROVE IInv'
<1> USE DEF IInv
<1>0. /\ StatusInv /\ PlanInv /\ TimerInv /\ JobInv /\ RestInv
      /\ Newest(sendq) \in Status /\ StageInRange(Newest(sendq)) /\ QueueOK(sendq)
      /\ mem \in Status /\ Agree(mem, Newest(sendq))
  BY NewestOK DEF StatusInv
<1>1. CASE LifecycleInit
  <2>1. /\ mem' = WithPhase(mem, "Active")
        /\ sendq' = Enqueue(sendq, WithPhase(Newest(sendq), "Active"))
        /\ live' = [t \in Targets |-> 0] /\ Requeue
        /\ UNCHANGED <<db, planVars, miss, jobVars, cycles, restored, saved, sched, res, used>>
    BY <1>1 DEF LifecycleInit
  <2>2. StatusInv'
    BY <1>0, <2>1, PhaseSendOK DEF Phases
  <2>3. RestInv'
    BY <1>0, <2>1 DEF RestInv
  <2> QED
    BY <1>0, <2>1, <2>2, <2>3, TimersOK, FramePlan, FrameJobs
<1>2. CASE TransitionToHibernating
  <2>1. PICK c \in IF LiveCycles = {} THEN {cycles + 1} ELSE LiveCycles :
          /\ mem' = Started(mem, "shutdown", c)
          /\ sendq' = Enqueue(sendq, Started(Newest(sendq), "shutdown", c))
          /\ cycles' = IF c > cycles THEN c ELSE cycles
    BY <1>2 DEF TransitionToHibernating
  <2>2. c \in Nat
    <3>1. cycles + 1 \in Nat /\ LiveCycles \subseteq Nat
      BY <1>0 DEF RestInv, LiveCycles
    <3> QED
      BY <2>1, <3>1
  <2> DEFINE n == Started(Newest(sendq), "shutdown", c)
  <2>3. n \in Status /\ StageInRange(n) /\ mem' \in Status /\ Agree(mem', n)
    <3>1. "shutdown" \in Ops
      BY DEF Ops
    <3>2. /\ n \in Status /\ StageInRange(n) /\ n.op = "shutdown" /\ n.cycle = c
          /\ n.stage = 1 /\ n.retry = Newest(sendq).retry
      BY <1>0, <2>2, <3>1, StartedOK
    <3> HIDE DEF n
    <3>3. /\ mem' \in Status /\ mem'.op = "shutdown" /\ mem'.cycle = c
          /\ mem'.stage = 1 /\ mem'.retry = mem.retry
      BY <1>0, <2>1, <2>2, <3>1, StartedOK
    <3> QED
      BY <1>0, <3>2, <3>3 DEF Agree
  <2>4. /\ sendq' = Enqueue(sendq, n) /\ Requeue
        /\ UNCHANGED <<db, planVars, miss, jobVars, restoreVars, sched, res, used>>
    BY <1>2, <2>1 DEF TransitionToHibernating
  <2> HIDE DEF n
  <2>5. StatusInv'
    BY <1>0, <2>3, <2>4, SendOK
  <2>6. RestInv'
    BY <1>0, <2>1, <2>2, <2>4 DEF RestInv, restoreVars
  <2> QED
    BY <1>0, <2>4, <2>5, <2>6, TimersOK, FramePlan, FrameJobs
<1>3. CASE TransitionToWakingUp
  <2> DEFINE n == Started(Newest(sendq), "wakeup", Newest(sendq).cycle)
  <2>1. /\ mem' = Started(mem, "wakeup", mem.cycle) /\ sendq' = Enqueue(sendq, n) /\ Requeue
        /\ UNCHANGED <<db, planVars, miss, jobVars, cycles, restoreVars, sched, res, used>>
    BY <1>3 DEF TransitionToWakingUp
  <2>2. mem.cycle \in Nat /\ Newest(sendq).cycle = mem.cycle /\ Newest(sendq).retry = mem.retry
    BY <1>0 DEF Status, Agree
  <2>3. n \in Status /\ StageInRange(n) /\ mem' \in Status /\ Agree(mem', n)
    <3>1. "wakeup" \in Ops
      BY DEF Ops
    <3>2. /\ n \in Status /\ StageInRange(n) /\ n.op = "wakeup" /\ n.cycle = mem.cycle
          /\ n.stage = 1 /\ n.retry = mem.retry
      BY <1>0, <2>2, <3>1, StartedOK
    <3> HIDE DEF n
    <3>3. /\ mem' \in Status /\ mem'.op = "wakeup" /\ mem'.cycle = mem.cycle
          /\ mem'.stage = 1 /\ mem'.retry = mem.retry
      BY <1>0, <2>1, <2>2, <3>1, StartedOK
    <3> QED
      BY <3>2, <3>3 DEF Agree
  <2> HIDE DEF n
  <2>4. StatusInv'
    BY <1>0, <2>1, <2>3, SendOK
  <2> QED
    BY <1>0, <2>1, <2>4, TimersOK, FramePlan, FrameJobs, FrameRest
<1>4. CASE IdleStay
  BY <1>0, <1>4, TimersOK, FrameStatus, FramePlan, FrameJobs, FrameRest DEF IdleStay
<1> QED
  BY <1>1, <1>2, <1>3, <1>4 DEF Idle

\* performSuspension, from any well-formed memory and queue.
LEMMA PerformSuspensionOK ==
  ASSUME StatusInv, PlanInv, TimerInv, NEW m \in Status, NEW q, QueueOK(q),
         Newest(q) \in Status, StageInRange(Newest(q)), Agree(m, Newest(q)),
         PerformSuspension(m, q)
  PROVE  StatusInv' /\ PlanInv' /\ TimerInv'
<1> DEFINE o == [api EXCEPT !.suspendedAt = IF ctx.suspendedAt = mem.phase THEN @ ELSE mem.phase]
<1>1. /\ PatchPlan(o) /\ mem' = WithPhase(m, "Suspended")
      /\ sendq' = Enqueue(q, WithPhase(Newest(q), "Suspended"))
      /\ Requeue /\ UNCHANGED db
  BY DEF PerformSuspension
<1>2. o \in PlanObject
  BY DEF PlanInv, PlanObject, StatusInv, Status
<1> HIDE DEF o
<1>3. StatusInv'
  BY <1>1, PhaseSendOK DEF Phases
<1> QED
  BY <1>1, <1>2, <1>3, PatchOK, TimersOK

\* The suspension handlers keep the invariant.
LEMMA SuspensionIInv == ASSUME IInv, Suspension \/ DrainTimeout PROVE IInv'
<1> USE DEF IInv
<1>0. /\ StatusInv /\ PlanInv /\ TimerInv /\ JobInv /\ RestInv
      /\ Newest(sendq) \in Status /\ StageInRange(Newest(sendq)) /\ QueueOK(sendq)
      /\ mem \in Status /\ Agree(mem, Newest(sendq))
  BY NewestOK DEF StatusInv
<1>a. /\ MemObserved \in Status /\ Agree(MemObserved, mem)
      /\ QueueOK(QueueObserved)
      /\ Newest(QueueObserved) \in Status /\ StageInRange(Newest(QueueObserved))
      /\ Agree(MemObserved, Newest(QueueObserved))
  BY ObservationOK
<1>b. TrackJobs /\ UNCHANGED <<jobs, made>> => JobInv'
  BY <1>0, ObservedOK DEF JobInv
<1>1. CASE AwaitExecutionDrain
  <2>1. /\ TrackJobs /\ mem' = MemObserved /\ sendq' = QueueObserved /\ AwaitDrain
        /\ UNCHANGED <<db, planVars, jobs, made, cycles, restoreVars, sched, res, used>>
    BY <1>1 DEF AwaitExecutionDrain
  <2>2. Newest(sendq)' = Newest(QueueObserved)
    BY <2>1 DEF Newest
  <2>3. StatusInv'
    BY <1>0, <1>a, <2>1, <2>2 DEF StatusInv, Agree, StageInRange, QueueOK
  <2> QED
    BY <1>0, <1>b, <2>1, <2>3, TimersOK, FramePlan, FrameRest
<1>2. CASE PreSuspension
  <2> DEFINE m == IF Executing(mem) THEN MemObserved ELSE mem
  <2> DEFINE q == IF Executing(mem) THEN QueueObserved ELSE sendq
  <2>1. /\ m \in Status /\ Agree(m, Newest(q)) /\ QueueOK(q)
        /\ Newest(q) \in Status /\ StageInRange(Newest(q))
    BY <1>0, <1>a
  <2>2. /\ TrackJobs \/ UNCHANGED <<miss, marking>>
        /\ (PerformSuspension(m, q) /\ UNCHANGED used) \/ SuspensionPatchFails(m, q)
    BY <1>2 DEF PreSuspension
  <2> HIDE DEF m, q
  <2>3. UNCHANGED <<db, jobs, made, cycles, restoreVars, sched, res>>
    BY <2>2 DEF PerformSuspension, SuspensionPatchFails
  <2>4. JobInv'
    <3>1. CASE TrackJobs
      BY <1>b, <2>3, <3>1
    <3>2. CASE UNCHANGED <<miss, marking>>
      BY <1>0, <2>3, <3>2 DEF JobInv
    <3> QED
      BY <2>2, <3>1, <3>2
  <2>5. CASE PerformSuspension(m, q) /\ UNCHANGED used
    BY <1>0, <2>1, <2>3, <2>4, <2>5, PerformSuspensionOK, FrameRest
  <2>6. CASE SuspensionPatchFails(m, q)
    <3>1. /\ Count("patchError") /\ ctx' = [ctx EXCEPT !.suspendedAt = mem.phase]
          /\ mem' = m /\ sendq' = q /\ RequeueAfter /\ UNCHANGED <<api, dirty, slot>>
      BY <2>6 DEF SuspensionPatchFails
    <3>2. mem.phase \in Phases
      BY <1>0 DEF Status
    <3>3. PlanInv'
      BY <1>0, <3>1, <3>2 DEF PlanInv, PlanContext
    <3>4. Newest(sendq)' = Newest(q)
      BY <2>3, <3>1 DEF Newest
    <3>5. StatusInv'
      BY <1>0, <2>1, <2>3, <3>1, <3>4 DEF StatusInv, Agree, StageInRange, QueueOK
    <3>6. "patchError" \in Events
      BY DEF Events
    <3>7. RestInv'
      BY <1>0, <2>3, <3>1, <3>6, CountOK DEF RestInv, restoreVars
    <3> QED
      BY <1>0, <2>4, <3>1, <3>3, <3>5, <3>7, TimersOK
  <2> QED
    BY <2>2, <2>5, <2>6
<1>3. CASE SuspendedStay
  BY <1>0, <1>3, TimersOK, FrameStatus, FramePlan, FrameJobs, FrameRest DEF SuspendedStay
<1>4. CASE Resume
  <2> DEFINE n == Resumed(Newest(sendq))
  <2>1. /\ mem' = Resumed(mem) /\ sendq' = Enqueue(sendq, n)
        /\ CleanupSuspensionAnnotations /\ Requeue
        /\ UNCHANGED <<db, miss, jobVars, cycles, restoreVars, sched, res>>
    BY <1>4 DEF Resume
  <2>2. ASSUME NEW s \in Status
        PROVE  /\ Resumed(s) \in Status
               /\ Resumed(s).op = s.op /\ Resumed(s).cycle = s.cycle /\ Resumed(s).stage = s.stage
               /\ Resumed(s).retry = IF ctx.suspendedAt = "Error" THEN 0 ELSE s.retry
    <3>1. ResumePhase \in Phases
      BY DEF ResumePhase, Phases
    <3> DEFINE r == IF ctx.suspendedAt = "Error" THEN 0 ELSE s.retry
    <3> DEFINE ph == ResumePhase
    <3>2. r \in Nat /\ ph \in Phases
      BY <3>1 DEF Status
    <3>3. Resumed(s) = [[s EXCEPT !.phase = ph] EXCEPT !.retry = r]
      BY DEF Resumed, Status
    <3> HIDE DEF r, ph
    <3>4. /\ [[s EXCEPT !.phase = ph] EXCEPT !.retry = r] \in Status
          /\ LET u == [[s EXCEPT !.phase = ph] EXCEPT !.retry = r]
             IN u.op = s.op /\ u.cycle = s.cycle /\ u.stage = s.stage /\ u.retry = r
      BY <3>2 DEF Status
    <3> QED
      BY <3>3, <3>4 DEF r
  <2>3. n \in Status /\ StageInRange(n) /\ mem' \in Status /\ Agree(mem', n)
    BY <1>0, <2>1, <2>2 DEF Agree, StageInRange
  <2> HIDE DEF n
  <2>4. StatusInv'
    BY <1>0, <2>1, <2>3, SendOK
  <2>5. PlanInv' /\ used' \in [Events -> Nat]
    BY <1>0, <2>1, CleanupOK
  <2>6. RestInv'
    BY <1>0, <2>1, <2>5 DEF RestInv, restoreVars
  <2> QED
    BY <1>0, <2>1, <2>4, <2>5, <2>6, TimersOK, FrameJobs
<1>5. CASE ForceWakeUpOnResume
  <2>1. /\ mem' = WithPhase(mem, "Hibernated") /\ CleanupSuspensionAnnotations /\ Requeue
        /\ UNCHANGED <<sendq, db, miss, jobVars, cycles, restoreVars, sched, res>>
    BY <1>5 DEF ForceWakeUpOnResume
  <2>2. mem' \in Status /\ Agree(mem', mem)
    BY <1>0, <2>1, WithPhaseOK DEF Phases
  <2>3. StatusInv'
    BY <1>0, <2>1, <2>2, NoSendOK
  <2>4. PlanInv' /\ used' \in [Events -> Nat]
    BY <1>0, <2>1, CleanupOK
  <2>5. RestInv'
    BY <1>0, <2>1, <2>4 DEF RestInv, restoreVars
  <2> QED
    BY <1>0, <2>1, <2>3, <2>4, <2>5, TimersOK, FrameJobs
<1>6. CASE DrainTimeout
  <2>1. /\ Count("timeout") /\ PerformSuspension(mem, sendq) /\ UNCHANGED <<miss, marking>>
        /\ UNCHANGED <<db, jobs, made, cycles, restoreVars, sched, res>>
    BY <1>6 DEF DrainTimeout, PerformSuspension
  <2>2. "timeout" \in Events
    BY DEF Events
  <2>3. RestInv'
    BY <1>0, <2>1, <2>2, CountOK DEF RestInv, restoreVars
  <2>4. JobInv'
    BY <1>0, <2>1 DEF JobInv
  <2> QED
    BY <1>0, <2>1, <2>3, <2>4, PerformSuspensionOK
<1> QED
  BY <1>1, <1>2, <1>3, <1>4, <1>5, <1>6 DEF Suspension

\* A retry keeps operation, cycle and stage.
LEMMA RetriedOK ==
  ASSUME NEW s \in Status
  PROVE  /\ Retried(s) \in Status
         /\ Retried(s).op = s.op /\ Retried(s).cycle = s.cycle /\ Retried(s).stage = s.stage
         /\ Retried(s).retry = s.retry + 1
<1> DEFINE x == [t \in Targets |->
                   IF t \in Stages[RetryOp][mem.stage].targets /\ s.ex[t].state = "Failed"
                   THEN [s.ex[t] EXCEPT !.state = "Pending"] ELSE s.ex[t]]
<1> DEFINE ph == PhaseOf(RetryOp)
<1> DEFINE r == s.retry + 1
<1>1. \A t \in Targets : s.ex[t] \in ExecStatus
  BY DEF Status
<1>2. \A t \in Targets : [s.ex[t] EXCEPT !.state = "Pending"] \in ExecStatus
  BY <1>1 DEF ExecStatus, ExecStates
<1>3. x \in [Targets -> ExecStatus]
  BY <1>1, <1>2
<1>4. ph \in Phases
  BY DEF PhaseOf, Phases
<1>5. r \in Nat
  <2>1. s.retry \in Nat
    BY DEF Status
  <2> QED
    BY <2>1
<1>6. Retried(s) = [[[s EXCEPT !.phase = ph] EXCEPT !.retry = r] EXCEPT !.ex = x]
  BY DEF Retried, Status
<1> HIDE DEF x, ph, r
<1>7. LET u == [[[s EXCEPT !.phase = ph] EXCEPT !.retry = r] EXCEPT !.ex = x]
      IN u \in Status /\ u.op = s.op /\ u.cycle = s.cycle /\ u.stage = s.stage /\ u.retry = r
  BY <1>3, <1>4, <1>5 DEF Status
<1> QED
  BY <1>6, <1>7 DEF r

\* Labelling Jobs stale keeps them Jobs.
LEMMA RelabelledOK ==
  ASSUME JobInv, NEW J \in SUBSET jobs
  PROVE  Relabelled(J) \subseteq Job
<1>1. ASSUME NEW j \in Job, NEW b \in BOOLEAN PROVE [j EXCEPT !.stale = b] \in Job
  BY DEF Job
<1>2. ASSUME NEW j \in J PROVE [j EXCEPT !.stale = TRUE] \in Job
  <2>1. j \in Job
    BY DEF JobInv
  <2> QED
    BY <1>1, <2>1, Zenon
<1> QED
  BY <1>2 DEF Relabelled, JobInv

\* The recovery handlers keep the invariant.
LEMMA RecoveryIInv == ASSUME IInv, Recovery \/ TransientError PROVE IInv'
<1> USE DEF IInv
<1>0. /\ StatusInv /\ PlanInv /\ TimerInv /\ JobInv /\ RestInv
      /\ Newest(sendq) \in Status /\ StageInRange(Newest(sendq)) /\ QueueOK(sendq)
      /\ mem \in Status /\ Agree(mem, Newest(sendq))
  BY NewestOK DEF StatusInv
<1>1. CASE RecoveryBackoff
  BY <1>0, <1>1, TimersOK, FrameStatus, FramePlan, FrameJobs, FrameRest DEF RecoveryBackoff
<1>2. CASE Retry
  <2> DEFINE n == Retried(Newest(sendq))
  <2>1. PICK J \in SUBSET RetryStale :
          /\ IF J = RetryStale THEN UNCHANGED used ELSE Count("patchError")
          /\ jobs' = Relabelled(J)
    BY <1>2 DEF Retry
  <2>2. /\ mem' = Retried(mem) /\ sendq' = Enqueue(sendq, n) /\ Requeue
        /\ UNCHANGED <<db, planVars, miss, made, marking, cycles, restoreVars, sched, res>>
    BY <1>2 DEF Retry
  <2>3. n \in Status /\ StageInRange(n) /\ mem' \in Status /\ Agree(mem', n)
    <3>1. /\ n \in Status /\ n.op = Newest(sendq).op /\ n.cycle = Newest(sendq).cycle
          /\ n.stage = Newest(sendq).stage /\ n.retry = Newest(sendq).retry + 1
      BY <1>0, RetriedOK
    <3> HIDE DEF n
    <3>2. /\ mem' \in Status /\ mem'.op = mem.op /\ mem'.cycle = mem.cycle
          /\ mem'.stage = mem.stage /\ mem'.retry = mem.retry + 1
      BY <1>0, <2>2, RetriedOK
    <3>3. StageInRange(n)
      BY <1>0, <3>1 DEF StageInRange
    <3> QED
      BY <1>0, <3>1, <3>2, <3>3 DEF Agree
  <2> HIDE DEF n
  <2>4. StatusInv'
    BY <1>0, <2>2, <2>3, SendOK
  <2>5. JobInv'
    <3>1. J \in SUBSET jobs
      BY DEF RetryStale
    <3> QED
      BY <1>0, <2>1, <2>2, <3>1, RelabelledOK DEF JobInv
  <2>6. used' \in [Events -> Nat]
    <3>1. CASE J = RetryStale
      BY <1>0, <2>1, <3>1 DEF RestInv
    <3>2. CASE J # RetryStale
      <4>1. Count("patchError") /\ "patchError" \in Events
        BY <2>1, <3>2 DEF Events
      <4> QED
        BY <1>0, <4>1, CountOK
    <3> QED
      BY <3>1, <3>2
  <2>7. RestInv'
    BY <1>0, <2>2, <2>6 DEF RestInv, restoreVars
  <2> QED
    BY <1>0, <2>2, <2>4, <2>5, <2>7, TimersOK, FramePlan
<1>3. CASE ManualRetry
  <2> DEFINE n == [Newest(sendq) EXCEPT !.retry = 0]
  <2>1. /\ PatchPlan([api EXCEPT !.retryNow = FALSE])
        /\ mem' = [mem EXCEPT !.retry = 0] /\ sendq' = Enqueue(sendq, n) /\ Requeue
        /\ UNCHANGED <<db, miss, jobVars, cycles, restoreVars, sched, res, used>>
    BY <1>3 DEF ManualRetry
  <2>2. n \in Status /\ StageInRange(n) /\ mem' \in Status /\ Agree(mem', n)
    BY <1>0, <2>1 DEF Status, Agree, StageInRange
  <2> HIDE DEF n
  <2>3. StatusInv'
    BY <1>0, <2>1, <2>2, SendOK
  <2>4. [api EXCEPT !.retryNow = FALSE] \in PlanObject
    <3>1. FALSE \in BOOLEAN
      BY Zenon
    <3> QED
      BY <1>0, <3>1 DEF PlanInv, PlanObject
  <2> QED
    BY <1>0, <2>1, <2>3, <2>4, PatchOK, TimersOK, FrameJobs, FrameRest
<1>4. CASE RecoveryAborted
  BY <1>0, <1>4, TimersOK, FrameStatus, FramePlan, FrameJobs, FrameRest DEF RecoveryAborted
<1>5. CASE TransientError
  <2>1. /\ Count("apiError") /\ RequeueAfter
        /\ UNCHANGED <<mem, sendq, db, planVars, miss, jobVars, cycles, restoreVars, sched, res>>
    BY <1>5 DEF TransientError
  <2>2. "apiError" \in Events
    BY DEF Events
  <2>3. RestInv'
    BY <1>0, <2>1, <2>2, CountOK DEF RestInv, restoreVars
  <2> QED
    BY <1>0, <2>1, <2>3, TimersOK, FrameStatus, FramePlan, FrameJobs
<1>6. CASE ManualRetryFails
  <2>1. /\ Count("apiError") /\ RequeueAfter /\ ctx' = [ctx EXCEPT !.retryNow = FALSE]
        /\ UNCHANGED <<mem, sendq, db, api, dirty, slot, miss, jobVars, cycles, restoreVars,
                       sched, res>>
    BY <1>6 DEF ManualRetryFails
  <2>2. "apiError" \in Events
    BY DEF Events
  <2>3. RestInv'
    BY <1>0, <2>1, <2>2, CountOK DEF RestInv, restoreVars
  <2>4. PlanInv'
    <3>1. FALSE \in BOOLEAN
      BY Zenon
    <3> QED
      BY <1>0, <2>1, <3>1 DEF PlanInv, PlanContext
  <2> QED
    BY <1>0, <2>1, <2>3, <2>4, TimersOK, FrameStatus, FrameJobs
<1> QED
  BY <1>1, <1>2, <1>3, <1>4, <1>5, <1>6 DEF Recovery

-----------------------------------------------------------------------------
(* Around the worker *)

\* The status writer moves the head of the queue to the API server.
LEMMA WriteStatusOK == ASSUME StatusInv, WriteStatus PROVE StatusInv'
<1>1. PICK i \in 1 .. Len(sendq) : db' = [Head(sendq) EXCEPT !.ex = sendq[i].ex]
  BY DEF WriteStatus
<1>2. /\ sendq \in Seq(Status) /\ sendq # <<>> /\ sendq' = Tail(sendq) /\ mem' = mem
      /\ \A k \in 1 .. Len(sendq) : StageInRange(sendq[k])
      /\ mem \in Status /\ StageInRange(mem) /\ Agree(mem, Newest(sendq))
  BY DEF WriteStatus, StatusInv, QueueOK
<1>3. /\ Len(sendq) \in Nat /\ Len(sendq) > 0 /\ Head(sendq) = sendq[1]
      /\ \A k \in 1 .. Len(sendq) : sendq[k] \in Status
  BY <1>2, ElementOfSeq, EmptySeq, LenProperties, HeadTailProperties
<1>4. sendq[1] \in Status /\ StageInRange(sendq[1]) /\ sendq[i] \in Status
  BY <1>2, <1>3
<1>5. db' \in Status /\ StageInRange(db') /\ Agree(db', sendq[1])
  BY <1>1, <1>3, <1>4 DEF Status, StageInRange, Agree
<1>6. /\ Tail(sendq) \in Seq(Status) /\ Len(Tail(sendq)) = Len(sendq) - 1
      /\ \A k \in 1 .. Len(Tail(sendq)) : Tail(sendq)[k] = sendq[k + 1]
  BY <1>2, HeadTailProperties
<1>7. QueueOK(Tail(sendq))
  BY <1>2, <1>3, <1>6 DEF QueueOK
<1>8. Agree(mem, Newest(sendq)')
  <2>1. CASE Tail(sendq) = <<>>
    <3>1. Len(sendq) = 1
      BY <1>3, <1>6, <2>1, EmptySeq
    <3>2. Newest(sendq)' = db' /\ Newest(sendq) = sendq[1]
      BY <1>2, <2>1, <3>1 DEF Newest
    <3> QED
      BY <1>2, <1>5, <3>2 DEF Agree
  <2>2. CASE Tail(sendq) # <<>>
    <3>1. Len(Tail(sendq)) > 0 /\ Len(Tail(sendq)) \in Nat
      BY <1>6, <2>2, EmptySeq, LenProperties
    <3>2. Tail(sendq)[Len(Tail(sendq))] = sendq[Len(sendq)]
      BY <1>3, <1>6, <3>1
    <3>3. Newest(sendq)' = Newest(sendq)
      BY <1>2, <2>2, <3>2 DEF Newest
    <3> QED
      BY <1>2, <3>3
  <2> QED
    BY <2>1, <2>2
<1> QED
  BY <1>2, <1>5, <1>7, <1>8 DEF StatusInv, QueueOK, StageInRange

\* A worker that ends leaves the persisted status to the next one.
LEMMA ForgetOK ==
  ASSUME IInv, Forget, UNCHANGED db, sendq' = <<>>
  PROVE  StatusInv' /\ TimerInv' /\ miss' \in [Targets -> 0 .. MissThreshold - 1]
<1>1. StatusInv'
  <2>1. Newest(sendq)' = db' /\ mem' = db' /\ db' = db
    BY DEF Forget, Newest
  <2>2. sendq' \in Seq(Status) /\ Len(sendq') = 0
    BY EmptySeq
  <2>3. db' \in Status /\ StageInRange(db') /\ Agree(db', db')
    BY <2>1 DEF IInv, StatusInv, StageInRange, Agree
  <2>4. QueueOK(sendq')
    BY <2>2 DEF QueueOK
  <2>5. QueueOK(sendq)' /\ StageInRange(db)' /\ StageInRange(mem)' /\ Agree(mem, Newest(sendq))'
    BY <2>1, <2>3, <2>4 DEF QueueOK, StageInRange, Agree
  <2> QED
    BY <2>1, <2>3, <2>5 DEF StatusInv
<1>2. TimerInv'
  <2>1. wake' = "down" /\ depth' = 0 /\ watchdog' = FALSE
    BY DEF Forget
  <2>2. watchdog' \in BOOLEAN
    BY <2>1, Zenon
  <2>3. depth' \in 0 .. MaxHandleDepth - 1
    BY <2>1, BoundsAssumption
  <2> QED
    BY <2>1, <2>2, <2>3 DEF TimerInv
<1>3. miss' \in [Targets -> 0 .. MissThreshold - 1]
  BY BoundsAssumption DEF Forget
<1> QED
  BY <1>1, <1>2, <1>3

\* The status writer, the provider and the worker's loop keep the invariant.
LEMMA PlumbingIInv ==
  ASSUME IInv, WriteStatus \/ Reconcile \/ Deliver \/ IdleExit
  PROVE  IInv'
<1> USE DEF IInv
<1>0. StatusInv /\ PlanInv /\ TimerInv /\ JobInv /\ RestInv
  OBVIOUS
<1>1. CASE WriteStatus
  <2>1. UNCHANGED <<planVars, timerVars, miss, jobVars, cycles, restoreVars, sched, res, used>>
    BY <1>1 DEF WriteStatus
  <2> QED
    BY <1>0, <1>1, <2>1, WriteStatusOK, FramePlan, FrameTimers, FrameJobs, FrameRest
<1>2. CASE Reconcile
  <2> DEFINE some == saved # {}
  <2>1. /\ dirty' = FALSE /\ UNCHANGED <<api, ctx>>
        /\ slot' = {[suspend |-> api.suspend, suspendedAt |-> api.suspendedAt,
                     retryNow |-> api.retryNow, hibernate |-> sched, hasData |-> some]}
        /\ UNCHANGED <<mem, sendq, db, timerVars, miss, jobVars, cycles, restoreVars,
                       sched, res, used>>
    BY <1>2 DEF Reconcile
  <2>2. some \in BOOLEAN /\ dirty' \in BOOLEAN
    BY <2>1, Zenon
  <2> HIDE DEF some
  <2>3. PlanInv'
    BY <1>0, <2>1, <2>2 DEF PlanInv, PlanObject, PlanContext, RestInv
  <2> QED
    BY <1>0, <2>1, <2>3, FrameStatus, FrameTimers, FrameJobs, FrameRest
<1>3. CASE Deliver
  <2>1. PICK pc \in slot : ctx' = pc
    BY <1>3 DEF Deliver
  <2>2. /\ slot' = {} /\ wake' = "event"
        /\ UNCHANGED <<mem, sendq, db, api, dirty, depth, watchdog, miss, jobVars, cycles,
                       restoreVars, sched, res, used>>
    BY <1>3 DEF Deliver
  <2>3. PlanInv' /\ TimerInv'
    BY <1>0, <2>1, <2>2 DEF PlanInv, TimerInv
  <2> QED
    BY <1>0, <2>2, <2>3, FrameStatus, FrameJobs, FrameRest
<1>4. CASE IdleExit
  <2>1. /\ Forget /\ sendq' = <<>>
        /\ UNCHANGED <<db, planVars, jobVars, cycles, restoreVars, sched, res, used>>
    BY <1>4 DEF IdleExit
  <2>2. StatusInv' /\ TimerInv' /\ JobInv'
    BY <1>0, <2>1, ForgetOK DEF JobInv, jobVars
  <2> QED
    BY <1>0, <2>1, <2>2, FramePlan, FrameRest
<1> QED
  BY <1>1, <1>2, <1>3, <1>4

\* A user, the schedule or a restart of the controller keep the invariant.
LEMMA OutsideIInv == ASSUME IInv, Outside PROVE IInv'
<1> USE DEF IInv
<1>0. StatusInv /\ PlanInv /\ TimerInv /\ JobInv /\ RestInv
  OBVIOUS
<1>a. {"suspend", "retryNow", "flip", "crash"} \subseteq Events
  BY DEF Events
<1>b. TRUE \in BOOLEAN
  BY Zenon
<1>1. CASE UserSuspend
  <2> DEFINE b == ~api.suspend
  <2>1. /\ Count("suspend") /\ dirty' = TRUE /\ api' = [api EXCEPT !.suspend = b]
        /\ UNCHANGED <<mem, sendq, db, slot, ctx, timerVars, miss, jobVars, cycles, restoreVars,
                       sched, res>>
    BY <1>1 DEF UserSuspend
  <2>2. b \in BOOLEAN
    BY Zenon
  <2> HIDE DEF b
  <2>3. PlanInv'
    BY <1>0, <1>b, <2>1, <2>2 DEF PlanInv, PlanObject
  <2>4. RestInv'
    BY <1>0, <1>a, <2>1, CountOK DEF RestInv, restoreVars
  <2> QED
    BY <1>0, <2>1, <2>3, <2>4, FrameStatus, FrameTimers, FrameJobs
<1>2. CASE UserRetryNow
  <2> DEFINE b == TRUE
  <2>1. /\ Count("retryNow") /\ dirty' = TRUE /\ api' = [api EXCEPT !.retryNow = b]
        /\ UNCHANGED <<mem, sendq, db, slot, ctx, timerVars, miss, jobVars, cycles, restoreVars,
                       sched, res>>
    BY <1>2 DEF UserRetryNow
  <2>2. b \in BOOLEAN
    BY Zenon
  <2> HIDE DEF b
  <2>3. PlanInv'
    BY <1>0, <1>b, <2>1, <2>2 DEF PlanInv, PlanObject
  <2>4. RestInv'
    BY <1>0, <1>a, <2>1, CountOK DEF RestInv, restoreVars
  <2> QED
    BY <1>0, <2>1, <2>3, <2>4, FrameStatus, FrameTimers, FrameJobs
<1>3. CASE ScheduleBoundary
  <2>1. /\ Count("flip") /\ dirty' = TRUE /\ sched' = ~sched
        /\ UNCHANGED <<mem, sendq, db, api, slot, ctx, timerVars, miss, jobVars, cycles,
                       restoreVars, res>>
    BY <1>3 DEF ScheduleBoundary
  <2>2. sched' \in BOOLEAN
    BY <2>1, Zenon
  <2>3. PlanInv'
    BY <1>0, <1>b, <2>1 DEF PlanInv
  <2>4. RestInv'
    BY <1>0, <1>a, <2>1, <2>2, CountOK DEF RestInv, restoreVars
  <2> QED
    BY <1>0, <2>1, <2>3, <2>4, FrameStatus, FrameTimers, FrameJobs
<1>4. CASE Crash
  <2>1. /\ Count("crash") /\ Forget /\ sendq' = <<>> /\ slot' = {} /\ dirty' = TRUE
        /\ marking' = {}
        /\ UNCHANGED <<db, api, ctx, jobs, made, cycles, restoreVars, sched, res>>
    BY <1>4 DEF Crash
  <2>2. StatusInv' /\ TimerInv' /\ JobInv'
    BY <1>0, <2>1, ForgetOK DEF JobInv
  <2>3. PlanInv'
    BY <1>0, <1>b, <2>1 DEF PlanInv
  <2>4. RestInv'
    BY <1>0, <1>a, <2>1, CountOK DEF RestInv, restoreVars
  <2> QED
    BY <2>2, <2>3, <2>4
<1> QED
  BY <1>1, <1>2, <1>3, <1>4 DEF Outside

-----------------------------------------------------------------------------
(* Runner Jobs *)

\* What a step of Job j, which is not over, may make of it: a Job with the same
\* name, operation, cycle and label.
Successor(j, k) ==
  /\ ~Finished(j) /\ k \in Job
  /\ k.t = j.t /\ k.n = j.n /\ k.op = j.op /\ k.cyc = j.cyc /\ k.stale = j.stale

\* The status of a Job and its pods may change, nothing else of it.
LEMMA SuccessorOK ==
  ASSUME NEW j \in Job, ~Finished(j), NEW st \in {"created", "active", "done", "failed"}
  PROVE  /\ Successor(j, [j EXCEPT !.st = st])
         /\ Successor(j, [j EXCEPT !.st = st, !.podFailed = TRUE])
<1>1. Successor(j, [j EXCEPT !.st = st])
  BY DEF Successor, Job
<1>2. ASSUME NEW b \in BOOLEAN
      PROVE  Successor(j, [[j EXCEPT !.st = st] EXCEPT !.podFailed = b])
  BY DEF Successor, Job
<1>3. Successor(j, [[j EXCEPT !.st = st] EXCEPT !.podFailed = TRUE])
  BY <1>2, Zenon
<1>4. [j EXCEPT !.st = st, !.podFailed = TRUE] = [[j EXCEPT !.st = st] EXCEPT !.podFailed = TRUE]
  BY DEF Job
<1> QED
  BY <1>1, <1>3, <1>4

\* The runner's flush keeps the restore data well formed.
LEMMA SaveOK ==
  ASSUME RestInv, NEW j \in Job, UNCHANGED <<live, saved>> \/ Save(j)
  PROVE  live' \in [Targets -> Nat] /\ saved' \subseteq Targets
<1>1. j.t \in Targets /\ j.cyc \in Nat
  BY DEF Job
<1> QED
  BY <1>1 DEF RestInv, Save

\* A step of the Job set as seen by the invariants about Jobs: one Job moves on,
\* one disappears, or some are labelled stale.
JobsMove ==
  \/ \E j \in jobs : \E k : Successor(j, k) /\ Became(j, k)
  \/ jobs' \subseteq jobs
  \/ \E J \in SUBSET jobs : jobs' = Relabelled(J)

\* Whatever moves, Jobs stay Jobs.
LEMMA JobsMoveOK ==
  ASSUME JobInv, JobsMove
  PROVE  jobs' \subseteq Job
<1>1. ASSUME NEW j \in jobs, NEW k, Successor(j, k), Became(j, k) PROVE jobs' \subseteq Job
  BY <1>1 DEF JobInv, Became, Successor
<1>2. ASSUME jobs' \subseteq jobs PROVE jobs' \subseteq Job
  BY <1>2 DEF JobInv
<1>3. ASSUME NEW J \in SUBSET jobs, jobs' = Relabelled(J) PROVE jobs' \subseteq Job
  BY <1>3, RelabelledOK
<1> QED
  BY <1>1, <1>2, <1>3 DEF JobsMove

\* Every step of a runner or of its Job is such a move, and keeps the invariant.
LEMMA JobStepIInv == ASSUME IInv, JobStep PROVE IInv' /\ JobsMove
<1> USE DEF IInv
<1>0. StatusInv /\ PlanInv /\ TimerInv /\ JobInv /\ RestInv
  OBVIOUS
<1>a. {"podFailure", "flushError", "conflict", "jobFailure", "gc", "lost", "patchError"}
        \subseteq Events
  BY DEF Events
<1>b. ASSUME NEW j \in Job, EnqueueOnFirstResult(j), UNCHANGED <<api, slot, ctx>> PROVE PlanInv'
  <2>1. dirty' \in BOOLEAN
    BY <1>b, Zenon DEF EnqueueOnFirstResult
  <2> QED
    BY <1>0, <1>b, <2>1 DEF PlanInv
<1>1. ASSUME NEW j \in jobs, JobStart(j) PROVE IInv' /\ JobsMove
  <2>1. j \in Job /\ ~Finished(j)
    BY <1>0, <1>1 DEF JobInv, JobStart, Finished
  <2>2. /\ Became(j, [j EXCEPT !.st = "active"])
        /\ UNCHANGED <<mem, sendq, db, planVars, timerVars, miss, made, marking, cycles,
                       restoreVars, sched, res, used>>
    BY <1>1 DEF JobStart
  <2>3. JobsMove
    BY <2>1, <2>2, SuccessorOK DEF JobsMove
  <2>4. JobInv'
    BY <1>0, <2>2, <2>3, JobsMoveOK DEF JobInv
  <2> QED
    BY <1>0, <2>2, <2>3, <2>4, FrameStatus, FramePlan, FrameTimers, FrameRest
<1>2. ASSUME NEW j \in jobs, JobPodFails(j) PROVE IInv' /\ JobsMove
  <2>1. j \in Job /\ ~Finished(j)
    BY <1>0, <1>2 DEF JobInv, JobPodFails, Finished
  <2>2. /\ Became(j, [j EXCEPT !.st = "created", !.podFailed = TRUE])
        /\ Count("podFailure") /\ EnqueueOnFirstResult(j)
        /\ UNCHANGED <<live, saved>> \/ Save(j)
        /\ UNCHANGED <<mem, sendq, db, api, slot, ctx, timerVars, miss, made, marking, cycles,
                       restored, sched, res>>
    BY <1>2 DEF JobPodFails
  <2>3. JobsMove
    BY <2>1, <2>2, SuccessorOK DEF JobsMove
  <2>4. JobInv' /\ PlanInv'
    BY <1>0, <1>b, <2>1, <2>2, <2>3, JobsMoveOK DEF JobInv
  <2>5. RestInv'
    BY <1>0, <1>a, <2>1, <2>2, SaveOK, CountOK DEF RestInv
  <2> QED
    BY <1>0, <2>2, <2>3, <2>4, <2>5, FrameStatus, FrameTimers
<1>3. ASSUME NEW j \in jobs, ShutdownSucceeds(j) PROVE IInv' /\ JobsMove
  <2>1. j \in Job /\ j.t \in Targets /\ ~Finished(j)
    BY <1>0, <1>3 DEF JobInv, Job, ShutdownSucceeds, Finished
  <2>2. /\ Became(j, [j EXCEPT !.st = "done"]) /\ EnqueueOnFirstResult(j)
        /\ res' = [res EXCEPT ![j.t] = "down"]
        /\ \/ Save(j) /\ UNCHANGED used
           \/ Count("flushError") /\ UNCHANGED <<live, saved>>
        /\ UNCHANGED <<mem, sendq, db, api, slot, ctx, timerVars, miss, made, marking, cycles,
                       restored, sched>>
    BY <1>3 DEF ShutdownSucceeds
  <2>3. JobsMove
    BY <2>1, <2>2, SuccessorOK DEF JobsMove
  <2>4. JobInv' /\ PlanInv'
    BY <1>0, <1>b, <2>1, <2>2, <2>3, JobsMoveOK DEF JobInv
  <2>5. live' \in [Targets -> Nat] /\ saved' \subseteq Targets
    BY <1>0, <2>1, <2>2, SaveOK
  <2>6. used' \in [Events -> Nat]
    BY <1>0, <1>a, <2>2, CountOK DEF RestInv
  <2>7. RestInv'
    BY <1>0, <2>1, <2>2, <2>5, <2>6 DEF RestInv
  <2> QED
    BY <1>0, <2>2, <2>3, <2>4, <2>7, FrameStatus, FrameTimers
<1>4. ASSUME NEW j \in jobs, WakeupSucceeds(j) PROVE IInv' /\ JobsMove
  <2>1. j \in Job /\ j.t \in Targets /\ ~Finished(j)
    BY <1>0, <1>4 DEF JobInv, Job, WakeupSucceeds, Finished
  <2>2. /\ Became(j, [j EXCEPT !.st = "done"]) /\ EnqueueOnFirstResult(j)
        /\ res' = [res EXCEPT ![j.t] = "up"]
        /\ \/ /\ live' = [live EXCEPT ![j.t] = 0]
              /\ restored' = restored \cup {j.t}
              /\ UNCHANGED used
           \/ Count("conflict") /\ UNCHANGED <<live, restored>>
        /\ UNCHANGED <<mem, sendq, db, api, slot, ctx, timerVars, miss, made, marking, cycles,
                       saved, sched>>
    BY <1>4 DEF WakeupSucceeds
  <2>3. JobsMove
    BY <2>1, <2>2, SuccessorOK DEF JobsMove
  <2>4. JobInv' /\ PlanInv'
    BY <1>0, <1>b, <2>1, <2>2, <2>3, JobsMoveOK DEF JobInv
  <2>5. live' \in [Targets -> Nat] /\ restored' \subseteq Targets
    BY <1>0, <2>1, <2>2 DEF RestInv
  <2>6. used' \in [Events -> Nat]
    BY <1>0, <1>a, <2>2, CountOK DEF RestInv
  <2>7. RestInv'
    BY <1>0, <2>1, <2>2, <2>5, <2>6 DEF RestInv
  <2> QED
    BY <1>0, <2>2, <2>3, <2>4, <2>7, FrameStatus, FrameTimers
<1>5. ASSUME NEW j \in jobs, JobFails(j) PROVE IInv' /\ JobsMove
  <2>1. j \in Job /\ ~Finished(j)
    BY <1>0, <1>5 DEF JobInv, JobFails, Finished
  <2>2. /\ Became(j, [j EXCEPT !.st = "failed", !.podFailed = TRUE])
        /\ UNCHANGED used \/ Count("jobFailure")
        /\ EnqueueOnFirstResult(j)
        /\ UNCHANGED <<live, saved>> \/ Save(j)
        /\ UNCHANGED <<mem, sendq, db, api, slot, ctx, timerVars, miss, made, marking, cycles,
                       restored, sched, res>>
    BY <1>5 DEF JobFails
  <2>3. JobsMove
    BY <2>1, <2>2, SuccessorOK DEF JobsMove
  <2>4. JobInv' /\ PlanInv'
    BY <1>0, <1>b, <2>1, <2>2, <2>3, JobsMoveOK DEF JobInv
  <2>5. used' \in [Events -> Nat]
    BY <1>0, <1>a, <2>2, CountOK DEF RestInv
  <2>6. RestInv'
    BY <1>0, <2>1, <2>2, <2>5, SaveOK DEF RestInv
  <2> QED
    BY <1>0, <2>2, <2>3, <2>4, <2>6, FrameStatus, FrameTimers
<1>6. ASSUME NEW j \in jobs, JobRemoved(j) PROVE IInv' /\ JobsMove
  <2>1. /\ jobs' = jobs \ {j} /\ (Count("gc") \/ Count("lost"))
        /\ UNCHANGED <<mem, sendq, db, planVars, timerVars, miss, made, marking, cycles,
                       restoreVars, sched, res>>
    BY <1>6 DEF JobRemoved
  <2>2. JobsMove
    BY <1>6 DEF JobsMove, JobRemoved
  <2>3. JobInv'
    BY <1>0, <1>6, <2>2, JobsMoveOK DEF JobInv, JobRemoved
  <2>4. RestInv'
    BY <1>0, <1>a, <1>6, CountOK DEF RestInv, restoreVars, JobRemoved
  <2> QED
    BY <1>0, <1>6, <2>2, <2>3, <2>4, FrameStatus, FramePlan, FrameTimers DEF JobRemoved
<1>7. CASE MarkJobAsStale
  <2>1. PICK m \in marking :
          /\ marking' = marking \ {m}
          /\ \/ jobs' = Relabelled({j \in jobs : <<j.t, j.n>> = m}) /\ UNCHANGED used
             \/ Count("patchError") /\ UNCHANGED jobs
          /\ UNCHANGED <<mem, sendq, db, planVars, timerVars, miss, made, cycles, restoreVars,
                         sched, res>>
    BY <1>7 DEF MarkJobAsStale
  <2>2. JobsMove
    BY <2>1 DEF JobsMove
  <2>3. JobInv'
    BY <1>0, <2>1, <2>2, JobsMoveOK DEF JobInv
  <2>4. RestInv'
    BY <1>0, <1>a, <2>1, CountOK DEF RestInv, restoreVars
  <2> QED
    BY <1>0, <2>1, <2>2, <2>3, <2>4, FrameStatus, FramePlan, FrameTimers
<1> QED
  BY <1>1, <1>2, <1>3, <1>4, <1>5, <1>6, <1>7 DEF JobStep

-----------------------------------------------------------------------------
(* Type correctness *)

\* The state before the first reconciliation.
LEMMA InitIInv == Init => IInv
<1> SUFFICES ASSUME Init PROVE IInv
  OBVIOUS
<1>1. TRUE \in BOOLEAN /\ FALSE \in BOOLEAN
  BY Zenon
<1>2. PendingExec \in ExecStatus
  BY <1>1 DEF PendingExec, ExecStatus, ExecStates
<1>3. mem \in Status /\ mem.op = "" /\ mem.stage = 1
  <2> DEFINE x == [t \in Targets |-> PendingExec]
  <2>1. x \in [Targets -> ExecStatus]
    BY <1>2
  <2>2. "" \in Phases /\ "" \in Ops \cup {""}
    BY DEF Phases
  <2>3. PICK k \in Nat \ {0} : k = 1
    OBVIOUS
  <2>4. PICK z \in Nat : z = 0
    OBVIOUS
  <2>5. mem = [phase |-> "", op |-> "", cycle |-> z, stage |-> k, ex |-> x, retry |-> z]
    BY <2>3, <2>4 DEF Init
  <2> HIDE DEF x
  <2>6. mem \in Status
    BY <2>1, <2>2, <2>5, StatusRecord
  <2> QED
    BY <2>3, <2>5, <2>6
<1>4. StageInRange(mem)
  BY <1>3 DEF StageInRange, Ops
<1>5. StatusInv
  <2>1. sendq = <<>> /\ db = mem /\ Newest(sendq) = mem
    BY DEF Init, Newest
  <2>2. sendq \in Seq(Status) /\ Len(sendq) = 0
    BY <2>1, EmptySeq
  <2>3. QueueOK(sendq)
    BY <2>2 DEF QueueOK
  <2>4. StageInRange(db) /\ Agree(mem, Newest(sendq))
    BY <1>4, <2>1 DEF Agree
  <2> QED
    BY <1>3, <1>4, <2>1, <2>3, <2>4 DEF StatusInv
<1>6. PlanInv
  <2>1. PICK f \in BOOLEAN : f = FALSE
    BY <1>1, Zenon
  <2>2. /\ api = [suspend |-> f, suspendedAt |-> "", retryNow |-> f]
        /\ ctx = [suspend |-> f, suspendedAt |-> "", retryNow |-> f, hibernate |-> f,
                  hasData |-> f]
    BY <2>1, Zenon DEF Init
  <2>3. api \in PlanObject /\ ctx \in PlanContext
    BY <2>2 DEF PlanObject, PlanContext, Phases
  <2>4. dirty \in BOOLEAN
    BY <1>1, Zenon DEF Init
  <2> QED
    BY <2>3, <2>4 DEF Init, PlanInv
<1>7. TimerInv
  <2>1. watchdog \in BOOLEAN
    BY <1>1, Zenon DEF Init
  <2>2. wake = "down" /\ depth = 0
    BY DEF Init
  <2> QED
    BY <2>1, <2>2, BoundsAssumption DEF TimerInv
<1>8. JobInv
  <2>1. 0 \in 0 .. MissThreshold - 1
    BY BoundsAssumption
  <2>2. miss \in [Targets -> 0 .. MissThreshold - 1]
    BY <2>1 DEF Init
  <2>3. jobs = {} /\ made \in [Targets -> Nat] /\ marking = {}
    BY DEF Init
  <2> QED
    BY <2>2, <2>3 DEF JobInv
<1>9. RestInv
  BY DEF Init, RestInv
<1> QED
  BY <1>5, <1>6, <1>7, <1>8, <1>9 DEF IInv

\* Every step of the controller, of the cluster or of a user keeps IInv.
LEMMA NextIInv == IInv /\ [Next]_vars => IInv'
<1>1. CASE UNCHANGED vars
  BY <1>1, FrameStatus, FramePlan, FrameTimers, FrameJobs, FrameRest DEF IInv, vars
<1>2. ASSUME IInv, Next PROVE IInv'
  BY <1>2, IdleIInv, ExecuteIInv, SuspensionIInv, RecoveryIInv, PlumbingIInv, JobStepIInv,
     OutsideIInv DEF Next, Handle
<1> QED
  BY <1>1, <1>2

\* The inductive invariant of the plan worker.
THEOREM WorkerInvariant == Spec => []IInv
BY InitIInv, NextIInv, PTL DEF Spec

\* The worker's state keeps its shape for every plan and every number of faults:
\* in particular the recursion of handleWithDepth stays below maxHandleDepth and
\* the miss counters below their threshold.
THEOREM WorkerTypeCorrect == Spec => []TypeOK
<1>1. IInv => TypeOK
  BY DEF IInv, StatusInv, PlanInv, TimerInv, JobInv, RestInv, QueueOK, TypeOK
<1> QED
  BY <1>1, WorkerInvariant, PTL

-----------------------------------------------------------------------------
(* One current Job per target *)

\* Jobs that move keep the uniqueness: their target, operation, cycle and label stay.
LEMMA MoveUnique ==
  ASSUME JobInv, UniqueCurrentJob, JobsMove
  PROVE  UniqueCurrentJob'
<1>1. ASSUME NEW j \in jobs, NEW k, Successor(j, k), Became(j, k) PROVE UniqueCurrentJob'
  BY <1>1 DEF UniqueCurrentJob, Became, Successor
<1>2. ASSUME jobs' \subseteq jobs PROVE UniqueCurrentJob'
  BY <1>2 DEF UniqueCurrentJob
<1>3. ASSUME NEW J \in SUBSET jobs, jobs' = Relabelled(J) PROVE UniqueCurrentJob'
  <2>1. ASSUME NEW j \in J PROVE [j EXCEPT !.stale = TRUE].stale
    <3>1. j \in Job
      BY DEF JobInv
    <3> QED
      BY <3>1 DEF Job
  <2>2. \A i \in jobs' : ~i.stale => i \in jobs
    BY <1>3, <2>1 DEF Relabelled
  <2> QED
    BY <2>2 DEF UniqueCurrentJob
<1> QED
  BY <1>1, <1>2, <1>3 DEF JobsMove

\* A new Job for a target without a current one.
LEMMA DispatchUnique ==
  ASSUME UniqueCurrentJob, NEW D, \A t \in D : CurrentJobs(t) = {},
         jobs' = jobs \cup {NewJob(t) : t \in D}
  PROVE  UniqueCurrentJob'
<1>1. \A t \in D : /\ NewJob(t).t = t /\ NewJob(t).op = mem.op /\ NewJob(t).cyc = mem.cycle
                   /\ \A i \in jobs : ~(~i.stale /\ i.t = t /\ i.op = mem.op /\ i.cyc = mem.cycle)
  BY DEF NewJob, CurrentJobs
<1>2. ASSUME NEW i \in jobs', NEW j \in jobs', ~i.stale, ~j.stale,
             i.t = j.t, i.op = j.op, i.cyc = j.cyc
      PROVE  i = j
  <2>1. CASE i \in jobs /\ j \in jobs
    BY <1>2, <2>1 DEF UniqueCurrentJob
  <2>2. CASE i \in jobs /\ j \notin jobs
    <3>1. PICK t \in D : j = NewJob(t)
      BY <2>2
    <3> QED
      BY <1>1, <1>2, <2>2, <3>1
  <2>3. CASE i \notin jobs /\ j \in jobs
    <3>1. PICK t \in D : i = NewJob(t)
      BY <2>3
    <3> QED
      BY <1>1, <1>2, <2>3, <3>1
  <2>4. CASE i \notin jobs /\ j \notin jobs
    <3>1. PICK t \in D, u \in D : i = NewJob(t) /\ j = NewJob(u)
      BY <2>4
    <3>2. t = u
      BY <1>1, <1>2, <3>1
    <3> QED
      BY <3>1, <3>2
  <2> QED
    BY <2>1, <2>2, <2>3, <2>4
<1> QED
  BY <1>2 DEF UniqueCurrentJob

\* executeForStage dispatches only targets that JobExistsForTarget denies.
LEMMA StageUnique ==
  ASSUME UniqueCurrentJob, NEW k, NEW s, NEW q, ExecuteForStage(k, s, q)
  PROVE  UniqueCurrentJob'
<1>1. PICK D \in SUBSET Eligible(k, s.ex), P \in SUBSET Blocked(k, s.ex), failed \in BOOLEAN :
        \E F \in SUBSET D : \E G \in SUBSET F :
          /\ LoopOutcome(k, s.ex, D, F, P, failed)
          /\ jobs' = jobs \cup {NewJob(t) : t \in (D \ F) \cup G}
          /\ LET s1 == IF Overridden THEN s ELSE Pruned(s, P)
                 q1 == IF P = {} THEN q ELSE Enqueue(q, Pruned(Newest(q), P))
             IN IF failed
                THEN /\ mem' = WithPhase(s1, "Error")
                     /\ sendq' = Enqueue(q1, WithPhase(Newest(q1), "Error"))
                     /\ Requeue
                ELSE mem' = s1 /\ sendq' = q1 /\ RequeueAfter
  BY DEF ExecuteForStage
<1>2. PICK E \in SUBSET D : jobs' = jobs \cup {NewJob(t) : t \in E}
  BY <1>1
<1>3. \A t \in E : CurrentJobs(t) = {}
  BY DEF Eligible
<1> QED
  BY <1>2, <1>3, DispatchUnique

\* The steps that touch Jobs either dispatch a stage or move what is there.
LEMMA NextUnique == IInv /\ UniqueCurrentJob /\ [Next]_vars => UniqueCurrentJob'
<1> SUFFICES ASSUME IInv, UniqueCurrentJob, [Next]_vars PROVE UniqueCurrentJob'
  OBVIOUS
<1>0. JobInv
  BY DEF IInv
<1>1. CASE UNCHANGED jobs
  BY <1>1 DEF UniqueCurrentJob
<1>2. CASE JobStep
  BY <1>0, <1>2, JobStepIInv, MoveUnique
<1>3. CASE ExecuteAdvance
  BY <1>3, StageUnique DEF ExecuteAdvance
<1>4. CASE ExecuteDispatch
  BY <1>4, StageUnique DEF ExecuteDispatch
<1>5. CASE Retry
  <2>1. JobsMove
    BY <1>5 DEF Retry, RetryStale, JobsMove
  <2> QED
    BY <1>0, <2>1, MoveUnique
<1>6. CASE Idle \/ Suspension \/ DrainTimeout \/ TransientError
  <2>1. UNCHANGED jobs
    BY <1>6 DEF Idle, LifecycleInit, TransitionToHibernating, TransitionToWakingUp, IdleStay,
      Suspension, AwaitExecutionDrain, PreSuspension, PerformSuspension, SuspensionPatchFails,
      SuspendedStay, Resume, ForceWakeUpOnResume, DrainTimeout, TransientError, jobVars
  <2> QED
    BY <1>1, <2>1
<1>7. CASE OperationMismatch \/ ExecuteStageError \/ ExecuteWait \/ ExecuteFinalize
  <2>1. UNCHANGED jobs
    BY <1>7 DEF OperationMismatch, ExecuteStageError, ExecuteWait, ExecuteFinalize, jobVars
  <2> QED
    BY <1>1, <2>1
<1>8. CASE RecoveryBackoff \/ ManualRetry \/ ManualRetryFails \/ RecoveryAborted
  <2>1. UNCHANGED jobs
    BY <1>8 DEF RecoveryBackoff, ManualRetry, ManualRetryFails, RecoveryAborted, jobVars
  <2> QED
    BY <1>1, <2>1
<1>9. CASE WriteStatus \/ Reconcile \/ Deliver \/ IdleExit \/ Outside
  <2>1. UNCHANGED jobs
    BY <1>9 DEF WriteStatus, Reconcile, Deliver, IdleExit, Outside, UserSuspend, UserRetryNow,
      ScheduleBoundary, Crash, jobVars
  <2> QED
    BY <1>1, <2>1
<1>10. CASE UNCHANGED vars
  <2>1. UNCHANGED jobs
    BY <1>10 DEF vars, jobVars
  <2> QED
    BY <1>1, <2>1
<1> QED
  BY <1>2, <1>3, <1>4, <1>5, <1>6, <1>7, <1>8, <1>9, <1>10 DEF Next, Handle, Execute, Recovery

\* However often the controller restarts, Jobs get lost and patches fail,
\* executeForStage never gives a target a second current Job of one operation.
THEOREM UniqueCurrentJobHolds == Spec => []UniqueCurrentJob
<1>1. Init => UniqueCurrentJob
  BY DEF Init, UniqueCurrentJob
<1> QED
  BY <1>1, NextUnique, WorkerInvariant, PTL DEF Spec

-----------------------------------------------------------------------------
(* Memory and queue *)

\* executeForStage aborts no target: it stops at a failed upstream, or there is none.
Unpruned == Mode = "Strict" \/ Deps = {}

\* It prunes its own copy of the plan, when it has one.
Diverges == Overridden /\ ~Unpruned

\* MemoryIsTail, also under an override as long as nothing is pruned.
TailInv ==
  \/ mem = Newest(sendq)
  \/ Diverges
  \/ mem.phase = "Hibernated" /\ mem = WithPhase(Newest(sendq), "Hibernated")

\* A Send of what memory now holds makes it the newest queued status.
LEMMA SentTail ==
  ASSUME IInv, IInv', UNCHANGED db, NEW q, QueueOK(q), sendq' = Enqueue(q, mem')
  PROVE  mem' = Newest(sendq)'
<1>1. mem' \in Status /\ StageInRange(mem')
  BY DEF IInv, StatusInv, StageInRange
<1>2. Newest(sendq') = mem'
  BY <1>1, EnqueueOK
<1> QED
  BY <1>2 DEF Newest

\* The observation goes to memory and to the queue alike.
LEMMA ObservedTail ==
  ASSUME IInv, mem = Newest(sendq)
  PROVE  MemObserved = Newest(QueueObserved)
<1>1. mem \in Status /\ StageInRange(mem) /\ QueueOK(sendq)
  BY DEF IInv, StatusInv
<1>2. MemObserved \in Status /\ StageInRange(MemObserved)
  BY <1>1, ObservationOK DEF IInv, Agree, StageInRange
<1>3. CASE ObservedEx = mem.ex
  <2>1. MemObserved = mem
    BY <1>1, <1>3 DEF MemObserved, Status
  <2> QED
    BY <1>3, <2>1 DEF QueueObserved
<1>4. CASE ObservedEx # mem.ex
  <2>1. QueueObserved = Enqueue(sendq, MemObserved)
    BY <1>4 DEF QueueObserved, MemObserved
  <2> QED
    BY <1>1, <1>2, <2>1, EnqueueOK
<1> QED
  BY <1>3, <1>4

\* Pruning nothing changes nothing.
LEMMA PrunedNone ==
  ASSUME NEW s \in Status
  PROVE  Pruned(s, {}) = s
<1> DEFINE x == [t \in Targets |-> IF t \in {} THEN [s.ex[t] EXCEPT !.state = "Aborted"]
                                  ELSE s.ex[t]]
<1>1. s.ex \in [Targets -> ExecStatus]
  BY DEF Status
<1>2. x = s.ex
  BY <1>1
<1>3. Pruned(s, {}) = [s EXCEPT !.ex = x]
  BY DEF Pruned
<1> HIDE DEF x
<1> QED
  BY <1>2, <1>3 DEF Status

\* What the loop of executeForStage prunes then.
LEMMA NonePruned ==
  ASSUME Unpruned, NEW k, NEW ex, NEW D, NEW F, NEW U \in SUBSET Blocked(k, ex), NEW failed,
         LoopOutcome(k, ex, D, F, U, failed)
  PROVE  U = {}
BY DEF Unpruned, LoopOutcome, Blocked, FailedUpstream

\* executeForStage leaves memory behind only when it prunes its own copy of the plan.
LEMMA StageTail ==
  ASSUME IInv, IInv', ~Diverges, UNCHANGED db,
         NEW k, NEW s \in Status, NEW q, QueueOK(q), s = Newest(q), StageInRange(s),
         ExecuteForStage(k, s, q)
  PROVE  mem' = Newest(sendq)'
<1>1. PICK D \in SUBSET Eligible(k, s.ex), U \in SUBSET Blocked(k, s.ex), failed \in BOOLEAN :
        \E F \in SUBSET D :
          /\ LoopOutcome(k, s.ex, D, F, U, failed)
          /\ LET s1 == IF Overridden THEN s ELSE Pruned(s, U)
                 q1 == IF U = {} THEN q ELSE Enqueue(q, Pruned(Newest(q), U))
             IN IF failed
                THEN /\ mem' = WithPhase(s1, "Error")
                     /\ sendq' = Enqueue(q1, WithPhase(Newest(q1), "Error"))
                     /\ Requeue
                ELSE mem' = s1 /\ sendq' = q1 /\ RequeueAfter
  BY DEF ExecuteForStage
<1>a. Unpruned => U = {} /\ Pruned(s, U) = s
  BY <1>1, PrunedNone, NonePruned
<1> DEFINE s1 == Pruned(s, U)
<1> DEFINE q1 == IF U = {} THEN q ELSE Enqueue(q, Pruned(Newest(q), U))
<1>2. s1 \in Status /\ StageInRange(s1)
  BY PrunedOK DEF Agree, StageInRange
<1>3. QueueOK(q1) /\ Newest(q1) = s1
  <2>1. CASE U = {}
    BY <2>1, PrunedNone
  <2>2. CASE U # {}
    BY <1>2, <2>2, EnqueueOK
  <2> QED
    BY <2>1, <2>2
<1>4. IF failed
      THEN mem' = WithPhase(s1, "Error") /\ sendq' = Enqueue(q1, WithPhase(Newest(q1), "Error"))
      ELSE mem' = s1 /\ sendq' = q1
  BY <1>1, <1>a DEF Diverges
<1> HIDE DEF s1, q1
<1>5. CASE failed
  BY <1>3, <1>4, <1>5, SentTail
<1>6. CASE ~failed
  BY <1>3, <1>4, <1>6 DEF Newest
<1> QED
  BY <1>5, <1>6

\* The status writer leaves the newest status what it was.
LEMMA WriteTail == ASSUME StatusInv, WriteStatus PROVE Newest(sendq)' = Newest(sendq)
<1>1. PICK i \in 1 .. Len(sendq) : db' = [Head(sendq) EXCEPT !.ex = sendq[i].ex]
  BY DEF WriteStatus
<1>2. sendq \in Seq(Status) /\ sendq # <<>> /\ sendq' = Tail(sendq)
  BY DEF WriteStatus, StatusInv, QueueOK
<1>3. /\ Len(sendq) \in Nat /\ Len(sendq) > 0 /\ Head(sendq) = sendq[1]
      /\ \A k \in 1 .. Len(sendq) : sendq[k] \in Status
  BY <1>2, ElementOfSeq, EmptySeq, LenProperties, HeadTailProperties
<1>4. /\ Tail(sendq) \in Seq(Status) /\ Len(Tail(sendq)) = Len(sendq) - 1
      /\ \A k \in 1 .. Len(Tail(sendq)) : Tail(sendq)[k] = sendq[k + 1]
  BY <1>2, HeadTailProperties
<1>5. CASE Tail(sendq) = <<>>
  <2>1. Len(sendq) = 1 /\ i = 1
    <3>1. Len(sendq) = 1
      BY <1>3, <1>4, <1>5, EmptySeq
    <3> QED
      BY <3>1
  <2>2. sendq[1] \in Status /\ db' = [sendq[1] EXCEPT !.ex = sendq[1].ex]
    BY <1>1, <1>3, <2>1
  <2>3. db' = sendq[1]
    BY <2>2 DEF Status
  <2> QED
    BY <1>2, <1>5, <2>1, <2>3 DEF Newest
<1>6. CASE Tail(sendq) # <<>>
  <2>1. Len(Tail(sendq)) > 0 /\ Len(Tail(sendq)) \in Nat
    BY <1>4, <1>6, EmptySeq, LenProperties
  <2>2. Tail(sendq)[Len(Tail(sendq))] = sendq[Len(sendq)]
    BY <1>3, <1>4, <2>1
  <2> QED
    BY <1>2, <1>6, <2>2 DEF Newest
<1> QED
  BY <1>5, <1>6

\* The handlers keep memory and the end of the queue together.
LEMMA HandleTail ==
  ASSUME IInv, IInv', ~Diverges, TailInv, Handle \/ DrainTimeout \/ TransientError
  PROVE  TailInv'
<1>0. /\ mem \in Status /\ StageInRange(mem) /\ QueueOK(sendq)
      /\ Newest(sendq) \in Status /\ StageInRange(Newest(sendq)) /\ Agree(mem, Newest(sendq))
  BY NewestOK DEF IInv, StatusInv
<1>a. mem.phase # "Hibernated" => mem = Newest(sendq)
  BY DEF TailInv
<1>b. ASSUME NEW ph PROVE WithPhase(mem, ph) = WithPhase(Newest(sendq), ph)
  BY <1>0 DEF TailInv, WithPhase, Status
<1>c. mem' = Newest(sendq)' => TailInv'
  BY DEF TailInv
<1>d. Executing(mem) => /\ MemObserved = Newest(QueueObserved) /\ QueueOK(QueueObserved)
                        /\ MemObserved \in Status /\ StageInRange(MemObserved)
  <2> SUFFICES ASSUME Executing(mem)
               PROVE  /\ MemObserved = Newest(QueueObserved) /\ QueueOK(QueueObserved)
                      /\ MemObserved \in Status /\ StageInRange(MemObserved)
    OBVIOUS
  <2>1. mem = Newest(sendq)
    BY <1>a DEF Executing
  <2>2. /\ MemObserved \in Status /\ Agree(MemObserved, mem) /\ QueueOK(QueueObserved)
    BY ObservationOK DEF IInv
  <2> QED
    BY <1>0, <2>1, <2>2, ObservedTail DEF Agree, StageInRange
<1>e. ExecutionStep => Executing(mem)
  BY DEF ExecutionStep, Handles, PhaseOf, Executing
<1>f. UNCHANGED <<mem, sendq, db>> => TailInv'
  BY DEF TailInv, Newest, WithPhase
<1>1. CASE OperationMismatch \/ LifecycleInit \/ DrainTimeout
  <2>1. UNCHANGED db /\ \E ph : /\ mem' = WithPhase(mem, ph)
                                /\ sendq' = Enqueue(sendq, WithPhase(Newest(sendq), ph))
    BY <1>1 DEF OperationMismatch, LifecycleInit, DrainTimeout, PerformSuspension
  <2>2. sendq' = Enqueue(sendq, mem')
    BY <1>b, <2>1
  <2> QED
    BY <1>0, <1>c, <2>1, <2>2, SentTail
<1>2. CASE ExecuteStageError
  <2>1. /\ ExecutionStep /\ UNCHANGED db /\ mem' = WithPhase(MemObserved, "Error")
        /\ sendq' = Enqueue(QueueObserved, WithPhase(Newest(QueueObserved), "Error"))
    BY <1>2 DEF ExecuteStageError
  <2> QED
    BY <1>c, <1>d, <1>e, <2>1, SentTail
<1>3. CASE ExecuteAdvance
  <2> DEFINE next == mem.stage + 1
  <2> DEFINE m == [MemObserved EXCEPT !.stage = next]
  <2> DEFINE q == Enqueue(QueueObserved, [Newest(QueueObserved) EXCEPT !.stage = next])
  <2>1. ExecutionStep /\ ~LastStage /\ UNCHANGED db /\ ExecuteForStage(next, m, q)
    BY <1>3 DEF ExecuteAdvance
  <2>2. mem.op \in Ops /\ next \in Nat \ {0} /\ next <= Len(Stages[mem.op])
    BY <2>1, ExecutionStepFacts DEF LastStage
  <2>3. MemObserved.op = mem.op
    BY ObservationOK DEF IInv, Agree
  <2>4. m \in Status /\ m.stage = next /\ m.op = mem.op
    <3>1. MemObserved \in Status
      BY <1>d, <1>e, <2>1
    <3> QED
      BY <2>2, <2>3, <3>1, WithStageOK
  <2>5. q = Enqueue(QueueObserved, m)
    BY <1>d, <1>e, <2>1
  <2> HIDE DEF m, q
  <2>6. StageInRange(m)
    <3>1. m.op # ""
      BY <2>2, <2>4 DEF Ops
    <3> QED
      BY <2>2, <2>4, <3>1 DEF StageInRange
  <2> HIDE DEF next
  <2>7. QueueOK(q) /\ m = Newest(q)
    BY <1>d, <1>e, <2>1, <2>4, <2>5, <2>6, EnqueueOK
  <2> QED
    BY <1>c, <2>1, <2>4, <2>6, <2>7, StageTail
<1>4. CASE ExecuteDispatch
  <2>1. /\ ExecutionStep /\ UNCHANGED db
        /\ ExecuteForStage(mem.stage, MemObserved, QueueObserved)
    BY <1>4 DEF ExecuteDispatch
  <2> QED
    BY <1>c, <1>d, <1>e, <2>1, StageTail
<1>5. CASE ExecuteWait \/ AwaitExecutionDrain
  <2>1. Executing(mem) /\ UNCHANGED db /\ mem' = MemObserved /\ sendq' = QueueObserved
    BY <1>5, <1>e DEF ExecuteWait, AwaitExecutionDrain
  <2>2. Newest(sendq)' = Newest(QueueObserved)
    BY <2>1 DEF Newest
  <2> QED
    BY <1>c, <1>d, <2>1, <2>2
<1>6. CASE ExecuteFinalize
  <2>1. /\ ExecutionStep /\ UNCHANGED db
        /\ \/ /\ mem' = Finalized(MemObserved)
              /\ sendq' = Enqueue(QueueObserved, Finalized(Newest(QueueObserved)))
           \/ mem' = MemObserved /\ sendq' = QueueObserved
    BY <1>6 DEF ExecuteFinalize
  <2>2. CASE mem' = MemObserved /\ sendq' = QueueObserved
    <3>1. Newest(sendq)' = Newest(QueueObserved)
      BY <2>1, <2>2 DEF Newest
    <3> QED
      BY <1>c, <1>d, <1>e, <2>1, <2>2, <3>1
  <2>3. CASE /\ mem' = Finalized(MemObserved)
             /\ sendq' = Enqueue(QueueObserved, Finalized(Newest(QueueObserved)))
    BY <1>c, <1>d, <1>e, <2>1, <2>3, SentTail
  <2> QED
    BY <2>1, <2>2, <2>3
<1>7. CASE TransitionToHibernating
  <2>1. PICK c : /\ mem' = Started(mem, "shutdown", c)
                 /\ sendq' = Enqueue(sendq, Started(Newest(sendq), "shutdown", c))
    BY <1>7 DEF TransitionToHibernating
  <2>2. Started(mem, "shutdown", c) = Started(Newest(sendq), "shutdown", c)
    BY <1>0 DEF Started, Agree
  <2>3. UNCHANGED db
    BY <1>7 DEF TransitionToHibernating
  <2> QED
    BY <1>0, <1>c, <2>1, <2>2, <2>3, SentTail
<1>8. CASE TransitionToWakingUp
  <2>1. /\ mem' = Started(mem, "wakeup", mem.cycle) /\ UNCHANGED db
        /\ sendq' = Enqueue(sendq, Started(Newest(sendq), "wakeup", Newest(sendq).cycle))
    BY <1>8 DEF TransitionToWakingUp
  <2>2. Started(mem, "wakeup", mem.cycle) = Started(Newest(sendq), "wakeup", Newest(sendq).cycle)
    BY <1>0 DEF Started, Agree
  <2> QED
    BY <1>0, <1>c, <2>1, <2>2, SentTail
<1>9. CASE IdleStay \/ SuspendedStay \/ RecoveryBackoff \/ ManualRetryFails \/ RecoveryAborted \/ TransientError
  BY <1>9, <1>f DEF IdleStay, SuspendedStay, RecoveryBackoff, ManualRetryFails, RecoveryAborted, TransientError
<1>10. CASE PreSuspension
  <2> DEFINE m == IF Executing(mem) THEN MemObserved ELSE mem
  <2> DEFINE q == IF Executing(mem) THEN QueueObserved ELSE sendq
  <2>1. /\ UNCHANGED db
        /\ \/ mem' = WithPhase(m, "Suspended") /\ sendq' = Enqueue(q, WithPhase(Newest(q), "Suspended"))
           \/ mem' = m /\ sendq' = q
    BY <1>10 DEF PreSuspension, PerformSuspension, SuspensionPatchFails
  <2>2. CASE Executing(mem)
    <3>1. m = Newest(q) /\ QueueOK(q)
      BY <1>d, <2>2
    <3> HIDE DEF m, q
    <3>2. CASE mem' = m /\ sendq' = q
      BY <1>c, <2>1, <3>1, <3>2 DEF Newest
    <3>3. CASE /\ mem' = WithPhase(m, "Suspended")
               /\ sendq' = Enqueue(q, WithPhase(Newest(q), "Suspended"))
      BY <1>c, <2>1, <3>1, <3>3, SentTail
    <3> QED
      BY <2>1, <3>2, <3>3
  <2>3. CASE ~Executing(mem)
    <3>1. m = mem /\ q = sendq
      BY <2>3
    <3> HIDE DEF m, q
    <3>2. CASE mem' = m /\ sendq' = q
      BY <1>f, <2>1, <3>1, <3>2
    <3>3. CASE /\ mem' = WithPhase(m, "Suspended")
               /\ sendq' = Enqueue(q, WithPhase(Newest(q), "Suspended"))
      BY <1>0, <1>b, <1>c, <2>1, <3>1, <3>3, SentTail
    <3> QED
      BY <2>1, <3>2, <3>3
  <2> QED
    BY <2>2, <2>3
<1>11. CASE Resume \/ Retry \/ ManualRetry
  <2>1. mem.phase # "Hibernated" /\ UNCHANGED db
    BY <1>11 DEF Resume, Retry, ManualRetry, Selected
  <2>2. mem = Newest(sendq)
    BY <1>a, <2>1
  <2>3. sendq' = Enqueue(sendq, mem')
    BY <1>11, <2>2 DEF Resume, Retry, ManualRetry
  <2> QED
    BY <1>0, <1>c, <2>1, <2>3, SentTail
<1>12. CASE ForceWakeUpOnResume
  <2>1. /\ mem.phase # "Hibernated" /\ UNCHANGED <<sendq, db>>
        /\ mem' = WithPhase(mem, "Hibernated")
    BY <1>12 DEF ForceWakeUpOnResume, Selected
  <2>2. mem' = WithPhase(Newest(sendq)', "Hibernated") /\ mem'.phase = "Hibernated"
    BY <1>0, <1>a, <2>1 DEF Newest, WithPhase, Status
  <2> QED
    BY <2>2 DEF TailInv, WithPhase
<1> QED
  BY <1>1, <1>2, <1>3, <1>4, <1>5, <1>6, <1>7, <1>8, <1>9, <1>10, <1>11, <1>12
  DEF Handle, Idle, Execute, Suspension, Recovery

\* And so does everything else.
LEMMA NextTail == IInv /\ IInv' /\ TailInv /\ [Next]_vars => TailInv'
<1> SUFFICES ASSUME IInv, IInv', TailInv, [Next]_vars PROVE TailInv'
  OBVIOUS
<1>1. CASE Diverges
  BY <1>1 DEF TailInv
<1>2. CASE ~Diverges /\ (Handle \/ DrainTimeout \/ TransientError)
  BY <1>2, HandleTail
<1>3. CASE WriteStatus
  <2>1. Newest(sendq)' = Newest(sendq) /\ mem' = mem
    BY <1>3, WriteTail DEF IInv, WriteStatus
  <2> QED
    BY <2>1 DEF TailInv, WithPhase
<1>4. CASE IdleExit \/ Crash
  <2>1. mem' = db /\ db' = db /\ sendq' = <<>>
    BY <1>4 DEF IdleExit, Crash, Forget
  <2> QED
    BY <2>1 DEF TailInv, Newest
<1>5. CASE UNCHANGED <<mem, sendq, db>>
  BY <1>5 DEF TailInv, Newest, WithPhase
<1>6. CASE Reconcile \/ Deliver \/ JobStep \/ UserSuspend \/ UserRetryNow \/ ScheduleBoundary
  <2>1. UNCHANGED <<mem, sendq, db>>
    BY <1>6 DEF Reconcile, Deliver, JobStep, JobStart, JobPodFails, ShutdownSucceeds,
      WakeupSucceeds, JobFails, JobRemoved, MarkJobAsStale, UserSuspend, UserRetryNow,
      ScheduleBoundary
  <2> QED
    BY <1>5, <2>1
<1>7. CASE UNCHANGED vars
  BY <1>5, <1>7 DEF vars
<1> QED
  BY <1>1, <1>2, <1>3, <1>4, <1>6, <1>7 DEF Next, Outside

\* Whatever the order of handlers, writes and restarts, the status the worker
\* acts on is the one its queued updates will persist, unless an override makes
\* it work on a copy; forceWakeUpOnResume alone runs ahead, by the phase.
THEOREM MemoryIsTailHolds == Spec => []MemoryIsTail
<1>1. Init => TailInv
  BY DEF Init, TailInv, Newest
<1>2. TailInv => MemoryIsTail
  BY DEF TailInv, MemoryIsTail, Diverges
<1> QED
  BY <1>1, <1>2, NextTail, WorkerInvariant, PTL DEF Spec

-----------------------------------------------------------------------------
(* Stages in their order *)

\* Jobs of status s for target t that updateExecutionStatuses would find.
JobsOf(s, t) == {j \in jobs : j.t = t /\ j.cyc = s.cycle /\ j.op = s.op /\ ~j.stale}

\* StageGate of a status in any phase: a suspended or failed plan resumes.
Gated(s) ==
  s.op \in Ops =>
    \A k \in 1 .. s.stage - 1 : \A t \in Stages[s.op][k].targets : s.ex[t].state = "Completed"

\* No Job can make a completed execution anything else.
Done(s) ==
  \A t \in Targets : s.ex[t].state = "Completed" => \A j \in JobsOf(s, t) : j.st = "done"

SameRun(r, s) == r.ex = s.ex /\ r.op = s.op /\ r.cycle = s.cycle

\* Every handler finds the queue written: a restart loses at most the last one's.
Prompt == QueueBound = 0

GateInv ==
  Mode = "Strict" =>
    /\ Prompt \/ used["crash"] = 0 => Gated(mem) /\ Done(mem)
    /\ Prompt => /\ Gated(db) /\ Done(db)
                 /\ \A i \in 1 .. Len(sendq) : Gated(sendq[i]) /\ SameRun(sendq[i], mem)

\* What a handler may do to the executions and the stage: start a run, or go on
\* with the one it has, with completed executions staying completed.
Begins == mem'.stage = 1 /\ \A t \in Targets : mem'.ex[t].state # "Completed"

GoesOn ==
  /\ mem'.op = mem.op /\ mem'.cycle = mem.cycle
  /\ \A t \in Targets :
       /\ mem.ex[t].state = "Completed" => mem'.ex[t].state = "Completed"
       /\ mem'.ex[t].state = "Completed" => \A j \in JobsOf(mem, t) : j.st = "done"
  /\ \/ mem'.stage = mem.stage
     \/ /\ mem'.stage = mem.stage + 1
        /\ \A t \in Stages[mem.op][mem.stage].targets : mem'.ex[t].state = "Completed"

\* Job j is Job i, further on.
Continues(i, j) ==
  /\ i.t = j.t /\ i.op = j.op /\ i.cyc = j.cyc
  /\ ~j.stale => ~i.stale
  /\ i.st = "done" => j.st = "done"

JobsStay == \A j \in jobs' : \E i \in jobs : Continues(i, j)

\* A Job is one there was, or new for an execution that is not completed.
JobsGrow ==
  \A j \in jobs' :
    \/ \E i \in jobs : Continues(i, j)
    \/ /\ j.op = mem.op /\ j.cyc = mem.cycle
       /\ mem.ex[j.t].state # "Completed" /\ mem'.ex[j.t].state # "Completed"

\* What a handler may queue after an empty queue.
Sendable ==
  {s \in Status : SameRun(s, mem') /\ (s.stage = mem'.stage \/ (GoesOn /\ s.stage = mem.stage))}

Sends == \A i \in 1 .. Len(sendq') : sendq'[i] \in Sendable

HandlerStep == ((Begins /\ UNCHANGED jobs) \/ GoesOn) /\ JobsGrow /\ UNCHANGED db

\* An event once counted is never taken back.
LEMMA NeverUncounted ==
  ASSUME IInv, [Next]_vars, NEW e \in Events, used'[e] = 0
  PROVE  used[e] = 0
<1>1. used \in [Events -> Nat]
  BY DEF IInv, RestInv
<1>2. ASSUME NEW f \in Events, Count(f)
      PROVE  used[e] = 0
  <2>1. used' = [used EXCEPT ![f] = @ + 1]
    BY <1>2 DEF Count
  <2>2. used[e] \in Nat
    BY <1>1
  <2>3. CASE f = e
    <3>1. used'[e] = used[e] + 1
      BY <1>1, <2>1, <2>3
    <3> QED
      BY <2>2, <3>1
  <2>4. CASE f # e
    BY <1>1, <2>1, <2>4
  <2> QED
    BY <2>3, <2>4
<1>4. ASSUME UNCHANGED used \/ \E f \in Events : Count(f) PROVE used[e] = 0
  BY <1>2, <1>4
<1>5. /\ "createError" \in Events /\ "patchError" \in Events /\ "timeout" \in Events
      /\ "apiError" \in Events /\ "crash" \in Events /\ "retryNow" \in Events
      /\ "flip" \in Events /\ "podFailure" \in Events /\ "flushError" \in Events
      /\ "conflict" \in Events /\ "jobFailure" \in Events /\ "gc" \in Events /\ "lost" \in Events
      /\ "suspend" \in Events
  BY DEF Events
<1>6. CASE Handle \/ DrainTimeout \/ TransientError
  <2> DEFINE Kept == UNCHANGED used \/ \E f \in Events : Count(f)
  <2>1. ASSUME ExecuteFinalize
       PROVE  Kept
    BY <1>5, <2>1, Zenon DEF ExecuteFinalize, PostWakeupCleanup, Unlock,
      CleanupSuspensionAnnotations
  <2>2. ASSUME Idle \/ OperationMismatch \/ ExecuteStageError \/ ExecuteAdvance \/ ExecuteDispatch
             \/ ExecuteWait
       PROVE  Kept
    BY <1>5, <2>2, Zenon DEF Idle, LifecycleInit, TransitionToHibernating, TransitionToWakingUp,
      IdleStay, OperationMismatch, ExecuteStageError, ExecuteAdvance, ExecuteDispatch,
      ExecuteWait, ExecuteForStage
  <2>3. ASSUME Suspension
       PROVE  Kept
    BY <1>5, <2>3, Zenon DEF Suspension, AwaitExecutionDrain, PreSuspension,
      SuspensionPatchFails, SuspendedStay, Resume, ForceWakeUpOnResume,
      CleanupSuspensionAnnotations
  <2>4. ASSUME Recovery \/ DrainTimeout \/ TransientError
       PROVE  Kept
    BY <1>5, <2>4, Zenon DEF Recovery, RecoveryBackoff, Retry, ManualRetry, ManualRetryFails,
      RecoveryAborted, DrainTimeout, TransientError
  <2>5. Kept
    BY <1>6, <2>1, <2>2, <2>3, <2>4 DEF Handle, Execute
  <2> QED
    BY <1>4, <2>5
<1>7. CASE WriteStatus \/ Reconcile \/ Deliver \/ IdleExit
  BY <1>4, <1>7 DEF WriteStatus, Reconcile, Deliver, IdleExit
<1>8. CASE JobStep
  <2>1. UNCHANGED used \/ \E f \in Events : Count(f)
    BY <1>5, <1>8 DEF JobStep, JobStart, JobPodFails, ShutdownSucceeds, WakeupSucceeds,
      JobFails, JobRemoved, MarkJobAsStale
  <2> QED
    BY <1>4, <2>1
<1>9. CASE Outside
  <2>1. UNCHANGED used \/ \E f \in Events : Count(f)
    BY <1>5, <1>9 DEF Outside, UserSuspend, UserRetryNow, ScheduleBoundary, Crash
  <2> QED
    BY <1>4, <2>1
<1>10. CASE UNCHANGED vars
  BY <1>4, <1>10 DEF vars
<1> QED
  BY <1>6, <1>7, <1>8, <1>9, <1>10 DEF Next

\* An observation leaves completed executions completed, and takes one for
\* completed only with its Job, if there is one, done.
LEMMA ObservedDone ==
  ASSUME IInv, UniqueCurrentJob, Done(mem), NEW t \in Targets
  PROVE  /\ mem.ex[t].state = "Completed" => ObservedEx[t].state = "Completed"
         /\ ObservedEx[t].state = "Completed" => \A j \in JobsOf(mem, t) : j.st = "done"
<1>1. CurrentJobs(t) = JobsOf(mem, t)
  BY DEF CurrentJobs, JobsOf
<1>2. mem.ex[t] \in ExecStatus /\ ObservedEx[t] = Observed(t)
  BY DEF IInv, StatusInv, Status, ObservedEx
<1>3. CASE CurrentJobs(t) # {}
  <2>1. PICK j \in jobs : j = CHOOSE i \in CurrentJobs(t) : TRUE
    BY <1>3 DEF CurrentJobs
  <2>2. j \in CurrentJobs(t)
    BY <1>3, <2>1
  <2>3. \A i \in CurrentJobs(t) : i = j
    BY <2>2 DEF CurrentJobs, UniqueCurrentJob
  <2>4. ObservedEx[t] = FromJob(mem.ex[t], j)
    BY <1>2, <1>3, <2>1 DEF Observed
  <2>5. j \in Job
    BY DEF IInv, JobInv
  <2>6. j.st = "done" => FromJob(mem.ex[t], j).state = "Completed"
    BY DEF FromJob
  <2>7. /\ FromJob(mem.ex[t], j).state = "Completed" => j.st = "done" \/ mem.ex[t].state = "Completed"
    BY <2>5 DEF FromJob, Job
  <2>8. mem.ex[t].state = "Completed" => j.st = "done"
    BY <1>1, <2>2 DEF Done
  <2> QED
    BY <1>1, <2>3, <2>4, <2>6, <2>7, <2>8
<1>4. CASE CurrentJobs(t) = {}
  <2>1. ObservedEx[t] = FromNoJob(mem.ex[t], miss[t])
    BY <1>2, <1>4 DEF Observed
  <2>2. mem.ex[t].state = "Completed" => FromNoJob(mem.ex[t], miss[t]) = mem.ex[t]
    BY DEF FromNoJob
  <2> QED
    BY <1>1, <1>4, <2>1, <2>2
<1> QED
  BY <1>3, <1>4

\* A handler that leaves executions, Jobs and stage alone.
LEMMA IdleRun ==
  ASSUME IInv, Done(mem), UNCHANGED <<jobs, db>>, SameRun(mem', mem), mem'.stage = mem.stage
  PROVE  HandlerStep /\ GoesOn
<1>1. GoesOn
  BY DEF GoesOn, SameRun, Done
<1>2. JobsGrow
  BY DEF JobsGrow, Continues
<1> QED
  BY <1>1, <1>2 DEF HandlerStep

\* A handler that observes the Jobs.
LEMMA ObservedRun ==
  ASSUME IInv, UniqueCurrentJob, Done(mem), UNCHANGED <<jobs, db>>,
         SameRun(mem', MemObserved), mem'.stage = mem.stage
  PROVE  HandlerStep /\ GoesOn
<1>1. /\ MemObserved.op = mem.op /\ MemObserved.cycle = mem.cycle
      /\ MemObserved.ex = ObservedEx
  BY DEF MemObserved, IInv, StatusInv, Status
<1>2. GoesOn
  BY <1>1, ObservedDone DEF GoesOn, SameRun
<1>3. JobsGrow
  BY DEF JobsGrow, Continues
<1> QED
  BY <1>2, <1>3 DEF HandlerStep

\* One more update of the same run.
LEMMA SendsMore ==
  ASSUME NEW q, QueueOK(q), \A i \in 1 .. Len(q) : q[i] \in Sendable,
         NEW s \in Sendable
  PROVE  \A i \in 1 .. Len(Enqueue(q, s)) : Enqueue(q, s)[i] \in Sendable
<1>1. CASE s = Newest(q)
  BY <1>1 DEF Enqueue
<1>2. CASE s # Newest(q)
  <2>1. Enqueue(q, s) = Append(q, s)
    BY <1>2 DEF Enqueue
  <2>0. s \in Status /\ q \in Seq(Status) /\ Len(q) \in Nat
    BY LenProperties DEF QueueOK, Sendable
  <2>2. /\ Len(Append(q, s)) = Len(q) + 1 /\ Append(q, s)[Len(q) + 1] = s
        /\ \A i \in 1 .. Len(q) : Append(q, s)[i] = q[i]
    BY <2>0, AppendProperties
  <2>3. ASSUME NEW i \in 1 .. Len(q) + 1 PROVE Append(q, s)[i] \in Sendable
    <3>1. i \in 1 .. Len(q) \/ i = Len(q) + 1
      BY <2>0
    <3> QED
      BY <2>2, <3>1
  <2> QED
    BY <2>1, <2>2, <2>3
<1> QED
  BY <1>1, <1>2

\* The first update after an empty queue.
LEMMA SendsFirst ==
  ASSUME NEW s \in Sendable
  PROVE  \A i \in 1 .. Len(Enqueue(<<>>, s)) : Enqueue(<<>>, s)[i] \in Sendable
<1>1. QueueOK(<<>>)
  BY DEF QueueOK
<1> QED
  BY <1>1, SendsMore

\* What the observation queues, and what the handler makes of it.
LEMMA SendsObserved ==
  ASSUME IInv, mem = Newest(sendq), sendq = <<>>, MemObserved \in Sendable
  PROVE  \A i \in 1 .. Len(QueueObserved) : QueueObserved[i] \in Sendable
<1>1. CASE ObservedEx = mem.ex
  BY <1>1 DEF QueueObserved
<1>2. CASE ObservedEx # mem.ex
  <2>1. QueueObserved = Enqueue(sendq, MemObserved)
    BY <1>2 DEF QueueObserved, MemObserved
  <2> QED
    BY <2>1, SendsFirst
<1> QED
  BY <1>1, <1>2

\* executeForStage without pruning creates Jobs for executions that
\* are not over, and may end in the phase Error.
LEMMA StageRun ==
  ASSUME IInv, Unpruned, NEW k, NEW s \in Status, NEW q, s = Newest(q),
         ExecuteForStage(k, s, q)
  PROVE  /\ SameRun(mem', s) /\ mem'.stage = s.stage
         /\ sendq' = q \/ (sendq' = Enqueue(q, mem') /\ mem' \in Status)
         /\ \E E \in SUBSET Eligible(k, s.ex) : jobs' = jobs \cup {NewJob(t) : t \in E}
<1>1. PICK D \in SUBSET Eligible(k, s.ex), U \in SUBSET Blocked(k, s.ex), failed \in BOOLEAN :
        \E F \in SUBSET D : \E G \in SUBSET F :
          /\ LoopOutcome(k, s.ex, D, F, U, failed)
          /\ jobs' = jobs \cup {NewJob(t) : t \in (D \ F) \cup G}
          /\ LET s1 == IF Overridden THEN s ELSE Pruned(s, U)
                 q1 == IF U = {} THEN q ELSE Enqueue(q, Pruned(Newest(q), U))
             IN IF failed
                THEN /\ mem' = WithPhase(s1, "Error")
                     /\ sendq' = Enqueue(q1, WithPhase(Newest(q1), "Error"))
                     /\ Requeue
                ELSE mem' = s1 /\ sendq' = q1 /\ RequeueAfter
  BY DEF ExecuteForStage
<1>2. U = {} /\ Pruned(s, {}) = s
  BY <1>1, PrunedNone, NonePruned
<1>3. \/ mem' = WithPhase(s, "Error") /\ sendq' = Enqueue(q, WithPhase(s, "Error"))
      \/ mem' = s /\ sendq' = q
  BY <1>1, <1>2
<1>4. \E E \in SUBSET Eligible(k, s.ex) : jobs' = jobs \cup {NewJob(t) : t \in E}
  <2>0. PICK F \in SUBSET D : \E G \in SUBSET F :
          jobs' = jobs \cup {NewJob(t) : t \in (D \ F) \cup G}
    BY <1>1
  <2>1. PICK G \in SUBSET F : jobs' = jobs \cup {NewJob(t) : t \in (D \ F) \cup G}
    BY <2>0
  <2> DEFINE E == (D \ F) \cup G
  <2>2. E \in SUBSET Eligible(k, s.ex) /\ jobs' = jobs \cup {NewJob(t) : t \in E}
    BY <2>1
  <2> HIDE DEF E
  <2> QED
    BY <2>2
<1>5. WithPhase(s, "Error") \in Status /\ SameRun(WithPhase(s, "Error"), s)
      /\ WithPhase(s, "Error").stage = s.stage
  BY DEF WithPhase, Status, SameRun, Phases
<1> QED
  BY <1>3, <1>4, <1>5 DEF SameRun

\* A dispatch from the observed executions, at the stage the run is in or moves to.
LEMMA DispatchRun ==
  ASSUME IInv, UniqueCurrentJob, Done(mem), Unpruned, UNCHANGED db, mem.op \in Ops,
         NEW k \in 1 .. Len(Stages[mem.op]), NEW s \in Status, SameRun(s, MemObserved),
         \/ s.stage = mem.stage
         \/ /\ s.stage = mem.stage + 1
            /\ \A t \in Stages[mem.op][mem.stage].targets : ObservedEx[t].state = "Completed",
         NEW q, s = Newest(q), ExecuteForStage(k, s, q)
  PROVE  HandlerStep /\ GoesOn
<1>0. /\ MemObserved.op = mem.op /\ MemObserved.cycle = mem.cycle
      /\ MemObserved.ex = ObservedEx
  BY DEF MemObserved, IInv, StatusInv, Status
<1>1. /\ SameRun(mem', s) /\ mem'.stage = s.stage
      /\ \E E \in SUBSET Eligible(k, s.ex) : jobs' = jobs \cup {NewJob(t) : t \in E}
  BY StageRun
<1>2. PICK E \in SUBSET Eligible(k, s.ex) : jobs' = jobs \cup {NewJob(t) : t \in E}
  BY <1>1
<1>3. mem'.ex = ObservedEx /\ mem'.op = mem.op /\ mem'.cycle = mem.cycle
  BY <1>0, <1>1 DEF SameRun
<1>4. GoesOn
  BY <1>1, <1>3, ObservedDone DEF GoesOn
<1>5. ASSUME NEW t \in E
      PROVE  /\ NewJob(t).t = t /\ NewJob(t).op = mem.op /\ NewJob(t).cyc = mem.cycle
             /\ mem.ex[t].state # "Completed" /\ mem'.ex[t].state # "Completed"
  <2>1. t \in Stages[mem.op][k].targets /\ ObservedEx[t].state \notin Terminal
    BY <1>0 DEF Eligible, Unfinished, StageAt, SameRun
  <2>2. t \in Targets
    BY <2>1, StageTargets
  <2> QED
    BY <1>3, <2>1, <2>2, ObservedDone DEF NewJob, Terminal
<1>6. JobsGrow
  BY <1>2, <1>5 DEF JobsGrow, Continues
<1> QED
  BY <1>4, <1>6 DEF HandlerStep

\* A step of the Jobs alone.
LEMMA MoveStays ==
  ASSUME JobInv, JobsMove
  PROVE  JobsStay
<1>1. ASSUME NEW j \in jobs, NEW k, Successor(j, k), Became(j, k) PROVE JobsStay
  BY <1>1 DEF JobsStay, Continues, Became, Successor, Finished
<1>2. ASSUME jobs' \subseteq jobs PROVE JobsStay
  BY <1>2 DEF JobsStay, Continues
<1>3. ASSUME NEW J \in SUBSET jobs, jobs' = Relabelled(J) PROVE JobsStay
  <2>1. ASSUME NEW i \in J PROVE Continues(i, [i EXCEPT !.stale = TRUE])
    <3>1. i \in Job
      BY DEF JobInv
    <3> QED
      BY <3>1 DEF Job, Continues
  <2>2. \A i \in jobs : Continues(i, i)
    BY DEF Continues
  <2> QED
    BY <1>3, <2>1, <2>2 DEF JobsStay, Relabelled
<1> QED
  BY <1>1, <1>2, <1>3 DEF JobsMove

\* Every handler starts a run or goes on with it; and what it sends after an empty
\* queue is of the run memory is in.
LEMMA HandleRun ==
  ASSUME IInv, IInv', TailInv, UniqueCurrentJob, Done(mem), Mode = "Strict",
         Handle \/ DrainTimeout \/ TransientError
  PROVE  HandlerStep /\ (sendq = <<>> => Sends)
<1> DEFINE n == Newest(sendq)
<1>0. /\ mem \in Status /\ n \in Status /\ QueueOK(sendq) /\ mem' \in Status
      /\ StageInRange(mem) /\ StageInRange(n)
      /\ n.op = mem.op /\ n.cycle = mem.cycle /\ n.stage = mem.stage /\ n.retry = mem.retry
  BY NewestOK DEF IInv, StatusInv, Agree
<1>u. Unpruned
  BY DEF Unpruned
<1>a. n.ex = mem.ex /\ (mem.phase # "Hibernated" => mem = n)
  BY <1>0, <1>u DEF TailInv, Diverges, WithPhase, Status
<1>b. /\ MemObserved \in Status /\ MemObserved.op = mem.op /\ MemObserved.cycle = mem.cycle
      /\ MemObserved.stage = mem.stage /\ MemObserved.retry = mem.retry
      /\ MemObserved.ex = ObservedEx /\ QueueOK(QueueObserved)
      /\ StageInRange(MemObserved)
  BY <1>0, ObservationOK DEF IInv, Agree, MemObserved, Status, StageInRange
<1>c. Executing(mem) => MemObserved = Newest(QueueObserved) /\ mem = Newest(sendq)
  BY <1>a, ObservedTail DEF Executing
<1>d. ExecutionStep => Executing(mem)
  BY DEF ExecutionStep, Handles, PhaseOf, Executing
<1>e. mem' \in Sendable
  BY <1>0 DEF Sendable, SameRun
<1>f. ASSUME sendq = <<>>, sendq' = sendq \/ \E u \in Sendable : sendq' = Enqueue(sendq, u)
      PROVE  Sends
  <2>1. CASE sendq' = sendq
    BY <1>f, <2>1 DEF Sends
  <2>2. ASSUME NEW u \in Sendable, sendq' = Enqueue(<<>>, u) PROVE Sends
    BY <2>2, SendsFirst DEF Sends
  <2> QED
    BY <1>f, <2>1, <2>2
<1>g. ASSUME UNCHANGED <<jobs, db>>, SameRun(mem', mem), mem'.stage = mem.stage,
             \/ sendq' = sendq
             \/ \E u \in Status : /\ sendq' = Enqueue(sendq, u)
                                  /\ SameRun(u, n) /\ u.stage = n.stage
      PROVE  HandlerStep /\ (sendq = <<>> => Sends)
  <2>1. HandlerStep /\ GoesOn
    BY <1>g, IdleRun
  <2>2. ASSUME NEW u \in Status, SameRun(u, n), u.stage = n.stage PROVE u \in Sendable
    BY <1>0, <1>a, <1>g, <2>2 DEF Sendable, SameRun
  <2> HIDE DEF n
  <2> QED
    BY <1>f, <1>g, <2>1, <2>2
<1>h. ASSUME UNCHANGED <<jobs, db>>, Executing(mem), SameRun(mem', MemObserved),
             mem'.stage = mem.stage,
             sendq' = QueueObserved \/ sendq' = Enqueue(QueueObserved, mem')
      PROVE  HandlerStep /\ (sendq = <<>> => Sends)
  <2>1. HandlerStep /\ GoesOn
    BY <1>h, ObservedRun
  <2>2. MemObserved \in Sendable
    BY <1>b, <1>h DEF Sendable, SameRun
  <2>3. ASSUME sendq = <<>> PROVE Sends
    <3>1. \A i \in 1 .. Len(QueueObserved) : QueueObserved[i] \in Sendable
      BY <1>c, <1>h, <2>2, <2>3, SendsObserved
    <3>2. \A i \in 1 .. Len(Enqueue(QueueObserved, mem')) : Enqueue(QueueObserved, mem')[i] \in Sendable
      BY <1>b, <1>e, <3>1, SendsMore
    <3> QED
      BY <1>h, <3>1, <3>2 DEF Sends
  <2> QED
    BY <2>1, <2>3
<1>p. ASSUME NEW s \in Status, NEW ph \in Phases
      PROVE  /\ WithPhase(s, ph) \in Status /\ SameRun(WithPhase(s, ph), s)
             /\ WithPhase(s, ph).stage = s.stage
  BY DEF WithPhase, Status, SameRun
<1>1. CASE OperationMismatch \/ LifecycleInit \/ DrainTimeout \/ ForceWakeUpOnResume
  <2>1. /\ UNCHANGED <<jobs, db>>
        /\ \E ph \in Phases : /\ mem' = WithPhase(mem, ph)
                              /\ sendq' = Enqueue(sendq, WithPhase(n, ph)) \/ sendq' = sendq
    BY <1>1 DEF OperationMismatch, LifecycleInit, DrainTimeout, PerformSuspension,
      ForceWakeUpOnResume, jobVars, Phases
  <2> HIDE DEF n
  <2> QED
    BY <1>0, <1>g, <1>p, <2>1
<1>2. CASE ExecuteStageError
  <2>1. /\ ExecutionStep /\ UNCHANGED <<jobs, db>> /\ mem' = WithPhase(MemObserved, "Error")
        /\ sendq' = Enqueue(QueueObserved, WithPhase(Newest(QueueObserved), "Error"))
    BY <1>2 DEF ExecuteStageError
  <2>2. "Error" \in Phases
    BY DEF Phases
  <2> QED
    BY <1>b, <1>c, <1>d, <1>h, <1>p, <2>1, <2>2
<1>3. CASE ExecuteWait \/ AwaitExecutionDrain
  <2>1. Executing(mem) /\ UNCHANGED <<jobs, db>> /\ mem' = MemObserved /\ sendq' = QueueObserved
    BY <1>3, <1>d DEF ExecuteWait, AwaitExecutionDrain
  <2> QED
    BY <1>b, <1>h, <2>1 DEF SameRun
<1>4. CASE ExecuteFinalize
  <2>1. /\ ExecutionStep /\ UNCHANGED <<jobs, db>>
        /\ \/ /\ mem' = Finalized(MemObserved)
              /\ sendq' = Enqueue(QueueObserved, Finalized(Newest(QueueObserved)))
           \/ mem' = MemObserved /\ sendq' = QueueObserved
    BY <1>4 DEF ExecuteFinalize
  <2>2. SameRun(Finalized(MemObserved), MemObserved)
        /\ Finalized(MemObserved).stage = MemObserved.stage
    BY <1>b DEF Finalized, SameRun, Status
  <2>3. SameRun(mem', MemObserved) /\ mem'.stage = mem.stage
    BY <1>b, <2>1, <2>2 DEF SameRun
  <2> QED
    BY <1>c, <1>d, <1>h, <2>1, <2>3
<1>5. CASE PreSuspension
  <2>1. CASE Executing(mem)
    <3>1. /\ UNCHANGED <<jobs, db>>
          /\ \/ /\ mem' = WithPhase(MemObserved, "Suspended")
                /\ sendq' = Enqueue(QueueObserved, WithPhase(Newest(QueueObserved), "Suspended"))
             \/ mem' = MemObserved /\ sendq' = QueueObserved
      BY <1>5, <2>1 DEF PreSuspension, PerformSuspension, SuspensionPatchFails
    <3>2. "Suspended" \in Phases
      BY DEF Phases
    <3>3. SameRun(mem', MemObserved) /\ mem'.stage = mem.stage
      BY <1>b, <1>p, <3>1, <3>2 DEF SameRun
    <3> QED
      BY <1>c, <1>h, <2>1, <3>1, <3>3
  <2>2. CASE ~Executing(mem)
    <3>1. /\ UNCHANGED <<jobs, db>>
          /\ \/ /\ mem' = WithPhase(mem, "Suspended")
                /\ sendq' = Enqueue(sendq, WithPhase(n, "Suspended"))
             \/ mem' = mem /\ sendq' = sendq
      BY <1>5, <2>2 DEF PreSuspension, PerformSuspension, SuspensionPatchFails
    <3>2. "Suspended" \in Phases
      BY DEF Phases
    <3>3. SameRun(mem', mem) /\ mem'.stage = mem.stage
      BY <1>0, <1>p, <3>1, <3>2 DEF SameRun
    <3> HIDE DEF n
    <3> QED
      BY <1>0, <1>g, <1>p, <3>1, <3>2, <3>3
  <2> QED
    BY <2>1, <2>2
<1>6. CASE IdleStay \/ SuspendedStay \/ RecoveryBackoff \/ ManualRetryFails \/ RecoveryAborted \/ TransientError
  <2>1. UNCHANGED <<mem, sendq, db, jobs>>
    BY <1>6 DEF IdleStay, SuspendedStay, RecoveryBackoff, ManualRetryFails, RecoveryAborted, TransientError, jobVars
  <2> QED
    BY <1>g, <2>1 DEF SameRun
<1>7. CASE Resume \/ ManualRetry
  <2>1. /\ mem.phase # "Hibernated" /\ UNCHANGED <<jobs, db>>
        /\ mem' = Resumed(mem) \/ mem' = [mem EXCEPT !.retry = 0]
    BY <1>7 DEF Resume, ManualRetry, Selected, jobVars
  <2>2. mem = n
    BY <1>a, <2>1
  <2>3. sendq' = Enqueue(sendq, mem')
    BY <1>7, <2>2 DEF Resume, ManualRetry
  <2>4. SameRun(mem', mem) /\ mem'.stage = mem.stage
    BY <1>0, <2>1 DEF SameRun, Resumed, Status
  <2> HIDE DEF n
  <2> QED
    BY <1>0, <1>g, <2>1, <2>2, <2>3, <2>4
<1>8. CASE TransitionToHibernating \/ TransitionToWakingUp
  <2>1. PICK op, c : /\ mem' = Started(mem, op, c) /\ sendq' = Enqueue(sendq, Started(n, op, c))
                     /\ UNCHANGED <<jobs, db>>
    BY <1>0, <1>8 DEF TransitionToHibernating, TransitionToWakingUp, jobVars
  <2>2. Started(mem, op, c) = Started(n, op, c)
    BY <1>0 DEF Started
  <2>3. sendq' = Enqueue(sendq, mem')
    BY <2>1, <2>2
  <2>4. Begins
    BY <2>1 DEF Begins, Started, PendingExec
  <2>5. HandlerStep
    BY <2>1, <2>4 DEF HandlerStep, JobsGrow, Continues
  <2> QED
    BY <1>e, <1>f, <2>3, <2>5
<1>9. CASE Retry
  <2>1. /\ mem.phase # "Hibernated" /\ mem' = Retried(mem) /\ UNCHANGED db
        /\ sendq' = Enqueue(sendq, Retried(n))
    BY <1>9 DEF Retry, Selected
  <2>2. PICK J \in SUBSET jobs : jobs' = Relabelled(J)
    BY <1>9 DEF Retry, RetryStale
  <2>3. mem'.op = mem.op /\ mem'.cycle = mem.cycle /\ mem'.stage = mem.stage
    BY <1>0, <2>1, RetriedOK
  <2>4. ASSUME NEW t \in Targets
        PROVE  mem'.ex[t].state = "Completed" <=> mem.ex[t].state = "Completed"
    <3>1. mem.ex[t] \in ExecStatus
      BY <1>0 DEF Status
    <3>2. mem'.ex[t] = IF t \in Stages[RetryOp][mem.stage].targets /\ mem.ex[t].state = "Failed"
                       THEN [mem.ex[t] EXCEPT !.state = "Pending"] ELSE mem.ex[t]
      BY <1>0, <2>1 DEF Retried, Status
    <3>3. [mem.ex[t] EXCEPT !.state = "Pending"].state = "Pending"
      BY <3>1 DEF ExecStatus
    <3> QED
      BY <3>2, <3>3
  <2>5. GoesOn
    BY <2>3, <2>4 DEF GoesOn, Done
  <2>6. JobsGrow
    BY <2>2, MoveStays DEF JobsMove, IInv, JobsStay, JobsGrow
  <2>7. mem = n
    BY <1>a, <2>1
  <2> QED
    BY <1>e, <1>f, <2>1, <2>5, <2>6, <2>7 DEF HandlerStep
<1>10. CASE ExecuteDispatch
  <2>1. /\ ExecutionStep /\ UNCHANGED db
        /\ ExecuteForStage(mem.stage, MemObserved, QueueObserved)
    BY <1>10 DEF ExecuteDispatch
  <2>2. mem.op \in Ops /\ mem.stage \in 1 .. Len(Stages[mem.op])
    BY <2>1, ExecutionStepFacts
  <2>3. /\ SameRun(mem', MemObserved) /\ mem'.stage = MemObserved.stage
        /\ sendq' = QueueObserved \/ sendq' = Enqueue(QueueObserved, mem')
    BY <1>b, <1>c, <1>d, <1>u, <2>1, StageRun
  <2>4. HandlerStep /\ GoesOn
    BY <1>b, <1>c, <1>d, <1>u, <2>1, <2>2, DispatchRun DEF SameRun
  <2>5. MemObserved \in Sendable
    BY <1>b, <2>3 DEF Sendable, SameRun
  <2>6. ASSUME sendq = <<>> PROVE Sends
    <3>1. \A i \in 1 .. Len(QueueObserved) : QueueObserved[i] \in Sendable
      BY <1>c, <1>d, <2>1, <2>5, <2>6, SendsObserved
    <3>2. \A i \in 1 .. Len(Enqueue(QueueObserved, mem')) : Enqueue(QueueObserved, mem')[i] \in Sendable
      BY <1>b, <1>e, <3>1, SendsMore
    <3> QED
      BY <2>3, <3>1, <3>2 DEF Sends
  <2> QED
    BY <2>4, <2>6
<1>11. CASE ExecuteAdvance
  <2> DEFINE next == mem.stage + 1
  <2> DEFINE m == [MemObserved EXCEPT !.stage = next]
  <2> DEFINE q == Enqueue(QueueObserved, m)
  <2>1. /\ ExecutionStep /\ ~LastStage /\ UNCHANGED db
        /\ StageTerminal /\ ~StageFailed
        /\ ExecuteForStage(next, m, Enqueue(QueueObserved, [Newest(QueueObserved) EXCEPT !.stage = next]))
    BY <1>11 DEF ExecuteAdvance
  <2>2. /\ mem.op \in Ops /\ next \in Nat \ {0} /\ next \in 1 .. Len(Stages[mem.op])
        /\ next <= Len(Stages[mem.op]) /\ mem.stage \in 1 .. Len(Stages[mem.op])
    BY <2>1, ExecutionStepFacts DEF LastStage
  <2>3. ExecuteForStage(next, m, q)
    BY <1>c, <1>d, <2>1
  <2>4. /\ m \in Status /\ m.stage = next /\ m.op = mem.op
        /\ SameRun(m, MemObserved)
    BY <1>b, <2>2 DEF SameRun, Status
  <2> HIDE DEF m
  <2>5. StageInRange(m)
    <3>1. m.op # ""
      BY <2>2, <2>4 DEF Ops
    <3> QED
      BY <2>2, <2>4, <3>1 DEF StageInRange
  <2>6. QueueOK(q) /\ m = Newest(q)
    BY <1>b, <2>4, <2>5, EnqueueOK
  <2>7. \A t \in Stages[mem.op][mem.stage].targets : ObservedEx[t].state = "Completed"
    BY <2>1 DEF StageTerminal, StageFailed, StageAt, Terminal
  <2> HIDE DEF q
  <2>8. /\ SameRun(mem', m) /\ mem'.stage = next
        /\ sendq' = q \/ sendq' = Enqueue(q, mem')
    BY <1>u, <2>3, <2>4, <2>6, StageRun
  <2>9. HandlerStep /\ GoesOn
    BY <1>u, <2>1, <2>2, <2>3, <2>4, <2>6, <2>7, DispatchRun
  <2>10. MemObserved \in Sendable /\ m \in Sendable
    BY <1>b, <2>4, <2>8, <2>9 DEF Sendable, SameRun
  <2>11. ASSUME sendq = <<>> PROVE Sends
    <3>1. \A i \in 1 .. Len(QueueObserved) : QueueObserved[i] \in Sendable
      BY <1>c, <1>d, <2>1, <2>10, <2>11, SendsObserved
    <3>2. \A i \in 1 .. Len(q) : q[i] \in Sendable
      BY <1>b, <2>10, <3>1, SendsMore DEF q
    <3>3. \A i \in 1 .. Len(Enqueue(q, mem')) : Enqueue(q, mem')[i] \in Sendable
      BY <1>e, <2>6, <3>2, SendsMore
    <3> QED
      BY <2>8, <3>2, <3>3 DEF Sends
  <2> QED
    BY <2>9, <2>11
<1> QED
  BY <1>1, <1>2, <1>3, <1>4, <1>5, <1>6, <1>7, <1>8, <1>9, <1>10, <1>11
  DEF Handle, Idle, Execute, Suspension, Recovery

\* A run that goes on stays gated, and so does everything it sends.
LEMMA StaysGated ==
  ASSUME IInv, IInv', Gated(mem), Begins \/ GoesOn
  PROVE  Gated(mem') /\ \A s \in Sendable : Gated(s)
<1>0. mem \in Status /\ StageInRange(mem) /\ mem' \in Status
  BY DEF IInv, StatusInv
<1>1. ASSUME NEW s \in Status, s.stage = 1 PROVE Gated(s)
  BY <1>1 DEF Gated
<1>2. ASSUME GoesOn, NEW s \in Status, SameRun(s, mem'), s.stage = mem.stage PROVE Gated(s)
  <2>1. /\ s.op = mem.op
        /\ \A t \in Targets : mem.ex[t].state = "Completed" => s.ex[t].state = "Completed"
    BY <1>2 DEF GoesOn, SameRun
  <2>2. ASSUME s.op \in Ops, NEW k \in 1 .. s.stage - 1, NEW t \in Stages[s.op][k].targets
        PROVE  s.ex[t].state = "Completed"
    <3>1. mem.op \in Ops /\ mem.stage <= Len(Stages[mem.op]) /\ mem.stage \in Nat
      BY <1>0, <2>1, <2>2 DEF StageInRange, Status, Ops
    <3>2. Len(Stages[mem.op]) \in Nat
      BY <3>1, StagesAssumption, LenProperties
    <3>3. k \in 1 .. Len(Stages[mem.op]) /\ k \in 1 .. mem.stage - 1
      BY <1>2, <2>2, <3>1, <3>2
    <3>4. t \in Targets
      BY <2>1, <2>2, <3>1, <3>3, StageTargets
    <3> QED
      BY <2>1, <2>2, <3>1, <3>3, <3>4 DEF Gated
  <2> QED
    BY <2>2 DEF Gated
<1>3. ASSUME GoesOn, NEW s \in Status, SameRun(s, mem'), s.stage = mem.stage + 1,
             \A t \in Stages[mem.op][mem.stage].targets : mem'.ex[t].state = "Completed"
      PROVE  Gated(s)
  <2> DEFINE r == [s EXCEPT !.stage = mem.stage]
  <2>1. /\ r \in Status /\ SameRun(r, mem') /\ r.stage = mem.stage
        /\ r.op = s.op /\ r.ex = s.ex /\ mem.stage \in Nat \ {0}
    BY <1>0, <1>3 DEF Status, SameRun
  <2> HIDE DEF r
  <2>2. Gated(r)
    BY <1>2, <1>3, <2>1
  <2>3. s.op = mem.op /\ s.ex = mem'.ex
    BY <1>3 DEF GoesOn, SameRun
  <2>4. ASSUME s.op \in Ops, NEW k \in 1 .. s.stage - 1, NEW t \in Stages[s.op][k].targets
        PROVE  s.ex[t].state = "Completed"
    <3>1. k \in 1 .. mem.stage - 1 \/ k = mem.stage
      BY <1>3, <2>1, <2>4
    <3> QED
      BY <1>3, <2>1, <2>2, <2>3, <2>4, <3>1 DEF Gated
  <2> QED
    BY <2>4 DEF Gated
<1>4. SameRun(mem', mem')
  BY DEF SameRun
<1>5. ASSUME NEW s \in Status, SameRun(s, mem'), s.stage = mem'.stage PROVE Gated(s)
  BY <1>1, <1>2, <1>3, <1>5 DEF Begins, GoesOn
<1>6. ASSUME NEW s \in Sendable PROVE Gated(s)
  BY <1>2, <1>5 DEF Sendable
<1> QED
  BY <1>0, <1>4, <1>5, <1>6

\* Completed executions keep their done Jobs while Jobs move and are created.
LEMMA StaysDone ==
  ASSUME JobsGrow, NEW x, Done(x),
         x.op = mem.op /\ x.cycle = mem.cycle =>
           \A t \in Targets : x.ex[t].state = "Completed" => mem.ex[t].state = "Completed",
         NEW t \in Targets, x.ex[t].state = "Completed",
         NEW j \in jobs', j.t = t, j.cyc = x.cycle, j.op = x.op, ~j.stale
  PROVE  j.st = "done"
BY DEF JobsGrow, Continues, Done, JobsOf

\* The same for memory after a handler.
LEMMA HandlerDone ==
  ASSUME IInv, Done(mem), HandlerStep
  PROVE  Done(mem)'
<1> SUFFICES ASSUME NEW t \in Targets, mem'.ex[t].state = "Completed",
                    NEW j \in jobs', j.t = t, j.cyc = mem'.cycle, j.op = mem'.op, ~j.stale
             PROVE  j.st = "done"
  BY DEF Done, JobsOf
<1>1. GoesOn /\ JobsGrow
  BY DEF HandlerStep, Begins
<1> QED
  BY <1>1 DEF GoesOn, JobsGrow, Continues, JobsOf

\* Every handler waits for the queue to be as short as QueueBound.
LEMMA HandlersAwake ==
  ASSUME Handle \/ DrainTimeout \/ TransientError
  PROVE  Awake
BY DEF Handle, Idle, Execute, Suspension, Recovery, LifecycleInit, TransitionToHibernating,
  TransitionToWakingUp, IdleStay, OperationMismatch, ExecuteStageError, ExecuteAdvance,
  ExecuteDispatch, ExecuteWait, ExecuteFinalize, ExecutionStep, AwaitExecutionDrain,
  PreSuspension, SuspendedStay, Resume, ForceWakeUpOnResume, RecoveryBackoff, Retry,
  ManualRetry, ManualRetryFails, RecoveryAborted, DrainTimeout, TransientError, Selected

\* Every step keeps the stages in their order.
LEMMA NextGate ==
  IInv /\ IInv' /\ TailInv /\ UniqueCurrentJob /\ GateInv /\ [Next]_vars => GateInv'
<1> SUFFICES ASSUME IInv, IInv', TailInv, UniqueCurrentJob, GateInv, [Next]_vars,
                    Mode = "Strict", Prompt \/ used'["crash"] = 0
             PROVE  /\ Gated(mem') /\ Done(mem)'
                    /\ Prompt => /\ Gated(db') /\ Done(db)'
                                 /\ \A i \in 1 .. Len(sendq') :
                                      Gated(sendq'[i]) /\ SameRun(sendq'[i], mem')
  BY DEF GateInv, Gated, SameRun
<1> DEFINE Goal == /\ Gated(mem') /\ Done(mem)'
                   /\ Prompt => /\ Gated(db') /\ Done(db)'
                                /\ \A i \in 1 .. Len(sendq') :
                                     Gated(sendq'[i]) /\ SameRun(sendq'[i], mem')
<1>0. /\ mem \in Status /\ db \in Status /\ QueueOK(sendq) /\ sendq \in Seq(Status)
      /\ Len(sendq) \in Nat
      /\ Newest(sendq) \in Status /\ Agree(mem, Newest(sendq))
  BY NewestOK, LenProperties DEF IInv, StatusInv, QueueOK
<1>1. Gated(mem) /\ Done(mem) /\ (Prompt \/ used["crash"] = 0)
  <2>1. "crash" \in Events
    BY DEF Events
  <2>2. used'["crash"] = 0 => used["crash"] = 0
    BY <2>1, NeverUncounted
  <2> QED
    BY <2>2 DEF GateInv
<1>2. Prompt => /\ Gated(db) /\ Done(db)
                /\ \A i \in 1 .. Len(sendq) : Gated(sendq[i]) /\ SameRun(sendq[i], mem)
  BY DEF GateInv
<1>3. ASSUME sendq = <<>>
      PROVE  SameRun(mem, db) /\ mem.stage = db.stage
  <2>1. Newest(sendq) = db
    BY <1>3 DEF Newest
  <2> QED
    BY <1>0, <2>1 DEF TailInv, Diverges, Unpruned, WithPhase, SameRun, Agree, Status
<1>4. CASE Handle \/ DrainTimeout \/ TransientError
  <2>1. HandlerStep /\ (sendq = <<>> => Sends)
    BY <1>1, <1>4, HandleRun
  <2>2. (Begins \/ GoesOn) /\ JobsGrow /\ UNCHANGED db
    BY <2>1 DEF HandlerStep
  <2>3. Gated(mem') /\ \A s \in Sendable : Gated(s)
    BY <1>1, <2>2, StaysGated
  <2>4. Done(mem)'
    BY <1>1, <2>1, HandlerDone
  <2>5. ASSUME Prompt
        PROVE  /\ Gated(db') /\ Done(db)'
               /\ \A i \in 1 .. Len(sendq') : Gated(sendq'[i]) /\ SameRun(sendq'[i], mem')
    <3>1. sendq = <<>>
      <4>1. Len(sendq) <= 0
        BY <1>4, <2>5, HandlersAwake DEF Awake, Prompt
      <4> QED
        BY <1>0, <4>1, EmptySeq
    <3>2. Sends
      BY <2>1, <3>1
    <3>3. SameRun(mem, db)
      BY <1>3, <3>1
    <3>4. Done(db)'
      <4> SUFFICES ASSUME NEW t \in Targets, db.ex[t].state = "Completed",
                          NEW j \in jobs', j.t = t, j.cyc = db.cycle, j.op = db.op, ~j.stale
                   PROVE  j.st = "done"
        BY <2>2 DEF Done, JobsOf
      <4> QED
        BY <1>2, <2>2, <2>5, <3>3, StaysDone DEF SameRun
    <3>5. \A s \in Sendable : SameRun(s, mem')
      BY DEF Sendable
    <3> QED
      BY <1>2, <2>2, <2>3, <2>5, <3>2, <3>4, <3>5 DEF Sends
  <2> QED
    BY <2>3, <2>4, <2>5
<1>5. ASSUME UNCHANGED <<mem, db, sendq>>, JobsStay PROVE Goal
  <2>1. Done(mem)'
    <3> SUFFICES ASSUME NEW t \in Targets, mem.ex[t].state = "Completed",
                        NEW j \in jobs', j.t = t, j.cyc = mem.cycle, j.op = mem.op, ~j.stale
                 PROVE  j.st = "done"
      BY <1>5 DEF Done, JobsOf
    <3> QED
      BY <1>1, <1>5 DEF JobsStay, Continues, Done, JobsOf
  <2>2. Prompt => Done(db)'
    <3> SUFFICES ASSUME Prompt, NEW t \in Targets, db.ex[t].state = "Completed",
                        NEW j \in jobs', j.t = t, j.cyc = db.cycle, j.op = db.op, ~j.stale
                 PROVE  j.st = "done"
      BY <1>5 DEF Done, JobsOf
    <3> QED
      BY <1>2, <1>5 DEF JobsStay, Continues, Done, JobsOf
  <2> QED
    BY <1>1, <1>2, <1>5, <2>1, <2>2
<1>6. CASE JobStep
  <2>1. JobsStay
    BY <1>6, JobStepIInv, MoveStays DEF IInv
  <2>2. UNCHANGED <<mem, db, sendq>>
    BY <1>6 DEF JobStep, JobStart, JobPodFails, ShutdownSucceeds, WakeupSucceeds, JobFails,
      JobRemoved, MarkJobAsStale
  <2> QED
    BY <1>5, <2>1, <2>2
<1>7. CASE Reconcile \/ Deliver \/ UserSuspend \/ UserRetryNow \/ ScheduleBoundary \/ UNCHANGED vars
  <2>1. UNCHANGED <<mem, db, sendq, jobs>>
    BY <1>7 DEF Reconcile, Deliver, UserSuspend, UserRetryNow, ScheduleBoundary, vars, jobVars
  <2>2. JobsStay
    BY <2>1 DEF JobsStay, Continues
  <2> QED
    BY <1>5, <2>1, <2>2
<1>8. CASE WriteStatus
  <2>1. UNCHANGED <<mem, jobs>> /\ sendq # <<>> /\ sendq' = Tail(sendq)
    BY <1>8 DEF WriteStatus, jobVars
  <2>2. Done(mem)' /\ Gated(mem')
    BY <1>1, <2>1 DEF Done, JobsOf, Gated
  <2>3. ASSUME Prompt
        PROVE  /\ Gated(db') /\ Done(db)'
               /\ \A i \in 1 .. Len(sendq') : Gated(sendq'[i]) /\ SameRun(sendq'[i], mem')
    <3>1. PICK i \in 1 .. Len(sendq) : db' = [Head(sendq) EXCEPT !.ex = sendq[i].ex]
      BY <1>8 DEF WriteStatus
    <3>2. /\ Head(sendq) = sendq[1] /\ 1 \in 1 .. Len(sendq)
          /\ Len(Tail(sendq)) = Len(sendq) - 1
          /\ \A k \in 1 .. Len(Tail(sendq)) : Tail(sendq)[k] = sendq[k + 1]
      BY <1>0, <2>1, EmptySeq, LenProperties, HeadTailProperties
    <3>3. /\ sendq[1] \in Status /\ Gated(sendq[1]) /\ SameRun(sendq[1], mem)
          /\ SameRun(sendq[i], mem)
      BY <1>0, <1>2, <2>3, <3>2 DEF QueueOK
    <3>4. SameRun(db', mem) /\ db'.stage = sendq[1].stage /\ db'.op = sendq[1].op
          /\ db'.ex = sendq[1].ex
      BY <3>1, <3>2, <3>3 DEF SameRun, Status
    <3>5. Gated(db')
      BY <3>3, <3>4 DEF Gated
    <3>6. Done(db)'
      <4> SUFFICES ASSUME NEW t \in Targets, db'.ex[t].state = "Completed",
                          NEW j \in jobs, j.t = t, j.cyc = db'.cycle, j.op = db'.op, ~j.stale
                   PROVE  j.st = "done"
        BY <2>1 DEF Done, JobsOf
      <4> QED
        BY <1>1, <3>4 DEF Done, JobsOf, SameRun
    <3>7. ASSUME NEW k \in 1 .. Len(sendq')
          PROVE  Gated(sendq'[k]) /\ SameRun(sendq'[k], mem')
      <4>1. k + 1 \in 1 .. Len(sendq) /\ sendq'[k] = sendq[k + 1]
        BY <1>0, <2>1, <3>2
      <4> QED
        BY <1>2, <2>1, <2>3, <4>1
    <3> QED
      BY <3>5, <3>6, <3>7
  <2> QED
    BY <2>2, <2>3
<1>9. CASE IdleExit \/ Crash
  <2>1. mem' = db /\ db' = db /\ sendq' = <<>> /\ jobs' = jobs
    BY <1>9 DEF IdleExit, Crash, Forget, jobVars
  <2>2. Crash => Prompt
    <3>1. ASSUME Crash PROVE used'["crash"] # 0
      <4>1. used \in [Events -> Nat] /\ "crash" \in Events
        BY DEF IInv, RestInv, Events
      <4>2. used'["crash"] = used["crash"] + 1 /\ used["crash"] \in Nat
        BY <3>1, <4>1 DEF Crash, Count
      <4> QED
        BY <4>2
    <3> QED
      BY <3>1
  <2>3. Gated(db) /\ Done(db)
    <3>1. CASE Prompt
      BY <1>2, <3>1
    <3>2. CASE IdleExit
      <4>1. SameRun(mem, db) /\ mem.stage = db.stage
        BY <1>3, <3>2 DEF IdleExit
      <4> QED
        BY <1>1, <4>1 DEF Gated, Done, JobsOf, SameRun
    <3> QED
      BY <1>9, <2>2, <3>1, <3>2
  <2>4. Gated(mem') /\ Done(mem)' /\ Gated(db') /\ Done(db)'
    BY <2>1, <2>3 DEF Gated, Done, JobsOf
  <2>5. \A i \in 1 .. Len(sendq') : FALSE
    BY <2>1
  <2> QED
    BY <2>4, <2>5
<1> QED
  BY <1>4, <1>6, <1>7, <1>8, <1>9 DEF Next, Outside

\* The inductive invariant of the stages.
THEOREM GateInvariant == Spec => []GateInv
<1>1. Init => GateInv
  <2> SUFFICES ASSUME Init PROVE GateInv
    OBVIOUS
  <2>1. mem.op = "" /\ db = mem /\ jobs = {}
    BY DEF Init
  <2>2. Len(sendq) = 0
    BY DEF Init
  <2>3. Gated(mem) /\ Done(mem)
    BY <2>1 DEF Gated, Done, JobsOf, Ops
  <2>4. \A i \in 1 .. Len(sendq) : FALSE
    BY <2>2
  <2> QED
    BY <2>1, <2>3, <2>4 DEF GateInv
<1>2. Init => TailInv
  BY DEF Init, TailInv, Newest
<1>3. Init => UniqueCurrentJob
  BY DEF Init, UniqueCurrentJob
<1> QED
  BY <1>1, <1>2, <1>3, NextGate, NextTail, NextUnique, WorkerInvariant, PTL DEF Spec

\* Under Strict, execute is in a stage only when every target of the stages before
\* it completed: whatever is suspended, retried, lost or labelled, as long as the
\* controller is not restarted; and through any number of restarts as long as the
\* status writer keeps up with the handlers.
THEOREM StageGateHolds == Spec => []StageGate
<1>1. GateInv => StageGate
  BY DEF GateInv, Prompt, Gated, StageGate, Handles
<1> QED
  BY <1>1, GateInvariant, PTL

=============================================================================
