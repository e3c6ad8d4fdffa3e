------------------------ MODULE PlanRefinementProofs ------------------------
(***************************************************************************)
(* PlanWorker implements PlanLifecycle, for every set of targets, every    *)
(* execution plan and every number of faults; and what the refinement and  *)
(* the invariants of PlanWorkerProofs say of the runners at work.          *)
(*                                                                         *)
(* The mapping forgets the executions, so a step is a handler call that    *)
(* extends the queue (Grows), a write, a restart or a stutter.  What a     *)
(* handler sends it computes from the newest queued status, what it does   *)
(* to memory from memory: they agree because PhaseInv adds the phase to    *)
(* what StatusInv says of the two, under an override too.                  *)
(*                                                                         *)
(* The later sections are about Jobs.  Only a Job that is over is taken    *)
(* for failed or labelled stale (LabelsInv), so a running one stays in     *)
(* sight of the handlers; hence all of them work for the stage memory is   *)
(* in (RunInv), and a shutdown's behind completed targets only             *)
(* (ShutdownInv).  A suspension, a restart and a pod that its Job replaces *)
(* end that; Steady names the runs without them.  While no runner fails    *)
(* either (Smooth), every completed execution is followed from the Job to  *)
(* the resource and the restore data (RealInv), and as long as no retry    *)
(* is needed (Gentle), the runners at work are in stages, suspended or not *)
(* (DrainInv).                                                             *)
(***************************************************************************)
EXTENDS PlanWorkerProofs, PlanRefinement

\* The theorems about the lifecycle, under the same mapping.
Proved == INSTANCE PlanLifecycleProofs WITH
  StageCount <- [op \in Ops |-> Len(Stages[op])],
  current <- Abs(mem), pending <- AbsQueue(sendq), durable <- Abs(db)

\* Memory and the newest status agree on the phase; only forceWakeUpOnResume
\* runs ahead.
PhaseInv ==
  \/ mem.phase = Newest(sendq).phase
  \/ mem.phase = "Hibernated" /\ Newest(sendq).phase = "Suspended"

\* q extends the queue by statuses the handler reached from memory, in order.
Grows(q) ==
  /\ QueueOK(q) /\ Len(q) >= Len(sendq)
  /\ \A i \in 1 .. Len(sendq) : q[i] = sendq[i]
  /\ \A i \in Len(sendq) + 1 .. Len(q) :
       /\ Lifecycle!Reaches(Abs(mem), Abs(q[i]))
       /\ Lifecycle!Follows(IF i = 1 THEN Abs(db) ELSE Abs(q[i - 1]), Abs(q[i]))

-----------------------------------------------------------------------------
(* The mapping *)

\* Statuses that differ in their executions only are the same to the lifecycle.
LEMMA AbsAgree ==
  ASSUME NEW r, NEW s, Agree(r, s), r.phase = s.phase
  PROVE  Abs(r) = Abs(s)
BY DEF Abs, Agree

\* A change of phase is seen through the mapping.
LEMMA AbsWithPhase ==
  ASSUME NEW s \in Status, NEW ph
  PROVE  Abs(WithPhase(s, ph)) = [Abs(s) EXCEPT !.phase = ph]
<1> DEFINE w == WithPhase(s, ph)
<1>1. /\ w.phase = ph /\ w.op = s.op /\ w.cycle = s.cycle /\ w.stage = s.stage
      /\ w.retry = s.retry
  BY DEF WithPhase, Status
<1> HIDE DEF w
<1>2. Abs(w) = [phase |-> ph, op |-> s.op, cycle |-> s.cycle, stage |-> s.stage,
                retry |-> s.retry]
  BY <1>1 DEF Abs
<1>3. [Abs(s) EXCEPT !.phase = ph] =
        [phase |-> ph, op |-> s.op, cycle |-> s.cycle, stage |-> s.stage, retry |-> s.retry]
  BY DEF Abs
<1> QED
  BY <1>2, <1>3 DEF w

\* So is a change of the stage,
LEMMA AbsWithStage ==
  ASSUME NEW s \in Status, NEW n
  PROVE  Abs([s EXCEPT !.stage = n]) = [Abs(s) EXCEPT !.stage = n]
<1> DEFINE v == [s EXCEPT !.stage = n]
<1>1. /\ v.phase = s.phase /\ v.op = s.op /\ v.cycle = s.cycle /\ v.stage = n
      /\ v.retry = s.retry
  BY DEF Status
<1> HIDE DEF v
<1>2. Abs(v) = [Abs(s) EXCEPT !.stage = n]
  BY <1>1 DEF Abs
<1> QED
  BY <1>2 DEF v

Recounted(s, ph, n) == [s EXCEPT !.phase = ph, !.retry = n]

\* and a change of the phase and the retry count.
LEMMA AbsRecounted ==
  ASSUME NEW s \in Status, NEW ph, NEW n
  PROVE  Abs(Recounted(s, ph, n)) = Recounted(Abs(s), ph, n)
<1> DEFINE v == [s EXCEPT !.phase = ph, !.retry = n]
<1> DEFINE r == [phase |-> ph, op |-> s.op, cycle |-> s.cycle, stage |-> s.stage, retry |-> n]
<1>1. /\ v.phase = ph /\ v.op = s.op /\ v.cycle = s.cycle /\ v.stage = s.stage
      /\ v.retry = n
  BY DEF Status
<1> HIDE DEF v
<1>2. Abs(v) = r
  BY <1>1 DEF Abs
<1> DEFINE p == [phase |-> ph, op |-> s.op, cycle |-> s.cycle, stage |-> s.stage,
                 retry |-> s.retry]
<1>3. [Abs(s) EXCEPT !.phase = ph] = p
  BY DEF Abs
<1>4. [p EXCEPT !.retry = n] = r
  OBVIOUS
<1>5. [Abs(s) EXCEPT !.phase = ph, !.retry = n] = [[Abs(s) EXCEPT !.phase = ph] EXCEPT !.retry = n]
  OBVIOUS
<1> HIDE DEF p, r
<1>6. [Abs(s) EXCEPT !.phase = ph, !.retry = n] = r
  BY <1>3, <1>4, <1>5
<1> QED
  BY <1>2, <1>6 DEF v, Recounted

\* A pruned target is not.
LEMMA AbsPruned ==
  ASSUME NEW s \in Status, NEW U
  PROVE  Abs(Pruned(s, U)) = Abs(s)
<1>1. Pruned(s, U).phase = s.phase
  BY DEF Pruned, Status
<1> QED
  BY <1>1, PrunedOK, AbsAgree

\* The mapping of a status is a status of the lifecycle.
LEMMA AbsType == ASSUME NEW s \in Status PROVE Abs(s) \in Lifecycle!Status
BY DEF Abs, Status, Lifecycle!Status, Phases, Ops, Lifecycle!Phases, Lifecycle!Ops

\* And so is that of a queue.
LEMMA AbsQueueType ==
  ASSUME NEW q, QueueOK(q)
  PROVE  /\ AbsQueue(q) \in Seq(Lifecycle!Status) /\ Len(AbsQueue(q)) = Len(q)
         /\ Len(q) \in Nat
         /\ \A i \in 1 .. Len(q) : q[i] \in Status /\ AbsQueue(q)[i] = Abs(q[i])
<1>1. q \in Seq(Status) /\ Len(q) \in Nat
  BY LenProperties DEF QueueOK
<1>2. \A i \in 1 .. Len(q) : q[i] \in Status
  BY <1>1, ElementOfSeq
<1>3. \A i \in 1 .. Len(q) : Abs(q[i]) \in Lifecycle!Status
  BY <1>2, AbsType
<1> DEFINE S == Lifecycle!Status
<1> DEFINE A == AbsQueue(q)
<1>4. A \in [1 .. Len(q) -> S] /\ \A i \in 1 .. Len(q) : A[i] = Abs(q[i])
  BY <1>3 DEF AbsQueue
<1> HIDE DEF S, A
<1>5. A \in Seq(S)
  BY <1>1, <1>4, SeqDef
<1>6. Len(A) = Len(q)
  BY <1>1, <1>4, <1>5, LenProperties
<1> QED
  BY <1>1, <1>2, <1>4, <1>5, <1>6 DEF S, A

\* The end of the line is the newest status: d persisted, q queued.
LEMMA AbsLatest ==
  ASSUME NEW q, QueueOK(q), NEW d
  PROVE  (IF Len(AbsQueue(q)) = 0 THEN Abs(d) ELSE AbsQueue(q)[Len(AbsQueue(q))]) =
           Abs(IF q = <<>> THEN d ELSE q[Len(q)])
<1>1. /\ Len(AbsQueue(q)) = Len(q) /\ Len(q) \in Nat
      /\ \A i \in 1 .. Len(q) : AbsQueue(q)[i] = Abs(q[i])
  BY AbsQueueType
<1>2. q = <<>> <=> Len(q) = 0
  BY EmptySeq DEF QueueOK
<1>3. CASE Len(q) = 0
  BY <1>1, <1>2, <1>3
<1>4. CASE Len(q) # 0
  <2>1. Len(q) \in 1 .. Len(q)
    BY <1>1, <1>4
  <2> QED
    BY <1>1, <1>2, <1>4, <2>1
<1> QED
  BY <1>3, <1>4

-----------------------------------------------------------------------------
(* Handlers extend the queue *)

\* What every handler starts from.
LEMMA Facts ==
  ASSUME IInv
  PROVE  /\ mem \in Status /\ StageInRange(mem) /\ QueueOK(sendq)
         /\ Newest(sendq) \in Status /\ StageInRange(Newest(sendq))
         /\ Agree(mem, Newest(sendq))
BY NewestOK DEF IInv, StatusInv

\* A handler starts with the queue as it is.
LEMMA GrowsRefl == ASSUME IInv PROVE Grows(sendq)
<1>1. QueueOK(sendq) /\ Len(sendq) \in Nat
  BY Facts, AbsQueueType
<1> QED
  BY <1>1 DEF Grows

\* A Send extends the queue by one status, or leaves it.
LEMMA GrowsEnqueue ==
  ASSUME IInv, NEW q, Grows(q), NEW s \in Status, StageInRange(s),
         Lifecycle!Reaches(Abs(mem), Abs(s)), Lifecycle!Follows(Abs(Newest(q)), Abs(s))
  PROVE  Grows(Enqueue(q, s)) /\ Newest(Enqueue(q, s)) = s
<1>0. QueueOK(q) /\ QueueOK(Enqueue(q, s)) /\ Newest(Enqueue(q, s)) = s
  BY EnqueueOK DEF Grows
<1>1. CASE s = Newest(q)
  BY <1>0, <1>1 DEF Enqueue
<1>2. CASE s # Newest(q)
  <2> DEFINE p == Append(q, s)
  <2>1. Enqueue(q, s) = p
    BY <1>2 DEF Enqueue
  <2>2. /\ Len(q) \in Nat /\ Len(sendq) \in Nat /\ Len(q) >= Len(sendq)
        /\ Len(p) = Len(q) + 1 /\ p[Len(q) + 1] = s
        /\ \A i \in 1 .. Len(q) : p[i] = q[i]
    BY <1>0, Facts, AbsQueueType, AppendProperties DEF QueueOK, Grows
  <2> HIDE DEF p
  <2>3. \A i \in 1 .. Len(sendq) : p[i] = sendq[i]
    BY <2>2 DEF Grows
  <2>4. ASSUME NEW i \in Len(sendq) + 1 .. Len(p)
        PROVE  /\ Lifecycle!Reaches(Abs(mem), Abs(p[i]))
               /\ Lifecycle!Follows(IF i = 1 THEN Abs(db) ELSE Abs(p[i - 1]), Abs(p[i]))
    <3>1. CASE i <= Len(q)
      <4>1. i \in Len(sendq) + 1 .. Len(q) /\ i \in 1 .. Len(q) /\ (i # 1 => i - 1 \in 1 .. Len(q))
        BY <2>2, <3>1
      <4>2. p[i] = q[i] /\ (i # 1 => p[i - 1] = q[i - 1])
        BY <2>2, <4>1
      <4>3. /\ Lifecycle!Reaches(Abs(mem), Abs(q[i]))
            /\ Lifecycle!Follows(IF i = 1 THEN Abs(db) ELSE Abs(q[i - 1]), Abs(q[i]))
        BY <4>1 DEF Grows
      <4> QED
        BY <4>2, <4>3
    <3>2. CASE i > Len(q)
      <4>1. i = Len(q) + 1 /\ i - 1 = Len(q) /\ (i = 1 <=> Len(q) = 0)
        BY <2>2, <3>2
      <4>2. (IF i = 1 THEN Abs(db) ELSE Abs(p[i - 1])) = Abs(Newest(q))
        <5>1. q = <<>> <=> Len(q) = 0
          BY <1>0, EmptySeq DEF QueueOK
        <5>2. CASE Len(q) = 0
          BY <4>1, <5>1, <5>2 DEF Newest
        <5>3. CASE Len(q) # 0
          <6>1. Len(q) \in 1 .. Len(q)
            BY <2>2, <5>3
          <6>2. p[Len(q)] = q[Len(q)]
            BY <2>2, <6>1
          <6> QED
            BY <4>1, <5>1, <5>3, <6>2 DEF Newest
        <5> QED
          BY <5>2, <5>3
      <4>3. p[i] = s
        BY <2>2, <4>1
      <4> QED
        BY <4>2, <4>3
    <3> QED
      BY <2>2, <3>1, <3>2
  <2>5. Len(p) >= Len(sendq)
    BY <2>2
  <2> QED
    BY <1>0, <2>1, <2>3, <2>4, <2>5 DEF Grows
<1> QED
  BY <1>1, <1>2

\* A handler that ends with memory and the end of the queue alike makes one
\* step of the lifecycle.
LEMMA SendStep ==
  ASSUME IInv, IInv', UNCHANGED db, Grows(sendq'), Lifecycle!Reaches(Abs(mem), Abs(mem')),
         Abs(Newest(sendq)') = Abs(mem')
  PROVE  Lifecycle!Send
<1>1. QueueOK(sendq) /\ QueueOK(sendq')
  BY DEF IInv, StatusInv, QueueOK, StageInRange
<1>2. /\ AbsQueue(sendq)' = AbsQueue(sendq')
      /\ AbsQueue(sendq') \in Seq(Lifecycle!Status) /\ Len(AbsQueue(sendq')) = Len(sendq')
      /\ Len(AbsQueue(sendq)) = Len(sendq) /\ Len(sendq) \in Nat /\ Len(sendq') \in Nat
      /\ \A i \in 1 .. Len(sendq) : AbsQueue(sendq)[i] = Abs(sendq[i])
      /\ \A i \in 1 .. Len(sendq') : AbsQueue(sendq')[i] = Abs(sendq'[i])
  BY <1>1, AbsQueueType DEF AbsQueue
<1>3. Len(sendq') >= Len(sendq) /\ \A i \in 1 .. Len(sendq) : sendq'[i] = sendq[i]
  BY DEF Grows
<1>4. \A i \in 1 .. Len(sendq) : AbsQueue(sendq')[i] = AbsQueue(sendq)[i]
  BY <1>2, <1>3
<1>5. ASSUME NEW i \in Len(sendq) + 1 .. Len(sendq')
      PROVE  /\ Lifecycle!Reaches(Abs(mem), AbsQueue(sendq')[i])
             /\ Lifecycle!Follows(Lifecycle!At(i - 1)', AbsQueue(sendq')[i])
  <2>1. i \in 1 .. Len(sendq') /\ (i # 1 => i - 1 \in 1 .. Len(sendq')) /\ (i - 1 = 0 <=> i = 1)
    BY <1>2
  <2>2. Lifecycle!At(i - 1)' = IF i = 1 THEN Abs(db) ELSE Abs(sendq'[i - 1])
    BY <1>2, <2>1 DEF Lifecycle!At
  <2>3. /\ Lifecycle!Reaches(Abs(mem), Abs(sendq'[i]))
        /\ Lifecycle!Follows(IF i = 1 THEN Abs(db) ELSE Abs(sendq'[i - 1]), Abs(sendq'[i]))
    BY DEF Grows
  <2> QED
    BY <1>2, <2>1, <2>2, <2>3
<1>6. Lifecycle!Latest' = Abs(mem')
  <2>1. (IF Len(AbsQueue(sendq')) = 0 THEN Abs(db')
         ELSE AbsQueue(sendq')[Len(AbsQueue(sendq'))]) =
           Abs(IF sendq' = <<>> THEN db' ELSE sendq'[Len(sendq')])
    BY <1>1, AbsLatest
  <2>2. Newest(sendq)' = IF sendq' = <<>> THEN db' ELSE sendq'[Len(sendq')]
    BY DEF Newest
  <2> QED
    BY <1>2, <2>1, <2>2 DEF Lifecycle!Latest, Lifecycle!At
<1> QED
  BY <1>2, <1>3, <1>4, <1>5, <1>6 DEF Lifecycle!Send

-----------------------------------------------------------------------------
(* One Send per handler *)

\* An edge from memory is one for a reader of the queue.
LEMMA EdgeFollows ==
  ASSUME IInv, PhaseInv, NEW t, Lifecycle!Edge(Abs(mem), t)
  PROVE  /\ Lifecycle!Follows(Abs(Newest(sendq)), t)
         /\ Lifecycle!Reaches(Abs(mem), t)
<1>1. CASE mem.phase = Newest(sendq).phase
  BY <1>1, Facts, AbsAgree DEF Lifecycle!Follows, Lifecycle!Reaches
<1>2. CASE mem.phase = "Hibernated" /\ Newest(sendq).phase = "Suspended"
  <2> DEFINE n == Newest(sendq)
  <2>1. [Abs(n) EXCEPT !.phase = "Hibernated"] = Abs(mem) /\ Abs(n).phase = "Suspended"
    BY <1>2, Facts DEF Abs, Agree
  <2> QED
    BY <2>1 DEF Lifecycle!Follows, Lifecycle!Reaches
<1> QED
  BY <1>1, <1>2 DEF PhaseInv

\* The step of a handler: an edge, or a stutter, of the lifecycle, after which
\* memory and the newest status agree.
Sent == Lifecycle!Send /\ Abs(Newest(sendq)') = Abs(mem')

\* A handler that takes an edge and sends what it did.
LEMMA EdgeSend ==
  ASSUME IInv, IInv', PhaseInv, UNCHANGED db, NEW u \in Status, StageInRange(u),
         sendq' = Enqueue(sendq, u), Abs(u) = Abs(mem'), Lifecycle!Edge(Abs(mem), Abs(mem'))
  PROVE  Sent
<1>1. /\ Lifecycle!Follows(Abs(Newest(sendq)), Abs(u)) /\ Lifecycle!Reaches(Abs(mem), Abs(u))
  BY EdgeFollows
<1>2. Grows(sendq') /\ Newest(sendq') = u
  BY <1>1, GrowsRefl, GrowsEnqueue
<1>3. Newest(sendq)' = u
  BY <1>2 DEF Newest
<1> QED
  BY <1>1, <1>2, <1>3, SendStep DEF Sent

\* An observation changes the executions only.
LEMMA ObservedGrows ==
  ASSUME IInv, PhaseInv, Executing(mem)
  PROVE  /\ MemObserved \in Status /\ Abs(MemObserved) = Abs(mem)
         /\ Grows(QueueObserved)
         /\ Newest(QueueObserved) \in Status /\ StageInRange(Newest(QueueObserved))
         /\ Abs(Newest(QueueObserved)) = Abs(mem)
<1> DEFINE n == Newest(sendq)
<1> DEFINE o == [n EXCEPT !.ex = ObservedEx]
<1>1. /\ MemObserved \in Status /\ Agree(MemObserved, mem) /\ QueueOK(QueueObserved)
      /\ Newest(QueueObserved) \in Status /\ StageInRange(Newest(QueueObserved))
      /\ ObservedEx \in [Targets -> ExecStatus]
  BY ObservationOK, ObservedOK DEF IInv
<1>2. Abs(MemObserved) = Abs(mem)
  <2>1. MemObserved.phase = mem.phase
    BY Facts DEF MemObserved, Status
  <2> QED
    BY <1>1, <2>1, AbsAgree
<1>3. n \in Status /\ StageInRange(n) /\ Abs(n) = Abs(mem)
  <2>1. mem.phase = n.phase
    BY DEF PhaseInv, Executing
  <2> QED
    BY <2>1, Facts, AbsAgree
<1>4. o \in Status /\ o.phase = n.phase /\ Agree(o, n)
  BY <1>1, <1>3 DEF Status, Agree
<1>5. Abs(o) = Abs(mem) /\ StageInRange(o)
  BY <1>3, <1>4, AbsAgree DEF Agree, StageInRange
<1>6. Lifecycle!Reaches(Abs(mem), Abs(o)) /\ Lifecycle!Follows(Abs(n), Abs(o))
  BY <1>3, <1>5 DEF Lifecycle!Reaches, Lifecycle!Follows
<1>7. QueueObserved = sendq \/ QueueObserved = Enqueue(sendq, o)
  BY DEF QueueObserved
<1> HIDE DEF o
<1>8. Grows(Enqueue(sendq, o)) /\ Newest(Enqueue(sendq, o)) = o
  BY <1>4, <1>5, <1>6, GrowsRefl, GrowsEnqueue
<1> QED
  BY <1>1, <1>2, <1>3, <1>5, <1>7, <1>8, GrowsRefl

\* A handler that observes, takes an edge and sends both.
LEMMA ObservedSend ==
  ASSUME IInv, IInv', PhaseInv, Executing(mem), UNCHANGED db,
         NEW u \in Status, StageInRange(u), sendq' = Enqueue(QueueObserved, u),
         Abs(u) = Abs(mem'), Lifecycle!Edge(Abs(mem), Abs(mem'))
  PROVE  Sent
<1>1. Lifecycle!Follows(Abs(mem), Abs(u)) /\ Lifecycle!Reaches(Abs(mem), Abs(u))
  BY DEF Lifecycle!Follows, Lifecycle!Reaches
<1>2. Grows(sendq') /\ Newest(sendq') = u
  BY <1>1, ObservedGrows, GrowsEnqueue
<1>3. Newest(sendq)' = u
  BY <1>2 DEF Newest
<1> QED
  BY <1>1, <1>2, <1>3, SendStep DEF Sent

\* A handler that observes and does nothing else.
LEMMA ObservedStep ==
  ASSUME IInv, IInv', PhaseInv, Executing(mem), UNCHANGED db,
         mem' = MemObserved, sendq' = QueueObserved
  PROVE  Sent
<1>1. Abs(mem') = Abs(mem) /\ Grows(sendq') /\ Abs(Newest(sendq')) = Abs(mem)
  BY ObservedGrows
<1>2. Newest(sendq)' = Newest(sendq')
  BY DEF Newest
<1>3. Lifecycle!Reaches(Abs(mem), Abs(mem'))
  BY <1>1 DEF Lifecycle!Reaches
<1> QED
  BY <1>1, <1>2, <1>3, SendStep DEF Sent

\* executeForStage, from a status s the queue already ends with: it prunes,
\* which the mapping forgets, or fails.
LEMMA StageSend ==
  ASSUME IInv, IInv', UNCHANGED db, NEW k, NEW s \in Status, NEW q, Grows(q),
         Newest(q) \in Status, StageInRange(Newest(q)), Abs(Newest(q)) = Abs(s),
         Executing(s), Lifecycle!Reaches(Abs(mem), Abs(s)),
         Lifecycle!Reaches(Abs(mem), [Abs(s) EXCEPT !.phase = "Error"]),
         ExecuteForStage(k, s, q)
  PROVE  Sent
<1>1. PICK D \in SUBSET Eligible(k, s.ex), U \in SUBSET Blocked(k, s.ex), failed \in BOOLEAN :
        LET s1 == IF Overridden THEN s ELSE Pruned(s, U)
            q1 == IF U = {} THEN q ELSE Enqueue(q, Pruned(Newest(q), U))
        IN IF failed
           THEN /\ mem' = WithPhase(s1, "Error")
                /\ sendq' = Enqueue(q1, WithPhase(Newest(q1), "Error"))
                /\ Requeue
           ELSE mem' = s1 /\ sendq' = q1 /\ RequeueAfter
  BY DEF ExecuteForStage
<1> DEFINE s1 == IF Overridden THEN s ELSE Pruned(s, U)
<1> DEFINE q1 == IF U = {} THEN q ELSE Enqueue(q, Pruned(Newest(q), U))
<1> DEFINE p == Pruned(Newest(q), U)
<1>2. s1 \in Status /\ Abs(s1) = Abs(s)
  BY PrunedOK, AbsPruned
<1>3. p \in Status /\ Abs(p) = Abs(s) /\ StageInRange(p)
  BY PrunedOK, AbsPruned DEF Agree, StageInRange
<1>4. Lifecycle!Reaches(Abs(mem), Abs(p)) /\ Lifecycle!Follows(Abs(Newest(q)), Abs(p))
  BY <1>3 DEF Lifecycle!Follows
<1> HIDE DEF p
<1>5. Grows(Enqueue(q, p)) /\ Newest(Enqueue(q, p)) = p
  BY <1>3, <1>4, GrowsEnqueue
<1>6. /\ Grows(q1) /\ Newest(q1) \in Status /\ StageInRange(Newest(q1))
      /\ Abs(Newest(q1)) = Abs(s)
  BY <1>3, <1>5 DEF p
<1>7. IF failed
      THEN mem' = WithPhase(s1, "Error") /\ sendq' = Enqueue(q1, WithPhase(Newest(q1), "Error"))
      ELSE mem' = s1 /\ sendq' = q1
  BY <1>1
<1> HIDE DEF s1, q1
<1>8. CASE failed
  <2> DEFINE e == WithPhase(Newest(q1), "Error")
  <2>1. mem' = WithPhase(s1, "Error") /\ sendq' = Enqueue(q1, e)
    BY <1>7, <1>8
  <2>2. e \in Status /\ StageInRange(e)
    BY <1>6, WithPhaseOK DEF Phases, Agree, StageInRange
  <2>3. /\ Abs(e) = [Abs(s) EXCEPT !.phase = "Error"]
        /\ Abs(mem') = [Abs(s) EXCEPT !.phase = "Error"]
    BY <1>2, <1>6, <2>1, AbsWithPhase
  <2>4. Lifecycle!Follows(Abs(Newest(q1)), Abs(e))
    <3>1. Abs(s).phase \in {"Hibernating", "WakingUp"}
      BY DEF Executing, Abs
    <3>2. Lifecycle!Fail(Abs(s), Abs(e))
      BY <2>3, <3>1 DEF Lifecycle!Fail
    <3> QED
      BY <1>6, <3>2 DEF Lifecycle!Follows, Lifecycle!Edge
  <2> HIDE DEF e
  <2>5. Lifecycle!Reaches(Abs(mem), Abs(e)) /\ Lifecycle!Reaches(Abs(mem), Abs(mem'))
    BY <2>3
  <2>6. Grows(sendq') /\ Newest(sendq') = e
    BY <1>6, <2>1, <2>2, <2>4, <2>5, GrowsEnqueue
  <2>7. Newest(sendq)' = e
    BY <2>6 DEF Newest
  <2> QED
    BY <2>3, <2>5, <2>6, <2>7, SendStep DEF Sent
<1>9. CASE ~failed
  <2>1. mem' = s1 /\ sendq' = q1
    BY <1>7, <1>9
  <2>2. Newest(sendq)' = Newest(q1)
    BY <2>1 DEF Newest
  <2>3. Lifecycle!Reaches(Abs(mem), Abs(mem')) /\ Grows(sendq') /\ Abs(Newest(sendq)') = Abs(mem')
    BY <1>2, <1>6, <2>1, <2>2
  <2> QED
    BY <2>3, SendStep DEF Sent
<1> QED
  BY <1>8, <1>9

-----------------------------------------------------------------------------
(* The handlers *)

\* The execution handlers take the edges of an execution.
LEMMA ExecuteSent == ASSUME IInv, IInv', PhaseInv, Execute PROVE Sent
<1>e. ExecutionStep => Executing(mem)
  BY DEF ExecutionStep, Handles, PhaseOf, Executing
<1>f. mem \in Status /\ Newest(sendq) \in Status /\ Agree(mem, Newest(sendq))
  BY Facts
<1>g. \A s \in Status : /\ Abs(s).phase = s.phase /\ Abs(s).op = s.op /\ Abs(s).stage = s.stage
                        /\ Abs(s).retry = s.retry
  BY DEF Abs
<1>1. CASE OperationMismatch
  <2> DEFINE u == WithPhase(Newest(sendq), "Error")
  <2>1. /\ Executing(mem) /\ UNCHANGED db /\ mem' = WithPhase(mem, "Error")
        /\ sendq' = Enqueue(sendq, u)
    BY <1>1 DEF OperationMismatch
  <2>2. Abs(mem') = [Abs(mem) EXCEPT !.phase = "Error"] /\ Abs(u) = Abs(mem')
    <3>1. Newest(sendq).phase = mem.phase
      BY <2>1 DEF PhaseInv, Executing
    <3>2. Abs(Newest(sendq)) = Abs(mem)
      BY <1>f, <3>1, AbsAgree
    <3> QED
      BY <1>f, <2>1, <3>2, AbsWithPhase
  <2>3. u \in Status /\ StageInRange(u)
    BY <1>f, Facts, WithPhaseOK DEF Phases, Agree, StageInRange
  <2>4. Lifecycle!Edge(Abs(mem), Abs(mem'))
    BY <1>f, <1>g, <2>1, <2>2 DEF Lifecycle!Edge, Lifecycle!Fail, Executing
  <2> HIDE DEF u
  <2> QED
    BY <2>1, <2>2, <2>3, <2>4, EdgeSend
<1>2. CASE ExecuteStageError
  <2> DEFINE u == WithPhase(Newest(QueueObserved), "Error")
  <2>1. /\ ExecutionStep /\ UNCHANGED db /\ mem' = WithPhase(MemObserved, "Error")
        /\ sendq' = Enqueue(QueueObserved, u)
    BY <1>2 DEF ExecuteStageError
  <2>2. /\ MemObserved \in Status /\ Abs(MemObserved) = Abs(mem)
        /\ Newest(QueueObserved) \in Status /\ StageInRange(Newest(QueueObserved))
        /\ Abs(Newest(QueueObserved)) = Abs(mem) /\ Executing(mem)
    BY <1>e, <2>1, ObservedGrows
  <2>3. Abs(mem') = [Abs(mem) EXCEPT !.phase = "Error"] /\ Abs(u) = Abs(mem')
    BY <2>1, <2>2, AbsWithPhase
  <2>4. u \in Status /\ StageInRange(u)
    BY <2>2, WithPhaseOK DEF Phases, Agree, StageInRange
  <2>5. Lifecycle!Edge(Abs(mem), Abs(mem'))
    BY <1>f, <1>g, <2>2, <2>3 DEF Lifecycle!Edge, Lifecycle!Fail, Executing
  <2> HIDE DEF u
  <2> QED
    BY <2>1, <2>2, <2>3, <2>4, <2>5, ObservedSend
<1>3. CASE ExecuteWait
  <2>1. Executing(mem) /\ UNCHANGED db /\ mem' = MemObserved /\ sendq' = QueueObserved
    BY <1>3, <1>e DEF ExecuteWait
  <2> QED
    BY <2>1, ObservedStep

<1>h. ExecutionStep => /\ Lifecycle!Runs(Abs(mem)) /\ mem.op \in Ops
                       /\ [op \in Ops |-> Len(Stages[op])][Abs(mem).op] = Len(Stages[mem.op])
                       /\ mem.stage \in 1 .. Len(Stages[mem.op]) /\ Len(Stages[mem.op]) \in Nat
  <2> SUFFICES ASSUME ExecutionStep
               PROVE  /\ Lifecycle!Runs(Abs(mem)) /\ mem.op \in Ops
                      /\ [op \in Ops |-> Len(Stages[op])][Abs(mem).op] = Len(Stages[mem.op])
                      /\ mem.stage \in 1 .. Len(Stages[mem.op]) /\ Len(Stages[mem.op]) \in Nat
    OBVIOUS
  <2>1. mem.op \in Ops /\ mem.phase = PhaseOf(mem.op)
    BY DEF ExecutionStep, Handles
  <2>2. Abs(mem).op = mem.op /\ Abs(mem).phase = mem.phase
    BY <1>f, <1>g
  <2>3. Lifecycle!Runs(Abs(mem))
    BY <2>1, <2>2 DEF Lifecycle!Runs, Lifecycle!PhaseOf, PhaseOf, Lifecycle!Ops, Ops
  <2> QED
    BY <2>1, <2>2, <2>3, ExecutionStepFacts
<1>4. CASE ExecuteDispatch
  <2>1. /\ ExecutionStep /\ UNCHANGED db
        /\ ExecuteForStage(mem.stage, MemObserved, QueueObserved)
    BY <1>4 DEF ExecuteDispatch
  <2>2. /\ MemObserved \in Status /\ Abs(MemObserved) = Abs(mem) /\ Grows(QueueObserved)
        /\ Newest(QueueObserved) \in Status /\ StageInRange(Newest(QueueObserved))
        /\ Abs(Newest(QueueObserved)) = Abs(MemObserved)
    BY <1>e, <2>1, ObservedGrows
  <2>3. Executing(MemObserved)
    BY <1>e, <1>f, <2>1 DEF Executing, MemObserved, Status
  <2>4. /\ Lifecycle!Reaches(Abs(mem), Abs(MemObserved))
        /\ Lifecycle!Reaches(Abs(mem), [Abs(MemObserved) EXCEPT !.phase = "Error"])
    <3>1. Abs(mem).phase \in {"Hibernating", "WakingUp"}
      BY <1>e, <1>f, <1>g, <2>1 DEF Executing
    <3> QED
      BY <2>2, <3>1 DEF Lifecycle!Reaches, Lifecycle!Edge, Lifecycle!Fail
  <2> QED
    BY <2>1, <2>2, <2>3, <2>4, StageSend
<1>5. CASE ExecuteAdvance
  <2> DEFINE next == mem.stage + 1
  <2> DEFINE n == Newest(QueueObserved)
  <2> DEFINE m == [MemObserved EXCEPT !.stage = next]
  <2> DEFINE u == [n EXCEPT !.stage = next]
  <2> DEFINE a == [Abs(mem) EXCEPT !.stage = mem.stage + 1]
  <2>1. /\ ExecutionStep /\ ~LastStage /\ UNCHANGED db
        /\ ExecuteForStage(next, m, Enqueue(QueueObserved, u))
    BY <1>5 DEF ExecuteAdvance
  <2>2. /\ MemObserved \in Status /\ Abs(MemObserved) = Abs(mem) /\ Grows(QueueObserved)
        /\ n \in Status /\ StageInRange(n) /\ Abs(n) = Abs(mem)
    BY <1>e, <2>1, ObservedGrows
  <2>3. next \in Nat \ {0} /\ next <= Len(Stages[mem.op]) /\ mem.stage < Len(Stages[mem.op])
    <3>1. mem.stage \in 1 .. Len(Stages[mem.op]) /\ Len(Stages[mem.op]) \in Nat
      BY <1>h, <2>1
    <3>2. ~(mem.stage >= Len(Stages[mem.op]))
      BY <2>1 DEF LastStage
    <3> QED
      BY <3>1, <3>2
  <2>4. m \in Status /\ m.stage = next /\ m.op = MemObserved.op
    BY <2>2, <2>3, WithStageOK
  <2>5. u \in Status /\ u.stage = next /\ u.op = n.op
    BY <2>2, <2>3, WithStageOK
  <2>6. n.op = mem.op /\ mem.op # ""
    <3>1. Abs(n).op = Abs(mem).op
      BY <2>2
    <3> QED
      BY <1>f, <1>g, <1>h, <2>1, <2>2, <3>1 DEF Ops
  <2>7. StageInRange(u)
    BY <2>3, <2>5, <2>6 DEF StageInRange
  <2>8. Abs(m) = a /\ Abs(u) = a
    BY <2>2, AbsWithStage
  <2>9. Lifecycle!Advance(Abs(mem), a)
    <3>1. Abs(mem).stage = mem.stage
      BY <1>f, <1>g
    <3> QED
      BY <1>h, <2>1, <2>3, <3>1 DEF Lifecycle!Advance
  <2>10. Executing(m)
    BY <1>e, <1>f, <2>1 DEF Executing, MemObserved, Status
  <2>11. a.phase \in {"Hibernating", "WakingUp"}
    BY <1>e, <2>1 DEF Executing, Abs
  <2>12. /\ Lifecycle!Reaches(Abs(mem), a) /\ Lifecycle!Follows(Abs(n), a)
         /\ Lifecycle!Reaches(Abs(mem), [a EXCEPT !.phase = "Error"])
    <3>1. Lifecycle!Edge(Abs(mem), a)
      BY <2>9 DEF Lifecycle!Edge
    <3>2. Lifecycle!Fail(a, [a EXCEPT !.phase = "Error"])
      BY <2>11 DEF Lifecycle!Fail
    <3>3. a = [Abs(mem) EXCEPT !.stage = @ + 1]
      BY <1>f DEF Abs
    <3>4. Lifecycle!Reaches(Abs(mem), [a EXCEPT !.phase = "Error"])
      BY <2>9, <3>2, <3>3 DEF Lifecycle!Reaches
    <3> HIDE DEF a
    <3> QED
      BY <2>2, <3>1, <3>4 DEF Lifecycle!Reaches, Lifecycle!Follows
  <2> HIDE DEF next, n, m, u, a
  <2>13. Grows(Enqueue(QueueObserved, u)) /\ Newest(Enqueue(QueueObserved, u)) = u
    BY <2>2, <2>5, <2>7, <2>8, <2>12, GrowsEnqueue DEF n
  <2> QED
    BY <2>1, <2>4, <2>5, <2>7, <2>8, <2>10, <2>12, <2>13, StageSend
<1>6. CASE ExecuteFinalize
  <2> DEFINE n == Newest(QueueObserved)
  <2> DEFINE ph == IF mem.op = "shutdown" THEN "Hibernated" ELSE "Active"
  <2>1. /\ ExecutionStep /\ LastStage /\ UNCHANGED db
        /\ \/ mem' = Finalized(MemObserved) /\ sendq' = Enqueue(QueueObserved, Finalized(n))
           \/ mem' = MemObserved /\ sendq' = QueueObserved
    BY <1>6 DEF ExecuteFinalize
  <2>2. /\ MemObserved \in Status /\ Abs(MemObserved) = Abs(mem)
        /\ n \in Status /\ StageInRange(n) /\ Abs(n) = Abs(mem) /\ Executing(mem)
    BY <1>e, <2>1, ObservedGrows
  <2>3. CASE mem' = MemObserved /\ sendq' = QueueObserved
    BY <2>1, <2>2, <2>3, ObservedStep
  <2>4. CASE mem' = Finalized(MemObserved) /\ sendq' = Enqueue(QueueObserved, Finalized(n))
    <3>1. Abs(Finalized(n)) = Recounted(Abs(mem), ph, 0) /\ Abs(mem') = Recounted(Abs(mem), ph, 0)
      <4>1. Finalized(n) = Recounted(n, ph, 0) /\ mem' = Recounted(MemObserved, ph, 0)
        BY <2>4 DEF Finalized, Recounted
      <4> QED
        BY <2>2, <4>1, AbsRecounted
    <3>2. Finalized(n) \in Status /\ Finalized(n).op = n.op /\ Finalized(n).stage = n.stage
      <4>1. ph \in Phases /\ 0 \in Nat
        BY DEF Phases
      <4> QED
        BY <2>2, <4>1 DEF Finalized, Status
    <3>3. StageInRange(Finalized(n))
      BY <2>2, <3>2 DEF StageInRange
    <3>4. Lifecycle!Complete(Abs(mem), Abs(mem'))
      <4>1. mem.stage = Len(Stages[mem.op])
        <5>1. mem.stage \in 1 .. Len(Stages[mem.op]) /\ Len(Stages[mem.op]) \in Nat
          BY <1>h, <2>1
        <5>2. mem.stage >= Len(Stages[mem.op])
          BY <2>1 DEF LastStage
        <5> QED
          BY <5>1, <5>2
      <4>2. Abs(mem).stage = mem.stage /\ Abs(mem).op = mem.op
        BY <1>f, <1>g
      <4> QED
        BY <1>h, <2>1, <3>1, <4>1, <4>2 DEF Lifecycle!Complete, Recounted
    <3>5. Lifecycle!Edge(Abs(mem), Abs(mem'))
      BY <3>4 DEF Lifecycle!Edge
    <3> QED
      BY <2>1, <2>2, <2>4, <3>1, <3>2, <3>3, <3>5, ObservedSend
  <2> QED
    BY <2>1, <2>3, <2>4
<1> QED
  BY <1>1, <1>2, <1>3, <1>4, <1>5, <1>6 DEF Execute

\* A handler that changes the phase only.
LEMMA PhaseSend ==
  ASSUME IInv, IInv', PhaseInv, UNCHANGED db, NEW ph \in Phases,
         mem' = WithPhase(mem, ph), sendq' = Enqueue(sendq, WithPhase(Newest(sendq), ph)),
         Lifecycle!Edge(Abs(mem), [Abs(mem) EXCEPT !.phase = ph])
  PROVE  Sent
<1> DEFINE u == WithPhase(Newest(sendq), ph)
<1>1. /\ mem \in Status /\ Newest(sendq) \in Status /\ StageInRange(Newest(sendq))
      /\ Agree(mem, Newest(sendq))
  BY Facts
<1>2. /\ u \in Status /\ Agree(u, Newest(sendq)) /\ u.phase = ph
      /\ Agree(mem', mem) /\ mem'.phase = ph
  BY <1>1, WithPhaseOK DEF WithPhase, Status
<1>3. Agree(u, mem') /\ StageInRange(u)
  BY <1>1, <1>2 DEF Agree, StageInRange
<1> HIDE DEF u
<1>4. Abs(u) = Abs(mem')
  BY <1>2, <1>3, AbsAgree
<1>5. Abs(mem') = [Abs(mem) EXCEPT !.phase = ph]
  BY <1>1, AbsWithPhase
<1> QED
  BY <1>2, <1>3, <1>4, <1>5, EdgeSend DEF u

\* A handler that starts an operation.
LEMMA StartSend ==
  ASSUME IInv, IInv', PhaseInv, UNCHANGED db, NEW op \in Ops, NEW c \in Nat,
         mem' = Started(mem, op, c), sendq' = Enqueue(sendq, Started(Newest(sendq), op, c)),
         Lifecycle!Edge(Abs(mem), Lifecycle!Starting(Abs(mem), op, c))
  PROVE  Sent
<1> DEFINE u == Started(Newest(sendq), op, c)
<1>1. mem \in Status /\ Newest(sendq) \in Status /\ mem.retry = Newest(sendq).retry
  BY Facts DEF Agree
<1>2. u \in Status /\ StageInRange(u)
  BY <1>1, StartedOK
<1>3. Abs(u) = Abs(mem')
  BY <1>1 DEF Started, Abs
<1>4. Abs(mem') = Lifecycle!Starting(Abs(mem), op, c)
  BY <1>1 DEF Started, Abs, Lifecycle!Starting, Lifecycle!PhaseOf, PhaseOf
<1> HIDE DEF u
<1> QED
  BY <1>2, <1>3, <1>4, EdgeSend DEF u

\* A step of the lifecycle or none, after which PhaseInv holds again.
Simulated == [Lifecycle!Next]_(Lifecycle!lifecycleVars) /\ PhaseInv'

\* A handler that sent what it did made a step.
LEMMA SentSimulated == ASSUME Sent PROVE Simulated
<1>1. Newest(sendq)'.phase = mem'.phase
  BY DEF Sent, Abs
<1> QED
  BY <1>1 DEF Sent, Simulated, PhaseInv, Lifecycle!Next

\* A step that leaves the three copies of the status alone is none.
LEMMA StutterSimulated ==
  ASSUME PhaseInv, UNCHANGED <<mem, sendq, db>>
  PROVE  Simulated
<1>1. Newest(sendq)' = Newest(sendq)
  BY DEF Newest
<1>2. UNCHANGED Lifecycle!lifecycleVars
  BY DEF Lifecycle!lifecycleVars, Abs, AbsQueue
<1> QED
  BY <1>1, <1>2 DEF Simulated, PhaseInv

\* idleState and lifecycleState.
LEMMA IdleSimulated == ASSUME IInv, IInv', PhaseInv, Idle PROVE Simulated
<1>0. Abs(mem).phase = mem.phase /\ Abs(mem).cycle = mem.cycle /\ mem.cycle \in Nat
  BY Facts DEF Abs, Status
<1>1. CASE LifecycleInit
  <2>1. /\ UNCHANGED db /\ mem.phase = "" /\ mem' = WithPhase(mem, "Active")
        /\ sendq' = Enqueue(sendq, WithPhase(Newest(sendq), "Active"))
    BY <1>1 DEF LifecycleInit, Selected
  <2>2. Lifecycle!Edge(Abs(mem), [Abs(mem) EXCEPT !.phase = "Active"])
    BY <1>0, <2>1 DEF Lifecycle!Edge, Lifecycle!Setup
  <2>3. "Active" \in Phases
    BY DEF Phases
  <2> QED
    BY <2>1, <2>2, <2>3, PhaseSend, SentSimulated
<1>2. CASE TransitionToHibernating
  <2>1. PICK c \in IF LiveCycles = {} THEN {cycles + 1} ELSE LiveCycles :
               /\ mem' = Started(mem, "shutdown", c)
               /\ sendq' = Enqueue(sendq, Started(Newest(sendq), "shutdown", c))
    BY <1>2 DEF TransitionToHibernating
  <2>2. c \in Nat \ {0}
    <3>1. cycles \in Nat /\ \A t \in Targets : live[t] \in Nat
      BY DEF IInv, RestInv
    <3>2. cycles + 1 \in Nat \ {0}
      BY <3>1
    <3> QED
      BY <2>1, <3>1, <3>2 DEF LiveCycles
  <2>3. UNCHANGED db /\ mem.phase = "Active"
    BY <1>2 DEF TransitionToHibernating, Selected
  <2> DEFINE t == Lifecycle!Starting(Abs(mem), "shutdown", c)
  <2>4. t.cycle = c
    BY DEF Lifecycle!Starting
  <2>5. Lifecycle!StartShutdown(Abs(mem), t)
    BY <1>0, <2>2, <2>3, <2>4 DEF Lifecycle!StartShutdown
  <2>6. Lifecycle!Edge(Abs(mem), t)
    BY <2>5 DEF Lifecycle!Edge
  <2>7. "shutdown" \in Ops
    BY DEF Ops
  <2> HIDE DEF t
  <2> QED
    BY <2>1, <2>2, <2>3, <2>6, <2>7, StartSend, SentSimulated DEF t
<1>3. CASE TransitionToWakingUp
  <2>1. /\ mem' = Started(mem, "wakeup", mem.cycle) /\ UNCHANGED db /\ mem.phase = "Hibernated"
        /\ sendq' = Enqueue(sendq, Started(Newest(sendq), "wakeup", mem.cycle))
    BY <1>3, Facts DEF TransitionToWakingUp, Selected, Agree
  <2>2. Lifecycle!Edge(Abs(mem), Lifecycle!Starting(Abs(mem), "wakeup", mem.cycle))
    BY <1>0, <2>1 DEF Lifecycle!Edge, Lifecycle!StartWakeup
  <2>3. "wakeup" \in Ops
    BY DEF Ops
  <2> QED
    BY <1>0, <2>1, <2>2, <2>3, StartSend, SentSimulated
<1>4. CASE IdleStay
  BY <1>4, StutterSimulated DEF IdleStay
<1> QED
  BY <1>1, <1>2, <1>3, <1>4 DEF Idle

\* Suspending and resuming.
LEMMA SuspensionSimulated ==
  ASSUME IInv, IInv', PhaseInv, Suspension \/ DrainTimeout
  PROVE  Simulated
<1>0. /\ mem \in Status /\ Newest(sendq) \in Status /\ StageInRange(Newest(sendq))
      /\ Agree(mem, Newest(sendq)) /\ Abs(mem).phase = mem.phase /\ Abs(mem).op = mem.op
      /\ "Suspended" \in Phases
  BY Facts DEF Abs, Phases
<1>s. Lifecycle!Edge(Abs(mem), [Abs(mem) EXCEPT !.phase = "Suspended"])
  BY DEF Lifecycle!Edge, Lifecycle!Suspend
<1>1. CASE DrainTimeout
  <2>1. /\ UNCHANGED db /\ mem' = WithPhase(mem, "Suspended")
        /\ sendq' = Enqueue(sendq, WithPhase(Newest(sendq), "Suspended"))
    BY <1>1 DEF DrainTimeout, PerformSuspension
  <2> QED
    BY <1>0, <1>s, <2>1, PhaseSend, SentSimulated
<1>2. CASE AwaitExecutionDrain
  <2>1. Executing(mem) /\ UNCHANGED db /\ mem' = MemObserved /\ sendq' = QueueObserved
    BY <1>2 DEF AwaitExecutionDrain
  <2> QED
    BY <2>1, ObservedStep, SentSimulated
<1>3. CASE PreSuspension /\ ~Executing(mem)
  <2>1. /\ UNCHANGED db
        /\ \/ /\ mem' = WithPhase(mem, "Suspended")
              /\ sendq' = Enqueue(sendq, WithPhase(Newest(sendq), "Suspended"))
           \/ mem' = mem /\ sendq' = sendq
    BY <1>3 DEF PreSuspension, PerformSuspension, SuspensionPatchFails
  <2>2. CASE mem' = mem /\ sendq' = sendq
    BY <2>1, <2>2, StutterSimulated
  <2>3. CASE /\ mem' = WithPhase(mem, "Suspended")
             /\ sendq' = Enqueue(sendq, WithPhase(Newest(sendq), "Suspended"))
    BY <1>0, <1>s, <2>1, <2>3, PhaseSend, SentSimulated
  <2> QED
    BY <2>1, <2>2, <2>3
<1>4. CASE PreSuspension /\ Executing(mem)
  <2> DEFINE n == Newest(QueueObserved)
  <2> DEFINE u == WithPhase(n, "Suspended")
  <2>1. /\ UNCHANGED db
        /\ \/ mem' = WithPhase(MemObserved, "Suspended") /\ sendq' = Enqueue(QueueObserved, u)
           \/ mem' = MemObserved /\ sendq' = QueueObserved
    BY <1>4 DEF PreSuspension, PerformSuspension, SuspensionPatchFails
  <2>2. /\ MemObserved \in Status /\ Abs(MemObserved) = Abs(mem)
        /\ n \in Status /\ StageInRange(n) /\ Abs(n) = Abs(mem)
    BY <1>4, ObservedGrows
  <2>3. CASE mem' = MemObserved /\ sendq' = QueueObserved
    BY <1>4, <2>1, <2>3, ObservedStep, SentSimulated
  <2>4. CASE mem' = WithPhase(MemObserved, "Suspended") /\ sendq' = Enqueue(QueueObserved, u)
    <3>1. Abs(mem') = [Abs(mem) EXCEPT !.phase = "Suspended"] /\ Abs(u) = Abs(mem')
      BY <2>2, <2>4, AbsWithPhase
    <3>2. u \in Status /\ StageInRange(u)
      BY <1>0, <2>2, WithPhaseOK DEF Agree, StageInRange
    <3> HIDE DEF u
    <3> QED
      BY <1>4, <1>s, <2>1, <2>4, <3>1, <3>2, ObservedSend, SentSimulated
  <2> QED
    BY <2>1, <2>3, <2>4
<1>5. CASE SuspendedStay
  BY <1>5, StutterSimulated DEF SuspendedStay
<1>6. CASE Resume
  <2> DEFINE ph == ResumePhase
  <2> DEFINE m == IF ctx.suspendedAt = "Error" THEN 0 ELSE mem.retry
  <2> DEFINE n == Newest(sendq)
  <2> DEFINE u == Resumed(n)
  <2>1. /\ mem.phase = "Suspended" /\ UNCHANGED db /\ mem' = Resumed(mem)
        /\ sendq' = Enqueue(sendq, u)
    BY <1>6 DEF Resume, Selected
  <2>2. n.retry = mem.retry /\ mem.retry \in Nat /\ n.op = mem.op /\ n.stage = mem.stage
    BY <1>0 DEF Agree, Status
  <2>3. Resumed(mem) = Recounted(mem, ph, m) /\ u = Recounted(n, ph, m)
    BY <2>2 DEF Resumed, Recounted
  <2>4. ph \in {"Active", "Hibernating", "Hibernated", "WakingUp"} /\ m \in Nat
    BY <2>2 DEF ResumePhase
  <2>5. Abs(n) = Abs(mem)
    <3>1. n.phase = mem.phase
      BY <2>1 DEF PhaseInv
    <3> QED
      BY <1>0, <3>1, AbsAgree
  <2>6. Abs(mem') = Recounted(Abs(mem), ph, m) /\ Abs(u) = Abs(mem')
    <3> HIDE DEF ph, m, n, u
    <3> QED
      BY <1>0, <2>1, <2>3, <2>5, AbsRecounted DEF n
  <2>7. u \in Status /\ StageInRange(u)
    <3>1. ph \in Phases
      BY <2>4 DEF Phases
    <3> HIDE DEF ph, m, n
    <3>2. Recounted(n, ph, m) \in Status /\ Recounted(n, ph, m).op = n.op
          /\ Recounted(n, ph, m).stage = n.stage
      BY <1>0, <2>4, <3>1 DEF Recounted, Status, n
    <3>3. StageInRange(n)
      BY <1>0 DEF n
    <3> HIDE DEF u
    <3> QED
      BY <2>3, <3>2, <3>3 DEF StageInRange
  <2>8. Lifecycle!Resume(Abs(mem), Abs(mem'))
    <3>1. CASE ctx.suspendedAt = "Error"
      <4>1. ph = (IF mem.op = "wakeup" THEN "Hibernated" ELSE "Active") /\ m = 0
        BY <3>1 DEF ResumePhase
      <4>2. Abs(mem') = [Abs(mem) EXCEPT
                           !.phase = IF Abs(mem).op = "wakeup" THEN "Hibernated" ELSE "Active",
                           !.retry = 0]
        BY <1>0, <2>6, <4>1 DEF Recounted
      <4> QED
        BY <1>0, <2>1, <4>2 DEF Lifecycle!Resume
    <3>2. CASE ctx.suspendedAt # "Error"
      <4>1. m = mem.retry
        BY <3>2
      <4>2. Recounted(mem, ph, m) = WithPhase(mem, ph)
        BY <1>0, <4>1 DEF Recounted, WithPhase, Status
      <4>3. Abs(mem') = [Abs(mem) EXCEPT !.phase = ph]
        <5> HIDE DEF ph, m
        <5> QED
          BY <1>0, <2>1, <2>3, <4>2, AbsWithPhase
      <4> QED
        BY <1>0, <2>1, <2>4, <4>3 DEF Lifecycle!Resume
    <3> QED
      BY <3>1, <3>2
  <2>9. Lifecycle!Edge(Abs(mem), Abs(mem'))
    BY <2>8 DEF Lifecycle!Edge
  <2> HIDE DEF u, n, ph, m
  <2> QED
    BY <2>1, <2>6, <2>7, <2>9, EdgeSend, SentSimulated
<1>7. CASE ForceWakeUpOnResume
  <2>1. /\ mem.phase = "Suspended" /\ UNCHANGED <<sendq, db>>
        /\ mem' = WithPhase(mem, "Hibernated")
    BY <1>7 DEF ForceWakeUpOnResume, Selected
  <2>2. Abs(mem') = [Abs(mem) EXCEPT !.phase = "Hibernated"] /\ mem'.phase = "Hibernated"
    BY <1>0, <2>1, AbsWithPhase DEF WithPhase, Status
  <2>3. Newest(sendq)' = Newest(sendq) /\ Newest(sendq).phase = "Suspended"
    BY <2>1 DEF Newest, PhaseInv
  <2>4. Lifecycle!ResumeAhead
    BY <1>0, <2>1, <2>2 DEF Lifecycle!ResumeAhead, AbsQueue, Abs
  <2> QED
    BY <2>2, <2>3, <2>4 DEF Simulated, PhaseInv, Lifecycle!Next
<1> QED
  BY <1>1, <1>2, <1>3, <1>4, <1>5, <1>6, <1>7 DEF Suspension

\* recoveryState.
LEMMA RecoverySimulated ==
  ASSUME IInv, IInv', PhaseInv, Recovery \/ TransientError
  PROVE  Simulated
<1> DEFINE n == Newest(sendq)
<1>0. /\ mem \in Status /\ n \in Status /\ StageInRange(n) /\ Agree(mem, n)
      /\ Abs(mem).phase = mem.phase /\ Abs(mem).op = mem.op /\ Abs(mem).retry = mem.retry
      /\ n.op = mem.op /\ n.stage = mem.stage /\ n.retry = mem.retry /\ mem.retry \in Nat
      /\ mem.op \in Ops \cup {""}
  BY Facts DEF Abs, Agree, Status
<1>1. CASE RecoveryBackoff \/ ManualRetryFails \/ RecoveryAborted \/ TransientError
  BY <1>1, StutterSimulated DEF RecoveryBackoff, ManualRetryFails, RecoveryAborted, TransientError
<1>2. CASE Retry
  <2> DEFINE u == Retried(n)
  <2>1. /\ mem.phase = "Error" /\ mem.retry < MaxRetries /\ UNCHANGED db /\ mem' = Retried(mem)
        /\ sendq' = Enqueue(sendq, u)
    BY <1>2 DEF Retry, Selected
  <2>2. RetryOp \in Ops /\ mem.op \in {RetryOp, ""}
    BY <1>0 DEF RetryOp, Ops
  <2>3. /\ u \in Status /\ u.op = n.op /\ u.cycle = n.cycle /\ u.stage = n.stage
        /\ u.retry = n.retry + 1
        /\ mem'.op = mem.op /\ mem'.cycle = mem.cycle /\ mem'.stage = mem.stage
        /\ mem'.retry = mem.retry + 1
    BY <1>0, <2>1, RetriedOK
  <2>4. u.phase = PhaseOf(RetryOp) /\ mem'.phase = PhaseOf(RetryOp)
    BY <1>0, <2>1 DEF Retried, Status
  <2>5. Abs(u) = Abs(mem') /\ StageInRange(u)
    BY <1>0, <2>3, <2>4 DEF Abs, Agree, StageInRange
  <2>6. Abs(mem') = [Abs(mem) EXCEPT !.phase = Lifecycle!PhaseOf(RetryOp), !.retry = @ + 1]
    <3>1. Lifecycle!PhaseOf(RetryOp) = PhaseOf(RetryOp)
      BY DEF Lifecycle!PhaseOf, PhaseOf
    <3> DEFINE v == PhaseOf(RetryOp)
    <3> DEFINE r == mem.retry + 1
    <3> DEFINE a == [phase |-> v, op |-> mem.op, cycle |-> mem.cycle, stage |-> mem.stage,
                     retry |-> mem.retry]
    <3>2. Abs(mem') = [a EXCEPT !.retry = r]
      <4> HIDE DEF v
      <4> QED
        BY <2>3, <2>4 DEF Abs, v
    <3>3. [Abs(mem) EXCEPT !.phase = v] = a
      BY DEF Abs
    <3>4. [Abs(mem) EXCEPT !.phase = v, !.retry = @ + 1] =
            [[Abs(mem) EXCEPT !.phase = v] EXCEPT !.retry = r]
      BY <1>0
    <3> HIDE DEF a, v, r
    <3> QED
      BY <3>1, <3>2, <3>3, <3>4 DEF v
  <2>7. Lifecycle!Retry(Abs(mem), Abs(mem'))
    <3>1. RetryOp \in Lifecycle!Ops /\ Abs(mem).op \in {RetryOp, ""}
      BY <1>0, <2>2 DEF Ops, Lifecycle!Ops
    <3> QED
      BY <1>0, <2>1, <2>6, <3>1 DEF Lifecycle!Retry
  <2>8. Lifecycle!Edge(Abs(mem), Abs(mem'))
    BY <2>7 DEF Lifecycle!Edge
  <2> HIDE DEF u
  <2> QED
    BY <2>1, <2>3, <2>5, <2>8, EdgeSend, SentSimulated
<1>3. CASE ManualRetry
  <2> DEFINE u == [n EXCEPT !.retry = 0]
  <2>1. /\ mem.phase = "Error" /\ mem.retry >= MaxRetries /\ UNCHANGED db
        /\ mem' = [mem EXCEPT !.retry = 0] /\ sendq' = Enqueue(sendq, u)
    BY <1>3 DEF ManualRetry, Selected
  <2>2. /\ u \in Status /\ u.op = n.op /\ u.cycle = n.cycle /\ u.stage = n.stage
        /\ u.retry = 0 /\ u.phase = n.phase
        /\ mem'.op = mem.op /\ mem'.cycle = mem.cycle /\ mem'.stage = mem.stage
        /\ mem'.retry = 0 /\ mem'.phase = mem.phase
    BY <1>0, <2>1 DEF Status
  <2>3. n.phase = mem.phase
    BY <2>1 DEF PhaseInv
  <2> HIDE DEF u
  <2>4. Abs(u) = Abs(mem') /\ StageInRange(u)
    BY <1>0, <2>2, <2>3 DEF Abs, Agree, StageInRange
  <2>5. Abs(mem') = [Abs(mem) EXCEPT !.retry = 0]
    BY <2>2 DEF Abs
  <2>6. Lifecycle!Edge(Abs(mem), Abs(mem'))
    BY <1>0, <2>1, <2>5 DEF Lifecycle!Edge, Lifecycle!RetryNow
  <2> QED
    BY <2>1, <2>2, <2>4, <2>6, EdgeSend, SentSimulated DEF n
<1> QED
  BY <1>1, <1>2, <1>3 DEF Recovery

-----------------------------------------------------------------------------
(* Around the worker *)

\* The status writer moves the oldest queued status to the API server.
LEMMA WriteSimulated == ASSUME IInv, PhaseInv, WriteStatus PROVE Simulated
<1>1. PICK i \in 1 .. Len(sendq) : db' = [Head(sendq) EXCEPT !.ex = sendq[i].ex]
  BY DEF WriteStatus
<1>2. sendq \in Seq(Status) /\ sendq # <<>> /\ sendq' = Tail(sendq) /\ mem' = mem
  BY DEF WriteStatus, IInv, StatusInv, QueueOK
<1>3. /\ Len(sendq) \in Nat /\ Len(sendq) > 0 /\ Head(sendq) = sendq[1] /\ sendq[1] \in Status
      /\ AbsQueue(sendq) \in Seq(Lifecycle!Status) /\ Len(AbsQueue(sendq)) = Len(sendq)
      /\ \A k \in 1 .. Len(sendq) : AbsQueue(sendq)[k] = Abs(sendq[k])
  <2>1. Len(sendq) > 0 /\ Head(sendq) = sendq[1]
    BY <1>2, EmptySeq, LenProperties, HeadTailProperties
  <2>2. /\ AbsQueue(sendq) \in Seq(Lifecycle!Status) /\ Len(AbsQueue(sendq)) = Len(sendq)
        /\ \A k \in 1 .. Len(sendq) : sendq[k] \in Status /\ AbsQueue(sendq)[k] = Abs(sendq[k])
        /\ Len(sendq) \in Nat
    BY AbsQueueType DEF IInv, StatusInv
  <2>3. 1 \in 1 .. Len(sendq)
    BY <2>1, <2>2
  <2> QED
    BY <2>1, <2>2, <2>3
<1>4. Abs(db') = Abs(sendq[1])
  BY <1>1, <1>3 DEF Abs, Status
<1> DEFINE q == AbsQueue(sendq)
<1> DEFINE S == Lifecycle!Status
<1>5. /\ q \in Seq(S) /\ Len(q) = Len(sendq)
  BY <1>3
<1>6. q # <<>> /\ Head(q) = Abs(sendq[1])
  <2> HIDE DEF q, S
  <2>1. q # <<>>
    BY <1>3, <1>5, EmptySeq
  <2>2. Head(q) = q[1]
    BY <1>5, <2>1, HeadTailProperties
  <2>3. 1 \in 1 .. Len(sendq)
    BY <1>3
  <2> QED
    BY <1>3, <2>1, <2>2, <2>3 DEF q
<1>7. AbsQueue(Tail(sendq)) = Tail(q)
  <2>1. /\ Tail(sendq) \in Seq(Status) /\ Len(Tail(sendq)) = Len(sendq) - 1
        /\ \A k \in 1 .. Len(Tail(sendq)) : Tail(sendq)[k] = sendq[k + 1]
    BY <1>2, HeadTailProperties
  <2>2. /\ Tail(q) \in Seq(S) /\ Len(Tail(q)) = Len(sendq) - 1
        /\ \A k \in 1 .. Len(Tail(q)) : Tail(q)[k] = q[k + 1]
    <3> HIDE DEF q, S
    <3> QED
      BY <1>5, <1>6, HeadTailProperties
  <2>3. \A k \in 1 .. Len(sendq) - 1 : Tail(q)[k] = Abs(Tail(sendq)[k])
    BY <1>3, <2>1, <2>2
  <2>4. Tail(q) = [k \in 1 .. Len(sendq) - 1 |-> Tail(q)[k]]
    <3> HIDE DEF q, S
    <3>1. Tail(q) \in [1 .. Len(Tail(q)) -> S]
      BY <2>2, LenProperties
    <3> QED
      BY <2>2, <3>1
  <2>5. AbsQueue(Tail(sendq)) = [k \in 1 .. Len(sendq) - 1 |-> Abs(Tail(sendq)[k])]
    BY <2>1 DEF AbsQueue
  <2> HIDE DEF q
  <2> QED
    BY <2>3, <2>4, <2>5
<1>8. Lifecycle!Persist
  BY <1>2, <1>3, <1>4, <1>6, <1>7 DEF Lifecycle!Persist, AbsQueue, Abs
<1>9. Newest(sendq)' = Newest(sendq)
  BY WriteTail DEF IInv
<1> QED
  BY <1>2, <1>8, <1>9 DEF Simulated, PhaseInv, Lifecycle!Next

\* A worker that ends, or a controller that does, resumes from the API server.
LEMMA RestartSimulated == ASSUME IdleExit \/ Crash PROVE Simulated
<1>1. mem' = db /\ db' = db /\ sendq' = <<>>
  BY DEF IdleExit, Crash, Forget
<1>2. AbsQueue(sendq') = <<>>
  <2>1. Len(<<>>) = 0
    OBVIOUS
  <2>2. AbsQueue(<<>>) = [i \in 1 .. 0 |-> Abs(<<>>[i])]
    BY <2>1 DEF AbsQueue
  <2>3. [i \in 1 .. 0 |-> Abs(<<>>[i])] = <<>>
    OBVIOUS
  <2> QED
    BY <1>1, <2>2, <2>3
<1>3. Lifecycle!Restart
  BY <1>1, <1>2 DEF Lifecycle!Restart, AbsQueue, Abs
<1>4. Newest(sendq)' = db'
  BY <1>1 DEF Newest
<1> QED
  BY <1>1, <1>3, <1>4 DEF Simulated, PhaseInv, Lifecycle!Next

\* Every step of the plan worker is a step of the lifecycle or a stutter.
LEMMA NextSimulated == ASSUME IInv, IInv', PhaseInv, [Next]_vars PROVE Simulated
<1>1. CASE Execute
  BY <1>1, ExecuteSent, SentSimulated
<1>2. CASE Idle
  BY <1>2, IdleSimulated
<1>3. CASE Suspension \/ DrainTimeout
  BY <1>3, SuspensionSimulated
<1>4. CASE Recovery \/ TransientError
  BY <1>4, RecoverySimulated
<1>5. CASE WriteStatus
  BY <1>5, WriteSimulated
<1>6. CASE IdleExit \/ Crash
  BY <1>6, RestartSimulated
<1>7. CASE Reconcile \/ Deliver \/ JobStep \/ UserSuspend \/ UserRetryNow \/ ScheduleBoundary
  <2>1. UNCHANGED <<mem, sendq, db>>
    BY <1>7 DEF Reconcile, Deliver, JobStep, JobStart, JobPodFails, ShutdownSucceeds,
      WakeupSucceeds, JobFails, JobRemoved, MarkJobAsStale, UserSuspend, UserRetryNow,
      ScheduleBoundary
  <2> QED
    BY <2>1, StutterSimulated
<1>8. CASE UNCHANGED vars
  BY <1>8, StutterSimulated DEF vars
<1> QED
  BY <1>1, <1>2, <1>3, <1>4, <1>5, <1>6, <1>7, <1>8 DEF Next, Handle, Outside

\* The worker starts where the lifecycle does.
LEMMA InitSimulated == ASSUME Init PROVE Lifecycle!Init /\ PhaseInv
<1>1. /\ mem.phase = "" /\ mem.op = "" /\ mem.cycle = 0 /\ mem.stage = 1 /\ mem.retry = 0
      /\ db = mem /\ sendq = <<>>
  BY DEF Init
<1>2. AbsQueue(sendq) = <<>>
  <2>1. Len(<<>>) = 0
    OBVIOUS
  <2>2. AbsQueue(<<>>) = [i \in 1 .. 0 |-> Abs(<<>>[i])]
    BY <2>1 DEF AbsQueue
  <2>3. [i \in 1 .. 0 |-> Abs(<<>>[i])] = <<>>
    OBVIOUS
  <2> QED
    BY <1>1, <2>2, <2>3
<1>3. Abs(mem) = [phase |-> "", op |-> "", cycle |-> 0, stage |-> 1, retry |-> 0] /\ Abs(db) = Abs(mem)
  BY <1>1 DEF Abs
<1> QED
  BY <1>1, <1>2, <1>3 DEF Lifecycle!Init, PhaseInv, Newest

\* PlanWorker implements PlanLifecycle: whatever handlers, status writer, Jobs,
\* users, faults and restarts do, the status in memory takes the edges of the
\* lifecycle only, and is queued and persisted in the order it took them.
THEOREM LifecycleImplemented == Spec => ImplementsLifecycle
<1>1. IInv /\ IInv' /\ PhaseInv /\ [Next]_vars
        => PhaseInv' /\ [Lifecycle!Next]_(Lifecycle!lifecycleVars)
  BY NextSimulated DEF Simulated
<1>2. Init => Lifecycle!Init /\ PhaseInv
  BY InitSimulated
<1> QED
  BY <1>1, <1>2, WorkerInvariant, PTL DEF Spec, ImplementsLifecycle, Lifecycle!Spec

-----------------------------------------------------------------------------
(* What the lifecycle promises, the plan worker keeps *)

\* The lifecycle of the theorems is the one of the mapping.
LEMMA SameEdges ==
  ASSUME NEW s, NEW t
  PROVE  /\ Lifecycle!Edge(s, t) <=> Proved!Edge(s, t)
         /\ Lifecycle!Follows(s, t) <=> Proved!Follows(s, t)
         /\ Lifecycle!Reaches(s, t) <=> Proved!Reaches(s, t)
<1>1. ASSUME NEW r, NEW u PROVE Lifecycle!Edge(r, u) <=> Proved!Edge(r, u)
  BY SMT DEF Lifecycle!Edge, Lifecycle!Setup, Lifecycle!StartShutdown, Lifecycle!StartWakeup,
    Lifecycle!Starting, Lifecycle!Advance, Lifecycle!Complete, Lifecycle!Runs, Lifecycle!Fail,
    Lifecycle!Suspend, Lifecycle!Resume, Lifecycle!Retry, Lifecycle!RetryNow, Lifecycle!Ops,
    Lifecycle!PhaseOf,
    Proved!Edge, Proved!Setup, Proved!StartShutdown, Proved!StartWakeup,
    Proved!Starting, Proved!Advance, Proved!Complete, Proved!Runs, Proved!Fail,
    Proved!Suspend, Proved!Resume, Proved!Retry, Proved!RetryNow, Proved!Ops, Proved!PhaseOf
<1>2. Lifecycle!Follows(s, t) <=> Proved!Follows(s, t)
  BY <1>1 DEF Lifecycle!Follows, Proved!Follows
<1>3. Lifecycle!Reaches(s, t) <=> Proved!Reaches(s, t)
  <2>1. ASSUME NEW r, NEW u
        PROVE  /\ Lifecycle!Advance(r, u) <=> Proved!Advance(r, u)
               /\ Lifecycle!Fail(r, u) <=> Proved!Fail(r, u)
    BY DEF Lifecycle!Advance, Lifecycle!Fail, Lifecycle!Runs, Lifecycle!Ops, Lifecycle!PhaseOf,
      Proved!Advance, Proved!Fail, Proved!Runs, Proved!Ops, Proved!PhaseOf
  <2> QED
    BY <1>1, <2>1 DEF Lifecycle!Reaches, Proved!Reaches
<1> QED
  BY <1>1, <1>2, <1>3

\* And so are its steps.
LEMMA SameSteps ==
  ASSUME [Lifecycle!Next]_(Lifecycle!lifecycleVars)
  PROVE  [Proved!Next]_(Proved!lifecycleVars)
<1>1. CASE Lifecycle!Send
  <2>1. Lifecycle!Status = Proved!Status /\ Lifecycle!Latest' = Proved!Latest'
    BY DEF Lifecycle!Status, Proved!Status, Lifecycle!Ops, Proved!Ops, Lifecycle!Phases,
      Proved!Phases, Lifecycle!Latest, Proved!Latest, Lifecycle!At, Proved!At
  <2>2. ASSUME NEW i PROVE Lifecycle!At(i)' = Proved!At(i)'
    BY DEF Lifecycle!At, Proved!At
  <2>3. Proved!Send
    BY <1>1, <2>1, <2>2, SameEdges DEF Lifecycle!Send, Proved!Send
  <2> QED
    BY <2>3 DEF Proved!Next
<1>2. CASE Lifecycle!ResumeAhead \/ Lifecycle!Persist \/ Lifecycle!Restart
  BY <1>2 DEF Lifecycle!ResumeAhead, Lifecycle!Persist, Lifecycle!Restart, Proved!Next,
    Proved!ResumeAhead, Proved!Persist, Proved!Restart
<1>3. CASE UNCHANGED Lifecycle!lifecycleVars
  BY <1>3 DEF Lifecycle!lifecycleVars, Proved!lifecycleVars
<1> QED
  BY <1>1, <1>2, <1>3 DEF Lifecycle!Next

\* The execution plan and the retry limit are what the lifecycle assumes.
LEMMA PlanFits == Proved!PlanOK
<1>1. ASSUME NEW op \in Ops PROVE Len(Stages[op]) \in Nat \ {0}
  <2>1. Len(Stages[op]) \in Nat /\ Len(Stages[op]) > 0
    BY StagesAssumption, LenProperties
  <2> QED
    BY <2>1
<1>2. Proved!Ops = Ops
  BY DEF Proved!Ops, Ops
<1> QED
  BY <1>1, <1>2, BoundsAssumption DEF Proved!PlanOK

\* In memory, queued or persisted, every status of a plan has a stage inside its
\* execution plan and a retry count within behavior.retries, and the queue leads
\* along the lifecycle from what is persisted to what the worker acts on.
THEOREM WorkerLine == Spec => []Proved!LineOK
<1>1. Lifecycle!Init => Proved!Init
  BY DEF Lifecycle!Init, Proved!Init
<1>2. [Lifecycle!Next]_(Lifecycle!lifecycleVars) => [Proved!Next]_(Proved!lifecycleVars)
  BY SameSteps
<1>3. Proved!Spec => []Proved!LineOK
  BY PlanFits, Proved!LineHolds
<1> QED
  BY <1>1, <1>2, <1>3, LifecycleImplemented, PTL
  DEF ImplementsLifecycle, Lifecycle!Spec, Proved!Spec

\* What the API server holds moves along the lifecycle, whatever is queued, lost
\* in a restart or written late.
THEOREM PersistedMovesHold == Spec => PersistedMoves
<1>1. Lifecycle!Init => Proved!Init
  BY DEF Lifecycle!Init, Proved!Init
<1>2. [Lifecycle!Next]_(Lifecycle!lifecycleVars) => [Proved!Next]_(Proved!lifecycleVars)
  BY SameSteps
<1>3. Proved!Spec => Proved!DurableMoves
  BY PlanFits, Proved!DurableMovesHold
<1>4. [Proved!Follows(Abs(db), Abs(db)')]_(Abs(db)) => [Lifecycle!Follows(Abs(db), Abs(db)')]_(Abs(db))
  BY SameEdges
<1> QED
  BY <1>1, <1>2, <1>3, <1>4, LifecycleImplemented, PTL
  DEF ImplementsLifecycle, PersistedMoves, Lifecycle!Spec, Proved!Spec, Lifecycle!DurableMoves,
    Proved!DurableMoves

-----------------------------------------------------------------------------
(* Until a user suspends the plan, phase and operation never disagree *)

\* Nobody has asked for a suspension, and no drain is under way.
Calm == ~api.suspend /\ ~ctx.suspend /\ ~watchdog /\ \A pc \in slot : ~pc.suspend

\* The phase is one that the operation leads to without a suspension.
Orderly(s) ==
  /\ s.phase # "Suspended"
  /\ s.phase \in {"Hibernating", "WakingUp"} => Handles(s.phase, s.op)
  /\ s.phase \in {"Error", "Hibernated"} => s.op \in Ops

OrderlyQueue(q) == QueueOK(q) /\ \A i \in 1 .. Len(q) : Orderly(q[i])

OrderlyInv ==
  used["suspend"] = 0 => Calm /\ Orderly(mem) /\ Orderly(db) /\ OrderlyQueue(sendq)

\* What an orderly step leaves.
KeepsOrder == Orderly(mem') /\ Orderly(db') /\ OrderlyQueue(sendq')

\* Phase and operation are all that Orderly looks at.
LEMMA OrderlyLike ==
  ASSUME NEW r, NEW s, Orderly(s), r.phase = s.phase, r.op = s.op
  PROVE  Orderly(r)
BY DEF Orderly, Handles

\* The newest of orderly statuses is orderly.
LEMMA OrderlyNewest ==
  ASSUME Orderly(db), NEW q, OrderlyQueue(q)
  PROVE  Orderly(Newest(q))
<1>1. CASE q = <<>>
  BY <1>1 DEF Newest
<1>2. CASE q # <<>>
  <2>1. Len(q) \in 1 .. Len(q)
    BY <1>2, EmptySeq, LenProperties DEF OrderlyQueue, QueueOK
  <2> QED
    BY <1>2, <2>1 DEF Newest, OrderlyQueue
<1> QED
  BY <1>1, <1>2

\* A Send of an orderly status keeps the queue orderly.
LEMMA OrderlyEnqueue ==
  ASSUME NEW q, OrderlyQueue(q), NEW s \in Status, StageInRange(s), Orderly(s)
  PROVE  OrderlyQueue(Enqueue(q, s)) /\ Newest(Enqueue(q, s)) = s
<1>1. QueueOK(Enqueue(q, s)) /\ Newest(Enqueue(q, s)) = s
  BY EnqueueOK DEF OrderlyQueue
<1>2. CASE s = Newest(q)
  BY <1>1, <1>2 DEF Enqueue
<1>3. CASE s # Newest(q)
  <2>1. Enqueue(q, s) = Append(q, s) /\ q \in Seq(Status)
    BY <1>3 DEF Enqueue, OrderlyQueue, QueueOK
  <2>2. /\ Len(Append(q, s)) = Len(q) + 1 /\ Append(q, s)[Len(q) + 1] = s /\ Len(q) \in Nat
        /\ \A i \in 1 .. Len(q) : Append(q, s)[i] = q[i]
    BY <2>1, AppendProperties, LenProperties
  <2>3. ASSUME NEW i \in 1 .. Len(Append(q, s)) PROVE Orderly(Append(q, s)[i])
    <3>1. i \in 1 .. Len(q) \/ i = Len(q) + 1
      BY <2>2
    <3> QED
      BY <2>2, <3>1 DEF OrderlyQueue
  <2> QED
    BY <1>1, <2>1, <2>3 DEF OrderlyQueue
<1> QED
  BY <1>2, <1>3

\* An observation keeps phase and operation, in memory and in the queue.
LEMMA ObservedOrder ==
  ASSUME IInv, Orderly(mem), Orderly(db), OrderlyQueue(sendq)
  PROVE  /\ MemObserved \in Status /\ MemObserved.phase = mem.phase /\ MemObserved.op = mem.op
         /\ OrderlyQueue(QueueObserved) /\ Orderly(Newest(QueueObserved))
         /\ Newest(QueueObserved) \in Status /\ StageInRange(Newest(QueueObserved))
         /\ Newest(QueueObserved).op = mem.op
<1> DEFINE n == Newest(sendq)
<1> DEFINE o == [n EXCEPT !.ex = ObservedEx]
<1>1. /\ MemObserved \in Status /\ Agree(MemObserved, mem)
      /\ ObservedEx \in [Targets -> ExecStatus]
  BY ObservationOK, ObservedOK DEF IInv
<1>2. MemObserved.phase = mem.phase /\ MemObserved.op = mem.op
  BY <1>1, Facts DEF MemObserved, Status
<1>3. n \in Status /\ StageInRange(n) /\ Agree(mem, n) /\ Orderly(n)
  BY Facts, OrderlyNewest
<1>4. o \in Status /\ o.phase = n.phase /\ o.op = n.op /\ o.stage = n.stage
  BY <1>1, <1>3 DEF Status
<1>5. Orderly(o) /\ StageInRange(o)
  BY <1>3, <1>4, OrderlyLike DEF StageInRange
<1>6. QueueObserved = sendq \/ QueueObserved = Enqueue(sendq, o)
  BY DEF QueueObserved
<1> HIDE DEF o
<1>7. OrderlyQueue(Enqueue(sendq, o)) /\ Newest(Enqueue(sendq, o)) = o
  BY <1>4, <1>5, OrderlyEnqueue
<1> QED
  BY <1>1, <1>2, <1>3, <1>4, <1>5, <1>6, <1>7 DEF Agree

\* A handler that sends one orderly status, which memory has too.
LEMMA SendOrder ==
  ASSUME Orderly(db), UNCHANGED db, NEW q, OrderlyQueue(q),
         NEW u \in Status, StageInRange(u), Orderly(u), sendq' = Enqueue(q, u),
         mem'.phase = u.phase, mem'.op = u.op
  PROVE  KeepsOrder
<1>1. OrderlyQueue(sendq')
  BY OrderlyEnqueue
<1>2. Orderly(mem')
  BY OrderlyLike
<1> QED
  BY <1>1, <1>2 DEF KeepsOrder

\* A handler that sends a change of the phase.
LEMMA PhaseOrder ==
  ASSUME Orderly(db), UNCHANGED db, NEW q, OrderlyQueue(q), NEW m \in Status,
         Newest(q) \in Status, StageInRange(Newest(q)), Newest(q).op = m.op,
         NEW ph \in Phases, mem' = WithPhase(m, ph),
         sendq' = Enqueue(q, WithPhase(Newest(q), ph)),
         ph = "Active" \/ (ph = "Error" /\ m.op \in Ops)
  PROVE  KeepsOrder
<1> DEFINE u == WithPhase(Newest(q), ph)
<1>1. /\ u \in Status /\ Agree(u, Newest(q)) /\ u.phase = ph
      /\ mem'.phase = ph /\ mem'.op = m.op
  BY WithPhaseOK DEF WithPhase, Status
<1>2. Orderly(u) /\ StageInRange(u) /\ u.op = m.op
  BY <1>1 DEF Orderly, Agree, StageInRange
<1> HIDE DEF u
<1> QED
  BY <1>1, <1>2, SendOrder DEF u

\* executeForStage prunes and fails, and changes no operation.
LEMMA StageOrder ==
  ASSUME Orderly(db), UNCHANGED db, NEW k, NEW s \in Status, Orderly(s), s.op \in Ops,
         NEW q, OrderlyQueue(q), Newest(q) \in Status, StageInRange(Newest(q)),
         Orderly(Newest(q)), Newest(q).op = s.op, ExecuteForStage(k, s, q)
  PROVE  KeepsOrder
<1>1. PICK D \in SUBSET Eligible(k, s.ex), U \in SUBSET Blocked(k, s.ex), failed \in BOOLEAN :
        LET s1 == IF Overridden THEN s ELSE Pruned(s, U)
            q1 == IF U = {} THEN q ELSE Enqueue(q, Pruned(Newest(q), U))
        IN IF failed
           THEN /\ mem' = WithPhase(s1, "Error")
                /\ sendq' = Enqueue(q1, WithPhase(Newest(q1), "Error"))
                /\ Requeue
           ELSE mem' = s1 /\ sendq' = q1 /\ RequeueAfter
  BY SMTT(30) DEF ExecuteForStage
<1> DEFINE s1 == IF Overridden THEN s ELSE Pruned(s, U)
<1> DEFINE q1 == IF U = {} THEN q ELSE Enqueue(q, Pruned(Newest(q), U))
<1> DEFINE p == Pruned(Newest(q), U)
<1>2. ASSUME NEW r \in Status
      PROVE  Pruned(r, U).phase = r.phase /\ Pruned(r, U).op = r.op
  BY DEF Pruned, Status
<1>3. s1 \in Status /\ s1.op = s.op /\ Orderly(s1)
  BY <1>2, PrunedOK, OrderlyLike
<1>4. p \in Status /\ StageInRange(p) /\ Orderly(p) /\ p.op = s.op
  BY <1>2, PrunedOK, OrderlyLike DEF Agree, StageInRange
<1> HIDE DEF p
<1>5. OrderlyQueue(Enqueue(q, p)) /\ Newest(Enqueue(q, p)) = p
  BY <1>4, OrderlyEnqueue
<1>6. /\ OrderlyQueue(q1) /\ Newest(q1) \in Status /\ StageInRange(Newest(q1))
      /\ Newest(q1).op = s1.op
  BY <1>3, <1>4, <1>5 DEF p
<1>7. IF failed
      THEN mem' = WithPhase(s1, "Error") /\ sendq' = Enqueue(q1, WithPhase(Newest(q1), "Error"))
      ELSE mem' = s1 /\ sendq' = q1
  BY <1>1
<1> HIDE DEF s1, q1
<1>8. CASE failed
  BY <1>3, <1>6, <1>7, <1>8, PhaseOrder DEF Phases
<1>9. CASE ~failed
  BY <1>3, <1>6, <1>7, <1>9 DEF KeepsOrder
<1> QED
  BY <1>8, <1>9

\* The executing handlers.
LEMMA ExecuteOrder ==
  ASSUME IInv, Orderly(mem), Orderly(db), OrderlyQueue(sendq), Execute
  PROVE  KeepsOrder
<1>1. /\ MemObserved \in Status /\ MemObserved.phase = mem.phase /\ MemObserved.op = mem.op
      /\ OrderlyQueue(QueueObserved) /\ Orderly(Newest(QueueObserved))
      /\ Newest(QueueObserved) \in Status /\ StageInRange(Newest(QueueObserved))
      /\ Newest(QueueObserved).op = mem.op
  BY ObservedOrder
<1>2. Orderly(MemObserved)
  BY <1>1, OrderlyLike
<1>3. ExecutionStep => mem.op \in Ops
  BY DEF ExecutionStep, Handles
<1>4. ~OperationMismatch
  BY DEF OperationMismatch, Executing, Orderly
<1>5. CASE ExecuteStageError
  <2>1. /\ mem.op \in Ops /\ UNCHANGED db /\ mem' = WithPhase(MemObserved, "Error")
        /\ sendq' = Enqueue(QueueObserved, WithPhase(Newest(QueueObserved), "Error"))
    BY <1>3, <1>5 DEF ExecuteStageError
  <2> QED
    BY <1>1, <2>1, PhaseOrder DEF Phases
<1>6. CASE ExecuteWait
  BY <1>1, <1>2, <1>6 DEF ExecuteWait, KeepsOrder
<1>7. CASE ExecuteDispatch
  <2>1. /\ mem.op \in Ops /\ UNCHANGED db
        /\ ExecuteForStage(mem.stage, MemObserved, QueueObserved)
    BY <1>3, <1>7 DEF ExecuteDispatch
  <2> QED
    BY <1>1, <1>2, <2>1, StageOrder
<1>8. CASE ExecuteAdvance
  <2> DEFINE next == mem.stage + 1
  <2> DEFINE n == Newest(QueueObserved)
  <2> DEFINE m == [MemObserved EXCEPT !.stage = next]
  <2> DEFINE u == [n EXCEPT !.stage = next]
  <2>1. /\ ExecutionStep /\ ~LastStage /\ UNCHANGED db
        /\ ExecuteForStage(next, m, Enqueue(QueueObserved, u))
    BY <1>8 DEF ExecuteAdvance
  <2>2. next \in Nat \ {0} /\ next <= Len(Stages[mem.op])
    <3>1. mem.stage \in 1 .. Len(Stages[mem.op]) /\ Len(Stages[mem.op]) \in Nat
      BY <2>1, ExecutionStepFacts
    <3>2. ~(mem.stage >= Len(Stages[mem.op]))
      BY <2>1 DEF LastStage
    <3> QED
      BY <3>1, <3>2
  <2>3. /\ m \in Status /\ m.op = mem.op /\ m.phase = mem.phase
        /\ u \in Status /\ u.op = mem.op /\ u.phase = n.phase /\ u.stage = next
    BY <1>1, <2>2 DEF Status
  <2>4. mem.op \in Ops /\ StageInRange(u)
    BY <1>3, <2>1, <2>2, <2>3 DEF StageInRange, Ops
  <2>5. Orderly(m) /\ Orderly(u)
    BY <1>1, <2>3, OrderlyLike
  <2> HIDE DEF next, n, m, u
  <2>6. OrderlyQueue(Enqueue(QueueObserved, u)) /\ Newest(Enqueue(QueueObserved, u)) = u
    BY <1>1, <2>3, <2>4, <2>5, OrderlyEnqueue
  <2> QED
    BY <2>1, <2>3, <2>4, <2>5, <2>6, StageOrder
<1>9. CASE ExecuteFinalize
  <2> DEFINE n == Newest(QueueObserved)
  <2> DEFINE u == Finalized(n)
  <2> DEFINE ph == IF mem.op = "shutdown" THEN "Hibernated" ELSE "Active"
  <2>1. /\ mem.op \in Ops /\ UNCHANGED db
        /\ \/ mem' = Finalized(MemObserved) /\ sendq' = Enqueue(QueueObserved, u)
           \/ mem' = MemObserved /\ sendq' = QueueObserved
    BY <1>3, <1>9 DEF ExecuteFinalize
  <2>2. CASE mem' = MemObserved /\ sendq' = QueueObserved
    BY <1>1, <1>2, <2>1, <2>2 DEF KeepsOrder
  <2>3. CASE mem' = Finalized(MemObserved) /\ sendq' = Enqueue(QueueObserved, u)
    <3>1. ph \in Phases /\ 0 \in Nat
      BY DEF Phases
    <3>2. /\ u \in Status /\ u.op = mem.op /\ u.stage = n.stage /\ u.phase = ph
          /\ mem'.op = mem.op /\ mem'.phase = ph
      BY <1>1, <2>3, <3>1 DEF Finalized, Status
    <3>3. Orderly(u) /\ StageInRange(u)
      BY <1>1, <2>1, <3>2 DEF Orderly, StageInRange
    <3> HIDE DEF u, n
    <3> QED
      BY <1>1, <2>1, <2>3, <3>2, <3>3, SendOrder
  <2> QED
    BY <2>1, <2>2, <2>3
<1> QED
  BY <1>4, <1>5, <1>6, <1>7, <1>8, <1>9 DEF Execute

\* idleState, lifecycleState and recoveryState.
LEMMA RestOrder ==
  ASSUME IInv, Orderly(mem), Orderly(db), OrderlyQueue(sendq), Idle \/ Recovery \/ TransientError
  PROVE  KeepsOrder
<1> DEFINE n == Newest(sendq)
<1>0. /\ mem \in Status /\ n \in Status /\ StageInRange(n) /\ n.op = mem.op /\ n.stage = mem.stage
      /\ n.cycle = mem.cycle /\ mem.cycle \in Nat
      /\ Orderly(n)
  BY Facts, OrderlyNewest DEF Agree, Status
<1>1. CASE LifecycleInit
  <2>1. /\ mem' = WithPhase(mem, "Active") /\ sendq' = Enqueue(sendq, WithPhase(n, "Active"))
        /\ UNCHANGED db
    BY <1>1 DEF LifecycleInit
  <2> HIDE DEF n
  <2> QED
    BY <1>0, <2>1, PhaseOrder DEF Phases, n
<1>2. ASSUME NEW op \in Ops, NEW c \in Nat, UNCHANGED db,
             mem' = Started(mem, op, c), sendq' = Enqueue(sendq, Started(n, op, c))
      PROVE  KeepsOrder
  <2> DEFINE u == Started(n, op, c)
  <2>1. /\ u \in Status /\ StageInRange(u) /\ u.op = op /\ u.phase = PhaseOf(op)
        /\ mem'.op = op /\ mem'.phase = PhaseOf(op)
    BY <1>0, <1>2, StartedOK DEF Started
  <2>2. Orderly(u)
    BY <2>1 DEF Orderly, Handles, PhaseOf, Ops
  <2> HIDE DEF u
  <2> QED
    BY <1>2, <2>1, <2>2, SendOrder DEF u
<1>3. CASE TransitionToHibernating
  <2>1. /\ UNCHANGED db
        /\ \E c \in IF LiveCycles = {} THEN {cycles + 1} ELSE LiveCycles :
             /\ mem' = Started(mem, "shutdown", c)
             /\ sendq' = Enqueue(sendq, Started(n, "shutdown", c))
    BY <1>3 DEF TransitionToHibernating
  <2>2. LiveCycles \subseteq Nat /\ cycles + 1 \in Nat
    BY DEF IInv, RestInv, LiveCycles
  <2>3. PICK c \in Nat : /\ mem' = Started(mem, "shutdown", c)
                         /\ sendq' = Enqueue(sendq, Started(n, "shutdown", c))
    BY <2>1, <2>2
  <2>4. "shutdown" \in Ops
    BY DEF Ops
  <2> HIDE DEF n
  <2> QED
    BY <1>2, <2>1, <2>3, <2>4
<1>4. CASE TransitionToWakingUp
  <2>1. /\ UNCHANGED db /\ mem' = Started(mem, "wakeup", mem.cycle)
        /\ sendq' = Enqueue(sendq, Started(n, "wakeup", mem.cycle))
    BY <1>0, <1>4 DEF TransitionToWakingUp
  <2>2. "wakeup" \in Ops
    BY DEF Ops
  <2> HIDE DEF n
  <2> QED
    BY <1>0, <1>2, <2>1, <2>2
<1>5. CASE IdleStay \/ RecoveryBackoff \/ ManualRetryFails \/ RecoveryAborted \/ TransientError
  BY <1>5 DEF IdleStay, RecoveryBackoff, ManualRetryFails, RecoveryAborted, TransientError, KeepsOrder
<1>6. CASE Retry
  <2> DEFINE u == Retried(n)
  <2>1. mem.phase = "Error" /\ UNCHANGED db /\ mem' = Retried(mem) /\ sendq' = Enqueue(sendq, u)
    BY <1>6 DEF Retry, Selected
  <2>2. mem.op \in Ops /\ RetryOp = mem.op
    BY <2>1 DEF Orderly, RetryOp, Ops
  <2>3. /\ u \in Status /\ u.op = mem.op /\ u.stage = n.stage /\ mem'.op = mem.op
    BY <1>0, <2>1, RetriedOK
  <2>4. u.phase = PhaseOf(mem.op) /\ mem'.phase = PhaseOf(mem.op)
    BY <1>0, <2>1, <2>2 DEF Retried, Status
  <2>5. Orderly(u) /\ StageInRange(u)
    BY <1>0, <2>2, <2>3, <2>4 DEF Orderly, Handles, PhaseOf, Ops, StageInRange
  <2> HIDE DEF u
  <2> QED
    BY <2>1, <2>3, <2>4, <2>5, SendOrder
<1>7. CASE ManualRetry
  <2> DEFINE u == [n EXCEPT !.retry = 0]
  <2>1. /\ UNCHANGED db /\ mem.phase = "Error"
        /\ mem' = [mem EXCEPT !.retry = 0] /\ sendq' = Enqueue(sendq, u)
    BY <1>7 DEF ManualRetry, Selected
  <2>2. /\ u \in Status /\ u.op = n.op /\ u.stage = n.stage /\ u.phase = n.phase
        /\ mem'.op = mem.op /\ mem'.phase = mem.phase
    BY <1>0, <2>1 DEF Status
  <2>3. Orderly(u) /\ StageInRange(u)
    BY <1>0, <2>2, OrderlyLike DEF StageInRange
  <2> HIDE DEF u
  <2>4. OrderlyQueue(sendq')
    BY <2>1, <2>2, <2>3, OrderlyEnqueue
  <2>5. Orderly(mem')
    BY <2>2, OrderlyLike
  <2> QED
    BY <2>1, <2>4, <2>5 DEF KeepsOrder
<1> QED
  BY <1>1, <1>3, <1>4, <1>5, <1>6, <1>7 DEF Idle, Recovery

\* The status writer writes what was queued, with executions of another status.
LEMMA WriteOrder ==
  ASSUME IInv, IInv', Orderly(mem), Orderly(db), OrderlyQueue(sendq), WriteStatus
  PROVE  KeepsOrder
<1>1. PICK i \in 1 .. Len(sendq) : db' = [Head(sendq) EXCEPT !.ex = sendq[i].ex]
  BY DEF WriteStatus
<1>2. sendq \in Seq(Status) /\ sendq # <<>> /\ sendq' = Tail(sendq) /\ mem' = mem
  BY DEF WriteStatus, OrderlyQueue, QueueOK
<1>3. /\ Head(sendq) = sendq[1] /\ 1 \in 1 .. Len(sendq) /\ Len(sendq) \in Nat
      /\ Len(Tail(sendq)) = Len(sendq) - 1
      /\ \A k \in 1 .. Len(Tail(sendq)) : Tail(sendq)[k] = sendq[k + 1]
  BY <1>2, EmptySeq, LenProperties, HeadTailProperties
<1>4. sendq[1] \in Status /\ Orderly(sendq[1])
  BY <1>2, <1>3 DEF OrderlyQueue
<1>5. db'.phase = sendq[1].phase /\ db'.op = sendq[1].op
  BY <1>1, <1>3, <1>4 DEF Status
<1>6. Orderly(db')
  BY <1>4, <1>5, OrderlyLike
<1>7. ASSUME NEW k \in 1 .. Len(Tail(sendq)) PROVE Orderly(Tail(sendq)[k])
  <2>1. k + 1 \in 1 .. Len(sendq)
    BY <1>3
  <2> QED
    BY <1>3, <2>1 DEF OrderlyQueue
<1>8. QueueOK(sendq')
  BY DEF IInv, StatusInv, QueueOK, StageInRange
<1> QED
  BY <1>2, <1>6, <1>7, <1>8 DEF KeepsOrder, OrderlyQueue

\* While nobody asks for a suspension, none is under way.
LEMMA StaysCalm ==
  ASSUME IInv, Calm, mem.phase # "Suspended", [Next]_vars, ~UserSuspend
  PROVE  Calm' /\ ~Suspension /\ ~DrainTimeout
<1>1. ~SuspensionGate /\ ~Suspension /\ ~DrainTimeout
  BY DEF Calm, SuspensionGate, Suspension, AwaitExecutionDrain, PreSuspension, SuspendedStay,
    Resume, ForceWakeUpOnResume, Selected, DrainTimeout
<1>2. api \in PlanObject /\ ctx \in PlanContext
  BY DEF IInv, PlanInv
<1>3. ASSUME NEW o \in PlanObject, ~o.suspend, PatchPlan(o) PROVE ~api'.suspend /\ ~ctx'.suspend /\ slot' = slot
  BY <1>2, <1>3 DEF PatchPlan, PlanContext
<1>4. /\ [api EXCEPT !.suspendedAt = ""] \in PlanObject
      /\ ~[api EXCEPT !.suspendedAt = ""].suspend
      /\ [api EXCEPT !.retryNow = FALSE] \in PlanObject
      /\ ~[api EXCEPT !.retryNow = FALSE].suspend
  <2>1. "" \in Phases /\ FALSE \in BOOLEAN
    BY Zenon DEF Phases
  <2> QED
    BY <1>2, <2>1 DEF Calm, PlanObject
<1>5. CASE Execute
  <2>1. ~watchdog'
    BY <1>5 DEF Execute, OperationMismatch, ExecuteStageError, ExecuteAdvance, ExecuteDispatch,
      ExecuteWait, ExecuteFinalize, ExecuteForStage, Requeue, RequeueAfter, GoQuiet
  <2>2. \/ UNCHANGED planVars
        \/ PatchPlan([api EXCEPT !.suspendedAt = ""])
        \/ ctx' = [ctx EXCEPT !.suspendedAt = ""] /\ UNCHANGED <<api, dirty, slot>>
    BY <1>5, Zenon DEF Execute, OperationMismatch, ExecuteStageError, ExecuteAdvance,
      ExecuteDispatch, ExecuteWait, ExecuteFinalize, PostWakeupCleanup, Unlock,
      CleanupSuspensionAnnotations, planVars
  <2>3. ctx' = [ctx EXCEPT !.suspendedAt = ""] => ctx'.suspend = ctx.suspend
    BY <1>2 DEF PlanContext
  <2> QED
    BY <1>1, <1>3, <1>4, <2>1, <2>2, <2>3 DEF Calm, planVars
<1>6. CASE Idle \/ Recovery \/ TransientError
  <2>1. ~watchdog'
    BY <1>6 DEF Idle, Recovery, TransientError, LifecycleInit, TransitionToHibernating,
      TransitionToWakingUp, IdleStay, RecoveryBackoff, Retry, ManualRetry, ManualRetryFails,
      RecoveryAborted, Requeue, RequeueAfter, GoQuiet
  <2>2. \/ UNCHANGED planVars
        \/ PatchPlan([api EXCEPT !.retryNow = FALSE])
        \/ ctx' = [ctx EXCEPT !.retryNow = FALSE] /\ UNCHANGED <<api, dirty, slot>>
    BY <1>6, Zenon DEF Idle, Recovery, TransientError, LifecycleInit, TransitionToHibernating,
      TransitionToWakingUp, IdleStay, RecoveryBackoff, Retry, ManualRetry, ManualRetryFails,
      RecoveryAborted, planVars
  <2>3. ctx' = [ctx EXCEPT !.retryNow = FALSE] => ctx'.suspend = ctx.suspend
    BY <1>2 DEF PlanContext
  <2> QED
    BY <1>1, <1>3, <1>4, <2>1, <2>2, <2>3 DEF Calm, planVars
<1>7. CASE WriteStatus \/ Reconcile \/ Deliver \/ IdleExit \/ Crash
  BY <1>1, <1>7 DEF Calm, WriteStatus, Reconcile, Deliver, IdleExit, Crash, Forget, planVars, timerVars
<1>8. CASE JobStep \/ ScheduleBoundary
  <2>1. UNCHANGED <<api, ctx, slot, watchdog>>
    BY <1>8 DEF JobStep, JobStart, JobPodFails, ShutdownSucceeds, WakeupSucceeds,
      JobFails, JobRemoved, MarkJobAsStale, ScheduleBoundary, planVars, timerVars
  <2> QED
    BY <1>1, <2>1 DEF Calm
<1>9. CASE UserRetryNow
  <2>1. ~api'.suspend /\ UNCHANGED <<ctx, slot, watchdog>>
    BY <1>2, <1>9 DEF UserRetryNow, Calm, PlanObject, timerVars
  <2> QED
    BY <1>1, <2>1 DEF Calm
<1>10. CASE UNCHANGED vars
  BY <1>1, <1>10 DEF Calm, vars, planVars, timerVars
<1> QED
  BY <1>1, <1>5, <1>6, <1>7, <1>8, <1>9, <1>10 DEF Next, Handle, Outside

\* A suspension is counted, and no count is taken back.
LEMMA SuspendCounted ==
  ASSUME IInv, [Next]_vars, used'["suspend"] = 0
  PROVE  used["suspend"] = 0 /\ ~UserSuspend
<1>1. used \in [Events -> Nat] /\ "suspend" \in Events
  BY DEF IInv, RestInv, Events
<1>2. used["suspend"] = 0
  BY <1>1, NeverUncounted
<1>3. UserSuspend => used'["suspend"] = used["suspend"] + 1
  BY <1>1 DEF UserSuspend, Count
<1> QED
  BY <1>2, <1>3

\* Every step keeps the statuses orderly until a user suspends.
LEMMA NextOrder == IInv /\ IInv' /\ OrderlyInv /\ [Next]_vars => OrderlyInv'
<1> SUFFICES ASSUME IInv, IInv', OrderlyInv, [Next]_vars, used'["suspend"] = 0
             PROVE  Calm' /\ KeepsOrder
  BY DEF OrderlyInv, KeepsOrder, Orderly, OrderlyQueue, QueueOK, StageInRange, Handles
<1>1. ~UserSuspend /\ Calm /\ Orderly(mem) /\ Orderly(db) /\ OrderlyQueue(sendq)
  BY SuspendCounted DEF OrderlyInv
<1>2. mem.phase # "Suspended"
  BY <1>1 DEF Orderly
<1>3. Calm' /\ ~Suspension /\ ~DrainTimeout
  BY <1>1, <1>2, StaysCalm
<1>4. ASSUME Execute PROVE KeepsOrder
  BY <1>1, <1>4, ExecuteOrder
<1>5. ASSUME Idle \/ Recovery \/ TransientError PROVE KeepsOrder
  BY <1>1, <1>5, RestOrder
<1>6. ASSUME WriteStatus PROVE KeepsOrder
  BY <1>1, <1>6, WriteOrder
<1>7. ASSUME IdleExit \/ Crash PROVE KeepsOrder
  <2>1. mem' = db /\ db' = db /\ sendq' = <<>>
    BY <1>7 DEF IdleExit, Crash, Forget
  <2>2. OrderlyQueue(<<>>)
    BY DEF OrderlyQueue, QueueOK
  <2> QED
    BY <1>1, <2>1, <2>2 DEF KeepsOrder
<1>8. ASSUME Reconcile \/ Deliver \/ JobStep \/ UserRetryNow \/ ScheduleBoundary PROVE KeepsOrder
  <2>1. UNCHANGED <<mem, sendq, db>>
    BY <1>8 DEF Reconcile, Deliver, JobStep, JobStart, JobPodFails, ShutdownSucceeds,
      WakeupSucceeds, JobFails, JobRemoved, MarkJobAsStale, UserRetryNow, ScheduleBoundary
  <2> QED
    BY <1>1, <2>1 DEF KeepsOrder
<1>9. ASSUME UNCHANGED vars PROVE KeepsOrder
  BY <1>1, <1>9 DEF KeepsOrder, vars
<1>10. KeepsOrder
  BY <1>1, <1>3, <1>4, <1>5, <1>6, <1>7, <1>8, <1>9 DEF Next, Handle, Outside
<1> QED
  BY <1>3, <1>10

\* Nothing is suspended at the start.
LEMMA InitOrder == Init => OrderlyInv
<1> SUFFICES ASSUME Init PROVE Calm /\ Orderly(mem) /\ Orderly(db) /\ OrderlyQueue(sendq)
  BY DEF OrderlyInv
<1>1. OrderlyQueue(<<>>)
  BY DEF OrderlyQueue, QueueOK
<1> QED
  BY <1>1 DEF Init, Calm, Orderly

\* The inductive invariant of a plan that is not suspended.
THEOREM OrderInvariant == Spec => []OrderlyInv
BY InitOrder, NextOrder, WorkerInvariant, PTL DEF Spec

\* Until a user suspends the plan for the first time, every status in memory,
\* queued or persisted has a phase that matches its operation, a stage of its
\* execution plan and a retry count within behavior.retries: no restart, lag or
\* fault alone makes hibernatingState.Handle raise its operation mismatch.
THEOREM CoherentUntilSuspended == Spec => [](used["suspend"] = 0 => StatusCoherent)
<1>1. ASSUME IInv, OrderlyInv, Proved!LineOK, used["suspend"] = 0
      PROVE  StatusCoherent
  <2>1. Orderly(mem) /\ Orderly(db) /\ OrderlyQueue(sendq)
    BY <1>1 DEF OrderlyInv
  <2>2. ASSUME NEW s \in Status, Orderly(s), StageInRange(s), Proved!InBounds(Abs(s))
        PROVE  Coherent(s)
    <3>1. s.retry <= MaxRetries
      BY <2>2 DEF Proved!InBounds, Abs
    <3>2. s.op \in Ops => s.stage <= Len(Stages[s.op])
      BY <2>2 DEF StageInRange, Ops
    <3> QED
      BY <2>2, <3>1, <3>2 DEF Coherent, Orderly
  <2>3. Coherent(mem)
    BY <1>1, <2>1, <2>2 DEF IInv, StatusInv, Proved!LineOK
  <2>4. /\ Len(sendq) \in Nat /\ Len(AbsQueue(sendq)) = Len(sendq)
        /\ \A i \in 1 .. Len(sendq) : sendq[i] \in Status /\ AbsQueue(sendq)[i] = Abs(sendq[i])
    BY <1>1, AbsQueueType DEF IInv, StatusInv
  <2>5. Coherent(db)
    <3>1. 0 \in 0 .. Len(AbsQueue(sendq)) /\ Proved!At(0) = Abs(db)
      BY <2>4 DEF Proved!At
    <3> QED
      BY <1>1, <2>1, <2>2, <3>1 DEF IInv, StatusInv, Proved!LineOK
  <2>6. ASSUME NEW i \in 1 .. Len(sendq) PROVE Coherent(sendq[i])
    <3>1. i \in 0 .. Len(AbsQueue(sendq)) /\ Proved!At(i) = Abs(sendq[i])
      BY <2>4 DEF Proved!At
    <3>2. Proved!InBounds(Abs(sendq[i]))
      BY <1>1, <3>1 DEF Proved!LineOK
    <3> QED
      BY <1>1, <2>1, <2>2, <2>4, <3>2 DEF OrderlyQueue, QueueOK
  <2> QED
    BY <2>3, <2>5, <2>6 DEF StatusCoherent, Statuses
<1>2. IInv /\ OrderlyInv /\ Proved!LineOK => (used["suspend"] = 0 => StatusCoherent)
  BY <1>1
<1> QED
  BY <1>2, OrderInvariant, WorkerInvariant, WorkerLine, PTL

-----------------------------------------------------------------------------
(* The labels and names of Jobs *)

Working == {j \in jobs : ~Finished(j)}

\* Jobs have their own names; only one that is over is taken for failed or stale.
LabelInv ==
  /\ \A j \in jobs : (j.podFailed \/ j.stale => Finished(j)) /\ j.n <= made[j.t]
  /\ \A i, j \in jobs : i.t = j.t /\ i.n = j.n => i = j

\* The markJobAsStale goroutines are for Jobs that are over.
MarkInv ==
  \A m \in marking : /\ m[2] <= made[m[1]]
                     /\ \A j \in jobs : j.t = m[1] /\ j.n = m[2] => Finished(j)

\* A pod that fails while its Job goes on is what handleRetry mislabels.
LabelsInv == used["podFailure"] = 0 => LabelInv /\ MarkInv

\* The Jobs an observation hands to markJobAsStale are over.
LEMMA TrackedMarks ==
  ASSUME LabelInv, MarkInv, marking' = marking \/ TrackJobs, NEW m \in marking'
  PROVE  /\ m[2] <= made[m[1]]
         /\ \A j \in jobs : j.t = m[1] /\ j.n = m[2] => Finished(j)
<1>1. m \in marking \/ \E i \in jobs : Finished(i) /\ m = <<i.t, i.n>>
  BY DEF TrackJobs, NewlyTerminal
<1>2. ASSUME NEW i \in jobs, Finished(i), m = <<i.t, i.n>>
      PROVE  /\ m[2] <= made[m[1]]
             /\ \A j \in jobs : j.t = m[1] /\ j.n = m[2] => Finished(j)
  BY <1>2 DEF LabelInv
<1> QED
  BY <1>1, <1>2 DEF MarkInv

\* A step that leaves the Jobs alone.
LEMMA SameLabels ==
  ASSUME LabelInv, MarkInv, UNCHANGED <<jobs, made>>, marking' \subseteq marking \/ TrackJobs
  PROVE  LabelInv' /\ MarkInv'
<1>1. LabelInv'
  BY DEF LabelInv, Finished
<1>2. CASE marking' \subseteq marking
  BY <1>1, <1>2 DEF MarkInv, Finished
<1>3. CASE TrackJobs
  BY <1>1, <1>3, TrackedMarks DEF MarkInv, Finished
<1> QED
  BY <1>2, <1>3

\* Jobs that disappear.
LEMMA FewerLabels ==
  ASSUME LabelInv, MarkInv, UNCHANGED <<made, marking>>, jobs' \subseteq jobs
  PROVE  LabelInv' /\ MarkInv'
BY DEF LabelInv, MarkInv, Finished

\* Jobs that are over get the stale label: nothing that runs is touched.
LEMMA Relabels ==
  ASSUME JobInv, LabelInv, MarkInv, NEW J \in SUBSET jobs, \A j \in J : Finished(j),
         jobs' = Relabelled(J), made' = made, marking' \subseteq marking
  PROVE  /\ LabelInv' /\ MarkInv' /\ Working' = Working
         /\ \A j \in jobs' : j \in jobs \/ (j.stale /\ Finished(j))
<1>1. ASSUME NEW i \in J
      PROVE  LET j == [i EXCEPT !.stale = TRUE]
             IN /\ j.t = i.t /\ j.n = i.n /\ j.op = i.op /\ j.cyc = i.cyc /\ j.st = i.st
                /\ j.stale /\ Finished(i) /\ Finished(j)
  <2>1. i \in Job
    BY DEF JobInv
  <2> QED
    BY <2>1 DEF Job, Finished
<1>2. ASSUME NEW j \in jobs'
      PROVE  \/ j \in jobs /\ j \notin J
             \/ \E i \in J : j = [i EXCEPT !.stale = TRUE] /\ j.t = i.t /\ j.n = i.n
                             /\ j.stale /\ Finished(j)
  <2>1. (j \in jobs /\ j \notin J) \/ \E i \in J : j = [i EXCEPT !.stale = TRUE]
    BY DEF Relabelled
  <2> QED
    BY <1>1, <2>1
<1>3. Working' = Working
  <2>1. ASSUME NEW j \in jobs', ~Finished(j) PROVE j \in jobs
    BY <1>2, <2>1
  <2>2. ASSUME NEW j \in jobs, ~Finished(j) PROVE j \in jobs'
    BY <2>2 DEF Relabelled
  <2> QED
    BY <2>1, <2>2 DEF Working, Finished
<1>4. LabelInv'
  <2>1. ASSUME NEW j \in jobs' PROVE (j.podFailed \/ j.stale => Finished(j)) /\ j.n <= made[j.t]
    BY <1>2 DEF LabelInv
  <2>2. ASSUME NEW i \in jobs', NEW j \in jobs', i.t = j.t, i.n = j.n PROVE i = j
    <3>1. \A x, y \in jobs : x.t = y.t /\ x.n = y.n => x = y
      BY DEF LabelInv
    <3>2. PICK x \in jobs : /\ x.t = i.t /\ x.n = i.n
                            /\ (x \notin J /\ i = x) \/ (x \in J /\ i = [x EXCEPT !.stale = TRUE])
      BY <1>2
    <3>3. PICK y \in jobs : /\ y.t = j.t /\ y.n = j.n
                            /\ (y \notin J /\ j = y) \/ (y \in J /\ j = [y EXCEPT !.stale = TRUE])
      BY <1>2
    <3>4. x = y
      BY <2>2, <3>1, <3>2, <3>3
    <3> QED
      BY <3>2, <3>3, <3>4
  <2> QED
    BY <2>1, <2>2 DEF LabelInv, Finished
<1>5. MarkInv'
  BY <1>2 DEF MarkInv, Finished
<1> QED
  BY <1>2, <1>3, <1>4, <1>5

\* A Job that moves on keeps its name, and its label if it had one.
LEMMA MoveLabels ==
  ASSUME LabelInv, MarkInv, UNCHANGED <<made, marking>>, NEW j \in jobs, NEW k,
         Successor(j, k), k.podFailed => j.podFailed \/ Finished(k), Became(j, k)
  PROVE  LabelInv' /\ MarkInv'
<1>1. /\ ~Finished(j) /\ k.t = j.t /\ k.n = j.n /\ k.stale = j.stale
      /\ jobs' = (jobs \ {j}) \cup {k}
  BY DEF Successor, Became
<1>2. ~j.stale /\ ~j.podFailed
  BY <1>1 DEF LabelInv
<1>3. \A i \in jobs' : (i.podFailed \/ i.stale => Finished(i)) /\ i.n <= made[i.t]
  BY <1>1, <1>2 DEF LabelInv
<1>4. \A i, l \in jobs' : i.t = l.t /\ i.n = l.n => i = l
  BY <1>1 DEF LabelInv
<1>5. \A m \in marking : ~(j.t = m[1] /\ j.n = m[2])
  BY <1>1 DEF MarkInv
<1>6. MarkInv'
  BY <1>1, <1>5 DEF MarkInv, Finished
<1> QED
  BY <1>3, <1>4, <1>6 DEF LabelInv, Finished

\* New Jobs have new names.
LEMMA NewLabels ==
  ASSUME JobInv, JobInv', LabelInv, MarkInv, TrackJobs, NEW E \in SUBSET Targets,
         jobs' = jobs \cup {NewJob(t) : t \in E},
         made' = [t \in Targets |-> IF t \in E THEN made[t] + 1 ELSE made[t]]
  PROVE  LabelInv' /\ MarkInv'
<1> DEFINE N == {NewJob(t) : t \in E}
<1>0. made \in [Targets -> Nat]
  BY DEF JobInv
<1>1. ASSUME NEW t \in E PROVE made[t] \in Nat /\ made'[t] = made[t] + 1
  BY <1>0
<1>2. ASSUME NEW j \in N
      PROVE  /\ \E t \in E : j = NewJob(t) /\ j.t = t
             /\ j.t \in E /\ j.n = made[j.t] + 1 /\ ~j.podFailed /\ ~j.stale
  BY DEF NewJob
<1>3. jobs' = jobs \cup N
  OBVIOUS
<1> HIDE DEF N
<1>4. ASSUME NEW j \in jobs
      PROVE  /\ j.t \in Targets /\ j.n \in Nat /\ j.n <= made[j.t]
             /\ made[j.t] \in Nat /\ made'[j.t] \in Nat /\ made[j.t] <= made'[j.t]
  <2>1. j \in Job
    BY DEF JobInv
  <2>2. j.t \in Targets /\ j.n \in Nat /\ made[j.t] \in Nat
    BY <1>0, <2>1 DEF Job
  <2> QED
    BY <2>2 DEF LabelInv
<1>5. ASSUME NEW j \in jobs'
      PROVE  (j.podFailed \/ j.stale => Finished(j)) /\ j.n <= made'[j.t]
  <2>1. CASE j \in jobs
    <3>1. j.n <= made'[j.t]
      BY <1>4, <2>1
    <3> QED
      BY <2>1, <3>1 DEF LabelInv
  <2>2. CASE j \in N
    BY <1>1, <1>2, <2>2
  <2> QED
    BY <1>3, <2>1, <2>2
<1>6. ASSUME NEW i \in jobs', NEW j \in jobs', i.t = j.t, i.n = j.n
      PROVE  i = j
  <2>1. CASE i \in jobs /\ j \in jobs
    BY <1>6, <2>1 DEF LabelInv
  <2>2. CASE i \in N /\ j \in N
    BY <1>2, <1>6, <2>2
  <2>3. CASE i \in jobs /\ j \in N
    BY <1>2, <1>4, <1>6, <2>3
  <2>4. CASE i \in N /\ j \in jobs
    BY <1>2, <1>4, <1>6, <2>4
  <2> QED
    BY <1>3, <2>1, <2>2, <2>3, <2>4
<1>7. MarkInv'
  <2> SUFFICES ASSUME NEW m \in marking'
               PROVE  /\ m[2] <= made'[m[1]]
                      /\ \A j \in jobs' : j.t = m[1] /\ j.n = m[2] => Finished(j)
    BY DEF MarkInv, Finished
  <2>1. /\ m[2] <= made[m[1]]
        /\ \A j \in jobs : j.t = m[1] /\ j.n = m[2] => Finished(j)
    BY TrackedMarks
  <2>2. m[1] \in Targets /\ m[2] \in Nat
    BY DEF JobInv
  <2>3. made[m[1]] \in Nat /\ made'[m[1]] \in {made[m[1]], made[m[1]] + 1}
    BY <1>0, <2>2
  <2>4. ASSUME NEW j \in N, j.t = m[1], j.n = m[2] PROVE FALSE
    BY <1>2, <2>1, <2>2, <2>3, <2>4
  <2> QED
    BY <1>3, <2>1, <2>2, <2>3, <2>4
<1> QED
  BY <1>5, <1>6, <1>7 DEF LabelInv, Finished

\* What executeForStage creates, in every mode; and what it does to the phase.
LEMMA StageJobs ==
  ASSUME NEW k, NEW s \in Status, NEW q, ExecuteForStage(k, s, q)
  PROVE  \E D \in SUBSET Eligible(k, s.ex), U \in SUBSET Blocked(k, s.ex) :
           /\ Cardinality(D) <= Slots(k)
           /\ mem'.phase \in {s.phase, "Error"}
           /\ Mode = "BestEffort" /\ ~Overridden => mem' = Pruned(s, U)
           /\ \E E \in SUBSET D :
                /\ jobs' = jobs \cup {NewJob(t) : t \in E}
                /\ made' = [t \in Targets |-> IF t \in E THEN made[t] + 1 ELSE made[t]]
<1>1. PICK D \in SUBSET Eligible(k, s.ex), U \in SUBSET Blocked(k, s.ex), failed \in BOOLEAN :
        \E F \in SUBSET D : \E G \in SUBSET F :
          /\ LoopOutcome(k, s.ex, D, F, U, failed)
          /\ jobs' = jobs \cup {NewJob(t) : t \in (D \ F) \cup G}
          /\ made' = [t \in Targets |-> IF t \in (D \ F) \cup G THEN made[t] + 1 ELSE made[t]]
          /\ LET s1 == IF Overridden THEN s ELSE Pruned(s, U)
                 q1 == IF U = {} THEN q ELSE Enqueue(q, Pruned(Newest(q), U))
             IN IF failed
                THEN /\ mem' = WithPhase(s1, "Error")
                     /\ sendq' = Enqueue(q1, WithPhase(Newest(q1), "Error"))
                     /\ Requeue
                ELSE mem' = s1 /\ sendq' = q1 /\ RequeueAfter
  BY DEF ExecuteForStage
<1>2. Pruned(s, U) \in Status /\ Pruned(s, U).phase = s.phase
  <2>1. Pruned(s, U) \in Status
    BY PrunedOK
  <2>2. ASSUME NEW x PROVE [s EXCEPT !.ex = x].phase = s.phase
    BY DEF Status
  <2> QED
    BY <2>1, <2>2 DEF Pruned
<1>3. \A r \in Status : WithPhase(r, "Error").phase = "Error"
  BY DEF WithPhase, Status
<1>4. mem'.phase \in {s.phase, "Error"}
  BY <1>1, <1>2, <1>3
<1>5. Mode = "BestEffort" /\ ~Overridden => mem' = Pruned(s, U)
  BY <1>1 DEF LoopOutcome
<1>6. PICK F \in SUBSET D : \E G \in SUBSET F :
        /\ LoopOutcome(k, s.ex, D, F, U, failed)
        /\ jobs' = jobs \cup {NewJob(t) : t \in (D \ F) \cup G}
        /\ made' = [t \in Targets |-> IF t \in (D \ F) \cup G THEN made[t] + 1 ELSE made[t]]
  BY <1>1
<1>7. PICK G \in SUBSET F :
        /\ LoopOutcome(k, s.ex, D, F, U, failed)
        /\ jobs' = jobs \cup {NewJob(t) : t \in (D \ F) \cup G}
        /\ made' = [t \in Targets |-> IF t \in (D \ F) \cup G THEN made[t] + 1 ELSE made[t]]
  BY <1>6
<1> DEFINE E == (D \ F) \cup G
<1>8. /\ E \in SUBSET D /\ jobs' = jobs \cup {NewJob(t) : t \in E}
      /\ made' = [t \in Targets |-> IF t \in E THEN made[t] + 1 ELSE made[t]]
      /\ Cardinality(D) <= Slots(k)
  BY <1>7 DEF LoopOutcome
<1> HIDE DEF E
<1> QED
  BY <1>4, <1>5, <1>8

\* The handlers' part in the labels.
LEMMA HandleLabels ==
  ASSUME IInv, IInv', LabelInv, MarkInv, Handle \/ DrainTimeout \/ TransientError
  PROVE  LabelInv' /\ MarkInv'
<1>0. JobInv /\ JobInv' /\ mem \in Status
  BY DEF IInv, StatusInv
<1>1. CASE Idle \/ TransientError
  <2>1. UNCHANGED jobVars
    BY <1>1 DEF Idle, LifecycleInit, TransitionToHibernating, TransitionToWakingUp, IdleStay,
      TransientError
  <2> QED
    BY <2>1, SameLabels DEF jobVars
<1>2. CASE \/ OperationMismatch \/ ExecuteStageError \/ ExecuteWait \/ ExecuteFinalize
           \/ Suspension \/ DrainTimeout
  <2>1. UNCHANGED <<jobs, made>> /\ (marking' = marking \/ TrackJobs)
    BY <1>2 DEF OperationMismatch, ExecuteStageError, ExecuteWait, ExecuteFinalize,
      ExecutionStep, Suspension, AwaitExecutionDrain, PreSuspension, PerformSuspension,
      SuspensionPatchFails, SuspendedStay, Resume, ForceWakeUpOnResume, DrainTimeout, jobVars
  <2> QED
    BY <2>1, SameLabels
<1>3. CASE RecoveryBackoff \/ ManualRetry \/ ManualRetryFails \/ RecoveryAborted
  <2>1. UNCHANGED jobVars
    BY <1>3 DEF RecoveryBackoff, ManualRetry, ManualRetryFails, RecoveryAborted
  <2> QED
    BY <2>1, SameLabels DEF jobVars
<1>4. CASE Retry
  <2>1. PICK J \in SUBSET RetryStale : jobs' = Relabelled(J) /\ made' = made /\ marking' = marking
    BY <1>4 DEF Retry
  <2>2. J \in SUBSET jobs /\ \A j \in J : Finished(j)
    BY DEF RetryStale, LabelInv
  <2> QED
    BY <1>0, <2>1, <2>2, Relabels
<1>5. ASSUME NEW k \in 1 .. Len(Stages[mem.op]), NEW s \in Status, NEW q, ExecutionStep,
             ExecuteForStage(k, s, q)
      PROVE  LabelInv' /\ MarkInv'
  <2>1. TrackJobs /\ mem.op \in Ops
    BY <1>5 DEF ExecutionStep, Handles
  <2>2. PICK D \in SUBSET Eligible(k, s.ex) : \E E \in SUBSET D :
          /\ jobs' = jobs \cup {NewJob(t) : t \in E}
          /\ made' = [t \in Targets |-> IF t \in E THEN made[t] + 1 ELSE made[t]]
    BY <1>5, StageJobs
  <2>3. PICK E \in SUBSET D :
          /\ jobs' = jobs \cup {NewJob(t) : t \in E}
          /\ made' = [t \in Targets |-> IF t \in E THEN made[t] + 1 ELSE made[t]]
    BY <2>2
  <2>4. D \subseteq Stages[mem.op][k].targets
    BY DEF Eligible, Unfinished, StageAt
  <2>5. E \in SUBSET Targets
    BY <1>5, <2>1, <2>4, StageTargets
  <2> QED
    BY <1>0, <2>1, <2>3, <2>5, NewLabels
<1>6. MemObserved \in Status
  BY ObservationOK DEF IInv
<1>7. CASE ExecuteDispatch
  BY <1>5, <1>6, <1>7, ExecutionStepFacts DEF ExecuteDispatch
<1>8. CASE ExecuteAdvance
  <2>1. ExecutionStep /\ ~LastStage
    BY <1>8 DEF ExecuteAdvance
  <2>2. mem.stage + 1 \in 1 .. Len(Stages[mem.op]) /\ mem.stage + 1 \in Nat \ {0}
    BY <2>1, ExecutionStepFacts DEF LastStage
  <2>3. [MemObserved EXCEPT !.stage = mem.stage + 1] \in Status
    BY <1>6, <2>2 DEF Status
  <2> QED
    BY <1>5, <1>8, <2>1, <2>2, <2>3 DEF ExecuteAdvance
<1> QED
  BY <1>1, <1>2, <1>3, <1>4, <1>7, <1>8 DEF Handle, Execute, Recovery

\* A Job goes on, one disappears, or some that are over get the stale label.
Advances ==
  /\ UNCHANGED marking
  /\ \E j \in jobs : \E k : /\ Successor(j, k) /\ Became(j, k)
                            /\ k.podFailed => j.podFailed \/ Finished(k)

Disappears == UNCHANGED marking /\ jobs' \subseteq jobs

Outdates ==
  /\ marking' \subseteq marking
  /\ \E J \in SUBSET jobs : jobs' = Relabelled(J) /\ \A j \in J : Finished(j)

\* The steps of the Jobs when no pod fails on its Job's way.
LEMMA JobStepKinds ==
  ASSUME IInv, JobStep, used'["podFailure"] = 0, LabelInv, MarkInv
  PROVE  UNCHANGED <<mem, db, sendq, made>> /\ (Advances \/ Disappears \/ Outdates)
<1>0. UNCHANGED <<mem, db, sendq, made>>
  BY DEF JobStep, JobStart, JobPodFails, ShutdownSucceeds, WakeupSucceeds, JobFails,
    JobRemoved, MarkJobAsStale
<1>1. ASSUME NEW j \in jobs, JobStart(j) \/ ShutdownSucceeds(j) \/ WakeupSucceeds(j) \/ JobFails(j)
      PROVE  Advances
  <2>1. j \in Job /\ ~Finished(j) /\ UNCHANGED marking
    BY <1>1 DEF JobStart, ShutdownSucceeds, WakeupSucceeds, JobFails, Finished, IInv, JobInv
  <2>2. PICK k : /\ Became(j, k)
                 /\ \/ k = [j EXCEPT !.st = "active"] \/ k = [j EXCEPT !.st = "done"]
                    \/ k = [j EXCEPT !.st = "failed", !.podFailed = TRUE]
    BY <1>1 DEF JobStart, ShutdownSucceeds, WakeupSucceeds, JobFails
  <2>3. Successor(j, k)
    BY <2>1, <2>2, SuccessorOK
  <2>4. k.podFailed => j.podFailed \/ Finished(k)
    BY <2>1, <2>2 DEF Job, Finished
  <2> QED
    BY <2>1, <2>2, <2>3, <2>4 DEF Advances
<1>2. ASSUME NEW j \in jobs, JobPodFails(j)
      PROVE  FALSE
  <2>1. used \in [Events -> Nat] /\ "podFailure" \in Events
    BY DEF IInv, RestInv, Events
  <2>2. used'["podFailure"] = used["podFailure"] + 1 /\ used["podFailure"] \in Nat
    BY <1>2, <2>1 DEF JobPodFails, Count
  <2> QED
    BY <2>2
<1>3. ASSUME NEW j \in jobs, JobRemoved(j)
      PROVE  Disappears
  BY <1>3 DEF JobRemoved, Disappears
<1>4. ASSUME MarkJobAsStale PROVE Outdates
  <2>1. PICK m \in marking :
          /\ marking' = marking \ {m}
          /\ jobs' = Relabelled({j \in jobs : <<j.t, j.n>> = m}) \/ UNCHANGED jobs
    BY <1>4 DEF MarkJobAsStale
  <2> DEFINE J == {j \in jobs : <<j.t, j.n>> = m}
  <2>2. J \in SUBSET jobs /\ \A j \in J : Finished(j)
    BY DEF MarkInv
  <2>3. Relabelled({}) = jobs
    BY DEF Relabelled
  <2>4. \E K \in SUBSET jobs : jobs' = Relabelled(K) /\ \A j \in K : Finished(j)
    BY <2>1, <2>2, <2>3
  <2>5. marking' \subseteq marking
    BY <2>1
  <2> QED
    BY <2>4, <2>5 DEF Outdates
<1> QED
  BY <1>0, <1>1, <1>2, <1>3, <1>4 DEF JobStep

\* Every step keeps the labels right, as long as no pod fails on its Job's way.
LEMMA NextLabels == IInv /\ IInv' /\ LabelsInv /\ [Next]_vars => LabelsInv'
<1> SUFFICES ASSUME IInv, IInv', LabelsInv, [Next]_vars, used'["podFailure"] = 0
             PROVE  LabelInv' /\ MarkInv'
  BY DEF LabelsInv
<1>1. LabelInv /\ MarkInv
  <2>1. "podFailure" \in Events
    BY DEF Events
  <2> QED
    BY <2>1, NeverUncounted DEF LabelsInv
<1>2. JobInv
  BY DEF IInv
<1>3. CASE Handle \/ DrainTimeout \/ TransientError
  BY <1>1, <1>3, HandleLabels
<1>4. CASE JobStep
  BY <1>1, <1>2, <1>4, JobStepKinds, MoveLabels, FewerLabels, Relabels
  DEF Advances, Disappears, Outdates
<1>5. CASE \/ WriteStatus \/ Reconcile \/ Deliver \/ IdleExit \/ Outside \/ UNCHANGED vars
  <2>1. UNCHANGED <<jobs, made>> /\ marking' \subseteq marking
    BY <1>5 DEF WriteStatus, Reconcile, Deliver, IdleExit, Outside, UserSuspend, UserRetryNow,
      ScheduleBoundary, Crash, vars, jobVars
  <2> QED
    BY <1>1, <2>1, SameLabels
<1> QED
  BY <1>3, <1>4, <1>5 DEF Next

\* Only Jobs that are over are ever taken for failed or labelled stale, and Jobs
\* have names of their own, through restarts and suspensions.
THEOREM LabelInvariant == Spec => []LabelsInv
<1>1. Init => LabelsInv
  BY DEF Init, LabelsInv, LabelInv, MarkInv
<1> QED
  BY <1>1, NextLabels, WorkerInvariant, PTL DEF Spec

-----------------------------------------------------------------------------
(* Runners of one stage *)

\* What is proved of the runners is proved without a restart, a suspension or a
\* pod that fails while its Job goes on.
Steady == used["crash"] = 0 /\ used["suspend"] = 0 /\ used["podFailure"] = 0

\* An execution that is over has no Job at work.
SettledInv ==
  \A t \in Targets : mem.ex[t].state \in Terminal => \A j \in JobsOf(mem, t) : Finished(j)

Limit(op, k) ==
  IF Stages[op][k].max = 0 THEN Cardinality(Stages[op][k].targets) ELSE Stages[op][k].max

\* Every Job at work is one of the stage the worker is in, and there is room for it.
PlaceInv ==
  \A j \in Working : /\ mem.phase \in {"Hibernating", "WakingUp", "Error"}
                     /\ j.op = mem.op /\ j.cyc = mem.cycle
                     /\ j.t \in Stages[mem.op][mem.stage].targets

RoomInv ==
  /\ IsFiniteSet(Working)
  /\ mem.op \in Ops => Cardinality(Working) <= Limit(mem.op, mem.stage)

RunInv == SettledInv /\ PlaceInv /\ RoomInv

\* The limit of a stage is a number.
LEMMA LimitOK ==
  ASSUME NEW op \in Ops, NEW k \in 1 .. Len(Stages[op])
  PROVE  Limit(op, k) \in Nat /\ IsFiniteSet(Stages[op][k].targets)
<1>1. Stages[op] \in Seq([targets : SUBSET Targets, max : Nat])
  BY StagesAssumption
<1> DEFINE R == [targets : SUBSET Targets, max : Nat]
<1> DEFINE st == Stages[op]
<1>2. st \in Seq(R) /\ k \in 1 .. Len(st)
  BY <1>1
<1> HIDE DEF R, st
<1>3. st[k] \in R
  BY <1>2, ElementOfSeq
<1>4. st[k].targets \subseteq Targets /\ st[k].max \in Nat
  BY <1>3 DEF R
<1>5. IsFiniteSet(st[k].targets) /\ Cardinality(st[k].targets) \in Nat
  BY <1>4, TargetsAssumption, FS_Subset, FS_CardinalityType
<1> QED
  BY <1>4, <1>5 DEF Limit, st

\* The stage index in memory is one of its operation's plan.
LEMMA StageKnown ==
  ASSUME IInv, mem.op \in Ops
  PROVE  mem.stage \in 1 .. Len(Stages[mem.op])
<1>1. mem.stage \in Nat \ {0} /\ mem.stage <= Len(Stages[mem.op])
  BY DEF IInv, StatusInv, StageInRange, Status
<1>2. Len(Stages[mem.op]) \in Nat
  BY StagesAssumption, LenProperties
<1> QED
  BY <1>1, <1>2

\* An observation takes an execution for over only when its Job is, and leaves
\* over what is over.
LEMMA ObservedSettled ==
  ASSUME IInv, UniqueCurrentJob, NEW t \in Targets,
         mem.ex[t].state \in Terminal => \A j \in JobsOf(mem, t) : Finished(j)
  PROVE  /\ ObservedEx[t].state \in Terminal => \A j \in JobsOf(mem, t) : Finished(j)
         /\ mem.ex[t].state \in Terminal => ObservedEx[t].state \in Terminal
<1>1. CurrentJobs(t) = JobsOf(mem, t)
  BY DEF CurrentJobs, JobsOf
<1>2. mem.ex[t] \in ExecStatus /\ ObservedEx[t] = Observed(t)
  BY DEF IInv, StatusInv, Status, ObservedEx
<1>3. CASE CurrentJobs(t) # {}
  <2>1. PICK j \in jobs : j = CHOOSE i \in CurrentJobs(t) : TRUE
    BY <1>3 DEF CurrentJobs
  <2>2. j \in CurrentJobs(t)
    BY <1>3, <2>1
  <2>3. \A i \in CurrentJobs(t) : i = j
    BY <2>2 DEF CurrentJobs, UniqueCurrentJob
  <2>4. ObservedEx[t] = FromJob(mem.ex[t], j)
    BY <1>2, <1>3, <2>1 DEF Observed
  <2>5. j \in Job
    BY DEF IInv, JobInv
  <2>6. Finished(j) => FromJob(mem.ex[t], j).state \in Terminal
    BY DEF FromJob, Finished, Terminal
  <2>7. FromJob(mem.ex[t], j).state \in Terminal => Finished(j) \/ mem.ex[t].state \in Terminal
    BY <2>5 DEF FromJob, Job, Finished, Terminal
  <2>8. mem.ex[t].state \in Terminal => Finished(j)
    BY <1>1, <2>2
  <2> QED
    BY <1>1, <2>3, <2>4, <2>6, <2>7, <2>8
<1>4. CASE CurrentJobs(t) = {}
  <2>1. ObservedEx[t] = FromNoJob(mem.ex[t], miss[t])
    BY <1>2, <1>4 DEF Observed
  <2>2. mem.ex[t].state \in Terminal => FromNoJob(mem.ex[t], miss[t]) = mem.ex[t]
    BY DEF FromNoJob, Terminal
  <2> QED
    BY <1>1, <1>4, <2>1, <2>2
<1> QED
  BY <1>3, <1>4

\* No Job is at work where every execution is over.
LEMMA NoneWorking ==
  ASSUME IInv, UniqueCurrentJob, LabelInv, RunInv,
         \A j \in Working : ObservedEx[j.t].state \in Terminal
  PROVE  Working = {}
<1> SUFFICES ASSUME NEW j \in Working PROVE FALSE
  OBVIOUS
<1>1. j \in Job /\ j \in jobs /\ ~Finished(j)
  BY DEF Working, IInv, JobInv
<1>2. j.op = mem.op /\ j.cyc = mem.cycle /\ ~j.stale /\ j.t \in Targets
  BY <1>1 DEF RunInv, PlaceInv, LabelInv, Job
<1>3. j \in JobsOf(mem, j.t)
  BY <1>1, <1>2 DEF JobsOf
<1> QED
  BY <1>1, <1>2, <1>3, ObservedSettled DEF RunInv, SettledInv

\* A step that leaves the Jobs alone: what it must do to memory.
LEMMA SameJobs ==
  ASSUME IInv, IInv', RunInv, UNCHANGED jobs,
         \A t \in Targets : mem'.ex[t].state \in Terminal => \A j \in JobsOf(mem, t) : Finished(j),
         \/ /\ mem'.op = mem.op /\ mem'.cycle = mem.cycle /\ mem'.stage = mem.stage
            /\ mem'.phase \in {"Hibernating", "WakingUp", "Error"} \/ Working = {}
         \/ /\ Working = {}
            /\ \A t \in Targets : mem'.ex[t].state \notin Terminal
  PROVE  RunInv'
<1>1. Working' = Working
  BY DEF Working, Finished
<1>2. SettledInv'
  BY DEF SettledInv, JobsOf, Finished, Working
<1>3. PlaceInv'
  BY <1>1 DEF RunInv, PlaceInv
<1>4. RoomInv'
  <2>1. CASE mem'.op = mem.op /\ mem'.stage = mem.stage
    BY <1>1, <2>1 DEF RunInv, RoomInv, Limit
  <2>2. CASE Working = {}
    <3>1. mem'.op \in Ops => Limit(mem'.op, mem'.stage) \in Nat
      <4>1. ASSUME mem'.op \in Ops PROVE mem'.stage \in 1 .. Len(Stages[mem'.op])
        <5>1. mem'.stage \in Nat \ {0} /\ mem'.stage <= Len(Stages[mem'.op])
          BY <4>1 DEF IInv, StatusInv, StageInRange, Status
        <5>2. Len(Stages[mem'.op]) \in Nat
          BY <4>1, StagesAssumption, LenProperties
        <5> QED
          BY <5>1, <5>2
      <4> QED
        BY <4>1, LimitOK
    <3>2. Cardinality({}) = 0
      BY FS_EmptySet
    <3> QED
      BY <1>1, <2>2, <3>1, <3>2 DEF RunInv, RoomInv, Limit
  <2> QED
    BY <2>1, <2>2
<1> QED
  BY <1>2, <1>3, <1>4 DEF RunInv

\* The handlers that create no Job and label none.
LEMMA HandleSame ==
  ASSUME IInv, IInv', UniqueCurrentJob, LabelInv, RunInv,
         \/ Idle \/ RecoveryBackoff \/ ManualRetry \/ ManualRetryFails \/ RecoveryAborted \/ TransientError
         \/ OperationMismatch \/ ExecuteStageError \/ ExecuteWait \/ ExecuteFinalize
  PROVE  RunInv'
<1>0. mem \in Status /\ mem' \in Status
  BY DEF IInv, StatusInv
<1>1. /\ MemObserved \in Status /\ MemObserved.op = mem.op /\ MemObserved.cycle = mem.cycle
      /\ MemObserved.stage = mem.stage /\ MemObserved.phase = mem.phase
      /\ MemObserved.ex = ObservedEx
  BY <1>0, ObservationOK DEF IInv, MemObserved, Status
<1>2. mem.phase \notin {"Hibernating", "WakingUp", "Error"} => Working = {}
  BY DEF RunInv, PlaceInv
<1>a. ASSUME UNCHANGED jobVars, mem'.ex = mem.ex, mem'.op = mem.op, mem'.cycle = mem.cycle,
             mem'.stage = mem.stage,
             mem'.phase \in {"Hibernating", "WakingUp", "Error"} \/ Working = {}
      PROVE  RunInv'
  <2>1. \A t \in Targets : mem'.ex[t].state \in Terminal => \A j \in JobsOf(mem, t) : Finished(j)
    BY <1>a DEF RunInv, SettledInv
  <2> QED
    BY <1>a, <2>1, SameJobs DEF jobVars
<1>b. ASSUME UNCHANGED jobs, mem'.ex = ObservedEx, mem'.op = mem.op,
             mem'.cycle = mem.cycle, mem'.stage = mem.stage,
             mem'.phase \in {"Hibernating", "WakingUp", "Error"} \/ Working = {}
      PROVE  RunInv'
  <2>1. \A t \in Targets : mem'.ex[t].state \in Terminal => \A j \in JobsOf(mem, t) : Finished(j)
    BY <1>b, ObservedSettled DEF RunInv, SettledInv
  <2> QED
    BY <1>b, <2>1, SameJobs
<1>p. ASSUME NEW s \in Status, NEW ph \in Phases
      PROVE  LET u == WithPhase(s, ph)
             IN u.phase = ph /\ u.ex = s.ex /\ u.op = s.op /\ u.cycle = s.cycle /\ u.stage = s.stage
  BY DEF WithPhase, Status
<1>q. "Error" \in Phases /\ "Active" \in Phases
  BY DEF Phases
<1>r. ExecutionStep => mem.phase \in {"Hibernating", "WakingUp"} /\ TrackJobs
  BY DEF ExecutionStep, Handles, PhaseOf
<1>3. CASE LifecycleInit
  <2>1. mem.phase = "" /\ mem' = WithPhase(mem, "Active") /\ UNCHANGED jobVars
    BY <1>3 DEF LifecycleInit, Selected
  <2>2. Working = {}
    BY <1>2, <2>1
  <2> QED
    BY <1>0, <1>a, <1>p, <1>q, <2>1, <2>2
<1>4. CASE TransitionToHibernating \/ TransitionToWakingUp
  <2>1. mem.phase \in {"Active", "Hibernated"} /\ UNCHANGED jobVars
        /\ \E op, c : mem' = Started(mem, op, c)
    BY <1>4 DEF TransitionToHibernating, TransitionToWakingUp, Selected
  <2>2. Working = {}
    BY <1>2, <2>1
  <2>3. \A t \in Targets : mem'.ex[t].state = "Pending"
    BY <2>1 DEF Started, PendingExec
  <2> QED
    BY <2>1, <2>2, <2>3, SameJobs DEF jobVars, Terminal
<1>5. CASE IdleStay \/ RecoveryBackoff \/ ManualRetryFails \/ RecoveryAborted \/ TransientError
  <2>1. UNCHANGED <<mem, jobVars>>
    BY <1>5 DEF IdleStay, RecoveryBackoff, ManualRetryFails, RecoveryAborted, TransientError
  <2> QED
    BY <1>2, <1>a, <2>1
<1>6. CASE ManualRetry
  <2>1. mem' = [mem EXCEPT !.retry = 0] /\ UNCHANGED jobVars
    BY <1>6 DEF ManualRetry
  <2>2. /\ mem'.ex = mem.ex /\ mem'.op = mem.op /\ mem'.cycle = mem.cycle
        /\ mem'.stage = mem.stage /\ mem'.phase = mem.phase
    BY <1>0, <2>1 DEF Status
  <2> QED
    BY <1>2, <1>a, <2>1, <2>2
<1>7. CASE OperationMismatch
  <2>1. mem' = WithPhase(mem, "Error") /\ UNCHANGED jobVars
    BY <1>7 DEF OperationMismatch
  <2> QED
    BY <1>0, <1>a, <1>p, <1>q, <2>1
<1>8. CASE ExecuteStageError
  <2>1. TrackJobs /\ mem' = WithPhase(MemObserved, "Error") /\ UNCHANGED <<jobs, made>>
    BY <1>8, <1>r DEF ExecuteStageError
  <2> QED
    BY <1>1, <1>b, <1>p, <1>q, <2>1
<1>9. CASE ExecuteWait
  <2>1. /\ TrackJobs /\ mem' = MemObserved /\ UNCHANGED <<jobs, made>>
        /\ mem.phase \in {"Hibernating", "WakingUp"}
    BY <1>9, <1>r DEF ExecuteWait
  <2> QED
    BY <1>1, <1>b, <2>1
<1>10. CASE ExecuteFinalize
  <2>1. /\ TrackJobs /\ UNCHANGED <<jobs, made>> /\ mem.phase \in {"Hibernating", "WakingUp"}
        /\ \/ mem' = MemObserved
           \/ /\ mem' = Finalized(MemObserved)
              /\ \A t \in Targets : ObservedEx[t].state \in Terminal
    BY <1>10, <1>r DEF ExecuteFinalize
  <2>2. CASE mem' = MemObserved
    BY <1>1, <1>b, <2>1, <2>2
  <2>3. CASE /\ mem' = Finalized(MemObserved)
             /\ \A t \in Targets : ObservedEx[t].state \in Terminal
    <3>1. Working = {}
      <4>1. \A j \in Working : j.t \in Targets
        BY DEF Working, IInv, JobInv, Job
      <4> QED
        BY <2>3, <4>1, NoneWorking
    <3>2. /\ mem'.ex = ObservedEx /\ mem'.op = mem.op /\ mem'.cycle = mem.cycle
          /\ mem'.stage = mem.stage
      BY <1>1, <2>3 DEF Finalized, Status
    <3> QED
      BY <1>b, <2>1, <3>1, <3>2
  <2> QED
    BY <2>1, <2>2, <2>3
<1> QED
  BY <1>3, <1>4, <1>5, <1>6, <1>7, <1>8, <1>9, <1>10 DEF Idle

\* Jobs that are over get the stale label: nothing that runs is touched.
LEMMA RelabelRun ==
  ASSUME IInv, IInv', LabelInv, MarkInv, RunInv, NEW J \in SUBSET jobs, \A j \in J : Finished(j),
         jobs' = Relabelled(J), made' = made, marking' \subseteq marking,
         mem'.op = mem.op, mem'.cycle = mem.cycle, mem'.stage = mem.stage,
         mem'.phase \in {"Hibernating", "WakingUp", "Error"} \/ mem'.phase = mem.phase,
         \A t \in Targets : mem'.ex[t].state \in Terminal => mem.ex[t].state \in Terminal
  PROVE  RunInv'
<1>1. /\ Working' = Working
      /\ \A j \in jobs' : j \in jobs \/ (j.stale /\ Finished(j))
  BY Relabels DEF IInv
<1>2. SettledInv'
  <2> SUFFICES ASSUME NEW t \in Targets, mem'.ex[t].state \in Terminal,
                      NEW j \in jobs', j.t = t, j.cyc = mem'.cycle, j.op = mem'.op, ~j.stale
               PROVE  Finished(j)
    BY DEF SettledInv, JobsOf, Finished
  <2> QED
    BY <1>1 DEF RunInv, SettledInv, JobsOf
<1>3. PlaceInv' /\ RoomInv'
  BY <1>1 DEF RunInv, PlaceInv, RoomInv, Limit
<1> QED
  BY <1>2, <1>3 DEF RunInv

\* handleRetry labels Jobs with a failed pod, all of which are over.
LEMMA RetryRun ==
  ASSUME IInv, IInv', LabelInv, MarkInv, RunInv, Retry
  PROVE  RunInv'
<1>1. PICK J \in SUBSET RetryStale : jobs' = Relabelled(J)
  BY DEF Retry
<1>2. J \in SUBSET jobs /\ \A j \in J : Finished(j)
  BY DEF RetryStale, LabelInv
<1>3. mem' = Retried(mem) /\ made' = made /\ marking' = marking /\ mem \in Status
  BY DEF Retry, IInv, StatusInv
<1>4. mem'.op = mem.op /\ mem'.cycle = mem.cycle /\ mem'.stage = mem.stage
  BY <1>3, RetriedOK
<1>5. mem'.phase = PhaseOf(RetryOp)
  BY <1>3 DEF Retried, Status
<1>6. mem'.phase \in {"Hibernating", "WakingUp", "Error"}
  BY <1>5 DEF PhaseOf
<1>7. ASSUME NEW t \in Targets
      PROVE  mem'.ex[t].state \in Terminal => mem.ex[t].state \in Terminal
  <2>1. mem.ex[t] \in ExecStatus
    BY <1>3 DEF Status
  <2>2. mem'.ex[t] = IF t \in Stages[RetryOp][mem.stage].targets /\ mem.ex[t].state = "Failed"
                     THEN [mem.ex[t] EXCEPT !.state = "Pending"] ELSE mem.ex[t]
    BY <1>3 DEF Retried, Status
  <2>3. [mem.ex[t] EXCEPT !.state = "Pending"].state = "Pending"
    BY <2>1 DEF ExecStatus
  <2> QED
    BY <2>2, <2>3 DEF Terminal
<1> QED
  BY <1>1, <1>2, <1>3, <1>4, <1>6, <1>7, RelabelRun

\* A Job that moves on: it stays where it was in the plan, or is over.
LEMMA MoveRun ==
  ASSUME IInv, IInv', LabelInv, RunInv, UNCHANGED mem,
         NEW j \in jobs, NEW k, Successor(j, k), Became(j, k)
  PROVE  RunInv'
<1>1. /\ ~Finished(j) /\ k.t = j.t /\ k.n = j.n /\ k.op = j.op /\ k.cyc = j.cyc
      /\ k.stale = j.stale /\ jobs' = (jobs \ {j}) \cup {k} /\ j \in Working
  BY DEF Successor, Became, Working
<1>2. ~j.stale
  BY <1>1 DEF LabelInv
<1>3. SettledInv'
  <2> SUFFICES ASSUME NEW t \in Targets, mem.ex[t].state \in Terminal,
                      NEW i \in jobs', i.t = t, i.cyc = mem.cycle, i.op = mem.op, ~i.stale
               PROVE  Finished(i)
    BY DEF RunInv, SettledInv, JobsOf, Finished
  <2>1. i \in jobs \/ i = k
    BY <1>1
  <2>2. j.t = t /\ j.cyc = mem.cycle /\ j.op = mem.op => FALSE
    BY <1>1, <1>2 DEF RunInv, SettledInv, JobsOf
  <2> QED
    BY <1>1, <2>1, <2>2 DEF RunInv, SettledInv, JobsOf
<1>4. Working' = IF Finished(k) THEN Working \ {j} ELSE (Working \ {j}) \cup {k}
  BY <1>1 DEF Working, Finished
<1>5. PlaceInv'
  BY <1>1, <1>4 DEF RunInv, PlaceInv
<1>6. RoomInv'
  <2> DEFINE W == Working \ {j}
  <2>1. IsFiniteSet(W) /\ Cardinality(W) = Cardinality(Working) - 1 /\ Cardinality(W) \in Nat
        /\ Cardinality(Working) \in Nat
    BY <1>1, FS_RemoveElement, FS_CardinalityType DEF RunInv, RoomInv
  <2>2. /\ IsFiniteSet(W \cup {k}) /\ Cardinality(W \cup {k}) <= Cardinality(Working)
    <3>1. /\ IsFiniteSet(W \cup {k})
          /\ Cardinality(W \cup {k}) = IF k \in W THEN Cardinality(W) ELSE Cardinality(W) + 1
      BY <2>1, FS_AddElement
    <3> QED
      BY <2>1, <3>1
  <2>3. IsFiniteSet(Working') /\ Cardinality(Working') <= Cardinality(Working)
        /\ Cardinality(Working') \in Nat
    BY <1>4, <2>1, <2>2, FS_CardinalityType
  <2>4. mem.op \in Ops => Limit(mem.op, mem.stage) \in Nat
    BY StageKnown, LimitOK
  <2>5. mem.op \in Ops => Cardinality(Working') <= Limit(mem.op, mem.stage)
    BY <2>1, <2>3, <2>4 DEF RunInv, RoomInv
  <2> QED
    BY <2>3, <2>5 DEF RoomInv, Limit
<1> QED
  BY <1>3, <1>5, <1>6 DEF RunInv

\* Jobs that disappear leave room.
LEMMA FewerRun ==
  ASSUME IInv, RunInv, UNCHANGED mem, jobs' \subseteq jobs
  PROVE  RunInv'
<1>1. SettledInv'
  BY DEF RunInv, SettledInv, JobsOf, Finished
<1>2. Working' \subseteq Working
  BY DEF Working, Finished
<1>3. PlaceInv'
  BY <1>2 DEF RunInv, PlaceInv
<1>4. /\ IsFiniteSet(Working') /\ Cardinality(Working') <= Cardinality(Working)
      /\ Cardinality(Working') \in Nat /\ Cardinality(Working) \in Nat
  BY <1>2, FS_Subset, FS_CardinalityType DEF RunInv, RoomInv
<1>5. mem.op \in Ops => Limit(mem.op, mem.stage) \in Nat
  BY StageKnown, LimitOK
<1>6. mem.op \in Ops => Cardinality(Working') <= Limit(mem.op, mem.stage)
  BY <1>4, <1>5 DEF RunInv, RoomInv
<1> QED
  BY <1>1, <1>3, <1>4, <1>6 DEF RunInv, RoomInv, Limit

\* A dispatch gives the stage it is for no more runners than it has room for.
LEMMA DispatchRoom ==
  ASSUME IInv, IInv', UniqueCurrentJob, LabelInv, RunInv, Unpruned, mem.op \in Ops,
         mem.phase \in {"Hibernating", "WakingUp"}, NEW k \in 1 .. Len(Stages[mem.op]),
         NEW s \in Status, SameRun(s, MemObserved), s.stage = k, s.phase = mem.phase,
         NEW q, s = Newest(q), ExecuteForStage(k, s, q),
         \A j \in Working : j.t \in Stages[mem.op][k].targets,
         Cardinality(Working) <= Limit(mem.op, k)
  PROVE  RunInv'
<1>0. /\ MemObserved.op = mem.op /\ MemObserved.cycle = mem.cycle
      /\ MemObserved.ex = ObservedEx
  BY DEF MemObserved, IInv, StatusInv, Status
<1>1. /\ mem'.ex = ObservedEx /\ mem'.op = mem.op /\ mem'.cycle = mem.cycle /\ mem'.stage = k
  BY <1>0, StageRun DEF SameRun
<1>2. IsFiniteSet(Working) /\ Cardinality(Working) \in Nat
      /\ Limit(mem.op, k) \in Nat /\ MaxConcurrency(k) = Limit(mem.op, k)
  BY LimitOK, FS_CardinalityType DEF RunInv, RoomInv, MaxConcurrency, Limit, StageAt
<1>3. RunningInStage(k) = Working
  <2>1. ASSUME NEW j \in Working
        PROVE  j \in RunningInStage(k)
    BY <2>1 DEF RunInv, PlaceInv, LabelInv, Working, RunningInStage, CurrentJobs, StageAt
  <2>2. RunningInStage(k) \subseteq Working
    BY DEF RunningInStage, Working
  <2> QED
    BY <2>1, <2>2
<1>4. Slots(k) = Limit(mem.op, k) - Cardinality(Working) /\ Slots(k) \in Nat
  BY <1>2, <1>3 DEF Slots
<1>5. PICK D \in SUBSET Eligible(k, s.ex) :
        /\ Cardinality(D) <= Slots(k)
        /\ mem'.phase \in {s.phase, "Error"}
        /\ \E E \in SUBSET D : jobs' = jobs \cup {NewJob(t) : t \in E}
  BY StageJobs
<1>6. PICK E \in SUBSET D : jobs' = jobs \cup {NewJob(t) : t \in E}
  BY <1>5
<1>7. IsFiniteSet(E) /\ Cardinality(E) <= Slots(k)
  <2>1. D \subseteq Stages[mem.op][k].targets
    BY DEF Eligible, Unfinished, StageAt
  <2>2. IsFiniteSet(D)
    BY <2>1, LimitOK, FS_Subset
  <2>3. IsFiniteSet(E) /\ Cardinality(E) <= Cardinality(D) /\ Cardinality(E) \in Nat
        /\ Cardinality(D) \in Nat
    BY <2>2, FS_Subset, FS_CardinalityType
  <2> QED
    BY <1>4, <1>5, <2>3
<1> DEFINE N == {NewJob(t) : t \in E}
<1>8. ASSUME NEW t \in E
      PROVE  /\ t \in Targets /\ t \in Stages[mem.op][k].targets
             /\ ObservedEx[t].state \notin Terminal
  <2>1. t \in Stages[mem.op][k].targets /\ ObservedEx[t].state \notin Terminal
    BY <1>0 DEF Eligible, Unfinished, StageAt, SameRun
  <2>2. t \in Targets
    BY <2>1, StageTargets
  <2> QED
    BY <2>1, <2>2
<1>9. ASSUME NEW j \in N
      PROVE  /\ \E t \in E : j = NewJob(t) /\ j.t = t
             /\ j.t \in E /\ j.op = mem.op /\ j.cyc = mem.cycle /\ ~Finished(j)
  BY DEF NewJob, Finished
<1>10. jobs' = jobs \cup N
  BY <1>6
<1> HIDE DEF N
<1>11. SettledInv'
  <2> SUFFICES ASSUME NEW t \in Targets, ObservedEx[t].state \in Terminal, NEW j \in jobs',
                      j.t = t, j.cyc = mem.cycle, j.op = mem.op, ~j.stale
               PROVE  Finished(j)
    BY <1>1 DEF SettledInv, JobsOf, Finished
  <2>1. \A i \in JobsOf(mem, t) : Finished(i)
    BY ObservedSettled DEF RunInv, SettledInv
  <2> QED
    BY <1>8, <1>9, <1>10, <2>1 DEF JobsOf
<1>12. Working' = Working \cup N
  BY <1>9, <1>10 DEF Working, Finished
<1>13. PlaceInv'
  BY <1>1, <1>5, <1>8, <1>9, <1>12 DEF RunInv, PlaceInv
<1>14. RoomInv'
  <2> DEFINE f == [t \in E |-> NewJob(t)]
  <2>1. f \in Surjection(E, N)
    BY DEF Surjection, N
  <2> HIDE DEF f
  <2>2. IsFiniteSet(N) /\ Cardinality(N) <= Cardinality(E)
    BY <1>7, <2>1, FS_Surjection
  <2>3. /\ IsFiniteSet(Working \cup N)
        /\ Cardinality(Working \cup N) =
             Cardinality(Working) + Cardinality(N) - Cardinality(Working \cap N)
    BY <1>2, <2>2, FS_Union
  <2>4. IsFiniteSet(Working \cap N)
    BY <2>2, FS_Subset
  <2>5. /\ Cardinality(N) \in Nat /\ Cardinality(E) \in Nat /\ Cardinality(Working \cap N) \in Nat
        /\ Cardinality(Working \cup N) \in Nat
    BY <1>7, <2>2, <2>3, <2>4, FS_CardinalityType
  <2>6. Cardinality(Working \cup N) <= Limit(mem.op, k)
    BY <1>2, <1>4, <1>7, <2>2, <2>3, <2>5
  <2> QED
    BY <1>1, <1>12, <2>3, <2>6 DEF RoomInv, Limit
<1> QED
  BY <1>11, <1>13, <1>14 DEF RunInv

\* The two handlers that create Jobs: in the stage they are in, and in the next
\* one when the stage before it has no runner left.
LEMMA ExecuteRun ==
  ASSUME IInv, IInv', TailInv, UniqueCurrentJob, LabelInv, RunInv, Unpruned,
         ExecuteDispatch \/ ExecuteAdvance
  PROVE  RunInv'
<1>0. /\ ExecutionStep /\ mem.op \in Ops /\ mem.stage \in 1 .. Len(Stages[mem.op])
      /\ Len(Stages[mem.op]) \in Nat
  BY ExecutionStepFacts DEF ExecuteDispatch, ExecuteAdvance
<1>1. mem.phase \in {"Hibernating", "WakingUp"}
  BY <1>0 DEF ExecutionStep, Handles, PhaseOf
<1>2. mem \in Status /\ Executing(mem)
  BY <1>1 DEF IInv, StatusInv, Executing
<1>3. /\ MemObserved \in Status /\ MemObserved.op = mem.op /\ MemObserved.cycle = mem.cycle
      /\ MemObserved.stage = mem.stage /\ MemObserved.phase = mem.phase
      /\ MemObserved.ex = ObservedEx /\ QueueOK(QueueObserved)
  BY <1>2, ObservationOK DEF IInv, MemObserved, Status
<1>4. MemObserved = Newest(QueueObserved)
  <2>1. mem = Newest(sendq)
    BY <1>1 DEF TailInv, Diverges
  <2> QED
    BY <1>2, <2>1, ObservedTail
<1>5. CASE ExecuteDispatch
  <2>1. ExecuteForStage(mem.stage, MemObserved, QueueObserved)
    BY <1>5 DEF ExecuteDispatch
  <2>2. \A j \in Working : j.t \in Stages[mem.op][mem.stage].targets
    BY DEF RunInv, PlaceInv
  <2>3. Cardinality(Working) <= Limit(mem.op, mem.stage)
    BY <1>0 DEF RunInv, RoomInv
  <2> QED
    BY <1>0, <1>1, <1>3, <1>4, <2>1, <2>2, <2>3, DispatchRoom DEF SameRun
<1>6. CASE ExecuteAdvance
  <2> DEFINE next == mem.stage + 1
  <2> DEFINE m == [MemObserved EXCEPT !.stage = next]
  <2> DEFINE q == Enqueue(QueueObserved, m)
  <2>1. /\ ~LastStage /\ StageTerminal
        /\ ExecuteForStage(next, m, Enqueue(QueueObserved, [Newest(QueueObserved) EXCEPT !.stage = next]))
    BY <1>6 DEF ExecuteAdvance
  <2>2. /\ next \in Nat \ {0} /\ next \in 1 .. Len(Stages[mem.op])
        /\ next <= Len(Stages[mem.op])
    BY <1>0, <2>1 DEF LastStage
  <2>3. ExecuteForStage(next, m, q)
    BY <1>4, <2>1
  <2>4. m \in Status /\ m.stage = next /\ m.phase = mem.phase /\ SameRun(m, MemObserved) /\ m.op = mem.op
    BY <1>3, <2>2 DEF SameRun, Status
  <2> HIDE DEF m
  <2>5. StageInRange(m)
    <3>1. m.op # ""
      BY <1>0, <2>4 DEF Ops
    <3> QED
      BY <1>0, <2>2, <2>4, <3>1 DEF StageInRange
  <2>6. m = Newest(q)
    BY <1>3, <2>4, <2>5, EnqueueOK
  <2>7. \A j \in Working : ObservedEx[j.t].state \in Terminal
    BY <2>1 DEF RunInv, PlaceInv, StageTerminal, StageAt
  <2>8. Working = {} /\ Cardinality({}) = 0
    BY <2>7, NoneWorking, FS_EmptySet
  <2>9. Limit(mem.op, next) \in Nat
    BY <1>0, <2>2, LimitOK
  <2> HIDE DEF q, next
  <2> QED
    BY <1>0, <1>1, <2>2, <2>3, <2>4, <2>6, <2>8, <2>9, DispatchRoom
<1> QED
  BY <1>5, <1>6

\* A step after which nothing was suspended, restarted or failed in its pod.
LEMMA SteadyStep ==
  ASSUME IInv, OrderlyInv, LabelsInv, [Next]_vars, Steady'
  PROVE  /\ Steady /\ Calm /\ Orderly(mem) /\ Orderly(db) /\ LabelInv /\ MarkInv
         /\ ~UserSuspend /\ ~Crash /\ ~Suspension /\ ~DrainTimeout
<1>0. /\ "crash" \in Events /\ "suspend" \in Events /\ "podFailure" \in Events
      /\ used \in [Events -> Nat]
  BY DEF Events, IInv, RestInv
<1>1. used'["crash"] = 0 /\ used'["suspend"] = 0 /\ used'["podFailure"] = 0
  BY DEF Steady
<1>2. Steady
  BY <1>0, <1>1, NeverUncounted DEF Steady
<1>3. ~UserSuspend
  BY <1>1, SuspendCounted
<1>4. ~Crash
  <2>1. ASSUME Crash PROVE used'["crash"] = used["crash"] + 1
    BY <1>0, <2>1 DEF Crash, Count
  <2> QED
    BY <1>1, <1>2, <2>1 DEF Steady
<1>5. Calm /\ Orderly(mem) /\ Orderly(db) /\ LabelInv /\ MarkInv
  BY <1>2 DEF OrderlyInv, LabelsInv, Steady
<1>6. ~Suspension /\ ~DrainTimeout
  BY <1>3, <1>5, StaysCalm DEF Orderly
<1> QED
  BY <1>2, <1>3, <1>4, <1>5, <1>6

\* Every step keeps the runners in their stage and within its room.
LEMMA NextRun ==
  /\ IInv /\ IInv' /\ TailInv /\ UniqueCurrentJob /\ OrderlyInv /\ LabelsInv
  /\ (Steady /\ Unpruned => RunInv) /\ [Next]_vars
  => (Steady /\ Unpruned => RunInv)'
<1> SUFFICES ASSUME IInv, IInv', TailInv, UniqueCurrentJob, OrderlyInv, LabelsInv,
                    Steady /\ Unpruned => RunInv, [Next]_vars, Steady', Unpruned
             PROVE  RunInv'
  BY DEF Unpruned
<1>1. /\ Steady /\ Calm /\ Orderly(mem) /\ Orderly(db) /\ LabelInv /\ MarkInv
      /\ ~UserSuspend /\ ~Crash /\ ~Suspension /\ ~DrainTimeout
  BY SteadyStep
<1>2. RunInv
  BY <1>1
<1>3. CASE Idle \/ Execute \/ Recovery \/ TransientError
  BY <1>1, <1>2, <1>3, HandleSame, RetryRun, ExecuteRun DEF Execute, Recovery
<1>4. CASE JobStep
  <2>1. /\ UNCHANGED <<mem, made>>
        /\ Advances \/ Disappears \/ Outdates
    BY <1>1, <1>4, JobStepKinds DEF Steady
  <2>2. CASE Advances
    BY <1>1, <1>2, <2>1, <2>2, MoveRun DEF Advances
  <2>3. CASE Disappears
    BY <1>2, <2>1, <2>3, FewerRun DEF Disappears
  <2>4. CASE Outdates
    BY <1>1, <1>2, <2>1, <2>4, RelabelRun DEF Outdates
  <2> QED
    BY <2>1, <2>2, <2>3, <2>4
<1>5. ASSUME UNCHANGED <<mem, jobs>> PROVE RunInv'
  BY <1>2, <1>5, FewerRun
<1>6. CASE \/ WriteStatus \/ Reconcile \/ Deliver \/ UserRetryNow \/ ScheduleBoundary
           \/ UNCHANGED vars
  BY <1>5, <1>6 DEF WriteStatus, Reconcile, Deliver, UserRetryNow, ScheduleBoundary, vars, jobVars
<1>7. CASE IdleExit
  <2>1. sendq = <<>> /\ mem' = db /\ UNCHANGED jobs
    BY <1>7 DEF IdleExit, Forget, jobVars
  <2>2. Newest(sendq) = db
    BY <2>1 DEF Newest
  <2>3. /\ mem \in Status /\ db \in Status /\ Agree(mem, db)
        /\ mem = db \/ (mem.phase = "Hibernated" /\ mem.ex = db.ex)
    <3>1. mem \in Status /\ db \in Status /\ Agree(mem, db)
      BY <2>2 DEF IInv, StatusInv
    <3>2. WithPhase(db, "Hibernated").ex = db.ex
      BY <3>1 DEF WithPhase, Status
    <3> QED
      BY <2>2, <3>1, <3>2 DEF TailInv, Diverges
  <2>4. CASE mem = db
    BY <1>5, <2>1, <2>4
  <2>5. CASE mem.phase = "Hibernated" /\ mem.ex = db.ex
    <3>1. Working = {}
      BY <1>2, <2>5 DEF RunInv, PlaceInv
    <3>2. \A t \in Targets : mem'.ex[t].state \in Terminal => \A j \in JobsOf(mem, t) : Finished(j)
      BY <1>2, <2>1, <2>5 DEF RunInv, SettledInv
    <3> QED
      BY <1>2, <2>1, <2>3, <3>1, <3>2, SameJobs DEF Agree
  <2> QED
    BY <2>3, <2>4, <2>5
<1> QED
  BY <1>1, <1>3, <1>4, <1>6, <1>7 DEF Next, Handle, Outside

\* The worker's runners work for the stage it is in, one for a target, within the
\* stage's limit, and none outside an operation: as long as the controller is not
\* restarted, the plan is not suspended and no pod is restarted by its Job, under
\* Strict or for a strategy without dependencies.
THEOREM RunnersInPlace == Spec => [](Steady /\ Unpruned => RunInv)
<1>1. Init => RunInv
  <2> SUFFICES ASSUME Init PROVE RunInv
    OBVIOUS
  <2>1. jobs = {} /\ mem.op = "" /\ mem.ex = [t \in Targets |-> PendingExec]
    BY DEF Init
  <2>2. Working = {} /\ IsFiniteSet({})
    BY <2>1, FS_EmptySet DEF Working
  <2>3. PlaceInv
    BY <2>2 DEF PlaceInv
  <2>4. SettledInv
    <3>1. \A t \in Targets : mem.ex[t] = PendingExec
      BY <2>1
    <3>2. PendingExec.state = "Pending"
      BY DEF PendingExec
    <3> QED
      BY <3>1, <3>2 DEF SettledInv, Terminal
  <2>5. RoomInv
    BY <2>1, <2>2 DEF RoomInv, Ops
  <2> QED
    BY <2>3, <2>4, <2>5 DEF RunInv
<1>2. Init => TailInv
  BY DEF Init, TailInv, Newest
<1>3. Init => UniqueCurrentJob
  BY DEF Init, UniqueCurrentJob
<1> QED
  BY <1>1, <1>2, <1>3, NextRun, NextTail, NextUnique, OrderInvariant, LabelInvariant,
     WorkerInvariant, PTL DEF Spec

\* No stage is left with a runner behind while the worker executes.
THEOREM StageIsolationHolds == Spec => [](Steady /\ Unpruned => StageIsolation)
<1>1. (Steady /\ Unpruned => RunInv) => (Steady /\ Unpruned => StageIsolation)
  BY DEF RunInv, PlaceInv, Working, StageIsolation, StageAt
<1> QED
  BY <1>1, RunnersInPlace, PTL

\* No two runners work on one target at a time, of whatever cycle, operation or label.
THEOREM SingleRunnerHolds == Spec => [](Steady /\ Unpruned => SingleRunner)
<1>1. UniqueCurrentJob /\ LabelsInv /\ (Steady /\ Unpruned => RunInv)
      => (Steady /\ Unpruned => SingleRunner)
  BY DEF Steady, LabelsInv, UniqueCurrentJob, RunInv, LabelInv, PlaceInv, Working, SingleRunner, RunnersApart
<1> QED
  BY <1>1, RunnersInPlace, LabelInvariant, UniqueCurrentJobHolds, PTL

\* The runners at work on a stage's targets never exceed its concurrency limit.
THEOREM ConcurrencyLimitHolds == Spec => [](Steady /\ Unpruned => ConcurrencyLimit)
<1>1. ASSUME IInv, Steady /\ Unpruned => RunInv, Steady, Unpruned, Handles(mem.phase, mem.op)
      PROVE  Cardinality({j \in jobs : j.t \in StageAt(mem.stage).targets /\ ~Finished(j)})
               <= MaxConcurrency(mem.stage)
  <2> DEFINE R == {j \in jobs : j.t \in StageAt(mem.stage).targets /\ ~Finished(j)}
  <2>1. mem.op \in Ops /\ RunInv
    BY <1>1 DEF Handles
  <2>2. /\ IsFiniteSet(Working) /\ Cardinality(Working) <= Limit(mem.op, mem.stage)
        /\ Limit(mem.op, mem.stage) \in Nat /\ Limit(mem.op, mem.stage) = MaxConcurrency(mem.stage)
    BY <1>1, <2>1, StageKnown, LimitOK DEF RunInv, RoomInv, Limit, MaxConcurrency, StageAt
  <2>3. R \subseteq Working
    BY DEF Working
  <2> HIDE DEF R
  <2>4. Cardinality(R) <= Cardinality(Working) /\ Cardinality(R) \in Nat
        /\ Cardinality(Working) \in Nat
    BY <2>2, <2>3, FS_Subset, FS_CardinalityType
  <2>5. Cardinality(R) <= MaxConcurrency(mem.stage)
    BY <2>2, <2>4
  <2> QED
    BY <2>5 DEF R
<1>2. IInv /\ (Steady /\ Unpruned => RunInv) => (Steady /\ Unpruned => ConcurrencyLimit)
  BY <1>1 DEF ConcurrencyLimit
<1> QED
  BY <1>2, RunnersInPlace, WorkerInvariant, PTL

-----------------------------------------------------------------------------
(* Dependents of failed targets *)

\* The planner puts what a target depends on in an earlier stage of the shutdown.
DepsStaged ==
  \A d \in Deps : \A k \in 1 .. Len(Stages["shutdown"]) :
    d[2] \in Stages["shutdown"][k].targets =>
      \E i \in 1 .. k - 1 : d[1] \in Stages["shutdown"][i].targets

\* The shutdown goes on after failures, and what it prunes reaches memory.
Tolerant == Mode = "BestEffort" /\ ~Overridden /\ DepsStaged

\* The stages before the current one are over; so are the Jobs of what is over; and
\* every shutdown Job at work is of this run, behind completed targets only.  A
\* wakeup has no part in it: there a Job may be pruned while it runs.
ShutdownInv ==
  /\ mem.phase # "Error" /\ Done(mem)
  /\ mem.op = "shutdown" =>
       /\ \A k \in 1 .. mem.stage - 1 : \A t \in Stages["shutdown"][k].targets :
            mem.ex[t].state \in Terminal
       /\ SettledInv
  /\ \A j \in Working : j.op = "shutdown" =>
       /\ mem.phase = "Hibernating" /\ mem.op = "shutdown" /\ j.cyc = mem.cycle
       /\ \A d \in Deps : j.t = d[2] => mem.ex[d[1]].state = "Completed"

\* What a shutdown sees of its executions.
LEMMA ObservedShutdown ==
  ASSUME IInv, UniqueCurrentJob, ShutdownInv, NEW t \in Targets
  PROVE  /\ mem.ex[t].state = "Completed" => ObservedEx[t].state = "Completed"
         /\ ObservedEx[t].state = "Completed" => \A j \in JobsOf(mem, t) : j.st = "done"
         /\ mem.op = "shutdown" =>
              /\ mem.ex[t].state \in Terminal => ObservedEx[t].state \in Terminal
              /\ ObservedEx[t].state \in Terminal => \A j \in JobsOf(mem, t) : Finished(j)
BY ObservedDone, ObservedSettled DEF ShutdownInv, SettledInv

\* Where every execution is over no shutdown is at work.
LEMMA ShutdownOver ==
  ASSUME IInv, UniqueCurrentJob, LabelInv, ShutdownInv,
         \A t \in Targets : ObservedEx[t].state \in Terminal, NEW j \in Working
  PROVE  j.op # "shutdown"
<1> SUFFICES ASSUME j.op = "shutdown" PROVE FALSE
  OBVIOUS
<1>1. j \in Job /\ j \in jobs /\ ~Finished(j)
  BY DEF Working, IInv, JobInv
<1>2. j.t \in Targets /\ mem.op = "shutdown" /\ j \in JobsOf(mem, j.t)
  BY <1>1 DEF ShutdownInv, LabelInv, JobsOf, Job
<1> QED
  BY <1>1, <1>2, ObservedShutdown

\* A step that leaves the Jobs alone.
LEMMA SameShutdown ==
  ASSUME IInv, IInv', UniqueCurrentJob, ShutdownInv, UNCHANGED jobs,
         mem'.op = mem.op, mem'.cycle = mem.cycle, mem'.stage = mem.stage,
         mem'.ex = mem.ex \/ mem'.ex = ObservedEx, mem'.phase # "Error",
         mem'.phase = mem.phase \/ \A j \in Working : j.op # "shutdown"
  PROVE  ShutdownInv'
<1>0. mem.op = "shutdown" => mem.op \in Ops
  BY DEF Ops
<1>1. ASSUME NEW t \in Targets
      PROVE  /\ mem.ex[t].state = "Completed" => mem'.ex[t].state = "Completed"
             /\ mem'.ex[t].state = "Completed" => \A j \in JobsOf(mem, t) : j.st = "done"
             /\ mem.op = "shutdown" =>
                  /\ mem.ex[t].state \in Terminal => mem'.ex[t].state \in Terminal
                  /\ mem'.ex[t].state \in Terminal => \A j \in JobsOf(mem, t) : Finished(j)
  BY ObservedShutdown DEF ShutdownInv, Done, SettledInv
<1>2. Done(mem)'
  BY <1>1 DEF Done, JobsOf
<1>3. mem.op = "shutdown" => SettledInv'
  BY <1>1 DEF SettledInv, JobsOf, Finished
<1>4. ASSUME mem.op = "shutdown", NEW k \in 1 .. mem.stage - 1, NEW t \in Stages["shutdown"][k].targets
      PROVE  mem'.ex[t].state \in Terminal
  <2>1. mem.stage \in 1 .. Len(Stages["shutdown"])
    BY <1>0, <1>4, StageKnown
  <2>2. k \in 1 .. Len(Stages["shutdown"])
    <3>1. Len(Stages["shutdown"]) \in Nat
      BY <1>0, <1>4, StagesAssumption, LenProperties
    <3> QED
      BY <2>1, <3>1
  <2>3. t \in Targets
    BY <1>0, <1>4, <2>2, StageTargets
  <2> QED
    BY <1>1, <1>4, <2>3 DEF ShutdownInv
<1>5. Working' = Working
  BY DEF Working, Finished
<1>6. ASSUME NEW j \in Working, j.op = "shutdown"
      PROVE  /\ mem'.phase = "Hibernating" /\ mem'.op = "shutdown" /\ j.cyc = mem'.cycle
             /\ \A d \in Deps : j.t = d[2] => mem'.ex[d[1]].state = "Completed"
  <2>1. \A d \in Deps : d[1] \in Targets
    BY DepsAssumption
  <2> QED
    BY <1>1, <1>6, <2>1 DEF ShutdownInv
<1> QED
  BY <1>2, <1>3, <1>4, <1>5, <1>6 DEF ShutdownInv

\* A dispatch for stage k: it prunes what has no Job at work and starts nothing
\* behind a target that did not complete.
LEMMA DispatchShutdown ==
  ASSUME IInv, IInv', UniqueCurrentJob, LabelInv, ShutdownInv, Tolerant, mem.op \in Ops,
         Handles(mem.phase, mem.op), NEW k \in 1 .. Len(Stages[mem.op]),
         NEW s \in Status, SameRun(s, MemObserved), s.stage = k, s.phase = mem.phase,
         NEW q, ExecuteForStage(k, s, q),
         mem.op = "shutdown" => \A i \in 1 .. k - 1 : \A t \in Stages["shutdown"][i].targets :
                                  ObservedEx[t].state \in Terminal
  PROVE  ShutdownInv'
<1>0. /\ MemObserved.op = mem.op /\ MemObserved.cycle = mem.cycle
      /\ MemObserved.ex = ObservedEx
  BY DEF MemObserved, IInv, StatusInv, Status
<1>a. s.op = mem.op /\ s.cycle = mem.cycle /\ s.ex = ObservedEx
  BY <1>0 DEF SameRun
<1>b. Len(Stages[mem.op]) \in Nat
  BY StagesAssumption, LenProperties
<1>1. PICK D \in SUBSET Eligible(k, s.ex), U \in SUBSET Blocked(k, s.ex) :
        /\ mem' = Pruned(s, U)
        /\ \E E \in SUBSET D : jobs' = jobs \cup {NewJob(t) : t \in E}
  BY StageJobs DEF Tolerant
<1>2. PICK E \in SUBSET D : jobs' = jobs \cup {NewJob(t) : t \in E}
  BY <1>1
<1>3. /\ mem'.op = mem.op /\ mem'.cycle = mem.cycle /\ mem'.stage = k /\ mem'.phase = mem.phase
      /\ \A t \in Targets :
           mem'.ex[t].state = IF t \in U THEN "Aborted" ELSE ObservedEx[t].state
  <2>1. ASSUME NEW x
        PROVE  LET r == [s EXCEPT !.ex = x]
               IN r.op = s.op /\ r.cycle = s.cycle /\ r.stage = s.stage /\ r.phase = s.phase /\ r.ex = x
    BY DEF Status
  <2>2. \A t \in Targets : [s.ex[t] EXCEPT !.state = "Aborted"].state = "Aborted"
    BY DEF Status, ExecStatus
  <2>3. PICK x : /\ mem' = [s EXCEPT !.ex = x]
                 /\ x = [t \in Targets |-> IF t \in U THEN [s.ex[t] EXCEPT !.state = "Aborted"]
                                           ELSE s.ex[t]]
    BY <1>1 DEF Pruned
  <2>4. \A t \in Targets : x[t].state = IF t \in U THEN "Aborted" ELSE s.ex[t].state
    BY <2>2, <2>3
  <2>5. /\ mem'.op = s.op /\ mem'.cycle = s.cycle /\ mem'.stage = s.stage /\ mem'.phase = s.phase
        /\ mem'.ex = x
    BY <2>1, <2>3
  <2> QED
    BY <1>a, <2>4, <2>5
<1>4. ASSUME NEW t \in U
      PROVE  /\ ObservedEx[t].state \notin Terminal
             /\ \E d \in Deps : d[2] = t /\ ObservedEx[d[1]].state \in {"Failed", "Aborted"}
  BY <1>a DEF Blocked, Unfinished, FailedUpstream
<1>5. ASSUME NEW t \in E
      PROVE  /\ t \in Stages[mem.op][k].targets /\ t \in Targets
             /\ ObservedEx[t].state \notin Terminal /\ t \notin U
             /\ \A d \in Deps : d[2] = t => ObservedEx[d[1]].state \notin {"Failed", "Aborted"}
  <2>1. t \in Unfinished(k, ObservedEx) /\ t \notin Blocked(k, ObservedEx)
    BY <1>a DEF Eligible
  <2>2. t \in Stages[mem.op][k].targets /\ ObservedEx[t].state \notin Terminal
    BY <2>1 DEF Unfinished, StageAt
  <2>3. t \in Targets
    BY <2>2, StageTargets
  <2>4. FailedUpstream(t, ObservedEx) = {} /\ t \notin U
    BY <1>a, <2>1 DEF Blocked
  <2> QED
    BY <2>2, <2>3, <2>4 DEF FailedUpstream
<1>6. ASSUME NEW t \in Targets
      PROVE  /\ ObservedEx[t].state = "Completed" <=> mem'.ex[t].state = "Completed"
             /\ mem.ex[t].state = "Completed" => mem'.ex[t].state = "Completed"
             /\ ObservedEx[t].state \in Terminal => mem'.ex[t].state \in Terminal
  BY <1>3, <1>4, ObservedShutdown DEF Terminal
<1> DEFINE N == {NewJob(t) : t \in E}
<1>7. ASSUME NEW j \in N
      PROVE  j.t \in E /\ j.op = mem.op /\ j.cyc = mem.cycle /\ ~Finished(j)
  BY DEF NewJob, Finished
<1>8. jobs' = jobs \cup N
  BY <1>2
<1> HIDE DEF N
<1>9. Working' = Working \cup N
  BY <1>7, <1>8 DEF Working, Finished
<1>10. Done(mem)'
  <2> SUFFICES ASSUME NEW t \in Targets, mem'.ex[t].state = "Completed",
                      NEW j \in jobs', j.t = t, j.cyc = mem.cycle, j.op = mem.op, ~j.stale
               PROVE  j.st = "done"
    BY <1>3 DEF Done, JobsOf
  <2>1. ObservedEx[t].state = "Completed"
    BY <1>6
  <2>2. j \notin N
    BY <1>5, <1>7, <2>1 DEF Terminal
  <2> QED
    BY <1>8, <2>1, <2>2, ObservedShutdown DEF JobsOf
<1>11. ASSUME mem.op = "shutdown", NEW i \in 1 .. k - 1, NEW t \in Stages["shutdown"][i].targets
       PROVE  t \in Targets /\ ObservedEx[t].state \in Terminal /\ mem'.ex[t].state \in Terminal
  <2>1. i \in 1 .. Len(Stages[mem.op])
    BY <1>b
  <2>2. t \in Targets
    BY <1>11, <2>1, StageTargets
  <2> QED
    BY <1>6, <1>11, <2>2
<1>12. mem.op = "shutdown" => SettledInv'
  <2> SUFFICES ASSUME mem.op = "shutdown", NEW t \in Targets, mem'.ex[t].state \in Terminal,
                      NEW j \in jobs', j.t = t, j.cyc = mem.cycle, j.op = mem.op, ~j.stale,
                      ~Finished(j)
               PROVE  FALSE
    BY <1>3 DEF SettledInv, JobsOf, Finished
  <2>1. CASE j \in N
    BY <1>3, <1>5, <1>7, <2>1
  <2>2. CASE j \in jobs
    <3>1. j \in JobsOf(mem, t) /\ j \in Working
      BY <2>2 DEF JobsOf, Working
    <3>2. t \in U
      BY <1>3, <3>1, ObservedShutdown
    <3>3. PICK d \in Deps : d[2] = t /\ ObservedEx[d[1]].state \in {"Failed", "Aborted"}
      BY <1>4, <3>2
    <3>4. d[1] \in Targets
      BY DepsAssumption
    <3>5. mem.ex[d[1]].state = "Completed"
      BY <3>1, <3>3 DEF ShutdownInv
    <3> QED
      BY <3>3, <3>4, <3>5, ObservedShutdown
  <2> QED
    BY <1>8, <2>1, <2>2
<1>13. ASSUME NEW j \in Working', j.op = "shutdown"
       PROVE  /\ mem.phase = "Hibernating" /\ mem.op = "shutdown" /\ j.cyc = mem.cycle
              /\ \A d \in Deps : j.t = d[2] => mem'.ex[d[1]].state = "Completed"
  <2>1. CASE j \in Working
    <3>1. \A d \in Deps : d[1] \in Targets
      BY DepsAssumption
    <3> QED
      BY <1>6, <1>13, <2>1, <3>1 DEF ShutdownInv
  <2>2. CASE j \in N
    <3>1. mem.op = "shutdown" /\ j.cyc = mem.cycle /\ mem.phase = "Hibernating"
      BY <1>7, <1>13, <2>2 DEF Handles, PhaseOf
    <3>2. ASSUME NEW d \in Deps, j.t = d[2] PROVE mem'.ex[d[1]].state = "Completed"
      <4>1. j.t \in E /\ j.t \in Stages["shutdown"][k].targets
        BY <1>5, <1>7, <2>2, <3>1
      <4>2. PICK i \in 1 .. k - 1 : d[1] \in Stages["shutdown"][i].targets
        BY <3>1, <3>2, <4>1 DEF Tolerant, DepsStaged
      <4>3. d[1] \in Targets /\ ObservedEx[d[1]].state \in Terminal
        BY <1>11, <3>1, <4>2
      <4>4. ObservedEx[d[1]].state \notin {"Failed", "Aborted"}
        BY <1>5, <3>2, <4>1
      <4> QED
        BY <1>6, <4>3, <4>4 DEF Terminal
    <3> QED
      BY <3>1, <3>2
  <2> QED
    BY <1>9, <2>1, <2>2
<1>14. mem.phase # "Error"
  BY DEF ShutdownInv
<1> QED
  BY <1>3, <1>10, <1>11, <1>12, <1>13, <1>14 DEF ShutdownInv

\* The Jobs go their way: each is an old one, or goes on from one at work, or is
\* over and labelled.
LEMMA MoveShutdown ==
  ASSUME ShutdownInv, UNCHANGED mem,
         \A j \in jobs' : \/ j \in jobs
                          \/ j.stale /\ Finished(j)
                          \/ \E i \in Working : /\ ~i.stale
                                                /\ j.t = i.t /\ j.op = i.op /\ j.cyc = i.cyc
  PROVE  ShutdownInv'
<1>1. ASSUME NEW t \in Targets, NEW j \in jobs', j.t = t, j.cyc = mem.cycle, j.op = mem.op,
             ~j.stale, j \notin jobs
      PROVE  \E i \in JobsOf(mem, t) : ~Finished(i)
  BY <1>1 DEF JobsOf, Working
<1>2. Done(mem)'
  <2> SUFFICES ASSUME NEW t \in Targets, mem.ex[t].state = "Completed", NEW j \in jobs',
                      j.t = t, j.cyc = mem.cycle, j.op = mem.op, ~j.stale
               PROVE  j.st = "done"
    BY DEF Done, JobsOf
  <2>1. \A i \in JobsOf(mem, t) : i.st = "done"
    BY DEF ShutdownInv, Done
  <2> QED
    BY <1>1, <2>1 DEF JobsOf, Finished
<1>3. mem.op = "shutdown" => SettledInv'
  <2> SUFFICES ASSUME mem.op = "shutdown", NEW t \in Targets, mem.ex[t].state \in Terminal,
                      NEW j \in jobs', j.t = t, j.cyc = mem.cycle, j.op = mem.op, ~j.stale
               PROVE  Finished(j)
    BY DEF SettledInv, JobsOf, Finished
  <2>1. \A i \in JobsOf(mem, t) : Finished(i)
    BY DEF ShutdownInv, SettledInv
  <2> QED
    BY <1>1, <2>1 DEF JobsOf
<1>4. ASSUME NEW j \in Working'
      PROVE  \E i \in Working : j.t = i.t /\ j.op = i.op /\ j.cyc = i.cyc
  BY <1>4 DEF Working, Finished
<1> QED
  BY <1>2, <1>3, <1>4 DEF ShutdownInv

\* A run that starts finds no shutdown at work.
LEMMA StartShutdown ==
  ASSUME IInv, ShutdownInv, mem.phase \notin {"Hibernating"}, UNCHANGED jobs,
         NEW op \in Ops, NEW c, mem' = Started(mem, op, c)
  PROVE  ShutdownInv'
<1>1. /\ mem'.phase # "Error" /\ mem'.stage = 1
      /\ \A t \in Targets : mem'.ex[t].state = "Pending"
  BY DEF Started, PhaseOf, PendingExec
<1>2. Done(mem)' /\ SettledInv'
  BY <1>1 DEF Done, SettledInv, Terminal
<1>3. \A k \in 1 .. mem'.stage - 1 : FALSE
  BY <1>1
<1>4. \A j \in Working' : j.op # "shutdown"
  BY DEF ShutdownInv, Working, Finished
<1> QED
  BY <1>1, <1>2, <1>3, <1>4 DEF ShutdownInv

\* The two handlers that create Jobs: in the stage they are in, and in the next one
\* once the stage before it is over.
LEMMA ExecuteShutdown ==
  ASSUME IInv, IInv', UniqueCurrentJob, LabelInv, ShutdownInv, Tolerant,
         ExecuteDispatch \/ ExecuteAdvance
  PROVE  ShutdownInv'
<1>0. /\ ExecutionStep /\ mem.op \in Ops /\ mem.stage \in 1 .. Len(Stages[mem.op])
      /\ Len(Stages[mem.op]) \in Nat
  BY ExecutionStepFacts DEF ExecuteDispatch, ExecuteAdvance
<1>1. Handles(mem.phase, mem.op) /\ mem \in Status
  BY <1>0 DEF ExecutionStep, IInv, StatusInv
<1>2. /\ MemObserved \in Status /\ MemObserved.op = mem.op /\ MemObserved.cycle = mem.cycle
      /\ MemObserved.stage = mem.stage /\ MemObserved.phase = mem.phase
      /\ MemObserved.ex = ObservedEx
  BY <1>1, ObservationOK DEF IInv, MemObserved, Status
<1>3. ASSUME mem.op = "shutdown", NEW i \in 1 .. mem.stage - 1,
             NEW t \in Stages["shutdown"][i].targets
      PROVE  ObservedEx[t].state \in Terminal
  <2>1. i \in 1 .. Len(Stages[mem.op])
    BY <1>0
  <2>2. t \in Targets
    BY <1>0, <1>3, <2>1, StageTargets
  <2> QED
    BY <1>3, <2>2, ObservedShutdown DEF ShutdownInv
<1>4. CASE ExecuteDispatch
  <2>1. ExecuteForStage(mem.stage, MemObserved, QueueObserved)
    BY <1>4 DEF ExecuteDispatch
  <2> QED
    BY <1>0, <1>1, <1>2, <1>3, <2>1, DispatchShutdown DEF SameRun
<1>5. CASE ExecuteAdvance
  <2> DEFINE next == mem.stage + 1
  <2> DEFINE m == [MemObserved EXCEPT !.stage = next]
  <2> DEFINE q == Enqueue(QueueObserved, [Newest(QueueObserved) EXCEPT !.stage = next])
  <2>1. ~LastStage /\ StageTerminal /\ ExecuteForStage(next, m, q)
    BY <1>5 DEF ExecuteAdvance
  <2>2. next \in Nat \ {0} /\ next \in 1 .. Len(Stages[mem.op])
    BY <1>0, <2>1 DEF LastStage
  <2>3. m \in Status /\ m.stage = next /\ m.phase = mem.phase /\ SameRun(m, MemObserved)
    BY <1>2, <2>2 DEF SameRun, Status
  <2>4. ASSUME mem.op = "shutdown", NEW i \in 1 .. next - 1,
               NEW t \in Stages["shutdown"][i].targets
        PROVE  ObservedEx[t].state \in Terminal
    <3>1. i \in 1 .. mem.stage - 1 \/ i = mem.stage
      BY <1>0
    <3> QED
      BY <1>3, <2>1, <2>4, <3>1 DEF StageTerminal, StageAt
  <2> HIDE DEF m, q, next
  <2> QED
    BY <1>0, <1>1, <2>1, <2>2, <2>3, <2>4, DispatchShutdown
<1> QED
  BY <1>4, <1>5

\* The handlers that create no Job.
LEMMA HandleShutdown ==
  ASSUME IInv, IInv', UniqueCurrentJob, LabelInv, ShutdownInv, Tolerant, Orderly(mem),
         \/ Idle \/ Recovery \/ TransientError
         \/ OperationMismatch \/ ExecuteStageError \/ ExecuteWait \/ ExecuteFinalize
  PROVE  ShutdownInv'
<1>0. mem \in Status /\ mem.phase # "Error"
  BY DEF IInv, StatusInv, ShutdownInv
<1>1. /\ MemObserved \in Status /\ MemObserved.op = mem.op /\ MemObserved.cycle = mem.cycle
      /\ MemObserved.stage = mem.stage /\ MemObserved.phase = mem.phase
      /\ MemObserved.ex = ObservedEx
  BY <1>0, ObservationOK DEF IInv, MemObserved, Status
<1>2. CASE LifecycleInit
  <2>1. mem.phase = "" /\ mem' = WithPhase(mem, "Active") /\ UNCHANGED jobVars
    BY <1>2 DEF LifecycleInit, Selected
  <2>2. \A j \in Working : j.op # "shutdown"
    BY <2>1 DEF ShutdownInv
  <2>3. /\ mem'.op = mem.op /\ mem'.cycle = mem.cycle /\ mem'.stage = mem.stage
        /\ mem'.ex = mem.ex /\ mem'.phase = "Active"
    BY <1>0, <2>1 DEF WithPhase, Status
  <2> QED
    BY <2>1, <2>2, <2>3, SameShutdown DEF jobVars
<1>3. CASE TransitionToHibernating \/ TransitionToWakingUp
  <2>1. /\ mem.phase \in {"Active", "Hibernated"} /\ UNCHANGED jobVars
        /\ \E op \in Ops : \E c : mem' = Started(mem, op, c)
    BY <1>3 DEF TransitionToHibernating, TransitionToWakingUp, Selected, Ops
  <2> QED
    BY <2>1, StartShutdown DEF jobVars
<1>4. CASE IdleStay \/ TransientError
  <2>1. UNCHANGED <<mem, jobVars>>
    BY <1>4 DEF IdleStay, TransientError
  <2> QED
    BY <1>0, <2>1, SameShutdown DEF jobVars
<1>5. ~Recovery
  BY <1>0 DEF Recovery, RecoveryBackoff, Retry, ManualRetry, ManualRetryFails, RecoveryAborted, Selected
<1>6. ~OperationMismatch
  BY DEF OperationMismatch, Orderly, Executing
<1>7. ~ExecuteStageError
  BY DEF ExecuteStageError, Tolerant
<1>8. CASE ExecuteWait
  <2>1. mem' = MemObserved /\ UNCHANGED jobs
    BY <1>8 DEF ExecuteWait
  <2> QED
    BY <1>0, <1>1, <2>1, SameShutdown
<1>9. CASE ExecuteFinalize
  <2>1. /\ UNCHANGED jobs
        /\ \/ mem' = MemObserved
           \/ /\ mem' = Finalized(MemObserved)
              /\ \A t \in Targets : ObservedEx[t].state \in Terminal
    BY <1>9 DEF ExecuteFinalize
  <2>2. CASE mem' = MemObserved
    BY <1>0, <1>1, <2>1, <2>2, SameShutdown
  <2>3. CASE /\ mem' = Finalized(MemObserved)
             /\ \A t \in Targets : ObservedEx[t].state \in Terminal
    <3>1. \A j \in Working : j.op # "shutdown"
      BY <2>3, ShutdownOver
    <3>2. /\ mem'.ex = ObservedEx /\ mem'.op = mem.op /\ mem'.cycle = mem.cycle
          /\ mem'.stage = mem.stage /\ mem'.phase # "Error"
      BY <1>1, <2>3 DEF Finalized, Status
    <3> QED
      BY <2>1, <3>1, <3>2, SameShutdown
  <2> QED
    BY <2>1, <2>2, <2>3
<1> QED
  BY <1>2, <1>3, <1>4, <1>5, <1>6, <1>7, <1>8, <1>9 DEF Idle

\* A worker that ends when nothing is queued finds what it knew.
LEMMA ExitSame ==
  ASSUME IInv, TailInv, PhaseInv, Orderly(db), ~Diverges, IdleExit
  PROVE  UNCHANGED <<mem, jobVars, cycles, restoreVars, res>>
<1>1. /\ sendq = <<>> /\ mem' = db
      /\ UNCHANGED <<jobVars, cycles, restoreVars, res>>
  BY DEF IdleExit, Forget
<1>2. Newest(sendq) = db /\ db \in Status
  BY <1>1 DEF Newest, IInv, StatusInv
<1>3. mem.phase = db.phase
  BY <1>2 DEF PhaseInv, Orderly
<1>4. db.phase = "Hibernated" => WithPhase(db, "Hibernated") = db
  BY <1>2 DEF WithPhase, Status
<1>5. mem = db
  BY <1>2, <1>3, <1>4 DEF TailInv
<1> QED
  BY <1>1, <1>5

\* Every step keeps the shutdown's Jobs behind completed targets.
LEMMA NextShutdown ==
  /\ IInv /\ IInv' /\ TailInv /\ PhaseInv /\ UniqueCurrentJob /\ OrderlyInv /\ LabelsInv
  /\ (Steady /\ Tolerant => ShutdownInv) /\ [Next]_vars
  => (Steady /\ Tolerant => ShutdownInv)'
<1> SUFFICES ASSUME IInv, IInv', TailInv, PhaseInv, UniqueCurrentJob, OrderlyInv, LabelsInv,
                    Steady /\ Tolerant => ShutdownInv, [Next]_vars, Steady', Tolerant
             PROVE  ShutdownInv'
  BY DEF Tolerant, DepsStaged
<1>1. /\ Steady /\ Calm /\ Orderly(mem) /\ Orderly(db) /\ LabelInv /\ MarkInv
      /\ ~UserSuspend /\ ~Crash /\ ~Suspension /\ ~DrainTimeout
  BY SteadyStep
<1>2. ShutdownInv
  BY <1>1
<1>3. CASE Idle \/ Execute \/ Recovery \/ TransientError
  BY <1>1, <1>2, <1>3, HandleShutdown, ExecuteShutdown DEF Execute
<1>4. CASE JobStep
  <2>1. /\ UNCHANGED <<mem, made>>
        /\ Advances \/ Disappears \/ Outdates
    BY <1>1, <1>4, JobStepKinds DEF Steady
  <2>2. ASSUME Advances, NEW i \in jobs'
        PROVE  \/ i \in jobs
               \/ \E j \in Working : ~j.stale /\ i.t = j.t /\ i.op = j.op /\ i.cyc = j.cyc
    <3>1. PICK j \in jobs : \E k : Successor(j, k) /\ Became(j, k)
      BY <2>2 DEF Advances
    <3>2. PICK k : Successor(j, k) /\ Became(j, k)
      BY <3>1
    <3>3. /\ j \in Working /\ k.t = j.t /\ k.op = j.op /\ k.cyc = j.cyc
          /\ i \in jobs \/ i = k
      BY <2>2, <3>2 DEF Successor, Became, Working
    <3>4. ~j.stale
      BY <1>1, <3>3 DEF LabelInv, Working
    <3> QED
      BY <3>3, <3>4
  <2>3. ASSUME Outdates, NEW i \in jobs' PROVE i \in jobs \/ (i.stale /\ Finished(i))
    BY <1>1, <2>1, <2>3, Relabels DEF Outdates, IInv
  <2> QED
    BY <1>2, <2>1, <2>2, <2>3, MoveShutdown DEF Disappears
<1>5. ASSUME UNCHANGED <<mem, jobs>> PROVE ShutdownInv'
  BY <1>2, <1>5, MoveShutdown
<1>6. CASE \/ WriteStatus \/ Reconcile \/ Deliver \/ UserRetryNow \/ ScheduleBoundary
           \/ UNCHANGED vars
  BY <1>5, <1>6 DEF WriteStatus, Reconcile, Deliver, UserRetryNow, ScheduleBoundary, vars, jobVars
<1>7. CASE IdleExit
  <2>1. ~Diverges
    BY DEF Diverges, Tolerant
  <2> QED
    BY <1>1, <1>5, <1>7, <2>1, ExitSame DEF jobVars
<1> QED
  BY <1>1, <1>3, <1>4, <1>6, <1>7 DEF Next, Handle, Outside

\* Under BestEffort a shutdown's Jobs stay behind completed targets, and its stages
\* stay in order, although what failed is skipped.
THEOREM ShutdownInvariant == Spec => [](Steady /\ Tolerant => ShutdownInv)
<1>1. Init => ShutdownInv
  <2> SUFFICES ASSUME Init PROVE ShutdownInv
    OBVIOUS
  <2>1. mem.phase = "" /\ mem.op = "" /\ jobs = {}
    BY DEF Init
  <2> QED
    BY <2>1 DEF ShutdownInv, Done, JobsOf, Working
<1>2. Init => TailInv
  BY DEF Init, TailInv, Newest
<1>3. Init => UniqueCurrentJob
  BY DEF Init, UniqueCurrentJob
<1>4. Init => PhaseInv
  BY InitSimulated
<1>5. IInv /\ IInv' /\ PhaseInv /\ [Next]_vars => PhaseInv'
  BY NextSimulated DEF Simulated
<1> QED
  BY <1>1, <1>2, <1>3, <1>4, <1>5, NextShutdown, NextTail, NextUnique, OrderInvariant,
     LabelInvariant, WorkerInvariant, PTL DEF Spec

\* A shutdown's runner works on a target only when every target before it in the
\* DAG completed, under Strict and, unless an override keeps the pruning from
\* memory, under BestEffort: given stages that follow the dependencies, as
\* PlanAdmissionProofs shows of the planner's.
THEOREM UpstreamCompletedHolds ==
  Spec => [](Steady /\ DepsStaged /\ (Mode = "Strict" \/ ~Overridden) => UpstreamCompleted)
<1>1. ASSUME IInv, GateInv, OrderlyInv, RunInv, Steady, Mode = "Strict", DepsStaged,
             NEW j \in jobs, ~Finished(j), Handles(mem.phase, "shutdown"),
             NEW d \in Deps, j.t = d[2]
      PROVE  mem.ex[d[1]].state = "Completed"
  <2>1. j.t \in Stages[mem.op][mem.stage].targets
    BY <1>1 DEF RunInv, PlaceInv, Working
  <2>2. mem.op = "shutdown" /\ mem.op \in Ops
    BY <1>1 DEF OrderlyInv, Orderly, Steady, Handles, PhaseOf, Ops
  <2>3. mem.stage \in 1 .. Len(Stages["shutdown"])
    BY <1>1, <2>2, StageKnown
  <2>4. PICK i \in 1 .. mem.stage - 1 : d[1] \in Stages["shutdown"][i].targets
    BY <1>1, <2>1, <2>2, <2>3 DEF DepsStaged
  <2>5. Gated(mem)
    BY <1>1 DEF GateInv, Steady
  <2> QED
    BY <2>2, <2>4, <2>5 DEF Gated
<1>2. ASSUME ShutdownInv, OrderlyInv, Steady, NEW j \in jobs, j \in CurrentJobs(j.t), ~Finished(j),
             Handles(mem.phase, "shutdown"), NEW d \in Deps, j.t = d[2]
      PROVE  mem.ex[d[1]].state = "Completed"
  <2>1. mem.op = "shutdown" /\ j.op = "shutdown" /\ j \in Working
    BY <1>2 DEF OrderlyInv, Orderly, Steady, Handles, PhaseOf, Ops, CurrentJobs, Working
  <2> QED
    BY <1>2, <2>1 DEF ShutdownInv
<1>3. /\ IInv /\ GateInv /\ OrderlyInv /\ (Steady /\ Unpruned => RunInv)
      /\ (Steady /\ Tolerant => ShutdownInv)
      => (Steady /\ DepsStaged /\ (Mode = "Strict" \/ ~Overridden) => UpstreamCompleted)
  <2>1. Mode = "Strict" \/ Mode = "BestEffort"
    BY ModeAssumption
  <2> QED
    BY <1>1, <1>2, <2>1 DEF UpstreamCompleted, Unpruned, Tolerant
<1> QED
  BY <1>3, GateInvariant, OrderInvariant, RunnersInPlace, ShutdownInvariant, WorkerInvariant, PTL

-----------------------------------------------------------------------------
(* Completed executions took place *)

\* Nothing a runner does fails or is lost: Jobs may still be deleted or collected,
\* and calls of the controller may fail.
Smooth ==
  Steady /\ used["jobFailure"] = 0 /\ used["flushError"] = 0 /\ used["conflict"] = 0

\* A Job or the status says that the operation was done for t.
Sure(t) ==
  \/ mem.ex[t].fin \/ mem.ex[t].state = "Completed"
  \/ \E j \in JobsOf(mem, t) : j.st = "done"

\* It was: the resource is where the operation leaves it, and so is the restore data.
Real(t) ==
  /\ mem.op \in Ops /\ res[t] = ResourceAfter(mem.op)
  /\ IF mem.op = "shutdown" THEN t \in saved ELSE live[t] = 0

NoneFailed ==
  /\ \A j \in jobs : j.st # "failed"
  /\ \A t \in Targets : mem.ex[t].state \notin {"Failed", "Aborted"}

\* Every shutdown has a cycle of its own; its wakeup follows in the same one.
CycleInv ==
  /\ mem.cycle <= cycles /\ (mem.op \in Ops => mem.cycle # 0)
  /\ \A j \in jobs : j.cyc <= cycles /\ j.cyc # 0
  /\ mem.op = "shutdown" => \A j \in jobs : ~(j.op = "wakeup" /\ j.cyc = mem.cycle)

\* An awake plan has no live restore data left, a hibernated one has all of it.
DataInv ==
  /\ mem.phase \in {"", "Active"} => \A t \in Targets : live[t] = 0
  /\ mem.phase = "Hibernated" => mem.op = "shutdown"
  /\ mem.phase = "Hibernated" \/ mem.op = "wakeup" => saved = Targets

RealInv == NoneFailed /\ CycleInv /\ DataInv /\ \A t \in Targets : Sure(t) => Real(t)

\* An observation learns nothing that is not so.
LEMMA ObservedReal ==
  ASSUME IInv, NoneFailed, NEW t \in Targets
  PROVE  /\ ObservedEx[t].state \notin {"Failed", "Aborted"}
         /\ ObservedEx[t].fin \/ ObservedEx[t].state = "Completed" => Sure(t)
<1>1. CurrentJobs(t) = JobsOf(mem, t)
  BY DEF CurrentJobs, JobsOf
<1>2. /\ mem.ex[t] \in ExecStatus /\ ObservedEx[t] = Observed(t)
      /\ mem.ex[t].state \notin {"Failed", "Aborted"}
  BY DEF IInv, StatusInv, Status, ObservedEx, NoneFailed
<1>3. CASE CurrentJobs(t) # {}
  <2>1. PICK j \in jobs : j = CHOOSE i \in CurrentJobs(t) : TRUE
    BY <1>3 DEF CurrentJobs
  <2>2. j \in CurrentJobs(t) /\ ObservedEx[t] = FromJob(mem.ex[t], j)
    BY <1>2, <1>3, <2>1 DEF Observed
  <2>3. j \in Job /\ j.st # "failed"
    BY DEF IInv, JobInv, NoneFailed
  <2>4. /\ FromJob(mem.ex[t], j).state \notin {"Failed", "Aborted"}
        /\ FromJob(mem.ex[t], j).state = "Completed" => mem.ex[t].state = "Completed" \/ j.st = "done"
        /\ FromJob(mem.ex[t], j).fin => mem.ex[t].fin \/ j.st = "done"
    BY <1>2, <2>3 DEF FromJob, Job, Finished
  <2> QED
    BY <1>1, <2>2, <2>4 DEF Sure
<1>4. CASE CurrentJobs(t) = {}
  <2>1. ObservedEx[t] = FromNoJob(mem.ex[t], miss[t])
    BY <1>2, <1>4 DEF Observed
  <2>2. \A x \in {"Completed", "Pending"} :
          LET e == [mem.ex[t] EXCEPT !.state = x] IN e.state = x /\ e.fin = mem.ex[t].fin
    BY <1>2 DEF ExecStatus
  <2>3. /\ FromNoJob(mem.ex[t], miss[t]).state \notin {"Failed", "Aborted"}
        /\ FromNoJob(mem.ex[t], miss[t]).fin => mem.ex[t].fin
        /\ FromNoJob(mem.ex[t], miss[t]).state = "Completed" =>
             mem.ex[t].fin \/ mem.ex[t].state = "Completed"
    BY <1>2, <2>2 DEF FromNoJob
  <2> QED
    BY <2>1, <2>3 DEF Sure
<1> QED
  BY <1>3, <1>4

\* A step of one run: it observes, creates and labels Jobs, or leaves them alone.
LEMMA KeepsReal ==
  ASSUME IInv, IInv', RealInv, UNCHANGED <<res, saved, cycles>>,
         mem'.op = mem.op, mem'.cycle = mem.cycle,
         \A t \in Targets : mem'.ex[t] = mem.ex[t] \/ mem'.ex[t] = ObservedEx[t],
         \A t \in Targets : live'[t] = live[t] \/ live'[t] = 0,
         \A j \in jobs' : \/ j \in jobs
                          \/ j.st = "created" /\ j.op = mem.op /\ j.cyc = mem.cycle
                          \/ j.stale /\ \E i \in jobs : j.op = i.op /\ j.cyc = i.cyc /\ j.st = i.st,
         mem'.phase \in {"", "Active"} => \A t \in Targets : live'[t] = 0,
         mem'.phase = "Hibernated" => mem.op = "shutdown" /\ saved = Targets
  PROVE  RealInv'
<1>0. /\ \A t \in Targets : mem.ex[t].state \notin {"Failed", "Aborted"}
      /\ \A j \in jobs : j.st # "failed"
      /\ mem'.op \in Ops \cup {""} /\ mem.op \in Ops \cup {""}
  BY DEF RealInv, NoneFailed, IInv, StatusInv, Status
<1>1. NoneFailed'
  <2>1. \A t \in Targets : mem'.ex[t].state \notin {"Failed", "Aborted"}
    BY <1>0, ObservedReal DEF RealInv
  <2>2. \A j \in jobs' : j.st # "failed"
    BY <1>0
  <2> QED
    BY <2>1, <2>2 DEF NoneFailed
<1>2. CycleInv'
  <2>1. \A j \in jobs' : j.op \in Ops
    BY DEF IInv, JobInv, Job
  <2>2. \A j \in jobs' : j.cyc <= cycles /\ j.cyc # 0
    BY <2>1 DEF RealInv, CycleInv
  <2>3. mem.op = "shutdown" => \A j \in jobs' : ~(j.op = "wakeup" /\ j.cyc = mem.cycle)
    BY DEF RealInv, CycleInv
  <2> QED
    BY <2>2, <2>3 DEF RealInv, CycleInv
<1>3. DataInv'
  BY DEF RealInv, DataInv
<1>4. ASSUME NEW t \in Targets, Sure(t)' PROVE Real(t)'
  <2>1. Sure(t)
    <3>1. CASE mem'.ex[t].fin \/ mem'.ex[t].state = "Completed"
      BY <3>1, ObservedReal DEF RealInv, Sure
    <3>2. ASSUME NEW j \in jobs', j.t = t, j.cyc = mem.cycle, j.op = mem.op, ~j.stale, j.st = "done"
          PROVE  Sure(t)
      BY <3>2 DEF Sure, JobsOf
    <3> QED
      BY <1>4, <3>1, <3>2 DEF Sure, JobsOf
  <2>2. Real(t)
    BY <2>1 DEF RealInv
  <2> QED
    BY <2>2 DEF Real, ResourceAfter
<1> QED
  BY <1>1, <1>2, <1>3, <1>4 DEF RealInv

\* A new run starts with nothing done, in a cycle none of its Jobs is of.
LEMMA StartReal ==
  ASSUME IInv, IInv', RealInv, TransitionToHibernating \/ TransitionToWakingUp
  PROVE  RealInv'
<1>0. /\ cycles \in Nat /\ mem.cycle \in Nat /\ \A j \in jobs : j \in Job /\ j.cyc \in Nat
      /\ UNCHANGED <<jobs, live, saved, res>>
  BY DEF IInv, RestInv, StatusInv, Status, JobInv, Job, TransitionToHibernating,
    TransitionToWakingUp, jobVars, restoreVars
<1>1. ASSUME NEW op \in Ops, NEW c, mem' = Started(mem, op, c),
             \A j \in jobs : ~(j.op = op /\ j.cyc = c), CycleInv', DataInv'
      PROVE  RealInv'
  <2>1. /\ mem'.op = op /\ mem'.cycle = c
        /\ \A t \in Targets : mem'.ex[t].state = "Pending" /\ ~mem'.ex[t].fin
    BY <1>1 DEF Started, PendingExec
  <2>2. NoneFailed'
    BY <1>0, <2>1 DEF NoneFailed, RealInv
  <2>3. \A t \in Targets : ~Sure(t)'
    BY <1>0, <1>1, <2>1 DEF Sure, JobsOf
  <2> QED
    BY <1>1, <2>2, <2>3 DEF RealInv
<1>2. CASE TransitionToHibernating
  <2>1. mem.phase = "Active"
    BY <1>2 DEF TransitionToHibernating, Selected
  <2>2. LiveCycles = {}
    BY <2>1 DEF RealInv, DataInv, LiveCycles
  <2>3. mem' = Started(mem, "shutdown", cycles + 1) /\ cycles' = cycles + 1
    <3>1. PICK c \in {cycles + 1} : /\ mem' = Started(mem, "shutdown", c)
                                    /\ cycles' = IF c > cycles THEN c ELSE cycles
      BY <1>2, <2>2 DEF TransitionToHibernating
    <3> QED
      BY <1>0, <3>1
  <2>4. mem'.op = "shutdown" /\ mem'.cycle = cycles + 1 /\ mem'.phase = "Hibernating"
    BY <2>3 DEF Started, PhaseOf
  <2>5. \A j \in jobs : j.cyc # cycles + 1 /\ j.cyc <= cycles + 1 /\ j.cyc # 0
    BY <1>0 DEF RealInv, CycleInv
  <2>6. CycleInv'
    BY <1>0, <2>3, <2>4, <2>5 DEF CycleInv
  <2>7. DataInv'
    BY <2>4 DEF DataInv
  <2> QED
    BY <1>1, <2>3, <2>5, <2>6, <2>7 DEF Ops
<1>3. CASE TransitionToWakingUp
  <2>1. mem.phase = "Hibernated" /\ mem' = Started(mem, "wakeup", mem.cycle) /\ cycles' = cycles
    BY <1>3 DEF TransitionToWakingUp, Selected
  <2>2. mem'.op = "wakeup" /\ mem'.cycle = mem.cycle /\ mem'.phase = "WakingUp"
    BY <2>1 DEF Started, PhaseOf
  <2>3. mem.op = "shutdown" /\ mem.op \in Ops /\ saved = Targets
    BY <2>1 DEF RealInv, DataInv, Ops
  <2>4. \A j \in jobs : ~(j.op = "wakeup" /\ j.cyc = mem.cycle)
    BY <2>3 DEF RealInv, CycleInv
  <2>5. CycleInv'
    BY <1>0, <2>1, <2>2, <2>3 DEF RealInv, CycleInv
  <2>6. DataInv'
    BY <1>0, <2>2, <2>3 DEF DataInv
  <2> QED
    BY <1>1, <2>1, <2>4, <2>5, <2>6 DEF Ops
<1> QED
  BY <1>2, <1>3

\* A dispatch changes no execution, and what it creates has done nothing yet.
LEMMA DispatchReal ==
  ASSUME IInv, IInv', TailInv, RealInv, Unpruned, ExecuteDispatch \/ ExecuteAdvance
  PROVE  RealInv'
<1>0. /\ ExecutionStep /\ mem.op \in Ops /\ mem.stage \in 1 .. Len(Stages[mem.op])
      /\ Len(Stages[mem.op]) \in Nat /\ UNCHANGED <<res, saved, live, cycles>>
  BY ExecutionStepFacts DEF ExecuteDispatch, ExecuteAdvance, restoreVars
<1>1. mem.phase \in {"Hibernating", "WakingUp"} /\ mem \in Status /\ Executing(mem)
  BY <1>0 DEF ExecutionStep, Handles, PhaseOf, Executing, IInv, StatusInv
<1>2. /\ MemObserved \in Status /\ MemObserved.op = mem.op /\ MemObserved.cycle = mem.cycle
      /\ MemObserved.stage = mem.stage /\ MemObserved.phase = mem.phase
      /\ MemObserved.ex = ObservedEx /\ QueueOK(QueueObserved)
  BY <1>1, ObservationOK DEF IInv, MemObserved, Status
<1>3. MemObserved = Newest(QueueObserved)
  <2>1. mem = Newest(sendq)
    BY <1>1 DEF TailInv, Diverges
  <2> QED
    BY <1>1, <2>1, ObservedTail
<1>4. ASSUME NEW k, NEW s \in Status, SameRun(s, MemObserved), s.phase = mem.phase,
             NEW q, s = Newest(q), ExecuteForStage(k, s, q)
      PROVE  RealInv'
  <2>1. mem'.ex = ObservedEx /\ mem'.op = mem.op /\ mem'.cycle = mem.cycle
    BY <1>2, <1>4, StageRun DEF SameRun
  <2>2. PICK D \in SUBSET Eligible(k, s.ex), U \in SUBSET Blocked(k, s.ex) :
          /\ mem'.phase \in {s.phase, "Error"}
          /\ \E E \in SUBSET D : jobs' = jobs \cup {NewJob(t) : t \in E}
    BY <1>4, StageJobs
  <2>3. \A j \in jobs' : j \in jobs \/ (j.st = "created" /\ j.op = mem.op /\ j.cyc = mem.cycle)
    BY <2>2 DEF NewJob
  <2>4. mem'.phase \notin {"", "Active", "Hibernated"}
    BY <1>1, <1>4, <2>2
  <2> QED
    BY <1>0, <2>1, <2>3, <2>4, KeepsReal
<1>5. CASE ExecuteDispatch
  <2>1. ExecuteForStage(mem.stage, MemObserved, QueueObserved)
    BY <1>5 DEF ExecuteDispatch
  <2> QED
    BY <1>2, <1>3, <1>4, <2>1 DEF SameRun
<1>6. CASE ExecuteAdvance
  <2> DEFINE next == mem.stage + 1
  <2> DEFINE m == [MemObserved EXCEPT !.stage = next]
  <2> DEFINE q == Enqueue(QueueObserved, m)
  <2>1. /\ ~LastStage
        /\ ExecuteForStage(next, m, Enqueue(QueueObserved, [Newest(QueueObserved) EXCEPT !.stage = next]))
    BY <1>6 DEF ExecuteAdvance
  <2>2. next \in Nat \ {0} /\ next <= Len(Stages[mem.op])
    BY <1>0, <2>1 DEF LastStage
  <2>3. ExecuteForStage(next, m, q)
    BY <1>3, <2>1
  <2>4. m \in Status /\ m.stage = next /\ m.phase = mem.phase /\ SameRun(m, MemObserved) /\ m.op = mem.op
    BY <1>2, <2>2 DEF SameRun, Status
  <2> HIDE DEF m
  <2>5. StageInRange(m)
    <3>1. m.op # ""
      BY <1>0, <2>4 DEF Ops
    <3> QED
      BY <1>0, <2>2, <2>4, <3>1 DEF StageInRange
  <2>6. m = Newest(q)
    BY <1>2, <2>4, <2>5, EnqueueOK
  <2> HIDE DEF q, next
  <2> QED
    BY <1>4, <2>3, <2>4, <2>6
<1> QED
  BY <1>5, <1>6

\* What an operation that ends finds, when nothing failed.
LEMMA FinalizeReal ==
  ASSUME IInv, RealInv, \A t \in Targets : ObservedEx[t].state \in Terminal, mem.op \in Ops
  PROVE  /\ mem.op = "shutdown" => saved = Targets
         /\ mem.op = "wakeup" => \A t \in Targets : live[t] = 0
<1>1. \A t \in Targets : ObservedEx[t].state = "Completed"
  BY ObservedReal DEF RealInv, Terminal
<1>2. \A t \in Targets : Real(t)
  BY <1>1, ObservedReal DEF RealInv
<1>3. saved \subseteq Targets
  BY DEF IInv, RestInv
<1> QED
  BY <1>2, <1>3 DEF Real

\* The handlers of a plan that nobody suspends.
LEMMA HandleReal ==
  ASSUME IInv, IInv', TailInv, RealInv, Unpruned, Orderly(mem),
         Idle \/ Execute \/ Recovery \/ TransientError
  PROVE  RealInv'
<1>0. mem \in Status /\ live \in [Targets -> Nat]
  BY DEF IInv, StatusInv, RestInv
<1>1. /\ MemObserved \in Status /\ MemObserved.op = mem.op /\ MemObserved.cycle = mem.cycle
      /\ MemObserved.phase = mem.phase /\ MemObserved.ex = ObservedEx
  BY <1>0, ObservationOK DEF IInv, MemObserved, Status
<1>2. /\ mem.phase \in {"", "Active"} => \A t \in Targets : live[t] = 0
      /\ mem.phase = "Hibernated" => mem.op = "shutdown" /\ saved = Targets
  BY DEF RealInv, DataInv
<1>3. CASE LifecycleInit
  <2>1. /\ mem' = WithPhase(mem, "Active") /\ live' = [t \in Targets |-> 0]
        /\ UNCHANGED <<jobs, res, saved, cycles>>
    BY <1>3 DEF LifecycleInit, jobVars
  <2>2. mem'.op = mem.op /\ mem'.cycle = mem.cycle /\ mem'.ex = mem.ex /\ mem'.phase = "Active"
    BY <1>0, <2>1 DEF WithPhase, Status
  <2> QED
    BY <2>1, <2>2, KeepsReal
<1>4. CASE IdleStay \/ RecoveryBackoff \/ ManualRetryFails \/ RecoveryAborted \/ TransientError
  <2>1. UNCHANGED <<mem, jobs, res, saved, live, cycles>>
    BY <1>4 DEF IdleStay, RecoveryBackoff, ManualRetryFails, RecoveryAborted, TransientError, jobVars, restoreVars
  <2> QED
    BY <1>2, <2>1, KeepsReal
<1>5. CASE ManualRetry
  <2>1. mem' = [mem EXCEPT !.retry = 0] /\ UNCHANGED <<jobs, res, saved, live, cycles>>
    BY <1>5 DEF ManualRetry, jobVars, restoreVars
  <2>2. mem'.op = mem.op /\ mem'.cycle = mem.cycle /\ mem'.ex = mem.ex /\ mem'.phase = mem.phase
    BY <1>0, <2>1 DEF Status
  <2> QED
    BY <1>2, <2>1, <2>2, KeepsReal
<1>6. CASE Retry
  <2>1. mem' = Retried(mem) /\ UNCHANGED <<res, saved, live, cycles>>
    BY <1>6 DEF Retry, restoreVars
  <2>2. PICK J \in SUBSET jobs : jobs' = Relabelled(J)
    BY <1>6 DEF Retry, RetryStale
  <2>3. mem'.op = mem.op /\ mem'.cycle = mem.cycle
    BY <1>0, <2>1, RetriedOK
  <2>4. \A t \in Targets : mem'.ex[t] = mem.ex[t]
    <3>1. \A t \in Targets : mem.ex[t].state # "Failed"
      BY DEF RealInv, NoneFailed
    <3> QED
      BY <1>0, <2>1, <3>1 DEF Retried, Status
  <2>5. mem'.phase \notin {"", "Active", "Hibernated"}
    BY <1>0, <2>1 DEF Retried, Status, PhaseOf
  <2>6. ASSUME NEW j \in jobs'
        PROVE  \/ j \in jobs
               \/ j.stale /\ \E i \in jobs : j.op = i.op /\ j.cyc = i.cyc /\ j.st = i.st
    <3>1. j \in jobs \/ \E i \in J : j = [i EXCEPT !.stale = TRUE]
      BY <2>2 DEF Relabelled
    <3>2. \A i \in J : i \in Job
      BY DEF IInv, JobInv
    <3> QED
      BY <3>1, <3>2 DEF Job
  <2> QED
    BY <2>1, <2>3, <2>4, <2>5, <2>6, KeepsReal
<1>7. ~OperationMismatch
  BY DEF OperationMismatch, Orderly, Executing
<1>8. CASE ExecuteStageError
  <2>1. ExecutionStep /\ StageFailed
    BY <1>8 DEF ExecuteStageError
  <2>2. PICK t \in StageAt(mem.stage).targets : ObservedEx[t].state \in {"Failed", "Aborted"}
    BY <2>1 DEF StageFailed
  <2>3. t \in Targets
    BY <2>1, <2>2, ExecutionStepFacts, StageTargets DEF StageAt
  <2> QED
    BY <2>2, <2>3, ObservedReal DEF RealInv
<1>9. CASE ExecuteWait
  <2>1. mem' = MemObserved /\ UNCHANGED <<jobs, res, saved, live, cycles>>
    BY <1>9 DEF ExecuteWait, restoreVars
  <2> QED
    BY <1>1, <1>2, <2>1, KeepsReal
<1>10. CASE ExecuteFinalize
  <2>1. /\ UNCHANGED <<jobs, res, saved, cycles>> /\ Handles(mem.phase, mem.op)
        /\ \/ mem' = MemObserved
           \/ /\ mem' = Finalized(MemObserved)
              /\ \A t \in Targets : ObservedEx[t].state \in Terminal
        /\ live' = live \/ live' = [t \in Targets |-> 0]
    BY <1>10 DEF ExecuteFinalize, ExecutionStep, PostWakeupCleanup, Unlock
  <2>2. \A t \in Targets : live'[t] = live[t] \/ live'[t] = 0
    BY <2>1
  <2>3. mem.phase \in {"Hibernating", "WakingUp"} /\ mem.op \in Ops
    BY <2>1 DEF Handles, PhaseOf
  <2>4. CASE mem' = MemObserved
    BY <1>1, <2>1, <2>2, <2>3, <2>4, KeepsReal
  <2>5. CASE /\ mem' = Finalized(MemObserved)
             /\ \A t \in Targets : ObservedEx[t].state \in Terminal
    <3>1. /\ mem'.ex = ObservedEx /\ mem'.op = mem.op /\ mem'.cycle = mem.cycle
          /\ mem'.phase = IF mem.op = "shutdown" THEN "Hibernated" ELSE "Active"
      BY <1>1, <2>5 DEF Finalized, Status
    <3>2. /\ mem.op = "shutdown" => saved = Targets
          /\ mem.op = "wakeup" => \A t \in Targets : live[t] = 0
      BY <2>3, <2>5, FinalizeReal
    <3>3. /\ mem'.phase \in {"", "Active"} => \A t \in Targets : live'[t] = 0
          /\ mem'.phase = "Hibernated" => mem.op = "shutdown" /\ saved = Targets
      BY <2>2, <2>3, <3>1, <3>2 DEF Ops
    <3> QED
      BY <2>1, <2>2, <3>1, <3>3, KeepsReal
  <2> QED
    BY <2>1, <2>4, <2>5
<1> QED
  BY <1>3, <1>4, <1>5, <1>6, <1>7, <1>8, <1>9, <1>10, StartReal, DispatchReal
  DEF Idle, Execute, Recovery

\* A runner that ends well did what its Job is for.
LEMMA SucceedsReal ==
  ASSUME IInv, IInv', RunInv, RealInv, UNCHANGED <<mem, cycles>>, NEW j \in jobs, j.st = "active",
         Became(j, [j EXCEPT !.st = "done"]),
         res' = [res EXCEPT ![j.t] = ResourceAfter(j.op)],
         \/ j.op = "shutdown" /\ Save(j)
         \/ j.op = "wakeup" /\ live' = [live EXCEPT ![j.t] = 0] /\ UNCHANGED saved
  PROVE  RealInv'
<1> DEFINE k == [j EXCEPT !.st = "done"]
<1>0. /\ j \in Job /\ j \in Working /\ j.t \in Targets /\ k.st = "done"
      /\ k.t = j.t /\ k.op = j.op /\ k.cyc = j.cyc
      /\ res \in [Targets -> {"up", "down"}] /\ live \in [Targets -> Nat] /\ saved \subseteq Targets
  BY DEF IInv, JobInv, RestInv, Job, Working, Finished
<1>1. j.op = mem.op /\ mem.op \in Ops /\ mem.phase \in {"Hibernating", "WakingUp", "Error"}
  BY <1>0 DEF RunInv, PlaceInv, Job
<1>2. jobs' = (jobs \ {j}) \cup {k}
  BY DEF Became
<1> HIDE DEF k
<1>3. saved \subseteq saved' /\ saved' \subseteq Targets
  BY DEF Save, IInv, RestInv
<1>4. NoneFailed'
  BY <1>0, <1>2 DEF RealInv, NoneFailed
<1>5. CycleInv'
  BY <1>0, <1>2 DEF RealInv, CycleInv
<1>6. DataInv'
  BY <1>1, <1>3 DEF RealInv, DataInv
<1>7. ASSUME NEW t \in Targets, Sure(t)' PROVE Real(t)'
  <2>1. CASE t = j.t
    <3>1. res'[t] = ResourceAfter(mem.op)
      BY <1>0, <1>1, <2>1
    <3>2. IF mem.op = "shutdown" THEN t \in saved' ELSE live'[t] = 0
      BY <1>0, <1>1, <2>1 DEF Save
    <3> QED
      BY <1>1, <3>1, <3>2 DEF Real, ResourceAfter
  <2>2. CASE t # j.t
    <3>1. JobsOf(mem, t)' = JobsOf(mem, t)
      BY <1>0, <1>2, <2>2 DEF JobsOf
    <3>2. Sure(t)
      BY <1>7, <3>1 DEF Sure
    <3>3. Real(t)
      BY <3>2 DEF RealInv
    <3>4. res'[t] = res[t] /\ live'[t] = live[t]
      BY <1>0, <2>2 DEF Save
    <3> QED
      BY <1>3, <3>3, <3>4 DEF Real, ResourceAfter
  <2> QED
    BY <2>1, <2>2
<1> QED
  BY <1>4, <1>5, <1>6, <1>7 DEF RealInv

\* The Jobs' steps.
LEMMA JobReal ==
  ASSUME IInv, IInv', RunInv, RealInv, Smooth', JobStep
  PROVE  /\ RealInv'
         /\ \A t \in Targets : live[t] # 0 /\ live'[t] = 0 => res'[t] = "up"
<1>0. /\ used \in [Events -> Nat] /\ {"podFailure", "jobFailure", "flushError", "conflict"} \subseteq Events
      /\ used'["podFailure"] = 0 /\ used'["jobFailure"] = 0
      /\ used'["flushError"] = 0 /\ used'["conflict"] = 0
      /\ live \in [Targets -> Nat] /\ res \in [Targets -> {"up", "down"}]
  BY DEF IInv, RestInv, Events, Smooth, Steady
<1>1. ASSUME NEW e \in {"podFailure", "jobFailure", "flushError", "conflict"}, Count(e) PROVE FALSE
  BY <1>0, <1>1 DEF Count
<1>2. /\ mem.phase \in {"", "Active"} => \A t \in Targets : live[t] = 0
      /\ mem.phase = "Hibernated" => mem.op = "shutdown" /\ saved = Targets
  BY DEF RealInv, DataInv
<1>3. UNCHANGED <<mem, cycles>>
  BY DEF JobStep, JobStart, JobPodFails, ShutdownSucceeds, WakeupSucceeds, JobFails, JobRemoved,
    MarkJobAsStale
<1>4. ASSUME NEW j \in jobs, JobStart(j) \/ JobPodFails(j) \/ JobFails(j)
      PROVE  JobStart(j)
  <2>1. ~JobPodFails(j)
    BY <1>1 DEF JobPodFails
  <2>2. ASSUME JobFails(j) PROVE FALSE
    <3>1. j.st = "active" /\ j.op = "wakeup" /\ j.t \notin saved
      BY <1>1, <2>2 DEF JobFails
    <3>2. j.t \in Targets /\ j.op = mem.op
      BY <3>1 DEF IInv, JobInv, Job, RunInv, PlaceInv, Working, Finished
    <3> QED
      BY <3>1, <3>2 DEF RealInv, DataInv
  <2> QED
    BY <1>4, <2>1, <2>2
<1>5. ASSUME NEW j \in jobs, JobStart(j)
      PROVE  RealInv' /\ live' = live
  <2> DEFINE k == [j EXCEPT !.st = "active"]
  <2>1. /\ jobs' = (jobs \ {j}) \cup {k} /\ UNCHANGED <<res, saved, live>>
        /\ j.st = "created" /\ j \in Job /\ k.st = "active" /\ k.t = j.t /\ k.op = j.op /\ k.cyc = j.cyc
    BY <1>5 DEF JobStart, Became, restoreVars, IInv, JobInv, Job
  <2> HIDE DEF k
  <2>2. NoneFailed'
    BY <1>3, <2>1 DEF RealInv, NoneFailed
  <2>3. CycleInv'
    BY <1>3, <2>1 DEF RealInv, CycleInv
  <2>4. DataInv'
    BY <1>3, <2>1 DEF RealInv, DataInv
  <2>5. ASSUME NEW t \in Targets, Sure(t)' PROVE Real(t)'
    <3>1. Sure(t)
      BY <1>3, <2>1, <2>5 DEF Sure, JobsOf
    <3>2. Real(t)
      BY <3>1 DEF RealInv
    <3> QED
      BY <1>3, <2>1, <3>2 DEF Real, ResourceAfter
  <2> QED
    BY <2>1, <2>2, <2>3, <2>4, <2>5 DEF RealInv
<1>6. ASSUME NEW j \in jobs, ShutdownSucceeds(j) PROVE RealInv' /\ \A t \in Targets : live'[t] = 0 => live[t] = 0
  <2>1. /\ j.st = "active" /\ j.op = "shutdown" /\ Became(j, [j EXCEPT !.st = "done"]) /\ Save(j)
        /\ res' = [res EXCEPT ![j.t] = "down"]
    BY <1>1, <1>6 DEF ShutdownSucceeds
  <2>2. j.cyc # 0
    BY DEF RealInv, CycleInv
  <2>3. \A t \in Targets : live'[t] = IF t = j.t THEN j.cyc ELSE live[t]
    BY <1>0, <2>1 DEF Save
  <2> QED
    BY <1>3, <2>1, <2>2, <2>3, SucceedsReal DEF ResourceAfter
<1>7. ASSUME NEW j \in jobs, WakeupSucceeds(j)
      PROVE  RealInv' /\ \A t \in Targets : live[t] # 0 /\ live'[t] = 0 => res'[t] = "up"
  <2>1. /\ j.st = "active" /\ j.op = "wakeup" /\ Became(j, [j EXCEPT !.st = "done"])
        /\ live' = [live EXCEPT ![j.t] = 0] /\ UNCHANGED saved
        /\ res' = [res EXCEPT ![j.t] = "up"]
    BY <1>1, <1>7 DEF WakeupSucceeds
  <2>2. \A t \in Targets : (t = j.t /\ res'[t] = "up") \/ live'[t] = live[t]
    BY <1>0, <2>1
  <2> QED
    BY <1>3, <2>1, <2>2, SucceedsReal DEF ResourceAfter
<1>8. ASSUME UNCHANGED <<res, live, saved>>,
             \A j \in jobs' : \/ j \in jobs
                              \/ j.stale /\ \E i \in jobs : j.op = i.op /\ j.cyc = i.cyc /\ j.st = i.st
      PROVE  RealInv' /\ live' = live
  BY <1>2, <1>3, <1>8, KeepsReal
<1>9. ASSUME NEW j \in jobs, JobRemoved(j) PROVE RealInv' /\ live' = live
  <2>1. jobs' \subseteq jobs /\ UNCHANGED <<res, live, saved>>
    BY <1>9 DEF JobRemoved, restoreVars
  <2> QED
    BY <1>8, <2>1
<1>10. ASSUME MarkJobAsStale PROVE RealInv' /\ live' = live
  <2>1. UNCHANGED <<res, live, saved>> /\ (UNCHANGED jobs \/ \E J \in SUBSET jobs : jobs' = Relabelled(J))
    BY <1>10 DEF MarkJobAsStale, restoreVars
  <2>2. ASSUME NEW J \in SUBSET jobs, jobs' = Relabelled(J), NEW j \in jobs'
        PROVE  \/ j \in jobs
               \/ j.stale /\ \E i \in jobs : j.op = i.op /\ j.cyc = i.cyc /\ j.st = i.st
    <3>1. j \in jobs \/ \E i \in J : j = [i EXCEPT !.stale = TRUE]
      BY <2>2 DEF Relabelled
    <3>2. \A i \in J : i \in Job
      BY DEF IInv, JobInv
    <3> QED
      BY <3>1, <3>2 DEF Job
  <2> QED
    BY <1>8, <2>1, <2>2
<1> QED
  BY <1>4, <1>5, <1>6, <1>7, <1>9, <1>10 DEF JobStep

\* Every step keeps what is completed real.
LEMMA NextReal ==
  /\ IInv /\ IInv' /\ TailInv /\ PhaseInv /\ OrderlyInv /\ LabelsInv
  /\ (Steady /\ Unpruned => RunInv) /\ (Smooth /\ Unpruned => RealInv) /\ [Next]_vars
  => (Smooth /\ Unpruned => RealInv)'
<1> SUFFICES ASSUME IInv, IInv', TailInv, PhaseInv, OrderlyInv, LabelsInv,
                    Steady /\ Unpruned => RunInv, Smooth /\ Unpruned => RealInv,
                    [Next]_vars, Smooth', Unpruned
             PROVE  RealInv'
  BY DEF Unpruned
<1>1. /\ Steady /\ Calm /\ Orderly(mem) /\ Orderly(db)
      /\ ~UserSuspend /\ ~Crash /\ ~Suspension /\ ~DrainTimeout
  BY SteadyStep DEF Smooth
<1>2. RunInv /\ RealInv
  <2>1. {"jobFailure", "flushError", "conflict"} \subseteq Events
    BY DEF Events
  <2>2. Smooth
    BY <1>1, <2>1, NeverUncounted DEF Smooth
  <2> QED
    BY <1>1, <2>2
<1>3. CASE Idle \/ Execute \/ Recovery \/ TransientError
  BY <1>1, <1>2, <1>3, HandleReal
<1>4. CASE JobStep
  BY <1>2, <1>4, JobReal
<1>5. ASSUME UNCHANGED <<mem, jobVars, cycles, restoreVars, res>> PROVE RealInv'
  <2>1. UNCHANGED <<mem, jobs, cycles, live, saved, res>>
    BY <1>5 DEF jobVars, restoreVars
  <2>2. /\ mem.phase \in {"", "Active"} => \A t \in Targets : live[t] = 0
        /\ mem.phase = "Hibernated" => mem.op = "shutdown" /\ saved = Targets
    BY <1>2 DEF RealInv, DataInv
  <2> QED
    BY <1>2, <2>1, <2>2, KeepsReal
<1>6. CASE \/ WriteStatus \/ Reconcile \/ Deliver \/ UserRetryNow \/ ScheduleBoundary
           \/ UNCHANGED vars
  BY <1>5, <1>6 DEF WriteStatus, Reconcile, Deliver, UserRetryNow, ScheduleBoundary, vars
<1>7. CASE IdleExit
  <2>1. ~Diverges
    BY DEF Diverges
  <2> QED
    BY <1>1, <1>5, <1>7, <2>1, ExitSame
<1> QED
  BY <1>1, <1>3, <1>4, <1>6, <1>7 DEF Next, Handle, Outside

\* As long as no runner fails, what status or Jobs say was done was done, with the
\* restore data to go with it: every shutdown is of a cycle of its own, whose Jobs
\* no later run can mistake for its own.
THEOREM RealInvariant == Spec => [](Smooth /\ Unpruned => RealInv)
<1>1. Init => RealInv
  <2> SUFFICES ASSUME Init PROVE RealInv
    OBVIOUS
  <2>1. /\ mem.phase = "" /\ mem.op = "" /\ mem.cycle = 0 /\ cycles = 0 /\ jobs = {}
        /\ live = [t \in Targets |-> 0] /\ mem.ex = [t \in Targets |-> PendingExec]
    BY DEF Init
  <2>2. \A t \in Targets : mem.ex[t].state = "Pending" /\ ~mem.ex[t].fin /\ live[t] = 0
    <3>1. \A t \in Targets : mem.ex[t] = PendingExec /\ live[t] = 0
      BY <2>1
    <3>2. PendingExec.state = "Pending" /\ ~PendingExec.fin
      BY DEF PendingExec
    <3> QED
      BY <3>1, <3>2
  <2>3. NoneFailed /\ DataInv
    BY <2>1, <2>2 DEF NoneFailed, DataInv
  <2>4. CycleInv
    <3>1. mem.op \notin Ops /\ mem.op # "shutdown"
      BY <2>1 DEF Ops
    <3>2. mem.cycle <= cycles
      <4>1. mem.cycle = cycles /\ cycles \in Nat
        BY <2>1
      <4> QED
        BY <4>1
    <3> QED
      BY <2>1, <3>1, <3>2 DEF CycleInv
  <2>5. \A t \in Targets : ~Sure(t)
    BY <2>1, <2>2 DEF Sure, JobsOf
  <2> QED
    BY <2>3, <2>4, <2>5 DEF RealInv
<1>2. Init => TailInv
  BY DEF Init, TailInv, Newest
<1>3. Init => PhaseInv
  BY InitSimulated
<1>4. IInv /\ IInv' /\ PhaseInv /\ [Next]_vars => PhaseInv'
  BY NextSimulated DEF Simulated
<1> QED
  BY <1>1, <1>2, <1>3, <1>4, NextReal, NextTail, RunnersInPlace, OrderInvariant,
     LabelInvariant, WorkerInvariant, PTL DEF Spec

\* An execution the controller reports Completed really took place, although Jobs
\* are deleted, collected and labelled late.
THEOREM CompletedIsRealHolds == Spec => [](Smooth /\ Unpruned => CompletedIsReal)
<1>1. (Smooth /\ Unpruned => RealInv) => (Smooth /\ Unpruned => CompletedIsReal)
  BY DEF RealInv, Sure, Real, CompletedIsReal
<1> QED
  BY <1>1, RealInvariant, PTL

\* Live restore data is given up only for a target that is up again: the handlers
\* that clear it find none, and a runner clears its own.
THEOREM RestorePointKeptHolds == Spec /\ [](Smooth /\ Unpruned) => RestorePointKept
<1>1. ASSUME IInv, IInv', OrderlyInv, LabelsInv, RunInv, RealInv, Smooth', [Next]_vars,
             NEW t \in Targets, live[t] # 0, live'[t] = 0
      PROVE  res'[t] = "up"
  <2>1. /\ Orderly(mem) /\ ~Crash /\ ~Suspension /\ ~DrainTimeout
    BY <1>1, SteadyStep DEF Smooth
  <2>2. CASE JobStep
    BY <1>1, <2>2, JobReal
  <2>3. ~LifecycleInit
    BY <1>1 DEF LifecycleInit, Selected, RealInv, DataInv
  <2>4. ~ExecuteFinalize
    <3> SUFFICES ASSUME ExecuteFinalize PROVE FALSE
      OBVIOUS
    <3>1. /\ mem.op \in Ops /\ mem.op = "wakeup"
          /\ \A u \in Targets : ObservedEx[u].state \in Terminal
      BY <1>1 DEF ExecuteFinalize, ExecutionStep, Handles
    <3> QED
      BY <1>1, <3>1, FinalizeReal
  <2>5. \/ LifecycleInit \/ ExecuteFinalize \/ JobStep \/ Crash \/ Suspension \/ DrainTimeout
        \/ UNCHANGED live
    BY <1>1 DEF Next, Handle, Idle, Execute, Recovery, TransitionToHibernating,
      TransitionToWakingUp, IdleStay, OperationMismatch, ExecuteStageError, ExecuteAdvance,
      ExecuteDispatch, ExecuteWait, RecoveryBackoff, Retry, ManualRetry, ManualRetryFails, RecoveryAborted,
      TransientError, WriteStatus, Reconcile, Deliver, IdleExit, Outside, UserSuspend,
      UserRetryNow, ScheduleBoundary, restoreVars, vars
  <2> QED
    BY <1>1, <2>1, <2>2, <2>3, <2>4, <2>5
<1>2. /\ IInv /\ IInv' /\ OrderlyInv /\ LabelsInv /\ (Smooth /\ Unpruned)
      /\ (Smooth /\ Unpruned)' /\ (Steady /\ Unpruned => RunInv)
      /\ (Smooth /\ Unpruned => RealInv) /\ [Next]_vars
      => [\A t \in Targets : live[t] # 0 /\ live'[t] = 0 => res'[t] = "up"]_vars
  BY <1>1 DEF Smooth
<1> QED
  BY <1>2, RealInvariant, RunnersInPlace, OrderInvariant, LabelInvariant, WorkerInvariant, PTL
  DEF Spec, RestorePointKept

-----------------------------------------------------------------------------
(* Suspensions wait for the runners *)

\* No runner failed and no pod was replaced, the controller was not restarted, and
\* under failFast no Create failed: there a shutdown stops with runners at work.
Gentle ==
  /\ used["crash"] = 0 /\ used["podFailure"] = 0 /\ (FailFast => used["createError"] = 0)
  /\ \A j \in jobs : j.st # "failed"

\* Nothing failed, and a finish time is that of a completion.
CleanInv ==
  \A t \in Targets : /\ mem.ex[t].state \notin {"Failed", "Aborted"}
                     /\ mem.ex[t].fin => mem.ex[t].state = "Completed"

\* Runners work only while the operation is under way.
DrainInv == RunInv /\ CleanInv /\ (Working # {} => Handles(mem.phase, mem.op))

\* An observation finds nothing failed, and what runs without a finish time.
LEMMA ObservedClean ==
  ASSUME IInv, UniqueCurrentJob, SettledInv, CleanInv, \A j \in jobs : j.st # "failed",
         NEW t \in Targets
  PROVE  /\ ObservedEx[t].state \notin {"Failed", "Aborted"}
         /\ ObservedEx[t].fin => ObservedEx[t].state = "Completed"
         /\ \A j \in JobsOf(mem, t) : ~Finished(j) => ObservedEx[t].logs /\ ~ObservedEx[t].fin
<1>1. CurrentJobs(t) = JobsOf(mem, t)
  BY DEF CurrentJobs, JobsOf
<1>2. /\ mem.ex[t] \in ExecStatus /\ ObservedEx[t] = Observed(t)
      /\ mem.ex[t].state \notin {"Failed", "Aborted"}
      /\ mem.ex[t].fin => mem.ex[t].state = "Completed"
  BY DEF IInv, StatusInv, Status, ObservedEx, CleanInv
<1>3. CASE CurrentJobs(t) # {}
  <2>1. PICK j \in jobs : j = CHOOSE i \in CurrentJobs(t) : TRUE
    BY <1>3 DEF CurrentJobs
  <2>2. j \in CurrentJobs(t) /\ ObservedEx[t] = FromJob(mem.ex[t], j)
    BY <1>2, <1>3, <2>1 DEF Observed
  <2>3. \A i \in CurrentJobs(t) : i = j
    BY <2>2 DEF CurrentJobs, UniqueCurrentJob
  <2>4. j \in Job /\ j.st # "failed"
    BY DEF IInv, JobInv
  <2>5. mem.ex[t].state = "Completed" => Finished(j)
    BY <1>1, <2>2 DEF SettledInv, Terminal
  <2>6. /\ FromJob(mem.ex[t], j).state \notin {"Failed", "Aborted"}
        /\ FromJob(mem.ex[t], j).logs
        /\ FromJob(mem.ex[t], j).fin = (mem.ex[t].fin \/ Finished(j))
        /\ Finished(j) => FromJob(mem.ex[t], j).state = "Completed"
    BY <1>2, <2>4 DEF FromJob, Job, Finished
  <2>7. mem.ex[t].fin => Finished(j)
    BY <1>2, <2>5
  <2> QED
    BY <1>1, <2>2, <2>3, <2>6, <2>7
<1>4. CASE CurrentJobs(t) = {}
  <2>1. ObservedEx[t] = FromNoJob(mem.ex[t], miss[t])
    BY <1>2, <1>4 DEF Observed
  <2>2. LET e == [mem.ex[t] EXCEPT !.state = "Pending"] IN e.state = "Pending" /\ e.fin = mem.ex[t].fin
    BY <1>2 DEF ExecStatus
  <2>3. /\ FromNoJob(mem.ex[t], miss[t]).state \notin {"Failed", "Aborted"}
        /\ FromNoJob(mem.ex[t], miss[t]).fin => FromNoJob(mem.ex[t], miss[t]).state = "Completed"
    BY <1>2, <2>2 DEF FromNoJob
  <2> QED
    BY <1>1, <1>4, <2>1, <2>3
<1> QED
  BY <1>3, <1>4

\* A step that leaves the Jobs alone, within the run.
LEMMA SameDrain ==
  ASSUME IInv, IInv', UniqueCurrentJob, DrainInv, \A j \in jobs : j.st # "failed", UNCHANGED jobs,
         mem'.op = mem.op, mem'.cycle = mem.cycle, mem'.stage = mem.stage,
         mem'.ex = mem.ex \/ mem'.ex = ObservedEx,
         mem'.phase = mem.phase \/ Working = {}
  PROVE  DrainInv'
<1>1. \A t \in Targets : mem'.ex[t].state \in Terminal => \A j \in JobsOf(mem, t) : Finished(j)
  BY ObservedSettled DEF DrainInv, RunInv, SettledInv
<1>2. mem'.phase \in {"Hibernating", "WakingUp", "Error"} \/ Working = {}
  BY DEF DrainInv, Handles, PhaseOf
<1>3. RunInv'
  BY <1>1, <1>2, SameJobs DEF DrainInv
<1>4. CleanInv'
  BY ObservedClean DEF DrainInv, RunInv, CleanInv
<1>5. Working' = Working
  BY DEF Working, Finished
<1> QED
  BY <1>3, <1>4, <1>5 DEF DrainInv, Handles

\* Where the drain finds no execution active no runner is at work.
LEMMA DrainedNone ==
  ASSUME IInv, UniqueCurrentJob, LabelInv, DrainInv, \A j \in jobs : j.st # "failed",
         ~Executing(mem) \/ ActiveExecutions = {}
  PROVE  Working = {}
<1> SUFFICES ASSUME NEW j \in Working PROVE FALSE
  OBVIOUS
<1>1. j \in Job /\ j \in jobs /\ ~Finished(j)
  BY DEF Working, IInv, JobInv
<1>2. j.op = mem.op /\ j.cyc = mem.cycle /\ ~j.stale /\ j.t \in Targets
  BY <1>1 DEF DrainInv, RunInv, PlaceInv, LabelInv, Job
<1>3. j \in JobsOf(mem, j.t)
  BY <1>1, <1>2 DEF JobsOf
<1>4. ObservedEx[j.t].logs /\ ~ObservedEx[j.t].fin
  BY <1>1, <1>2, <1>3, ObservedClean DEF DrainInv, RunInv
<1>5. j.t \in ActiveExecutions
  BY <1>2, <1>4 DEF ActiveExecutions
<1>6. Executing(mem)
  BY DEF DrainInv, Handles, PhaseOf, Executing
<1> QED
  BY <1>5, <1>6

\* The handlers of a suspension.
LEMMA SuspensionDrain ==
  ASSUME IInv, IInv', UniqueCurrentJob, LabelInv, DrainInv, \A j \in jobs : j.st # "failed", Suspension
  PROVE  DrainInv'
<1>0. mem \in Status
  BY DEF IInv, StatusInv
<1>1. /\ MemObserved \in Status /\ MemObserved.op = mem.op /\ MemObserved.cycle = mem.cycle
      /\ MemObserved.stage = mem.stage /\ MemObserved.phase = mem.phase
      /\ MemObserved.ex = ObservedEx
  BY <1>0, ObservationOK DEF IInv, MemObserved, Status
<1>p. ASSUME NEW s \in Status, NEW ph
      PROVE  LET u == WithPhase(s, ph)
             IN u.ex = s.ex /\ u.op = s.op /\ u.cycle = s.cycle /\ u.stage = s.stage
  BY DEF WithPhase, Status
<1>2. CASE AwaitExecutionDrain
  <2>1. mem' = MemObserved /\ UNCHANGED jobs
    BY <1>2 DEF AwaitExecutionDrain
  <2> QED
    BY <1>1, <2>1, SameDrain
<1>3. CASE PreSuspension
  <2>1. Working = {}
    BY <1>3, DrainedNone DEF PreSuspension
  <2>2. PICK s \in {mem, MemObserved} : UNCHANGED jobs /\ (mem' = s \/ mem' = WithPhase(s, "Suspended"))
    BY <1>3 DEF PreSuspension, PerformSuspension, SuspensionPatchFails
  <2>3. /\ mem'.op = mem.op /\ mem'.cycle = mem.cycle /\ mem'.stage = mem.stage
        /\ mem'.ex = mem.ex \/ mem'.ex = ObservedEx
    BY <1>0, <1>1, <1>p, <2>2
  <2> QED
    BY <2>1, <2>2, <2>3, SameDrain
<1>4. CASE SuspendedStay \/ Resume \/ ForceWakeUpOnResume
  <2>1. mem.phase = "Suspended" /\ UNCHANGED jobs
    BY <1>4 DEF SuspendedStay, Resume, ForceWakeUpOnResume, Selected, jobVars
  <2>2. Working = {}
    BY <2>1 DEF DrainInv, Handles, PhaseOf
  <2>3. mem' = mem \/ mem' = Resumed(mem) \/ mem' = WithPhase(mem, "Hibernated")
    BY <1>4 DEF SuspendedStay, Resume, ForceWakeUpOnResume
  <2>4. Resumed(mem).op = mem.op /\ Resumed(mem).cycle = mem.cycle /\ Resumed(mem).stage = mem.stage
        /\ Resumed(mem).ex = mem.ex
    BY <1>0 DEF Resumed, Status
  <2>5. mem'.op = mem.op /\ mem'.cycle = mem.cycle /\ mem'.stage = mem.stage /\ mem'.ex = mem.ex
    BY <1>0, <1>p, <2>3, <2>4
  <2> QED
    BY <2>1, <2>2, <2>5, SameDrain
<1> QED
  BY <1>2, <1>3, <1>4 DEF Suspension

\* executeForStage does not fail where nothing is blocked and every Create succeeds.
LEMMA StageSucceeds ==
  ASSUME IInv, NEW k, NEW s \in Status, NEW q, ExecuteForStage(k, s, q), Blocked(k, s.ex) = {},
         FailFast => used'["createError"] = 0
  PROVE  mem'.phase = s.phase
<1>1. PICK D \in SUBSET Eligible(k, s.ex), U \in SUBSET Blocked(k, s.ex), failed \in BOOLEAN :
        \E F \in SUBSET D : \E G \in SUBSET F :
          /\ LoopOutcome(k, s.ex, D, F, U, failed)
          /\ IF F = {} THEN UNCHANGED used ELSE May("createError") /\ Count("createError")
          /\ jobs' = jobs \cup {NewJob(t) : t \in (D \ F) \cup G}
          /\ LET s1 == IF Overridden THEN s ELSE Pruned(s, U)
                 q1 == IF U = {} THEN q ELSE Enqueue(q, Pruned(Newest(q), U))
             IN IF failed
                THEN /\ mem' = WithPhase(s1, "Error")
                     /\ sendq' = Enqueue(q1, WithPhase(Newest(q1), "Error"))
                     /\ Requeue
                ELSE mem' = s1 /\ sendq' = q1 /\ RequeueAfter
  BY SMTT(30) DEF ExecuteForStage
<1>2. PICK F \in SUBSET D :
        /\ LoopOutcome(k, s.ex, D, F, U, failed)
        /\ F # {} => Count("createError")
  BY <1>1
<1>3. F # {} => used'["createError"] # 0
  <2>1. used \in [Events -> Nat] /\ "createError" \in Events
    BY DEF IInv, RestInv, Events
  <2> QED
    BY <1>2, <2>1 DEF Count
<1>4. ~failed
  BY <1>2, <1>3 DEF LoopOutcome
<1>5. U = {} /\ Pruned(s, {}) = s
  BY PrunedNone
<1> QED
  BY <1>1, <1>4, <1>5

\* The two handlers that create Jobs.
LEMMA ExecuteDrain ==
  ASSUME IInv, IInv', TailInv, UniqueCurrentJob, LabelInv, DrainInv, Unpruned,
         \A j \in jobs : j.st # "failed", FailFast => used'["createError"] = 0,
         ExecuteDispatch \/ ExecuteAdvance
  PROVE  DrainInv'
<1>0. /\ ExecutionStep /\ mem.op \in Ops /\ mem.stage \in 1 .. Len(Stages[mem.op])
      /\ Len(Stages[mem.op]) \in Nat
  BY ExecutionStepFacts DEF ExecuteDispatch, ExecuteAdvance
<1>1. Handles(mem.phase, mem.op) /\ mem \in Status /\ Executing(mem)
  BY <1>0 DEF ExecutionStep, Handles, PhaseOf, Executing, IInv, StatusInv
<1>2. /\ MemObserved \in Status /\ MemObserved.op = mem.op /\ MemObserved.cycle = mem.cycle
      /\ MemObserved.stage = mem.stage /\ MemObserved.phase = mem.phase
      /\ MemObserved.ex = ObservedEx /\ QueueOK(QueueObserved)
  BY <1>1, ObservationOK DEF IInv, MemObserved, Status
<1>3. MemObserved = Newest(QueueObserved)
  <2>1. mem = Newest(sendq)
    BY <1>1 DEF TailInv, Diverges, Executing
  <2> QED
    BY <1>1, <2>1, ObservedTail
<1>4. \A t \in Targets : /\ ObservedEx[t].state \notin {"Failed", "Aborted"}
                         /\ ObservedEx[t].fin => ObservedEx[t].state = "Completed"
  BY ObservedClean DEF DrainInv, RunInv
<1>5. \A k : Blocked(k, ObservedEx) = {}
  <2>1. \A d \in Deps : d[1] \in Targets
    BY DepsAssumption
  <2> QED
    BY <1>4, <2>1 DEF Blocked, FailedUpstream
<1>6. ASSUME NEW k, NEW s \in Status, SameRun(s, MemObserved), s.phase = mem.phase,
             NEW q, s = Newest(q), ExecuteForStage(k, s, q)
      PROVE  CleanInv' /\ Handles(mem.phase, mem.op)'
  <2>1. mem'.ex = ObservedEx /\ mem'.op = mem.op
    BY <1>2, <1>6, StageRun DEF SameRun
  <2>2. mem'.phase = mem.phase
    BY <1>2, <1>5, <1>6, StageSucceeds DEF SameRun
  <2> QED
    BY <1>1, <1>4, <2>1, <2>2 DEF CleanInv, Handles
<1>7. CASE ExecuteDispatch
  <2>1. ExecuteForStage(mem.stage, MemObserved, QueueObserved)
    BY <1>7 DEF ExecuteDispatch
  <2>2. CleanInv' /\ Handles(mem.phase, mem.op)'
    BY <1>2, <1>3, <1>6, <2>1 DEF SameRun
  <2> QED
    BY <2>2, ExecuteRun DEF DrainInv
<1>8. CASE ExecuteAdvance
  <2> DEFINE next == mem.stage + 1
  <2> DEFINE m == [MemObserved EXCEPT !.stage = next]
  <2> DEFINE q == Enqueue(QueueObserved, m)
  <2>1. /\ ~LastStage
        /\ ExecuteForStage(next, m, Enqueue(QueueObserved, [Newest(QueueObserved) EXCEPT !.stage = next]))
    BY <1>8 DEF ExecuteAdvance
  <2>2. next \in Nat \ {0} /\ next <= Len(Stages[mem.op])
    BY <1>0, <2>1 DEF LastStage
  <2>3. ExecuteForStage(next, m, q)
    BY <1>3, <2>1
  <2>4. m \in Status /\ m.stage = next /\ m.phase = mem.phase /\ SameRun(m, MemObserved) /\ m.op = mem.op
    BY <1>2, <2>2 DEF SameRun, Status
  <2> HIDE DEF m
  <2>5. StageInRange(m)
    <3>1. m.op # ""
      BY <1>0, <2>4 DEF Ops
    <3> QED
      BY <1>0, <2>2, <2>4, <3>1 DEF StageInRange
  <2>6. m = Newest(q)
    BY <1>2, <2>4, <2>5, EnqueueOK
  <2> HIDE DEF q, next
  <2>7. CleanInv' /\ Handles(mem.phase, mem.op)'
    BY <1>6, <2>3, <2>4, <2>6
  <2> QED
    BY <2>7, ExecuteRun DEF DrainInv
<1> QED
  BY <1>7, <1>8

\* The other handlers.
LEMMA HandleDrain ==
  ASSUME IInv, IInv', UniqueCurrentJob, LabelInv, MarkInv, DrainInv, \A j \in jobs : j.st # "failed",
         \/ Idle \/ Recovery \/ TransientError
         \/ OperationMismatch \/ ExecuteStageError \/ ExecuteWait \/ ExecuteFinalize
  PROVE  DrainInv'
<1>0. mem \in Status
  BY DEF IInv, StatusInv
<1>1. /\ MemObserved \in Status /\ MemObserved.op = mem.op /\ MemObserved.cycle = mem.cycle
      /\ MemObserved.stage = mem.stage /\ MemObserved.phase = mem.phase
      /\ MemObserved.ex = ObservedEx
  BY <1>0, ObservationOK DEF IInv, MemObserved, Status
<1>2. mem.phase \notin {"Hibernating", "WakingUp"} => Working = {}
  BY DEF DrainInv, Handles, PhaseOf
<1>p. ASSUME NEW ph
      PROVE  LET u == WithPhase(mem, ph)
             IN u.ex = mem.ex /\ u.op = mem.op /\ u.cycle = mem.cycle /\ u.stage = mem.stage
  BY <1>0 DEF WithPhase, Status
<1>3. CASE LifecycleInit \/ OperationMismatch
  <2>1. /\ UNCHANGED jobs /\ \E ph : mem' = WithPhase(mem, ph)
        /\ mem.phase = "" \/ ~Handles(mem.phase, mem.op)
    BY <1>3 DEF LifecycleInit, OperationMismatch, Selected, jobVars
  <2>2. Working = {}
    BY <1>2, <2>1 DEF DrainInv
  <2> QED
    BY <1>p, <2>1, <2>2, SameDrain
<1>4. CASE TransitionToHibernating \/ TransitionToWakingUp
  <2>1. /\ mem.phase \in {"Active", "Hibernated"} /\ UNCHANGED jobs
        /\ \E op, c : mem' = Started(mem, op, c)
    BY <1>4 DEF TransitionToHibernating, TransitionToWakingUp, Selected, jobVars
  <2>2. Working' = {}
    BY <1>2, <2>1 DEF Working, Finished
  <2>3. \A t \in Targets : mem'.ex[t].state = "Pending" /\ ~mem'.ex[t].fin
    BY <2>1 DEF Started, PendingExec
  <2>4. CleanInv'
    BY <2>3 DEF CleanInv
  <2>5. RunInv'
    BY <1>4, HandleSame DEF DrainInv, Idle
  <2> QED
    BY <2>2, <2>4, <2>5 DEF DrainInv
<1>5. CASE IdleStay \/ RecoveryBackoff \/ ManualRetryFails \/ RecoveryAborted \/ TransientError
  <2>1. UNCHANGED <<mem, jobs>>
    BY <1>5 DEF IdleStay, RecoveryBackoff, ManualRetryFails, RecoveryAborted, TransientError, jobVars
  <2> QED
    BY <2>1, SameDrain
<1>6. CASE ManualRetry
  <2>1. mem' = [mem EXCEPT !.retry = 0] /\ UNCHANGED jobs
    BY <1>6 DEF ManualRetry, jobVars
  <2>2. /\ mem'.ex = mem.ex /\ mem'.op = mem.op /\ mem'.cycle = mem.cycle
        /\ mem'.stage = mem.stage /\ mem'.phase = mem.phase
    BY <1>0, <2>1 DEF Status
  <2> QED
    BY <2>1, <2>2, SameDrain
<1>7. CASE Retry
  <2>1. mem.phase = "Error" /\ mem' = Retried(mem) /\ made' = made /\ marking' = marking
    BY <1>7 DEF Retry, Selected
  <2>2. RunInv'
    BY <1>7, RetryRun DEF DrainInv
  <2>3. \A t \in Targets : mem'.ex[t] = mem.ex[t]
    <3>1. \A t \in Targets : mem.ex[t].state # "Failed"
      BY DEF DrainInv, CleanInv
    <3> QED
      BY <1>0, <2>1, <3>1 DEF Retried, Status
  <2>4. CleanInv'
    BY <2>3 DEF DrainInv, CleanInv
  <2>5. Working' = Working
    <3>1. PICK J \in SUBSET RetryStale : jobs' = Relabelled(J)
      BY <1>7 DEF Retry
    <3>2. J \in SUBSET jobs /\ \A j \in J : Finished(j)
      BY DEF RetryStale, LabelInv
    <3> QED
      BY <2>1, <3>1, <3>2, Relabels DEF IInv
  <2> QED
    BY <1>2, <2>1, <2>2, <2>4, <2>5 DEF DrainInv
<1>8. CASE ExecuteStageError
  <2>1. ExecutionStep /\ StageFailed
    BY <1>8 DEF ExecuteStageError
  <2>2. PICK t \in StageAt(mem.stage).targets : ObservedEx[t].state \in {"Failed", "Aborted"}
    BY <2>1 DEF StageFailed
  <2>3. t \in Targets
    BY <2>1, <2>2, ExecutionStepFacts, StageTargets DEF StageAt
  <2> QED
    BY <2>2, <2>3, ObservedClean DEF DrainInv, RunInv
<1>9. CASE ExecuteWait
  <2>1. mem' = MemObserved /\ UNCHANGED jobs
    BY <1>9 DEF ExecuteWait
  <2> QED
    BY <1>1, <2>1, SameDrain
<1>10. CASE ExecuteFinalize
  <2>1. /\ UNCHANGED jobs
        /\ \/ mem' = MemObserved
           \/ /\ mem' = Finalized(MemObserved)
              /\ \A t \in Targets : ObservedEx[t].state \in Terminal
    BY <1>10 DEF ExecuteFinalize
  <2>2. CASE mem' = MemObserved
    BY <1>1, <2>1, <2>2, SameDrain
  <2>3. CASE /\ mem' = Finalized(MemObserved)
             /\ \A t \in Targets : ObservedEx[t].state \in Terminal
    <3>1. Working = {}
      <4>1. \A j \in Working : j.t \in Targets
        BY DEF Working, IInv, JobInv, Job
      <4> QED
        BY <2>3, <4>1, NoneWorking DEF DrainInv
    <3>2. /\ mem'.ex = ObservedEx /\ mem'.op = mem.op /\ mem'.cycle = mem.cycle
          /\ mem'.stage = mem.stage
      BY <1>1, <2>3 DEF Finalized, Status
    <3> QED
      BY <2>1, <3>1, <3>2, SameDrain
  <2> QED
    BY <2>1, <2>2, <2>3
<1> QED
  BY <1>3, <1>4, <1>5, <1>6, <1>7, <1>8, <1>9, <1>10 DEF Idle, Recovery

\* Every step keeps the runners within their operation, until a drain times out.
LEMMA NextDrain ==
  /\ IInv /\ IInv' /\ TailInv /\ UniqueCurrentJob /\ LabelsInv
  /\ (Gentle /\ Unpruned) /\ (Gentle /\ Unpruned)'
  /\ (used["timeout"] = 0 => DrainInv) /\ [Next]_vars
  => (used["timeout"] = 0 => DrainInv)'
<1> SUFFICES ASSUME IInv, IInv', TailInv, UniqueCurrentJob, LabelsInv, Gentle, Gentle', Unpruned,
                    used["timeout"] = 0 => DrainInv, [Next]_vars, used'["timeout"] = 0
             PROVE  DrainInv'
  BY DEF Unpruned
<1>0. used \in [Events -> Nat] /\ {"crash", "timeout", "podFailure"} \subseteq Events
  BY DEF IInv, RestInv, Events
<1>1. DrainInv /\ LabelInv /\ MarkInv /\ \A j \in jobs : j.st # "failed"
  BY <1>0, NeverUncounted DEF LabelsInv, Gentle
<1>2. ~Crash /\ ~DrainTimeout
  <2>1. ASSUME Crash PROVE used'["crash"] # 0
    BY <1>0, <2>1 DEF Crash, Count
  <2>2. ASSUME DrainTimeout PROVE used'["timeout"] # 0
    BY <1>0, <2>2 DEF DrainTimeout, Count
  <2> QED
    BY <2>1, <2>2 DEF Gentle
<1>3. CASE Handle \/ TransientError
  <2>1. FailFast => used'["createError"] = 0
    BY DEF Gentle
  <2> QED
    BY <1>1, <1>3, <2>1, HandleDrain, ExecuteDrain, SuspensionDrain DEF Handle, Execute
<1>4. CASE JobStep
  <2>1. /\ UNCHANGED <<mem, made>>
        /\ Advances \/ Disappears \/ Outdates
    BY <1>1, <1>4, JobStepKinds DEF Gentle
  <2>2. RunInv' /\ (Working' # {} => Working # {})
    <3>1. CASE Advances
      <4>1. PICK j \in jobs : \E k : Successor(j, k) /\ Became(j, k)
        BY <3>1 DEF Advances
      <4>2. j \in Working
        BY <4>1 DEF Successor, Working
      <4> QED
        BY <1>1, <2>1, <4>1, <4>2, MoveRun DEF DrainInv
    <3>2. CASE Disappears
      BY <1>1, <2>1, <3>2, FewerRun DEF Disappears, DrainInv, Working, Finished
    <3>3. CASE Outdates
      <4>1. PICK J \in SUBSET jobs :
              jobs' = Relabelled(J) /\ marking' \subseteq marking /\ \A j \in J : Finished(j)
        BY <3>3 DEF Outdates
      <4>2. Working' = Working
        BY <1>1, <2>1, <4>1, Relabels DEF IInv
      <4>3. RunInv'
        BY <1>1, <2>1, <4>1, RelabelRun DEF DrainInv
      <4> QED
        BY <4>2, <4>3
    <3> QED
      BY <2>1, <3>1, <3>2, <3>3
  <2>3. CleanInv'
    BY <1>1, <2>1 DEF DrainInv, CleanInv
  <2> QED
    BY <1>1, <2>1, <2>2, <2>3 DEF DrainInv, Handles
<1>5. ASSUME UNCHANGED <<mem, jobs>> PROVE DrainInv'
  BY <1>1, <1>5, SameDrain
<1>6. CASE \/ WriteStatus \/ Reconcile \/ Deliver \/ UserSuspend \/ UserRetryNow \/ ScheduleBoundary
           \/ UNCHANGED vars
  BY <1>5, <1>6 DEF WriteStatus, Reconcile, Deliver, UserSuspend, UserRetryNow, ScheduleBoundary,
    vars, jobVars
<1>7. CASE IdleExit
  <2>1. sendq = <<>> /\ mem' = db /\ UNCHANGED jobs
    BY <1>7 DEF IdleExit, Forget, jobVars
  <2>2. Newest(sendq) = db
    BY <2>1 DEF Newest
  <2>3. /\ db \in Status /\ Agree(mem, db)
        /\ mem = db \/ (mem.phase = "Hibernated" /\ mem.ex = db.ex)
    <3>1. db \in Status /\ Agree(mem, db)
      BY <2>2 DEF IInv, StatusInv
    <3>2. WithPhase(db, "Hibernated").ex = db.ex
      BY <3>1 DEF WithPhase, Status
    <3> QED
      BY <2>2, <3>1, <3>2 DEF TailInv, Diverges
  <2>4. mem = db \/ Working = {}
    BY <1>1, <2>3 DEF DrainInv, Handles, PhaseOf
  <2> QED
    BY <1>1, <2>1, <2>3, <2>4, SameDrain DEF Agree
<1> QED
  BY <1>2, <1>3, <1>4, <1>6, <1>7 DEF Next, Outside

\* Through any suspensions and resumptions runners work only in the stage of an
\* operation under way, as long as none failed and no drain timed out.
THEOREM DrainInvariant ==
  Spec /\ [](Gentle /\ Unpruned) => [](used["timeout"] = 0 => DrainInv)
<1>1. Init => DrainInv
  <2> SUFFICES ASSUME Init PROVE DrainInv
    OBVIOUS
  <2>1. jobs = {} /\ mem.op = "" /\ mem.ex = [t \in Targets |-> PendingExec]
    BY DEF Init
  <2>2. Working = {} /\ IsFiniteSet({})
    BY <2>1, FS_EmptySet DEF Working
  <2>3. \A t \in Targets : mem.ex[t].state = "Pending" /\ ~mem.ex[t].fin
    <3>1. \A t \in Targets : mem.ex[t] = PendingExec
      BY <2>1
    <3>2. PendingExec.state = "Pending" /\ ~PendingExec.fin
      BY DEF PendingExec
    <3> QED
      BY <3>1, <3>2
  <2>4. PlaceInv /\ SettledInv /\ CleanInv
    BY <2>2, <2>3 DEF PlaceInv, SettledInv, CleanInv, Terminal
  <2>5. RoomInv
    BY <2>1, <2>2 DEF RoomInv, Ops
  <2> QED
    BY <2>2, <2>4, <2>5 DEF DrainInv, RunInv
<1>2. Init => TailInv
  BY DEF Init, TailInv, Newest
<1>3. Init => UniqueCurrentJob
  BY DEF Init, UniqueCurrentJob
<1> QED
  BY <1>1, <1>2, <1>3, NextDrain, NextTail, NextUnique, LabelInvariant, WorkerInvariant, PTL
  DEF Spec

\* A plan in phase Suspended has no runner at work, unless the drain timed out.
THEOREM DrainBeforeSuspendHolds == Spec /\ [](Gentle /\ Unpruned) => []DrainBeforeSuspend
<1>1. (used["timeout"] = 0 => DrainInv) => DrainBeforeSuspend
  BY DEF DrainInv, Working, Handles, PhaseOf, DrainBeforeSuspend
<1> QED
  BY <1>1, DrainInvariant, PTL

=============================================================================
