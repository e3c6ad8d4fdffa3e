------------------------ MODULE PlanLifecycleProofs ------------------------
(***************************************************************************)
(* What the lifecycle promises to a reader of the API server, for every    *)
(* execution plan and every number of retries.                             *)
(*                                                                         *)
(* DurableMoves alone is not inductive: the status writer persists what    *)
(* was queued long before.  LineOK says that the persisted status and the  *)
(* queued ones form one line along the edges, ending at the worker's       *)
(* status; a write moves along the line, a handler extends it, a restart   *)
(* cuts it.                                                                *)
(***************************************************************************)
EXTENDS PlanLifecycle, SequenceTheorems, TLAPS

\* Every execution plan has a stage, and the retry limit is a number.
PlanOK == StageCount \in [Ops -> Nat \ {0}] /\ MaxRetries \in Nat

Legal(s) == s \in Status /\ InBounds(s)

\* The stage after one that is not the last.
LEMMA NextStage ==
  ASSUME NEW k \in Nat \ {0}, NEW n \in Nat \ {0}, k < n
  PROVE  k + 1 \in Nat \ {0} /\ k + 1 <= n
OBVIOUS

\* An edge leads from a legal status to a legal status.
LEMMA EdgeLegal ==
  ASSUME PlanOK, NEW s, Legal(s), NEW t, Edge(s, t)
  PROVE  Legal(t)
<1>0. s \in Status /\ InBounds(s)
  BY DEF Legal
<1>n. MaxRetries \in Nat
  BY DEF PlanOK
<1>c. \A op \in Ops : StageCount[op] \in Nat \ {0}
  BY DEF PlanOK
<1>r. s.retry \in Nat
  BY <1>0 DEF Status
<1>s. s.stage \in Nat \ {0}
  BY <1>0 DEF Status
<1>1. ASSUME NEW ph \in Phases PROVE Legal([s EXCEPT !.phase = ph])
  BY <1>0 DEF Legal, Status, InBounds
<1>2. ASSUME NEW ph \in Phases, NEW n \in Nat, n <= MaxRetries
      PROVE  Legal([s EXCEPT !.phase = ph, !.retry = n])
  BY <1>0, <1>2 DEF Legal, Status, InBounds
<1>3. ASSUME NEW op \in Ops, NEW c \in Nat PROVE Legal(Starting(s, op, c))
  <2>0. StageCount[op] \in Nat \ {0}
    BY <1>c
  <2>a. 1 <= StageCount[op] /\ 1 \in Nat \ {0}
    BY <2>0
  <2>1. PhaseOf(op) \in Phases /\ op # ""
    BY DEF PhaseOf, Phases, Ops
  <2>2. Starting(s, op, c) \in Status
    BY <1>r, <2>a, <2>1 DEF Starting, Status
  <2>3. InBounds(Starting(s, op, c))
    BY <1>0, <2>a, <2>1 DEF Starting, InBounds
  <2> QED
    BY <2>2, <2>3 DEF Legal
<1>4. CASE Setup(s, t) \/ Fail(s, t) \/ Suspend(s, t)
  BY <1>1, <1>4 DEF Setup, Fail, Suspend, Phases
<1>5. CASE StartShutdown(s, t) \/ StartWakeup(s, t)
  <2>1. \E op \in Ops, c \in Nat : t = Starting(s, op, c)
    <3>1. CASE StartShutdown(s, t)
      BY <3>1 DEF StartShutdown, Ops
    <3>2. CASE StartWakeup(s, t)
      BY <1>0, <3>2 DEF StartWakeup, Ops, Status
    <3> QED
      BY <1>5, <3>1, <3>2
  <2> QED
    BY <1>3, <2>1
<1>6. CASE Advance(s, t)
  <2>1. s.op \in Ops /\ s.stage < StageCount[s.op] /\ t = [s EXCEPT !.stage = s.stage + 1]
    BY <1>6 DEF Advance, Runs
  <2>0. StageCount[s.op] \in Nat \ {0} /\ s.op # ""
    BY <1>c, <2>1 DEF Ops
  <2>a. s.stage < StageCount[s.op]
    BY <2>1
  <2>2. s.stage + 1 \in Nat \ {0} /\ s.stage + 1 <= StageCount[s.op]
    BY <1>s, <2>0, <2>a, NextStage, Zenon
  <2>3. t \in Status /\ t.op = s.op /\ t.stage = s.stage + 1 /\ t.retry = s.retry
    BY <1>0, <2>1, <2>2 DEF Status
  <2> QED
    BY <1>0, <2>0, <2>2, <2>3 DEF Legal, InBounds
<1>z. 0 \in Nat /\ 0 <= MaxRetries
  BY <1>n
<1>7. CASE Complete(s, t)
  <2>1. \E ph \in Phases : t = [s EXCEPT !.phase = ph, !.retry = 0]
    BY <1>7 DEF Complete, Phases
  <2> QED
    BY <1>2, <1>z, <2>1
<1>8. CASE Resume(s, t)
  <2>1. \/ \E ph \in Phases : t = [s EXCEPT !.phase = ph]
        \/ \E ph \in Phases : t = [s EXCEPT !.phase = ph, !.retry = 0]
    BY <1>8 DEF Resume, Phases
  <2> QED
    BY <1>1, <1>2, <1>z, <2>1
<1>9. CASE Retry(s, t)
  <2>1. PICK op \in Ops : t = [s EXCEPT !.phase = PhaseOf(op), !.retry = s.retry + 1]
    BY <1>9 DEF Retry
  <2>2. PhaseOf(op) \in Phases
    BY DEF PhaseOf, Phases
  <2>3. s.retry < MaxRetries
    BY <1>9 DEF Retry
  <2>4. s.retry + 1 \in Nat /\ s.retry + 1 <= MaxRetries
    BY <1>r, <1>n, <2>3
  <2> QED
    BY <1>2, <2>1, <2>2, <2>4
<1>10. CASE RetryNow(s, t)
  <2>1. t = [s EXCEPT !.retry = 0]
    BY <1>10 DEF RetryNow
  <2>2. t \in Status /\ t.op = s.op /\ t.stage = s.stage /\ t.retry = 0
    BY <1>0, <1>z, <2>1 DEF Status
  <2> QED
    BY <1>0, <1>z, <2>2 DEF Legal, InBounds
<1> QED
  BY <1>4, <1>5, <1>6, <1>7, <1>8, <1>9, <1>10 DEF Edge

\* So does a step of what a reader sees.
LEMMA FollowsLegal ==
  ASSUME PlanOK, NEW s, Legal(s), NEW t, Follows(s, t)
  PROVE  Legal(t)
<1>1. Legal([s EXCEPT !.phase = "Hibernated"])
  BY DEF Legal, Status, InBounds, Phases
<1> QED
  BY <1>1, EdgeLegal DEF Follows

\* And what a handler call makes of the status.
LEMMA ReachesLegal ==
  ASSUME PlanOK, NEW s, Legal(s), NEW t, Reaches(s, t)
  PROVE  Legal(t)
<1> DEFINE next == [s EXCEPT !.stage = @ + 1]
<1>1. CASE Advance(s, next) /\ Fail(next, t)
  <2>1. Edge(s, next) /\ Edge(next, t)
    BY <1>1 DEF Edge
  <2> HIDE DEF next
  <2>2. Legal(next)
    BY <2>1, EdgeLegal
  <2> QED
    BY <2>1, <2>2, EdgeLegal
<1> QED
  BY <1>1, EdgeLegal DEF Reaches

-----------------------------------------------------------------------------
(* The line of statuses *)

\* A handler extends the line at its end.
LEMMA SendLine == ASSUME PlanOK, LineOK, Send PROVE LineOK'
<1>0. /\ Legal(current) /\ pending \in Seq(Status) /\ AtTheEnd
      /\ \A i \in 0 .. Len(pending) : Legal(At(i))
      /\ \A i \in 0 .. Len(pending) - 1 : Follows(At(i), At(i + 1))
  BY DEF LineOK, Legal
<1>1. /\ pending' \in Seq(Status) /\ Len(pending) \in Nat /\ Len(pending') \in Nat
      /\ Len(pending) <= Len(pending')
  BY <1>0, LenProperties DEF Send
<1>2. \A i \in 0 .. Len(pending) : At(i)' = At(i)
  BY <1>1 DEF Send, At
<1>3. Legal(current') /\ current' = Latest'
  BY <1>0, ReachesLegal DEF Send
<1>4. ASSUME NEW i \in 0 .. Len(pending'), i > Len(pending)
      PROVE  Legal(At(i)') /\ Follows(At(i - 1)', At(i)')
  <2>1. i \in Len(pending) + 1 .. Len(pending') /\ i # 0
    BY <1>1, <1>4
  <2>2. Reaches(current, pending'[i]) /\ Follows(At(i - 1)', pending'[i])
    BY <2>1 DEF Send
  <2>3. At(i)' = pending'[i]
    BY <2>1 DEF At
  <2> QED
    BY <1>0, <2>2, <2>3, ReachesLegal
<1>5. ASSUME NEW i \in 0 .. Len(pending') PROVE Legal(At(i)')
  <2>1. CASE i <= Len(pending)
    BY <1>0, <1>1, <1>2, <2>1
  <2>2. CASE i > Len(pending)
    BY <1>4, <2>2
  <2> QED
    BY <1>1, <2>1, <2>2
<1>6. ASSUME NEW i \in 0 .. Len(pending') - 1 PROVE Follows(At(i)', At(i + 1)')
  <2>1. CASE i < Len(pending)
    <3>1. i \in 0 .. Len(pending) /\ i + 1 \in 0 .. Len(pending) /\ i \in 0 .. Len(pending) - 1
      BY <1>1, <2>1
    <3> QED
      BY <1>0, <1>2, <3>1
  <2>2. CASE i >= Len(pending)
    <3>1. i + 1 \in 0 .. Len(pending') /\ i + 1 > Len(pending) /\ (i + 1) - 1 = i
      BY <1>1, <2>2
    <3>2. Follows(At((i + 1) - 1)', At(i + 1)')
      BY <1>4, <3>1
    <3> QED
      BY <3>1, <3>2
  <2> QED
    BY <1>1, <2>1, <2>2
<1> QED
  BY <1>1, <1>3, <1>5, <1>6 DEF LineOK, Legal, AtTheEnd

\* The status writer moves the durable status to the next one of the line.
LEMMA PersistLine ==
  ASSUME LineOK, Persist
  PROVE  /\ LineOK'
         /\ Follows(durable, durable')
<1>0. /\ Legal(current) /\ pending \in Seq(Status) /\ AtTheEnd
      /\ \A i \in 0 .. Len(pending) : Legal(At(i))
      /\ \A i \in 0 .. Len(pending) - 1 : Follows(At(i), At(i + 1))
  BY DEF LineOK, Legal
<1>1. /\ Len(pending) \in Nat /\ Len(pending) > 0 /\ durable' = pending[1]
      /\ pending' \in Seq(Status) /\ Len(pending') = Len(pending) - 1
      /\ \A i \in 1 .. Len(pending') : pending'[i] = pending[i + 1]
  BY <1>0, HeadTailProperties, LenProperties, EmptySeq DEF Persist
<1>2. ASSUME NEW i \in 0 .. Len(pending') PROVE At(i)' = At(i + 1)
  <2>1. CASE i = 0
    BY <1>1, <2>1 DEF At
  <2>2. CASE i # 0
    <3>1. i \in 1 .. Len(pending') /\ i + 1 # 0
      BY <1>1, <2>2
    <3> QED
      BY <1>1, <2>2, <3>1 DEF At
  <2> QED
    BY <2>1, <2>2
<1>3. Latest' = Latest
  <2>1. Len(pending') \in 0 .. Len(pending') /\ Len(pending') + 1 = Len(pending)
    BY <1>1
  <2> QED
    BY <1>2, <2>1 DEF Latest
<1>4. AtTheEnd'
  BY <1>0, <1>3 DEF AtTheEnd, Persist
<1>5. \A i \in 0 .. Len(pending') : Legal(At(i)')
  BY <1>0, <1>1, <1>2
<1>6. ASSUME NEW i \in 0 .. Len(pending') - 1 PROVE Follows(At(i)', At(i + 1)')
  <2>1. /\ i \in 0 .. Len(pending') /\ i + 1 \in 0 .. Len(pending')
        /\ i + 1 \in 0 .. Len(pending) - 1
    BY <1>1
  <2> QED
    BY <1>0, <1>2, <2>1
<1>7. Follows(durable, durable')
  <2>1. 0 \in 0 .. Len(pending) - 1 /\ 0 + 1 = 1
    BY <1>1
  <2>2. Follows(At(0), At(1))
    BY <1>0, <2>1
  <2> QED
    BY <1>1, <2>2 DEF At
<1> QED
  BY <1>0, <1>1, <1>4, <1>5, <1>6, <1>7 DEF LineOK, Legal, Persist

\* A restart cuts the line to the durable status.
LEMMA RestartLine == ASSUME LineOK, Restart PROVE LineOK'
<1>1. pending \in Seq(Status) /\ \A i \in 0 .. Len(pending) : Legal(At(i))
  BY DEF LineOK, Legal
<1>2. Legal(durable)
  <2>1. Len(pending) \in Nat
    BY <1>1, LenProperties
  <2>2. 0 \in 0 .. Len(pending)
    BY <2>1
  <2> QED
    BY <1>1, <2>2 DEF At
<1>3. pending' \in Seq(Status) /\ Len(pending') = 0
  BY DEF Restart
<1> QED
  BY <1>2, <1>3 DEF LineOK, Legal, AtTheEnd, Latest, At, Restart

\* forceWakeUpOnResume leaves the line alone.
LEMMA AheadLine == ASSUME LineOK, ResumeAhead PROVE LineOK'
<1>1. /\ Legal(current) /\ AtTheEnd /\ current.phase = "Suspended"
      /\ current' = [current EXCEPT !.phase = "Hibernated"]
      /\ UNCHANGED <<pending, durable>>
  BY DEF LineOK, Legal, ResumeAhead
<1>2. Legal(current')
  BY <1>1 DEF Legal, Status, InBounds, Phases
<1>3. Latest' = Latest /\ \A i : At(i)' = At(i)
  BY <1>1 DEF Latest, At
<1>4. current = Latest
  BY <1>1 DEF AtTheEnd, Legal, Status
<1> QED
  BY <1>1, <1>2, <1>3, <1>4 DEF LineOK, Legal, AtTheEnd

\* Every step keeps the line and moves the durable status along it.
LEMMA NextLine ==
  ASSUME PlanOK, LineOK, [Next]_lifecycleVars
  PROVE  LineOK' /\ (durable' = durable \/ Follows(durable, durable'))
<1>1. CASE Send
  BY <1>1, SendLine DEF Send
<1>2. CASE ResumeAhead
  BY <1>2, AheadLine DEF ResumeAhead
<1>3. CASE Persist
  BY <1>3, PersistLine
<1>4. CASE Restart
  BY <1>4, RestartLine DEF Restart
<1>5. CASE UNCHANGED lifecycleVars
  <2>1. \A i : At(i)' = At(i)
    BY <1>5 DEF At, lifecycleVars
  <2> QED
    BY <1>5, <2>1 DEF LineOK, AtTheEnd, Latest, lifecycleVars
<1> QED
  BY <1>1, <1>2, <1>3, <1>4, <1>5 DEF Next

\* The first status is alone in its line.
LEMMA InitLine == ASSUME PlanOK, Init PROVE LineOK
<1>1. Legal(current)
  <2>1. current = [phase |-> "", op |-> "", cycle |-> 0, stage |-> 1, retry |-> 0]
    BY DEF Init
  <2>2. 0 \in Nat /\ 1 \in Nat \ {0}
    OBVIOUS
  <2>3. current \in Status
    BY <2>1, <2>2 DEF Status, Phases
  <2>4. 0 <= MaxRetries
    BY DEF PlanOK
  <2> QED
    BY <2>1, <2>3, <2>4 DEF Legal, InBounds, Ops
<1>2. pending = <<>> /\ durable = current
  BY DEF Init
<1>3. pending \in Seq(Status) /\ Len(pending) = 0
  BY <1>2
<1> QED
  BY <1>1, <1>2, <1>3 DEF LineOK, Legal, AtTheEnd, Latest, At

\* Whatever is queued, written or lost: the statuses of a plan are in bounds and
\* form one line along the lifecycle from the API server to the worker.
THEOREM LineHolds == ASSUME PlanOK PROVE Spec => []LineOK
BY InitLine, NextLine, PTL DEF Spec

\* What a reader of the API server sees moves along the edges of the lifecycle.
THEOREM DurableMovesHold == ASSUME PlanOK PROVE Spec => DurableMoves
<1>1. LineOK /\ [Next]_lifecycleVars => [Follows(durable, durable')]_durable
  BY NextLine
<1> QED
  BY <1>1, LineHolds, PTL DEF Spec, DurableMoves

=============================================================================
