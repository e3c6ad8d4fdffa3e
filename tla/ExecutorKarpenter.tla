------------------------- MODULE ExecutorKarpenter -------------------------
(***************************************************************************)
(* The Karpenter executor deletes NodePools, with their spec kept in the   *)
(* restore data, and creates them again. Its restore state carries neither *)
(* wasRunning nor wasScaled: no entry of it is ever "demanded", and a      *)
(* retried shutdown finds nothing of what it deleted before.               *)
(***************************************************************************)
EXTENDS RunnerJob

\* By name, by selector or all of them.
ListNodePools == {Keys, Existing}

\* No pool at all ends the shutdown at once.
KarpenterShutdown ==
  /\ Running("karpenter", "shutdown", "find")
  /\ \E pools \in ListNodePools :
       IF pools = {} THEN job' = [job EXCEPT !.pc = "flush"] ELSE Loop(pools)
  /\ UNCHANGED <<cloud, owed, unsaved, acc, budget, forfeit>>
  /\ ExecutorFrame

\* scaleDownNodePool: one that is gone is passed over without a report.
ScaleDownNodePool(k) ==
  /\ Running("karpenter", "shutdown", "work") /\ k \in job.todo
  /\ Done(k)
  /\ IF Up(k) THEN TakeDown(k, "gone") /\ Report(k, FALSE, cloud[k].size)
     ELSE UNCHANGED <<cloud, owed, unsaved, acc>>
  /\ UNCHANGED <<budget, forfeit>>
  /\ ExecutorFrame

KarpenterWakeUp ==
  /\ Running("karpenter", "wakeup", "find")
  /\ RestoreLoop
  /\ UNCHANGED <<cloud, owed, unsaved, acc, budget, forfeit>>
  /\ ExecutorFrame

\* restoreNodePool: AlreadyExists is not an error.
RestoreNodePool(k) ==
  /\ Running("karpenter", "wakeup", "work") /\ k \in job.todo
  /\ Done(k)
  /\ IF Up(k) THEN UNCHANGED <<cloud, owed>> ELSE GiveBack(k, "up", rd[k].size)
  /\ UNCHANGED <<unsaved, acc, budget, forfeit>>
  /\ ExecutorFrame

\* waitForNodePoolDeleted, waitForNodePoolReady.
KarpenterAwait == LoopEnds("karpenter")

KarpenterNext == \/ KarpenterShutdown \/ KarpenterWakeUp
                 \/ KarpenterAwait \/ CallFails("karpenter")
                 \/ \E k \in Keys : ScaleDownNodePool(k) \/ RestoreNodePool(k)

=============================================================================
