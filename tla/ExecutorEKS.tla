---------------------------- MODULE ExecutorEKS ----------------------------
(***************************************************************************)
(* The EKS executor: managed node groups are scaled to zero one by one,    *)
(* each reported after its update was accepted, and scaled back to the     *)
(* size in the restore data.                                               *)
(***************************************************************************)
EXTENDS RunnerJob

\* The ones the parameters name, or all there are.
DetermineTargetNodeGroups == {Keys, Existing}

\* No node group at all is an error.
EKSShutdown ==
  /\ Running("eks", "shutdown", "find")
  /\ \E groups \in DetermineTargetNodeGroups :
       IF groups = {} THEN job' = Failed(job) ELSE Loop(groups)
  /\ UNCHANGED <<cloud, owed, unsaved, acc, budget, forfeit>>
  /\ ExecutorFrame

ReportAsScaled(k) == Report(k, TRUE, cloud[k].size)

\* scaleNodeGroupToZero: a group that is gone is passed over without a report.
ScaleNodeGroupToZero(k) ==
  /\ Running("eks", "shutdown", "work") /\ k \in job.todo
  /\ Done(k)
  /\ CASE cloud[k].st = "gone" -> UNCHANGED <<cloud, owed, unsaved, acc>>
       [] Up(k)                -> TakeDown(k, "down") /\ ReportAsScaled(k)
       [] OTHER                -> UNCHANGED <<cloud, owed, unsaved>> /\ Report(k, FALSE, 0)
  /\ UNCHANGED <<budget, forfeit>>
  /\ ExecutorFrame

EKSWakeUp ==
  /\ Running("eks", "wakeup", "find")
  /\ RestoreLoop
  /\ UNCHANGED <<cloud, owed, unsaved, acc, budget, forfeit>>
  /\ ExecutorFrame

\* restoreNodeGroup, unless the group was at zero before the shutdown.
RestoreNodeGroup(k) ==
  /\ Running("eks", "wakeup", "work") /\ k \in job.todo
  /\ Done(k)
  /\ IF rd[k].dem /\ k \in Existing THEN GiveBack(k, "up", rd[k].size)
     ELSE UNCHANGED <<cloud, owed>>
  /\ UNCHANGED <<unsaved, acc, budget, forfeit>>
  /\ ExecutorFrame

\* waitForNodesDeleted, waitForNodeGroupActive.
EKSAwait == LoopEnds("eks")

EKSNext == \/ EKSShutdown \/ EKSWakeUp \/ EKSAwait \/ CallFails("eks")
           \/ \E k \in Keys : ScaleNodeGroupToZero(k) \/ RestoreNodeGroup(k)

=============================================================================
