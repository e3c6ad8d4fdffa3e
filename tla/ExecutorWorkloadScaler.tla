----------------------- MODULE ExecutorWorkloadScaler -----------------------
(***************************************************************************)
(* The workload scaler sets spec.replicas of the scale subresource of each *)
(* workload it lists to 0, and back. spec.replicas is left out of a Scale  *)
(* when it is 0, so "found" in the code says that it is above 0.           *)
(*                                                                         *)
(* The noop executor is here too: it reports its target and changes        *)
(* nothing.                                                                *)
(***************************************************************************)
EXTENDS RunnerJob

\* The workloads in the namespaces that match; no namespace at all is an error,
\* which CallFails stands for.
DiscoverNamespaces == Existing

WorkloadShutdown ==
  /\ Running("workloadscaler", "shutdown", "find")
  /\ Loop(DiscoverNamespaces)
  /\ UNCHANGED <<cloud, owed, unsaved, acc, budget, forfeit>>
  /\ ExecutorFrame

\* One workload in scaleDownWorkloads.
ScaleDownWorkload(k) ==
  /\ Running("workloadscaler", "shutdown", "work") /\ k \in job.todo
  /\ Done(k)
  /\ CASE cloud[k].st = "gone" -> UNCHANGED <<cloud, owed, unsaved, acc>>
       [] Up(k)                -> TakeDown(k, "down") /\ Report(k, TRUE, cloud[k].size)
       [] OTHER                -> UNCHANGED <<cloud, owed, unsaved>> /\ Report(k, FALSE, 0)
  /\ UNCHANGED <<budget, forfeit>>
  /\ ExecutorFrame

\* GetScale fails: the workload is passed over, up, and without a report.
GetScaleFails(k) ==
  /\ Running("workloadscaler", "shutdown", "work") /\ k \in job.todo
  /\ Fault
  /\ Done(k)
  /\ UNCHANGED <<cloud, owed, unsaved, acc, forfeit>>
  /\ ExecutorFrame

WorkloadWakeUp ==
  /\ Running("workloadscaler", "wakeup", "find")
  /\ RestoreLoop
  /\ UNCHANGED <<cloud, owed, unsaved, acc, budget, forfeit>>
  /\ ExecutorFrame

RestoreWorkload(k) ==
  /\ Running("workloadscaler", "wakeup", "work") /\ k \in job.todo
  /\ Done(k)
  /\ IF rd[k].dem /\ k \in Existing THEN GiveBack(k, "up", rd[k].size)
     ELSE UNCHANGED <<cloud, owed>>
  /\ UNCHANGED <<unsaved, acc, budget, forfeit>>
  /\ ExecutorFrame

\* waitForReplicasScaled.
WorkloadAwait == LoopEnds("workloadscaler")

WorkloadNext ==
  \/ WorkloadShutdown \/ WorkloadWakeUp
  \/ WorkloadAwait \/ CallFails("workloadscaler")
  \/ \E k \in Keys : ScaleDownWorkload(k) \/ GetScaleFails(k) \/ RestoreWorkload(k)

-----------------------------------------------------------------------------
(* noop *)

NoopKey == CHOOSE k \in Keys : TRUE

\* failureMode makes it fail instead: CallFails.
NoopShutdown ==
  /\ Running("noop", "shutdown", "find")
  /\ Report(NoopKey, FALSE, 0)
  /\ job' = [job EXCEPT !.pc = "flush"]
  /\ UNCHANGED <<cloud, owed, unsaved, budget, forfeit>>
  /\ ExecutorFrame

NoopWakeUp ==
  /\ Running("noop", "wakeup", "find")
  /\ job' = [job EXCEPT !.pc = "mark"]
  /\ UNCHANGED <<cloud, owed, unsaved, acc, budget, forfeit>>
  /\ ExecutorFrame

NoopNext == NoopShutdown \/ NoopWakeUp \/ CallFails("noop")

=============================================================================
