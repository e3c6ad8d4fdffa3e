---------------------------- MODULE ExecutorRDS ----------------------------
(***************************************************************************)
(* The RDS executor, for instances and clusters alike. A database that is  *)
(* neither available nor stopped cannot be acted on: with awaitCompletion  *)
(* it becomes pending, and a goroutine waits for it, acts and waits again, *)
(* all pending ones under one deadline; without, it is passed over.        *)
(***************************************************************************)
EXTENDS RunnerJob

\* Discovery lists what exists; explicit IDs may name what does not.
Discover == {Keys, Existing}

RDSShutdown ==
  /\ Running("rds", "shutdown", "find")
  /\ \E ids \in Discover : Loop(ids)
  /\ UNCHANGED <<cloud, owed, unsaved, acc, budget, forfeit>>
  /\ ExecutorFrame

\* What stopping comes to, for a cluster as for an instance: a snapshot that was
\* asked for comes first, and one that cannot be made is an error (CallFails).
StopBody(k) ==
  CASE cloud[k].st = "up"   -> TakeDown(k, "stopping") /\ Report(k, TRUE, 1)
    [] cloud[k].st = "down" -> UNCHANGED <<cloud, owed, unsaved>> /\ Report(k, FALSE, 1)
    [] OTHER                -> UNCHANGED <<cloud, owed, unsaved, acc>>

InTransition(k) == cloud[k].st \in {"stopping", "starting"}

\* instanceStrategy.Stop and clusterStrategy.Stop, from processResources.
RDSStop(k) ==
  /\ Running("rds", "shutdown", "work") /\ k \in job.todo
  /\ StopBody(k)
  /\ job' = [job EXCEPT !.todo = @ \ {k},
                        !.pend = IF await /\ InTransition(k) THEN @ \cup {k} ELSE @]
  /\ UNCHANGED <<budget, forfeit>>
  /\ ExecutorFrame

\* handleShutdownAwaitCompletion: the goroutine of a pending database.
RDSPendingStop(k) ==
  /\ Running("rds", "shutdown", "await") /\ k \in job.pend
  /\ Up(k)
  /\ StopBody(k)
  /\ job' = [job EXCEPT !.pend = @ \ {k}]
  /\ UNCHANGED <<budget, forfeit>>
  /\ ExecutorFrame

RDSWakeUp ==
  /\ Running("rds", "wakeup", "find")
  /\ RestoreLoop
  /\ UNCHANGED <<cloud, owed, unsaved, acc, budget, forfeit>>
  /\ ExecutorFrame

StartBody(k) == GiveBack(k, "starting", 1)

\* Start, from restoreResource. A database that is not stopped yet is passed
\* over, or waited for.
RDSStart(k) ==
  /\ Running("rds", "wakeup", "work") /\ k \in job.todo
  /\ IF rd[k].dem /\ cloud[k].st = "down" THEN StartBody(k)
     ELSE UNCHANGED <<cloud, owed>>
  /\ LET passed == rd[k].dem /\ InTransition(k)
     IN /\ job' = [job EXCEPT !.todo = @ \ {k}, !.pend = IF await /\ passed THEN @ \cup {k} ELSE @]
        /\ forfeit' = IF ~await /\ passed THEN forfeit \cup {k} ELSE forfeit
  /\ UNCHANGED <<unsaved, acc, budget>>
  /\ ExecutorFrame

\* handleWakeupAwaitCompletion: the goroutine of a pending database.
RDSPendingStart(k) ==
  /\ Running("rds", "wakeup", "await") /\ k \in job.pend
  /\ cloud[k].st = "down"
  /\ StartBody(k)
  /\ job' = [job EXCEPT !.pend = @ \ {k}]
  /\ UNCHANGED <<unsaved, acc, budget, forfeit>>
  /\ ExecutorFrame

\* Slip: the goroutines of pending databases have no deadline.
PendingFailsIfGone(k) ==
  /\ kind = "rds" /\ job.pc = "await" /\ k \in job.pend /\ cloud[k].st = "gone"
  /\ job' = [job EXCEPT !.pend = @ \ {k}]
  /\ UNCHANGED <<cloud, owed, unsaved, acc, budget, forfeit>>
  /\ ExecutorFrame

\* The deadline expires, or the wait or the operation fails, before a pending
\* database was acted on: that is counted in the message, and no error.
RDSPendingFails(k) ==
  /\ kind = "rds" /\ job.pc = "await" /\ k \in job.pend
  /\ job' = [job EXCEPT !.pend = @ \ {k}]
  /\ forfeit' = IF job.op = "wakeup" THEN forfeit \cup {k} ELSE forfeit
  /\ UNCHANGED <<cloud, owed, unsaved, acc, budget>>
  /\ ExecutorFrame

\* WaitForStopped, WaitForAvailable of what was stopped or started in the loop.
RDSAwait == LoopEnds("rds")

RDSNext == \/ RDSShutdown \/ RDSWakeUp \/ RDSAwait \/ CallFails("rds")
           \/ \E k \in Keys : \/ RDSStop(k) \/ RDSPendingStop(k) \/ RDSPendingFails(k)
                             \/ RDSStart(k) \/ RDSPendingStart(k)

=============================================================================
