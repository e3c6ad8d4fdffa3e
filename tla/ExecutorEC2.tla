---------------------------- MODULE ExecutorEC2 ----------------------------
(***************************************************************************)
(* The EC2 executor: it reports every instance it finds and then stops the *)
(* running ones with one call; a wakeup starts, with one call, those that  *)
(* were running and are stopped or stopping.                               *)
(***************************************************************************)
EXTENDS RunnerJob

\* By ID, by tags or by tag selector; terminated instances are left out.
FindInstances == Existing

EC2Shutdown ==
  /\ Running("ec2", "shutdown", "find")
  /\ acc' = [k \in Keys |-> IF k \in FindInstances
                            THEN [has |-> TRUE, dem |-> Up(k), size |-> 1, stale |-> 0,
                                  reported |-> TRUE]
                            ELSE acc[k]]
  /\ Loop({k \in Keys : Up(k)})
  /\ UNCHANGED <<cloud, owed, unsaved, budget, forfeit>>
  /\ ExecutorFrame

\* StopInstances: all or none; a missing ID fails the call.
EC2Stop ==
  /\ Running("ec2", "shutdown", "work") /\ job.todo # {}
  /\ LET stopped == {k \in job.todo : cloud[k].st \in {"up", "starting"}}
         missing == \E k \in job.todo : cloud[k].st = "gone"
     IN IF missing THEN job' = Failed(job) /\ UNCHANGED <<cloud, owed, unsaved>>
        ELSE /\ cloud' = [k \in Keys |-> IF k \in stopped THEN [st |-> "stopping", size |-> 0]
                                         ELSE cloud[k]]
             /\ owed' = [k \in Keys |-> IF k \in stopped THEN 1 ELSE owed[k]]
             /\ unsaved' = unsaved \cup stopped
             /\ job' = [job EXCEPT !.todo = {}]
  /\ UNCHANGED <<acc, budget, forfeit>>
  /\ ExecutorFrame

\* Slip: an instance that is still stopping is taken for running.
EC2WakeUpStopped ==
  /\ Running("ec2", "wakeup", "find")
  /\ IF Reported(rd) = {} THEN job' = [job EXCEPT !.pc = "mark"]
     ELSE Loop({k \in Keys : rd[k].dem /\ cloud[k].st = "down"})
  /\ UNCHANGED <<cloud, owed, unsaved, acc, budget, forfeit>>
  /\ ExecutorFrame

\* WakeUp, up to the call: what was running and is stopped or stopping.
EC2WakeUp ==
  /\ Running("ec2", "wakeup", "find")
  /\ IF Reported(rd) = {} THEN job' = [job EXCEPT !.pc = "mark"]
     ELSE Loop({k \in Keys : rd[k].dem /\ cloud[k].st \in {"down", "stopping"}})
  /\ UNCHANGED <<cloud, owed, unsaved, acc, budget, forfeit>>
  /\ ExecutorFrame

\* startInstancesWithMissingTolerance: missing instances are passed over, one by
\* one, and a fault then ends the wakeup with only some of the rest started.
EC2Start ==
  /\ Running("ec2", "wakeup", "work") /\ job.todo # {}
  /\ LET present == job.todo \cap Existing
     IN \E started \in SUBSET present :
          /\ \/ started = present /\ UNCHANGED budget /\ job' = [job EXCEPT !.todo = {}]
             \/ present # job.todo /\ started # present /\ Fault /\ job' = Failed(job)
          /\ cloud' = [k \in Keys |-> IF k \in started /\ ~Up(k)
                                      THEN [st |-> "starting", size |-> 1] ELSE cloud[k]]
          /\ owed' = [k \in Keys |-> IF k \in started THEN 0 ELSE owed[k]]
  /\ UNCHANGED <<unsaved, acc, forfeit>>
  /\ ExecutorFrame

\* waitForInstancesStopped, waitForInstancesRunning.
EC2Await == LoopEnds("ec2")

EC2Next == EC2Shutdown \/ EC2Stop \/ EC2WakeUp \/ EC2Start \/ EC2Await \/ CallFails("ec2")

=============================================================================
