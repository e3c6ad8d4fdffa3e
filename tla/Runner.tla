------------------------------- MODULE Runner -------------------------------
(***************************************************************************)
(* Shutdowns and wakeups of one target by runner pods, cycle after cycle:  *)
(* the runner (cmd/runner/app), the executor of the target's type, the     *)
(* restore data in between, and what surrounds them: the controller that   *)
(* starts the Jobs, reuses cycle IDs and unlocks restore data, pods that   *)
(* are killed, calls that fail, and owners who change their resources.     *)
(*                                                                         *)
(* What counts is that what a shutdown took down can be, and is, given     *)
(* back by the next wakeup, and nothing else is.                           *)
(***************************************************************************)
EXTENDS ExecutorEC2, ExecutorEKS, ExecutorRDS, ExecutorKarpenter, ExecutorWorkloadScaler

Idle == [op |-> "none", pc |-> "idle", todo |-> {}, pend |-> {}, ok |-> FALSE]

-----------------------------------------------------------------------------
(* The runner *)

\* Executor types newExecutorFactoryRegistry enables.
Enabled == {"eks", "rds", "ec2", "karpenter", "workloadscaler", "noop"}

\* run, up to executeOperation: a type no executor is registered for is an error.
\* An error here flushes nothing.
Prepare ==
  /\ job.pc = "start"
  /\ job' = IF kind \notin Enabled THEN [job EXCEPT !.pc = "end", !.ok = FALSE]
            ELSE [job EXCEPT !.pc = IF job.op = "shutdown" THEN "find" ELSE "load"]
  /\ UNCHANGED <<kind, await, cloudVars, storeVars, acc, rd, plan, budget, obsVars>>

\* BuildConnectorConfig: the connector or its secret cannot be read.
ConnectorFails ==
  /\ job.pc = "start" /\ kind \in Enabled /\ Fault
  /\ job' = [job EXCEPT !.pc = "end", !.ok = FALSE]
  /\ UNCHANGED <<kind, await, cloudVars, storeVars, acc, rd, plan, obsVars>>

\* executeOperation, wakeup: no restore data at all is an error, restore data
\* without an eligible key is not.
LoadForWakeup ==
  /\ job.pc = "load"
  /\ IF store.exists
     THEN rd' = LoadRestoreData(store) /\ job' = [job EXCEPT !.pc = "find"]
     ELSE job' = [job EXCEPT !.pc = "end", !.ok = FALSE] /\ UNCHANGED rd
  /\ UNCHANGED <<kind, await, cloudVars, storeVars, acc, plan, budget, obsVars>>

\* Load: the API call fails.
LoadFails ==
  /\ job.pc = "load" /\ Fault
  /\ job' = [job EXCEPT !.pc = "end", !.ok = FALSE]
  /\ UNCHANGED <<kind, await, cloudVars, storeVars, acc, rd, plan, obsVars>>

\* The executor returns: whoever was not settled within awaitCompletion is only
\* mentioned in the message.
Await ==
  /\ job.pc = "await" /\ job.pend = {}
  /\ job' = [job EXCEPT !.pc = IF job.op = "shutdown" THEN "flush" ELSE "mark"]
  /\ UNCHANGED <<kind, await, cloudVars, storeVars, acc, rd, plan, budget, obsVars>>

\* The deferred flush, after success and after failure.
Flush ==
  /\ job.pc = "flush"
  /\ store' = SaveState(store, acc, plan.cycle)
  /\ unsaved' = {}
  /\ acc' = NoEntries
  /\ job' = [job EXCEPT !.pc = "end"]
  /\ UNCHANGED <<kind, await, cloudVars, restored, rd, plan, budget, forfeit, touched>>

\* The flush fails: the assignment to operationErr comes after the result was
\* returned, and the shutdown is reported as it went.
FlushFails ==
  /\ job.pc = "flush" /\ budget.kills > 0
  /\ budget' = [budget EXCEPT !.kills = @ - 1]
  /\ forfeit' = forfeit \cup unsaved
  /\ unsaved' = {}
  /\ acc' = NoEntries
  /\ job' = [job EXCEPT !.pc = "end"]
  /\ UNCHANGED <<kind, await, cloudVars, storeVars, rd, plan, touched>>

\* MarkTargetRestored; a failed update (a conflict, say) does not fail the run.
Mark ==
  /\ job.pc = "mark"
  /\ \/ restored' = TRUE /\ store' = Consumed(store) /\ UNCHANGED budget
     \/ Fault /\ UNCHANGED storeVars
  /\ job' = [job EXCEPT !.pc = "end"]
  /\ UNCHANGED <<kind, await, cloudVars, acc, rd, plan, obsVars>>

\* The pod is gone (evicted, its node lost, its deadline over), with what the
\* accumulator held.
Killed ==
  /\ job.pc \notin {"idle", "end"} /\ budget.kills > 0
  /\ budget' = [budget EXCEPT !.kills = @ - 1]
  /\ forfeit' = forfeit \cup unsaved
  /\ unsaved' = {}
  /\ acc' = NoEntries
  /\ job' = [job EXCEPT !.pc = "end", !.todo = {}, !.pend = {}, !.ok = FALSE]
  /\ UNCHANGED <<kind, await, cloudVars, storeVars, rd, plan, touched>>

-----------------------------------------------------------------------------
(* The controller, as far as the target is concerned *)

Job(op) == [Idle EXCEPT !.op = op, !.pc = "start", !.ok = TRUE]

\* transitionToHibernating: the cycle ID of live restore data is used again.
StartShutdown ==
  /\ job.pc = "idle" /\ plan.phase = "Active"
  /\ LET old == ExistingCycle(store)
     IN /\ old = 0 => plan.last < MaxCycles
        /\ plan' = [phase |-> "Hibernating", cycle |-> IF old # 0 THEN old ELSE plan.last + 1,
                    last |-> IF old # 0 THEN plan.last ELSE plan.last + 1, tries |-> 1]
        /\ touched' = IF old # 0 THEN touched ELSE {}
  /\ job' = Job("shutdown")
  /\ UNCHANGED <<kind, await, cloudVars, storeVars, acc, rd, budget, unsaved, forfeit>>

StartWakeup ==
  /\ job.pc = "idle" /\ plan.phase = "Hibernated"
  /\ plan' = [plan EXCEPT !.phase = "WakingUp", !.tries = 1]
  /\ job' = Job("wakeup")
  /\ UNCHANGED <<kind, await, cloudVars, storeVars, acc, rd, budget, obsVars>>

\* A pod that failed is replaced, by the Job or by a retry of the target.
Retry ==
  /\ job.pc = "end" /\ ~job.ok /\ plan.tries < MaxAttempts
  /\ plan' = [plan EXCEPT !.tries = @ + 1]
  /\ job' = Job(job.op)
  /\ rd' = NoEntries
  /\ UNCHANGED <<kind, await, cloudVars, storeVars, acc, budget, obsVars>>

\* finalize, of a BestEffort plan also after a failure: a wakeup ends with
\* postWakeupCleanup.
Finalize ==
  /\ job.pc = "end" /\ (job.ok \/ plan.tries = MaxAttempts)
  /\ plan' = [plan EXCEPT !.phase = IF job.op = "shutdown" THEN "Hibernated" ELSE "Active"]
  /\ IF job.op = "wakeup" /\ restored
     THEN store' = Unlocked(store) /\ restored' = FALSE
     ELSE UNCHANGED storeVars
  /\ job' = Idle
  /\ rd' = NoEntries
  /\ UNCHANGED <<kind, await, cloudVars, acc, budget, obsVars>>

-----------------------------------------------------------------------------
(* The resources' own doing *)

\* Stopping and starting take their time.
Settle(k) ==
  /\ InTransition(k)
  /\ cloud' = [cloud EXCEPT ![k].st = IF @ = "stopping" THEN "down" ELSE "up"]
  /\ UNCHANGED <<kind, await, storeVars, job, acc, rd, plan, budget, owed, obsVars>>

\* The owner starts, stops, resizes, deletes or creates a resource (an instance
\* ID does not come back).
OwnerStates ==
  [st : {"up"}, size : SizesOf(kind)]
    \cup (IF kind \in {"karpenter", "noop"} THEN {} ELSE {[st |-> "down", size |-> 0]})
    \cup {[st |-> "gone", size |-> 0]}

OwnerChanges(k) ==
  /\ budget.meddling > 0
  /\ kind = "ec2" => k \in Existing
  /\ budget' = [budget EXCEPT !.meddling = @ - 1]
  /\ \E c \in OwnerStates \ {cloud[k]} : cloud' = [cloud EXCEPT ![k] = c]
  /\ owed' = [owed EXCEPT ![k] = 0]
  /\ touched' = touched \cup {k}
  /\ UNCHANGED <<kind, await, storeVars, job, acc, rd, plan, unsaved, forfeit>>

-----------------------------------------------------------------------------
(* Specification *)

Init ==
  /\ kind \in Kinds /\ await \in (IF kind = "rds" THEN BOOLEAN ELSE {FALSE})
  /\ cloud \in [Keys -> OwnerStates]
  /\ store = NoData /\ restored = FALSE
  /\ job = Idle /\ acc = NoEntries /\ rd = NoEntries
  /\ plan = [phase |-> "Active", cycle |-> 0, last |-> 0, tries |-> 0]
  /\ budget = [faults |-> MaxFaults, kills |-> MaxKills, meddling |-> MaxMeddling]
  /\ owed = [k \in Keys |-> 0]
  /\ unsaved = {} /\ forfeit = {} /\ touched = {}

ExecutorNext == EC2Next \/ EKSNext \/ RDSNext \/ KarpenterNext \/ WorkloadNext \/ NoopNext

RunnerNext ==
  \/ Prepare \/ ConnectorFails \/ LoadForWakeup \/ LoadFails \/ ExecutorNext \/ Await
  \/ Flush \/ Mark

Next ==
  \/ RunnerNext \/ FlushFails \/ Killed
  \/ StartShutdown \/ StartWakeup \/ Retry \/ Finalize
  \/ \E k \in Keys : Settle(k) \/ OwnerChanges(k)

Spec == Init /\ [][Next]_vars

\* A running pod goes on, the Job controller replaces or ends it: the calls it
\* makes have timeouts, and so have the waits of awaitCompletion.
FairSpec == Spec /\ WF_vars(RunnerNext)

-----------------------------------------------------------------------------
(* Properties *)

Restorable(k) ==
  LET e == store.entries[k]
  IN /\ e.has /\ e.stale = 0
     /\ e.size = owed[k] \/ OutdatedSpec(k)
     /\ e.dem \/ kind = "karpenter"

\* What a shutdown took down and no wakeup gave back is in the restore data as
\* it was: after failed attempts and their retries (which find the resource
\* already down), after a failed wakeup and the next shutdown. Only a flush that
\* failed, a killed pod and the RDS executor's passing over lose it.
OwedIsRestorable ==
  \A k \in Keys : owed[k] > 0 => k \in unsaved \cup forfeit \/ Restorable(k)

\* MarkTargetRestored is reached only with everything given back: the mark is
\* what lets the controller unlock the restore data.
MarkedIsBack ==
  job.pc = "mark" => \A k \in Keys : owed[k] > 0 => k \in forfeit

\* A wakeup starts, scales up or creates only what a shutdown took down: never
\* what was down before it, and never what only older restore data knows
\* (stale keys), unless the owner changed it since the cycle began, or the data is
\* not live: a wakeup then warns that it may be outdated, and uses it.
NeverUnasked ==
  [][\A k \in Keys :
       /\ job.op = "wakeup" /\ store.live /\ budget'.meddling = budget.meddling
       /\ cloud[k].st \in {"down", "stopping", "gone"} /\ cloud'[k].st \in {"up", "starting"}
       => owed[k] > 0 \/ k \in touched \cup forfeit]_vars

\* A runner that has started ends, whatever state the resources stay in:
\* awaitCompletion never waits without a deadline.
RunnerEnds == job.pc \notin {"idle", "end"} ~> job.pc \in {"idle", "end"}

=============================================================================
