------------------------------ MODULE RunnerJob ------------------------------
(***************************************************************************)
(* What a runner and the executor in it work on: the resources of one      *)
(* target (EC2 instances, node groups, databases, node pools, workloads),  *)
(* the restore data, and the progress of the operation. The executors      *)
(* (ExecutorEC2, ExecutorEKS, ExecutorRDS, ExecutorKarpenter and           *)
(* ExecutorWorkloadScaler) and the runner around them (Runner) are actions *)
(* over these variables.                                                   *)
(***************************************************************************)
EXTENDS RestoreData, FiniteSets

CONSTANTS
  Kinds,         \* executor types of the targets considered
  Sizes,         \* sizes (replicas, desired size, spec) a resource can have
  MaxCycles,     \* cycle IDs
  MaxAttempts,   \* pods of one Job
  MaxFaults,     \* API errors
  MaxKills,      \* pods killed and flushes failed
  MaxMeddling    \* changes of a resource by its owner

ASSUME JobAssumption ==
  /\ IsFiniteSet(Keys) /\ Sizes \subseteq Nat \ {0}
  /\ MaxCycles \in Nat /\ MaxAttempts \in Nat /\ MaxFaults \in Nat
  /\ MaxKills \in Nat /\ MaxMeddling \in Nat

VARIABLES
  kind,      \* the target's type
  await,     \* parameters.awaitCompletion.enabled
  cloud,     \* per resource: its state and size
  store,     \* the target's restore data
  restored,  \* the restored-<target> annotation
  job,       \* the operation: op, pc, the keys still to do, the pending ones,
             \* and whether it succeeded
  acc,       \* the accumulator of a shutdown
  rd,        \* the restore data a wakeup loaded
  plan,      \* phase, cycle ID, cycle IDs given out and attempts of the Job
  budget,    \* faults, kills and changes by the owner that may still happen
  owed,      \* observation: the size a resource had when a shutdown took it
             \* down, 0 once it is back or its owner has changed it
  unsaved,   \* observation: taken down, not yet in the restore data
  forfeit,   \* observation: resources whose restore data was lost or which a
             \* wakeup passed over
  touched    \* observation: changed by the owner since the cycle began

cloudVars == <<cloud, owed>>
storeVars == <<store, restored>>
obsVars == <<unsaved, forfeit, touched>>
vars == <<kind, await, cloud, store, restored, job, acc, rd, plan, budget, owed,
          unsaved, forfeit, touched>>

Sized == {"eks", "workloadscaler"}

\* Resources of these types pass through transitional states.
Slow == {"ec2", "rds"}

SizesOf(t) == IF t \in Slow THEN {1} ELSE Sizes

Up(k) == cloud[k].st = "up"

-----------------------------------------------------------------------------
(* Steps the executors share *)

\* An executor touches neither the ConfigMap nor the plan.
ExecutorFrame == UNCHANGED <<kind, await, store, restored, rd, plan, touched>>

Running(t, op, pc) == kind = t /\ job.op = op /\ job.pc = pc

Existing == {k \in Keys : cloud[k].st # "gone"}

\* The loop over what was found, or over what the restore data holds.
Loop(keys) == job' = [job EXCEPT !.pc = "work", !.todo = keys]

\* WakeUp returns at once, and successfully, when there is nothing to restore.
RestoreLoop == IF Reported(rd) = {} THEN job' = [job EXCEPT !.pc = "mark"]
               ELSE Loop(Reported(rd))

Done(k) == job' = [job EXCEPT !.todo = @ \ {k}]

\* The loop is through: the executor waits for completion if it was asked to.
LoopEnds(t) ==
  /\ kind = t /\ job.pc = "work" /\ job.todo = {}
  /\ job' = [job EXCEPT !.pc = "await"]
  /\ UNCHANGED <<cloud, owed, unsaved, acc, budget, forfeit>>
  /\ ExecutorFrame

\* The executor returns an error: a shutdown still flushes (the deferred call
\* in executeOperation), a wakeup ends.
Failed(j) == [j EXCEPT !.pc = IF j.op = "shutdown" THEN "flush" ELSE "end",
                       !.todo = {}, !.pend = {}, !.ok = FALSE]

Fault == budget.faults > 0 /\ budget' = [budget EXCEPT !.faults = @ - 1]

\* A call to the provider fails, and changed nothing.
CallFails(t) ==
  /\ kind = t /\ job.pc \in {"find", "work"} /\ Fault
  /\ job.pc = "work" => job.todo # {}
  /\ job' = Failed(job)
  /\ UNCHANGED <<cloud, owed, unsaved, acc, forfeit>>
  /\ ExecutorFrame

\* What the resource was is owed until it is back.
TakeDown(k, st) ==
  /\ cloud' = [cloud EXCEPT ![k] = [st |-> st, size |-> 0]]
  /\ owed' = [owed EXCEPT ![k] = cloud[k].size]
  /\ unsaved' = unsaved \cup {k}

\* A NodePool's entry is never "demanded": one its owner edited between two
\* shutdowns of the same cycle ID keeps the older spec.
OutdatedSpec(k) == kind = "karpenter" /\ k \in touched

GiveBack(k, st, size) ==
  /\ cloud' = [cloud EXCEPT ![k] = [st |-> st, size |-> size]]
  /\ owed' = [owed EXCEPT ![k] = IF size = @ \/ OutdatedSpec(k) THEN 0 ELSE @]

Report(k, dem, size) == acc' = Add(acc, k, dem, size)

=============================================================================
