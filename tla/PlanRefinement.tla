--------------------------- MODULE PlanRefinement ---------------------------
(***************************************************************************)
(* PlanWorker implements PlanLifecycle: the worker's memory is the current *)
(* status, the queued updates are the pending ones, and what the API       *)
(* server holds is the durable one, each without its executions.           *)
(***************************************************************************)
EXTENDS PlanWorker

\* A status without its executions.
Abs(s) == [phase |-> s.phase, op |-> s.op, cycle |-> s.cycle, stage |-> s.stage,
           retry |-> s.retry]

AbsQueue(q) == [i \in 1 .. Len(q) |-> Abs(q[i])]

Lifecycle == INSTANCE PlanLifecycle WITH
  StageCount <- [op \in Ops |-> Len(Stages[op])],
  current <- Abs(mem), pending <- AbsQueue(sendq), durable <- Abs(db)

\* Handlers, status writer, restarts and users together move the plan along the
\* lifecycle only: every phase change is an edge, every status is sent in order,
\* and a restart resumes from the last one written.
ImplementsLifecycle == Lifecycle!Spec

\* What a reader of the API server sees moves along the lifecycle.
PersistedMoves == Lifecycle!DurableMoves

=============================================================================
