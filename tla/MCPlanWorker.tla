---------------------------- MODULE MCPlanWorker ----------------------------
(***************************************************************************)
(* Small instances of PlanWorker for TLC: the stages each strategy gives   *)
(* two or three targets, and for each run how often the environment may    *)
(* interfere.                                                              *)
(***************************************************************************)
EXTENDS PlanRefinement

Stage(S, n) == [targets |-> S, max |-> n]

\* PlanParallel over a alone, with maxConcurrency 2.
OneTarget == [op \in Ops |-> <<Stage({"a"}, 2)>>]

\* PlanSequential over a, b; the wakeup runs in reverse.
SequentialStages ==
  [op \in Ops |-> IF op = "shutdown" THEN <<Stage({"a"}, 1), Stage({"b"}, 1)>>
                  ELSE <<Stage({"b"}, 1), Stage({"a"}, 1)>>]

\* PlanStaged: a before b, every stage with maxConcurrency 2.
StagedStages ==
  [op \in Ops |-> IF op = "shutdown" THEN <<Stage({"a"}, 2), Stage({"b"}, 2)>>
                  ELSE <<Stage({"b"}, 2), Stage({"a"}, 2)>>]

\* PlanDAG over a -> b, with a third target beside a and maxConcurrency 1.
DagStages ==
  [op \in Ops |-> IF op = "shutdown" THEN <<Stage({"a", "c"}, 1), Stage({"b"}, 1)>>
                  ELSE <<Stage({"b", "c"}, 1), Stage({"a"}, 1)>>]

\* PlanDAG over a -> b alone.
ChainStages == SequentialStages
ChainDeps == {<<"a", "b">>}

Allow(once, twice) ==
  [e \in Events |-> IF e \in twice THEN 2 ELSE IF e \in once THEN 1 ELSE 0]

\* The environment of the passing runs.
CrashBudget ==
  Allow({"flip", "crash", "jobFailure", "createError", "apiError", "retryNow"}, {})
SuspendBudget == Allow({"flip"}, {"suspend"})
SuspendCrashBudget == [Allow({"crash", "patchError", "timeout"}, {}) EXCEPT !["suspend"] = 3]
ConflictBudget == Allow({"flip", "jobFailure", "conflict", "flushError"}, {})
JobFaultBudget == Allow({"flip", "podFailure", "lost", "gc"}, {"jobFailure"})

\* Two failures of Jobs, or one beside pods and Jobs that are lost.
FewFaults ==
  used["jobFailure"] < 2 \/ used["podFailure"] + used["lost"] + used["gc"] = 0
JobFaultNext ==
  \/ Handle \/ DrainTimeout \/ TransientError
  \/ WriteStatus \/ Reconcile \/ Deliver \/ IdleExit
  \/ JobStep /\ FewFaults'
  \/ Outside
JobFaultSpec == Init /\ [][JobFaultNext]_vars /\ Fairness

\* The environment of the runs that refute a comment or a document.
FlipBudget == Allow({"flip"}, {})
FailureBudget == Allow({"jobFailure"}, {})
TwoCyclesBudget == [Allow({"jobFailure"}, {}) EXCEPT !["flip"] = 3]
OrphanBudget == Allow({"crash"}, {})
=============================================================================
