CONSTANTS
  Targets = {"a", "b", "c"}
  Stages <- DagStages
  Deps <- ChainDeps
  Mode = "BestEffort"
  FailFast = FALSE
  MaxRetries = 1
  MissThreshold = 2
  MaxHandleDepth = 5
  Overridden = FALSE
  QueueBound = 0
  Budget <- ConflictBudget
SPECIFICATION Spec
INVARIANTS UpstreamCompleted ConcurrencyLimit
PROPERTIES RestorePointKept
CHECK_DEADLOCK FALSE
