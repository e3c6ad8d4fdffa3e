CONSTANTS
  Targets = {"a", "b"}
  Stages <- ChainStages
  Deps <- ChainDeps
  Mode = "BestEffort"
  FailFast = FALSE
  MaxRetries = 1
  MissThreshold = 2
  MaxHandleDepth = 5
  Overridden = TRUE
  QueueBound = 0
  Budget <- FailureBudget
SPECIFICATION FairSpec
PROPERTIES OperationEnds
CHECK_DEADLOCK FALSE
