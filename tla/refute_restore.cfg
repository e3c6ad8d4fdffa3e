CONSTANTS
  Targets = {"a", "b"}
  Stages <- SequentialStages
  Deps = {}
  Mode = "BestEffort"
  FailFast = FALSE
  MaxRetries = 0
  MissThreshold = 1
  MaxHandleDepth = 5
  Overridden = FALSE
  QueueBound = 0
  Budget <- TwoCyclesBudget
SPECIFICATION Spec
PROPERTIES RestorePointKept
CHECK_DEADLOCK FALSE
