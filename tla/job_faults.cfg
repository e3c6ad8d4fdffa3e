CONSTANTS
  Targets = {"a"}
  Stages <- OneTarget
  Deps = {}
  Mode = "Strict"
  FailFast = FALSE
  MaxRetries = 2
  MissThreshold = 2
  MaxHandleDepth = 5
  Overridden = FALSE
  QueueBound = 0
  Budget <- JobFaultBudget
SPECIFICATION JobFaultSpec
PROPERTIES OperationEnds
CHECK_DEADLOCK FALSE
