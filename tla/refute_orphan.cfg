CONSTANTS
  Targets = {"a"}
  Stages <- OneTarget
  Deps = {}
  Mode = "Strict"
  FailFast = FALSE
  MaxRetries = 1
  MissThreshold = 2
  MaxHandleDepth = 5
  Overridden = FALSE
  QueueBound = 1
  Budget <- OrphanBudget
SPECIFICATION Spec
INVARIANTS RestartIsIdempotent
CHECK_DEADLOCK FALSE
