CONSTANTS
  Targets = {"a", "b"}
  Stages <- StagedStages
  Deps = {}
  Mode = "Strict"
  FailFast = TRUE
  MaxRetries = 0
  MissThreshold = 2
  MaxHandleDepth = 5
  Overridden = FALSE
  QueueBound = 0
  Budget <- CrashBudget
SPECIFICATION Spec
INVARIANTS StatusCoherent StageGate StageIsolation CompletedIsReal SingleRunner
CHECK_DEADLOCK FALSE
