CONSTANTS
  Targets = {"a", "b"}
  Stages <- SequentialStages
  Deps = {}
  Mode = "Strict"
  FailFast = FALSE
  MaxRetries = 1
  MissThreshold = 2
  MaxHandleDepth = 5
  Overridden = FALSE
  QueueBound = 1
  Budget <- SuspendBudget
SPECIFICATION FairSpec
INVARIANTS DrainBeforeSuspend
PROPERTIES InterruptedWakeupNotActive SuspendHonoured
CHECK_DEADLOCK FALSE
