CONSTANTS
  Targets = {"a"}
  Stages <- OneTarget
  Deps = {}
  Mode = "Strict"
  FailFast = FALSE
  MaxRetries = 1
  MissThreshold = 2
  MaxHandleDepth = 5
  Overridden = FALSE
  QueueBound = 2
  Budget <- SuspendCrashBudget
SPECIFICATION Spec
INVARIANTS TypeOK UniqueCurrentJob MemoryIsTail
PROPERTIES ImplementsLifecycle
CHECK_DEADLOCK FALSE
