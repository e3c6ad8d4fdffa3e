CONSTANTS
  Targets = {"a"}
  Stages <- OneTarget
  Deps = {}
  Mode = "Strict"
  FailFast = FALSE
  MaxRetries = 1
  MissThreshold = 2
  MaxHandleDepth = 5
  Overridden = FALSE
  QueueBound = 0
  Budget <- FlipBudget
SPECIFICATION FairSpec
PROPERTIES ScheduleFollowed
CHECK_DEADLOCK FALSE
