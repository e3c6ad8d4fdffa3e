CONSTANTS
  Keys = {1, 2}
  MaxStaleCount = 3
  Kinds = {"ec2", "eks", "rds", "karpenter", "workloadscaler", "noop", "gke"}
  Sizes = {1, 2}
  MaxCycles = 2
  MaxAttempts = 2
  MaxFaults = 1
  MaxKills = 1
  MaxMeddling = 1
SPECIFICATION MCSpec
INVARIANTS OwedIsRestorable MarkedIsBack
PROPERTIES NeverUnasked RunnerEnds
CHECK_DEADLOCK FALSE
