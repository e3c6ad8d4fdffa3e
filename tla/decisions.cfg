SPECIFICATION MCSpec
CONSTANTS
  Names = {"a", "b", "c"}
  MaxDeps = 4
  MaxListed = 3
  MaxStages = 2
  MaxExcepted = 2
  Strategies <- StrategyTypes
  Replacements <- MCReplacements
  DaysPerWeek = 3
  MinutesPerDay = 6
  Minute = 2
  Buffer = 2
  Safety = 1
  ErrorInterval = 2
  Scenarios <- MCScenarios
  Start <- MCStart
  CreateUntil = 80
  Horizon = 132
  ExNames = {"x", "y"}
  ExSpecs <- MCSpecs
  ExHorizon = 2
  ExMaxDuration = 3
  ExMaxEdits = 3
  ExMaxPlanEvents = 2
  ExMaxFaults = 0
  DayMinutes = 4
  ExDays = {0, 1}
  NdStreams = 3
  NdEvents = {"Start", "PhaseChange", "Recovery", "Success", "Failure"}
  NdCapacity = 1
  NdKept = 2
  NdMaxEvents = 4
  NdMaxFaults = 1
  NdMaxExits = 1
  OvHorizon = 2
  OvBudgets <- MCBudgets
INVARIANTS DependenciesFirst PlacedOnce CycleIffKnotted
INVARIANTS AcceptedIsPlannable StagesPartitionTargets WakeupReverses
INVARIANTS ExceptionsCompose AnswerIsCurrent SuspensionKeepsAwake
INVARIANTS RestartRunsOnce IntentFollowed OneThreadPerStart OutcomeStaysMarked
CHECK_DEADLOCK FALSE
