SPECIFICATION MCSpec
CONSTANTS
  Senders = {"a", "b"}
  MaxValues = 3
  MaxEntries = 2
  MaxRemoves = 1
  Capacity = 2
  Inactivity = 3
  Results <- MCResults
  ExNames = {"x"}
  ExSpecs <- MCSpecs
  ExHorizon = 2
  ExMaxDuration = 3
  ExMaxEdits = 2
  ExMaxPlanEvents = 2
  ExMaxFaults = 1
  DayMinutes = 4
  ExDays = {0, 1}
  NbPlans = {"p", "q"}
  NbLabels = {"a", "b"}
  NbMaxEdits = 2
  NbMaxFaults = 1
INVARIANTS OnePlanWorker
PROPERTIES NothingStranded DrivenAgain ExpiryIsRecorded DeletionEnds
PROPERTIES BindingsSettle NotificationDeletionEnds
CHECK_DEADLOCK FALSE
