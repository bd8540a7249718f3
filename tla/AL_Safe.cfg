SPECIFICATION Spec
CONSTANTS
  MaxSteps = 2
  MaxErrors = 2
  MaxRetries = 1
  MaxCalls = 2
  Slots = 1
  MaxTokens = 1
  Deadline = TRUE
  AbortOnError = FALSE
  PlanSize = 2
  MaxGoals = 2
  MaxRuns = 2
  MaxOrders = 2
INVARIANTS
  ShownOnce
  SuccessCompletesPlan
  BudgetKept
PROPERTIES
  RunEnds
  StopEnds
CHECK_DEADLOCK FALSE
