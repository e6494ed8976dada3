CONSTANTS
  c1 = c1
  c2 = c2
  Codes = {c1}
  Scan = "scan"
  Reviewed = {c1}
  IntelEnabled = TRUE
  SessionMax = 2
  TicketMax = 3
  Reattach = TRUE
  ExecutorErrors = {"TIMEOUT", "DOMAIN_VALIDATION", "USAGE_LIMIT", "CONTRACT_ERROR"}
  OperationErrors = {"OPERATION_FAILED"}
  CrashPoints <- AllSteps
  MaxFailures = 3
  MaxCrashes = 2
  MaxOperator = 1
SPECIFICATION FairSpec
INVARIANTS TypeOK OneLiveAttempt AttemptsAreBudgeted DoneIsFinal
PROPERTIES PlansReadTheCard AcceptedUnderTicket AcceptedIsKept EveryRunnerStops
CHECK_DEADLOCK FALSE
