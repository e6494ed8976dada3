CONSTANTS
  c1 = c1
  c2 = c2
  Codes = {c1, c2}
  Scan = "scan"
  Reviewed = {c1}
  IntelEnabled = TRUE
  SessionMax = 2
  TicketMax = 2
  Reattach = TRUE
  ExecutorErrors = {"DOMAIN_VALIDATION"}
  OperationErrors = {}
  CrashPoints = {"loop"}
  MaxFailures = 1
  MaxCrashes = 1
  MaxOperator = 0
SPECIFICATION FairSpec
PROPERTIES ReachesDone
CHECK_DEADLOCK FALSE
