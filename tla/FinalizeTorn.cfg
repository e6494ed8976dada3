CONSTANTS
  fin = fin
  op = op
  rec = rec
  w1 = w1
  w2 = w2
  k1 = k1
  k2 = k2
  Opener = Opener
  Nil = Nil
  Finishers = {fin, op}
  VerdictOf <- VerdictMap
  Recoverers = {rec}
  Wrappers = {}
  Recorders = {}
  Guarded = {}
  StaleAfter = 2
  RenewEvery = 1
  CrashPoints = {"publish"}
  MaxMishaps = 1
SPECIFICATION FairSpec
PROPERTY FinishResumes
CHECK_DEADLOCK FALSE
