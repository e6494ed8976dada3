CONSTANTS
  fin = fin
  op = op
  rec = rec
  w1 = w1
  w2 = w2
  k1 = k1
  k2 = k2
  Opener = Opener
  Nil = Nil
  Finishers = {fin, op}
  VerdictOf <- VerdictMap
  Recoverers = {rec}
  Wrappers = {w1}
  Recorders = {}
  Guarded = {}
  StaleAfter = 2
  RenewEvery = 1
  CrashPoints = {}
  MaxMishaps = 1
SPECIFICATION Spec
PROPERTY VerdictIsFinal
CHECK_DEADLOCK FALSE
