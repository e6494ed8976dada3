CONSTANTS
  fin = fin
  op = op
  rec = rec
  w1 = w1
  w2 = w2
  k1 = k1
  k2 = k2
  Opener = Opener
  Nil = Nil
  Finishers = {fin, op}
  VerdictOf <- VerdictMap
  Recoverers = {rec}
  Wrappers = {w1}
  Recorders = {k1}
  Guarded = {k1}
  StaleAfter = 2
  RenewEvery = 1
  CrashPoints <- OutsideWindows
  MaxMishaps = 1
SPECIFICATION FairSpec
INVARIANTS TypeOK AnchoredRoots OneVerdict NoFalseGreen SealedPairsAreWhole
PROPERTIES RecoverySparesCommands FinishResumes AbandonedIsSealed
CHECK_DEADLOCK FALSE
