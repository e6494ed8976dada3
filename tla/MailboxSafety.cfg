CONSTANTS
  t1 = t1
  w1 = w1
  w2 = w2
  Nil = Nil
  Tasks = {t1}
  Workers = {w1, w2}
  MaxRunners = 2
  MaxDeaths = 1
SPECIFICATION FairSpec
INVARIANTS TypeOK AnswerIsBinding LateIsEvidence
PROPERTIES ImplementsFate AttemptsSettle
CHECK_DEADLOCK FALSE
