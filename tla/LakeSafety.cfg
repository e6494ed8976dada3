CONSTANTS
  r1 = r1
  r2 = r2
  Nil = Nil
  Readers = {r1, r2}
  LastDay = 3
  Files <- Keys
  Old <- OldKey
SPECIFICATION Spec
SYMMETRY ReaderSymmetry
INVARIANTS TypeOK StoredIsFit
PROPERTIES ColdMissOnce
CHECK_DEADLOCK FALSE
