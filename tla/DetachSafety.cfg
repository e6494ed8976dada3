CONSTANTS
  a = a
  b = b
  x = x
  Nil = Nil
  Calls = {a, b, x}
  Command <- Commands
  Grace = 1
  MaxKills = 2
SPECIFICATION FairSpec
INVARIANTS TypeOK OneRunPerKey ToldWhatRan LostAfterReport
PROPERTIES PollingSettles
CHECK_DEADLOCK FALSE
