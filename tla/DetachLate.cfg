CONSTANTS
  a = a
  b = b
  x = x
  Nil = Nil
  Calls = {a}
  Command <- Commands
  Grace = 1
  MaxKills = 0
SPECIFICATION Spec
INVARIANTS LostIsFinal
CHECK_DEADLOCK FALSE
