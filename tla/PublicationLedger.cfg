CONSTANTS
  d1 = d1
  d2 = d2
  s1 = s1
  m1 = m1
  m2 = m2
  Nil = Nil
  Absent = Absent
  Unread = "unread"
  NoHash = "none"
  Runs = {d1, d2, s1, m1, m2}
  Targets = {1, 2, 3}
  Scopes = {"dossiers", "scan", "macro"}
  Hashes = {"one", "two", "pool"}
  Advance = {3}
  Guarded = {2}
  Reports = {10, 11}
  Folders = {10}
  Mutations <- MutationsOf
  ScopeOf <- ScopeMap
  After <- AfterMap
  AsOf <- AsOfMap
  View <- ViewMap
  Text <- TextMap
  Tears <- TearsOf
  Casts <- AllCasts
  CrashPoints <- OutsideWindows
  MaxMishaps = 1
SPECIFICATION Spec
PROPERTIES ImplementsLedger LatestNeverRegresses AppliedIsVisible
CHECK_DEADLOCK FALSE
