CONSTANTS
  d1 = d1
  d2 = d2
  s1 = s1
  m1 = m1
  m2 = m2
  Nil = Nil
  Absent = Absent
  Unread = "unread"
  NoHash = "none"
  Runs = {m1, m2}
  Targets = {3}
  Scopes = {"macro"}
  Hashes = {"one", "two", "pool"}
  Advance = {3}
  Guarded = {}
  Reports = {11}
  Folders = {}
  Mutations <- MutationsOf
  ScopeOf <- ScopeMap
  After <- AfterMap
  AsOf <- AsOfMap
  View <- ViewMap
  Text <- TextMap
  Tears <- TearsOf
  Casts <- MacroCasts
  CrashPoints <- StagingWindow
  MaxMishaps = 1
SPECIFICATION Spec
PROPERTY LatestNeverRegresses
CHECK_DEADLOCK FALSE
