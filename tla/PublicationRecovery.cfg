CONSTANTS
  d1 = d1
  d2 = d2
  s1 = s1
  m1 = m1
  m2 = m2
  Nil = Nil
  Absent = Absent
  Unread = "unread"
  NoHash = "none"
  Runs = {d1, d2, s1}
  Targets = {1, 2}
  Scopes = {"dossiers", "scan"}
  Hashes = {"one", "two", "pool"}
  Advance = {}
  Guarded = {2}
  Reports = {10}
  Folders = {10}
  Mutations <- MutationsOf
  ScopeOf <- ScopeMap
  After <- AfterMap
  AsOf <- AsOfMap
  View <- ViewMap
  Text <- TextMap
  Tears <- TearsOf
  Casts <- SharedCasts
  CrashPoints <- AllPoints
  MaxMishaps = 2
SPECIFICATION FairSpec
INVARIANTS TypeOK ReceiptIsBacked ChainedOnce MirrorShowsCommitted
PROPERTIES FinisherReturns ChainedIsFinished CommittedIsDelivered
CHECK_DEADLOCK FALSE
