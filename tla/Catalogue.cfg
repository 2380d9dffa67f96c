CONSTANTS
  Books = {1}
  u1 = u1
  u2 = u2
  k1 = k1
  k2 = k2
  Categories = {k1, k2}
  NoCategory = NoCategory
  Users = {u1, u2}
  Requests = {1, 2}
  MaxCrashes = 1
  NULL = NULL
SPECIFICATION FairSpec
INVARIANTS NotifiedOnce LogTellsTheTruth
PROPERTIES SubscribersAreTold
