CONSTANTS
  s1 = s1
  Stores = {s1}
  MaxCart = 2
  Clicks = {1, 2}
  NULL = NULL
SPECIFICATION FairSpec
INVARIANTS StoresAreForTheCart OrdersCanBeDelivered
PROPERTIES SubmissionsEnd
CHECK_DEADLOCK FALSE
