CONSTANTS
  c1 = c1
  NULL = NULL
  Clients = {c1}
  Purchases = {1}
  Owner <- OneOwner
  Total <- Rising
  Requests = {1, 2, 3}
  SingleAdmin = TRUE
  ReturnDays = 1
  RefundDays = 1
  MaxDay = 2
  MaxCrashes = 1
SPECIFICATION FairSpec
INVARIANTS PaidBackOnce RefundFollowsReturn
PROPERTIES ApprovedReturnsGetARefund ImplementsReturnCase
