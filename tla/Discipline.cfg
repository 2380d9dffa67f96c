CONSTANTS
  c1 = c1
  c2 = c2
  v1 = v1
  NULL = NULL
  Clients = {c1, c2}
  Books = {1}
  Stores = {1, 2}
  Reservations = {1, 2}
  Purchases = {1, 2}
  Vouchers = {}
  Attempts = {}
  Handlers = {h1, h2}
  PurchaseDtos <- Home
  ReserveOrders <- OrderUpToTwo
  Stocks = {}
  OpeningStock <- OneAndTwo
  OpeningCart <- CartOfOne
  UnitPrice <- OddPrice
  MaxDifferentBooks = 1
  MaxCopies = 2
  Overlapping = {}
  LateExpiry = FALSE
  Faults = TRUE
  TaxPercent = 21
  DiscountPercent = 10
  TopUpAmounts = {}
  MaxMovements = 0
  WebhookStatuses = {}
  CartQuantities = {}
  MaxAdded = 0
SPECIFICATION Spec
INVARIANTS ReservedIsBacked ReservationLimits OversellIsBounded
PROPERTIES SettledStaysSettled
SYMMETRY Symmetry
