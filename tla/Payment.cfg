CONSTANTS
  c1 = c1
  c2 = c2
  v1 = v1
  NULL = NULL
  Clients = {c1}
  Books = {1}
  Stores = {1}
  Reservations = {}
  Purchases = {1, 2}
  Vouchers = {v1}
  Attempts = {1, 2}
  Handlers = {h1, h2}
  PurchaseDtos <- HomeWithVoucher
  ReserveOrders <- OrderOne
  Stocks = {}
  OpeningStock <- TwoEach
  OpeningCart <- CartOfOne
  UnitPrice <- OddPrice
  MaxDifferentBooks = 1
  MaxCopies = 2
  Overlapping = {c1}
  LateExpiry = FALSE
  Faults = TRUE
  TaxPercent = 21
  DiscountPercent = 10
  TopUpAmounts = {}
  MaxMovements = 0
  WebhookStatuses = {"approved", "cancelled"}
  CartQuantities = {1}
  MaxAdded = 2
SPECIFICATION Spec
INVARIANTS AttemptBuysOnce ApprovedIsBought
SYMMETRY Symmetry
