CONSTANTS
  c1 = c1
  c2 = c2
  v1 = v1
  NULL = NULL
  Clients = {c1, c2}
  Books = {1}
  Stores = {1, 2}
  Reservations = {1}
  Purchases = {1, 2}
  Vouchers = {v1}
  Attempts = {}
  Handlers = {h1, h2}
  PurchaseDtos <- HomeOrVoucher
  ReserveOrders <- OrderOne
  Stocks = {}
  OpeningStock <- OneAndTwo
  OpeningCart <- CartOfOne
  UnitPrice <- OddPrice
  MaxDifferentBooks = 1
  MaxCopies = 2
  Overlapping = {}
  LateExpiry = TRUE
  Faults = TRUE
  TaxPercent = 21
  DiscountPercent = 10
  TopUpAmounts = {}
  MaxMovements = 0
  WebhookStatuses = {}
  CartQuantities = {1}
  MaxAdded = 2
SPECIFICATION Spec
INVARIANTS CartBoughtOnce VoucherUsedOnce
SYMMETRY Symmetry
