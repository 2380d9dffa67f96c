CONSTANTS
  c1 = c1
  c2 = c2
  v1 = v1
  NULL = NULL
  Clients = {c1, c2}
  Books = {1}
  Stores = {1}
  Reservations = {}
  Purchases = {1, 2}
  Vouchers = {}
  Attempts = {}
  Handlers = {h1, h2}
  PurchaseDtos <- Home
  ReserveOrders <- OrderOne
  Stocks = {}
  OpeningStock <- OneEach
  OpeningCart <- CartOfOne
  UnitPrice <- OddPrice
  MaxDifferentBooks = 1
  MaxCopies = 2
  Overlapping = {}
  LateExpiry = FALSE
  Faults = FALSE
  TaxPercent = 21
  DiscountPercent = 10
  TopUpAmounts = {}
  MaxMovements = 0
  WebhookStatuses = {}
  CartQuantities = {}
  MaxAdded = 0
SPECIFICATION Spec
INVARIANTS NoOversell
SYMMETRY Symmetry
