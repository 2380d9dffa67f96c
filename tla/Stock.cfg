CONSTANTS
  c1 = c1
  c2 = c2
  v1 = v1
  NULL = NULL
  Clients = {c1}
  Books = {1}
  Stores = {1, 2}
  Reservations = {1}
  Purchases = {1, 2}
  Vouchers = {}
  Attempts = {}
  Handlers = {h1, h2}
  PurchaseDtos <- HomeOrPickup
  ReserveOrders <- OrderOne
  Stocks = {2}
  OpeningStock <- OneEach
  OpeningCart <- CartOfOne
  UnitPrice <- OddPrice
  MaxDifferentBooks = 1
  MaxCopies = 2
  Overlapping = {c1, NULL}
  LateExpiry = TRUE
  Faults = TRUE
  TaxPercent = 21
  DiscountPercent = 10
  TopUpAmounts = {10000}
  MaxMovements = 1
  WebhookStatuses = {}
  CartQuantities = {}
  MaxAdded = 0
SPECIFICATION Spec
INVARIANTS TypeOK CopiesConserved SoldAsBought PaidExactlyOnce LedgerExplainsWallet
SYMMETRY Symmetry
