CONSTANTS
  c1 = c1
  c2 = c2
  v1 = v1
  NULL = NULL
  Clients = {c1, c2}
  Books = {1, 2}
  Stores = {1}
  Reservations = {1}
  Purchases = {1, 2}
  Vouchers = {}
  Attempts = {1}
  Handlers = {h1, h2}
  PurchaseDtos <- Home
  ReserveOrders <- OrderLast
  Stocks = {}
  OpeningStock <- TwoEach
  OpeningCart <- CartOfOne
  UnitPrice <- OddPrice
  MaxDifferentBooks = 2
  MaxCopies = 1
  Overlapping = {}
  LateExpiry = FALSE
  Faults = FALSE
  TaxPercent = 21
  DiscountPercent = 10
  TopUpAmounts = {}
  MaxMovements = 0
  WebhookStatuses = {"approved", "failed"}
  CartQuantities = {}
  MaxAdded = 0
SPECIFICATION FairSpec
PROPERTIES RequestsEnd DueReservationsEnd ClaimsAreSettled
