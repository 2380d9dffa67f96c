------------------------------ MODULE StoreDb ------------------------------
(***************************************************************************)
(* The PostgreSQL tables the shop's services share, and the request        *)
(* handlers that work on them through Prisma.                              *)
(*                                                                         *)
(* Every HTTP request, webhook and cron tick is a handler: a sequence of   *)
(* SQL statements, one statement an action, interleaved with the           *)
(* statements of every other handler.  Interactive transactions run at     *)
(* READ COMMITTED: a statement sees what has been committed and the        *)
(* handler's own writes, a row that was written stays locked until the     *)
(* transaction ends, and a relative update ("decrement: n") is applied to  *)
(* whatever the row holds when the lock is granted.                        *)
(***************************************************************************)
EXTENDS Integers, Sequences, FiniteSets, Functions

CONSTANTS
  Clients,       \* clients of the shop
  Books,         \* bookIds
  Stores,        \* storeIds
  Reservations,  \* reservationIds: how many reservations may ever be made
  Purchases,     \* purchaseIds: how many purchases may ever be committed
  Vouchers,      \* voucher codes
  Attempts,      \* paymentAttemptIds: how many payments may be initiated
  Handlers,      \* handlers that may be running at the same time
  PurchaseDtos,  \* the bodies clients send to POST /purchases and /payments
  ReserveOrders, \* the quantities per book clients ask to reserve
  Stocks,        \* the quantities an admin may write in the inventory
  OpeningStock,  \* copies of each book in each store at the start
  OpeningCart,   \* copies of each book in each client's cart at the start
  UnitPrice,     \* price of each book, in cents
  MaxDifferentBooks,  \* MAX_DIFFERENT_BOOKS_PER_CLIENT
  MaxCopies,          \* MAX_COPIES_PER_BOOK and MAX_COPIES_PER_BOOK_PURCHASE
  Overlapping,   \* the clients that may have several requests in flight, and
                 \* NULL if ticks of the cron may overlap
  LateExpiry,    \* may a reservation fall due while its owner's request runs?
  Faults,        \* may transactions fail and handlers die at any statement?
  NULL

Rows == Books \X Stores

ASSUME IdsAreOrdered ==
  /\ Books \subseteq Nat /\ Stores \subseteq Nat /\ Reservations \subseteq Nat
  /\ Purchases \subseteq Nat /\ Attempts \subseteq Nat

ASSUME IdsAreFinite ==
  /\ IsFiniteSet(Books) /\ IsFiniteSet(Stores) /\ IsFiniteSet(Reservations)
  /\ IsFiniteSet(Purchases)

ASSUME NullIsNoId ==
  NULL \notin Clients \cup Stores \cup Reservations \cup Vouchers \cup Attempts
              \cup Purchases

ASSUME BoundsAreNaturals ==
  /\ MaxDifferentBooks \in Nat /\ MaxCopies \in Nat
  /\ Stocks \subseteq Nat
  /\ OpeningStock \in [Rows -> Nat]
  /\ OpeningCart \in [Clients -> [Books -> 0..MaxCopies]]
  /\ UnitPrice \in [Books -> Nat \ {0}]
  /\ ReserveOrders \subseteq [Books -> Nat]

ASSUME EnvironmentFlags ==
  Overlapping \subseteq Clients \cup {NULL} /\ LateExpiry \in BOOLEAN /\ Faults \in BOOLEAN

VARIABLES
  inventory,     \* table Inventory
  reservation,   \* tables Reservation and ReservationItem
  cart,          \* tables Cart and CartItem
  wallet,        \* column Client.walletBalance, in cents
  ledger,        \* table Transaction, per client in commit order
  voucher,       \* table Voucher
  purchase,      \* tables Purchase and PurchaseItem
  attempt,       \* table PaymentAttempt
  handler,       \* what each running handler remembers
  delta,         \* uncommitted relative inventory writes of each handler
  locks,         \* rows each handler's open transaction has written
  shelf,         \* history: copies of each book that stand in each store
  added          \* history: copies of each book each client put in its cart

dbVars == <<inventory, reservation, cart, wallet, ledger, voucher, purchase,
            attempt, shelf, added>>
vars == <<dbVars, handler, delta, locks>>

-----------------------------------------------------------------------------
(* Rows of the tables. *)

InventoryRow == [available: Int, reserved: Int]

ReservationStatus == {"none", "active", "cancelled", "expired", "converted"}
ReservationRow == [status: ReservationStatus, client: Clients \cup {NULL},
                   due: BOOLEAN,          \* expirationDate <= now
                   madeAt: Nat,           \* ledger length at reservationDate
                   items: [Rows -> Nat]]  \* ReservationItem.quantity, 0: no row

CartRow == [status: {"active", "processed"}, items: [Books -> 0..MaxCopies]]

VoucherRow == [client: Clients, isUsed: BOOLEAN, expired: BOOLEAN]

Dto == [deliveryMode: {"homeDelivery", "storePickup"},
        pickupStoreId: Stores \cup {NULL},
        allowWaitlistPickup: BOOLEAN,
        voucherCode: Vouchers \cup {NULL}]

ASSUME BodiesAreDtos == PurchaseDtos \subseteq Dto

PurchaseRow == [client: Clients \cup {NULL}, items: [Books -> Nat],
                total: Nat, waitlisted: BOOLEAN,
                voucher: Vouchers \cup {NULL},
                taken: [Rows -> Int]]     \* history: copies taken from stock

AttemptStatus == {"none", "pending", "processing", "approved", "failed",
                  "cancelled", "expired"}

Movement == [type: {"payment", "refund", "topUp"}, amount: Nat,
             balanceAfter: Int, purchaseId: Purchases \cup {NULL},
             gatewayReference: Attempts \cup {NULL}]

(* NULL for a purchaseId that is not set. *)
AttemptRow == [status: AttemptStatus, client: Clients \cup {NULL}, dto: Dto,
               items: [Books -> 0..MaxCopies],  \* itemsSnapshot
               amount: Int,
               referenced: BOOLEAN,     \* gatewayReference is stored
               purchaseId: Purchases \cup {NULL}]

NoReservation == [status |-> "none", client |-> NULL, due |-> FALSE,
                  madeAt |-> 0, items |-> [w \in Rows |-> 0]]

NoDto == [deliveryMode |-> "homeDelivery", pickupStoreId |-> NULL,
          allowWaitlistPickup |-> FALSE, voucherCode |-> NULL]
NoBooks == [b \in Books |-> 0]

NoAttempt == [status |-> "none", client |-> NULL, dto |-> NoDto,
              items |-> NoBooks, amount |-> 0, referenced |-> FALSE,
              purchaseId |-> NULL]

NoPurchase == [client |-> NULL, items |-> NoBooks, total |-> 0,
               waitlisted |-> FALSE, voucher |-> NULL,
               taken |-> [w \in Rows |-> 0]]

(* The rows a transaction keeps locked between two of its statements. *)
Lockable ==
  ({"inventory"} \X Rows) \cup ({"reservation"} \X Reservations)
  \cup ({"reservationItem"} \X (Reservations \X Rows))

(* Rows of ReservationItem and of Inventory as a handler read them: the    *)
(* key and the quantity, what its loops have still to write.               *)
ItemEntry == [res: Reservations, row: Rows, cap: Nat]
StockEntry == [res: {NULL}, row: Rows, cap: Nat]
Counted == [res: Reservations \cup {NULL}, row: Rows, cap: Int]

(* The copies of book b in the rows that were read. *)
CopiesIn(read, b) == SumFunction([e \in {f \in read : f.row[1] = b} |-> e.cap])

(* What a handler keeps in its local variables while it runs. *)
PC == {"idle",
       \* addItem, updateItem, removeItem
       "ensureActiveCart", "emptyCart", "activateCart", "findItem", "writeItem",
       "removeItem",
       \* createReservation
       "assertInventoryAvailability", "allocateInventory",
       \* cancelReservation, expireReservationsCron
       "release", "releaseRow",
       \* createPurchase
       "recheckCart", "getReservedQuantities", "validateInventory",
       "readReserved", "consumeReserved", "createRecord", "readInventory",
       "decrementInventory",
       \* handleWebhook
       "overwrite", "claim", "approve", "fail",
       \* initiatePayment
       "createCheckoutSession"}

InTransaction == {"allocateInventory", "release", "releaseRow",
                  "getReservedQuantities", "validateInventory", "readReserved",
                  "consumeReserved", "createRecord", "readInventory",
                  "decrementInventory"}

HandlerState ==
  [pc: PC, actor: Clients \cup {NULL}, dto: Dto,
   want: [Books -> Nat],        \* requestedItems
   need: [Books -> Nat],        \* remaining, per book
   own: SUBSET Counted,         \* reservedQuantities, totalAvailableUnits
   todo: SUBSET (ItemEntry \cup StockEntry),  \* rows still to be written
   left: SUBSET ItemEntry,      \* reservation items to rewrite: leftoverQuantity
   convert: SUBSET Reservations, \* reservations left without items
   res: Reservations \cup {NULL}, \* reservation being cancelled or expired
   queue: SUBSET Reservations,  \* expiredReservations still to process
   snapshot: SUBSET ItemEntry,  \* their items, as the cron read them
   waitlisted: BOOLEAN,
   attempt: Attempts \cup {NULL}, webhook: AttemptStatus,  \* of handleWebhook
   purchaseId: Purchases \cup {NULL}]

IdleHandler ==
  [pc |-> "idle", actor |-> NULL, dto |-> NoDto, want |-> NoBooks,
   need |-> NoBooks, own |-> {}, todo |-> {}, left |-> {},
   convert |-> {}, res |-> NULL, queue |-> {}, snapshot |-> {},
   waitlisted |-> FALSE, attempt |-> NULL, webhook |-> "none",
   purchaseId |-> NULL]

(* Uncommitted relative writes of one handler to one inventory row; "sold" *)
(* is what it takes out of the shop.                                       *)
DeltaRow == [available: Int, reserved: Int, sold: Int]
NoDelta == [w \in Rows |-> [available |-> 0, reserved |-> 0, sold |-> 0]]

DbInit ==
  /\ inventory = [w \in Rows |-> [available |-> OpeningStock[w], reserved |-> 0]]
  /\ reservation = [r \in Reservations |-> NoReservation]
  /\ cart = [c \in Clients |-> [status |-> "active", items |-> OpeningCart[c]]]
  /\ wallet = [c \in Clients |-> 0]
  /\ ledger = [c \in Clients |-> <<>>]
  /\ voucher \in [Vouchers -> [client: Clients, isUsed: {FALSE}, expired: {FALSE}]]
  /\ purchase = [p \in Purchases |-> NoPurchase]
  /\ attempt = [a \in Attempts |-> NoAttempt]
  /\ handler = [h \in Handlers |-> IdleHandler]
  /\ delta = [h \in Handlers |-> NoDelta]
  /\ locks = [h \in Handlers |-> {}]
  /\ shelf = OpeningStock
  /\ added = OpeningCart

-----------------------------------------------------------------------------
(* Statements and transactions. *)

(* What handler h reads in an inventory row: the committed row and its own *)
(* writes.                                                                 *)
Available(h, w) == inventory[w].available + delta[h][w].available
Reserved(h, w) == inventory[w].reserved + delta[h][w].reserved

(* No other open transaction has written a row of L. *)
Lock(h, L) ==
  /\ \A other \in Handlers \ {h} : locks[other] \cap L = {}
  /\ locks' = [locks EXCEPT ![h] = @ \cup L]

(* inventory.update with relative quantities. *)
UpdateInventory(h, w, available, reserved, sold) ==
  /\ Lock(h, {<<"inventory", w>>})
  /\ delta' = [delta EXCEPT ![h][w] =
                 [available |-> @.available + available,
                  reserved |-> @.reserved + reserved,
                  sold |-> @.sold + sold]]

(* The end of a transaction: its inventory writes become visible, or are   *)
(* forgotten, and its row locks are released.                              *)
CommitInventory(h) ==
  /\ inventory' = [w \in Rows |->
                     [available |-> Available(h, w), reserved |-> Reserved(h, w)]]
  /\ shelf' = [w \in Rows |-> shelf[w] - delta[h][w].sold]
  /\ delta' = [delta EXCEPT ![h] = NoDelta]
  /\ locks' = [locks EXCEPT ![h] = {}]

DiscardInventory(h) ==
  /\ delta' = [delta EXCEPT ![h] = NoDelta]
  /\ locks' = [locks EXCEPT ![h] = {}]

(* Loops write their rows by bookId, then in the order the rows were read. *)
Before(e, f) ==
  \/ e.row[1] < f.row[1]
  \/ e.row[1] = f.row[1] /\ e.res # f.res /\ e.res < f.res
  \/ e.row[1] = f.row[1] /\ e.res = f.res /\ e.row[2] < f.row[2]

IsFirst(e, S) == e \in S /\ \A f \in S \ {e} : Before(e, f)

(* Mutant: a stock row gives all it has, needed or not.                    *)
SmallerIgnoresNeed(m, n) == n

(* Mutant: a stock row gives what is needed, in stock or not.              *)
SmallerIgnoresStock(m, n) == m

Smaller(m, n) == IF m <= n THEN m ELSE n

(* A client has one request in flight, unless it may overlap them; the     *)
(* cron is the actor NULL.                                                 *)
MayStart(h, actor) ==
  /\ handler[h].pc = "idle"
  /\ \/ actor \in Overlapping
     \/ \A other \in Handlers : handler[other].pc # "idle" => handler[other].actor # actor

Goto(h, pc) == handler' = [handler EXCEPT ![h].pc = pc]
=============================================================================
