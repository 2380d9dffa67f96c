----------------------------- MODULE Storefront -----------------------------
(***************************************************************************)
(* The shop's selling side: carts, reservations, purchases, payments and   *)
(* the wallet at work on the same tables, with admins correcting the stock,*)
(* time passing, transactions failing and handlers dying.                  *)
(***************************************************************************)
EXTENDS Cart, Reservations, Payments

(* expirationDate passes, 24 hours after the reservation was made. *)
FallDue(r) ==
  /\ reservation[r].status = "active"
  /\ ~reservation[r].due
  /\ LateExpiry \/ \A h \in Handlers : handler[h].actor # reservation[r].client
  /\ reservation' = [reservation EXCEPT ![r].due = TRUE]
  /\ UNCHANGED <<inventory, cart, wallet, ledger, voucher, purchase, attempt,
                 shelf, added, handler, delta, locks>>

(* A voucher's expiresAt passes. *)
VoucherExpires(v) ==
  /\ ~voucher[v].expired
  /\ voucher' = [voucher EXCEPT ![v].expired = TRUE]
  /\ UNCHANGED <<inventory, reservation, cart, wallet, ledger, purchase,
                 attempt, shelf, added, handler, delta, locks>>

(* stores.service.updateInventoryByStoreId: one transaction overwrites the *)
(* available quantities of some books of a store.  What is already         *)
(* reserved stays so.                                                      *)
UpdateInventoryByStoreId(s, quantity) ==
  LET written == {<<b, s>> : b \in DOMAIN quantity}
  IN
  /\ \A h \in Handlers : locks[h] \cap ({"inventory"} \X written) = {}
  /\ inventory' = [w \in Rows |->
       IF w \in written THEN [inventory[w] EXCEPT !.available = quantity[w[1]]]
       ELSE inventory[w]]
  /\ shelf' = [w \in Rows |->
       IF w \in written THEN shelf[w] + quantity[w[1]] - inventory[w].available
       ELSE shelf[w]]
  /\ UNCHANGED <<reservation, cart, wallet, ledger, voucher, purchase, attempt,
                 added, handler, delta, locks>>

(* The rows the next statement of a handler has to lock. *)
NextLocks(h) ==
  LET state == handler[h]
  IN  CASE state.pc \in {"allocateInventory", "releaseRow", "decrementInventory"}
             \/ (state.pc = "consumeReserved" /\ state.todo # {})
             -> {<<"inventory", e.row>> : e \in {f \in state.todo : IsFirst(f, state.todo)}}
        [] state.pc = "consumeReserved" /\ state.todo = {}
             -> RewriteLocks(state.left)
        [] state.pc = "release" /\ state.todo = {} -> {<<"reservation", state.res>>}
        [] OTHER -> {}

(* h waits in a circle of transactions, each for a row the next has locked.*)
Deadlocked(h) ==
  \E circle \in SUBSET Handlers :
    /\ h \in circle
    /\ \A g \in circle : \E other \in circle \ {g} : locks[other] \cap NextLocks(g) # {}

(* A transaction is rolled back: the cron goes on with the next one, and a *)
(* request ends with an error.                                             *)
RollBack(h) ==
  /\ handler[h].pc \in InTransaction
  /\ IF handler[h].actor = NULL THEN SkipExpired(h) ELSE Throw(h)

BreakDeadlock(h) == Deadlocked(h) /\ RollBack(h)

(* Prisma's timeout, or a lost connection, at any statement. *)
Abort(h) == Faults /\ RollBack(h)

(* The write that approves an attempt fails and is caught. *)
FailApprove(h) ==
  /\ Faults
  /\ handler[h].pc = "approve"
  /\ handler' = [handler EXCEPT ![h].pc = "fail"]
  /\ UNCHANGED <<dbVars, delta, locks>>

(* The process restarts: the handler is gone and its transaction with it.  *)
Die(h) ==
  /\ Faults
  /\ handler[h].pc # "idle"
  /\ Reject(h)

Environment ==
  \/ \E r \in Reservations : FallDue(r)
  \/ \E v \in Vouchers : VoucherExpires(v)
  \/ \E s \in Stores, books \in (SUBSET Books) \ {{}} :
       \E quantity \in [books -> Stocks] : UpdateInventoryByStoreId(s, quantity)
  \/ \E c \in Clients, amount \in TopUpAmounts : TopUp(c, amount)
  \/ \E h \in Handlers : Abort(h) \/ FailApprove(h) \/ Die(h)

(* A handler takes up a request, a webhook or a tick of the cron ... *)
Request(h) ==
  CartRequest(h) \/ ReservationRequest(h) \/ PurchaseRequest(h) \/ PaymentRequest(h)

(* ... and executes the next statement of it. *)
Step(h) ==
  \/ CartStep(h)
  \/ ReservationStep(h)
  \/ PurchaseStep(h)
  \/ PaymentStep(h)
  \/ BreakDeadlock(h)

Next ==
  \/ \E h \in Handlers : Request(h) \/ Step(h)
  \/ Environment

Spec == DbInit /\ [][Next]_vars

(* Node runs every handler that can go on, and PostgreSQL grants a row lock*)
(* to those that wait for it in turn: strong fairness of each handler's    *)
(* steps.  The cron has its own timer and does not compete with requests   *)
(* for the handlers of the model: strong fairness of its ticks.  Nobody is *)
(* obliged to send a request or a webhook, and nothing has to go wrong.    *)
Fairness ==
  /\ \A h \in Handlers : SF_vars(Step(h))
  /\ SF_vars(\E h \in Handlers : StartExpireCron(h))

FairSpec == Spec /\ Fairness

-----------------------------------------------------------------------------
TypeOK ==
  /\ inventory \in [Rows -> InventoryRow]
  /\ reservation \in [Reservations -> ReservationRow]
  /\ cart \in [Clients -> CartRow]
  /\ wallet \in [Clients -> Int]
  /\ ledger \in [Clients -> Seq(Movement)]
  /\ voucher \in [Vouchers -> VoucherRow]
  /\ purchase \in [Purchases -> PurchaseRow]
  /\ attempt \in [Attempts -> AttemptRow]
  /\ handler \in [Handlers -> HandlerState]
  /\ delta \in [Handlers -> [Rows -> DeltaRow]]
  /\ locks \in [Handlers -> SUBSET Lockable]
  /\ shelf \in [Rows -> Int]
  /\ added \in [Clients -> [Books -> Nat]]

(* Copies of row w in the items of active reservations. *)
ReservedBy(w) ==
  SumFunction([r \in Reservations |->
                 IF reservation[r].status = "active" THEN reservation[r].items[w] ELSE 0])

Sold == {p \in Purchases : purchase[p] # NoPurchase}

(* The rows of client c's ledger that pay for purchase p. *)
PaymentsFor(p) ==
  LET c == purchase[p].client
  IN  {i \in DOMAIN ledger[c] : ledger[c][i].type = "payment"
                                 /\ ledger[c][i].purchaseId = p}

(* The rows of the ledgers that carry the reference of attempt a. *)
PaymentsWith(a) ==
  {x \in Clients \X (1 .. Cardinality(Purchases) + MaxMovements) :
     x[2] \in DOMAIN ledger[x[1]] /\ ledger[x[1]][x[2]].gatewayReference = a}

-----------------------------------------------------------------------------
(* Safety that holds however requests overlap, time passes and transactions*)
(* fail.                                                                   *)

(* Every copy that stands in a store is either available or reserved there,*)
(* whatever stale quantities the handlers read: createReservation,         *)
(* cancelReservation, the cron and the purchase only move copies between   *)
(* the two columns, or out of the store, all of a transaction or nothing.  *)
CopiesConserved ==
  \A w \in Rows : inventory[w].available + inventory[w].reserved = shelf[w]

(* A committed purchase took from the stores exactly the copies that it    *)
(* sells, partly from the client's reservations and partly from stock; only*)
(* a pickup on the waiting list may be short of some.                      *)
SoldAsBought ==
  \A p \in Sold, b \in Books :
    LET taken == SumFunction([s \in Stores |-> purchase[p].taken[<<b, s>>]])
    IN  IF purchase[p].waitlisted THEN taken <= purchase[p].items[b]
        ELSE taken = purchase[p].items[b]

(* Purchase and payment are one transaction: every purchase is paid by one *)
(* movement of its client's ledger, of the purchase's total.               *)
PaidExactlyOnce ==
  \A p \in Sold :
    \E i \in PaymentsFor(p) :
      /\ PaymentsFor(p) = {i}
      /\ ledger[purchase[p].client][i].amount = purchase[p].total

(* What the i-th movement of client c's ledger leaves unexplained: the     *)
(* balance after it, less the balance before it moved by its amount.       *)
Discrepancy(c, i) ==
  LET m == ledger[c][i]
      before == IF i = 1 THEN 0 ELSE ledger[c][i - 1].balanceAfter
  IN  m.balanceAfter - (IF m.type = "payment" THEN before - m.amount ELSE before + m.amount)

(* The ledger explains the wallet: the last movement's balanceAfter is the *)
(* balance, and each one is the balance before it moved by the amount, but *)
(* for a cent, as balance and amount are rounded apart.  It is what the    *)
(* relative update of recordMovement buys under READ COMMITTED.            *)
LedgerExplainsWallet ==
  \A c \in Clients :
    /\ wallet[c] = IF ledger[c] = <<>> THEN 0 ELSE ledger[c][Len(ledger[c])].balanceAfter
    /\ \A i \in DOMAIN ledger[c] : Discrepancy(c, i) \in -1..1

(* No read is checked again when its copies are taken, so a stock row may  *)
(* be overdrawn, but not by more than the handlers that may have read it   *)
(* before the others took its copies: each takes the copies of one order.  *)
(* A handler reads a row before it takes from it, so one of them found what*)
(* it takes; where an admin may write the row at any time, none need have. *)
StaleReaders == IF Stocks = {} THEN Cardinality(Handlers) - 1 ELSE Cardinality(Handlers)

OversellIsBounded ==
  \A w \in Rows : inventory[w].available >= -(StaleReaders * MaxCopies)

-----------------------------------------------------------------------------
(* Safety that needs each client to have one request in flight, and        *)
(* reservations not to fall due under a running request (Overlapping = {}  *)
(* and ~LateExpiry).                                                       *)

(* The reserved copies of a stock row are those of the active reservations *)
(* that hold it: every way out of "active" gives them back or sells them,  *)
(* once.                                                                   *)
ReservedIsBacked == \A w \in Rows : inventory[w].reserved = ReservedBy(w)

(* assertClientActiveReservationLimits, of what is stored and not of what  *)
(* was read.                                                               *)
ReservationLimits ==
  \A c \in Clients :
    /\ Cardinality({b \in Books : HeldCopies(c, b) > 0}) <= MaxDifferentBooks
    /\ \A b \in Books : HeldCopies(c, b) <= MaxCopies

(* A reservation that was cancelled, expired or converted stays so. *)
SettledStaysSettled ==
  [][\A r \in Reservations :
       reservation[r].status \in {"cancelled", "expired", "converted"}
         => reservation'[r].status = reservation[r].status]_reservation

(* A copy put in a cart is bought once, however often the cart is bought,  *)
(* emptied, marked processed and filled again: of requests of a client that*)
(* follow one another, beside those of others, none finds in the cart what *)
(* one before it bought, and one that failed or died has bought nothing.   *)
CartBoughtOnce ==
  \A c \in Clients, b \in Books :
    SumFunction([p \in Purchases |->
                   IF purchase[p].client = c THEN purchase[p].items[b] ELSE 0])
      + cart[c].items[b] <= added[c][b]

(* A checkout empties the cart of what it sells, and of nothing else: no   *)
(* book put in while it ran is lost, none taken out is sold.  So it is for *)
(* a client with one request at a time; no run checks it, because the code *)
(* breaks it for one with two (the cart's items are all deleted).          *)
CheckoutTakesTheCart ==
  [][\A p \in Purchases :
       purchase[p] = NoPurchase /\ purchase'[p] # NoPurchase
         => cart[purchase'[p].client].items = purchase'[p].items]_purchase

(* A voucher discounts one purchase of those a client makes one after      *)
(* another, whatever became of the requests between them.                  *)
VoucherUsedOnce ==
  \A v \in Vouchers : Cardinality({p \in Sold : purchase[p].voucher = v}) <= 1

-----------------------------------------------------------------------------
(* What the shop says of its stock, and the code breaks when two requests  *)
(* overlap: no stock row is overdrawn.  OversellIsBounded says what holds. *)
NoOversell ==
  \A w \in Rows : inventory[w].available >= 0 /\ inventory[w].reserved >= 0

-----------------------------------------------------------------------------
(* Payments. *)

(* The claim makes a payment attempt buy at most once, however often and   *)
(* in whatever order its webhooks arrive.                                  *)
AttemptBuysOnce == \A a \in Attempts : Cardinality(PaymentsWith(a)) <= 1

(* An approved attempt names a purchase of its snapshot, paid with its     *)
(* reference, and of the amount the client was asked for, but for the cent *)
(* that initiatePayment may round away before it takes off a discount.     *)
ApprovedIsBought ==
  \A a \in Attempts :
    attempt[a].status = "approved" =>
      LET p == attempt[a].purchaseId
      IN  /\ p \in Sold
          /\ purchase[p].client = attempt[a].client
          /\ purchase[p].items = attempt[a].items
          /\ purchase[p].total - attempt[a].amount \in -1..1
          /\ \E i \in PaymentsFor(p) :
               ledger[purchase[p].client][i].gatewayReference = a

(* An attempt that ended without approval charged nothing.  No run checks  *)
(* it, because the code breaks it: a webhook that rejects an attempt and   *)
(* has read it before another one claimed it overwrites the approval.      *)
RejectedIsNotCharged ==
  \A a \in Attempts :
    attempt[a].status \in {"failed", "cancelled", "expired"} => PaymentsWith(a) = {}

-----------------------------------------------------------------------------
(* Liveness, under Fairness and without faults. *)

(* Every request, webhook and tick of the cron ends: no handler waits for  *)
(* a row lock for ever, and the loops over stock rows and items terminate. *)
RequestsEnd == \A h \in Handlers : handler[h].pc # "idle" ~> handler[h].pc = "idle"

(* A reservation that fell due stops being active: the cron can always give*)
(* its copies back.                                                        *)
DueReservationsEnd ==
  \A r \in Reservations :
    reservation[r].status = "active" /\ reservation[r].due
      ~> reservation[r].status # "active"

(* A payment attempt that was claimed is settled. *)
ClaimsAreSettled ==
  \A a \in Attempts :
    attempt[a].status = "processing"
      ~> attempt[a].status \in {"approved", "failed", "cancelled", "expired"}

-----------------------------------------------------------------------------
(* What the proofs of TypeOK, CopiesConserved and LedgerExplainsWallet rest*)
(* on: an invariant that every step preserves.                             *)

(* What a handler's place in the code says of its variables and of its     *)
(* uncommitted writes d: who it works for, how large its cart may be, and  *)
(* that what it moves it moves from one column to another, or out of the   *)
(* store.                                                                  *)
Coherent(state, d) ==
  /\ state.pc \in {"ensureActiveCart", "emptyCart", "activateCart", "findItem",
                   "writeItem", "removeItem", "assertInventoryAvailability",
                   "allocateInventory"} => state.actor \in Clients
  /\ state.pc = "claim" => state.attempt \in Attempts
  /\ state.pc \in {"writeItem", "recheckCart", "getReservedQuantities",
                   "validateInventory", "readReserved", "consumeReserved",
                   "createRecord", "readInventory", "decrementInventory"}
       => state.want \in [Books -> 0..MaxCopies]
  /\ state.pc = "consumeReserved" => state.todo \subseteq ItemEntry
  /\ state.pc \notin InTransaction => d = NoDelta
  /\ state.pc = "allocateInventory" => \A w \in Rows : d[w].reserved >= 0
  /\ \A w \in Rows : d[w].available + d[w].reserved + d[w].sold = 0

IInv ==
  /\ TypeOK
  /\ CopiesConserved
  /\ LedgerExplainsWallet
  /\ \A h \in Handlers : Coherent(handler[h], delta[h])
=============================================================================
