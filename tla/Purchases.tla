------------------------------ MODULE Purchases ------------------------------
(***************************************************************************)
(* purchases.service.ts: a purchase turns a cart into an order.  The cart  *)
(* is read first; one transaction then checks the stock, uses up the       *)
(* client's own reservations, takes the rest from the stores, charges the  *)
(* wallet, burns the voucher and empties the cart.                         *)
(***************************************************************************)
EXTENDS Wallet

CONSTANT TaxPercent, DiscountPercent  \* 21, and the discountPercentage of a voucher

ASSUME PercentagesAreNatural == TaxPercent \in Nat /\ DiscountPercent \in 0..99

(* The price of a cart with tax, and with the discount of a voucher; always*)
(* positive, since prices are.                                             *)
PercentLeft(voucherCode) == IF voucherCode = NULL THEN 100 ELSE 100 - DiscountPercent

Subtotal(items) == SumFunction([b \in Books |-> items[b] * UnitPrice[b]])

TotalAmount(items, voucherCode) ==
  Subtotal(items) * (100 + TaxPercent) * PercentLeft(voucherCode)

(* Mutant: nothing catches what the purchase of a webhook throws.          *)
FailedForgotten(state) == IdleHandler

(* Mutant: what the purchase of a webhook throws is swallowed.             *)
FailedSwallowed(state) ==
  IF state.attempt = NULL THEN IdleHandler
  ELSE [IdleHandler EXCEPT !.pc = "approve", !.actor = state.actor,
                           !.attempt = state.attempt, !.webhook = state.webhook]

(* The end of a request that throws: a webhook's handler goes on to mark   *)
(* its payment attempt failed.                                             *)
Failed(state) ==
  IF state.attempt = NULL THEN IdleHandler
  ELSE [IdleHandler EXCEPT !.pc = "fail", !.actor = state.actor,
                           !.attempt = state.attempt, !.webhook = state.webhook]

(* A purchase that commits; the webhook's handler has still to approve its *)
(* payment attempt, with this purchase.                                    *)
Completed(state, p) ==
  IF state.attempt = NULL THEN IdleHandler
  ELSE [IdleHandler EXCEPT !.pc = "approve", !.actor = state.actor,
                           !.attempt = state.attempt, !.webhook = state.webhook,
                           !.purchaseId = p]

Throw(h) ==
  /\ handler' = [handler EXCEPT ![h] = Failed(@)]
  /\ DiscardInventory(h)
  /\ UNCHANGED dbVars

(* Mutant: reservations that are no longer active are used too.            *)
UsableItemsOfAnyStatus(h) ==
  {[res |-> x[1], row |-> x[2], cap |-> reservation[x[1]].items[x[2]]] :
     x \in {y \in Reservations \X Rows :
              /\ reservation[y[1]].client = handler[h].actor
              /\ reservation[y[1]].items[y[2]] > 0
              /\ handler[h].want[y[2][1]] > 0}}

(* The items of the client's reservations a purchase may use: active, not  *)
(* due, and of the pickup store when the body names one.                   *)
UsableItems(h) ==
  LET c == handler[h].actor
      store == handler[h].dto.pickupStoreId
  IN  {[res |-> x[1], row |-> x[2], cap |-> reservation[x[1]].items[x[2]]] :
         x \in {y \in Reservations \X Rows :
                  /\ reservation[y[1]].client = c
                  /\ reservation[y[1]].status = "active"
                  /\ ~reservation[y[1]].due
                  /\ reservation[y[1]].items[y[2]] > 0
                  /\ handler[h].want[y[2][1]] > 0
                  /\ store # NULL => y[2][2] = store}}

(* The stock rows with copies of the books in "need" that the purchase may *)
(* take from.                                                              *)
StockRows(h, need) ==
  {w \in Rows : /\ need[w[1]] > 0
                /\ Available(h, w) > 0
                /\ handler[h].dto.deliveryMode = "storePickup"
                     => w[2] = handler[h].dto.pickupStoreId}

-----------------------------------------------------------------------------
(* createPurchase. *)

(* Bound: a purchase starts only while there is an id left for it.         *)
PurchaseIdLeft ==
  Cardinality({p \in Purchases : purchase[p] = NoPurchase}) >
  Cardinality({h \in Handlers :
                 handler[h].pc \in {"claim", "recheckCart",
                   "getReservedQuantities", "validateInventory", "readReserved", "consumeReserved",
                   "createRecord", "readInventory", "decrementInventory"}})

(* The cart and its items are read, and the request fails unless the cart  *)
(* is active and has items.                                                *)
StartPurchase(h, c, dto) ==
  /\ MayStart(h, c)
  /\ PurchaseIdLeft
  /\ cart[c].status = "active"
  /\ cart[c].items # NoBooks
  /\ handler' = [handler EXCEPT ![h] =
       [IdleHandler EXCEPT !.pc = "recheckCart", !.actor = c, !.dto = dto,
                           !.want = cart[c].items]]
  /\ UNCHANGED <<dbVars, delta, locks>>

(* createPurchaseFromCartItems reads the cart again, before its transaction.*)
RecheckCart(h) ==
  /\ handler[h].pc = "recheckCart"
  /\ IF cart[handler[h].actor].status = "active" /\ handler[h].want # NoBooks
     THEN Goto(h, "getReservedQuantities")
     ELSE handler' = [handler EXCEPT ![h] = Failed(@)]
  /\ UNCHANGED <<dbVars, delta, locks>>

(* The start of validatePurchaseInventory: at most MaxCopies of a book,    *)
(* and getReservedQuantitiesForClient.                                     *)
GetReservedQuantities(h) ==
  /\ handler[h].pc = "getReservedQuantities"
  /\ IF \E b \in Books : handler[h].want[b] > MaxCopies
     THEN Throw(h)
     ELSE /\ handler' = [handler EXCEPT ![h].pc = "validateInventory",
                                        ![h].own = UsableItems(h)]
          /\ UNCHANGED <<dbVars, delta, locks>>

(* The rest of validatePurchaseInventory: stock and own reservations must  *)
(* cover the cart, or the client accepts to wait for a pickup.             *)
ValidateInventory(h) ==
  LET want == handler[h].want
      dto == handler[h].dto
      pickup == dto.deliveryMode = "storePickup"
      rows == StockRows(h, want)
      onSale(b) == SumFunction([w \in {x \in rows : x[1] = b} |-> Available(h, w)])
      enough == \A b \in Books : onSale(b) + CopiesIn(handler[h].own, b) >= want[b]
  IN
  /\ handler[h].pc = "validateInventory"
  /\ IF /\ pickup => dto.pickupStoreId # NULL
        /\ enough \/ (pickup /\ dto.allowWaitlistPickup)
     THEN /\ handler' = [handler EXCEPT ![h].pc = "readReserved",
                                        ![h].waitlisted = ~enough,
                                        ![h].own = {}]
          /\ UNCHANGED <<dbVars, delta, locks>>
     ELSE Throw(h)

-----------------------------------------------------------------------------
(* consumeReservedInventoryForPurchase. *)

ReadReserved(h) ==
  /\ handler[h].pc = "readReserved"
  /\ handler' = [handler EXCEPT ![h].pc = "consumeReserved",
                                ![h].need = handler[h].want,
                                ![h].todo = UsableItems(h)]
  /\ UNCHANGED <<dbVars, delta, locks>>

(* One reservation item: its copies leave the shop.  Items of a book that  *)
(* needs no more copies are passed over.                                   *)
ConsumeItem(h) ==
  \E e \in handler[h].todo :
    LET b == e.row[1]
        take == Smaller(handler[h].need[b], e.cap)
        remaining == handler[h].need[b] - take
    IN
    /\ handler[h].pc = "consumeReserved"
    /\ IsFirst(e, handler[h].todo)
    /\ UpdateInventory(h, e.row, 0, -take, take)
    /\ handler' = [handler EXCEPT
         ![h].need[b] = remaining,
         ![h].left = @ \cup {[e EXCEPT !.cap = @ - take]},
         ![h].todo = {f \in @ \ {e} : f.row[1] = b => remaining > 0}]
    /\ UNCHANGED dbVars

(* The reservations of which the purchase leaves no item: its own rewrites *)
(* count, and so does what others have committed.                          *)
Emptied(left) ==
  {r \in {e.res : e \in left} :
     \A w \in Rows : \/ [res |-> r, row |-> w, cap |-> 0] \in left
                     \/ /\ reservation[r].items[w] = 0
                        /\ \A e \in left : <<e.res, e.row>> # <<r, w>>}

(* The rows that rewriting the items locks. *)
RewriteLocks(left) ==
  {<<"reservationItem", <<e.res, e.row>>>> : e \in left}
  \cup ({"reservation"} \X Emptied(left))

(* The items used up are deleted, the others keep what is left of what was *)
(* read; a reservation without items is converted.  Rewriting an item that *)
(* is gone throws.                                                         *)
RewriteItems(h) ==
  LET left == handler[h].left
      gone == \E e \in left : e.cap > 0 /\ reservation[e.res].items[e.row] = 0
  IN
  /\ handler[h].pc = "consumeReserved"
  /\ handler[h].todo = {}
  /\ IF gone THEN Throw(h)
     ELSE /\ Lock(h, RewriteLocks(left))
          /\ handler' = [handler EXCEPT ![h].pc = "createRecord",
                                        ![h].convert = Emptied(left)]
          /\ UNCHANGED <<dbVars, delta>>

-----------------------------------------------------------------------------
(* Mutant: used vouchers are accepted.                                     *)
VoucherIsValidTwice(v, c) == voucher[v].client = c /\ ~voucher[v].expired

(* The voucher is read; it must be the client's, unused and not expired.   *)
VoucherIsValid(v, c) ==
  voucher[v].client = c /\ ~voucher[v].isUsed /\ ~voucher[v].expired

CreateRecord(h) ==
  LET v == handler[h].dto.voucherCode
  IN
  /\ handler[h].pc = "createRecord"
  /\ IF v # NULL /\ ~VoucherIsValid(v, handler[h].actor)
     THEN Throw(h)
     ELSE Goto(h, "readInventory") /\ UNCHANGED <<dbVars, delta, locks>>

(* What the reservations did not cover is taken from stock.                *)
ReadInventory(h) ==
  /\ handler[h].pc = "readInventory"
  /\ handler' = [handler EXCEPT
       ![h].pc = "decrementInventory",
       ![h].todo = {[res |-> NULL, row |-> w, cap |-> Available(h, w)] :
                      w \in StockRows(h, handler[h].need)}]
  /\ UNCHANGED <<dbVars, delta, locks>>

DecrementInventory(h) ==
  \E e \in handler[h].todo :
    LET b == e.row[1]
        take == Smaller(handler[h].need[b], e.cap)
        remaining == handler[h].need[b] - take
    IN
    /\ handler[h].pc = "decrementInventory"
    /\ IsFirst(e, handler[h].todo)
    /\ UpdateInventory(h, e.row, -take, 0, take)
    /\ handler' = [handler EXCEPT
         ![h].need[b] = remaining,
         ![h].todo = {f \in @ \ {e} : f.row[1] = b => remaining > 0}]
    /\ UNCHANGED dbVars

(* Mutant: partial shipments are allowed for every purchase.               *)
MayShipPartially(h) == TRUE

(* Copies that are missing fail the purchase, unless it joined the waiting *)
(* list of a pickup.                                                       *)
MayShip(h) ==
  \/ handler[h].need = NoBooks
  \/ handler[h].waitlisted /\ handler[h].dto.deliveryMode = "storePickup"

FailShipment(h) ==
  /\ handler[h].pc = "decrementInventory"
  /\ handler[h].todo = {}
  /\ ~MayShip(h)
  /\ Throw(h)

(* Mutant: the purchase leaves the cart as it is.                          *)
BoughtCartStays(c) == cart

(* The client's cart, marked processed and without its items. *)
BoughtCart(c) == [cart EXCEPT ![c] = [status |-> "processed", items |-> NoBooks]]

(* Wallet, cart, voucher and cart items are written and the transaction    *)
(* commits.  None of these writes looks at what the row holds.             *)
CommitPurchase(h) ==
  \E p \in Purchases :
    LET c == handler[h].actor
        want == handler[h].want
        v == handler[h].dto.voucherCode
        left == handler[h].left
        amount == TotalAmount(want, v)
        itemsOf(r) == [w \in Rows |->
                         IF \E e \in left : e.res = r /\ e.row = w
                         THEN (CHOOSE e \in left : e.res = r /\ e.row = w).cap
                         ELSE reservation[r].items[w]]
    IN
    /\ handler[h].pc = "decrementInventory"
    /\ handler[h].todo = {}
    /\ MayShip(h)
    /\ purchase[p] = NoPurchase
    /\ \A q \in Purchases : purchase[q] = NoPurchase => p <= q
    /\ RecordMovement(c, "payment", amount, p, handler[h].attempt)
    /\ purchase' = [purchase EXCEPT ![p] =
         [client |-> c, items |-> want, total |-> ToCents(amount), voucher |-> v,
          waitlisted |-> handler[h].waitlisted,
          taken |-> [w \in Rows |-> delta[h][w].sold]]]
    /\ reservation' = [r \in Reservations |->
         [reservation[r] EXCEPT
            !.items = itemsOf(r),
            !.status = IF r \in handler[h].convert THEN "converted" ELSE @]]
    /\ cart' = BoughtCart(c)
    /\ voucher' = IF v = NULL THEN voucher
                  ELSE [voucher EXCEPT ![v].isUsed = TRUE]
    /\ CommitInventory(h)
    /\ handler' = [handler EXCEPT ![h] = Completed(@, p)]
    /\ UNCHANGED <<attempt, added>>

PurchaseRequest(h) ==
  \E c \in Clients, dto \in PurchaseDtos : StartPurchase(h, c, dto)

PurchaseStep(h) ==
  \/ RecheckCart(h)
  \/ GetReservedQuantities(h)
  \/ ValidateInventory(h)
  \/ ReadReserved(h)
  \/ ConsumeItem(h)
  \/ RewriteItems(h)
  \/ CreateRecord(h)
  \/ ReadInventory(h)
  \/ DecrementInventory(h)
  \/ FailShipment(h)
  \/ CommitPurchase(h)
=============================================================================
