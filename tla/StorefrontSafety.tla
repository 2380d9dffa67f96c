-------------------------- MODULE StorefrontSafety --------------------------
(***************************************************************************)
(* Proofs of what the shop promises its clients.                           *)
(***************************************************************************)
EXTENDS StorefrontProofs

-----------------------------------------------------------------------------
(* What a step does to the handlers.                                       *)

(* Where a handler works on a cart, on a reservation, on a purchase, and on*)
(* a payment attempt.                                                      *)
AtCart == {"ensureActiveCart", "emptyCart", "activateCart", "findItem", "writeItem",
           "removeItem"}
Reserving == {"assertInventoryAvailability", "allocateInventory"}
Releasing == {"release", "releaseRow"}
Buying == {"recheckCart", "getReservedQuantities", "validateInventory", "readReserved",
           "consumeReserved", "createRecord", "readInventory", "decrementInventory"}
Taking == {"consumeReserved", "createRecord", "readInventory", "decrementInventory"}
Paying == {"claim", "overwrite", "approve", "fail", "createCheckoutSession"}

(* The step is h's: the other handlers and their transactions stay.        *)
Only(h) ==
  \A g \in Handlers \ {h} : handler'[g] = handler[g] /\ delta'[g] = delta[g]

(* h goes on with the same request. *)
Continues(h) ==
  /\ handler'[h].actor = handler[h].actor
  /\ handler'[h].attempt = handler[h].attempt
  /\ handler'[h].webhook = handler[h].webhook

(* h takes up a request that is not about a payment, goes on with the one  *)
(* it has, or is done.                                                     *)
Follows(h) ==
  \/ MayStart(h, handler'[h].actor) /\ handler'[h].attempt = NULL
  \/ handler[h].pc # "idle" /\ Continues(h)
  \/ handler'[h] = IdleHandler

(* A statement of a cart's request.                                        *)
LEMMA CartShape ==
  ASSUME IInv, IInv', NEW h \in Handlers, CartRequest(h) \/ CartStep(h)
  PROVE  /\ Only(h) /\ Follows(h)
         /\ handler[h].pc \in AtCart \cup {"idle"}
         /\ handler'[h].pc \in AtCart \cup {"idle"}
         /\ UNCHANGED <<inventory, reservation, wallet, ledger, voucher, purchase,
                        attempt, shelf, delta, locks>>
<1> USE DEF Only, Follows, Continues, AtCart, MayStart
<1>1. handler \in [Handlers -> HandlerState] /\ delta \in [Handlers -> [Rows -> DeltaRow]]
  BY DEF IInv, TypeOK
<1>2. ASSUME NEW c \in Clients, NEW b \in Books, NEW quantity,
             \/ StartAddItem(h, c, b, quantity)
             \/ StartUpdateItem(h, c, b, quantity)
             \/ StartRemoveItem(h, c, b)
      PROVE  /\ Only(h) /\ Follows(h)
             /\ handler[h].pc = "idle" /\ handler'[h].pc \in AtCart
             /\ UNCHANGED <<inventory, reservation, wallet, ledger, voucher, purchase,
                            attempt, shelf, delta, locks>>
  <2>1. CASE StartAddItem(h, c, b, quantity)
    BY <1>1, <2>1 DEF StartAddItem, IdleHandler, dbVars
  <2>2. CASE StartUpdateItem(h, c, b, quantity)
    BY <1>1, <2>2 DEF StartUpdateItem, IdleHandler, dbVars
  <2>3. CASE StartRemoveItem(h, c, b)
    BY <1>1, <2>3 DEF StartRemoveItem, IdleHandler, dbVars
  <2> QED  BY <1>2, <2>1, <2>2, <2>3
<1>3. CASE EnsureActiveCart(h)
  BY <1>1, <1>3 DEF EnsureActiveCart, Goto, HandlerState, dbVars
<1>4. CASE EmptyCart(h)
  BY <1>1, <1>4 DEF EmptyCart, WriteCart, HandlerState
<1>5. CASE ActivateCart(h)
  BY <1>1, <1>5 DEF ActivateCart, WriteCart, HandlerState
<1>6. CASE FindItem(h)
  BY <1>1, <1>6 DEF FindItem, HandlerState, IdleHandler, dbVars
<1>7. CASE WriteItem(h)
  <2>1. handler[h].pc = "writeItem" /\ \E row : WriteCart(h, row, IdleHandler)
    BY <1>7 DEF WriteItem
  <2> QED  BY <1>1, <2>1 DEF WriteCart, IdleHandler
<1>8. CASE RemoveItem(h)
  BY <1>1, <1>8 DEF RemoveItem, WriteCart, HandlerState, IdleHandler
<1> QED  BY <1>2, <1>3, <1>4, <1>5, <1>6, <1>7, <1>8 DEF CartStep, CartRequest

(* The cron, when it goes on.                                              *)
LEMMA NextExpiredShape ==
  ASSUME NEW s \in HandlerState
  PROVE  \/ NextExpired(s) = IdleHandler
         \/ /\ NextExpired(s).pc = "release"
            /\ NextExpired(s).actor = s.actor
            /\ NextExpired(s).attempt = s.attempt
            /\ NextExpired(s).webhook = s.webhook
BY DEF NextExpired, HandlerState

(* A statement of a reservation, a cancellation or a tick of the cron.     *)
LEMMA ReservationShape ==
  ASSUME IInv, IInv', NEW h \in Handlers,
         \/ ReservationRequest(h) \/ ReservationStep(h) \/ Reject(h)
         \/ handler[h].pc \in Reserving \cup Releasing /\ SkipExpired(h)
  PROVE  /\ Only(h) /\ Follows(h)
         /\ handler[h].pc \in Reserving \cup Releasing \cup {"idle"}
              \/ handler'[h] = IdleHandler
         /\ handler'[h].pc \in Reserving \cup Releasing \cup {"idle"}
         /\ UNCHANGED <<cart, wallet, ledger, voucher, purchase, attempt, added>>
<1> USE DEF Only, Follows, Continues, Reserving, Releasing, MayStart
<1>1. handler \in [Handlers -> HandlerState] /\ delta \in [Handlers -> [Rows -> DeltaRow]]
  BY DEF IInv, TypeOK
<1>2. handler[h] \in HandlerState
  BY <1>1
<1>3. ASSUME NEW c \in Clients, NEW want \in ReserveOrders, StartReservation(h, c, want)
      PROVE  /\ Only(h) /\ Follows(h) /\ handler[h].pc = "idle"
             /\ handler'[h].pc = "assertInventoryAvailability"
             /\ UNCHANGED <<cart, wallet, ledger, voucher, purchase, attempt, added>>
  BY <1>1, <1>3 DEF StartReservation, IdleHandler, dbVars
<1>4. ASSUME NEW c \in Clients, NEW r \in Reservations, StartCancel(h, c, r)
      PROVE  /\ Only(h) /\ Follows(h) /\ handler[h].pc = "idle"
             /\ handler'[h].pc = "release"
             /\ UNCHANGED <<cart, wallet, ledger, voucher, purchase, attempt, added>>
  BY <1>1, <1>4 DEF StartCancel, IdleHandler, dbVars
<1>5. CASE StartExpireCron(h)
  <2> DEFINE snapshot == UNION {ItemsOf(r) : r \in ExpiredReservations}
             s == [IdleHandler EXCEPT !.queue = ExpiredReservations, !.snapshot = snapshot]
  <2>1. /\ MayStart(h, NULL) /\ handler' = [handler EXCEPT ![h] = NextExpired(s)]
        /\ UNCHANGED <<dbVars, delta, locks>>
    BY <1>5 DEF StartExpireCron
  <2>2. \/ NextExpired(s) = IdleHandler
        \/ /\ NextExpired(s).pc = "release" /\ NextExpired(s).actor = NULL
           /\ NextExpired(s).attempt = NULL
    BY DEF NextExpired, IdleHandler
  <2> HIDE DEF s
  <2> QED  BY <1>1, <2>1, <2>2 DEF dbVars, IdleHandler
<1>6. CASE AssertInventoryAvailability(h)
  BY <1>1, <1>6 DEF AssertInventoryAvailability, HandlerState, IdleHandler, dbVars
<1>7. CASE ReadAllocation(h)
  BY <1>1, <1>7 DEF ReadAllocation, HandlerState, dbVars
<1>8. CASE AllocateRow(h)
  BY <1>1, <1>8 DEF AllocateRow, UpdateInventory, HandlerState, dbVars
<1>9. CASE Reject(h)
  BY <1>1, <1>9 DEF Reject, DiscardInventory, IdleHandler, dbVars
<1>10. CASE CreateReservation(h)
  BY <1>1, <1>10 DEF CreateReservation, CommitInventory, IdleHandler
<1>11. CASE ReadRelease(h)
  BY <1>1, <1>11 DEF ReadRelease, Goto, HandlerState, dbVars
<1>12. CASE ReleaseRow(h)
  BY <1>1, <1>12 DEF ReleaseRow, UpdateInventory, HandlerState, dbVars
<1>13. CASE FinishCancel(h)
  BY <1>1, <1>13 DEF FinishCancel, Close, CommitInventory, IdleHandler
<1>14. CASE FinishExpire(h)
  BY <1>1, <1>2, <1>14, NextExpiredShape
     DEF FinishExpire, Close, CommitInventory, IdleHandler
<1>15. CASE handler[h].pc \in Reserving \cup Releasing /\ SkipExpired(h)
  BY <1>1, <1>2, <1>15, NextExpiredShape DEF SkipExpired, DiscardInventory, IdleHandler, dbVars
<1>16. CASE FailAllocation(h) \/ FailRelease(h) \/ FailExpire(h)
  BY <1>9, <1>15, <1>16 DEF FailAllocation, FailRelease, FailExpire
<1> QED  BY <1>3, <1>4, <1>5, <1>6, <1>7, <1>8, <1>9, <1>10, <1>11, <1>12, <1>13, <1>14,
            <1>15, <1>16 DEF ReservationRequest, ReservationStep

-----------------------------------------------------------------------------
(* A purchase goes on, is rolled back, or commits. *)
GoesOnBuying(h) ==
  /\ handler[h].pc \in Buying /\ handler'[h].pc \in Buying
  /\ Continues(h)
  /\ handler'[h].dto = handler[h].dto
  /\ handler'[h].want = handler[h].want
  /\ UNCHANGED dbVars

Fails(h) ==
  /\ handler'[h] = Failed(handler[h]) /\ delta'[h] = NoDelta
  /\ UNCHANGED dbVars

(* What a purchase that throws goes on with: nothing, or the catch block.  *)
LEMMA FailedPlace ==
  ASSUME NEW s
  PROVE  Failed(s).pc \in {"fail", "idle"} /\ IdleHandler.pc = "idle"
<1>1. IdleHandler.pc = "idle"
  BY DEF IdleHandler
<1>2. [IdleHandler EXCEPT !.pc = "fail", !.actor = s.actor,
                          !.attempt = s.attempt, !.webhook = s.webhook].pc = "fail"
  BY DEF IdleHandler
<1> QED  BY <1>1, <1>2 DEF Failed

(* What a purchase that throws leaves.                                     *)
LEMMA ThrowShape ==
  ASSUME IInv, NEW h \in Handlers, Throw(h)
  PROVE  Only(h) /\ Fails(h)
<1>1. handler \in [Handlers -> HandlerState] /\ delta \in [Handlers -> [Rows -> DeltaRow]]
  BY DEF IInv, TypeOK
<1> QED  BY <1>1 DEF Throw, DiscardInventory, Only, Fails

(* A statement of a purchase.                                              *)
LEMMA PurchaseShape ==
  ASSUME IInv, NEW h \in Handlers, PurchaseStep(h)
  PROVE  /\ Only(h) /\ handler[h].pc \in Buying
         /\ GoesOnBuying(h) \/ Fails(h) \/ CommitPurchase(h)
<1> USE DEF Only, GoesOnBuying, Continues, Buying
<1>1. handler \in [Handlers -> HandlerState] /\ delta \in [Handlers -> [Rows -> DeltaRow]]
  BY DEF IInv, TypeOK
<1>2. CASE RecheckCart(h)
  <2>1. delta[h] = NoDelta
    BY <1>2, FieldTypes DEF RecheckCart, Coherent, InTransaction
  <2> QED  BY <1>1, <1>2, <2>1 DEF RecheckCart, Goto, Fails, HandlerState
<1>3. CASE GetReservedQuantities(h)
  BY <1>1, <1>3, ThrowShape DEF GetReservedQuantities, HandlerState
<1>4. CASE ValidateInventory(h)
  <2>1. CASE Throw(h)
    BY <1>4, <2>1, ThrowShape DEF ValidateInventory
  <2>2. CASE ~Throw(h)
    <3>1. PICK waitlisted :
            /\ handler[h].pc = "validateInventory"
            /\ handler' = [handler EXCEPT ![h].pc = "readReserved",
                                          ![h].waitlisted = waitlisted, ![h].own = {}]
            /\ UNCHANGED <<dbVars, delta, locks>>
      BY <1>4, <2>2 DEF ValidateInventory
    <3> QED  BY <1>1, <3>1 DEF HandlerState
  <2> QED  BY <2>1, <2>2
<1>5. CASE ReadReserved(h)
  BY <1>1, <1>5, SMTT(30) DEF ReadReserved, HandlerState
<1>6. CASE ConsumeItem(h)
  BY <1>1, <1>6 DEF ConsumeItem, UpdateInventory, HandlerState
<1>7. CASE RewriteItems(h)
  BY <1>1, <1>7, ThrowShape DEF RewriteItems, HandlerState
<1>8. CASE CreateRecord(h)
  BY <1>1, <1>8, ThrowShape DEF CreateRecord, Goto, HandlerState
<1>9. CASE ReadInventory(h)
  BY <1>1, <1>9 DEF ReadInventory, HandlerState
<1>10. CASE DecrementInventory(h)
  BY <1>1, <1>10 DEF DecrementInventory, UpdateInventory, HandlerState
<1>11. CASE FailShipment(h)
  BY <1>11, ThrowShape, Zenon DEF FailShipment
<1>12. CASE CommitPurchase(h)
  BY <1>1, <1>12, ZenonT(60) DEF CommitPurchase, CommitInventory
<1> QED  BY <1>2, <1>3, <1>4, <1>5, <1>6, <1>7, <1>8, <1>9, <1>10, <1>11, <1>12
         DEF PurchaseStep

(* createPurchase starts.                                                  *)
LEMMA PurchaseRequestShape ==
  ASSUME IInv, NEW h \in Handlers, PurchaseRequest(h)
  PROVE  /\ Only(h) /\ handler[h].pc = "idle" /\ Follows(h)
         /\ handler'[h].pc = "recheckCart" /\ handler'[h].actor \in Clients
         /\ handler'[h].attempt = NULL
         /\ handler'[h].want = cart[handler'[h].actor].items
         /\ handler'[h].left = {}
         /\ UNCHANGED <<dbVars, delta, locks>>
<1>1. handler \in [Handlers -> HandlerState] /\ delta \in [Handlers -> [Rows -> DeltaRow]]
  BY DEF IInv, TypeOK
<1>2. PICK c \in Clients, dto \in PurchaseDtos : StartPurchase(h, c, dto)
  BY DEF PurchaseRequest
<1>3. /\ handler'[h].actor = c /\ handler'[h].pc = "recheckCart"
      /\ handler'[h].attempt = NULL /\ handler'[h].want = cart[c].items
      /\ handler'[h].left = {}
  BY <1>1, <1>2 DEF StartPurchase, IdleHandler
<1> QED  BY <1>1, <1>2, <1>3 DEF StartPurchase, Only, Follows, MayStart

-----------------------------------------------------------------------------
(* Payments. *)

(* The one attempt a statement writes. *)
WritesAttempt(a, row) ==
  /\ attempt' = [attempt EXCEPT ![a] = row]
  /\ UNCHANGED <<inventory, reservation, cart, wallet, ledger, voucher, purchase,
                 shelf, added, delta, locks>>

(* A statement of a payment ends the handler, or takes up the purchase.    *)
LEMMA PaymentShape ==
  ASSUME IInv, NEW h \in Handlers, PaymentStep(h)
  PROVE  LET a == handler[h].attempt
             s == handler'[h]
         IN
         /\ Only(h)
         /\ \/ /\ handler[h].pc = "createCheckoutSession" /\ s = IdleHandler
               /\ \/ WritesAttempt(a, [attempt[a] EXCEPT !.referenced = TRUE])
                  \/ WritesAttempt(a, [attempt[a] EXCEPT !.status = "failed"])
            \/ /\ handler[h].pc = "overwrite" /\ s = IdleHandler
               /\ WritesAttempt(a, [attempt[a] EXCEPT
                                      !.status = MapWebhookStatus(handler[h].webhook)])
            \/ /\ handler[h].pc = "claim" /\ MayClaim(a) /\ Continues(h)
               /\ s.pc = "recheckCart" /\ s.dto = attempt[a].dto
               /\ s.want = attempt[a].items /\ s.left = handler[h].left
               /\ WritesAttempt(a, [attempt[a] EXCEPT !.status = "processing"])
            \/ /\ handler[h].pc = "claim" /\ s = IdleHandler
               /\ UNCHANGED <<dbVars, delta, locks>>
            \/ /\ handler[h].pc = "approve" /\ s = IdleHandler
               /\ WritesAttempt(a, [attempt[a] EXCEPT !.status = "approved",
                                      !.purchaseId = handler[h].purchaseId])
            \/ /\ handler[h].pc = "fail" /\ s = IdleHandler
               /\ WritesAttempt(a, [attempt[a] EXCEPT !.status = "failed"])
<1>1. handler \in [Handlers -> HandlerState] /\ delta \in [Handlers -> [Rows -> DeltaRow]]
  BY DEF IInv, TypeOK
<1> USE DEF Only, WritesAttempt, WriteAttempt
<1>2. CASE StoreReference(h)
  BY <1>1, <1>2 DEF StoreReference
<1>3. CASE FailSession(h)
  BY <1>1, <1>3 DEF FailSession
<1>4. CASE OverwriteStatus(h)
  BY <1>1, <1>4 DEF OverwriteStatus
<1>5. CASE Claim(h)
  BY <1>1, <1>5 DEF Claim, Continues, HandlerState
<1>6. CASE LoseClaim(h)
  BY <1>1, <1>6 DEF LoseClaim
<1>7. CASE Approve(h)
  BY <1>1, <1>7 DEF Approve
<1>8. CASE FailAttempt(h)
  BY <1>1, <1>8 DEF FailAttempt
<1> QED  BY <1>2, <1>3, <1>4, <1>5, <1>6, <1>7, <1>8 DEF PaymentStep

(* initiatePayment stores an attempt.                                      *)
LEMMA InitiatePaymentShape ==
  ASSUME IInv, NEW h \in Handlers, NEW c \in Clients, NEW dto \in PurchaseDtos,
         InitiatePayment(h, c, dto)
  PROVE  \E a \in Attempts :
           /\ Only(h) /\ MayStart(h, c) /\ attempt[a].status = "none"
           /\ handler'[h].pc = "createCheckoutSession" /\ handler'[h].actor = c
           /\ handler'[h].attempt = a
           /\ \E row : /\ WritesAttempt(a, row)
                       /\ row.status = "pending" /\ row.client = c
                       /\ row.amount = PaymentAmount(row.items, row.dto.voucherCode)
<1>1. handler \in [Handlers -> HandlerState] /\ delta \in [Handlers -> [Rows -> DeltaRow]]
  BY DEF IInv, TypeOK
<1> DEFINE body == [dto EXCEPT !.pickupStoreId =
                      IF dto.deliveryMode = "storePickup" THEN @ ELSE NULL]
           row == [status |-> "pending", client |-> c, items |-> cart[c].items, dto |-> body,
                   amount |-> PaymentAmount(cart[c].items, dto.voucherCode),
                   referenced |-> FALSE, purchaseId |-> NULL]
<1>2. PICK a \in Attempts :
        /\ MayStart(h, c) /\ attempt[a].status = "none"
        /\ attempt' = [attempt EXCEPT ![a] = row]
        /\ handler' = [handler EXCEPT ![h] =
             [IdleHandler EXCEPT !.pc = "createCheckoutSession", !.actor = c, !.attempt = a]]
        /\ UNCHANGED <<inventory, reservation, cart, wallet, ledger, voucher,
                       purchase, shelf, added, delta, locks>>
  BY DEF InitiatePayment
<1>3. WritesAttempt(a, row)
  BY <1>2 DEF WritesAttempt
<1>4. body.voucherCode = dto.voucherCode
  BY BodiesAreDtos DEF Dto
<1>5. /\ row.status = "pending" /\ row.client = c
      /\ row.amount = PaymentAmount(row.items, row.dto.voucherCode)
  <2> HIDE DEF body
  <2> QED  BY <1>4
<1>6. /\ Only(h) /\ handler'[h].pc = "createCheckoutSession" /\ handler'[h].actor = c
      /\ handler'[h].attempt = a
  BY <1>1, <1>2 DEF Only, IdleHandler
<1> HIDE DEF row
<1> QED  BY <1>2, <1>3, <1>5, <1>6

(* A webhook is taken up.                                                  *)
LEMMA ReceiveWebhookShape ==
  ASSUME IInv, NEW h \in Handlers, NEW a \in Attempts, NEW status \in WebhookStatuses,
         ReceiveWebhook(h, a, status)
  PROVE  /\ Only(h) /\ handler[h].pc = "idle"
         /\ attempt[a].status \in {"pending", "processing"}
         /\ handler'[h].pc = IF status = "approved" THEN "claim" ELSE "overwrite"
         /\ handler'[h].actor = attempt[a].client
         /\ handler'[h].attempt = a /\ handler'[h].webhook = status
         /\ handler'[h].left = {}
         /\ UNCHANGED <<dbVars, delta, locks>>
<1>1. handler \in [Handlers -> HandlerState] /\ delta \in [Handlers -> [Rows -> DeltaRow]]
  BY DEF IInv, TypeOK
<1> QED  BY <1>1 DEF ReceiveWebhook, Only, IdleHandler

-----------------------------------------------------------------------------
(* The kinds of steps there are for the selling side. *)

(* What a handler works for: a purchase is somebody's, and a handler has an*)
(* attempt only while it pays or buys for it.                              *)
Engaged(s) ==
  /\ s.pc \in Buying => s.actor \in Clients
  /\ s.pc \notin Buying \cup Paying => s.attempt = NULL

(* Nothing is bought or paid, by any handler: time passes, an admin        *)
(* corrects the stock.                                                     *)
Stands ==
  /\ UNCHANGED <<cart, wallet, ledger, purchase, attempt, added, handler, delta>>
  /\ \A v \in Vouchers :
       voucher'[v].client = voucher[v].client /\ voucher'[v].isUsed = voucher[v].isUsed

(* h works on a cart or a reservation, or is done.                         *)
Aside(h) ==
  /\ Only(h) /\ Follows(h)
  /\ handler'[h].pc \notin Buying \cup Paying
  /\ handler'[h].attempt = NULL
  /\ UNCHANGED <<wallet, ledger, voucher, purchase, attempt>>
  /\ UNCHANGED <<cart, added>> \/ CartRequest(h) \/ CartStep(h)

(* A transaction that is rolled back.                                      *)
LEMMA RollBackShape ==
  ASSUME IInv, IInv', NEW h \in Handlers, Engaged(handler[h]), RollBack(h)
  PROVE  /\ Only(h) /\ UNCHANGED dbVars
         /\ \/ handler[h].pc \in Buying /\ Fails(h)
            \/ Aside(h)
<1>1. handler \in [Handlers -> HandlerState] /\ delta \in [Handlers -> [Rows -> DeltaRow]]
  BY DEF IInv, TypeOK
<1>2. handler[h].pc \in InTransaction
  BY DEF RollBack
<1>3. CASE handler[h].actor = NULL
  <2>1. SkipExpired(h) /\ handler[h].pc \in Reserving \cup Releasing
    BY <1>2, <1>3, NullIsNoId DEF RollBack, Engaged, InTransaction, Buying, Reserving, Releasing
  <2>2. Only(h) /\ Follows(h) /\ handler'[h].pc \in Reserving \cup Releasing \cup {"idle"}
    BY <2>1, ReservationShape
  <2>3. handler'[h].attempt = NULL
    BY <1>1, <2>1, NextExpiredShape
       DEF SkipExpired, Engaged, Buying, Paying, Reserving, Releasing, IdleHandler
  <2> QED  BY <2>1, <2>2, <2>3
           DEF Aside, Buying, Paying, Reserving, Releasing, SkipExpired, dbVars
<1>4. CASE handler[h].actor # NULL
  <2>1. Throw(h) /\ Only(h) /\ Fails(h)
    BY <1>4, ThrowShape DEF RollBack
  <2>2. CASE handler[h].pc \in Buying
    BY <2>1, <2>2 DEF Fails
  <2>3. CASE handler[h].pc \notin Buying
    <3>1. handler[h].attempt = NULL
      BY <1>2, <2>3 DEF Engaged, Buying, Paying, InTransaction
    <3>2. handler'[h] = IdleHandler
      BY <2>1, <3>1 DEF Fails, Failed
    <3> QED  BY <2>1, <3>2 DEF Fails, Aside, Follows, IdleHandler, Buying, Paying, dbVars
  <2> QED  BY <2>2, <2>3
<1> QED  BY <1>3, <1>4

(* A write that approves an attempt and fails.                             *)
LEMMA FailApproveShape ==
  ASSUME IInv, NEW h \in Handlers, FailApprove(h)
  PROVE  /\ Only(h) /\ handler[h].pc = "approve" /\ handler'[h].pc = "fail"
         /\ Continues(h) /\ handler'[h].left = handler[h].left
         /\ UNCHANGED <<dbVars, delta, locks>>
<1>1. handler \in [Handlers -> HandlerState] /\ delta \in [Handlers -> [Rows -> DeltaRow]]
  BY DEF IInv, TypeOK
<1> QED  BY <1>1 DEF FailApprove, Only, Continues, HandlerState

(* What a step is to the selling side.                                     *)
LEMMA Cases ==
  ASSUME IInv, IInv', [Next]_vars, \A h \in Handlers : Engaged(handler[h])
  PROVE  \/ Stands
         \/ \E c \in Clients, amount \in TopUpAmounts : TopUp(c, amount)
         \/ \E h \in Handlers :
              \/ Aside(h)
              \/ PurchaseRequest(h)
              \/ PurchaseStep(h)
              \/ Only(h) /\ handler[h].pc \in Buying /\ Fails(h)
              \/ PaymentRequest(h)
              \/ PaymentStep(h)
              \/ FailApprove(h)
<1>1. ASSUME NEW h \in Handlers, CartRequest(h) \/ CartStep(h)
      PROVE  Aside(h)
  <2>1. /\ Only(h) /\ Follows(h)
        /\ handler[h].pc \in AtCart \cup {"idle"} /\ handler'[h].pc \in AtCart \cup {"idle"}
        /\ UNCHANGED <<wallet, ledger, voucher, purchase, attempt>>
        /\ CartRequest(h) \/ CartStep(h)
    BY <1>1, CartShape
  <2>2. handler'[h].attempt = NULL
    BY <2>1 DEF Follows, Continues, Engaged, AtCart, Buying, Paying, IdleHandler
  <2> QED  BY <2>1, <2>2 DEF Aside, AtCart, Buying, Paying
<1>2. ASSUME NEW h \in Handlers, ReservationRequest(h) \/ ReservationStep(h) \/ Reject(h)
      PROVE  Aside(h)
  <2>1. /\ Only(h) /\ Follows(h)
        /\ \/ handler[h].pc \in Reserving \cup Releasing \cup {"idle"}
           \/ handler'[h] = IdleHandler
        /\ handler'[h].pc \in Reserving \cup Releasing \cup {"idle"}
        /\ UNCHANGED <<cart, wallet, ledger, voucher, purchase, attempt, added>>
    BY <1>2, ReservationShape
  <2>2. handler'[h].attempt = NULL
    BY <2>1 DEF Follows, Continues, Engaged, Reserving, Releasing, Buying, Paying, IdleHandler
  <2> QED  BY <2>1, <2>2 DEF Aside, Reserving, Releasing, Buying, Paying
<1>3. ASSUME NEW h \in Handlers, RollBack(h)
      PROVE  Aside(h) \/ (Only(h) /\ handler[h].pc \in Buying /\ Fails(h))
  <2>1. Engaged(handler[h])
    OBVIOUS
  <2> QED  BY <1>3, <2>1, RollBackShape
<1>4. CASE Environment
  <2>1. ASSUME NEW r \in Reservations, FallDue(r) PROVE Stands
    BY <2>1 DEF FallDue, Stands
  <2>2. ASSUME NEW v \in Vouchers, VoucherExpires(v) PROVE Stands
    BY <2>2 DEF VoucherExpires, Stands, IInv, TypeOK, VoucherRow
  <2>3. ASSUME NEW s \in Stores, NEW quantity, UpdateInventoryByStoreId(s, quantity) PROVE Stands
    BY <2>3 DEF UpdateInventoryByStoreId, Stands
  <2> QED  BY <1>2, <1>3, <1>4, <2>1, <2>2, <2>3 DEF Environment, Abort, Die
<1>5. CASE UNCHANGED vars
  BY <1>5 DEF vars, dbVars, Stands
<1>6. ASSUME NEW h \in Handlers, Request(h) \/ Step(h)
      PROVE  \/ Aside(h) \/ PurchaseRequest(h)
             \/ Only(h) /\ handler[h].pc \in Buying /\ Fails(h)
             \/ PurchaseStep(h) \/ PaymentRequest(h) \/ PaymentStep(h)
  BY <1>1, <1>2, <1>3, <1>6 DEF Request, Step, BreakDeadlock
<1> QED  BY <1>4, <1>5, <1>6 DEF Next

-----------------------------------------------------------------------------
(* Purchases and payments: what is sold is paid, and what is approved is   *)
(* sold.                                                                   *)

(* Purchase p is what attempt a asked for, and is paid with its reference. *)
BoughtBy(a, p) ==
  /\ p \in Sold
  /\ purchase[p].client = attempt[a].client
  /\ purchase[p].items = attempt[a].items
  /\ purchase[p].total - attempt[a].amount \in -1..1
  /\ \E i \in PaymentsFor(p) : ledger[purchase[p].client][i].gatewayReference = a

(* The handler of an attempt acts for its client. *)
WorksFor(s) ==
  /\ s.attempt \in Attempts
  /\ attempt[s.attempt].status # "none"
  /\ s.actor = attempt[s.attempt].client

(* What a handler that buys or pays has in its hands.                      *)
Sells(s) ==
  /\ Engaged(s)
  /\ s.pc \in Paying \/ (s.pc \in Buying /\ s.attempt # NULL) => WorksFor(s)
  /\ s.pc \in Buying /\ s.attempt # NULL =>
       s.want = attempt[s.attempt].items /\ s.dto = attempt[s.attempt].dto
  /\ s.pc = "overwrite" => s.webhook # "approved"
  /\ s.pc = "approve" => BoughtBy(s.attempt, s.purchaseId)

(* A payment in a ledger is for a purchase of the ledger's client. *)
LedgerNamesSales ==
  \A c \in Clients : \A i \in DOMAIN ledger[c] :
    ledger[c][i].type = "payment" =>
      ledger[c][i].purchaseId \in Sold /\ purchase[ledger[c][i].purchaseId].client = c

SoldToClients == \A p \in Sold : purchase[p].client \in Clients

(* An attempt asks for the price of its snapshot. *)
AttemptsAreSnapshots ==
  \A a \in Attempts : attempt[a].status # "none" =>
    /\ attempt[a].client \in Clients
    /\ attempt[a].amount = PaymentAmount(attempt[a].items, attempt[a].dto.voucherCode)

SalesInv ==
  /\ LedgerNamesSales
  /\ SoldToClients
  /\ AttemptsAreSnapshots
  /\ PaidExactlyOnce
  /\ ApprovedIsBought
  /\ \A h \in Handlers : Sells(handler[h])

(* What no step undoes: an attempt keeps what it is for, a purchase is     *)
(* final, and ledgers are appended to.                                     *)
Grows ==
  /\ \A a \in Attempts : attempt[a].status # "none" =>
       /\ attempt'[a].status # "none"
       /\ attempt'[a].client = attempt[a].client
       /\ attempt'[a].items = attempt[a].items
       /\ attempt'[a].dto = attempt[a].dto
       /\ attempt'[a].amount = attempt[a].amount
  /\ \A p \in Sold : p \in Sold' /\ purchase'[p] = purchase[p]
  /\ \A c \in Clients : \A i \in DOMAIN ledger[c] :
       i \in DOMAIN ledger'[c] /\ ledger'[c][i] = ledger[c][i]

LEMMA BoughtByStays ==
  ASSUME Grows, SoldToClients, NEW a \in Attempts, NEW p, attempt[a].status # "none",
         BoughtBy(a, p)
  PROVE  /\ p \in Sold' /\ purchase'[p].client = attempt'[a].client
         /\ purchase'[p].items = attempt'[a].items
         /\ purchase'[p].total - attempt'[a].amount \in -1..1
         /\ \E i \in DOMAIN ledger'[purchase'[p].client] :
              /\ ledger'[purchase'[p].client][i].type = "payment"
              /\ ledger'[purchase'[p].client][i].purchaseId = p
              /\ ledger'[purchase'[p].client][i].gatewayReference = a
<1>1. p \in Sold /\ purchase[p].client \in Clients /\ purchase'[p] = purchase[p] /\ p \in Sold'
  BY DEF BoughtBy, SoldToClients, Grows
<1>2. /\ attempt'[a].client = attempt[a].client /\ attempt'[a].items = attempt[a].items
      /\ attempt'[a].amount = attempt[a].amount
  BY DEF Grows
<1>3. PICK i \in DOMAIN ledger[purchase[p].client] :
        /\ ledger[purchase[p].client][i].type = "payment"
        /\ ledger[purchase[p].client][i].purchaseId = p
        /\ ledger[purchase[p].client][i].gatewayReference = a
  BY DEF BoughtBy, PaymentsFor
<1>4. /\ i \in DOMAIN ledger'[purchase[p].client]
      /\ ledger'[purchase[p].client][i] = ledger[purchase[p].client][i]
  BY <1>1, <1>3 DEF Grows
<1>5. /\ purchase[p].client = attempt[a].client /\ purchase[p].items = attempt[a].items
      /\ purchase[p].total - attempt[a].amount \in -1..1
  BY DEF BoughtBy
<1> QED  BY <1>1, <1>2, <1>3, <1>4, <1>5

(* A handler that goes on with what it has in its hands.                   *)
LEMMA SellsStays ==
  ASSUME Grows, SoldToClients, NEW h \in Handlers, Sells(handler[h]), Continues(h),
         \/ handler'[h].pc = handler[h].pc /\ handler'[h].purchaseId = handler[h].purchaseId
         \/ handler[h].pc \in Buying /\ handler'[h].pc \in Buying,
         handler[h].pc \in Buying =>
           handler'[h].want = handler[h].want /\ handler'[h].dto = handler[h].dto
  PROVE  Sells(handler[h])'
<1> USE DEF Continues
<1> DEFINE s == handler[h]
           a == s.attempt
<1>1. (s.pc \in Buying <=> s.pc' \in Buying) /\ (s.pc \in Paying <=> s.pc' \in Paying)
  BY DEF Buying, Paying
<1>2. Engaged(s)'
  BY <1>1 DEF Sells, Engaged
<1>3. ASSUME WorksFor(s)
      PROVE  WorksFor(s)' /\ attempt'[a].items = attempt[a].items
               /\ attempt'[a].dto = attempt[a].dto
  BY <1>3 DEF WorksFor, Grows
<1>4. (s.pc \in Paying \/ (s.pc \in Buying /\ s.attempt # NULL) => WorksFor(s))'
  BY <1>1, <1>3 DEF Sells
<1>5. (s.pc \in Buying /\ s.attempt # NULL =>
         s.want = attempt[s.attempt].items /\ s.dto = attempt[s.attempt].dto)'
  BY <1>1, <1>3 DEF Sells
<1>6. (s.pc = "overwrite" => s.webhook # "approved")'
  BY Zenon DEF Sells, Buying
<1>7. (s.pc = "approve" => BoughtBy(s.attempt, s.purchaseId))'
  <2> SUFFICES ASSUME s.pc' = "approve"  PROVE BoughtBy(s.attempt, s.purchaseId)'
    OBVIOUS
  <2>1. s.pc = "approve" /\ s.purchaseId' = s.purchaseId /\ s.attempt' = s.attempt
    BY DEF Buying
  <2>2. BoughtBy(a, s.purchaseId) /\ WorksFor(s)
    BY <2>1 DEF Sells, Paying
  <2>3. a \in Attempts /\ attempt[a].status # "none"
    BY <2>2 DEF WorksFor
  <2>4. /\ s.purchaseId \in Sold' /\ purchase'[s.purchaseId].client = attempt'[a].client
        /\ purchase'[s.purchaseId].items = attempt'[a].items
        /\ purchase'[s.purchaseId].total - attempt'[a].amount \in -1..1
        /\ \E i \in DOMAIN ledger'[purchase'[s.purchaseId].client] :
             /\ ledger'[purchase'[s.purchaseId].client][i].type = "payment"
             /\ ledger'[purchase'[s.purchaseId].client][i].purchaseId = s.purchaseId
             /\ ledger'[purchase'[s.purchaseId].client][i].gatewayReference = a
    <3> HIDE DEF s
    <3> QED  BY <2>2, <2>3, BoughtByStays
  <2> QED  BY <2>1, <2>4, Zenon DEF BoughtBy, PaymentsFor
<1> QED  BY <1>2, <1>4, <1>5, <1>6, <1>7 DEF Sells

(* The other handlers have what they had. *)
LEMMA OthersSell ==
  ASSUME SalesInv, Grows, NEW h \in Handlers, Only(h)
  PROVE  \A g \in Handlers \ {h} : Sells(handler[g])'
<1>1. SUFFICES ASSUME NEW g \in Handlers \ {h} PROVE Sells(handler[g])'
  OBVIOUS
<1>2. Sells(handler[g]) /\ SoldToClients /\ handler'[g] = handler[g]
  BY DEF SalesInv, Only
<1> QED  BY <1>2, SellsStays DEF Continues

(* A handler that has nothing to sell, or only has to fail.                *)
LEMMA SellsNothing ==
  ASSUME NEW h \in Handlers, handler'[h].pc \notin Buying \cup Paying, handler'[h].attempt = NULL
  PROVE  Sells(handler[h])'
BY DEF Sells, Engaged, Buying, Paying

LEMMA SellsFailed ==
  ASSUME Grows, SoldToClients, NEW h \in Handlers, Sells(handler[h]), handler[h].pc \in Buying, Fails(h)
  PROVE  Sells(handler[h])'
<1>1. CASE handler[h].attempt = NULL
  <2>1. handler'[h] = IdleHandler
    BY <1>1 DEF Fails, Failed
  <2> QED  BY <2>1, SellsNothing DEF IdleHandler, Buying, Paying
<1>2. CASE handler[h].attempt # NULL
  <2>1. /\ handler'[h].pc = "fail" /\ handler'[h].actor = handler[h].actor
        /\ handler'[h].attempt = handler[h].attempt
    BY <1>2 DEF Fails, Failed, IdleHandler
  <2>2. WorksFor(handler[h])
    BY <1>2 DEF Sells
  <2>3. WorksFor(handler[h])'
    BY <2>1, <2>2 DEF WorksFor, Grows
  <2> QED  BY <2>1, <2>3 DEF Sells, Engaged, Buying, Paying
<1> QED  BY <1>1, <1>2

(* Ledgers and purchases as they were: what is said of them stays true.    *)
LEMMA SalesStay ==
  ASSUME SalesInv, Grows, UNCHANGED <<ledger, purchase>>
  PROVE  LedgerNamesSales' /\ SoldToClients' /\ PaidExactlyOnce'
BY SMTT(30) DEF SalesInv, LedgerNamesSales, SoldToClients, PaidExactlyOnce, Sold, PaymentsFor

(* So is what is said of the attempts.                                     *)
LEMMA ApprovedStay ==
  ASSUME SalesInv, Grows, NEW a \in Attempts, attempt[a].status = "approved",
         attempt'[a].status = "approved" => attempt'[a].purchaseId = attempt[a].purchaseId
  PROVE  attempt'[a].status = "approved" => BoughtBy(a, attempt[a].purchaseId)'
<1>1. BoughtBy(a, attempt[a].purchaseId) /\ SoldToClients
  BY DEF SalesInv, ApprovedIsBought, BoughtBy
<1> DEFINE p == attempt[a].purchaseId
<1>2. /\ p \in Sold' /\ purchase'[p].client = attempt'[a].client
      /\ purchase'[p].items = attempt'[a].items
      /\ purchase'[p].total - attempt'[a].amount \in -1..1
      /\ \E i \in DOMAIN ledger'[purchase'[p].client] :
           /\ ledger'[purchase'[p].client][i].type = "payment"
           /\ ledger'[purchase'[p].client][i].purchaseId = p
           /\ ledger'[purchase'[p].client][i].gatewayReference = a
  <2>1. BoughtBy(a, p)
    BY <1>1
  <2> HIDE DEF p
  <2> QED  BY <1>1, <2>1, BoughtByStays
<1> QED  BY <1>2, Zenon DEF BoughtBy, PaymentsFor

LEMMA AttemptsStay ==
  ASSUME SalesInv, Grows, UNCHANGED attempt
  PROVE  AttemptsAreSnapshots' /\ ApprovedIsBought'
<1>1. AttemptsAreSnapshots'
  BY DEF SalesInv, AttemptsAreSnapshots
<1>2. ASSUME NEW a \in Attempts, attempt'[a].status = "approved"
      PROVE  BoughtBy(a, attempt[a].purchaseId)'
  BY <1>2, ApprovedStay
<1> QED  BY <1>1, <1>2 DEF ApprovedIsBought, BoughtBy

(* Nothing written: everything stays. *)
LEMMA GrowsTrivially ==
  ASSUME UNCHANGED <<ledger, purchase, attempt>>
  PROVE  Grows
BY DEF Grows, Sold

(* One attempt written, that was there before: its snapshot stays, and it  *)
(* is approved only with the purchase that was made for it.                *)
LEMMA WritesAttemptSells ==
  ASSUME IInv, SalesInv, NEW a \in Attempts, NEW row, WritesAttempt(a, row),
         attempt[a].status # "none" => row.status # "none" /\ row.client = attempt[a].client /\
           row.items = attempt[a].items /\ row.dto = attempt[a].dto /\ row.amount = attempt[a].amount,
         row.status # "none" =>
           row.client \in Clients /\ row.amount = PaymentAmount(row.items, row.dto.voucherCode),
         row.status = "approved" =>
           attempt[a].status # "none" /\ BoughtBy(a, row.purchaseId)
  PROVE  /\ Grows /\ attempt'[a] = row
         /\ LedgerNamesSales' /\ SoldToClients' /\ PaidExactlyOnce'
         /\ AttemptsAreSnapshots' /\ ApprovedIsBought'
<1>1. /\ attempt' = [attempt EXCEPT ![a] = row] /\ attempt \in [Attempts -> AttemptRow]
      /\ UNCHANGED <<ledger, purchase>>
  BY DEF WritesAttempt, IInv, TypeOK
<1>2. attempt'[a] = row /\ \A b \in Attempts \ {a} : attempt'[b] = attempt[b]
  BY <1>1
<1>3. Grows
  BY <1>1, <1>2 DEF Grows, Sold
<1>4. LedgerNamesSales' /\ SoldToClients' /\ PaidExactlyOnce'
  BY <1>1, <1>3, SalesStay
<1>5. AttemptsAreSnapshots'
  <2> SUFFICES ASSUME NEW b \in Attempts, attempt'[b].status # "none"
               PROVE  /\ attempt'[b].client \in Clients
                      /\ attempt'[b].amount =
                           PaymentAmount(attempt'[b].items, attempt'[b].dto.voucherCode)
    BY DEF AttemptsAreSnapshots
  <2> QED  BY <1>2 DEF SalesInv, AttemptsAreSnapshots
<1>6. ASSUME NEW b \in Attempts, attempt'[b].status = "approved"
      PROVE  BoughtBy(b, attempt[b].purchaseId)'
  <2>1. CASE b # a
    <3>1. attempt'[b] = attempt[b]
      BY <1>2, <2>1
    <3> QED  BY <1>3, <1>6, <3>1, ApprovedStay
  <2>2. CASE b = a
    <3>1. BoughtBy(a, row.purchaseId) /\ attempt[a].status # "none" /\ attempt'[a] = row
      BY <1>2, <1>6, <2>2
    <3> DEFINE p == row.purchaseId
    <3>2. BoughtBy(a, p) /\ SoldToClients
      BY <3>1 DEF SalesInv
    <3>3. /\ p \in Sold' /\ purchase'[p].client = attempt'[a].client
          /\ purchase'[p].items = attempt'[a].items
          /\ purchase'[p].total - attempt'[a].amount \in -1..1
          /\ \E i \in DOMAIN ledger'[purchase'[p].client] :
               /\ ledger'[purchase'[p].client][i].type = "payment"
               /\ ledger'[purchase'[p].client][i].purchaseId = p
               /\ ledger'[purchase'[p].client][i].gatewayReference = a
      <4> HIDE DEF p
      <4> QED  BY <1>3, <3>1, <3>2, BoughtByStays
    <3> QED  BY <2>2, <3>1, <3>3 DEF BoughtBy, PaymentsFor
  <2> QED  BY <2>1, <2>2
<1>7. ApprovedIsBought'
  BY <1>6, Zenon DEF ApprovedIsBought, BoughtBy
<1> QED  BY <1>2, <1>3, <1>4, <1>5, <1>7

(* A statement of a payment.                                               *)
LEMMA PaymentSells ==
  ASSUME IInv, SalesInv, NEW h \in Handlers, PaymentStep(h)
  PROVE  SalesInv'
<1> DEFINE s == handler[h]
           a == s.attempt
<1>1. Only(h) /\ s \in HandlerState /\ a \in Attempts \cup {NULL} /\ Sells(s)
  BY PaymentShape, FieldTypes, Zenon DEF SalesInv
<1>2. s.pc \in Paying
  BY PaymentShape, Zenon DEF Paying
<1>3. WorksFor(s)
  BY <1>1, <1>2 DEF Sells
<1>4. /\ a \in Attempts /\ attempt[a].status # "none" /\ attempt[a] \in AttemptRow
      /\ attempt[a].client \in Clients
      /\ attempt[a].amount = PaymentAmount(attempt[a].items, attempt[a].dto.voucherCode)
  BY <1>3 DEF WorksFor, SalesInv, AttemptsAreSnapshots, IInv, TypeOK
<1>5. ASSUME Grows, LedgerNamesSales', SoldToClients', PaidExactlyOnce', AttemptsAreSnapshots',
             ApprovedIsBought', Sells(handler[h])'
      PROVE  SalesInv'
  <2>1. \A g \in Handlers : Sells(handler[g])'
    BY <1>1, <1>5, OthersSell
  <2> QED  BY <1>5, <2>1 DEF SalesInv
<1>6. ASSUME handler'[h] = IdleHandler  PROVE Sells(handler[h])'
  BY <1>6, SellsNothing DEF IdleHandler, Buying, Paying
<1>7. ASSUME NEW row, handler'[h] = IdleHandler, WritesAttempt(a, row),
             row.status # "none", row.client = attempt[a].client,
             row.items = attempt[a].items, row.dto = attempt[a].dto,
             row.amount = attempt[a].amount,
             row.status = "approved" => BoughtBy(a, row.purchaseId)
      PROVE  SalesInv'
  <2> HIDE DEF a, s
  <2>1. /\ Grows /\ LedgerNamesSales' /\ SoldToClients' /\ PaidExactlyOnce'
        /\ AttemptsAreSnapshots' /\ ApprovedIsBought'
    BY <1>4, <1>7, WritesAttemptSells
  <2> QED  BY <1>5, <1>6, <1>7, <2>1
<1>8. CASE /\ s.pc = "createCheckoutSession" /\ handler'[h] = IdleHandler
           /\ WritesAttempt(a, [attempt[a] EXCEPT !.referenced = TRUE])
  <2> DEFINE row == [attempt[a] EXCEPT !.referenced = TRUE]
  <2>1. /\ row.status = attempt[a].status /\ row.client = attempt[a].client
        /\ row.items = attempt[a].items /\ row.dto = attempt[a].dto
        /\ row.amount = attempt[a].amount /\ row.purchaseId = attempt[a].purchaseId
    BY <1>4, Zenon DEF AttemptRow
  <2>2. attempt[a].status = "approved" => BoughtBy(a, attempt[a].purchaseId)
    BY <1>4, Zenon DEF SalesInv, ApprovedIsBought, BoughtBy
  <2>3. WritesAttempt(a, row) /\ handler'[h] = IdleHandler
    BY <1>8
  <2> HIDE DEF row, s, a
  <2> QED  BY <1>4, <1>7, <2>1, <2>2, <2>3
<1>9. ASSUME NEW status \in AttemptStatus \ {"none", "approved"}, handler'[h] = IdleHandler,
             WritesAttempt(a, [attempt[a] EXCEPT !.status = status])
      PROVE  SalesInv'
  <2> DEFINE row == [attempt[a] EXCEPT !.status = status]
  <2>1. /\ row.status = status /\ row.client = attempt[a].client
        /\ row.items = attempt[a].items /\ row.dto = attempt[a].dto
        /\ row.amount = attempt[a].amount
    BY <1>4 DEF AttemptRow
  <2>2. WritesAttempt(a, row) /\ handler'[h] = IdleHandler
    BY <1>9
  <2> HIDE DEF row, s, a
  <2> QED  BY <1>4, <1>7, <2>1, <2>2
<1>10. CASE /\ s.pc = "overwrite" /\ handler'[h] = IdleHandler
            /\ WritesAttempt(a, [attempt[a] EXCEPT !.status = MapWebhookStatus(s.webhook)])
  <2>1. MapWebhookStatus(s.webhook) \in AttemptStatus \ {"none", "approved"}
    BY <1>1, <1>10 DEF Sells, MapWebhookStatus, AttemptStatus
  <2> QED  BY <1>9, <1>10, <2>1
<1>11. CASE /\ s.pc = "claim" /\ Continues(h)
            /\ handler'[h].pc = "recheckCart" /\ handler'[h].dto = attempt[a].dto
            /\ handler'[h].want = attempt[a].items
            /\ WritesAttempt(a, [attempt[a] EXCEPT !.status = "processing"])
  <2> DEFINE row == [attempt[a] EXCEPT !.status = "processing"]
  <2>1. /\ row.status = "processing" /\ row.client = attempt[a].client
        /\ row.items = attempt[a].items /\ row.dto = attempt[a].dto
        /\ row.amount = attempt[a].amount
    BY <1>4 DEF AttemptRow
  <2>2. WritesAttempt(a, row)
    BY <1>11
  <2>3. /\ Grows /\ LedgerNamesSales' /\ SoldToClients' /\ PaidExactlyOnce'
        /\ AttemptsAreSnapshots' /\ ApprovedIsBought' /\ attempt'[a] = row
    <3> HIDE DEF row, a, s
    <3> QED  BY <1>4, <2>1, <2>2, WritesAttemptSells
  <2>4. Sells(handler[h])'
    <3>1. /\ handler'[h].actor = s.actor /\ handler'[h].attempt = a
          /\ handler'[h].pc = "recheckCart" /\ s.actor = attempt[a].client
      BY <1>3, <1>11 DEF Continues, WorksFor
    <3>2. WorksFor(handler[h])'
      BY <1>4, <2>1, <2>3, <3>1 DEF WorksFor
    <3>3. handler'[h].want = attempt'[a].items /\ handler'[h].dto = attempt'[a].dto
      BY <1>11, <2>1, <2>3
    <3> QED  BY <1>4, <3>1, <3>2, <3>3 DEF Sells, Engaged, Buying, Paying
  <2> QED  BY <1>5, <2>3, <2>4
<1>12. CASE handler'[h] = IdleHandler /\ UNCHANGED <<dbVars, delta, locks>>
  <2>1. UNCHANGED <<ledger, purchase, attempt>>
    BY <1>12 DEF dbVars
  <2>2. Grows
    BY <2>1, GrowsTrivially
  <2> QED  BY <1>5, <1>6, <1>12, <2>1, <2>2, SalesStay, AttemptsStay
<1>13. CASE /\ s.pc = "approve" /\ handler'[h] = IdleHandler
            /\ WritesAttempt(a, [attempt[a] EXCEPT !.status = "approved",
                                                   !.purchaseId = s.purchaseId])
  <2> DEFINE row == [attempt[a] EXCEPT !.status = "approved", !.purchaseId = s.purchaseId]
  <2>1. /\ row.status = "approved" /\ row.client = attempt[a].client
        /\ row.items = attempt[a].items /\ row.dto = attempt[a].dto
        /\ row.amount = attempt[a].amount /\ row.purchaseId = s.purchaseId
    BY <1>4 DEF AttemptRow
  <2>2. BoughtBy(a, s.purchaseId)
    BY <1>1, <1>13 DEF Sells
  <2>3. WritesAttempt(a, row) /\ handler'[h] = IdleHandler
    BY <1>13
  <2> HIDE DEF row, s, a
  <2> QED  BY <1>4, <1>7, <2>1, <2>2, <2>3
<1>14. "failed" \in AttemptStatus \ {"none", "approved"}
  BY DEF AttemptStatus
<1> QED  BY <1>8, <1>9, <1>10, <1>11, <1>12, <1>13, <1>14, PaymentShape, Zenon

(* A movement that is recorded is the last row of one ledger.              *)
LEMMA RecordMovementShape ==
  ASSUME IInv, NEW c \in Clients, NEW type \in {"payment", "topUp"}, NEW amount \in Int,
         NEW p, NEW a, RecordMovement(c, type, amount, p, a)
  PROVE  LET last == Len(ledger[c]) + 1
         IN
         /\ last \in Nat /\ last \notin DOMAIN ledger[c]
         /\ \A d \in Clients \ {c} : ledger'[d] = ledger[d]
         /\ \A i : i \in DOMAIN ledger'[c] <=> i \in DOMAIN ledger[c] \/ i = last
         /\ \A i \in DOMAIN ledger[c] : ledger'[c][i] = ledger[c][i]
         /\ ledger'[c][last].type = type
         /\ ledger'[c][last].amount = ToCents(amount)
         /\ ledger'[c][last].purchaseId = p
         /\ ledger'[c][last].gatewayReference = a
<1>1. ledger \in [Clients -> Seq(Movement)]
  BY DEF IInv, TypeOK
<1> DEFINE next == ToCents(IF type = "payment" THEN Exact(wallet[c]) - amount
                           ELSE Exact(wallet[c]) + amount)
           m == [type |-> type, amount |-> ToCents(amount), balanceAfter |-> next,
                 purchaseId |-> p, gatewayReference |-> a]
<1>2. ledger' = [ledger EXCEPT ![c] = Append(@, m)]
  BY DEF RecordMovement
<1>3. /\ m.type = type /\ m.amount = ToCents(amount) /\ m.purchaseId = p
      /\ m.gatewayReference = a
  OBVIOUS
<1> HIDE DEF m
<1>4. /\ ledger'[c] = Append(ledger[c], m)
      /\ \A d \in Clients \ {c} : ledger'[d] = ledger[d]
  BY <1>1, <1>2
<1> DEFINE rows == ledger[c]
           last == Len(rows) + 1
<1>5. rows \in Seq(Movement)
  BY <1>1
<1>6. /\ Len(rows) \in Nat /\ DOMAIN rows = 1 .. Len(rows)
      /\ DOMAIN Append(rows, m) = 1 .. last
      /\ \A i \in 1 .. last : Append(rows, m)[i] = IF i = last THEN m ELSE rows[i]
  <2> HIDE DEF rows
  <2> QED  BY <1>5
<1> HIDE DEF rows
<1>7. /\ last \in Nat /\ last \notin DOMAIN rows
      /\ \A i : i \in DOMAIN Append(rows, m) <=> i \in DOMAIN rows \/ i = last
      /\ \A i \in DOMAIN rows : Append(rows, m)[i] = rows[i]
      /\ Append(rows, m)[last] = m
  BY <1>6
<1> QED  BY <1>3, <1>4, <1>7 DEF rows

(* A recharge pays for nothing.                                            *)
LEMMA TopUpSells ==
  ASSUME IInv, SalesInv, NEW c \in Clients, NEW cents \in TopUpAmounts, TopUp(c, cents)
  PROVE  SalesInv'
<1>1. /\ RecordMovement(c, "topUp", Exact(cents), NULL, NULL)
      /\ UNCHANGED <<purchase, attempt, handler, delta>>
      /\ Exact(cents) \in Int
  BY TopUpsArePositive DEF TopUp, Exact
<1> DEFINE last == Len(ledger[c]) + 1
<1>2. /\ last \notin DOMAIN ledger[c]
      /\ \A d \in Clients \ {c} : ledger'[d] = ledger[d]
      /\ \A i : i \in DOMAIN ledger'[c] <=> i \in DOMAIN ledger[c] \/ i = last
      /\ \A i \in DOMAIN ledger[c] : ledger'[c][i] = ledger[c][i]
      /\ ledger'[c][last].type = "topUp"
  BY <1>1, RecordMovementShape
<1> HIDE DEF last
<1>3. Grows
  BY <1>1, <1>2 DEF Grows, Sold
<1>4. LedgerNamesSales' /\ SoldToClients'
  BY <1>1, <1>2 DEF SalesInv, LedgerNamesSales, SoldToClients, Sold
<1>5. \A p \in Sold : PaymentsFor(p)' = PaymentsFor(p) /\ PaymentsFor(p) \subseteq DOMAIN ledger[purchase[p].client]
  BY <1>1, <1>2 DEF PaymentsFor, SalesInv, SoldToClients
<1>6. PaidExactlyOnce'
  <2> SUFFICES ASSUME NEW p \in Sold'
               PROVE  \E i \in PaymentsFor(p)' :
                        /\ PaymentsFor(p)' = {i}
                        /\ ledger'[purchase'[p].client][i].amount = purchase'[p].total
    BY DEF PaidExactlyOnce
  <2>1. p \in Sold /\ purchase' = purchase
    BY <1>1 DEF Sold
  <2>2. PICK i \in PaymentsFor(p) :
          /\ PaymentsFor(p) = {i}
          /\ ledger[purchase[p].client][i].amount = purchase[p].total
    BY <2>1 DEF SalesInv, PaidExactlyOnce
  <2>3. purchase[p].client \in Clients /\ i \in DOMAIN ledger[purchase[p].client]
    BY <1>5, <2>1, <2>2 DEF SalesInv, SoldToClients
  <2>4. ledger'[purchase[p].client][i] = ledger[purchase[p].client][i]
    BY <1>2, <2>3
  <2> QED  BY <1>5, <2>1, <2>2, <2>4
<1>7. AttemptsAreSnapshots' /\ ApprovedIsBought'
  BY <1>1, <1>3, AttemptsStay
<1>8. \A g \in Handlers : Sells(handler[g])'
  <2> SUFFICES ASSUME NEW g \in Handlers PROVE Sells(handler[g])'
    OBVIOUS
  <2>1. Sells(handler[g]) /\ SoldToClients /\ handler'[g] = handler[g]
    BY <1>1 DEF SalesInv
  <2> QED  BY <1>3, <2>1, SellsStays DEF Continues
<1> QED  BY <1>4, <1>6, <1>7, <1>8 DEF SalesInv

(* The amount an attempt asks for is within a cent of the purchase's.      *)
LEMMA AmountsWithinACent ==
  ASSUME NEW x \in Nat, NEW left \in 1..100
  PROVE  ToCents(x * left) - ToCents(ToCents(x * 100) * 100 * left) \in -1..1
<1> DEFINE y == ToCents(x * 100)
           d == x - 100 * y
<1>1. y \in Nat /\ d \in Int /\ d \in -50..50
  <2>1. x * 100 \in Nat /\ y = (x * 100 + 5000) \div 10000
    BY DEF ToCents
  <2> DEFINE n == x * 100
  <2>2. y \in Nat /\ n - 10000 * y \in -5000..5000
    <3> HIDE DEF y, n
    <3>1. n \in Nat /\ y = (n + 5000) \div 10000
      BY <2>1 DEF n
    <3> QED  BY <3>1
  <2> HIDE DEF y
  <2> QED  BY <2>2, SMTT(30)
<1>2. d \in -50..50
  BY <1>1
<1>3. x * left = d * left + y * 100 * left
  <2>1. x = d + y * 100
    BY <1>1
  <2> HIDE DEF d, y
  <2>2. (d + y * 100) * left = d * left + y * 100 * left
    BY <1>1
  <2> QED  BY <2>1, <2>2
<1> HIDE DEF d, y
<1>4. d * left \in -5000..5000
  <2>1. d * left <= 50 * left /\ -50 * left <= d * left
    <3>1. (50 - d) * left >= 0 /\ (50 + d) * left >= 0
      BY <1>2
    <3>2. (50 - d) * left = 50 * left - d * left /\ (50 + d) * left = 50 * left + d * left
      BY <1>2
    <3> QED  BY <1>2, <3>1, <3>2
  <2> QED  BY <1>2, <2>1, SMTT(30)
<1> DEFINE u == d * left
           v == y * 100 * left
<1>5. u \in -5000..5000 /\ v \in Nat /\ x * left = u + v /\ x * left \in Nat
  BY <1>1, <1>3, <1>4
<1> HIDE DEF u, v
<1> DEFINE w == x * left
<1>6. w \in Nat /\ w = u + v
  BY <1>5
<1> HIDE DEF w
<1>7. ToCents(w) - ToCents(v) \in -1..1
  BY <1>5, <1>6, SMTT(30) DEF ToCents
<1> QED  BY <1>7 DEF w, v, y

(* The parts of a purchase that commits.                                   *)
LEMMA CommitShape ==
  ASSUME IInv, NEW h \in Handlers, CommitPurchase(h), handler[h].actor \in Clients
  PROVE  LET s == handler[h]
             c == s.actor
             last == Len(ledger[c]) + 1
         IN
         /\ Only(h) /\ s.pc = "decrementInventory" /\ s.todo = {} /\ MayShip(h)
         /\ delta'[h] = NoDelta
         /\ UNCHANGED <<attempt, added>>
         /\ CommitInventory(h)
         /\ cart' = BoughtCart(c)
         /\ voucher' = IF s.dto.voucherCode = NULL THEN voucher
                       ELSE [voucher EXCEPT ![s.dto.voucherCode].isUsed = TRUE]
         /\ last \notin DOMAIN ledger[c]
         /\ \A d \in Clients \ {c} : ledger'[d] = ledger[d]
         /\ \A i : i \in DOMAIN ledger'[c] <=> i \in DOMAIN ledger[c] \/ i = last
         /\ \A i \in DOMAIN ledger[c] : ledger'[c][i] = ledger[c][i]
         /\ \E p \in Purchases :
              /\ p \notin Sold /\ Sold' = Sold \cup {p}
              /\ \A q \in Purchases \ {p} : purchase'[q] = purchase[q]
              /\ purchase'[p].client = c /\ purchase'[p].items = s.want
              /\ purchase'[p].total = ToCents(TotalAmount(s.want, s.dto.voucherCode))
              /\ purchase'[p].voucher = s.dto.voucherCode
              /\ purchase'[p].waitlisted = s.waitlisted
              /\ purchase'[p].taken = [w \in Rows |-> delta[h][w].sold]
              /\ ledger'[c][last].type = "payment"
              /\ ledger'[c][last].amount = purchase'[p].total
              /\ ledger'[c][last].purchaseId = p
              /\ ledger'[c][last].gatewayReference = s.attempt
              /\ handler'[h] = Completed(s, p)
<1> DEFINE s == handler[h]
           c == s.actor
           v == s.dto.voucherCode
           amount == TotalAmount(s.want, v)
           sale == [client |-> c, items |-> s.want, total |-> ToCents(amount), voucher |-> v,
                    waitlisted |-> s.waitlisted, taken |-> [w \in Rows |-> delta[h][w].sold]]
<1>1. /\ handler \in [Handlers -> HandlerState] /\ delta \in [Handlers -> [Rows -> DeltaRow]]
      /\ purchase \in [Purchases -> PurchaseRow]
  BY DEF IInv, TypeOK
<1>2. PICK p \in Purchases :
        /\ s.pc = "decrementInventory" /\ s.todo = {} /\ MayShip(h)
        /\ purchase[p] = NoPurchase
        /\ RecordMovement(c, "payment", amount, p, s.attempt)
        /\ purchase' = [purchase EXCEPT ![p] = sale]
        /\ cart' = BoughtCart(c)
        /\ voucher' = IF v = NULL THEN voucher ELSE [voucher EXCEPT ![v].isUsed = TRUE]
        /\ CommitInventory(h)
        /\ handler' = [handler EXCEPT ![h] = Completed(@, p)]
        /\ UNCHANGED <<attempt, added>>
  BY DEF CommitPurchase
<1>3. Only(h) /\ delta'[h] = NoDelta /\ handler'[h] = Completed(s, p)
  BY <1>1, <1>2 DEF Only, CommitInventory
<1>4. amount \in Int
  BY <1>2, FieldTypes, TotalAmountType DEF Coherent
<1>5. /\ sale.client = c /\ sale.items = s.want /\ sale.total = ToCents(amount)
      /\ sale.voucher = v /\ sale.waitlisted = s.waitlisted
      /\ sale.taken = [w \in Rows |-> delta[h][w].sold] /\ sale # NoPurchase
  BY NullIsNoId DEF NoPurchase
<1> HIDE DEF sale
<1>6. purchase'[p] = sale /\ \A q \in Purchases \ {p} : purchase'[q] = purchase[q]
  BY <1>1, <1>2
<1>7. p \notin Sold /\ Sold' = Sold \cup {p}
  BY <1>2, <1>5, <1>6 DEF Sold
<1> DEFINE last == Len(ledger[c]) + 1
<1>8. /\ last \notin DOMAIN ledger[c]
      /\ \A d \in Clients \ {c} : ledger'[d] = ledger[d]
      /\ \A i : i \in DOMAIN ledger'[c] <=> i \in DOMAIN ledger[c] \/ i = last
      /\ \A i \in DOMAIN ledger[c] : ledger'[c][i] = ledger[c][i]
      /\ ledger'[c][last].type = "payment"
      /\ ledger'[c][last].amount = ToCents(amount)
      /\ ledger'[c][last].purchaseId = p
      /\ ledger'[c][last].gatewayReference = s.attempt
  <2> HIDE DEF amount
  <2> QED  BY <1>2, <1>4, RecordMovementShape
<1>9. ToCents(amount) = ToCents(TotalAmount(s.want, s.dto.voucherCode))
  OBVIOUS
<1> HIDE DEF amount, last
<1> QED  BY <1>2, <1>3, <1>5, <1>6, <1>7, <1>8, <1>9, ZenonT(60) DEF last

LEMMA CommitGrows ==
  ASSUME IInv, NEW h \in Handlers, CommitPurchase(h), handler[h].actor \in Clients
  PROVE  Grows
<1>1. PICK p \in Purchases : p \notin Sold /\ Sold' = Sold \cup {p}
                             /\ \A q \in Purchases \ {p} : purchase'[q] = purchase[q]
  BY CommitShape
<1>2. \A q \in Sold : q \in Sold' /\ purchase'[q] = purchase[q]
  BY <1>1 DEF Sold
<1> DEFINE c == handler[h].actor
           last == Len(ledger[c]) + 1
<1>3. ASSUME NEW d \in Clients, NEW i \in DOMAIN ledger[d]
      PROVE  i \in DOMAIN ledger'[d] /\ ledger'[d][i] = ledger[d][i]
  <2>1. /\ \A e \in Clients \ {c} : ledger'[e] = ledger[e]
        /\ \A j : j \in DOMAIN ledger'[c] <=> j \in DOMAIN ledger[c] \/ j = last
        /\ \A j \in DOMAIN ledger[c] : ledger'[c][j] = ledger[c][j]
    BY CommitShape
  <2> HIDE DEF c, last
  <2> QED  BY <2>1
<1>4. UNCHANGED attempt
  BY CommitShape
<1> QED  BY <1>2, <1>3, <1>4 DEF Grows

(* The purchase that commits is the one its handler was to make, and its   *)
(* payment the only one.                                                   *)
LEMMA CommitSells ==
  ASSUME IInv, SalesInv, NEW h \in Handlers, CommitPurchase(h)
  PROVE  SalesInv'
<1> DEFINE s == handler[h]
           c == s.actor
           a == s.attempt
           last == Len(ledger[c]) + 1
           amount == TotalAmount(s.want, s.dto.voucherCode)
<1>1. /\ Sells(s) /\ s.pc = "decrementInventory" /\ c \in Clients
      /\ s.want \in [Books -> 0..MaxCopies] /\ s.dto \in Dto
      /\ a \in Attempts \cup {NULL}
  <2>1. Sells(s) /\ s.pc = "decrementInventory"
    BY DEF SalesInv, CommitPurchase
  <2> QED  BY <2>1, FieldTypes DEF Sells, Engaged, Buying, Coherent
<1>2. Grows /\ Only(h) /\ UNCHANGED attempt
  BY <1>1, CommitGrows, CommitShape
<1>3. /\ last \notin DOMAIN ledger[c]
      /\ \A d \in Clients \ {c} : ledger'[d] = ledger[d]
      /\ \A i : i \in DOMAIN ledger'[c] <=> i \in DOMAIN ledger[c] \/ i = last
      /\ \A i \in DOMAIN ledger[c] : ledger'[c][i] = ledger[c][i]
  BY <1>1, CommitShape
<1>4. PICK p \in Purchases :
        /\ p \notin Sold /\ Sold' = Sold \cup {p}
        /\ \A q \in Purchases \ {p} : purchase'[q] = purchase[q]
        /\ purchase'[p].client = c /\ purchase'[p].items = s.want
        /\ purchase'[p].total = ToCents(amount)
        /\ ledger'[c][last].type = "payment"
        /\ ledger'[c][last].amount = purchase'[p].total
        /\ ledger'[c][last].purchaseId = p
        /\ ledger'[c][last].gatewayReference = a
        /\ handler'[h] = Completed(s, p)
  BY <1>1, CommitShape
<1> HIDE DEF last, amount
<1>5. Sold \subseteq Purchases \ {p} /\ \A q \in Sold : purchase'[q] = purchase[q]
  BY <1>4 DEF Sold
<1>6. LedgerNamesSales /\ SoldToClients /\ PaidExactlyOnce
  BY DEF SalesInv
<1>7. LedgerNamesSales'
  <2> SUFFICES ASSUME NEW d \in Clients, NEW i \in DOMAIN ledger'[d],
                      ledger'[d][i].type = "payment"
               PROVE  /\ ledger'[d][i].purchaseId \in Sold'
                      /\ purchase'[ledger'[d][i].purchaseId].client = d
    BY DEF LedgerNamesSales
  <2>1. CASE d = c /\ i = last
    BY <1>4, <2>1
  <2>2. CASE ~(d = c /\ i = last)
    <3>1. i \in DOMAIN ledger[d] /\ ledger'[d][i] = ledger[d][i]
      BY <1>3, <2>2
    <3> QED  BY <1>4, <1>5, <1>6, <3>1 DEF LedgerNamesSales
  <2> QED  BY <2>1, <2>2
<1>8. SoldToClients'
  BY <1>1, <1>4, <1>5, <1>6 DEF SoldToClients
<1>9. PaymentsFor(p)' = {last}
  <2>1. \A i \in DOMAIN ledger[c] :
          ~(ledger[c][i].type = "payment" /\ ledger[c][i].purchaseId = p)
    BY <1>1, <1>4, <1>6 DEF LedgerNamesSales
  <2> QED  BY <1>3, <1>4, <2>1 DEF PaymentsFor
<1>10. ASSUME NEW q \in Sold
       PROVE  /\ PaymentsFor(q)' = PaymentsFor(q)
              /\ \A i \in PaymentsFor(q) :
                   ledger'[purchase[q].client][i] = ledger[purchase[q].client][i]
  <2>1. purchase[q].client \in Clients /\ purchase'[q] = purchase[q] /\ q # p
    BY <1>4, <1>5, <1>6 DEF SoldToClients
  <2> QED  BY <1>3, <1>4, <2>1 DEF PaymentsFor
<1>11. PaidExactlyOnce'
  <2> SUFFICES ASSUME NEW q \in Sold'
               PROVE  \E i \in PaymentsFor(q)' :
                        /\ PaymentsFor(q)' = {i}
                        /\ ledger'[purchase'[q].client][i].amount = purchase'[q].total
    BY DEF PaidExactlyOnce
  <2>1. CASE q = p
    BY <1>4, <1>9, <2>1
  <2>2. CASE q # p
    <3>1. q \in Sold
      BY <1>4, <2>2
    <3>2. PICK i \in PaymentsFor(q) :
            /\ PaymentsFor(q) = {i}
            /\ ledger[purchase[q].client][i].amount = purchase[q].total
      BY <1>6, <3>1 DEF PaidExactlyOnce
    <3> QED  BY <1>5, <1>10, <3>1, <3>2
  <2> QED  BY <2>1, <2>2
<1>12. AttemptsAreSnapshots' /\ ApprovedIsBought'
  BY <1>2, AttemptsStay
<1>13. Sells(handler[h])'
  <2>1. CASE a = NULL
    <3>1. handler'[h] = IdleHandler
      BY <1>4, <2>1 DEF Completed
    <3> QED  BY <3>1, SellsNothing DEF IdleHandler, Buying, Paying
  <2>2. CASE a # NULL
    <3>1. /\ handler'[h].pc = "approve" /\ handler'[h].actor = c
          /\ handler'[h].attempt = a /\ handler'[h].purchaseId = p
      BY <1>4, <2>2 DEF Completed, IdleHandler
    <3>2. /\ a \in Attempts /\ attempt[a].status # "none" /\ c = attempt[a].client
          /\ s.want = attempt[a].items /\ s.dto = attempt[a].dto
          /\ attempt[a].amount = PaymentAmount(attempt[a].items, attempt[a].dto.voucherCode)
      BY <1>1, <2>2 DEF Sells, Buying, WorksFor, SalesInv, AttemptsAreSnapshots
    <3>3. ToCents(amount) - attempt[a].amount \in -1..1
      <4> DEFINE x == Subtotal(s.want) * (100 + TaxPercent)
                 left == PercentLeft(s.dto.voucherCode)
      <4>1. left \in 1..100 /\ amount = x * left
        BY PercentagesAreNatural DEF PercentLeft, amount, TotalAmount
      <4>2. x \in Nat /\ TotalAmount(s.want, NULL) = x * 100
        <5>1. TotalAmount(s.want, NULL) = x * 100
          BY DEF TotalAmount, PercentLeft
        <5>2. x \in Nat
          BY <1>1, SubtotalType, PercentagesAreNatural
        <5> QED  BY <5>1, <5>2
      <4>3. attempt[a].amount = ToCents(ToCents(x * 100) * 100 * left)
        BY <3>2, <4>2 DEF PaymentAmount
      <4> HIDE DEF x, left
      <4> QED  BY <4>1, <4>2, <4>3, AmountsWithinACent
    <3>4. WorksFor(handler[h])'
      BY <1>2, <3>1, <3>2, Zenon DEF WorksFor
    <3>5. BoughtBy(handler[h].attempt, handler[h].purchaseId)'
      BY <1>2, <1>4, <1>9, <3>1, <3>2, <3>3 DEF BoughtBy
    <3> QED  BY <1>1, <3>1, <3>4, <3>5 DEF Sells, Engaged, Buying, Paying
  <2> QED  BY <2>1, <2>2
<1>14. \A g \in Handlers : Sells(handler[g])'
  BY <1>2, <1>13, OthersSell
<1> QED  BY <1>7, <1>8, <1>11, <1>12, <1>14 DEF SalesInv

(* Steps that write neither ledgers nor purchases nor attempts. *)
LEMMA QuietSells ==
  ASSUME SalesInv, UNCHANGED <<ledger, purchase, attempt>>, NEW h \in Handlers, Only(h),
         Sells(handler[h])'
  PROVE  SalesInv'
<1>1. Grows
  BY GrowsTrivially
<1>2. \A g \in Handlers : Sells(handler[g])'
  BY <1>1, OthersSell
<1> QED  BY <1>1, <1>2, SalesStay, AttemptsStay DEF SalesInv

LEMMA RequestSells ==
  ASSUME IInv, SalesInv, NEW h \in Handlers, PurchaseRequest(h) \/ PaymentRequest(h) \/ FailApprove(h)
  PROVE  SalesInv'
<1> USE DEF Engaged, Buying, Paying
<1>1. CASE PurchaseRequest(h)
  <2>1. /\ Only(h) /\ handler'[h].pc = "recheckCart" /\ handler'[h].actor \in Clients
        /\ handler'[h].attempt = NULL /\ UNCHANGED <<ledger, purchase, attempt>>
    BY <1>1, PurchaseRequestShape DEF dbVars
  <2> QED  BY <2>1, QuietSells DEF Sells
<1>2. CASE FailApprove(h)
  <2>1. /\ Only(h) /\ handler[h].pc = "approve" /\ handler'[h].pc = "fail"
        /\ handler'[h].actor = handler[h].actor /\ handler'[h].attempt = handler[h].attempt
        /\ UNCHANGED <<ledger, purchase, attempt>>
    BY <1>2, FailApproveShape DEF dbVars, Continues
  <2>2. WorksFor(handler[h])
    BY <2>1 DEF SalesInv, Sells
  <2>3. WorksFor(handler[h])'
    BY <2>1, <2>2 DEF WorksFor
  <2> QED  BY <2>1, <2>3, QuietSells DEF Sells
<1>3. ASSUME NEW a \in Attempts, NEW status \in WebhookStatuses, ReceiveWebhook(h, a, status)
      PROVE  SalesInv'
  <2>1. /\ Only(h) /\ UNCHANGED <<ledger, purchase, attempt>>
        /\ attempt[a].status # "none"
        /\ handler'[h].pc = IF status = "approved" THEN "claim" ELSE "overwrite"
        /\ handler'[h].actor = attempt[a].client
        /\ handler'[h].attempt = a /\ handler'[h].webhook = status
    BY <1>3, ReceiveWebhookShape DEF dbVars
  <2>2. WorksFor(handler[h])'
    BY <2>1 DEF WorksFor
  <2> QED  BY <2>1, <2>2, QuietSells DEF Sells
<1>4. ASSUME NEW c \in Clients, NEW dto \in PurchaseDtos, InitiatePayment(h, c, dto)
      PROVE  SalesInv'
  <2>1. PICK a \in Attempts :
          /\ Only(h) /\ attempt[a].status = "none"
          /\ handler'[h].pc = "createCheckoutSession" /\ handler'[h].actor = c
          /\ handler'[h].attempt = a
          /\ \E row : /\ WritesAttempt(a, row) /\ row.status = "pending" /\ row.client = c
                      /\ row.amount = PaymentAmount(row.items, row.dto.voucherCode)
    BY <1>4, InitiatePaymentShape
  <2>2. PICK row : /\ WritesAttempt(a, row) /\ row.status = "pending" /\ row.client = c
                   /\ row.amount = PaymentAmount(row.items, row.dto.voucherCode)
    BY <2>1
  <2>3. /\ Grows /\ attempt'[a] = row
        /\ LedgerNamesSales' /\ SoldToClients' /\ PaidExactlyOnce'
        /\ AttemptsAreSnapshots' /\ ApprovedIsBought'
    BY <2>2, <2>1, WritesAttemptSells
  <2>4. Sells(handler[h])'
    BY <2>2, <2>1, <2>3 DEF Sells, WorksFor
  <2>5. \A g \in Handlers : Sells(handler[g])'
    BY <2>1, <2>3, <2>4, OthersSell
  <2> QED  BY <2>3, <2>5 DEF SalesInv
<1> QED  BY <1>1, <1>2, <1>3, <1>4 DEF PaymentRequest

LEMMA SalesPreserved ==
  ASSUME IInv, IInv', SalesInv, [Next]_vars
  PROVE  SalesInv'
<1>1. \A h \in Handlers : Sells(handler[h]) /\ Engaged(handler[h])
  BY DEF SalesInv, Sells
<1>2. CASE Stands
  <2>1. Grows
    BY <1>2, GrowsTrivially DEF Stands
  <2>2. ASSUME NEW h \in Handlers PROVE Sells(handler[h])'
    <3>1. handler'[h] = handler[h] /\ Sells(handler[h]) /\ SoldToClients
      BY <1>1, <1>2 DEF Stands, SalesInv
    <3> QED  BY <2>1, <3>1, SellsStays DEF Continues
  <2> QED  BY <1>2, <2>1, <2>2, SalesStay, AttemptsStay DEF Stands, SalesInv
<1>3. ASSUME NEW h \in Handlers, Aside(h) PROVE SalesInv'
  BY <1>3, SellsNothing, QuietSells DEF Aside
<1>4. ASSUME NEW h \in Handlers, Only(h), handler[h].pc \in Buying, GoesOnBuying(h)
      PROVE  SalesInv'
  <2>1. Grows /\ SoldToClients /\ UNCHANGED <<ledger, purchase, attempt>>
    BY <1>4, GrowsTrivially DEF GoesOnBuying, dbVars, SalesInv
  <2>2. Sells(handler[h])'
    BY <1>1, <1>4, <2>1, SellsStays DEF GoesOnBuying
  <2> QED  BY <1>4, <2>1, <2>2, QuietSells
<1>5. ASSUME NEW h \in Handlers, Only(h), handler[h].pc \in Buying, Fails(h)
      PROVE  SalesInv'
  <2>1. Grows /\ SoldToClients /\ UNCHANGED <<ledger, purchase, attempt>>
    BY <1>5, GrowsTrivially DEF Fails, dbVars, SalesInv
  <2> QED  BY <1>1, <1>5, <2>1, SellsFailed, QuietSells
<1>6. ASSUME NEW h \in Handlers, PurchaseStep(h) PROVE SalesInv'
  BY <1>4, <1>5, <1>6, PurchaseShape, CommitSells
<1> QED  BY <1>1, <1>2, <1>3, <1>5, <1>6, Cases, TopUpSells, PaymentSells, RequestSells

LEMMA SalesInit == DbInit => SalesInv
<1> SUFFICES ASSUME DbInit PROVE SalesInv
  OBVIOUS
<1>1. Sold = {} /\ \A c \in Clients : DOMAIN ledger[c] = {}
  BY DEF DbInit, Sold
<1>2. \A a \in Attempts : attempt[a].status = "none"
  BY DEF DbInit, NoAttempt
<1>3. \A h \in Handlers : Sells(handler[h])
  BY DEF DbInit, IdleHandler, Sells, Engaged, Buying, Paying
<1> QED  BY <1>1, <1>2, <1>3
         DEF SalesInv, LedgerNamesSales, SoldToClients, AttemptsAreSnapshots,
             PaidExactlyOnce, ApprovedIsBought

(* SalesInv is inductive relative to IInv.                                 *)
THEOREM SalesInvariance == Spec => []SalesInv
<1>1. IInv /\ IInv' /\ SalesInv /\ [Next]_vars => SalesInv'
  BY SalesPreserved
<1> QED  BY <1>1, SalesInit, Invariance, PTL DEF Spec

(* Purchase and payment are one: every purchase is paid by one movement of *)
(* its client's ledger, of its total, whatever races, fails or dies.       *)
THEOREM SalesArePaid == Spec => []PaidExactlyOnce
<1>1. SalesInv => PaidExactlyOnce
  BY DEF SalesInv
<1> QED  BY <1>1, SalesInvariance, PTL

(* An approved attempt has the purchase it asked for, for the amount it    *)
(* asked but for a cent, however its webhooks race.                        *)
THEOREM ApprovedAttemptsBuy == Spec => []ApprovedIsBought
<1>1. SalesInv => ApprovedIsBought
  BY DEF SalesInv
<1> QED  BY <1>1, SalesInvariance, PTL

-----------------------------------------------------------------------------
(* The copies a purchase takes. *)

(* The copies of book b that the uncommitted writes d take out of the shop.*)
SoldOf(d, b) == SumFunction([s \in Stores |-> d[<<b, s>>].sold])

(* What a purchase in its transaction has taken and what it still needs is *)
(* what it wants.                                                          *)
Accounted(s, d) ==
  /\ s.pc \in {"getReservedQuantities", "validateInventory", "readReserved"} => d = NoDelta
  /\ s.pc \in Taking => \A b \in Books : SoldOf(d, b) + s.need[b] = s.want[b]

AccountsInv ==
  /\ SoldAsBought
  /\ \A h \in Handlers : Accounted(handler[h], delta[h])

LEMMA SoldOfType ==
  ASSUME NEW d \in [Rows -> DeltaRow], NEW b \in Books
  PROVE  SoldOf(d, b) \in Int
<1> DEFINE f == [s \in Stores |-> d[<<b, s>>].sold]
<1>1. f \in [Stores -> Int]
  BY DEF Rows, DeltaRow
<1> HIDE DEF f
<1>2. SumFunction(f) \in Int
  BY <1>1, IdsAreFinite, SumFunctionType
<1> QED  BY <1>2 DEF SoldOf, f

LEMMA NothingSold == \A b \in Books : SoldOf(NoDelta, b) = 0
<1> SUFFICES ASSUME NEW b \in Books PROVE SoldOf(NoDelta, b) = 0
  OBVIOUS
<1>1. [s \in Stores |-> NoDelta[<<b, s>>].sold] = [s \in Stores |-> 0]
  BY DEF NoDelta, Rows
<1> QED  BY <1>1, IdsAreFinite, SumZero DEF SoldOf

(* One row of the uncommitted writes changes. *)
LEMMA SoldOfMoves ==
  ASSUME NEW d \in [Rows -> DeltaRow], NEW e \in [Rows -> DeltaRow], NEW w \in Rows, NEW n \in Int,
         e[w].sold = d[w].sold + n,
         \A x \in Rows \ {w} : e[x].sold = d[x].sold
  PROVE  \A b \in Books : SoldOf(e, b) = SoldOf(d, b) + (IF b = w[1] THEN n ELSE 0)
<1> SUFFICES ASSUME NEW b \in Books
             PROVE  SoldOf(e, b) = SoldOf(d, b) + (IF b = w[1] THEN n ELSE 0)
  OBVIOUS
<1> DEFINE f == [s \in Stores |-> d[<<b, s>>].sold]
           g == [s \in Stores |-> e[<<b, s>>].sold]
<1>1. f \in [Stores -> Int] /\ g \in [Stores -> Int]
  BY DEF Rows, DeltaRow
<1>2. CASE b = w[1]
  <2>1. w[2] \in Stores /\ w = <<b, w[2]>>
    BY <1>2 DEF Rows
  <2>2. \A s \in Stores \ {w[2]} : <<b, s>> \in Rows \ {w}
    BY <2>1 DEF Rows
  <2>3. /\ \A s \in Stores \ {w[2]} : f[s] = g[s]
        /\ g[w[2]] = f[w[2]] + n
    BY <2>1, <2>2
  <2>4. g[w[2]] - f[w[2]] = n
    BY <1>1, <2>1, <2>3
  <2> HIDE DEF f, g
  <2>5. SumFunction(g) = SumFunction(f) + (g[w[2]] - f[w[2]])
    BY <1>1, <2>1, <2>3, IdsAreFinite, SumChange
  <2> QED  BY <1>2, <2>4, <2>5 DEF SoldOf, f, g
<1>3. CASE b # w[1]
  <2>1. \A s \in Stores : <<b, s>> \in Rows \ {w}
    BY <1>3 DEF Rows
  <2>2. f = g
    BY <2>1
  <2>3. SoldOf(e, b) = SoldOf(d, b)
    BY <2>2 DEF SoldOf
  <2> QED  BY <1>3, <2>3, SoldOfType
<1> QED  BY <1>2, <1>3

(* A row that gives copies to a purchase.                                  *)
LEMMA TakingAccounts ==
  ASSUME IInv, NEW h \in Handlers, Accounted(handler[h], delta[h]), handler[h].pc \in Taking,
         NEW e \in ItemEntry \cup StockEntry, NEW a \in Int, NEW r \in Int, NEW take \in Nat,
         UpdateInventory(h, e.row, a, r, take),
         handler'[h].pc \in Taking, handler'[h].want = handler[h].want,
         handler'[h].need = [handler[h].need EXCEPT ![e.row[1]] = handler[h].need[e.row[1]] - take]
  PROVE  Accounted(handler'[h], delta'[h])
<1> DEFINE d == delta[h]
           d2 == delta'[h]
           b == e.row[1]
<1>1. d \in [Rows -> DeltaRow] /\ e.row \in Rows /\ b \in Books /\ handler[h].need \in [Books -> Nat]
      /\ handler[h].want \in [Books -> Nat]
  BY EntryTypes, FieldTypes DEF IInv, TypeOK
<1>2. d2 = [d EXCEPT ![e.row] = [available |-> @.available + a, reserved |-> @.reserved + r,
                                 sold |-> @.sold + take]]
  BY <1>1 DEF UpdateInventory, IInv, TypeOK
<1>3. /\ d2 \in [Rows -> DeltaRow] /\ d2[e.row].sold = d[e.row].sold + take
      /\ \A x \in Rows \ {e.row} : d2[x].sold = d[x].sold
  BY <1>1, <1>2 DEF DeltaRow
<1> HIDE DEF d, d2
<1>4. \A x \in Books : SoldOf(d2, x) = SoldOf(d, x) + (IF x = b THEN take ELSE 0)
  BY <1>1, <1>3, SoldOfMoves, SMTT(30)
<1>5. \A x \in Books : SoldOf(d, x) + handler[h].need[x] = handler[h].want[x]
  BY DEF Accounted, d
<1>6. \A x \in Books : SoldOf(d2, x) + handler'[h].need[x] = handler[h].want[x]
  BY <1>1, <1>4, <1>5, SoldOfType
<1> QED  BY <1>6 DEF Accounted, Taking, d2

LEMMA PurchaseAccounts ==
  ASSUME IInv, NEW h \in Handlers, Accounted(handler[h], delta[h]), PurchaseStep(h)
  PROVE  Accounted(handler'[h], delta'[h])
<1>1. /\ handler \in [Handlers -> HandlerState] /\ delta \in [Handlers -> [Rows -> DeltaRow]]
      /\ handler[h] \in HandlerState
  BY DEF IInv, TypeOK
<1>2. ASSUME handler'[h].pc \notin Buying PROVE Accounted(handler'[h], delta'[h])
  BY <1>2 DEF Accounted, Buying, Taking
<1>3. ASSUME Throw(h) PROVE Accounted(handler'[h], delta'[h])
  <2>1. handler'[h] = Failed(handler[h])
    BY <1>1, <1>3 DEF Throw
  <2> QED  BY <1>2, <2>1 DEF Failed, IdleHandler, Buying
<1>4. CASE RecheckCart(h)
  <2>1. delta[h] = NoDelta /\ delta'[h] = NoDelta
    BY <1>4, FieldTypes DEF RecheckCart, Coherent, InTransaction
  <2>2. CASE handler'[h] = Failed(handler[h])
    BY <1>2, <2>2 DEF Failed, IdleHandler, Buying
  <2>3. CASE handler'[h] # Failed(handler[h])
    <3>1. handler'[h].pc = "getReservedQuantities"
      BY <1>1, <1>4, <2>3 DEF RecheckCart, Goto, HandlerState
    <3> QED  BY <2>1, <3>1 DEF Accounted, Taking
  <2> QED  BY <2>2, <2>3
<1>5. CASE GetReservedQuantities(h) \/ ValidateInventory(h)
  <2>1. CASE Throw(h)
    BY <1>3, <2>1
  <2>2. CASE ~Throw(h)
    <3>1. /\ handler[h].pc \in {"getReservedQuantities", "validateInventory"}
          /\ delta'[h] = delta[h]
      BY <1>5, <2>2 DEF GetReservedQuantities, ValidateInventory
    <3>2. CASE GetReservedQuantities(h)
      <4>1. handler'[h].pc = "validateInventory"
        BY <1>1, <2>2, <3>2 DEF GetReservedQuantities, HandlerState
      <4> QED  BY <3>1, <4>1 DEF Accounted, Taking
    <3>3. CASE ValidateInventory(h)
      <4>1. PICK waitlisted :
              handler' = [handler EXCEPT ![h].pc = "readReserved",
                                         ![h].waitlisted = waitlisted, ![h].own = {}]
        BY <2>2, <3>3 DEF ValidateInventory
      <4>2. handler'[h].pc = "readReserved"
        BY <1>1, <4>1 DEF HandlerState
      <4> QED  BY <3>1, <4>2 DEF Accounted, Taking
    <3> QED  BY <1>5, <3>2, <3>3
  <2> QED  BY <2>1, <2>2
<1>6. CASE ReadReserved(h)
  <2>1. /\ delta'[h] = NoDelta /\ handler'[h].pc = "consumeReserved"
        /\ handler'[h].need = handler[h].want /\ handler'[h].want = handler[h].want
    BY <1>1, <1>6 DEF ReadReserved, Accounted, HandlerState
  <2>2. handler[h].want \in [Books -> Nat]
    BY FieldTypes
  <2> QED  BY <2>1, <2>2, NothingSold DEF Accounted, Taking
<1>7. ASSUME NEW e \in handler[h].todo, NEW a \in Int, NEW r \in Int,
             handler[h].pc \in Taking, handler'[h].pc \in Taking,
             handler'[h].want = handler[h].want,
             UpdateInventory(h, e.row, a, r, Smaller(handler[h].need[e.row[1]], e.cap)),
             handler'[h].need = [handler[h].need EXCEPT ![e.row[1]] =
               handler[h].need[e.row[1]] - Smaller(handler[h].need[e.row[1]], e.cap)]
      PROVE  Accounted(handler'[h], delta'[h])
  <2>1. /\ e \in ItemEntry \cup StockEntry /\ handler[h].need[e.row[1]] \in Nat /\ e.cap \in Nat
    BY FieldTypes, EntryTypes
  <2>2. Smaller(handler[h].need[e.row[1]], e.cap) \in Nat
    BY <2>1, SmallerType
  <2> QED  BY <1>7, <2>1, <2>2, TakingAccounts
<1>8. CASE ConsumeItem(h)
  <2>1. PICK e \in handler[h].todo :
          LET b == e.row[1]
              take == Smaller(handler[h].need[b], e.cap)
              remaining == handler[h].need[b] - take
          IN
          /\ handler[h].pc = "consumeReserved"
          /\ UpdateInventory(h, e.row, 0, -take, take)
          /\ handler' = [handler EXCEPT
               ![h].need[b] = remaining,
               ![h].left = @ \cup {[e EXCEPT !.cap = @ - take]},
               ![h].todo = {f \in @ \ {e} : f.row[1] = b => remaining > 0}]
    BY <1>8, Zenon DEF ConsumeItem
  <2> DEFINE take == Smaller(handler[h].need[e.row[1]], e.cap)
  <2>2. /\ handler'[h].pc = "consumeReserved" /\ handler'[h].want = handler[h].want
        /\ handler'[h].need = [handler[h].need EXCEPT ![e.row[1]] = handler[h].need[e.row[1]] - take]
    BY <1>1, <2>1 DEF HandlerState
  <2>3. take \in Nat
    BY FieldTypes, EntryTypes, SmallerType, Zenon
  <2>4. /\ handler[h].pc = "consumeReserved"
        /\ UpdateInventory(h, e.row, 0, -take, Smaller(handler[h].need[e.row[1]], e.cap))
    BY <2>1
  <2> HIDE DEF take
  <2>5. 0 \in Int /\ -take \in Int
    BY <2>3
  <2> QED  BY <1>7, <2>2, <2>4, <2>5, Zenon DEF Taking, take
<1>9. CASE DecrementInventory(h)
  <2>1. PICK e \in handler[h].todo :
          LET b == e.row[1]
              take == Smaller(handler[h].need[b], e.cap)
              remaining == handler[h].need[b] - take
          IN
          /\ handler[h].pc = "decrementInventory"
          /\ UpdateInventory(h, e.row, -take, 0, take)
          /\ handler' = [handler EXCEPT
               ![h].need[b] = remaining,
               ![h].todo = {f \in @ \ {e} : f.row[1] = b => remaining > 0}]
    BY <1>9, Zenon DEF DecrementInventory
  <2> DEFINE take == Smaller(handler[h].need[e.row[1]], e.cap)
  <2>2. /\ handler'[h].pc = "decrementInventory" /\ handler'[h].want = handler[h].want
        /\ handler'[h].need = [handler[h].need EXCEPT ![e.row[1]] = handler[h].need[e.row[1]] - take]
    BY <1>1, <2>1 DEF HandlerState
  <2>3. take \in Nat
    BY FieldTypes, EntryTypes, SmallerType
  <2>4. /\ handler[h].pc = "decrementInventory"
        /\ UpdateInventory(h, e.row, -take, 0, Smaller(handler[h].need[e.row[1]], e.cap))
    BY <2>1
  <2> HIDE DEF take
  <2>5. 0 \in Int /\ -take \in Int
    BY <2>3
  <2> QED  BY <1>7, <2>2, <2>4, <2>5, Zenon DEF Taking, take
<1>10. ASSUME handler[h].pc \in Taking, handler'[h].pc \in Taking, delta'[h] = delta[h],
              handler'[h].need = handler[h].need, handler'[h].want = handler[h].want
       PROVE  Accounted(handler'[h], delta'[h])
  BY <1>10 DEF Accounted, Taking
<1>11. CASE RewriteItems(h)
  BY <1>1, <1>3, <1>10, <1>11 DEF RewriteItems, HandlerState, Taking
<1>12. CASE CreateRecord(h)
  BY <1>1, <1>3, <1>10, <1>12 DEF CreateRecord, Goto, HandlerState, Taking
<1>13. CASE ReadInventory(h)
  BY <1>1, <1>10, <1>13 DEF ReadInventory, HandlerState, Taking
<1>14. CASE FailShipment(h)
  BY <1>3, <1>14 DEF FailShipment
<1>15. CASE CommitPurchase(h)
  <2>1. \E p : handler'[h] = Completed(handler[h], p)
    BY <1>1, <1>15 DEF CommitPurchase
  <2> QED  BY <1>2, <2>1, SMTT(30) DEF Completed, IdleHandler, Buying
<1> QED  BY <1>4, <1>5, <1>6, <1>8, <1>9, <1>11, <1>12, <1>13, <1>14, <1>15 DEF PurchaseStep

(* What the purchase took is what it had accounted for.                    *)
LEMMA CommitAccounts ==
  ASSUME IInv, SoldAsBought, NEW h \in Handlers, handler[h].actor \in Clients,
         Accounted(handler[h], delta[h]), CommitPurchase(h)
  PROVE  SoldAsBought'
<1> DEFINE d == delta[h]
           Taken(p, b) == SumFunction([s \in Stores |-> purchase[p].taken[<<b, s>>]])
<1>1. PICK p \in Purchases :
        /\ p \notin Sold /\ Sold' = Sold \cup {p}
        /\ \A q \in Purchases \ {p} : purchase'[q] = purchase[q]
        /\ purchase'[p].items = handler[h].want
        /\ purchase'[p].waitlisted = handler[h].waitlisted
        /\ purchase'[p].taken = [w \in Rows |-> delta[h][w].sold]
  BY CommitShape
<1>2. handler[h].pc = "decrementInventory" /\ MayShip(h)
  BY DEF CommitPurchase
<1>3. /\ \A b \in Books : SoldOf(d, b) + handler[h].need[b] = handler[h].want[b]
      /\ handler[h].need \in [Books -> Nat] /\ handler[h].want \in [Books -> Nat]
      /\ d \in [Rows -> DeltaRow]
  BY <1>2, FieldTypes DEF Accounted, Taking, IInv, TypeOK
<1>4. ASSUME NEW b \in Books
      PROVE  IF handler[h].waitlisted THEN SoldOf(d, b) <= handler[h].want[b]
             ELSE SoldOf(d, b) = handler[h].want[b]
  <2> HIDE DEF d
  <2>1. /\ SoldOf(d, b) \in Int /\ handler[h].need[b] \in Nat /\ handler[h].want[b] \in Nat
        /\ SoldOf(d, b) + handler[h].need[b] = handler[h].want[b]
    BY <1>3, SoldOfType
  <2>2. ~handler[h].waitlisted => handler[h].need[b] = 0
    BY <1>2 DEF MayShip, NoBooks
  <2> QED  BY <2>1, <2>2
<1>5. ASSUME NEW b \in Books
      PROVE  SumFunction([s \in Stores |-> purchase'[p].taken[<<b, s>>]]) = SoldOf(d, b)
  <2>1. [s \in Stores |-> purchase'[p].taken[<<b, s>>]] = [s \in Stores |-> d[<<b, s>>].sold]
    BY <1>1 DEF Rows
  <2> QED  BY <2>1 DEF SoldOf
<1> HIDE DEF d
<1> SUFFICES ASSUME NEW q \in Sold', NEW b \in Books
             PROVE  LET taken == SumFunction([s \in Stores |-> purchase'[q].taken[<<b, s>>]])
                    IN  IF purchase'[q].waitlisted THEN taken <= purchase'[q].items[b]
                        ELSE taken = purchase'[q].items[b]
  BY DEF SoldAsBought
<1>6. CASE q = p
  BY <1>1, <1>4, <1>5, <1>6
<1>7. CASE q # p
  <2>1. q \in Sold /\ purchase'[q] = purchase[q]
    BY <1>1, <1>7 DEF Sold
  <2> QED  BY <2>1 DEF SoldAsBought
<1> QED  BY <1>6, <1>7

LEMMA AccountsPreserved ==
  ASSUME IInv, IInv', SalesInv, AccountsInv, [Next]_vars
  PROVE  AccountsInv'
<1>1. \A h \in Handlers : Engaged(handler[h]) /\ Accounted(handler[h], delta[h])
  BY DEF SalesInv, Sells, AccountsInv
<1>2. ASSUME UNCHANGED purchase PROVE SoldAsBought'
  BY <1>2 DEF AccountsInv, SoldAsBought, Sold
<1>3. ASSUME NEW h \in Handlers, Only(h), Accounted(handler'[h], delta'[h])
      PROVE  \A g \in Handlers : Accounted(handler'[g], delta'[g])
  BY <1>1, <1>3 DEF Only
<1>4. ASSUME NEW h \in Handlers, UNCHANGED purchase, Only(h),
             handler'[h].pc \notin Buying \/ handler'[h].pc = "recheckCart"
      PROVE  AccountsInv'
  <2>1. Accounted(handler'[h], delta'[h])
    BY <1>4 DEF Accounted, Buying, Taking
  <2> QED  BY <1>2, <1>3, <1>4, <2>1 DEF AccountsInv
<1>5. CASE Stands \/ \E c \in Clients, amount \in TopUpAmounts : TopUp(c, amount)
  <2>1. UNCHANGED <<purchase, handler, delta>>
    BY <1>5 DEF Stands, TopUp
  <2> QED  BY <1>1, <1>2, <2>1 DEF AccountsInv
<1>6. ASSUME NEW h \in Handlers, Aside(h) PROVE AccountsInv'
  BY <1>4, <1>6 DEF Aside
<1>7. ASSUME NEW h \in Handlers, PurchaseRequest(h) PROVE AccountsInv'
  BY <1>4, <1>7, PurchaseRequestShape DEF dbVars
<1>8. ASSUME NEW h \in Handlers, Only(h), Fails(h) PROVE AccountsInv'
  <2>1. handler'[h].pc \notin Buying /\ UNCHANGED purchase
    BY <1>8 DEF Fails, Failed, IdleHandler, Buying, dbVars
  <2> QED  BY <1>4, <1>8, <2>1
<1>9. ASSUME NEW h \in Handlers, PaymentStep(h) PROVE AccountsInv'
  <2>1. Only(h) /\ (handler'[h] = IdleHandler \/ handler'[h].pc = "recheckCart")
    BY <1>9, PaymentShape, Zenon
  <2>2. UNCHANGED purchase
    BY <1>9, PaymentShape, Zenon DEF WritesAttempt, dbVars
  <2> QED  BY <1>4, <2>1, <2>2, SMTT(30) DEF IdleHandler, Buying
<1>10. ASSUME NEW h \in Handlers, FailApprove(h) PROVE AccountsInv'
  BY <1>4, <1>10, FailApproveShape DEF Buying, dbVars
<1>11. ASSUME NEW h \in Handlers, PaymentRequest(h) PROVE AccountsInv'
  <2>1. ASSUME NEW a \in Attempts, NEW status \in WebhookStatuses, ReceiveWebhook(h, a, status)
        PROVE  AccountsInv'
    BY <1>4, <2>1, ReceiveWebhookShape DEF Buying, dbVars
  <2>2. ASSUME NEW c \in Clients, NEW dto \in PurchaseDtos, InitiatePayment(h, c, dto)
        PROVE  AccountsInv'
    BY <1>4, <2>2, InitiatePaymentShape DEF WritesAttempt, Buying
  <2> QED  BY <1>11, <2>1, <2>2 DEF PaymentRequest
<1>12. ASSUME NEW h \in Handlers, PurchaseStep(h) PROVE AccountsInv'
  <2>1. Only(h) /\ handler[h].actor \in Clients
    BY <1>1, <1>12, PurchaseShape DEF Engaged
  <2>2. \A g \in Handlers : Accounted(handler'[g], delta'[g])
    BY <1>1, <1>3, <1>12, <2>1, PurchaseAccounts
  <2>3. SoldAsBought'
    <3>1. CASE CommitPurchase(h)
      BY <1>1, <2>1, <3>1, CommitAccounts DEF AccountsInv
    <3>2. CASE ~CommitPurchase(h)
      <4>1. UNCHANGED purchase
        BY <1>12, <3>2, PurchaseShape DEF GoesOnBuying, Fails, dbVars
      <4> QED  BY <1>2, <4>1
    <3> QED  BY <3>1, <3>2
  <2> QED  BY <2>2, <2>3 DEF AccountsInv
<1> QED  BY <1>1, <1>5, <1>6, <1>7, <1>8, <1>9, <1>10, <1>11, <1>12, Cases

LEMMA AccountsInit == DbInit => AccountsInv
<1> SUFFICES ASSUME DbInit PROVE AccountsInv
  OBVIOUS
<1>1. Sold = {}
  BY DEF DbInit, Sold
<1>2. \A h \in Handlers : handler[h].pc = "idle"
  BY DEF DbInit, IdleHandler
<1> QED  BY <1>1, <1>2 DEF AccountsInv, SoldAsBought, Accounted, Taking

(* AccountsInv is inductive relative to IInv and SalesInv.                 *)
THEOREM AccountsInvariance == Spec => []AccountsInv
<1>1. IInv /\ IInv' /\ SalesInv /\ AccountsInv /\ [Next]_vars => AccountsInv'
  BY AccountsPreserved
<1> QED  BY <1>1, AccountsInit, Invariance, SalesInvariance, PTL DEF Spec

(* A purchase takes out of the shop exactly the copies it sells, from the  *)
(* client's reservations and from stock, whoever else takes copies between *)
(* its statements; only one on the waiting list may be short.              *)
THEOREM SalesTakeWhatTheySell == Spec => []SoldAsBought
<1>1. AccountsInv => SoldAsBought
  BY DEF AccountsInv
<1> QED  BY <1>1, AccountsInvariance, PTL

-----------------------------------------------------------------------------
(* A payment attempt buys once, if no webhook reports "pending": such a    *)
(* one would open a claimed attempt again.                                 *)

(* A row of a ledger carries the reference of attempt a. *)
Pays(a, c, i) == i \in DOMAIN ledger[c] /\ ledger[c][i].gatewayReference = a

(* h buys for attempt a. *)
Buys(h, a) == handler[h].pc \in Buying /\ handler[h].attempt = a

Claimed(a) == attempt[a].status \notin {"none", "pending"}

(* An attempt that buys or has paid was claimed, by one handler, that has  *)
(* not paid yet or has paid once.                                          *)
BoughtOnce ==
  /\ \A h \in Handlers, a \in Attempts : Buys(h, a) =>
       Claimed(a) /\ \A c \in Clients, i \in Nat : ~Pays(a, c, i)
  /\ \A g, h \in Handlers, a \in Attempts : Buys(g, a) /\ Buys(h, a) => g = h
  /\ \A a \in Attempts, c \in Clients, i \in Nat : Pays(a, c, i) =>
       Claimed(a) /\ \A d \in Clients, j \in Nat : Pays(a, d, j) => c = d /\ i = j

OnceInv ==
  /\ BoughtOnce
  /\ \A h \in Handlers : handler[h].pc = "overwrite" => handler[h].webhook # "pending"

(* No attempt is opened again, and nobody starts to buy or pays.           *)
LEMMA BoughtOnceStays ==
  ASSUME BoughtOnce, \A a \in Attempts : Claimed(a) => Claimed(a)',
         \A g \in Handlers, a \in Attempts : Buys(g, a)' => Buys(g, a),
         \A a \in Attempts, c \in Clients, i \in Nat : Pays(a, c, i)' => Pays(a, c, i)
  PROVE  BoughtOnce'
<1>1. ASSUME NEW h \in Handlers, NEW a \in Attempts, Buys(h, a)'
      PROVE  Claimed(a)' /\ \A c \in Clients, i \in Nat : ~Pays(a, c, i)'
  BY <1>1 DEF BoughtOnce
<1>2. \A g, h \in Handlers, a \in Attempts : Buys(g, a)' /\ Buys(h, a)' => g = h
  BY DEF BoughtOnce
<1>3. ASSUME NEW a \in Attempts, NEW c \in Clients, NEW i \in Nat, Pays(a, c, i)'
      PROVE  Claimed(a)' /\ \A d \in Clients, j \in Nat : Pays(a, d, j)' => c = d /\ i = j
  BY <1>3 DEF BoughtOnce
<1> QED  BY <1>1, <1>2, <1>3 DEF BoughtOnce

(* A row that leaves an attempt claimed. *)
LEMMA ClaimedStays ==
  ASSUME IInv, NEW a \in Attempts, NEW row, WritesAttempt(a, row),
         Claimed(a) => row.status \notin {"none", "pending"}
  PROVE  \A b \in Attempts : Claimed(b) => Claimed(b)'
<1>1. attempt' = [attempt EXCEPT ![a] = row] /\ attempt \in [Attempts -> AttemptRow]
  BY DEF WritesAttempt, IInv, TypeOK
<1> QED  BY <1>1 DEF Claimed

LEMMA OthersBuy ==
  ASSUME NEW h \in Handlers, Only(h),
         \A a \in Attempts : Buys(h, a)' => Buys(h, a)
  PROVE  \A g \in Handlers, a \in Attempts : Buys(g, a)' => Buys(g, a)
BY DEF Only, Buys

LEMMA PaymentOnce ==
  ASSUME IInv, SalesInv, OnceInv, NEW h \in Handlers, PaymentStep(h)
  PROVE  BoughtOnce'
<1> DEFINE s == handler[h]
           a == s.attempt
<1>1. Only(h) /\ s.pc \in Paying /\ Sells(s)
  BY PaymentShape, Zenon DEF Paying, SalesInv
<1>2. a \in Attempts /\ attempt[a] \in AttemptRow /\ BoughtOnce
  BY <1>1 DEF Sells, WorksFor, IInv, TypeOK, OnceInv
<1>3. \A b \in Attempts, c \in Clients, i \in Nat : Pays(b, c, i)' => Pays(b, c, i)
  <2>1. UNCHANGED ledger
    BY PaymentShape, Zenon DEF WritesAttempt, dbVars
  <2> QED  BY <2>1, Zenon DEF Pays
<1>4. CASE handler'[h] = IdleHandler
  <2>1. \A g \in Handlers, b \in Attempts : Buys(g, b)' => Buys(g, b)
    BY <1>1, <1>4, OthersBuy DEF Buys, IdleHandler, Buying
  <2>2. \A b \in Attempts : Claimed(b) => Claimed(b)'
    <3>1. ASSUME NEW status \in AttemptStatus \ {"none", "pending"},
                 WritesAttempt(a, [attempt[a] EXCEPT !.status = status])
          PROVE  \A b \in Attempts : Claimed(b) => Claimed(b)'
      <4> DEFINE row == [attempt[a] EXCEPT !.status = status]
      <4>1. row.status = status /\ WritesAttempt(a, row)
        BY <1>2, <3>1 DEF AttemptRow
      <4> HIDE DEF row, s, a
      <4> QED  BY <1>2, <4>1, ClaimedStays
    <3>2. CASE WritesAttempt(a, [attempt[a] EXCEPT !.referenced = TRUE])
      <4> DEFINE row == [attempt[a] EXCEPT !.referenced = TRUE]
      <4>1. row.status = attempt[a].status /\ WritesAttempt(a, row)
        BY <1>2, <3>2 DEF AttemptRow
      <4> HIDE DEF row, s, a
      <4> QED  BY <1>2, <4>1, ClaimedStays DEF Claimed
    <3>3. CASE WritesAttempt(a, [attempt[a] EXCEPT !.status = "approved",
                                                   !.purchaseId = s.purchaseId])
      <4> DEFINE row == [attempt[a] EXCEPT !.status = "approved", !.purchaseId = s.purchaseId]
      <4>1. row.status = "approved" /\ WritesAttempt(a, row)
        BY <1>2, <3>3 DEF AttemptRow
      <4> HIDE DEF row, s, a
      <4> QED  BY <1>2, <4>1, ClaimedStays
    <3>4. CASE s.pc = "overwrite"
               /\ WritesAttempt(a, [attempt[a] EXCEPT !.status = MapWebhookStatus(s.webhook)])
      <4>1. MapWebhookStatus(s.webhook) \in AttemptStatus \ {"none", "pending"}
        BY <3>4 DEF OnceInv, MapWebhookStatus, AttemptStatus
      <4> QED  BY <3>1, <3>4, <4>1
    <3>5. CASE UNCHANGED dbVars
      BY <3>5 DEF Claimed, dbVars
    <3>6. "failed" \in AttemptStatus \ {"none", "pending"}
      BY Zenon DEF AttemptStatus
    <3>7. \/ WritesAttempt(a, [attempt[a] EXCEPT !.referenced = TRUE])
          \/ WritesAttempt(a, [attempt[a] EXCEPT !.status = "failed"])
          \/ /\ s.pc = "overwrite"
             /\ WritesAttempt(a, [attempt[a] EXCEPT !.status = MapWebhookStatus(s.webhook)])
          \/ UNCHANGED dbVars
          \/ WritesAttempt(a, [attempt[a] EXCEPT !.status = "approved",
                                                 !.purchaseId = s.purchaseId])
      <4>1. handler'[h].pc # "recheckCart"
        BY <1>4 DEF IdleHandler
      <4> QED  BY <4>1, PaymentShape, Zenon
    <3> QED  BY <3>1, <3>2, <3>3, <3>4, <3>5, <3>6, <3>7
  <2> QED  BY <1>2, <1>3, <2>1, <2>2, BoughtOnceStays
<1>5. CASE handler'[h] # IdleHandler
  <2> DEFINE row == [attempt[a] EXCEPT !.status = "processing"]
  <2>1. /\ MayClaim(a) /\ handler'[h].attempt = a /\ WritesAttempt(a, row)
    BY <1>5, PaymentShape, Zenon DEF Continues
  <2>2. row.status = "processing"
    BY <1>2 DEF AttemptRow
  <2>3. \A b \in Attempts : Claimed(b) \/ b = a => Claimed(b)'
    <3>1. attempt'[a] = row
      BY <1>2, <2>1 DEF WritesAttempt, IInv, TypeOK
    <3> HIDE DEF row, s, a
    <3> QED  BY <1>2, <2>1, <2>2, <3>1, ClaimedStays DEF Claimed
  <2>4. ~Claimed(a)
    BY <2>1 DEF MayClaim, Claimed
  <2>5. \A g \in Handlers, b \in Attempts : Buys(g, b)' => Buys(g, b) \/ (g = h /\ b = a)
    BY <1>1, <2>1 DEF Only, Buys
  <2>6. /\ \A g \in Handlers : ~Buys(g, a)
        /\ \A c \in Clients, i \in Nat : ~Pays(a, c, i)
    BY <1>2, <2>4 DEF BoughtOnce
  <2> HIDE DEF row, s, a
  <2>7. ASSUME NEW g \in Handlers, NEW b \in Attempts, Buys(g, b)'
        PROVE  Claimed(b)' /\ \A c \in Clients, i \in Nat : ~Pays(b, c, i)'
    BY <1>2, <1>3, <2>3, <2>5, <2>6, <2>7 DEF BoughtOnce
  <2>8. ASSUME NEW g \in Handlers, NEW k \in Handlers, NEW b \in Attempts, Buys(g, b)', Buys(k, b)'
        PROVE  g = k
    BY <1>2, <2>5, <2>6, <2>8 DEF BoughtOnce
  <2>9. ASSUME NEW b \in Attempts, NEW c \in Clients, NEW i \in Nat, Pays(b, c, i)'
        PROVE  Claimed(b)' /\ \A d \in Clients, j \in Nat : Pays(b, d, j)' => c = d /\ i = j
    BY <1>2, <1>3, <2>3, <2>9 DEF BoughtOnce
  <2> QED  BY <2>7, <2>8, <2>9, Zenon DEF BoughtOnce
<1> QED  BY <1>4, <1>5, Zenon

LEMMA CommitOnce ==
  ASSUME IInv, SalesInv, OnceInv, NEW h \in Handlers, CommitPurchase(h)
  PROVE  BoughtOnce'
<1> DEFINE s == handler[h]
           a == s.attempt
           c == s.actor
           last == Len(ledger[c]) + 1
<1>1. s.pc = "decrementInventory" /\ c \in Clients
  <2>1. s.pc = "decrementInventory" /\ Sells(s)
    BY DEF SalesInv, CommitPurchase
  <2> QED  BY <2>1, Zenon DEF Sells, Engaged, Buying
<1>2. /\ Only(h) /\ UNCHANGED attempt
      /\ \A d \in Clients \ {c} : ledger'[d] = ledger[d]
      /\ \A i : i \in DOMAIN ledger'[c] <=> i \in DOMAIN ledger[c] \/ i = last
      /\ \A i \in DOMAIN ledger[c] : ledger'[c][i] = ledger[c][i]
      /\ ledger'[c][last].gatewayReference = a
      /\ \E p : handler'[h] = Completed(s, p)
  BY <1>1, CommitShape
<1>3. handler'[h].pc \notin Buying
  BY <1>2 DEF Completed, IdleHandler, Buying
<1> HIDE DEF last
<1>4. \A b \in Attempts : Claimed(b)' <=> Claimed(b)
  BY <1>2 DEF Claimed
<1>5. \A g \in Handlers, b \in Attempts : Buys(g, b)' => Buys(g, b) /\ g # h
  BY <1>2, <1>3 DEF Only, Buys
<1>6. \A b \in Attempts, d \in Clients, i \in Nat :
        Pays(b, d, i)' => Pays(b, d, i) \/ (b = a /\ d = c /\ i = last)
  BY <1>2 DEF Pays
<1>7. BoughtOnce /\ Buys(h, a)
  BY <1>1 DEF OnceInv, Buys, Buying
<1> HIDE DEF s, a, c
<1>8. ASSUME NEW g \in Handlers, NEW b \in Attempts, Buys(g, b)'
      PROVE  Claimed(b)' /\ \A d \in Clients, i \in Nat : ~Pays(b, d, i)'
  <2>1. b # a
    BY <1>5, <1>7, <1>8 DEF BoughtOnce
  <2> QED  BY <1>4, <1>5, <1>6, <1>7, <1>8, <2>1 DEF BoughtOnce
<1>9. ASSUME NEW g \in Handlers, NEW k \in Handlers, NEW b \in Attempts, Buys(g, b)', Buys(k, b)'
      PROVE  g = k
  BY <1>5, <1>7, <1>9 DEF BoughtOnce
<1>10. ASSUME NEW b \in Attempts, NEW d \in Clients, NEW i \in Nat, Pays(b, d, i)'
       PROVE  Claimed(b)' /\ \A e \in Clients, j \in Nat : Pays(b, e, j)' => d = e /\ i = j
  <2>1. CASE b = a
    <3>1. Claimed(b) /\ \A e \in Clients, j \in Nat : ~Pays(b, e, j)
      BY <1>7, <2>1 DEF BoughtOnce
    <3> QED  BY <1>4, <1>6, <1>10, <3>1
  <2>2. CASE b # a
    BY <1>4, <1>6, <1>7, <1>10, <2>2 DEF BoughtOnce
  <2> QED  BY <2>1, <2>2
<1> QED  BY <1>8, <1>9, <1>10 DEF BoughtOnce

LEMMA OncePreserved ==
  ASSUME "pending" \notin WebhookStatuses, IInv, IInv', SalesInv, OnceInv, [Next]_vars
  PROVE  OnceInv'
<1>1. \A h \in Handlers : Engaged(handler[h])
  BY DEF SalesInv, Sells
<1>2. BoughtOnce /\ \A h \in Handlers : handler[h].pc = "overwrite" => handler[h].webhook # "pending"
  BY DEF OnceInv
<1>3. ASSUME NEW h \in Handlers, Only(h), BoughtOnce',
             handler'[h].pc = "overwrite" => handler'[h].webhook # "pending"
      PROVE  OnceInv'
  BY <1>2, <1>3 DEF OnceInv, Only
<1>4. ASSUME UNCHANGED <<ledger, attempt>>,
             \A g \in Handlers, a \in Attempts : Buys(g, a)' => Buys(g, a)
      PROVE  BoughtOnce'
  BY <1>2, <1>4, BoughtOnceStays DEF Claimed, Pays
<1>5. ASSUME NEW h \in Handlers, Only(h), UNCHANGED <<ledger, attempt>>,
             \A a \in Attempts : Buys(h, a)' => Buys(h, a),
             handler'[h].pc = "overwrite" => handler'[h].webhook # "pending"
      PROVE  OnceInv'
  <2>1. \A g \in Handlers, a \in Attempts : Buys(g, a)' => Buys(g, a)
    BY <1>5, OthersBuy
  <2> QED  BY <1>3, <1>4, <1>5, <2>1
<1>6. CASE Stands
  BY <1>2, <1>4, <1>6 DEF Stands, Buys, OnceInv
<1>7. ASSUME NEW c \in Clients, NEW cents \in TopUpAmounts, TopUp(c, cents)
      PROVE  OnceInv'
  <2>1. /\ RecordMovement(c, "topUp", Exact(cents), NULL, NULL)
        /\ UNCHANGED <<attempt, handler>>
        /\ Exact(cents) \in Int
    BY <1>7, TopUpsArePositive DEF TopUp, Exact
  <2> DEFINE last == Len(ledger[c]) + 1
  <2>2. /\ \A d \in Clients \ {c} : ledger'[d] = ledger[d]
        /\ \A i : i \in DOMAIN ledger'[c] <=> i \in DOMAIN ledger[c] \/ i = last
        /\ \A i \in DOMAIN ledger[c] : ledger'[c][i] = ledger[c][i]
        /\ ledger'[c][last].gatewayReference = NULL
    BY <2>1, RecordMovementShape
  <2> HIDE DEF last
  <2>3. \A a \in Attempts, d \in Clients, i \in Nat : Pays(a, d, i)' => Pays(a, d, i)
    BY <2>2, NullIsNoId DEF Pays
  <2>4. \A a \in Attempts : Claimed(a) => Claimed(a)'
    BY <2>1 DEF Claimed
  <2>5. \A g \in Handlers, a \in Attempts : Buys(g, a)' => Buys(g, a)
    BY <2>1 DEF Buys
  <2> QED  BY <1>2, <2>1, <2>3, <2>4, <2>5, BoughtOnceStays DEF OnceInv
<1>8. ASSUME NEW h \in Handlers, Aside(h) PROVE OnceInv'
  BY <1>5, <1>8 DEF Aside, Buys, Buying, Paying
<1>9. ASSUME NEW h \in Handlers, PurchaseRequest(h) PROVE OnceInv'
  <2>1. /\ Only(h) /\ UNCHANGED <<ledger, attempt>> /\ handler'[h].attempt = NULL
        /\ handler'[h].pc # "overwrite"
    BY <1>9, PurchaseRequestShape DEF dbVars
  <2> QED  BY <1>5, <2>1, NullIsNoId DEF Buys
<1>10. ASSUME NEW h \in Handlers, Only(h), handler[h].pc \in Buying, Fails(h) PROVE OnceInv'
  <2>1. handler'[h].pc \in {"idle", "fail"} /\ UNCHANGED <<ledger, attempt>>
    BY <1>10 DEF Fails, Failed, IdleHandler, dbVars
  <2> QED  BY <1>5, <1>10, <2>1 DEF Buys, Buying
<1>11. ASSUME NEW h \in Handlers, PurchaseStep(h) PROVE OnceInv'
  <2>1. CASE GoesOnBuying(h)
    BY <1>5, <1>11, <2>1, PurchaseShape DEF GoesOnBuying, Continues, Buys, Buying, dbVars
  <2>2. CASE Fails(h)
    BY <1>10, <1>11, <2>2, PurchaseShape
  <2>3. CASE CommitPurchase(h)
    <3>1. Only(h) /\ \E p : handler'[h] = Completed(handler[h], p)
      BY <1>1, <1>11, <2>3, PurchaseShape, CommitShape DEF Engaged
    <3>2. handler'[h].pc # "overwrite"
      BY <3>1 DEF Completed, IdleHandler
    <3> QED  BY <1>3, <2>3, <3>1, <3>2, CommitOnce
  <2> QED  BY <1>11, <2>1, <2>2, <2>3, PurchaseShape
<1>12. ASSUME NEW h \in Handlers, PaymentStep(h) PROVE OnceInv'
  <2>1. Only(h) /\ (handler'[h] = IdleHandler \/ handler'[h].pc = "recheckCart")
    BY <1>12, PaymentShape, Zenon
  <2> QED  BY <1>3, <1>12, <2>1, PaymentOnce DEF IdleHandler
<1>13. ASSUME NEW h \in Handlers, FailApprove(h) PROVE OnceInv'
  BY <1>5, <1>13, FailApproveShape DEF Buys, Buying, dbVars
<1>14. ASSUME NEW h \in Handlers, NEW a \in Attempts, NEW status \in WebhookStatuses,
              ReceiveWebhook(h, a, status)
       PROVE  OnceInv'
  <2>1. /\ Only(h) /\ UNCHANGED <<ledger, attempt>>
        /\ handler'[h].pc \in {"claim", "overwrite"} /\ handler'[h].webhook = status
    BY <1>14, ReceiveWebhookShape DEF dbVars
  <2> QED  BY <1>5, <2>1 DEF Buys, Buying
<1>15. ASSUME NEW h \in Handlers, NEW c \in Clients, NEW dto \in PurchaseDtos,
              InitiatePayment(h, c, dto)
       PROVE  OnceInv'
  <2>1. PICK a \in Attempts :
          /\ Only(h) /\ attempt[a].status = "none" /\ handler'[h].pc = "createCheckoutSession"
          /\ \E row : WritesAttempt(a, row)
    BY <1>15, InitiatePaymentShape
  <2>2. PICK row : WritesAttempt(a, row)
    BY <2>1
  <2>3. \A b \in Attempts : Claimed(b) => Claimed(b)'
    BY <2>1, <2>2, ClaimedStays DEF Claimed
  <2>4. \A b \in Attempts, d \in Clients, i \in Nat : Pays(b, d, i)' => Pays(b, d, i)
    BY <2>2 DEF WritesAttempt, Pays
  <2>5. \A g \in Handlers, b \in Attempts : Buys(g, b)' => Buys(g, b)
    BY <2>1, OthersBuy DEF Buys, Buying
  <2>6. BoughtOnce'
    BY <1>2, <2>3, <2>4, <2>5, BoughtOnceStays
  <2> QED  BY <1>3, <2>1, <2>6
<1> QED  BY <1>1, <1>6, <1>7, <1>8, <1>9, <1>10, <1>11, <1>12, <1>13, <1>14, <1>15, Cases
         DEF PaymentRequest

LEMMA OnceInit == DbInit => OnceInv
BY DEF DbInit, IdleHandler, OnceInv, BoughtOnce, Buys, Pays, Buying

(* OnceInv is inductive relative to SalesInv, if no webhook reports        *)
(* "pending".                                                              *)
THEOREM OnceInvariance ==
  ASSUME "pending" \notin WebhookStatuses
  PROVE  Spec => []OnceInv
<1>1. IInv /\ IInv' /\ SalesInv /\ OnceInv /\ [Next]_vars => OnceInv'
  BY OncePreserved
<1> QED  BY <1>1, OnceInit, Invariance, SalesInvariance, PTL DEF Spec

(* However many webhooks arrive, whatever they report but "pending" and in *)
(* whatever order, an attempt is charged at most once.                     *)
THEOREM AttemptsBuyOnce ==
  ASSUME "pending" \notin WebhookStatuses
  PROVE  Spec => []AttemptBuysOnce
<1>1. IInv /\ OnceInv => AttemptBuysOnce
  <2> SUFFICES ASSUME IInv, OnceInv, NEW a \in Attempts
               PROVE  Cardinality(PaymentsWith(a)) <= 1
    BY DEF AttemptBuysOnce
  <2>1. \A x \in PaymentsWith(a) : x[1] \in Clients /\ x[2] \in Nat /\ Pays(a, x[1], x[2])
                                   /\ x = <<x[1], x[2]>>
    BY DEF PaymentsWith, Pays, IInv, TypeOK
  <2>2. \A x \in PaymentsWith(a), y \in PaymentsWith(a) : x = y
    BY <2>1 DEF OnceInv, BoughtOnce
  <2>3. CASE PaymentsWith(a) = {}
    BY <2>3, FS_EmptySet
  <2>4. ASSUME NEW x \in PaymentsWith(a) PROVE Cardinality(PaymentsWith(a)) <= 1
    <3>1. PaymentsWith(a) = {x}
      BY <2>2
    <3>2. Cardinality({x}) = 1
      BY FS_Singleton
    <3> QED  BY <3>1, <3>2
  <2> QED  BY <2>3, <2>4
<1> QED  BY <1>1, OnceInvariance, Invariance, PTL

-----------------------------------------------------------------------------
(* Clients that send one request at a time, and pay without webhooks.      *)

(* A client that does not overlap its requests has one handler.            *)
OneRequest ==
  \A g, h \in Handlers :
    /\ handler[g].pc # "idle" /\ handler[h].pc # "idle"
    /\ handler[g].actor = handler[h].actor /\ handler[g].actor \notin Overlapping
    => g = h

(* Nobody buys for a webhook. *)
NoWebhooks ==
  \A h \in Handlers :
    /\ handler[h].pc \notin {"claim", "overwrite", "approve", "fail"}
    /\ handler[h].pc \in Buying => handler[h].attempt = NULL

OrderInv == OneRequest /\ NoWebhooks

(* h goes on, ends, or starts as MayStart allows it. *)
InOrder(h) ==
  /\ Only(h)
  /\ \/ MayStart(h, handler'[h].actor)
     \/ handler[h].pc # "idle" /\ handler'[h].actor = handler[h].actor
     \/ handler'[h].pc = "idle"
  /\ handler'[h].pc \notin {"claim", "overwrite", "approve", "fail"}
  /\ handler'[h].pc \in Buying => handler'[h].attempt = NULL

LEMMA InOrderStays ==
  ASSUME OrderInv, NEW h \in Handlers, InOrder(h)
  PROVE  OrderInv'
<1>1. NoWebhooks'
  BY DEF OrderInv, NoWebhooks, InOrder, Only
<1>2. ASSUME NEW g \in Handlers \ {h}, handler[g].pc # "idle", handler'[h].pc # "idle",
             handler[g].actor = handler'[h].actor, handler[g].actor \notin Overlapping
      PROVE  FALSE
  <2>1. CASE MayStart(h, handler'[h].actor)
    BY <1>2, <2>1 DEF MayStart
  <2>2. CASE handler[h].pc # "idle" /\ handler'[h].actor = handler[h].actor
    BY <1>2, <2>2 DEF OrderInv, OneRequest
  <2> QED  BY <1>2, <2>1, <2>2 DEF InOrder
<1>3. OneRequest'
  <2> SUFFICES ASSUME NEW f \in Handlers, NEW g \in Handlers,
                      handler'[f].pc # "idle", handler'[g].pc # "idle",
                      handler'[f].actor = handler'[g].actor, handler'[f].actor \notin Overlapping,
                      f # g
               PROVE  FALSE
    BY DEF OneRequest
  <2>1. CASE f = h
    BY <1>2, <2>1 DEF InOrder, Only
  <2>2. CASE g = h
    BY <1>2, <2>2 DEF InOrder, Only
  <2>3. CASE f # h /\ g # h
    BY <2>3 DEF InOrder, Only, OrderInv, OneRequest
  <2> QED  BY <2>1, <2>2, <2>3
<1> QED  BY <1>1, <1>3 DEF OrderInv

(* Without webhooks every step is one of these.                            *)
LEMMA OrderlyCases ==
  ASSUME WebhookStatuses = {}, IInv, IInv', SalesInv, OrderInv, [Next]_vars
  PROVE  \/ Stands
         \/ \E c \in Clients, amount \in TopUpAmounts : TopUp(c, amount)
         \/ \E h \in Handlers :
              /\ InOrder(h)
              /\ \/ Aside(h)
                 \/ PurchaseRequest(h)
                 \/ PurchaseStep(h) /\ GoesOnBuying(h)
                 \/ CommitPurchase(h)
                 \/ handler'[h].pc \notin Buying
                      /\ UNCHANGED <<cart, ledger, voucher, purchase, added>>
<1> USE DEF InOrder
<1>1. \A h \in Handlers : Engaged(handler[h])
  BY DEF SalesInv, Sells
<1>2. \A h \in Handlers :
        /\ handler[h].pc \notin {"claim", "overwrite", "approve", "fail"}
        /\ handler[h].pc \in Buying => handler[h].attempt = NULL
  BY DEF OrderInv, NoWebhooks
<1>3. ASSUME NEW h \in Handlers, Aside(h) PROVE InOrder(h)
  BY <1>3 DEF Aside, Follows, Continues, Buying, Paying, IdleHandler
<1>4. ASSUME NEW h \in Handlers, PurchaseRequest(h) PROVE InOrder(h)
  <2>1. /\ Only(h) /\ handler[h].pc = "idle" /\ Follows(h) /\ handler'[h].pc = "recheckCart"
        /\ handler'[h].attempt = NULL
    BY <1>4, PurchaseRequestShape
  <2> QED  BY <2>1 DEF Follows, Buying, IdleHandler
<1>5. ASSUME NEW h \in Handlers, Only(h), handler[h].pc \in Buying, Fails(h)
      PROVE  InOrder(h) /\ handler'[h].pc \notin Buying
               /\ UNCHANGED <<cart, ledger, voucher, purchase, added>>
  <2>1. handler'[h] = IdleHandler /\ UNCHANGED <<cart, ledger, voucher, purchase, added>>
    BY <1>2, <1>5 DEF Fails, Failed, dbVars
  <2> QED  BY <1>5, <2>1 DEF IdleHandler, Buying
<1>6. ASSUME NEW h \in Handlers, PurchaseStep(h), GoesOnBuying(h) PROVE InOrder(h)
  <2>1. Only(h) /\ handler[h].pc \in Buying /\ handler[h].attempt = NULL
    BY <1>2, <1>6, PurchaseShape
  <2> QED  BY <1>6, <2>1 DEF GoesOnBuying, Continues, Buying
<1>7. ASSUME NEW h \in Handlers, CommitPurchase(h) PROVE InOrder(h)
  <2>1. handler[h].pc = "decrementInventory"
    BY <1>7, Zenon DEF CommitPurchase
  <2>2. handler[h].attempt = NULL /\ handler[h].actor \in Clients
    BY <1>1, <1>2, <2>1, Zenon DEF Engaged, Buying
  <2>3. handler'[h] = IdleHandler /\ Only(h)
    BY <1>7, <2>2, CommitShape, Zenon DEF Completed
  <2> QED  BY <2>3, SMTT(30) DEF IdleHandler, Buying
<1>8. ASSUME NEW h \in Handlers, PaymentRequest(h)
      PROVE  InOrder(h) /\ handler'[h].pc \notin Buying
               /\ UNCHANGED <<cart, ledger, voucher, purchase, added>>
  <2>1. PICK c \in Clients, dto \in PurchaseDtos : InitiatePayment(h, c, dto)
    BY <1>8 DEF PaymentRequest
  <2>2. /\ Only(h) /\ MayStart(h, c) /\ handler'[h].actor = c
        /\ handler'[h].pc = "createCheckoutSession"
        /\ UNCHANGED <<cart, ledger, voucher, purchase, added>>
    BY <2>1, InitiatePaymentShape DEF WritesAttempt
  <2> QED  BY <2>2 DEF Buying
<1>9. ASSUME NEW h \in Handlers, PaymentStep(h)
      PROVE  InOrder(h) /\ handler'[h].pc \notin Buying
               /\ UNCHANGED <<cart, ledger, voucher, purchase, added>>
  <2>1. Only(h) /\ handler'[h] = IdleHandler
    BY <1>2, <1>9, PaymentShape, Zenon
  <2>2. UNCHANGED <<cart, ledger, voucher, purchase, added>>
    BY <1>9, PaymentShape, Zenon DEF WritesAttempt, dbVars
  <2> QED  BY <2>1, <2>2, SMTT(30) DEF IdleHandler, Buying
<1>10. ASSUME NEW h \in Handlers, FailApprove(h) PROVE FALSE
  BY <1>2, <1>10 DEF FailApprove
<1>11. ASSUME NEW h \in Handlers, PurchaseStep(h)
       PROVE  \/ GoesOnBuying(h)
              \/ Only(h) /\ handler[h].pc \in Buying /\ Fails(h)
              \/ CommitPurchase(h)
  BY <1>11, PurchaseShape
<1> HIDE DEF InOrder
<1> QED  BY <1>1, <1>3, <1>4, <1>5, <1>6, <1>7, <1>8, <1>9, <1>10, <1>11, Cases

LEMMA OrderPreserved ==
  ASSUME WebhookStatuses = {}, IInv, IInv', SalesInv, OrderInv, [Next]_vars
  PROVE  OrderInv'
<1>1. ASSUME UNCHANGED handler PROVE OrderInv'
  BY <1>1 DEF OrderInv, OneRequest, NoWebhooks
<1> QED  BY <1>1, OrderlyCases, InOrderStays DEF Stands, TopUp

LEMMA OrderInit == DbInit => OrderInv
BY DEF DbInit, OrderInv, OneRequest, NoWebhooks, IdleHandler, Buying

(* A client that does not overlap its requests never does, if no webhook   *)
(* acts for it.                                                            *)
THEOREM OrderInvariance ==
  ASSUME WebhookStatuses = {}
  PROVE  Spec => []OrderInv
<1>1. IInv /\ IInv' /\ SalesInv /\ OrderInv /\ [Next]_vars => OrderInv'
  BY OrderPreserved
<1> QED  BY <1>1, OrderInit, Invariance, SalesInvariance, PTL DEF Spec

(* The clients' handlers that buy are not each other's.                    *)
LEMMA OneBuyer ==
  ASSUME Overlapping \cap Clients = {}, OrderInv, NEW g \in Handlers, NEW h \in Handlers,
         handler[g].pc # "idle", handler[h].pc # "idle",
         handler[g].actor = handler[h].actor, handler[h].actor \in Clients
  PROVE  g = h
BY DEF OrderInv, OneRequest

(* A voucher that is used has one purchase, and the one a purchase is about*)
(* to use is its client's and unused.                                      *)
VoucherInv ==
  /\ \A p \in Sold : purchase[p].voucher \in Vouchers => voucher[purchase[p].voucher].isUsed
  /\ \A p, q \in Sold :
       purchase[p].voucher \in Vouchers /\ purchase[p].voucher = purchase[q].voucher => p = q
  /\ \A h \in Handlers :
       /\ handler[h].pc \in {"readInventory", "decrementInventory"}
       /\ handler[h].dto.voucherCode \in Vouchers
       => LET v == voucher[handler[h].dto.voucherCode]
          IN  v.client = handler[h].actor /\ ~v.isUsed

(* Steps that sell nothing and leave the vouchers to their clients.        *)
LEMMA VoucherStays ==
  ASSUME VoucherInv, UNCHANGED purchase,
         \A v \in Vouchers :
           voucher'[v].client = voucher[v].client /\ voucher'[v].isUsed = voucher[v].isUsed,
         \A h \in Handlers :
           /\ handler'[h].pc \in {"readInventory", "decrementInventory"}
           /\ handler'[h].dto.voucherCode \in Vouchers
           => LET v == voucher[handler'[h].dto.voucherCode]
              IN  v.client = handler'[h].actor /\ ~v.isUsed
  PROVE  VoucherInv'
<1>1. Sold' = Sold /\ purchase' = purchase
  BY DEF Sold
<1>2. \A p \in Sold : purchase[p].voucher \in Vouchers => voucher'[purchase[p].voucher].isUsed
  BY DEF VoucherInv
<1>3. \A p, q \in Sold :
       purchase[p].voucher \in Vouchers /\ purchase[p].voucher = purchase[q].voucher => p = q
  BY DEF VoucherInv
<1>4. \A h \in Handlers :
        /\ handler'[h].pc \in {"readInventory", "decrementInventory"}
        /\ handler'[h].dto.voucherCode \in Vouchers
        => /\ voucher'[handler'[h].dto.voucherCode].client = handler'[h].actor
           /\ ~voucher'[handler'[h].dto.voucherCode].isUsed
  OBVIOUS
<1> QED  BY <1>1, <1>2, <1>3, <1>4 DEF VoucherInv

(* A purchase that goes on checks the voucher before its last loop.        *)
LEMMA VoucherChecked ==
  ASSUME IInv, VoucherInv, NEW h \in Handlers, PurchaseStep(h), GoesOnBuying(h),
         handler'[h].pc \in {"readInventory", "decrementInventory"},
         handler'[h].dto.voucherCode \in Vouchers
  PROVE  LET v == voucher[handler'[h].dto.voucherCode]
         IN  v.client = handler'[h].actor /\ ~v.isUsed
<1>1. handler \in [Handlers -> HandlerState] /\ handler[h] \in HandlerState
  BY DEF IInv, TypeOK
<1>2. handler'[h].actor = handler[h].actor /\ handler'[h].dto = handler[h].dto
  BY DEF GoesOnBuying, Continues
<1>3. CASE handler[h].pc \in {"readInventory", "decrementInventory"}
  BY <1>2, <1>3 DEF VoucherInv
<1>4. CASE CreateRecord(h)
  <2>1. ASSUME Throw(h) PROVE FALSE
    <3>1. handler'[h].pc \in {"idle", "fail"}
      BY <1>1, <2>1 DEF Throw, Failed, IdleHandler
    <3> QED  BY <3>1 DEF GoesOnBuying, Buying
  <2> QED  BY <1>2, <1>4, <2>1, NullIsNoId DEF CreateRecord, VoucherIsValid
<1>5. CASE handler[h].pc \notin {"readInventory", "decrementInventory"} /\ ~CreateRecord(h)
  <2>1. handler'[h].pc \notin {"readInventory", "decrementInventory"}
    <3>1. ASSUME Throw(h) PROVE FALSE
      BY <1>1, <3>1 DEF Throw, GoesOnBuying, Failed, IdleHandler, Buying
    <3>2. CASE RecheckCart(h)
      <4>1. Failed(handler[h]).pc \in {"idle", "fail"}
        BY DEF Failed, IdleHandler
      <4> QED  BY <1>1, <3>2, <4>1 DEF RecheckCart, Goto, HandlerState
    <3>3. CASE GetReservedQuantities(h)
      BY <1>1, <3>1, <3>3 DEF GetReservedQuantities, HandlerState
    <3>4. CASE ValidateInventory(h)
      <4>1. PICK waitlisted :
              handler' = [handler EXCEPT ![h].pc = "readReserved",
                                         ![h].waitlisted = waitlisted, ![h].own = {}]
        BY <3>1, <3>4 DEF ValidateInventory
      <4> QED  BY <1>1, <4>1 DEF HandlerState
    <3>5. CASE ReadReserved(h)
      BY <1>1, <3>5, Zenon DEF ReadReserved, HandlerState
    <3>6. CASE ConsumeItem(h)
      BY <1>1, <3>6 DEF ConsumeItem, HandlerState
    <3>7. CASE RewriteItems(h)
      BY <1>1, <3>1, <3>7 DEF RewriteItems, HandlerState
    <3> QED  BY <1>5, <3>1, <3>2, <3>3, <3>4, <3>5, <3>6, <3>7, Zenon
             DEF PurchaseStep, ReadInventory, DecrementInventory, FailShipment, CommitPurchase
  <2> QED  BY <2>1, Zenon
<1> QED  BY <1>3, <1>4, <1>5

LEMMA CommitVoucher ==
  ASSUME Overlapping \cap Clients = {}, IInv, SalesInv, OrderInv, VoucherInv,
         NEW h \in Handlers, CommitPurchase(h), InOrder(h), handler'[h].pc = "idle"
  PROVE  VoucherInv'
<1> DEFINE v == handler[h].dto.voucherCode
           c == handler[h].actor
<1>1. handler[h].pc = "decrementInventory" /\ c \in Clients /\ v \in Vouchers \cup {NULL}
  <2>1. handler[h].pc = "decrementInventory" /\ Sells(handler[h])
    BY DEF CommitPurchase, SalesInv
  <2> QED  BY <2>1, FieldTypes, Zenon DEF Sells, Engaged, Buying, Dto
<1>2. PICK p \in Purchases :
        /\ p \notin Sold /\ Sold' = Sold \cup {p}
        /\ \A q \in Purchases \ {p} : purchase'[q] = purchase[q]
        /\ purchase'[p].voucher = v
  BY <1>1, CommitShape, ZenonT(60)
<1>3. voucher' = IF v = NULL THEN voucher ELSE [voucher EXCEPT ![v].isUsed = TRUE]
  BY <1>1, CommitShape
<1>4. /\ v \in Vouchers => voucher'[v].isUsed /\ voucher[v].client = c /\ ~voucher[v].isUsed
      /\ \A x \in Vouchers : x # v => voucher'[x] = voucher[x]
      /\ \A x \in Vouchers : voucher[x].isUsed => voucher'[x].isUsed
  <2>1. v \in Vouchers => voucher[v].client = c /\ ~voucher[v].isUsed
    BY <1>1 DEF VoucherInv
  <2> QED  BY <1>3, <2>1, NullIsNoId DEF IInv, TypeOK, VoucherRow
<1>5. \A q \in Sold : purchase'[q] = purchase[q] /\ q # p
  BY <1>2 DEF Sold
<1>6. \A q \in Sold : purchase[q].voucher \in Vouchers => voucher[purchase[q].voucher].isUsed
  BY DEF VoucherInv
<1>7. \A g \in Handlers \ {h} : handler'[g] = handler[g]
  BY DEF InOrder, Only
<1>8. ASSUME NEW g \in Handlers,
             handler'[g].pc \in {"readInventory", "decrementInventory"},
             handler'[g].dto.voucherCode \in Vouchers
      PROVE  /\ voucher'[handler'[g].dto.voucherCode].client = handler'[g].actor
             /\ ~voucher'[handler'[g].dto.voucherCode].isUsed
  <2>1. g # h /\ handler'[g] = handler[g]
    BY <1>7, <1>8
  <2> DEFINE x == handler[g].dto.voucherCode
  <2>2. x \in Vouchers /\ voucher[x].client = handler[g].actor /\ ~voucher[x].isUsed
    BY <1>8, <2>1 DEF VoucherInv
  <2>3. x # v
    BY <1>1, <1>4, <1>8, <2>1, <2>2, OneBuyer
  <2> QED  BY <1>4, <2>1, <2>2, <2>3
<1> HIDE DEF v, c
<1>9. \A q \in Sold' : purchase'[q].voucher \in Vouchers => voucher'[purchase'[q].voucher].isUsed
  BY <1>2, <1>4, <1>5, <1>6
<1>10. \A q, r \in Sold' :
         purchase'[q].voucher \in Vouchers /\ purchase'[q].voucher = purchase'[r].voucher => q = r
  <2>1. \A q, r \in Sold :
          purchase[q].voucher \in Vouchers /\ purchase[q].voucher = purchase[r].voucher => q = r
    BY DEF VoucherInv
  <2>2. \A q \in Sold : purchase[q].voucher \in Vouchers => purchase[q].voucher # v
    BY <1>4, <1>6
  <2> QED  BY <1>2, <1>5, <2>1, <2>2
<1> QED  BY <1>8, <1>9, <1>10 DEF VoucherInv

LEMMA VoucherPreserved ==
  ASSUME Overlapping \cap Clients = {}, WebhookStatuses = {},
         IInv, IInv', SalesInv, OrderInv, VoucherInv, [Next]_vars
  PROVE  VoucherInv'
<1>1. ASSUME NEW h \in Handlers, Only(h), UNCHANGED <<purchase, voucher>>,
             /\ handler'[h].pc \in {"readInventory", "decrementInventory"}
             /\ handler'[h].dto.voucherCode \in Vouchers
             => LET v == voucher[handler'[h].dto.voucherCode]
                IN  v.client = handler'[h].actor /\ ~v.isUsed
      PROVE  VoucherInv'
  <2>1. \A g \in Handlers :
          /\ handler'[g].pc \in {"readInventory", "decrementInventory"}
          /\ handler'[g].dto.voucherCode \in Vouchers
          => LET v == voucher[handler'[g].dto.voucherCode]
             IN  v.client = handler'[g].actor /\ ~v.isUsed
    BY <1>1 DEF Only, VoucherInv
  <2> QED  BY <1>1, <2>1, VoucherStays
<1>2. CASE Stands \/ \E c \in Clients, amount \in TopUpAmounts : TopUp(c, amount)
  <2>1. /\ UNCHANGED <<purchase, handler>>
        /\ \A v \in Vouchers :
             voucher'[v].client = voucher[v].client /\ voucher'[v].isUsed = voucher[v].isUsed
    BY <1>2 DEF Stands, TopUp
  <2>2. \A h \in Handlers :
           /\ handler'[h].pc \in {"readInventory", "decrementInventory"}
           /\ handler'[h].dto.voucherCode \in Vouchers
           => LET v == voucher[handler'[h].dto.voucherCode]
              IN  v.client = handler'[h].actor /\ ~v.isUsed
    BY <2>1 DEF VoucherInv
  <2> QED  BY <2>1, <2>2, VoucherStays
<1>3. ASSUME NEW h \in Handlers, InOrder(h), Aside(h) PROVE VoucherInv'
  BY <1>1, <1>3 DEF InOrder, Aside, Buying
<1>4. ASSUME NEW h \in Handlers, InOrder(h), PurchaseRequest(h) PROVE VoucherInv'
  BY <1>1, <1>4, PurchaseRequestShape DEF dbVars
<1>5. ASSUME NEW h \in Handlers, InOrder(h), PurchaseStep(h), GoesOnBuying(h) PROVE VoucherInv'
  <2>1. Only(h) /\ UNCHANGED <<purchase, voucher>>
    BY <1>5 DEF InOrder, GoesOnBuying, dbVars
  <2> QED  BY <1>1, <1>5, <2>1, VoucherChecked
<1>6. ASSUME NEW h \in Handlers, InOrder(h), CommitPurchase(h) PROVE VoucherInv'
  <2>1. handler[h].pc = "decrementInventory"
    BY <1>6 DEF CommitPurchase
  <2>2. handler[h].attempt = NULL /\ handler[h].actor \in Clients
    BY <2>1 DEF SalesInv, Sells, Engaged, OrderInv, NoWebhooks, Buying
  <2>3. handler'[h].pc = "idle"
    <3>1. \E p : handler'[h] = Completed(handler[h], p)
      BY <1>6, <2>2, CommitShape
    <3> QED  BY <2>2, <3>1 DEF Completed, IdleHandler
  <2> QED  BY <1>6, <2>3, CommitVoucher, Zenon
<1>7. ASSUME NEW h \in Handlers, InOrder(h), handler'[h].pc \notin Buying,
             UNCHANGED <<cart, ledger, voucher, purchase, added>>
      PROVE  VoucherInv'
  BY <1>1, <1>7 DEF InOrder, Buying
<1> QED  BY <1>2, <1>3, <1>4, <1>5, <1>6, <1>7, OrderlyCases

LEMMA VoucherInit == DbInit => VoucherInv
<1> SUFFICES ASSUME DbInit PROVE VoucherInv
  OBVIOUS
<1>1. Sold = {} /\ \A h \in Handlers : handler[h].pc = "idle"
  BY DEF DbInit, Sold, IdleHandler
<1> QED  BY <1>1 DEF VoucherInv

(* If no client overlaps its requests, also not by webhooks, a voucher     *)
(* discounts at most one purchase.                                         *)
THEOREM VouchersAreUsedOnce ==
  ASSUME Overlapping \cap Clients = {}, WebhookStatuses = {}
  PROVE  Spec => []VoucherUsedOnce
<1>1. /\ DbInit => VoucherInv
      /\ IInv /\ IInv' /\ SalesInv /\ OrderInv /\ VoucherInv /\ [Next]_vars => VoucherInv'
  BY VoucherInit, VoucherPreserved
<1>2. VoucherInv => VoucherUsedOnce
  <2> SUFFICES ASSUME VoucherInv, NEW v \in Vouchers
               PROVE  Cardinality({p \in Sold : purchase[p].voucher = v}) <= 1
    BY DEF VoucherUsedOnce
  <2> DEFINE S == {p \in Sold : purchase[p].voucher = v}
  <2>1. \A p \in S, q \in S : p = q
    BY DEF VoucherInv
  <2> HIDE DEF S
  <2>2. CASE S = {}
    BY <2>2, FS_EmptySet DEF S
  <2>3. ASSUME NEW p \in S PROVE Cardinality(S) <= 1
    <3>1. S = {p} /\ Cardinality({p}) = 1
      BY <2>1, FS_Singleton
    <3> QED  BY <3>1
  <2> QED  BY <2>2, <2>3 DEF S
<1> QED  BY <1>1, <1>2, Invariance, SalesInvariance, OrderInvariance, PTL DEF Spec

(* The copies of book b that client c has bought, and the ones in its cart.*)
BoughtCopies(c, b) ==
  SumFunction([p \in Purchases |->
                 IF purchase[p].client = c THEN purchase[p].items[b] ELSE 0])

(* A purchase in progress wants what the cart holds. *)
CartInv ==
  /\ CartBoughtOnce
  /\ \A h \in Handlers :
       handler[h].pc \in Buying => handler[h].want = cart[handler[h].actor].items

LEMMA BoughtCopiesType ==
  ASSUME IInv, NEW c, NEW b \in Books
  PROVE  /\ BoughtCopies(c, b) \in Nat
         /\ [p \in Purchases |->
               IF purchase[p].client = c THEN purchase[p].items[b] ELSE 0] \in [Purchases -> Nat]
<1> DEFINE f == [p \in Purchases |-> IF purchase[p].client = c THEN purchase[p].items[b] ELSE 0]
<1>1. f \in [Purchases -> Nat]
  BY DEF IInv, TypeOK, PurchaseRow
<1> HIDE DEF f
<1>2. SumFunction(f) \in Nat
  BY <1>1, IdsAreFinite, SumNat
<1> QED  BY <1>1, <1>2 DEF BoughtCopies, f

(* Steps that sell nothing, and add to a cart only what is counted.        *)
LEMMA CartStays ==
  ASSUME IInv, IInv', CartBoughtOnce, UNCHANGED purchase,
         \A c \in Clients, b \in Books :
           cart'[c].items[b] - added'[c][b] <= cart[c].items[b] - added[c][b]
  PROVE  CartBoughtOnce'
<1> SUFFICES ASSUME NEW c \in Clients, NEW b \in Books
             PROVE  BoughtCopies(c, b) + cart'[c].items[b] <= added'[c][b]
  BY DEF CartBoughtOnce, BoughtCopies
<1>1. BoughtCopies(c, b) + cart[c].items[b] <= added[c][b]
  BY DEF CartBoughtOnce, BoughtCopies
<1>2. BoughtCopies(c, b) \in Nat
  BY BoughtCopiesType
<1>3. /\ cart[c].items[b] \in Nat /\ added[c][b] \in Nat
      /\ cart'[c].items[b] \in Nat /\ added'[c][b] \in Nat
  BY DEF IInv, TypeOK, CartRow
<1> QED  BY <1>1, <1>2, <1>3

(* What a cart's request does to carts.                                    *)
LEMMA CartWritten ==
  ASSUME IInv, IInv', NEW h \in Handlers, CartRequest(h) \/ CartStep(h)
  PROVE  /\ UNCHANGED purchase
         /\ UNCHANGED cart
            \/ (/\ handler[h].pc \in AtCart /\ handler[h].actor \in Clients
                /\ \A c \in Clients \ {handler[h].actor} : cart'[c] = cart[c])
         /\ \A c \in Clients, b \in Books :
              cart'[c].items[b] - added'[c][b] <= cart[c].items[b] - added[c][b]
<1>1. /\ cart \in [Clients -> CartRow] /\ added \in [Clients -> [Books -> Nat]]
      /\ handler[h].want \in [Books -> Nat]
  BY FieldTypes DEF IInv, TypeOK
<1>2. UNCHANGED purchase
  BY CartShape
<1>3. ASSUME UNCHANGED <<cart, added>>
      PROVE  \A c \in Clients, b \in Books :
               cart'[c].items[b] - added'[c][b] <= cart[c].items[b] - added[c][b]
  BY <1>1, <1>3 DEF CartRow
<1>4. CASE CartRequest(h) \/ EnsureActiveCart(h) \/ FindItem(h)
  <2>1. UNCHANGED <<cart, added>>
    BY <1>4, ZenonT(60) DEF CartRequest, StartAddItem, StartUpdateItem, StartRemoveItem, EnsureActiveCart,
                FindItem, dbVars
  <2> QED  BY <1>2, <1>3, <2>1, Zenon
<1>5. CASE EmptyCart(h) \/ ActivateCart(h) \/ WriteItem(h) \/ RemoveItem(h)
  <2> DEFINE c == handler[h].actor
  <2>1. handler[h].pc \in AtCart /\ c \in Clients
    <3>1. handler[h].pc \in {"emptyCart", "activateCart", "writeItem", "removeItem"}
      BY <1>5, Zenon DEF EmptyCart, ActivateCart, WriteItem, RemoveItem
    <3> QED  BY <3>1, FieldTypes DEF Coherent, AtCart
  <2>2. \A d \in Clients \ {c} : cart'[d] = cart[d]
    BY <1>1, <1>5, Zenon DEF EmptyCart, ActivateCart, WriteItem, RemoveItem, WriteCart
  <2>3. cart[c] \in CartRow /\ cart[c].items \in [Books -> 0..MaxCopies]
    BY <1>1, <2>1 DEF CartRow
  <2>4. ASSUME NEW d \in Clients, NEW b \in Books
        PROVE  cart'[d].items[b] - added'[d][b] <= cart[d].items[b] - added[d][b]
    <3>1. cart[d].items[b] \in Nat /\ added[d][b] \in Nat
      BY <1>1 DEF CartRow
    <3>2. CASE EmptyCart(h)
      <4>1. cart' = [cart EXCEPT ![c] = [@ EXCEPT !.items = NoBooks]] /\ UNCHANGED added
        BY <3>2 DEF EmptyCart, WriteCart
      <4>2. cart'[d].items[b] = cart[d].items[b] \/ cart'[d].items[b] = 0
        BY <1>1, <4>1 DEF CartRow, NoBooks
      <4> QED  BY <3>1, <4>1, <4>2
    <3>3. CASE ActivateCart(h)
      <4>1. cart' = [cart EXCEPT ![c] = [@ EXCEPT !.status = "active"]] /\ UNCHANGED added
        BY <3>3 DEF ActivateCart, WriteCart
      <4>2. cart'[d].items[b] = cart[d].items[b]
        BY <1>1, <4>1 DEF CartRow
      <4> QED  BY <3>1, <4>1, <4>2
    <3>4. CASE RemoveItem(h)
      <4>1. PICK x \in Books :
              cart' = [cart EXCEPT ![c] = [@ EXCEPT !.items[x] = 0]] /\ UNCHANGED added
        BY <3>4 DEF RemoveItem, WriteCart
      <4>2. cart'[d].items[b] = cart[d].items[b] \/ cart'[d].items[b] = 0
        BY <1>1, <4>1 DEF CartRow
      <4> QED  BY <3>1, <4>1, <4>2
    <3>5. CASE WriteItem(h)
      <4>1. PICK x \in Books :
              LET current == cart[c].items[x]
                  quantity == handler[h].want[x]
              IN
              IF (current > 0) = (handler[h].need[x] > 0)
              THEN /\ WriteCart(h, [cart[c] EXCEPT !.items[x] = quantity], IdleHandler)
                   /\ added' = [added EXCEPT ![c][x] =
                        @ + (IF quantity > current THEN quantity - current ELSE 0)]
              ELSE WriteCart(h, cart[c], IdleHandler) /\ UNCHANGED added
        BY <3>5 DEF WriteItem
      <4> DEFINE current == cart[c].items[x]
                 quantity == handler[h].want[x]
      <4>2. CASE UNCHANGED added /\ WriteCart(h, cart[c], IdleHandler)
        <5>1. cart'[d] = cart[d]
          BY <1>1, <2>1, <4>2 DEF WriteCart
        <5> QED  BY <3>1, <4>2, <5>1
      <4>3. CASE /\ WriteCart(h, [cart[c] EXCEPT !.items[x] = quantity], IdleHandler)
                 /\ added' = [added EXCEPT ![c][x] =
                      @ + (IF quantity > current THEN quantity - current ELSE 0)]
        <5>1. cart' = [cart EXCEPT ![c] = [cart[c] EXCEPT !.items[x] = quantity]]
          BY <4>3 DEF WriteCart
        <5>2. CASE d = c /\ b = x
          <6>1. cart'[d].items[b] = quantity
            BY <1>1, <2>1, <2>3, <5>1, <5>2 DEF CartRow
          <6>2. added'[d][b] =
                  added[c][x] + (IF quantity > current THEN quantity - current ELSE 0)
            BY <1>1, <2>1, <4>3, <5>2
          <6>3. quantity \in Nat /\ current \in Nat
            BY <1>1, <3>1, <5>2
          <6> QED  BY <3>1, <5>2, <6>1, <6>2, <6>3
        <5>3. CASE ~(d = c /\ b = x)
          <6>1. cart'[d].items[b] = cart[d].items[b]
            BY <1>1, <2>1, <2>3, <5>1, <5>3 DEF CartRow
          <6>2. added'[d][b] = added[d][b]
            BY <1>1, <2>1, <4>3, <5>3
          <6> QED  BY <3>1, <6>1, <6>2
        <5> QED  BY <5>2, <5>3
      <4> QED  BY <4>1, <4>2, <4>3
    <3> QED  BY <1>5, <3>2, <3>3, <3>4, <3>5
  <2> QED  BY <1>2, <2>1, <2>2, <2>4
<1> QED  BY <1>4, <1>5 DEF CartStep

(* A purchase moves the cart's copies to what was bought.                  *)
LEMMA CommitCart ==
  ASSUME IInv, IInv', CartInv, NEW h \in Handlers, CommitPurchase(h), handler[h].actor \in Clients
  PROVE  CartBoughtOnce'
<1> DEFINE c == handler[h].actor
           want == handler[h].want
<1>1. PICK p \in Purchases :
        /\ p \notin Sold
        /\ \A q \in Purchases \ {p} : purchase'[q] = purchase[q]
        /\ purchase'[p].client = c /\ purchase'[p].items = want
  BY CommitShape
<1>2. cart' = BoughtCart(c) /\ UNCHANGED added
  BY CommitShape
<1>3. want = cart[c].items
  <2>1. handler[h].pc = "decrementInventory"
    BY DEF CommitPurchase
  <2> QED  BY <2>1, Zenon DEF CartInv, Buying
<1>4. cart \in [Clients -> CartRow] /\ added \in [Clients -> [Books -> Nat]]
  BY DEF IInv, TypeOK
<1> SUFFICES ASSUME NEW d \in Clients, NEW b \in Books
             PROVE  BoughtCopies(d, b)' + cart'[d].items[b] <= added[d][b]
  BY <1>2 DEF CartBoughtOnce, BoughtCopies
<1>5. BoughtCopies(d, b) + cart[d].items[b] <= added[d][b]
  BY DEF CartInv, CartBoughtOnce, BoughtCopies
<1>6. BoughtCopies(d, b) \in Nat /\ cart[d].items[b] \in Nat /\ added[d][b] \in Nat
  BY <1>4, BoughtCopiesType DEF CartRow
<1> DEFINE f == [q \in Purchases |-> IF purchase[q].client = d THEN purchase[q].items[b] ELSE 0]
           g == [q \in Purchases |-> IF purchase'[q].client = d THEN purchase'[q].items[b] ELSE 0]
<1>7. f \in [Purchases -> Int] /\ g \in [Purchases -> Int]
  BY SMTT(30) DEF IInv, TypeOK, PurchaseRow
<1>8. f[p] = 0 /\ g[p] = (IF d = c THEN cart[c].items[b] ELSE 0)
  BY <1>1, <1>3, NullIsNoId DEF Sold, NoPurchase
<1>9. \A q \in Purchases \ {p} : f[q] = g[q]
  BY <1>1
<1>10. cart'[d].items[b] = IF d = c THEN 0 ELSE cart[d].items[b]
  BY <1>2, <1>4 DEF BoughtCart, NoBooks
<1>11. SumFunction(f) = BoughtCopies(d, b) /\ SumFunction(g) = BoughtCopies(d, b)'
  BY DEF BoughtCopies
<1> HIDE DEF f, g
<1>12. SumFunction(g) = SumFunction(f) + (g[p] - f[p])
  BY <1>7, <1>9, IdsAreFinite, SumChange
<1> DEFINE before == BoughtCopies(d, b)
           after == SumFunction(g)
           items == cart[d].items[b]
           left == cart'[d].items[b]
<1>13. after = before + items - left
  BY <1>6, <1>8, <1>10, <1>11, <1>12
<1>14. after + left <= added[d][b]
  <2>1. left \in Nat /\ items \in Nat /\ before \in Nat /\ added[d][b] \in Nat
        /\ before + items <= added[d][b]
    BY <1>5, <1>6, <1>10
  <2> HIDE DEF before, after, items, left
  <2> QED  BY <1>13, <2>1
<1> QED  BY <1>11, <1>14

LEMMA CartPreserved ==
  ASSUME Overlapping \cap Clients = {}, WebhookStatuses = {},
         IInv, IInv', SalesInv, OrderInv, CartInv, [Next]_vars
  PROVE  CartInv'
<1>1. \A h \in Handlers : handler[h].pc \in Buying =>
        /\ handler[h].actor \in Clients /\ handler[h].pc # "idle"
        /\ handler[h].want = cart[handler[h].actor].items
  BY DEF CartInv, SalesInv, Sells, Engaged, Buying
<1>2. ASSUME UNCHANGED <<cart, purchase, added>> PROVE CartBoughtOnce'
  BY <1>2 DEF CartInv, CartBoughtOnce
<1>3. ASSUME NEW h \in Handlers, Only(h), UNCHANGED cart,
             handler'[h].pc \in Buying => handler'[h].want = cart[handler'[h].actor].items
      PROVE  \A g \in Handlers :
               handler'[g].pc \in Buying => handler'[g].want = cart'[handler'[g].actor].items
  BY <1>1, <1>3 DEF Only
<1>4. CASE Stands \/ \E c \in Clients, amount \in TopUpAmounts : TopUp(c, amount)
  <2>1. UNCHANGED <<cart, purchase, added, handler>>
    BY <1>4 DEF Stands, TopUp
  <2> QED  BY <1>2, <2>1 DEF CartInv
<1>5. ASSUME NEW h \in Handlers, InOrder(h), Aside(h) PROVE CartInv'
  <2>1. Only(h) /\ handler'[h].pc \notin Buying /\ UNCHANGED purchase
    BY <1>5 DEF Aside
  <2>2. CASE UNCHANGED <<cart, added>>
    BY <1>2, <1>3, <2>1, <2>2 DEF CartInv
  <2>3. CASE CartRequest(h) \/ CartStep(h)
    <3>1. CartBoughtOnce'
      BY <2>1, <2>3, CartWritten, CartStays DEF CartInv
    <3>2. ASSUME NEW g \in Handlers, handler'[g].pc \in Buying
          PROVE  handler'[g].want = cart'[handler'[g].actor].items
      <4>1. g # h /\ handler'[g] = handler[g] /\ handler[g].pc \in Buying
        BY <2>1, <3>2 DEF Only
      <4>2. CASE UNCHANGED cart
        BY <1>1, <4>1, <4>2
      <4>3. CASE /\ handler[h].pc \in AtCart /\ handler[h].actor \in Clients
                 /\ \A c \in Clients \ {handler[h].actor} : cart'[c] = cart[c]
        <5>1. handler[h].pc # "idle"
          BY <4>3 DEF AtCart
        <5>2. handler[g].actor # handler[h].actor
          BY <1>1, <4>1, <4>3, <5>1, OneBuyer
        <5> QED  BY <1>1, <4>1, <4>3, <5>2
      <4> QED  BY <2>3, <4>2, <4>3, CartWritten
    <3> QED  BY <3>1, <3>2 DEF CartInv
  <2> QED  BY <1>5, <2>2, <2>3 DEF Aside
<1>6. ASSUME NEW h \in Handlers, InOrder(h), PurchaseRequest(h) PROVE CartInv'
  <2>1. /\ Only(h) /\ handler'[h].want = cart[handler'[h].actor].items
        /\ UNCHANGED <<cart, purchase, added>>
    BY <1>6, PurchaseRequestShape DEF dbVars
  <2> QED  BY <1>2, <1>3, <2>1 DEF CartInv
<1>7. ASSUME NEW h \in Handlers, InOrder(h), PurchaseStep(h), GoesOnBuying(h) PROVE CartInv'
  <2>1. /\ Only(h) /\ UNCHANGED <<cart, purchase, added>>
        /\ handler'[h].want = cart[handler'[h].actor].items
    BY <1>1, <1>7 DEF InOrder, GoesOnBuying, Continues, dbVars
  <2> QED  BY <1>2, <1>3, <2>1 DEF CartInv
<1>8. ASSUME NEW h \in Handlers, InOrder(h), CommitPurchase(h) PROVE CartInv'
  <2>1. handler[h].pc \in Buying
    BY <1>8 DEF CommitPurchase, Buying
  <2>2. cart' = BoughtCart(handler[h].actor) /\ Only(h) /\ \E p : handler'[h] = Completed(handler[h], p)
    BY <1>1, <1>8, <2>1, CommitShape
  <2>3. handler'[h].pc \notin Buying
    BY <2>2 DEF Completed, IdleHandler, Buying
  <2>4. CartBoughtOnce'
    BY <1>1, <1>8, <2>1, CommitCart
  <2>5. ASSUME NEW g \in Handlers, handler'[g].pc \in Buying
        PROVE  handler'[g].want = cart'[handler'[g].actor].items
    <3>1. g # h /\ handler'[g] = handler[g] /\ handler[g].pc \in Buying
      BY <2>2, <2>3, <2>5 DEF Only
    <3>2. handler[g].actor # handler[h].actor
      BY <1>1, <2>1, <3>1, OneBuyer
    <3> QED  BY <1>1, <2>2, <3>1, <3>2 DEF BoughtCart, IInv, TypeOK
  <2> QED  BY <2>4, <2>5, Zenon DEF CartInv
<1>9. ASSUME NEW h \in Handlers, InOrder(h), handler'[h].pc \notin Buying,
             UNCHANGED <<cart, ledger, voucher, purchase, added>>
      PROVE  CartInv'
  BY <1>2, <1>3, <1>9 DEF InOrder, CartInv
<1> QED  BY <1>4, <1>5, <1>6, <1>7, <1>8, <1>9, OrderlyCases

LEMMA CartInit == DbInit => CartInv
<1> SUFFICES ASSUME DbInit PROVE CartInv
  OBVIOUS
<1>1. \A h \in Handlers : handler[h].pc \notin Buying
  BY DEF DbInit, IdleHandler, Buying
<1>2. ASSUME NEW c \in Clients, NEW b \in Books
      PROVE  BoughtCopies(c, b) + cart[c].items[b] <= added[c][b]
  <2>1. [p \in Purchases |-> IF purchase[p].client = c THEN purchase[p].items[b] ELSE 0] =
          [p \in Purchases |-> 0]
    BY NullIsNoId DEF DbInit, NoPurchase
  <2>2. BoughtCopies(c, b) = 0
    BY <2>1, IdsAreFinite, SumZero DEF BoughtCopies
  <2>3. cart[c].items[b] = added[c][b] /\ added[c][b] \in Nat
    BY BoundsAreNaturals DEF DbInit
  <2> QED  BY <2>2, <2>3
<1> QED  BY <1>1, <1>2 DEF CartInv, CartBoughtOnce, BoughtCopies

(* If no client overlaps its requests, also not by webhooks, a copy put in *)
(* a cart is bought at most once, however often the cart is bought.        *)
THEOREM CartsAreBoughtOnce ==
  ASSUME Overlapping \cap Clients = {}, WebhookStatuses = {}
  PROVE  Spec => []CartBoughtOnce
<1>1. /\ DbInit => CartInv
      /\ IInv /\ IInv' /\ SalesInv /\ OrderInv /\ CartInv /\ [Next]_vars => CartInv'
      /\ CartInv => CartBoughtOnce
  BY CartInit, CartPreserved DEF CartInv
<1> QED  BY <1>1, Invariance, SalesInvariance, OrderInvariance, PTL DEF Spec

-----------------------------------------------------------------------------
(* What a step does to the stock and to the reservations.                  *)

(* A purchase that has not come to the reservations yet has no item of     *)
(* theirs to rewrite.                                                      *)
Fresh(s) == s.pc \in (Buying \ Taking) \cup {"claim"} => s.left = {}

(* Time passes, an admin corrects the stock, somebody tops up a wallet.    *)
Passes ==
  /\ UNCHANGED <<handler, delta>>
  /\ \A w \in Rows :
       /\ inventory'[w].reserved = inventory[w].reserved
       /\ \/ inventory'[w].available = inventory[w].available
          \/ Stocks # {} /\ inventory'[w].available >= 0
  /\ \A r \in Reservations :
       \/ reservation'[r] = reservation[r]
       \/ /\ reservation'[r] = [reservation[r] EXCEPT !.due = TRUE]
          /\ LateExpiry \/ \A h \in Handlers : handler[h].actor # reservation[r].client

(* The step leaves the stock and the reservations alone, and so does h     *)
(* where it is after it.                                                   *)
Quiet(h) ==
  /\ handler'[h].pc \notin Reserving \cup Releasing \cup Taking
  /\ UNCHANGED <<inventory, reservation>>

(* A statement of a reservation, of one that ends, and of a purchase in its*)
(* transaction, one that does not throw.                                   *)
Allocates(h) ==
  \/ \E c \in Clients, want \in ReserveOrders : StartReservation(h, c, want)
  \/ AssertInventoryAvailability(h) /\ handler'[h].pc = "allocateInventory"
  \/ ReadAllocation(h)
  \/ AllocateRow(h)
  \/ CreateReservation(h)

Ends(h) ==
  \/ \E c \in Clients, r \in Reservations : StartCancel(h, c, r)
  \/ StartExpireCron(h)
  \/ ReadRelease(h)
  \/ ReleaseRow(h)
  \/ FinishCancel(h)
  \/ FinishExpire(h)
  \/ handler[h].pc \in Releasing /\ SkipExpired(h)

Takes(h) ==
  \/ ReadReserved(h)
  \/ ConsumeItem(h)
  \/ RewriteItems(h) /\ handler'[h].pc = "createRecord"
  \/ CreateRecord(h) /\ handler'[h].pc = "readInventory"
  \/ ReadInventory(h)
  \/ DecrementInventory(h)
  \/ CommitPurchase(h)

(* Steps of the environment.                                               *)
LEMMA EnvironmentPasses ==
  ASSUME IInv,
         \/ \E r \in Reservations : FallDue(r)
         \/ \E v \in Vouchers : VoucherExpires(v)
         \/ \E s \in Stores, books \in (SUBSET Books) \ {{}} :
              \E quantity \in [books -> Stocks] : UpdateInventoryByStoreId(s, quantity)
         \/ \E c \in Clients, amount \in TopUpAmounts : TopUp(c, amount)
  PROVE  Passes
<1>1. /\ reservation \in [Reservations -> ReservationRow]
      /\ inventory \in [Rows -> InventoryRow]
  BY DEF IInv, TypeOK
<1>2. CASE \E r \in Reservations : FallDue(r)
  BY <1>1, <1>2 DEF FallDue, Passes
<1>3. CASE \E v \in Vouchers : VoucherExpires(v)
  BY <1>3 DEF VoucherExpires, Passes
<1>4. ASSUME NEW s \in Stores, NEW books \in (SUBSET Books) \ {{}}, NEW quantity \in [books -> Stocks],
             UpdateInventoryByStoreId(s, quantity)
      PROVE  Passes
  <2>1. /\ UNCHANGED <<reservation, handler, delta>>
        /\ inventory' = [w \in Rows |->
             IF w \in {<<b, s>> : b \in DOMAIN quantity}
             THEN [inventory[w] EXCEPT !.available = quantity[w[1]]] ELSE inventory[w]]
    BY <1>4 DEF UpdateInventoryByStoreId
  <2>2. \A w \in Rows : inventory'[w].reserved = inventory[w].reserved
    BY <1>1, <2>1 DEF InventoryRow
  <2>3. ASSUME NEW w \in Rows
        PROVE  \/ inventory'[w].available = inventory[w].available
               \/ Stocks # {} /\ inventory'[w].available >= 0
    <3>1. CASE w \in {<<b, s>> : b \in DOMAIN quantity}
      <4>1. w[1] \in books
        BY <3>1
      <4>2. quantity[w[1]] \in Stocks /\ quantity[w[1]] \in Nat
        BY <4>1, BoundsAreNaturals
      <4>3. inventory'[w].available = quantity[w[1]]
        BY <1>1, <2>1, <3>1 DEF InventoryRow
      <4> QED  BY <4>2, <4>3
    <3>2. CASE w \notin {<<b, s>> : b \in DOMAIN quantity}
      BY <2>1, <3>2
    <3> QED  BY <3>1, <3>2
  <2> QED  BY <2>1, <2>2, <2>3 DEF Passes
<1>5. CASE \E c \in Clients, amount \in TopUpAmounts : TopUp(c, amount)
  BY <1>5 DEF TopUp, Passes
<1> QED  BY <1>2, <1>3, <1>4, <1>5

(* Steps that end in an error.                                             *)
LEMMA ThrowIsQuiet ==
  ASSUME IInv, NEW h \in Handlers, Throw(h) \/ Reject(h)
  PROVE  Only(h) /\ Fresh(handler'[h]) /\ Quiet(h)
<1>1. handler \in [Handlers -> HandlerState] /\ delta \in [Handlers -> [Rows -> DeltaRow]]
  BY DEF IInv, TypeOK
<1>2. Only(h) /\ UNCHANGED <<inventory, reservation>>
  BY <1>1 DEF Throw, Reject, DiscardInventory, Only, dbVars
<1>3. handler'[h] = Failed(handler[h]) \/ handler'[h] = IdleHandler
  BY <1>1 DEF Throw, Reject
<1>4. handler'[h].pc \in {"fail", "idle"}
  BY <1>3, FailedPlace
<1> QED  BY <1>2, <1>4 DEF Fresh, Quiet, Buying, Reserving, Releasing, Taking

LEMMA PurchaseStock ==
  ASSUME IInv, NEW h \in Handlers, Fresh(handler[h]), handler[h].pc \in Buying => handler[h].actor \in Clients,
         PurchaseStep(h)
  PROVE  Only(h) /\ Fresh(handler'[h]) /\ (Quiet(h) \/ Takes(h))
<1>1. handler \in [Handlers -> HandlerState] /\ delta \in [Handlers -> [Rows -> DeltaRow]]
      /\ handler[h] \in HandlerState
  BY DEF IInv, TypeOK
<1>2. Only(h)
  BY PurchaseShape
<1>3. CASE Throw(h)
  BY <1>3, ThrowIsQuiet
<1>4. CASE RecheckCart(h)
  <2>1. UNCHANGED <<inventory, reservation>> /\ handler[h].left = {}
    BY <1>4 DEF RecheckCart, Fresh, Buying, Taking, dbVars
  <2>2. \/ handler'[h] = Failed(handler[h])
        \/ handler'[h].pc = "getReservedQuantities" /\ handler'[h].left = {}
    <3>1. CASE handler' = [handler EXCEPT ![h] = Failed(@)]
      BY <1>1, <3>1
    <3>2. CASE handler' = [handler EXCEPT ![h].pc = "getReservedQuantities"]
      BY <1>1, <2>1, <3>2 DEF HandlerState
    <3> QED  BY <1>4, <3>1, <3>2 DEF RecheckCart, Goto
  <2>3. \/ handler'[h].pc \in {"fail", "idle"}
        \/ handler'[h].pc = "getReservedQuantities" /\ handler'[h].left = {}
    BY <2>2, FailedPlace
  <2>4. Fresh(handler'[h])
    BY <2>3 DEF Fresh, Buying, Taking
  <2> QED  BY <1>2, <2>1, <2>3, <2>4 DEF Quiet, Reserving, Releasing, Taking
<1>5. CASE GetReservedQuantities(h) /\ ~Throw(h)
  <2>1. /\ handler[h].pc = "getReservedQuantities" /\ UNCHANGED <<inventory, reservation>>
        /\ handler'[h].pc = "validateInventory" /\ handler'[h].left = handler[h].left
    BY <1>1, <1>5 DEF GetReservedQuantities, HandlerState, dbVars
  <2> QED  BY <1>2, <2>1 DEF Fresh, Quiet, Buying, Reserving, Releasing, Taking
<1>6. CASE ValidateInventory(h) /\ ~Throw(h)
  <2>1. PICK waitlisted :
          /\ handler[h].pc = "validateInventory" /\ UNCHANGED <<inventory, reservation>>
          /\ handler' = [handler EXCEPT ![h].pc = "readReserved",
                                        ![h].waitlisted = waitlisted, ![h].own = {}]
    BY <1>6 DEF ValidateInventory, dbVars
  <2>2. handler'[h].pc = "readReserved" /\ handler'[h].left = handler[h].left
    BY <1>1, <2>1 DEF HandlerState
  <2> QED  BY <1>2, <2>1, <2>2 DEF Fresh, Quiet, Buying, Reserving, Releasing, Taking
<1>7. CASE ReadReserved(h) \/ ConsumeItem(h) \/ ReadInventory(h) \/ DecrementInventory(h)
  <2>1. handler'[h].pc \in Taking
    <3>1. CASE ReadReserved(h)
      BY <1>1, <3>1, Zenon DEF ReadReserved, HandlerState, Taking
    <3>2. CASE ConsumeItem(h)
      BY <1>1, <3>2 DEF ConsumeItem, HandlerState, Taking
    <3>3. CASE ReadInventory(h)
      BY <1>1, <3>3 DEF ReadInventory, HandlerState, Taking
    <3>4. CASE DecrementInventory(h)
      BY <1>1, <3>4 DEF DecrementInventory, HandlerState, Taking
    <3> QED  BY <1>7, <3>1, <3>2, <3>3, <3>4
  <2> QED  BY <1>2, <1>7, <2>1 DEF Fresh, Takes, Taking
<1>8. CASE RewriteItems(h) /\ ~Throw(h)
  <2>1. handler'[h].pc = "createRecord"
    BY <1>1, <1>8 DEF RewriteItems, HandlerState
  <2> QED  BY <1>2, <1>8, <2>1 DEF Fresh, Takes, Taking
<1>9. CASE CreateRecord(h) /\ ~Throw(h)
  <2>1. handler'[h].pc = "readInventory"
    BY <1>1, <1>9 DEF CreateRecord, Goto, HandlerState
  <2> QED  BY <1>2, <1>9, <2>1 DEF Fresh, Takes, Taking
<1>10. CASE FailShipment(h)
  BY <1>3, <1>10 DEF FailShipment
<1>11. CASE CommitPurchase(h)
  <2>1. handler[h].actor \in Clients
    BY <1>11 DEF CommitPurchase, Buying
  <2>2. \E p : handler'[h] = Completed(handler[h], p)
    BY <1>11, <2>1, CommitShape
  <2>3. handler'[h].left = {}
    BY <2>2 DEF Completed, IdleHandler
  <2>4. Fresh(handler'[h])
    BY <2>3 DEF Fresh
  <2>5. Takes(h)
    BY <1>11 DEF Takes
  <2> QED  BY <1>2, <2>4, <2>5, Zenon
<1> QED  BY <1>3, <1>4, <1>5, <1>6, <1>7, <1>8, <1>9, <1>10, <1>11 DEF PurchaseStep

(* A statement of a reservation, a cancellation or a tick of the cron.     *)
LEMMA ReservationStock ==
  ASSUME IInv, IInv', NEW h \in Handlers, ReservationRequest(h) \/ ReservationStep(h)
  PROVE  Only(h) /\ Fresh(handler'[h]) /\ (Quiet(h) \/ Allocates(h) \/ Ends(h))
<1>1. handler \in [Handlers -> HandlerState] /\ delta \in [Handlers -> [Rows -> DeltaRow]]
  BY DEF IInv, TypeOK
<1>2. Only(h) /\ handler'[h].pc \in Reserving \cup Releasing \cup {"idle"}
  BY ReservationShape
<1>3. Fresh(handler'[h])
  BY <1>2 DEF Fresh, Buying, Reserving, Releasing
<1>4. CASE AssertInventoryAvailability(h) /\ handler'[h].pc # "allocateInventory"
  <2>1. handler'[h] = IdleHandler /\ UNCHANGED <<inventory, reservation>>
    BY <1>1, <1>4 DEF AssertInventoryAvailability, HandlerState, dbVars
  <2> QED  BY <1>2, <1>3, <2>1 DEF Quiet, IdleHandler, Reserving, Releasing, Taking
<1>5. CASE Reject(h)
  BY <1>5, ThrowIsQuiet
<1>6. CASE FailExpire(h)
  BY <1>2, <1>3, <1>6 DEF FailExpire, Ends, Releasing
<1>7. CASE FailAllocation(h) \/ FailRelease(h)
  BY <1>5, <1>7 DEF FailAllocation, FailRelease
<1> QED  BY <1>2, <1>3, <1>4, <1>5, <1>6, <1>7
         DEF ReservationRequest, ReservationStep, Allocates, Ends

(* Every step, by what it does to the stock and to the reservations.       *)
LEMMA StockCases ==
  ASSUME IInv, IInv', [Next]_vars, \A h \in Handlers : Engaged(handler[h]),
         \A h \in Handlers : Fresh(handler[h])
  PROVE  \/ Passes
         \/ \E h \in Handlers :
              /\ Only(h) /\ Fresh(handler'[h])
              /\ Quiet(h) \/ Allocates(h) \/ Ends(h) \/ Takes(h)
<1> DEFINE Goal(h) == /\ Only(h) /\ Fresh(handler'[h])
                      /\ Quiet(h) \/ Allocates(h) \/ Ends(h) \/ Takes(h)
<1>1. handler \in [Handlers -> HandlerState] /\ delta \in [Handlers -> [Rows -> DeltaRow]]
  BY DEF IInv, TypeOK
<1>2. ASSUME NEW h \in Handlers, CartRequest(h) \/ CartStep(h) PROVE Goal(h)
  <2>1. /\ Only(h) /\ handler'[h].pc \in AtCart \cup {"idle"}
        /\ UNCHANGED <<inventory, reservation>>
    BY <1>2, CartShape
  <2> QED  BY <2>1 DEF Fresh, Quiet, AtCart, Buying, Reserving, Releasing, Taking
<1>3. ASSUME NEW h \in Handlers, ReservationRequest(h) \/ ReservationStep(h) PROVE Goal(h)
  BY <1>3, ReservationStock
<1>4. ASSUME NEW h \in Handlers, PurchaseRequest(h) PROVE Goal(h)
  <2>1. Only(h) /\ handler'[h].pc = "recheckCart" /\ handler'[h].left = {}
        /\ UNCHANGED <<inventory, reservation>>
    BY <1>4, PurchaseRequestShape DEF dbVars
  <2> QED  BY <2>1 DEF Fresh, Quiet, Reserving, Releasing, Taking
<1>5. ASSUME NEW h \in Handlers, PurchaseStep(h) PROVE Goal(h)
  BY <1>5, PurchaseStock DEF Engaged
<1>6. ASSUME NEW h \in Handlers, PaymentRequest(h) PROVE Goal(h)
  <2>1. CASE \E c \in Clients, dto \in PurchaseDtos : InitiatePayment(h, c, dto)
    <3>1. Only(h) /\ handler'[h].pc = "createCheckoutSession" /\ UNCHANGED <<inventory, reservation>>
      BY <2>1, InitiatePaymentShape DEF WritesAttempt
    <3> QED  BY <3>1 DEF Fresh, Quiet, Buying, Reserving, Releasing, Taking
  <2>2. CASE \E a \in Attempts, status \in WebhookStatuses : ReceiveWebhook(h, a, status)
    <3>1. /\ Only(h) /\ handler'[h].pc \in {"claim", "overwrite"} /\ handler'[h].left = {}
          /\ UNCHANGED <<inventory, reservation>>
      BY <2>2, ReceiveWebhookShape DEF dbVars
    <3> QED  BY <3>1 DEF Fresh, Quiet, Buying, Reserving, Releasing, Taking
  <2> QED  BY <1>6, <2>1, <2>2 DEF PaymentRequest
<1>7. ASSUME NEW h \in Handlers, PaymentStep(h) PROVE Goal(h)
  <2>1. /\ Only(h) /\ UNCHANGED <<inventory, reservation>>
        /\ \/ handler'[h] = IdleHandler
           \/ /\ handler[h].pc = "claim" /\ handler'[h].pc = "recheckCart"
              /\ handler'[h].left = handler[h].left
    BY <1>7, PaymentShape, Zenon DEF WritesAttempt, dbVars
  <2>2. Fresh(handler[h])
    OBVIOUS
  <2> QED  BY <2>1, <2>2, SMTT(30) DEF Fresh, Quiet, IdleHandler, Buying, Reserving, Releasing, Taking
<1>8. ASSUME NEW h \in Handlers, RollBack(h) PROVE Goal(h)
  <2>1. CASE handler[h].actor # NULL
    BY <1>8, <2>1, ThrowIsQuiet DEF RollBack
  <2>2. CASE handler[h].actor = NULL
    <3>1. SkipExpired(h) /\ handler[h].pc \in InTransaction /\ Engaged(handler[h])
      BY <1>8, <2>2 DEF RollBack
    <3>2. handler[h].pc \in Releasing
      BY <2>2, <3>1, FieldTypes, NullIsNoId
         DEF Engaged, Coherent, InTransaction, Buying, Releasing
    <3>3. Only(h) /\ handler'[h].pc \in Reserving \cup Releasing \cup {"idle"}
      BY <3>1, <3>2, ReservationShape
    <3> QED  BY <3>1, <3>2, <3>3 DEF Ends, Fresh, Buying, Reserving, Releasing
  <2> QED  BY <2>1, <2>2
<1>9. ASSUME NEW h \in Handlers, FailApprove(h) \/ Die(h) PROVE Goal(h)
  <2>1. CASE Die(h)
    BY <2>1, ThrowIsQuiet DEF Die
  <2>2. CASE FailApprove(h)
    <3>1. Only(h) /\ handler'[h].pc = "fail" /\ UNCHANGED <<inventory, reservation>>
      BY <2>2, FailApproveShape DEF dbVars
    <3> QED  BY <3>1 DEF Fresh, Quiet, Buying, Reserving, Releasing, Taking
  <2> QED  BY <1>9, <2>1, <2>2
<1> HIDE DEF Goal
<1>10. CASE Environment
  <2>1. CASE \/ \E r \in Reservations : FallDue(r)
             \/ \E v \in Vouchers : VoucherExpires(v)
             \/ \E s \in Stores, books \in (SUBSET Books) \ {{}} :
                  \E quantity \in [books -> Stocks] : UpdateInventoryByStoreId(s, quantity)
             \/ \E c \in Clients, amount \in TopUpAmounts : TopUp(c, amount)
    BY <2>1, EnvironmentPasses
  <2>2. CASE \E h \in Handlers : Abort(h) \/ FailApprove(h) \/ Die(h)
    BY <1>8, <1>9, <2>2 DEF Abort, Goal
  <2> QED  BY <1>10, <2>1, <2>2 DEF Environment
<1>11. CASE UNCHANGED vars
  BY <1>11 DEF vars, dbVars, Passes
<1>12. ASSUME NEW h \in Handlers, Request(h) \/ Step(h) PROVE Goal(h)
  BY <1>2, <1>3, <1>4, <1>5, <1>6, <1>7, <1>8, <1>12 DEF Request, Step, BreakDeadlock
<1> QED  BY <1>10, <1>11, <1>12 DEF Next, Goal

(* A purchase that comes to the reservations has read none of their items. *)
FreshInv == \A h \in Handlers : Fresh(handler[h])

LEMMA FreshInvariance == Spec => []FreshInv
<1>1. DbInit => FreshInv
  BY DEF DbInit, FreshInv, Fresh, IdleHandler
<1>2. IInv /\ IInv' /\ SalesInv /\ FreshInv /\ [Next]_vars => FreshInv'
  <2> SUFFICES ASSUME IInv, IInv', SalesInv, FreshInv, [Next]_vars PROVE FreshInv'
    OBVIOUS
  <2>1. \A h \in Handlers : Engaged(handler[h]) /\ Fresh(handler[h])
    BY DEF SalesInv, Sells, FreshInv
  <2>2. CASE Passes
    BY <2>1, <2>2 DEF Passes, FreshInv
  <2>3. ASSUME NEW h \in Handlers, Only(h), Fresh(handler'[h]) PROVE FreshInv'
    BY <2>1, <2>3 DEF Only, FreshInv
  <2> QED  BY <2>1, <2>2, <2>3, StockCases
<1> QED  BY <1>1, <1>2, Invariance, SalesInvariance, PTL DEF Spec

-----------------------------------------------------------------------------
(* Copies of a book over all stores, and what a client holds.              *)

CopiesOf(f, b) == SumFunction([s \in Stores |-> f[<<b, s>>]])

LEMMA CopiesOfType ==
  ASSUME NEW f, NEW b \in Books
  PROVE  /\ f \in [Rows -> Int] => CopiesOf(f, b) \in Int
         /\ f \in [Rows -> Nat] => CopiesOf(f, b) \in Nat
<1> DEFINE g == [s \in Stores |-> f[<<b, s>>]]
<1>1. CASE f \in [Rows -> Nat]
  <2>1. g \in [Stores -> Nat]
    BY <1>1 DEF Rows
  <2> HIDE DEF g
  <2>2. SumFunction(g) \in Nat
    BY <2>1, IdsAreFinite, SumNat
  <2> QED  BY <2>2 DEF CopiesOf, g
<1>2. CASE f \in [Rows -> Int]
  <2>1. g \in [Stores -> Int]
    BY <1>2 DEF Rows
  <2> HIDE DEF g
  <2>2. SumFunction(g) \in Int
    BY <2>1, IdsAreFinite, SumFunctionType
  <2>3. CopiesOf(f, b) \in Int
    BY <2>2 DEF CopiesOf, g
  <2> QED  BY <1>1, <2>3
<1> QED  BY <1>1, <1>2

LEMMA NoCopies == \A b \in Books : CopiesOf([w \in Rows |-> 0], b) = 0
<1> SUFFICES ASSUME NEW b \in Books PROVE CopiesOf([w \in Rows |-> 0], b) = 0
  OBVIOUS
<1>1. [s \in Stores |-> [w \in Rows |-> 0][<<b, s>>]] = [s \in Stores |-> 0]
  BY DEF Rows
<1> QED  BY <1>1, IdsAreFinite, SumZero DEF CopiesOf

(* One row changes.                                                        *)
LEMMA CopiesOfMoves ==
  ASSUME NEW f \in [Rows -> Int], NEW g \in [Rows -> Int], NEW w \in Rows, NEW n \in Int,
         g[w] = f[w] + n, \A x \in Rows \ {w} : g[x] = f[x]
  PROVE  \A b \in Books : CopiesOf(g, b) = CopiesOf(f, b) + (IF b = w[1] THEN n ELSE 0)
<1> SUFFICES ASSUME NEW b \in Books
             PROVE  CopiesOf(g, b) = CopiesOf(f, b) + (IF b = w[1] THEN n ELSE 0)
  OBVIOUS
<1> DEFINE before == [s \in Stores |-> f[<<b, s>>]]
           after == [s \in Stores |-> g[<<b, s>>]]
<1>1. before \in [Stores -> Int] /\ after \in [Stores -> Int]
  BY DEF Rows
<1>2. CASE b = w[1]
  <2>1. w[2] \in Stores /\ w = <<b, w[2]>>
    BY <1>2 DEF Rows
  <2>2. \A s \in Stores \ {w[2]} : <<b, s>> \in Rows \ {w}
    BY <2>1 DEF Rows
  <2>3. /\ \A s \in Stores \ {w[2]} : before[s] = after[s]
        /\ after[w[2]] = before[w[2]] + n
    BY <2>1, <2>2
  <2>4. after[w[2]] - before[w[2]] = n
    BY <1>1, <2>1, <2>3
  <2> HIDE DEF before, after
  <2>5. SumFunction(after) = SumFunction(before) + (after[w[2]] - before[w[2]])
    BY <1>1, <2>1, <2>3, IdsAreFinite, SumChange
  <2> QED  BY <1>2, <2>4, <2>5 DEF CopiesOf, before, after
<1>3. CASE b # w[1]
  <2>1. \A s \in Stores : <<b, s>> \in Rows \ {w}
    BY <1>3 DEF Rows
  <2>2. before = after
    BY <2>1
  <2>3. CopiesOf(g, b) = CopiesOf(f, b)
    BY <2>2 DEF CopiesOf
  <2> QED  BY <1>3, <2>3, CopiesOfType
<1> QED  BY <1>2, <1>3

LEMMA CopiesOfAtMost ==
  ASSUME NEW f \in [Rows -> Int], NEW g \in [Rows -> Int], \A w \in Rows : f[w] <= g[w], NEW b \in Books
  PROVE  CopiesOf(f, b) <= CopiesOf(g, b)
<1> DEFINE x == [s \in Stores |-> f[<<b, s>>]]
           y == [s \in Stores |-> g[<<b, s>>]]
<1>1. x \in [Stores -> Int] /\ y \in [Stores -> Int] /\ \A s \in Stores : x[s] <= y[s]
  BY DEF Rows
<1> HIDE DEF x, y
<1>2. SumFunction(x) <= SumFunction(y)
  BY <1>1, IdsAreFinite, SumAtMost
<1> QED  BY <1>2 DEF CopiesOf, x, y

(* What client c holds of book b in each reservation.                      *)
HeldIn(c, b) == [r \in Reservations |-> IF Holds(r, c) THEN ItemCopies(r, b) ELSE 0]

LEMMA HeldType ==
  ASSUME IInv, NEW c, NEW b \in Books
  PROVE  /\ \A r \in Reservations : ItemCopies(r, b) = CopiesOf(reservation[r].items, b)
         /\ \A r \in Reservations : ItemCopies(r, b) \in Nat
         /\ HeldIn(c, b) \in [Reservations -> Nat]
         /\ HeldIn(c, b) \in [Reservations -> Int]
         /\ HeldCopies(c, b) \in Nat /\ HeldCopies(c, b) = SumFunction(HeldIn(c, b))
<1>1. \A r \in Reservations : reservation[r].items \in [Rows -> Nat]
  BY DEF IInv, TypeOK, ReservationRow
<1>2. \A r \in Reservations : ItemCopies(r, b) = CopiesOf(reservation[r].items, b)
  BY DEF ItemCopies, CopiesOf
<1>3. \A r \in Reservations : ItemCopies(r, b) \in Nat
  BY <1>1, <1>2, CopiesOfType
<1>4. HeldIn(c, b) \in [Reservations -> Nat] /\ HeldIn(c, b) \in [Reservations -> Int]
  BY <1>3 DEF HeldIn
<1>5. SumFunction(HeldIn(c, b)) \in Nat
  BY <1>4, IdsAreFinite, SumNat
<1>6. HeldCopies(c, b) = SumFunction(HeldIn(c, b))
  BY DEF HeldCopies, HeldIn
<1> QED  BY <1>2, <1>3, <1>4, <1>5, <1>6

HeldAddsUp ==
  \A c : \A b \in Books :
    /\ \A r \in Reservations : ItemCopies(r, b) = CopiesOf(reservation[r].items, b)
    /\ HeldIn(c, b) \in [Reservations -> Int]
    /\ HeldCopies(c, b) \in Nat /\ HeldCopies(c, b) = SumFunction(HeldIn(c, b))

LEMMA HeldNow == IInv => HeldAddsUp
BY HeldType DEF HeldAddsUp

LEMMA HeldNextType ==
  ASSUME IInv', NEW c, NEW b \in Books
  PROVE  /\ \A r \in Reservations : ItemCopies(r, b)' = CopiesOf(reservation'[r].items, b)
         /\ HeldIn(c, b)' \in [Reservations -> Int]
         /\ HeldCopies(c, b)' \in Nat /\ HeldCopies(c, b)' = SumFunction(HeldIn(c, b)')
<1>1. HeldAddsUp'
  BY HeldNow, PTL
<1> QED  BY <1>1 DEF HeldAddsUp

(* The step gives client c no copy to hold that it did not hold before.    *)
HoldsNoMore(c) ==
  \A r \in Reservations :
    Holds(r, c)' =>
      Holds(r, c) /\ \A w \in Rows : reservation'[r].items[w] <= reservation[r].items[w]

LEMMA HeldShrinks ==
  ASSUME IInv, IInv', NEW c \in Clients, HoldsNoMore(c), NEW b \in Books
  PROVE  HeldCopies(c, b)' <= HeldCopies(c, b)
<1>1. \A r \in Reservations : /\ reservation[r].items \in [Rows -> Int]
                              /\ reservation'[r].items \in [Rows -> Int]
  BY DEF IInv, TypeOK, ReservationRow
<1>2. /\ HeldIn(c, b) \in [Reservations -> Nat] /\ HeldIn(c, b) \in [Reservations -> Int]
      /\ HeldCopies(c, b) = SumFunction(HeldIn(c, b))
      /\ \A r \in Reservations : ItemCopies(r, b) = CopiesOf(reservation[r].items, b)
  BY HeldType
<1>3. /\ HeldIn(c, b)' \in [Reservations -> Int] /\ HeldCopies(c, b)' = SumFunction(HeldIn(c, b)')
      /\ \A r \in Reservations : ItemCopies(r, b)' = CopiesOf(reservation'[r].items, b)
  BY HeldNextType
<1>4. ASSUME NEW r \in Reservations PROVE HeldIn(c, b)'[r] <= HeldIn(c, b)[r]
  <2>1. CASE ~Holds(r, c)'
    <3>1. HeldIn(c, b)'[r] = 0
      BY <2>1 DEF HeldIn
    <3> QED  BY <1>2, <3>1
  <2>2. CASE Holds(r, c)'
    <3>1. Holds(r, c) /\ \A w \in Rows : reservation'[r].items[w] <= reservation[r].items[w]
      BY <2>2 DEF HoldsNoMore
    <3>2. CopiesOf(reservation'[r].items, b) <= CopiesOf(reservation[r].items, b)
      BY <1>1, <3>1, CopiesOfAtMost
    <3>3. HeldIn(c, b)[r] = ItemCopies(r, b)
      BY <3>1 DEF HeldIn
    <3>4. HeldIn(c, b)'[r] = ItemCopies(r, b)'
      BY <2>2 DEF HeldIn
    <3> QED  BY <1>2, <1>3, <3>2, <3>3, <3>4
  <2> QED  BY <2>1, <2>2
<1> DEFINE x == HeldIn(c, b)'  y == HeldIn(c, b)
<1>5. x \in [Reservations -> Int] /\ y \in [Reservations -> Int]
      /\ \A r \in Reservations : x[r] <= y[r]
  BY <1>2, <1>3, <1>4
<1> HIDE DEF x, y
<1>6. SumFunction(x) <= SumFunction(y)
  BY <1>5, IdsAreFinite, SumAtMost
<1> QED  BY <1>2, <1>3, <1>6 DEF x, y

(* So many copies of each book are within the limits.                      *)
Limited(n) ==
  /\ Cardinality({b \in Books : n[b] > 0}) <= MaxDifferentBooks
  /\ \A b \in Books : n[b] <= MaxCopies

LEMMA LimitedShrinks ==
  ASSUME NEW n \in [Books -> Nat], NEW m \in [Books -> Nat], Limited(m), \A b \in Books : n[b] <= m[b]
  PROVE  Limited(n)
<1> DEFINE N == {b \in Books : n[b] > 0}
           M == {b \in Books : m[b] > 0}
<1>1. N \subseteq M /\ M \subseteq Books
  OBVIOUS
<1>2. IsFiniteSet(M)
  BY <1>1, IdsAreFinite, FS_Subset
<1>3. IsFiniteSet(N) /\ Cardinality(N) <= Cardinality(M)
  BY <1>1, <1>2, FS_Subset
<1>4. Cardinality(N) \in Nat /\ Cardinality(M) \in Nat
  BY <1>2, <1>3, FS_CardinalityType
<1>5. Cardinality(M) <= MaxDifferentBooks /\ \A b \in Books : m[b] <= MaxCopies
  BY DEF Limited
<1>6. MaxDifferentBooks \in Nat /\ MaxCopies \in Nat
  BY BoundsAreNaturals
<1>7. \A b \in Books : n[b] <= MaxCopies
  BY <1>5, <1>6
<1>8. Cardinality(N) <= MaxDifferentBooks
  <2> DEFINE x == Cardinality(N)  y == Cardinality(M)
  <2>1. x \in Nat /\ y \in Nat /\ x <= y /\ y <= MaxDifferentBooks
    BY <1>3, <1>4, <1>5
  <2> HIDE DEF x, y
  <2>2. x <= MaxDifferentBooks
    BY <1>6, <2>1
  <2> QED  BY <2>2 DEF x
<1> QED  BY <1>7, <1>8 DEF Limited

(* What client c holds, and what it would hold with what it wants.         *)
Held(c) == [b \in Books |-> HeldCopies(c, b)]
HeldWith(c, want) == [b \in Books |-> HeldCopies(c, b) + want[b]]

LEMMA LimitsAreLimited ==
  /\ ReservationLimits <=> \A c \in Clients : Limited(Held(c))
  /\ \A c, want : WithinLimits(c, want) <=> Limited(HeldWith(c, want))
<1>1. ASSUME NEW c PROVE {b \in Books : Held(c)[b] > 0} = {b \in Books : HeldCopies(c, b) > 0}
  BY DEF Held
<1>2. ReservationLimits <=> \A c \in Clients : Limited(Held(c))
  BY <1>1 DEF ReservationLimits, Limited, Held
<1>3. \A c, want : WithinLimits(c, want) <=> Limited(HeldWith(c, want))
  BY DEF WithinLimits, Requested, Limited, HeldWith
<1> QED  BY <1>2, <1>3

(* A client that holds no more stays within the limits, also with what it  *)
(* wants.                                                                  *)
LEMMA LimitsStay ==
  ASSUME IInv, IInv', NEW c \in Clients, HoldsNoMore(c)
  PROVE  /\ Limited(Held(c)) => Limited(Held(c)')
         /\ \A want \in [Books -> Nat] :
              Limited(HeldWith(c, want)) => Limited([b \in Books |-> HeldCopies(c, b)' + want[b]])
<1>1. \A b \in Books : HeldCopies(c, b) \in Nat /\ HeldCopies(c, b)' \in Nat
                       /\ HeldCopies(c, b)' <= HeldCopies(c, b)
  BY HeldType, HeldNextType, HeldShrinks
<1>2. Held(c) \in [Books -> Nat] /\ Held(c)' \in [Books -> Nat]
      /\ \A b \in Books : Held(c)'[b] <= Held(c)[b]
  BY <1>1 DEF Held
<1>3. Limited(Held(c)) => Limited(Held(c)')
  BY <1>2, LimitedShrinks
<1>4. ASSUME NEW want \in [Books -> Nat], Limited(HeldWith(c, want))
      PROVE  Limited([b \in Books |-> HeldCopies(c, b)' + want[b]])
  <2> DEFINE n == [b \in Books |-> HeldCopies(c, b)' + want[b]]
             m == HeldWith(c, want)
  <2>1. n \in [Books -> Nat] /\ m \in [Books -> Nat] /\ \A b \in Books : n[b] <= m[b]
    BY <1>1 DEF HeldWith
  <2> HIDE DEF n
  <2>2. Limited(n)
    BY <1>4, <2>1, LimitedShrinks
  <2> QED  BY <2>2 DEF n
<1> QED  BY <1>3, <1>4

-----------------------------------------------------------------------------
(* The limits of what a client may hold.                                   *)

(* What a purchase will write to the items of reservations: of those it has*)
(* still to visit, at most what it has read.                               *)
ReadItems(s) == s.left \cup (IF s.pc = "consumeReserved" THEN s.todo ELSE {})

(* They are items of its client, and nobody has made them fewer since.     *)
Owns(s) ==
  s.pc \in Taking =>
    \A e \in ReadItems(s) :
      /\ reservation[e.res].status # "none"
      /\ reservation[e.res].client = s.actor
      /\ e.cap <= reservation[e.res].items[e.row]

AllocatedOf(d, b) == CopiesOf([w \in Rows |-> d[w].reserved], b)

(* A reservation being made fits under the limits, and has what it wants   *)
(* but for what it still needs.                                            *)
Reserves(s, d) ==
  /\ s.pc \in Reserving => WithinLimits(s.actor, s.want)
  /\ s.pc = "assertInventoryAvailability" => s.need = s.want
  /\ s.pc = "allocateInventory" =>
       \A b \in Books : AllocatedOf(d, b) + s.need[b] = s.want[b]

LimitsInv ==
  /\ ReservationLimits
  /\ \A h \in Handlers : Owns(handler[h]) /\ Reserves(handler[h], delta[h])

(* Reservations keep their items; they may fall due, or be closed.         *)
Lapses ==
  \A r \in Reservations :
    /\ reservation'[r].client = reservation[r].client
    /\ reservation'[r].items = reservation[r].items
    /\ reservation[r].status # "none" => reservation'[r].status # "none"
    /\ reservation'[r].status = "active" /\ ~reservation'[r].due =>
         reservation[r].status = "active" /\ ~reservation[r].due

LEMMA LapsesHold ==
  ASSUME IInv, Lapses, NEW c
  PROVE  HoldsNoMore(c)
<1>1. \A r \in Reservations : reservation[r].items \in [Rows -> Nat]
  BY DEF IInv, TypeOK, ReservationRow
<1> QED  BY <1>1 DEF Lapses, HoldsNoMore, Holds

LEMMA LapsesOwn ==
  ASSUME IInv, Lapses, NEW g \in Handlers, handler'[g] = handler[g], Owns(handler[g])
  PROVE  Owns(handler[g])'
<1>1. ASSUME handler[g].pc \in Taking, NEW e \in ReadItems(handler[g])
      PROVE  e.res \in Reservations
  <2>1. e \in ItemEntry
    BY <1>1, FieldTypes DEF ReadItems, Coherent
  <2> QED  BY <2>1, EntryTypes
<1> QED  BY <1>1 DEF Owns, ReadItems, Lapses

(* A handler that stays where it is keeps to the limits of a client that   *)
(* holds no more.                                                          *)
LEMMA ReservesStays ==
  ASSUME IInv, IInv', NEW g \in Handlers, handler'[g] = handler[g], delta'[g] = delta[g],
         Reserves(handler[g], delta[g]),
         handler[g].pc \in Reserving => HoldsNoMore(handler[g].actor)
  PROVE  Reserves(handler[g], delta[g])'
<1>1. ASSUME handler[g].pc \in Reserving PROVE WithinLimits(handler[g].actor, handler[g].want)'
  <2>1. handler[g].actor \in Clients /\ handler[g].want \in [Books -> Nat]
    BY <1>1, FieldTypes DEF Coherent, Reserving
  <2>2. WithinLimits(handler[g].actor, handler[g].want) /\ HoldsNoMore(handler[g].actor)
    BY <1>1 DEF Reserves
  <2>3. \A c \in Clients : \A want \in [Books -> Nat] :
          HoldsNoMore(c) /\ WithinLimits(c, want) => WithinLimits(c, want)'
    <3> SUFFICES ASSUME NEW c \in Clients, NEW want \in [Books -> Nat],
                        HoldsNoMore(c), WithinLimits(c, want)
                 PROVE  WithinLimits(c, want)'
      OBVIOUS
    <3>1. Limited(HeldWith(c, want))
      BY LimitsAreLimited
    <3>2. Limited([b \in Books |-> HeldCopies(c, b)' + want[b]])
      BY <3>1, LimitsStay
    <3> QED  BY <3>2 DEF WithinLimits, Requested, Limited
  <2>4. PICK c \in Clients, want \in [Books -> Nat] :
               c = handler[g].actor /\ want = handler[g].want
    BY <2>1
  <2>5. WithinLimits(c, want)' /\ handler'[g].actor = c /\ handler'[g].want = want
    BY <2>2, <2>3, <2>4
  <2> QED  BY <2>5 DEF WithinLimits, Requested, HeldCopies, Holds, ItemCopies
<1> QED  BY <1>1 DEF Reserves

(* What the reservations hold shrinks for all: the limits are kept.        *)
LEMMA LimitsShrink ==
  ASSUME IInv, IInv', ReservationLimits, \A c \in Clients : HoldsNoMore(c)
  PROVE  ReservationLimits'
<1>1. \A c \in Clients : Limited(Held(c))
  BY LimitsAreLimited
<1>2. \A c \in Clients : Limited(Held(c)')
  BY <1>1, LimitsStay
<1> QED  BY <1>2 DEF ReservationLimits, Limited, Held

(* Where others stay and reservations lapse, only h's own state matters.   *)
LEMMA LimitsAside ==
  ASSUME IInv, IInv', LimitsInv, NEW h \in Handlers, Only(h), Lapses,
         Owns(handler[h])', Reserves(handler[h], delta[h])'
  PROVE  LimitsInv'
<1>1. \A c : HoldsNoMore(c)
  BY LapsesHold
<1>2. ReservationLimits'
  BY <1>1, LimitsShrink DEF LimitsInv
<1>3. ASSUME NEW g \in Handlers \ {h} PROVE Owns(handler[g])' /\ Reserves(handler[g], delta[g])'
  <2>1. handler'[g] = handler[g] /\ delta'[g] = delta[g] /\ Owns(handler[g])
        /\ Reserves(handler[g], delta[g])
    BY DEF Only, LimitsInv
  <2> QED  BY <1>1, <2>1, LapsesOwn, ReservesStays
<1> QED  BY <1>2, <1>3 DEF LimitsInv

(* A row that gives copies to a reservation.                               *)
LEMMA AllocateRowReserves ==
  ASSUME IInv, IInv', NEW h \in Handlers, AllocateRow(h), Reserves(handler[h], delta[h])
  PROVE  Reserves(handler[h], delta[h])'
<1>1. PICK e \in handler[h].todo :
        /\ handler[h].pc = "allocateInventory"
        /\ UpdateInventory(h, e.row, -Smaller(handler[h].need[e.row[1]], e.cap),
                           Smaller(handler[h].need[e.row[1]], e.cap), 0)
        /\ handler' = [handler EXCEPT
             ![h].need[e.row[1]] = @ - Smaller(handler[h].need[e.row[1]], e.cap),
             ![h].todo = IF handler[h].need[e.row[1]] - Smaller(handler[h].need[e.row[1]], e.cap) = 0
                         THEN {} ELSE @ \ {e}]
        /\ UNCHANGED dbVars
  BY Zenon DEF AllocateRow
<1> DEFINE b == e.row[1]
           take == Smaller(handler[h].need[b], e.cap)
           f == [w \in Rows |-> delta[h][w].reserved]
           g == [w \in Rows |-> delta'[h][w].reserved]
<1>2. e.row \in Rows /\ b \in Books /\ handler[h].need \in [Books -> Nat] /\ e.cap \in Nat
      /\ handler[h].want \in [Books -> Nat]
      /\ delta[h] \in [Rows -> DeltaRow] /\ delta'[h] \in [Rows -> DeltaRow]
  BY FieldTypes, EntryTypes DEF IInv, TypeOK
<1>3. take \in Nat
  BY <1>2, SmallerType
<1>4. /\ handler'[h].need = [handler[h].need EXCEPT ![b] = @ - take]
      /\ handler'[h].pc = "allocateInventory" /\ handler'[h].want = handler[h].want
      /\ handler'[h].actor = handler[h].actor
  <2>1. handler \in [Handlers -> HandlerState]
    BY DEF IInv, TypeOK
  <2> HIDE DEF take
  <2>2. \E todo : handler' = [handler EXCEPT ![h].need[b] = @ - take, ![h].todo = todo]
    BY <1>1 DEF take
  <2> QED  BY <1>1, <1>2, <2>1, <2>2, SMTT(30) DEF HandlerState
<1>5. /\ f \in [Rows -> Int] /\ g \in [Rows -> Int]
      /\ g[e.row] = f[e.row] + take /\ \A x \in Rows \ {e.row} : g[x] = f[x]
  <2>1. delta' = [delta EXCEPT ![h][e.row] =
                    [available |-> @.available + -take, reserved |-> @.reserved + take,
                     sold |-> @.sold + 0]]
    BY <1>1 DEF UpdateInventory
  <2>2. delta'[h][e.row].reserved = delta[h][e.row].reserved + take
        /\ \A x \in Rows \ {e.row} : delta'[h][x] = delta[h][x]
    <3> HIDE DEF take
    <3> QED  BY <1>2, <2>1 DEF IInv, TypeOK
  <2> HIDE DEF take
  <2> QED  BY <1>2, <2>2 DEF DeltaRow
<1>6. /\ \A x \in Books : AllocatedOf(delta[h], x) + handler[h].need[x] = handler[h].want[x]
      /\ \A x \in Books : AllocatedOf(delta[h], x) = CopiesOf(f, x)
      /\ \A x \in Books : AllocatedOf(delta'[h], x) = CopiesOf(g, x)
  BY <1>1 DEF Reserves, AllocatedOf
<1> HIDE DEF f, g, take
<1>7. \A x \in Books : CopiesOf(g, x) = CopiesOf(f, x) + (IF x = b THEN take ELSE 0)
  BY <1>2, <1>3, <1>5, CopiesOfMoves, SMTT(30)
<1>8. \A x \in Books : AllocatedOf(delta'[h], x) + handler'[h].need[x] = handler[h].want[x]
  BY <1>2, <1>3, <1>4, <1>5, <1>6, <1>7, CopiesOfType
<1>9. WithinLimits(handler[h].actor, handler[h].want)'
  <2>1. UNCHANGED reservation
    BY <1>1 DEF dbVars
  <2>2. WithinLimits(handler[h].actor, handler[h].want)
    BY <1>1 DEF Reserves, Reserving
  <2> QED  BY <1>4, <2>1, <2>2 DEF WithinLimits, Requested, HeldCopies, Holds, ItemCopies
<1> QED  BY <1>4, <1>8, <1>9, Zenon DEF Reserves

(* A reservation that is made holds what was wanted.                       *)
LEMMA CreateReservationLimits ==
  ASSUME Overlapping \cap Clients = {}, IInv, IInv', OrderInv, LimitsInv, NEW h \in Handlers,
         Only(h), CreateReservation(h)
  PROVE  LimitsInv'
<1> DEFINE c == handler[h].actor
           want == handler[h].want
           f == [w \in Rows |-> delta[h][w].reserved]
           made == [status |-> "active", client |-> c, due |-> FALSE, madeAt |-> Len(ledger[c]),
                    items |-> f]
<1>1. PICK r \in Reservations :
        /\ handler[h].pc = "allocateInventory" /\ handler[h].need = NoBooks
        /\ reservation[r].status = "none"
        /\ reservation' = [reservation EXCEPT ![r] = made]
        /\ handler' = [handler EXCEPT ![h] = IdleHandler]
  BY DEF CreateReservation
<1>2. /\ reservation \in [Reservations -> ReservationRow] /\ handler \in [Handlers -> HandlerState]
      /\ c \in Clients /\ want \in [Books -> Nat]
  BY <1>1, FieldTypes DEF IInv, TypeOK, Coherent
<1>3. /\ \A q \in Reservations \ {r} : reservation'[q] = reservation[q]
      /\ reservation'[r].status = "active" /\ reservation'[r].client = c
      /\ reservation'[r].due = FALSE /\ reservation'[r].items = f
  BY <1>1, <1>2
<1>4. \A d : d # c => HoldsNoMore(d)
  <2>1. \A q \in Reservations : reservation[q].items \in [Rows -> Nat]
    BY <1>2 DEF ReservationRow
  <2> QED  BY <1>3, <2>1 DEF HoldsNoMore, Holds
<1>5. \A d \in Clients : Limited(Held(d))
  BY LimitsAreLimited DEF LimitsInv
<1>6. Limited(HeldWith(c, want)) /\ \A b \in Books : CopiesOf(f, b) = want[b]
  <2>1. Reserves(handler[h], delta[h]) /\ \A b \in Books : AllocatedOf(delta[h], b) = CopiesOf(f, b)
    BY DEF LimitsInv, AllocatedOf
  <2>2. f \in [Rows -> Int]
    BY DEF IInv, TypeOK, DeltaRow
  <2>3. WithinLimits(c, want)
    BY <1>1, <2>1 DEF Reserves, Reserving
  <2>4. \A b \in Books : CopiesOf(f, b) + 0 = want[b]
    BY <1>1, <2>1 DEF Reserves, NoBooks
  <2> HIDE DEF f
  <2>5. \A b \in Books : CopiesOf(f, b) = want[b]
    BY <2>2, <2>4, CopiesOfType
  <2> QED  BY <2>3, <2>5, LimitsAreLimited
<1>7. ASSUME NEW d \in Clients PROVE Limited(Held(d)')
  <2>1. CASE d # c
    BY <1>4, <1>5, <2>1, LimitsStay
  <2>2. CASE d = c
    <3>1. ASSUME NEW b \in Books
          PROVE  HeldCopies(d, b)' = HeldCopies(d, b) + want[b]
      <4> DEFINE x == HeldIn(d, b)
                 y == HeldIn(d, b)'
      <4>1. /\ x \in [Reservations -> Int] /\ HeldCopies(d, b) = SumFunction(x)
            /\ \A q \in Reservations : ItemCopies(q, b) = CopiesOf(reservation[q].items, b)
        BY HeldType
      <4>2. /\ y \in [Reservations -> Int] /\ HeldCopies(d, b)' = SumFunction(y)
            /\ \A q \in Reservations : ItemCopies(q, b)' = CopiesOf(reservation'[q].items, b)
        BY HeldNextType
      <4>3. x[r] = 0
        BY <1>1 DEF HeldIn, Holds
      <4>4. y[r] = want[b]
        <5>1. Holds(r, d)'
          BY <1>3, <2>2 DEF Holds
        <5>2. y[r] = ItemCopies(r, b)'
          BY <5>1 DEF HeldIn
        <5> HIDE DEF f
        <5> QED  BY <1>3, <1>6, <4>2, <5>2
      <4>5. \A q \in Reservations \ {r} : x[q] = y[q]
        BY <1>3 DEF HeldIn, Holds, ItemCopies
      <4> HIDE DEF x, y
      <4>6. SumFunction(y) = SumFunction(x) + (y[r] - x[r])
        BY <4>1, <4>2, <4>5, IdsAreFinite, SumChange
      <4>7. SumFunction(x) \in Int /\ want[b] \in Nat
        BY <1>2, <4>1, IdsAreFinite, SumFunctionType
      <4> HIDE DEF want
      <4> QED  BY <4>1, <4>2, <4>3, <4>4, <4>6, <4>7
    <3>2. Held(d)' = [b \in Books |-> HeldCopies(d, b) + want[b]]
      BY <3>1 DEF Held
    <3> QED  BY <1>6, <2>2, <3>2 DEF HeldWith
  <2> QED  BY <2>1, <2>2
<1>8. ReservationLimits'
  BY <1>7 DEF ReservationLimits, Limited, Held
<1>9. Owns(handler[h])' /\ Reserves(handler[h], delta[h])'
  <2>1. handler'[h].pc = "idle"
    BY <1>1, <1>2 DEF IdleHandler
  <2> QED  BY <2>1 DEF Owns, Reserves, Taking, Reserving
<1>10. ASSUME NEW g \in Handlers \ {h} PROVE Owns(handler[g])' /\ Reserves(handler[g], delta[g])'
  <2>1. handler'[g] = handler[g] /\ delta'[g] = delta[g] /\ Owns(handler[g])
        /\ Reserves(handler[g], delta[g])
    BY DEF Only, LimitsInv
  <2>2. ASSUME handler[g].pc \in Taking, NEW e \in ReadItems(handler[g])
        PROVE  reservation'[e.res] = reservation[e.res]
    <3>1. e \in ItemEntry
      BY <2>2, FieldTypes DEF ReadItems, Coherent
    <3>2. e.res \in Reservations /\ e.res # r
      BY <1>1, <2>1, <2>2, <3>1, EntryTypes DEF Owns
    <3> QED  BY <1>3, <3>2
  <2>3. Owns(handler[g])'
    BY <2>1, <2>2 DEF Owns, ReadItems
  <2>4. ASSUME handler[g].pc \in Reserving PROVE HoldsNoMore(handler[g].actor)
    <3>1. handler[g].actor # c
      BY <1>1, <1>2, <2>4, OneBuyer DEF Reserving
    <3> QED  BY <1>4, <3>1
  <2> QED  BY <2>1, <2>3, <2>4, ReservesStays
<1> QED  BY <1>8, <1>9, <1>10 DEF LimitsInv

LEMMA AllocatesLimits ==
  ASSUME Overlapping \cap Clients = {}, IInv, IInv', OrderInv, LimitsInv, NEW h \in Handlers,
         Only(h), Allocates(h)
  PROVE  LimitsInv'
<1>1. /\ handler \in [Handlers -> HandlerState] /\ delta \in [Handlers -> [Rows -> DeltaRow]]
      /\ handler[h] \in HandlerState
  BY DEF IInv, TypeOK
<1>2. ASSUME UNCHANGED reservation PROVE Lapses
  BY <1>2 DEF Lapses
<1>3. ASSUME handler'[h].pc \in Reserving PROVE Owns(handler[h])'
  BY <1>3 DEF Owns, Reserving, Taking
<1>4. ASSUME NEW c \in Clients, NEW want \in ReserveOrders, StartReservation(h, c, want)
      PROVE  LimitsInv'
  <2>1. /\ UNCHANGED reservation /\ WithinLimits(c, want)
        /\ handler'[h].pc = "assertInventoryAvailability" /\ handler'[h].actor = c
        /\ handler'[h].want = want /\ handler'[h].need = want
    BY <1>1, <1>4 DEF StartReservation, IdleHandler, dbVars
  <2>2. WithinLimits(handler[h].actor, handler[h].want)'
    BY <2>1 DEF WithinLimits, Requested, HeldCopies, Holds, ItemCopies
  <2>3. Reserves(handler[h], delta[h])'
    BY <2>1, <2>2 DEF Reserves
  <2> QED  BY <1>2, <1>3, <2>1, <2>3, LimitsAside DEF Reserving
<1>5. CASE AssertInventoryAvailability(h) /\ handler'[h].pc = "allocateInventory"
  <2>1. /\ UNCHANGED <<reservation, delta>> /\ handler[h].pc = "assertInventoryAvailability"
        /\ handler'[h].actor = handler[h].actor
        /\ handler'[h].want = handler[h].want /\ handler'[h].need = handler[h].need
    BY <1>1, <1>5 DEF AssertInventoryAvailability, IdleHandler, HandlerState, dbVars
  <2>2. Reserves(handler[h], delta[h]) /\ delta[h] = NoDelta
    BY <2>1, FieldTypes DEF LimitsInv, Coherent, InTransaction
  <2>3. WithinLimits(handler[h].actor, handler[h].want) /\ handler[h].need = handler[h].want
    BY <2>1, <2>2 DEF Reserves, Reserving
  <2>4. WithinLimits(handler[h].actor, handler[h].want)'
    BY <2>1, <2>3 DEF WithinLimits, Requested, HeldCopies, Holds, ItemCopies
  <2>5. ASSUME NEW b \in Books
        PROVE  AllocatedOf(NoDelta, b) + handler[h].need[b] = handler[h].want[b]
    <3>1. [w \in Rows |-> NoDelta[w].reserved] = [w \in Rows |-> 0]
      BY DEF NoDelta
    <3>2. AllocatedOf(NoDelta, b) = 0
      BY <3>1, NoCopies DEF AllocatedOf
    <3>3. handler[h].need[b] \in Nat
      BY FieldTypes
    <3> QED  BY <2>3, <3>2, <3>3
  <2>6. delta'[h] = NoDelta
    BY <2>1, <2>2
  <2>7. Reserves(handler[h], delta[h])'
    BY <1>5, <2>1, <2>4, <2>5, <2>6 DEF Reserves
  <2> QED  BY <1>2, <1>3, <1>5, <2>1, <2>7, LimitsAside DEF Reserving
<1>6. CASE ReadAllocation(h)
  <2>1. PICK todo : /\ handler[h].pc = "allocateInventory"
                    /\ handler' = [handler EXCEPT ![h].todo = todo]
                    /\ UNCHANGED <<reservation, delta>>
    BY <1>6 DEF ReadAllocation, dbVars
  <2>2. /\ handler'[h].pc = "allocateInventory" /\ handler'[h].actor = handler[h].actor
        /\ handler'[h].want = handler[h].want /\ handler'[h].need = handler[h].need
    BY <1>1, <2>1 DEF HandlerState
  <2>3. Reserves(handler[h], delta[h])
    BY DEF LimitsInv
  <2>4. WithinLimits(handler[h].actor, handler[h].want)'
    BY <2>1, <2>2, <2>3 DEF Reserves, Reserving, WithinLimits, Requested, HeldCopies, Holds, ItemCopies
  <2>5. delta'[h] = delta[h]
    BY <2>1
  <2>6. Reserves(handler[h], delta[h])'
    BY <2>1, <2>2, <2>3, <2>4, <2>5 DEF Reserves
  <2> QED  BY <1>2, <1>3, <2>1, <2>2, <2>6, LimitsAside DEF Reserving
<1>7. CASE AllocateRow(h)
  <2>1. UNCHANGED reservation /\ handler'[h].pc = "allocateInventory"
    BY <1>1, <1>7 DEF AllocateRow, HandlerState, dbVars
  <2>2. Reserves(handler[h], delta[h])'
    BY <1>7, AllocateRowReserves DEF LimitsInv
  <2> QED  BY <1>2, <1>3, <2>1, <2>2, LimitsAside DEF Reserving
<1>8. CASE CreateReservation(h)
  BY <1>8, CreateReservationLimits
<1> QED  BY <1>4, <1>5, <1>6, <1>7, <1>8 DEF Allocates

(* Where a cancellation or the cron goes on, and what it closes.           *)
LEMMA EndsShape ==
  ASSUME IInv, NEW h \in Handlers, Ends(h)
  PROVE  /\ handler'[h].pc \in Releasing \cup {"idle"}
         /\ \/ UNCHANGED reservation
            \/ \E status \in {"cancelled", "expired"} :
                 reservation' = [reservation EXCEPT ![handler[h].res].status = status]
<1> USE DEF Releasing
<1>1. handler \in [Handlers -> HandlerState] /\ handler[h] \in HandlerState
  BY DEF IInv, TypeOK
<1>2. CASE \E c \in Clients, r \in Reservations : StartCancel(h, c, r)
  BY <1>1, <1>2 DEF StartCancel, IdleHandler, dbVars
<1>3. CASE StartExpireCron(h)
  <2> DEFINE s == [IdleHandler EXCEPT !.queue = ExpiredReservations,
                     !.snapshot = UNION {ItemsOf(r) : r \in ExpiredReservations}]
  <2>1. handler' = [handler EXCEPT ![h] = NextExpired(s)] /\ UNCHANGED reservation
    BY <1>3 DEF StartExpireCron, dbVars
  <2>2. NextExpired(s).pc \in {"release", "idle"}
    BY DEF NextExpired, IdleHandler
  <2> HIDE DEF s
  <2> QED  BY <1>1, <2>1, <2>2
<1>4. CASE ReadRelease(h) \/ ReleaseRow(h)
  BY <1>1, <1>4 DEF ReadRelease, ReleaseRow, Goto, HandlerState, dbVars
<1>5. NextExpired(handler[h]).pc \in {"release", "idle"}
  BY <1>1, NextExpiredShape DEF IdleHandler
<1>6. CASE FinishCancel(h)
  BY <1>1, <1>6 DEF FinishCancel, Close, IdleHandler
<1>7. CASE FinishExpire(h)
  BY <1>1, <1>5, <1>7 DEF FinishExpire, Close
<1>8. CASE SkipExpired(h)
  BY <1>1, <1>5, <1>8 DEF SkipExpired, dbVars
<1> QED  BY <1>2, <1>3, <1>4, <1>6, <1>7, <1>8 DEF Ends

LEMMA EndsLimits ==
  ASSUME IInv, IInv', LimitsInv, NEW h \in Handlers, Only(h), Ends(h)
  PROVE  LimitsInv'
<1>1. reservation \in [Reservations -> ReservationRow]
  BY DEF IInv, TypeOK
<1>2. Lapses
  <2>1. CASE UNCHANGED reservation
    BY <2>1 DEF Lapses
  <2>2. CASE \E status \in {"cancelled", "expired"} :
               reservation' = [reservation EXCEPT ![handler[h].res].status = status]
    <3>1. PICK status \in {"cancelled", "expired"} :
            reservation' = [reservation EXCEPT ![handler[h].res].status = status]
      BY <2>2
    <3> QED  BY <1>1, <3>1 DEF Lapses, ReservationRow
  <2> QED  BY <2>1, <2>2, EndsShape
<1>3. Owns(handler[h])' /\ Reserves(handler[h], delta[h])'
  BY EndsShape DEF Owns, Reserves, Releasing, Reserving, Taking
<1> QED  BY <1>2, <1>3, LimitsAside

(* What a purchase leaves of the items of reservation r in table rsv.      *)
Rewritten(left, r, w) == \E e \in left : e.res = r /\ e.row = w

ItemsLeft(rsv, left, r, w) ==
  IF Rewritten(left, r, w) THEN (CHOOSE e \in left : e.res = r /\ e.row = w).cap
  ELSE rsv[r].items[w]

(* What a purchase that commits does to the reservations.                  *)
LEMMA CommitRewrites ==
  ASSUME IInv, NEW h \in Handlers, CommitPurchase(h)
  PROVE  \A r \in Reservations :
           /\ reservation'[r].client = reservation[r].client
           /\ reservation'[r].due = reservation[r].due
           /\ reservation'[r].items = [w \in Rows |-> ItemsLeft(reservation, handler[h].left, r, w)]
           /\ reservation'[r].status = IF r \in handler[h].convert THEN "converted"
                                       ELSE reservation[r].status
<1>1. reservation \in [Reservations -> ReservationRow]
  BY Zenon DEF IInv, TypeOK
<1>2. \A r \in Reservations : reservation'[r] =
        [reservation[r] EXCEPT
           !.items = [w \in Rows |->
                        IF \E e \in handler[h].left : e.res = r /\ e.row = w
                        THEN (CHOOSE e \in handler[h].left : e.res = r /\ e.row = w).cap
                        ELSE reservation[r].items[w]],
           !.status = IF r \in handler[h].convert THEN "converted" ELSE @]
  BY DEF CommitPurchase
<1>3. SUFFICES ASSUME NEW r \in Reservations
               PROVE  /\ reservation'[r].client = reservation[r].client
                      /\ reservation'[r].due = reservation[r].due
                      /\ reservation'[r].items = [w \in Rows |-> ItemsLeft(reservation, handler[h].left, r, w)]
                      /\ reservation'[r].status = IF r \in handler[h].convert THEN "converted"
                                                  ELSE reservation[r].status
  OBVIOUS
<1> DEFINE items == [w \in Rows |-> ItemsLeft(reservation, handler[h].left, r, w)]
<1>4. items = [w \in Rows |->
                 IF \E e \in handler[h].left : e.res = r /\ e.row = w
                 THEN (CHOOSE e \in handler[h].left : e.res = r /\ e.row = w).cap
                 ELSE reservation[r].items[w]]
  BY DEF ItemsLeft, Rewritten
<1>5. reservation'[r] = [reservation[r] EXCEPT !.items = items,
                           !.status = IF r \in handler[h].convert THEN "converted" ELSE @]
  BY <1>2, <1>4
<1> HIDE DEF items
<1> QED  BY <1>1, <1>5 DEF ReservationRow, items

(* The item of a rewrite. *)
LEMMA RewrittenItem ==
  ASSUME NEW rsv, NEW left, NEW r, NEW w, Rewritten(left, r, w)
  PROVE  \E e \in left : e.res = r /\ e.row = w /\ ItemsLeft(rsv, left, r, w) = e.cap
BY Zenon DEF Rewritten, ItemsLeft

LEMMA CommitLimits ==
  ASSUME Overlapping \cap Clients = {}, IInv, IInv', OrderInv, LimitsInv, NEW h \in Handlers,
         handler[h].actor \in Clients, Only(h), CommitPurchase(h)
  PROVE  LimitsInv'
<1>1. handler[h].pc = "decrementInventory" /\ Owns(handler[h])
  BY DEF CommitPurchase, LimitsInv
<1>2. ASSUME NEW r \in Reservations, NEW w \in Rows
      PROVE  /\ reservation'[r].items[w] <= reservation[r].items[w]
             /\ \/ reservation[r].status # "none" /\ reservation[r].client = handler[h].actor
                \/ reservation'[r].items[w] = reservation[r].items[w]
  <2>1. reservation'[r].items[w] = ItemsLeft(reservation, handler[h].left, r, w)
    <3>1. reservation'[r].items = [x \in Rows |-> ItemsLeft(reservation, handler[h].left, r, x)]
      BY CommitRewrites
    <3> QED  BY <3>1
  <2>2. reservation[r].items[w] \in Nat
    BY DEF IInv, TypeOK, ReservationRow
  <2>3. CASE ~Rewritten(handler[h].left, r, w)
    BY <2>1, <2>2, <2>3 DEF ItemsLeft
  <2>4. CASE Rewritten(handler[h].left, r, w)
    <3>1. PICK e \in handler[h].left :
            e.res = r /\ e.row = w /\ ItemsLeft(reservation, handler[h].left, r, w) = e.cap
      BY <2>4, RewrittenItem
    <3>2. e \in ReadItems(handler[h]) /\ handler[h].pc \in Taking
      BY <1>1 DEF ReadItems, Taking
    <3> QED  BY <1>1, <2>1, <3>1, <3>2 DEF Owns
  <2> QED  BY <2>3, <2>4
<1>3. \A c : HoldsNoMore(c)
  <2>1. \A c, r : r \in Reservations /\ Holds(r, c)' => Holds(r, c)
    BY CommitRewrites DEF Holds
  <2> QED  BY <1>2, <2>1 DEF HoldsNoMore
<1>4. ReservationLimits'
  BY <1>3, LimitsShrink DEF LimitsInv
<1>5. Owns(handler[h])' /\ Reserves(handler[h], delta[h])'
  <2>1. \E p : handler'[h] = Completed(handler[h], p)
    BY CommitShape
  <2>2. handler'[h].pc \in {"idle", "approve"}
    BY <2>1 DEF Completed, IdleHandler
  <2> QED  BY <2>2 DEF Owns, Reserves, Taking, Reserving
<1>6. ASSUME NEW g \in Handlers \ {h} PROVE Owns(handler[g])' /\ Reserves(handler[g], delta[g])'
  <2>1. handler'[g] = handler[g] /\ delta'[g] = delta[g] /\ Owns(handler[g])
        /\ Reserves(handler[g], delta[g])
    BY DEF Only, LimitsInv
  <2>2. ASSUME handler[g].pc \in Taking, NEW e \in ReadItems(handler[g])
        PROVE  /\ reservation'[e.res].status # "none"
               /\ reservation'[e.res].client = handler[g].actor
               /\ e.cap <= reservation'[e.res].items[e.row]
    <3>1. e \in ItemEntry
      BY <2>2, FieldTypes DEF ReadItems, Coherent
    <3>2. e.res \in Reservations /\ e.row \in Rows
      BY <3>1, EntryTypes
    <3>3. /\ reservation[e.res].status # "none" /\ reservation[e.res].client = handler[g].actor
          /\ e.cap <= reservation[e.res].items[e.row]
      BY <2>1, <2>2 DEF Owns
    <3>4. handler[g].actor # handler[h].actor
      BY <1>1, <2>2, OneBuyer DEF Taking
    <3>5. reservation'[e.res].items[e.row] = reservation[e.res].items[e.row]
      BY <1>2, <3>2, <3>3, <3>4
    <3> QED  BY <3>2, <3>3, <3>5, CommitRewrites
  <2>3. Owns(handler[g])'
    BY <2>1, <2>2 DEF Owns, ReadItems
  <2> QED  BY <1>3, <2>1, <2>3, ReservesStays
<1> QED  BY <1>4, <1>5, <1>6 DEF LimitsInv

(* A purchase reads its client's reservations, and takes what it read.     *)
LEMMA TakesLimits ==
  ASSUME Overlapping \cap Clients = {}, IInv, IInv', OrderInv, LimitsInv, NEW h \in Handlers,
         handler[h].pc \in Buying => handler[h].actor \in Clients, Fresh(handler[h]),
         Only(h), Takes(h)
  PROVE  LimitsInv'
<1>1. handler \in [Handlers -> HandlerState] /\ handler[h] \in HandlerState
      /\ reservation \in [Reservations -> ReservationRow]
  BY DEF IInv, TypeOK
<1>2. ASSUME UNCHANGED reservation, handler'[h].pc \in Taking, handler'[h].actor = handler[h].actor,
             \A e \in ReadItems(handler'[h]) :
               /\ reservation[e.res].status # "none"
               /\ reservation[e.res].client = handler[h].actor
               /\ e.cap <= reservation[e.res].items[e.row]
      PROVE  LimitsInv'
  <2>1. Lapses
    BY <1>2 DEF Lapses
  <2>2. Owns(handler[h])'
    BY <1>2 DEF Owns, ReadItems
  <2>3. Reserves(handler[h], delta[h])'
    BY <1>2 DEF Reserves, Reserving, Taking
  <2> QED  BY <2>1, <2>2, <2>3, LimitsAside
<1>3. handler[h].pc \in Taking =>
        \A e \in ReadItems(handler[h]) :
          /\ reservation[e.res].status # "none"
          /\ reservation[e.res].client = handler[h].actor
          /\ e.cap <= reservation[e.res].items[e.row]
  BY DEF LimitsInv, Owns
<1>4. CASE ReadReserved(h)
  <2>1. /\ handler[h].pc = "readReserved" /\ UNCHANGED reservation
        /\ handler'[h].pc = "consumeReserved" /\ handler'[h].actor = handler[h].actor
        /\ handler'[h].left = handler[h].left /\ handler'[h].todo = UsableItems(h)
    BY <1>1, <1>4 DEF ReadReserved, HandlerState, dbVars
  <2>2. ReadItems(handler'[h]) = UsableItems(h)
    BY <2>1 DEF Fresh, ReadItems, Buying, Taking
  <2>3. \A e \in UsableItems(h) :
          /\ reservation[e.res].status # "none"
          /\ reservation[e.res].client = handler[h].actor
          /\ e.cap <= reservation[e.res].items[e.row]
    BY <1>1, SMTT(30) DEF UsableItems, ReservationRow
  <2> QED  BY <1>2, <2>1, <2>2, <2>3 DEF Taking
<1>5. CASE ConsumeItem(h)
  <2>1. PICK e \in handler[h].todo, todo \in SUBSET handler[h].todo :
          /\ handler[h].pc = "consumeReserved"
          /\ \E need : handler' = [handler EXCEPT
               ![h].need[e.row[1]] = need,
               ![h].left = @ \cup {[e EXCEPT !.cap = @ - Smaller(handler[h].need[e.row[1]], e.cap)]},
               ![h].todo = todo]
          /\ UNCHANGED reservation
    <3>1. PICK e \in handler[h].todo :
            LET b == e.row[1]
                take == Smaller(handler[h].need[b], e.cap)
                remaining == handler[h].need[b] - take
            IN
            /\ handler[h].pc = "consumeReserved"
            /\ handler' = [handler EXCEPT
                 ![h].need[b] = remaining,
                 ![h].left = @ \cup {[e EXCEPT !.cap = @ - take]},
                 ![h].todo = {f \in @ \ {e} : f.row[1] = b => remaining > 0}]
            /\ UNCHANGED reservation
      BY <1>5, Zenon DEF ConsumeItem, dbVars
    <3> DEFINE need == handler[h].need[e.row[1]] - Smaller(handler[h].need[e.row[1]], e.cap)
               rest == {f \in handler[h].todo \ {e} : f.row[1] = e.row[1] => need > 0}
    <3>2. handler' = [handler EXCEPT
            ![h].need[e.row[1]] = need,
            ![h].left = @ \cup {[e EXCEPT !.cap = @ - Smaller(handler[h].need[e.row[1]], e.cap)]},
            ![h].todo = rest]
      BY <1>1, <3>1
    <3>3. rest \in SUBSET handler[h].todo
      OBVIOUS
    <3> HIDE DEF need, rest
    <3> QED  BY <3>1, <3>2, <3>3, Zenon
  <2> DEFINE take == Smaller(handler[h].need[e.row[1]], e.cap)
             written == [e EXCEPT !.cap = @ - take]
  <2>2. /\ handler'[h].pc = "consumeReserved" /\ handler'[h].actor = handler[h].actor
        /\ handler'[h].left = handler[h].left \cup {written} /\ handler'[h].todo = todo
    BY <1>1, <2>1 DEF HandlerState
  <2>3. e \in ItemEntry /\ e.row[1] \in Books /\ e.cap \in Nat /\ handler[h].need[e.row[1]] \in Nat
    BY <2>1, FieldTypes, EntryTypes DEF Coherent
  <2>4. e.cap - take \in Nat /\ take \in Nat
    BY <2>3, SmallerType
  <2> HIDE DEF take
  <2>5. written.res = e.res /\ written.row = e.row /\ written.cap <= e.cap /\ written.cap \in Nat
    BY <2>3, <2>4 DEF ItemEntry
  <2>6. e.res \in Reservations /\ e.row \in Rows
    BY <2>3, EntryTypes
  <2>7. reservation[e.res].items[e.row] \in Nat
    BY <1>1, <2>6 DEF ReservationRow
  <2> HIDE DEF written
  <2>8. e \in ReadItems(handler[h])
    BY <2>1 DEF ReadItems
  <2>9. /\ reservation[written.res].status # "none"
        /\ reservation[written.res].client = handler[h].actor
        /\ written.cap <= reservation[written.res].items[written.row]
    BY <1>3, <2>1, <2>3, <2>5, <2>7, <2>8 DEF Taking
  <2>10. \A f \in ReadItems(handler'[h]) : f = written \/ f \in ReadItems(handler[h])
    BY <2>1, <2>2 DEF ReadItems
  <2> QED  BY <1>2, <1>3, <2>1, <2>2, <2>9, <2>10, Zenon DEF Taking
<1>6. ASSUME handler[h].pc \in Taking, UNCHANGED reservation,
             handler'[h].pc \in Taking \ {"consumeReserved"},
             handler'[h].actor = handler[h].actor, handler'[h].left = handler[h].left
      PROVE  LimitsInv'
  <2>1. ReadItems(handler'[h]) \subseteq ReadItems(handler[h])
    BY <1>6 DEF ReadItems
  <2> QED  BY <1>2, <1>3, <1>6, <2>1
<1>7. CASE RewriteItems(h) /\ handler'[h].pc = "createRecord"
  <2>1. ~Throw(h)
    BY <1>7, ThrowIsQuiet DEF Quiet, Taking
  <2>2. PICK convert : /\ handler[h].pc = "consumeReserved" /\ UNCHANGED reservation
                       /\ handler' = [handler EXCEPT ![h].pc = "createRecord",
                                                     ![h].convert = convert]
    BY <1>7, <2>1 DEF RewriteItems, dbVars
  <2> QED  BY <1>1, <1>6, <2>2 DEF HandlerState, Taking
<1>8. CASE CreateRecord(h) /\ handler'[h].pc = "readInventory"
  <2>1. ~Throw(h)
    BY <1>8, ThrowIsQuiet DEF Quiet, Taking
  <2> QED  BY <1>1, <1>6, <1>8, <2>1 DEF CreateRecord, Goto, HandlerState, Taking, dbVars
<1>9. CASE ReadInventory(h)
  BY <1>1, <1>6, <1>9, Zenon DEF ReadInventory, HandlerState, Taking, dbVars
<1>10. CASE DecrementInventory(h)
  BY <1>1, <1>6, <1>10, SMTT(30) DEF DecrementInventory, HandlerState, Taking, dbVars
<1>11. CASE CommitPurchase(h)
  BY <1>11, CommitLimits, Zenon DEF CommitPurchase, Buying
<1> QED  BY <1>4, <1>5, <1>7, <1>8, <1>9, <1>10, <1>11 DEF Takes

LEMMA LimitsPreserved ==
  ASSUME Overlapping \cap Clients = {}, IInv, IInv', SalesInv, FreshInv, OrderInv, LimitsInv,
         [Next]_vars
  PROVE  LimitsInv'
<1>1. \A h \in Handlers : /\ Engaged(handler[h]) /\ Fresh(handler[h])
                          /\ handler[h].pc \in Buying => handler[h].actor \in Clients
  BY DEF SalesInv, Sells, FreshInv, Engaged
<1>2. CASE Passes
  <2>1. reservation \in [Reservations -> ReservationRow]
    BY DEF IInv, TypeOK
  <2>2. Lapses
    <3>1. ASSUME NEW r \in Reservations
          PROVE  /\ reservation'[r].client = reservation[r].client
                 /\ reservation'[r].items = reservation[r].items
                 /\ reservation'[r].status = reservation[r].status
                 /\ reservation'[r].due = reservation[r].due \/ reservation'[r].due = TRUE
      <4>1. reservation[r] \in ReservationRow
        BY <2>1
      <4>2. \/ reservation'[r] = reservation[r]
            \/ reservation'[r] = [reservation[r] EXCEPT !.due = TRUE]
        BY <1>2 DEF Passes
      <4> QED  BY <4>1, <4>2 DEF ReservationRow
    <3> QED  BY <3>1 DEF Lapses
  <2>3. \A c : HoldsNoMore(c)
    BY <2>2, LapsesHold
  <2>4. ReservationLimits'
    BY <2>3, LimitsShrink DEF LimitsInv
  <2>5. ASSUME NEW g \in Handlers PROVE Owns(handler[g])' /\ Reserves(handler[g], delta[g])'
    BY <1>2, <2>2, <2>3, LapsesOwn, ReservesStays DEF Passes, LimitsInv
  <2> QED  BY <2>4, <2>5 DEF LimitsInv
<1>3. ASSUME NEW h \in Handlers, Only(h), Fresh(handler'[h]), Quiet(h) PROVE LimitsInv'
  <2>1. Lapses
    BY <1>3 DEF Quiet, Lapses
  <2>2. Owns(handler[h])' /\ Reserves(handler[h], delta[h])'
    BY <1>3 DEF Quiet, Owns, Reserves, Reserving
  <2> QED  BY <1>3, <2>1, <2>2, LimitsAside
<1>4. ASSUME NEW h \in Handlers, Only(h), Allocates(h) PROVE LimitsInv'
  BY <1>4, AllocatesLimits
<1>5. ASSUME NEW h \in Handlers, Only(h), Ends(h) PROVE LimitsInv'
  BY <1>5, EndsLimits
<1>6. ASSUME NEW h \in Handlers, Only(h), Takes(h) PROVE LimitsInv'
  BY <1>1, <1>6, TakesLimits
<1> QED  BY <1>1, <1>2, <1>3, <1>4, <1>5, <1>6, StockCases

LEMMA LimitsInit == DbInit => LimitsInv
<1> SUFFICES ASSUME DbInit PROVE LimitsInv
  OBVIOUS
<1>1. \A h \in Handlers : Owns(handler[h]) /\ Reserves(handler[h], delta[h])
  BY DEF DbInit, IdleHandler, Owns, Reserves, Taking, Reserving
<1>2. ASSUME NEW c, NEW b \in Books PROVE HeldCopies(c, b) = 0
  <2>1. [r \in Reservations |-> IF Holds(r, c) THEN ItemCopies(r, b) ELSE 0] =
          [r \in Reservations |-> 0]
    BY DEF DbInit, NoReservation, Holds
  <2> QED  BY <2>1, IdsAreFinite, SumZero DEF HeldCopies
<1>3. ASSUME NEW c \in Clients PROVE Limited(Held(c))
  <2>1. {b \in Books : Held(c)[b] > 0} = {}
    BY <1>2 DEF Held
  <2>2. Cardinality({}) = 0
    BY FS_EmptySet
  <2>3. \A b \in Books : Held(c)[b] = 0
    BY <1>2 DEF Held
  <2>4. MaxDifferentBooks \in Nat /\ MaxCopies \in Nat
    BY BoundsAreNaturals
  <2>5. Cardinality({b \in Books : Held(c)[b] > 0}) <= MaxDifferentBooks
    BY <2>1, <2>2, <2>4
  <2>6. \A b \in Books : Held(c)[b] <= MaxCopies
    BY <2>3, <2>4
  <2> QED  BY <2>5, <2>6 DEF Limited
<1> QED  BY <1>1, <1>3, LimitsAreLimited DEF LimitsInv

(* If no client overlaps its requests, also not by webhooks, no client ever*)
(* holds more copies or more different books than it may, although the     *)
(* limits are read before the transaction: reservations may fall due and   *)
(* be closed at any time.                                                  *)
THEOREM ReservationsAreLimited ==
  ASSUME Overlapping \cap Clients = {}, WebhookStatuses = {}
  PROVE  Spec => []ReservationLimits
<1>1. /\ DbInit => LimitsInv
      /\ IInv /\ IInv' /\ SalesInv /\ FreshInv /\ OrderInv /\ LimitsInv /\ [Next]_vars => LimitsInv'
      /\ LimitsInv => ReservationLimits
  BY LimitsInit, LimitsPreserved DEF LimitsInv
<1> QED  BY <1>1, Invariance, SalesInvariance, FreshInvariance, OrderInvariance, PTL DEF Spec

-----------------------------------------------------------------------------
(* Reserved copies are those of the active reservations.                   *)

(* A sum of differences.                                                   *)
LEMMA SumMinus ==
  ASSUME NEW S, IsFiniteSet(S), NEW f \in [S -> Int], NEW g \in [S -> Int], NEW k \in [S -> Int],
         \A x \in S : k[x] = f[x] - g[x]
  PROVE  SumFunction(k) = SumFunction(f) - SumFunction(g)
<1> DEFINE C == {T \in SUBSET S : SumFunctionOnSet(k, T) #
                                    SumFunctionOnSet(f, T) - SumFunctionOnSet(g, T)}
<1>1. SUFFICES ASSUME C # {} PROVE FALSE
  BY DEF SumFunction
<1>2. PICK T \in C : \A u \in C : ~(u \subseteq T /\ u # T)
  <2>1. C \subseteq SUBSET S
    OBVIOUS
  <2> HIDE DEF C
  <2> QED  BY <1>1, <2>1, SmallestSubset
<1>3. IsFiniteSet(T)
  BY FS_Subset
<1>4. T # {}
  <2>1. SUFFICES ASSUME T = {} PROVE FALSE
    OBVIOUS
  <2>2. /\ SumFunctionOnSet(f, T) = 0 /\ SumFunctionOnSet(g, T) = 0
        /\ SumFunctionOnSet(k, T) = 0
    BY <2>1, SumEmpty
  <2>3. SumFunctionOnSet(k, T) # SumFunctionOnSet(f, T) - SumFunctionOnSet(g, T)
    OBVIOUS
  <2> QED  BY <2>2, <2>3
<1>5. Pick(T) \in T /\ Pick(T) \in S
  BY <1>4, PickIn
<1> DEFINE p == Pick(T)  u == T \ {p}
           a == SumFunctionOnSet(f, u)  b == SumFunctionOnSet(g, u)  c == SumFunctionOnSet(k, u)
<1>6. c = a - b
  BY <1>2, <1>5
<1>7. a \in Int /\ b \in Int /\ c \in Int
  <2>1. IsFiniteSet(u) /\ u \subseteq S
    BY <1>3, FS_Subset
  <2> QED  BY <2>1, SumType
<1>8. /\ SumFunctionOnSet(f, T) = f[p] + a /\ SumFunctionOnSet(g, T) = g[p] + b
      /\ SumFunctionOnSet(k, T) = k[p] + c
  BY <1>3, <1>4, SumRecursion
<1>9. f[p] \in Int /\ g[p] \in Int /\ k[p] = f[p] - g[p]
  BY <1>5
<1>10. SumFunctionOnSet(k, T) # SumFunctionOnSet(f, T) - SumFunctionOnSet(g, T)
  OBVIOUS
<1> HIDE DEF a, b, c, p
<1> QED  BY <1>6, <1>7, <1>8, <1>9, <1>10

(* The items of reservation r in table rsv.                                *)
ItemsIn(rsv, r) ==
  {[res |-> r, row |-> w, cap |-> rsv[r].items[w]] : w \in {x \in Rows : rsv[r].items[x] > 0}}

(* The reservations a handler is going to close or to rewrite.             *)
Touched(s) ==
  IF s.pc \in Releasing THEN {s.res} \cup s.queue
  ELSE IF s.pc \in Taking THEN {e.res : e \in ReadItems(s)}
  ELSE {}

(* A cancellation or the cron has given back the items of the reservation  *)
(* it ends but for those it has still to visit, and what it read of the    *)
(* next ones still is so.                                                  *)
Releases(rsv, s, d) ==
  s.pc \in Releasing =>
    /\ s.res \in Reservations
    /\ s.todo \subseteq ItemsIn(rsv, s.res)
    /\ \A w \in Rows : d[w].reserved =
         IF \E e \in s.todo : e.row = w THEN 0 ELSE 0 - rsv[s.res].items[w]
    /\ s.res \notin s.queue
    /\ \A q \in s.queue : {e \in s.snapshot : e.res = q} = ItemsIn(rsv, q)

(* The copies of row w that rewriting the items takes from them.           *)
TakenFrom(rsv, left, w) ==
  [r \in Reservations |-> rsv[r].items[w] - ItemsLeft(rsv, left, r, w)]

(* A purchase has taken from the reserved copies what it takes from the    *)
(* reservations, and converts those of which it leaves nothing.            *)
Consumes(rsv, s, d) ==
  /\ s.pc = "consumeReserved" =>
       \A e \in s.todo : e \in ItemsIn(rsv, e.res) /\ ~Rewritten(s.left, e.res, e.row)
  /\ s.pc \in Taking =>
       /\ \A e, f \in s.left : e.res = f.res /\ e.row = f.row => e = f
       /\ \A w \in Rows : d[w].reserved = 0 - SumFunction(TakenFrom(rsv, s.left, w))
  /\ s.pc \in Taking \ {"consumeReserved"} =>
       \A r \in s.convert :
         r \in {e.res : e \in s.left} /\ \A w \in Rows : ItemsLeft(rsv, s.left, r, w) = 0

Backs(rsv, s, d) ==
  /\ \A r \in Touched(s) : rsv[r].status = "active"
  /\ Releases(rsv, s, d)
  /\ Consumes(rsv, s, d)

BackedInv ==
  /\ ReservedIsBacked
  /\ \A h \in Handlers : Backs(reservation, handler[h], delta[h])

(* No two handlers are going to close or rewrite the same reservation.     *)
Exclusive ==
  \A g, h \in Handlers : g # h => Touched(handler[g]) \cap Touched(handler[h]) = {}

Table == [Reservations -> ReservationRow]

LEMMA ItemsLeftType ==
  ASSUME NEW rsv \in Table, NEW left \in SUBSET ItemEntry, NEW r \in Reservations, NEW w \in Rows
  PROVE  /\ ItemsLeft(rsv, left, r, w) \in Nat /\ rsv[r].items[w] \in Nat
         /\ ~Rewritten(left, r, w) => ItemsLeft(rsv, left, r, w) = rsv[r].items[w]
<1>1. rsv[r].items[w] \in Nat
  BY DEF Table, ReservationRow
<1>2. CASE Rewritten(left, r, w)
  <2>1. PICK e \in left : ItemsLeft(rsv, left, r, w) = e.cap
    BY <1>2, RewrittenItem
  <2>2. e \in ItemEntry
    OBVIOUS
  <2> QED  BY <1>1, <1>2, <2>1, <2>2, EntryTypes
<1> QED  BY <1>1, <1>2 DEF ItemsLeft

LEMMA TakenFromType ==
  ASSUME NEW rsv \in Table, NEW left \in SUBSET ItemEntry, NEW w \in Rows
  PROVE  /\ TakenFrom(rsv, left, w) \in [Reservations -> Int]
         /\ SumFunction(TakenFrom(rsv, left, w)) \in Int
<1>1. TakenFrom(rsv, left, w) \in [Reservations -> Int]
  BY ItemsLeftType DEF TakenFrom
<1>2. SumFunction(TakenFrom(rsv, left, w)) \in Int
  BY <1>1, IdsAreFinite, SumFunctionType
<1> QED  BY <1>1, <1>2

(* What a handler knows of the reservations stays true in a table that has *)
(* the same items in the reservations it is going to write.                *)
LEMMA BacksStays ==
  ASSUME NEW rsv \in Table, NEW new \in Table, NEW s \in HandlerState, NEW d, Backs(rsv, s, d),
         \A r \in Touched(s) : new[r].items = rsv[r].items /\ new[r].status = rsv[r].status
  PROVE  Backs(new, s, d)
<1>1. \A r \in Touched(s) : new[r].status = "active"
  BY DEF Backs
<1>2. Releases(new, s, d)
  BY DEF Backs, Releases, Touched, ItemsIn
<1>3. ASSUME s.pc \in Taking, NEW r \in Reservations, NEW w \in Rows
      PROVE  new[r].items[w] - ItemsLeft(new, s.left, r, w) =
               rsv[r].items[w] - ItemsLeft(rsv, s.left, r, w)
  <2>1. CASE r \in Touched(s)
    BY <2>1 DEF ItemsLeft
  <2>2. CASE r \notin Touched(s)
    <3>1. ~Rewritten(s.left, r, w)
      BY <1>3, <2>2 DEF Touched, ReadItems, Rewritten, Releasing, Taking
    <3>2. rsv[r].items[w] \in Nat /\ new[r].items[w] \in Nat
      BY DEF Table, ReservationRow
    <3> QED  BY <3>1, <3>2 DEF ItemsLeft
  <2> QED  BY <2>1, <2>2
<1>4. ASSUME s.pc \in Taking, NEW w \in Rows
      PROVE  TakenFrom(new, s.left, w) = TakenFrom(rsv, s.left, w)
  BY <1>3, <1>4 DEF TakenFrom
<1>5. s.pc = "consumeReserved" =>
        \A e \in s.todo : e \in ItemsIn(new, e.res) /\ ~Rewritten(s.left, e.res, e.row)
  BY DEF Backs, Consumes, Touched, ReadItems, Releasing, Taking, ItemsIn
<1>6. s.pc \in Taking =>
       /\ \A e, f \in s.left : e.res = f.res /\ e.row = f.row => e = f
       /\ \A w \in Rows : d[w].reserved = 0 - SumFunction(TakenFrom(new, s.left, w))
  BY <1>4 DEF Backs, Consumes
<1>7. ASSUME s.pc \in Taking \ {"consumeReserved"}, NEW r \in s.convert
      PROVE  r \in {e.res : e \in s.left} /\ \A w \in Rows : ItemsLeft(new, s.left, r, w) = 0
  <2>1. r \in {e.res : e \in s.left} /\ \A w \in Rows : ItemsLeft(rsv, s.left, r, w) = 0
    BY <1>7 DEF Backs, Consumes
  <2>2. r \in Touched(s)
    BY <1>7, <2>1 DEF Touched, ReadItems, Releasing, Taking
  <2>3. new[r].items = rsv[r].items
    BY <2>2
  <2> QED  BY <2>1, <2>3 DEF ItemsLeft
<1> QED  BY <1>1, <1>2, <1>5, <1>6, <1>7 DEF Backs, Consumes

(* The copies of row w in the items of the active reservations.            *)
ActiveItems(rsv, w) ==
  [r \in Reservations |-> IF rsv[r].status = "active" THEN rsv[r].items[w] ELSE 0]

Backed(inv, rsv) == \A w \in Rows : inv[w].reserved = SumFunction(ActiveItems(rsv, w))

LEMMA BackedNow == ReservedIsBacked <=> Backed(inventory, reservation)
BY DEF ReservedIsBacked, ReservedBy, Backed, ActiveItems

LEMMA BackedNext == ReservedIsBacked' <=> Backed(inventory', reservation')
BY DEF ReservedIsBacked, ReservedBy, Backed, ActiveItems

LEMMA ActiveItemsType ==
  ASSUME NEW rsv \in Table, NEW w \in Rows
  PROVE  ActiveItems(rsv, w) \in [Reservations -> Int]
BY DEF Table, ReservationRow, ActiveItems

LEMMA BackedStays ==
  ASSUME NEW inv, NEW next, NEW rsv, NEW new, Backed(inv, rsv),
         \A w \in Rows : next[w].reserved = inv[w].reserved,
         \A r \in Reservations : new[r].items = rsv[r].items /\ new[r].status = rsv[r].status
  PROVE  Backed(next, new)
<1>1. \A w \in Rows : ActiveItems(new, w) = ActiveItems(rsv, w)
  BY DEF ActiveItems
<1> QED  BY <1>1 DEF Backed

(* One reservation is made or closed, and its copies become reserved or    *)
(* are given back.                                                         *)
LEMMA BackedChange ==
  ASSUME NEW inv \in [Rows -> InventoryRow], NEW next, NEW rsv \in Table, NEW new \in Table,
         Backed(inv, rsv), NEW r \in Reservations,
         \A q \in Reservations \ {r} : new[q] = rsv[q],
         \A w \in Rows : next[w].reserved =
           inv[w].reserved + (ActiveItems(new, w)[r] - ActiveItems(rsv, w)[r])
  PROVE  Backed(next, new)
<1>1. ASSUME NEW w \in Rows PROVE next[w].reserved = SumFunction(ActiveItems(new, w))
  <2> DEFINE f == ActiveItems(rsv, w)  g == ActiveItems(new, w)
  <2>1. f \in [Reservations -> Int] /\ g \in [Reservations -> Int]
    BY ActiveItemsType
  <2>2. \A q \in Reservations \ {r} : f[q] = g[q]
    BY DEF ActiveItems
  <2>3. inv[w].reserved = SumFunction(f)
    BY DEF Backed
  <2>4. next[w].reserved = inv[w].reserved + (g[r] - f[r])
    OBVIOUS
  <2> HIDE DEF f, g
  <2>5. SumFunction(g) = SumFunction(f) + (g[r] - f[r])
    BY <2>1, <2>2, IdsAreFinite, SumChange
  <2> QED  BY <2>3, <2>4, <2>5 DEF g
<1> QED  BY <1>1 DEF Backed

LEMMA TouchedType ==
  ASSUME NEW s \in HandlerState, s.pc \in Releasing => s.res \in Reservations,
         s.pc = "consumeReserved" => s.todo \subseteq ItemEntry
  PROVE  Touched(s) \subseteq Reservations
<1>1. CASE s.pc \in Releasing
  BY <1>1 DEF Touched, HandlerState
<1>2. CASE s.pc \in Taking
  <2>1. ReadItems(s) \subseteq ItemEntry
    BY <1>2 DEF ReadItems, HandlerState
  <2>2. \A e \in ReadItems(s) : e.res \in Reservations
    BY <2>1, EntryTypes
  <2>3. Touched(s) = {e.res : e \in ReadItems(s)}
    BY <1>2 DEF Touched, Releasing, Taking
  <2> QED  BY <2>2, <2>3
<1> QED  BY <1>1, <1>2 DEF Touched

(* The step is h's, and it leaves alone what the others are going to close *)
(* or rewrite.                                                             *)
LEMMA BackedOnly ==
  ASSUME IInv, IInv', BackedInv, NEW h \in Handlers, Only(h),
         Backed(inventory', reservation'), Backs(reservation', handler'[h], delta'[h]),
         \A g \in Handlers \ {h} : \A r \in Touched(handler[g]) :
           /\ reservation'[r].items = reservation[r].items
           /\ reservation'[r].status = reservation[r].status
  PROVE  BackedInv'
<1>1. reservation \in Table /\ reservation' \in Table
  BY DEF IInv, TypeOK, Table
<1>2. ASSUME NEW g \in Handlers PROVE Backs(reservation', handler'[g], delta'[g])
  <2>1. CASE g = h
    BY <2>1
  <2>2. CASE g # h
    <3>1. handler'[g] = handler[g] /\ delta'[g] = delta[g]
      BY <2>2 DEF Only
    <3>2. Backs(reservation, handler[g], delta[g])
      BY DEF BackedInv
    <3>3. handler[g] \in HandlerState
      BY FieldTypes
    <3>4. Backs(reservation', handler[g], delta[g])
      BY <1>1, <2>2, <3>2, <3>3, BacksStays
    <3> QED  BY <3>1, <3>4
  <2> QED  BY <2>1, <2>2
<1>3. ReservedIsBacked'
  BY BackedNext
<1> QED  BY <1>2, <1>3 DEF BackedInv

LEMMA BacksNothing ==
  ASSUME NEW rsv, NEW s, NEW d, s.pc \notin Releasing \cup Taking
  PROVE  Backs(rsv, s, d) /\ Touched(s) = {}
BY DEF Backs, Releases, Consumes, Touched, Taking

(* The next reservation of the cron is one of those it has read.           *)
LEMMA NextExpiredReleases ==
  ASSUME NEW rsv \in Table, NEW s \in HandlerState,
         \A q \in s.queue : rsv[q].status = "active",
         \A q \in s.queue : {e \in s.snapshot : e.res = q} = ItemsIn(rsv, q)
  PROVE  Backs(rsv, NextExpired(s), NoDelta) /\ Touched(NextExpired(s)) \subseteq s.queue
<1>1. CASE s.queue = {}
  <2>1. NextExpired(s) = IdleHandler
    BY <1>1 DEF NextExpired
  <2>2. IdleHandler.pc \notin Releasing \cup Taking
    BY DEF IdleHandler, Releasing, Taking
  <2> QED  BY <2>1, <2>2, BacksNothing
<1>2. CASE s.queue # {}
  <2>1. s.queue \subseteq Reservations
    BY DEF HandlerState
  <2>2. PICK r \in s.queue : \A q \in s.queue : r <= q
    BY <1>2, <2>1, SmallestReservation
  <2> DEFINE first == CHOOSE q \in s.queue : \A other \in s.queue : q <= other
  <2>3. first \in s.queue
    BY <2>2
  <2> DEFINE n == NextExpired(s)
  <2>4. n = [s EXCEPT !.pc = "release", !.res = first, !.queue = s.queue \ {first},
                      !.todo = {e \in s.snapshot : e.res = first}]
    BY <1>2 DEF NextExpired
  <2> HIDE DEF first, n
  <2>5. /\ n.pc = "release" /\ n.res = first /\ n.queue = s.queue \ {first}
        /\ n.todo = ItemsIn(rsv, first) /\ n.snapshot = s.snapshot
    BY <2>3, <2>4 DEF HandlerState
  <2>6. Touched(n) \subseteq s.queue
    BY <2>3, <2>5 DEF Touched, Releasing
  <2>7. \A r1 \in Touched(n) : rsv[r1].status = "active"
    BY <2>6
  <2>8. ASSUME NEW w \in Rows, ~\E e \in n.todo : e.row = w PROVE 0 = 0 - rsv[first].items[w]
    <3>1. rsv[first].items[w] \in Nat
      BY <2>1, <2>3 DEF Table, ReservationRow
    <3>2. ~(rsv[first].items[w] > 0)
      <4>1. SUFFICES ASSUME rsv[first].items[w] > 0 PROVE FALSE
        OBVIOUS
      <4>2. [res |-> first, row |-> w, cap |-> rsv[first].items[w]] \in n.todo
        BY <2>5, <4>1 DEF ItemsIn
      <4> QED  BY <2>8, <4>2
    <3> QED  BY <3>1, <3>2
  <2>9. Releases(rsv, n, NoDelta)
    BY <2>1, <2>3, <2>5, <2>8 DEF Releases, NoDelta
  <2>10. Consumes(rsv, n, NoDelta)
    BY <2>5 DEF Consumes, Taking
  <2> QED  BY <2>6, <2>7, <2>9, <2>10 DEF Backs, n
<1> QED  BY <1>1, <1>2

(* A relative write of a stock row.                                        *)
LEMMA UpdateReserved ==
  ASSUME IInv, NEW h \in Handlers, NEW w \in Rows, NEW a, NEW r, NEW n,
         UpdateInventory(h, w, a, r, n)
  PROVE  /\ delta'[h][w].reserved = delta[h][w].reserved + r
         /\ \A x \in Rows \ {w} : delta'[h][x] = delta[h][x]
         /\ \A x \in Rows : delta[h][x].reserved \in Int
BY DEF IInv, TypeOK, DeltaRow, UpdateInventory

LEMMA CommitReserved ==
  ASSUME IInv, NEW h \in Handlers, CommitInventory(h)
  PROVE  /\ \A w \in Rows : inventory'[w].reserved = inventory[w].reserved + delta[h][w].reserved
         /\ delta'[h] = NoDelta
BY DEF IInv, TypeOK, CommitInventory, Reserved

LEMMA ItemsAreIn == \A r : ItemsOf(r) = ItemsIn(reservation, r)
BY DEF ItemsOf, ItemsIn

(* Steps that write no reservation and commit nothing.                     *)
LEMMA BackedHere ==
  ASSUME IInv, IInv', BackedInv, NEW h \in Handlers, Only(h), UNCHANGED <<inventory, reservation>>,
         Backs(reservation, handler'[h], delta'[h])
  PROVE  BackedInv'
<1>1. Backed(inventory', reservation')
  BY BackedNow DEF BackedInv
<1>2. Backs(reservation', handler'[h], delta'[h])
  OBVIOUS
<1>3. \A g \in Handlers \ {h} : \A r \in Touched(handler[g]) :
        /\ reservation'[r].items = reservation[r].items
        /\ reservation'[r].status = reservation[r].status
  OBVIOUS
<1> QED  BY <1>1, <1>2, <1>3, BackedOnly

LEMMA StartCancelBacked ==
  ASSUME IInv, IInv', BackedInv, NEW h \in Handlers, Only(h), NEW c \in Clients,
         NEW r \in Reservations, StartCancel(h, c, r)
  PROVE  BackedInv'
<1> DEFINE s == handler'[h]
<1>1. /\ s.pc = "release" /\ s.res = r /\ s.todo = ItemsIn(reservation, r) /\ s.queue = {}
      /\ reservation[r].status = "active" /\ UNCHANGED <<inventory, reservation, delta>>
  BY ItemsAreIn DEF StartCancel, Holds, IdleHandler, dbVars, IInv, TypeOK
<1>2. delta[h] = NoDelta
  BY DEF StartCancel, MayStart, IInv, Coherent, InTransaction
<1> HIDE DEF s
<1>3. ASSUME NEW w \in Rows, ~\E e \in s.todo : e.row = w PROVE 0 = 0 - reservation[r].items[w]
  <2>1. reservation[r].items[w] \in Nat
    BY DEF IInv, TypeOK, ReservationRow
  <2>2. ~(reservation[r].items[w] > 0)
    <3>1. SUFFICES ASSUME reservation[r].items[w] > 0 PROVE FALSE
      OBVIOUS
    <3>2. [res |-> r, row |-> w, cap |-> reservation[r].items[w]] \in s.todo
      BY <1>1, <3>1 DEF ItemsIn
    <3> QED  BY <1>3, <3>2
  <2> QED  BY <2>1, <2>2
<1>4. Releases(reservation, s, NoDelta)
  BY <1>1, <1>3 DEF Releases, NoDelta
<1>5. Consumes(reservation, s, NoDelta) /\ \A q \in Touched(s) : reservation[q].status = "active"
  BY <1>1 DEF Consumes, Taking, Touched, Releasing
<1>6. Backs(reservation, s, delta'[h])
  BY <1>1, <1>2, <1>4, <1>5 DEF Backs
<1> QED  BY <1>1, <1>6, BackedHere DEF s

LEMMA StartExpireBacked ==
  ASSUME IInv, IInv', BackedInv, NEW h \in Handlers, Only(h), StartExpireCron(h)
  PROVE  BackedInv'
<1> DEFINE s == [IdleHandler EXCEPT
                   !.queue = ExpiredReservations,
                   !.snapshot = UNION {ItemsOf(r) : r \in ExpiredReservations}]
<1>1. handler'[h] = NextExpired(s) /\ UNCHANGED <<inventory, reservation, delta>>
  BY Zenon DEF StartExpireCron, dbVars, IInv, TypeOK
<1>2. delta[h] = NoDelta
  BY Zenon DEF StartExpireCron, MayStart, IInv, Coherent, InTransaction
<1>3. /\ s.queue = ExpiredReservations
      /\ s.snapshot = UNION {ItemsOf(r) : r \in ExpiredReservations}
  BY DEF IdleHandler
<1>4. s \in HandlerState
  <2>1. ExpiredReservations \in SUBSET Reservations
    BY DEF ExpiredReservations
  <2>2. UNION {ItemsOf(r) : r \in ExpiredReservations} \in SUBSET ItemEntry
    BY <2>1, ItemsOfType
  <2>3. [IdleHandler EXCEPT !.queue = ExpiredReservations] \in HandlerState
    BY <2>1, IdleHandlerType, SetFields
  <2>4. [[IdleHandler EXCEPT !.queue = ExpiredReservations] EXCEPT
            !.snapshot = UNION {ItemsOf(r) : r \in ExpiredReservations}] \in HandlerState
    BY <2>2, <2>3, SetFields
  <2> QED  BY <2>4
<1> HIDE DEF s
<1>5. \A q \in s.queue : reservation[q].status = "active"
  BY <1>3 DEF ExpiredReservations
<1>6. \A q \in s.queue : {e \in s.snapshot : e.res = q} = ItemsIn(reservation, q)
  BY <1>3, ItemsAreIn DEF ItemsIn
<1>7. reservation \in Table
  BY DEF IInv, TypeOK, Table
<1>8. Backs(reservation, handler'[h], delta'[h])
  BY <1>1, <1>2, <1>4, <1>5, <1>6, <1>7, NextExpiredReleases
<1> QED  BY <1>1, <1>8, BackedHere

LEMMA ReadReleaseBacked ==
  ASSUME IInv, IInv', BackedInv, NEW h \in Handlers, Only(h), ReadRelease(h)
  PROVE  BackedInv'
<1>1. /\ handler[h].pc = "release" /\ handler'[h] = [handler[h] EXCEPT !.pc = "releaseRow"]
      /\ UNCHANGED <<inventory, reservation, delta>>
  BY DEF ReadRelease, Goto, dbVars, IInv, TypeOK
<1>2. /\ handler'[h].pc = "releaseRow" /\ handler'[h].res = handler[h].res
      /\ handler'[h].todo = handler[h].todo /\ handler'[h].queue = handler[h].queue
      /\ handler'[h].snapshot = handler[h].snapshot
  BY <1>1, FieldTypes DEF HandlerState
<1>3. Backs(reservation, handler[h], delta[h])
  BY DEF BackedInv
<1>4. Backs(reservation, handler'[h], delta[h])
  <2>1. Touched(handler'[h]) = Touched(handler[h])
    BY <1>1, <1>2 DEF Touched, Releasing
  <2>2. Releases(reservation, handler'[h], delta[h])
    BY <1>1, <1>2, <1>3 DEF Backs, Releases, Releasing
  <2>3. Consumes(reservation, handler'[h], delta[h])
    BY <1>2 DEF Consumes, Taking
  <2> QED  BY <1>3, <2>1, <2>2, <2>3 DEF Backs
<1> QED  BY <1>1, <1>4, BackedHere

LEMMA ReleaseRowBacked ==
  ASSUME IInv, IInv', BackedInv, NEW h \in Handlers, Only(h), ReleaseRow(h)
  PROVE  BackedInv'
<1>1. PICK e \in handler[h].todo :
        /\ handler[h].pc = "releaseRow"
        /\ UpdateInventory(h, e.row, e.cap, -e.cap, 0)
        /\ handler' = [handler EXCEPT ![h].pc = "release", ![h].todo = @ \ {e}]
        /\ UNCHANGED dbVars
  BY DEF ReleaseRow
<1>2. /\ handler'[h].pc = "release" /\ handler'[h].res = handler[h].res
      /\ handler'[h].todo = handler[h].todo \ {e} /\ handler'[h].queue = handler[h].queue
      /\ handler'[h].snapshot = handler[h].snapshot
  BY <1>1 DEF IInv, TypeOK, HandlerState
<1>3. Backs(reservation, handler[h], delta[h])
  BY DEF BackedInv
<1> DEFINE s == handler[h]  r == handler[h].res
<1>4. /\ r \in Reservations /\ s.todo \subseteq ItemsIn(reservation, r)
      /\ \A w \in Rows : delta[h][w].reserved =
           IF \E f \in s.todo : f.row = w THEN 0 ELSE 0 - reservation[r].items[w]
      /\ r \notin s.queue
      /\ \A q \in s.queue : {f \in s.snapshot : f.res = q} = ItemsIn(reservation, q)
  BY <1>1, <1>3 DEF Backs, Releases, Releasing
<1>5. /\ e.row \in Rows /\ e.cap = reservation[r].items[e.row]
      /\ \A f \in s.todo : f.row = e.row => f = e
  BY <1>4 DEF ItemsIn
<1>6. e.cap \in Nat
  BY <1>4, <1>5 DEF IInv, TypeOK, ReservationRow
<1>7. /\ delta'[h][e.row].reserved = delta[h][e.row].reserved + (-e.cap)
      /\ \A x \in Rows \ {e.row} : delta'[h][x] = delta[h][x]
  BY <1>1, <1>5, UpdateReserved
<1>8. ASSUME NEW w \in Rows
      PROVE  delta'[h][w].reserved =
               IF \E f \in handler'[h].todo : f.row = w THEN 0 ELSE 0 - reservation[r].items[w]
  <2>1. CASE w = e.row
    <3>1. delta[h][w].reserved = 0
      BY <1>4, <2>1
    <3>2. ~\E f \in handler'[h].todo : f.row = w
      BY <1>2, <1>5, <2>1
    <3> QED  BY <1>5, <1>6, <1>7, <2>1, <3>1, <3>2
  <2>2. CASE w # e.row
    <3>1. (\E f \in handler'[h].todo : f.row = w) <=> \E f \in s.todo : f.row = w
      BY <1>2, <2>2
    <3>2. delta'[h][w] = delta[h][w]
      BY <1>7, <2>2
    <3> QED  BY <1>4, <3>1, <3>2
  <2> QED  BY <2>1, <2>2
<1>9. Backs(reservation, handler'[h], delta'[h])
  <2>1. Touched(handler'[h]) = Touched(handler[h])
    BY <1>1, <1>2 DEF Touched, Releasing
  <2>2. Releases(reservation, handler'[h], delta'[h])
    BY <1>2, <1>4, <1>8 DEF Releases
  <2>3. Consumes(reservation, handler'[h], delta'[h])
    BY <1>2 DEF Consumes, Taking
  <2> QED  BY <1>3, <2>1, <2>2, <2>3 DEF Backs
<1>10. UNCHANGED <<inventory, reservation>>
  BY <1>1 DEF dbVars
<1> QED  BY <1>9, <1>10, BackedHere

LEMMA SkipExpiredBacked ==
  ASSUME IInv, IInv', BackedInv, NEW h \in Handlers, Only(h), handler[h].pc \in Releasing,
         SkipExpired(h)
  PROVE  BackedInv'
<1>1. /\ handler'[h] = NextExpired(handler[h]) /\ delta'[h] = NoDelta
      /\ UNCHANGED <<inventory, reservation>>
  BY DEF SkipExpired, DiscardInventory, dbVars, IInv, TypeOK
<1>2. handler[h] \in HandlerState /\ reservation \in Table
  BY DEF IInv, TypeOK, Table
<1>3. \A q \in handler[h].queue :
        /\ reservation[q].status = "active"
        /\ {e \in handler[h].snapshot : e.res = q} = ItemsIn(reservation, q)
  BY DEF BackedInv, Backs, Releases, Touched
<1>4. Backs(reservation, handler'[h], delta'[h])
  BY <1>1, <1>2, <1>3, NextExpiredReleases
<1> QED  BY <1>1, <1>4, BackedHere

(* A reservation is closed: its copies have all been given back.           *)
LEMMA CloseBacked ==
  ASSUME IInv, IInv', BackedInv, Exclusive, NEW h \in Handlers, Only(h),
         NEW status \in {"cancelled", "expired"}, NEW next, Close(h, status, next),
         next = IdleHandler \/ next = NextExpired(handler[h])
  PROVE  BackedInv'
<1> DEFINE s == handler[h]  r == handler[h].res
<1>1. /\ s.pc = "release" /\ s.todo = {}
      /\ reservation' = [reservation EXCEPT ![r].status = status]
      /\ handler'[h] = next /\ CommitInventory(h)
  BY DEF Close, IInv, TypeOK
<1>2. Backs(reservation, s, delta[h])
  BY DEF BackedInv
<1>3. /\ r \in Reservations /\ r \notin s.queue /\ reservation[r].status = "active"
      /\ \A w \in Rows : delta[h][w].reserved = 0 - reservation[r].items[w]
      /\ \A q \in s.queue :
           /\ reservation[q].status = "active"
           /\ {f \in s.snapshot : f.res = q} = ItemsIn(reservation, q)
      /\ Touched(s) = {r} \cup s.queue
  BY <1>1, <1>2 DEF Backs, Releases, Releasing, Touched
<1>4. /\ reservation \in Table /\ reservation' \in Table
      /\ inventory \in [Rows -> InventoryRow] /\ s \in HandlerState
  BY DEF IInv, TypeOK, Table
<1>5. /\ \A q \in Reservations \ {r} : reservation'[q] = reservation[q]
      /\ reservation'[r].status # "active"
  BY <1>1, <1>3, <1>4 DEF Table, ReservationRow
<1>6. /\ \A w \in Rows : inventory'[w].reserved = inventory[w].reserved + delta[h][w].reserved
      /\ delta'[h] = NoDelta
  BY <1>1, CommitReserved
<1>7. Backed(inventory', reservation')
  <2>1. Backed(inventory, reservation)
    BY BackedNow DEF BackedInv
  <2>2. ASSUME NEW w \in Rows
        PROVE  inventory'[w].reserved = inventory[w].reserved +
                 (ActiveItems(reservation', w)[r] - ActiveItems(reservation, w)[r])
    <3>1. ActiveItems(reservation', w)[r] = 0 /\ ActiveItems(reservation, w)[r] = reservation[r].items[w]
      BY <1>3, <1>5 DEF ActiveItems
    <3> QED  BY <1>3, <1>6, <3>1
  <2> QED  BY <1>3, <1>4, <1>5, <2>1, <2>2, BackedChange, SMTT(30)
<1>8. Backs(reservation', handler'[h], delta'[h])
  <2>1. CASE next = IdleHandler
    <3>1. IdleHandler.pc \notin Releasing \cup Taking
      BY DEF IdleHandler, Releasing, Taking
    <3> QED  BY <1>1, <2>1, <3>1, BacksNothing
  <2>2. CASE next = NextExpired(s)
    <3>1. \A q \in s.queue : q \in Reservations \ {r}
      BY <1>3, <1>4 DEF HandlerState
    <3>2. \A q \in s.queue : reservation'[q] = reservation[q]
      BY <1>5, <3>1
    <3>3. \A q \in s.queue : ItemsIn(reservation', q) = ItemsIn(reservation, q)
      BY <3>2 DEF ItemsIn
    <3> QED  BY <1>1, <1>3, <1>4, <1>6, <2>2, <3>2, <3>3, NextExpiredReleases, ZenonT(60)
  <2> QED  BY <2>1, <2>2
<1>9. ASSUME NEW g \in Handlers \ {h}, NEW q \in Touched(handler[g])
      PROVE  reservation'[q] = reservation[q]
  <2>1. q # r
    BY <1>3 DEF Exclusive
  <2>2. q \in Reservations
    <3>1. Backs(reservation, handler[g], delta[g]) /\ handler[g] \in HandlerState
      BY DEF BackedInv, IInv, TypeOK
    <3>2. handler[g].pc \in Releasing => handler[g].res \in Reservations
      BY <3>1 DEF Backs, Releases
    <3>3. handler[g].pc = "consumeReserved" => handler[g].todo \subseteq ItemEntry
      BY DEF IInv, Coherent
    <3> QED  BY <3>1, <3>2, <3>3, TouchedType
  <2> QED  BY <1>5, <2>1, <2>2
<1> QED  BY <1>7, <1>8, <1>9, BackedOnly

LEMMA EndsBacked ==
  ASSUME IInv, IInv', BackedInv, Exclusive, NEW h \in Handlers, Only(h), Ends(h)
  PROVE  BackedInv'
<1>1. ASSUME FinishCancel(h) PROVE BackedInv'
  BY <1>1, CloseBacked DEF FinishCancel
<1>2. ASSUME FinishExpire(h) PROVE BackedInv'
  BY <1>2, CloseBacked DEF FinishExpire
<1> QED  BY <1>1, <1>2, StartCancelBacked, StartExpireBacked, ReadReleaseBacked,
            ReleaseRowBacked, SkipExpiredBacked DEF Ends

(* A new reservation: its copies have become reserved.                     *)
LEMMA CreateReservationBacked ==
  ASSUME IInv, IInv', BackedInv, NEW h \in Handlers, Only(h), CreateReservation(h)
  PROVE  BackedInv'
<1>1. PICK r \in Reservations :
        /\ handler[h].pc = "allocateInventory"
        /\ reservation[r].status = "none"
        /\ reservation' = [reservation EXCEPT ![r] =
             [status |-> "active", client |-> handler[h].actor, due |-> FALSE,
              madeAt |-> Len(ledger[handler[h].actor]),
              items |-> [w \in Rows |-> delta[h][w].reserved]]]
        /\ CommitInventory(h)
        /\ handler' = [handler EXCEPT ![h] = IdleHandler]
  BY DEF CreateReservation
<1>2. /\ reservation \in Table /\ reservation' \in Table
      /\ inventory \in [Rows -> InventoryRow]
      /\ \A w \in Rows : delta[h][w].reserved \in Int
  BY DEF IInv, TypeOK, Table, DeltaRow
<1>3. /\ \A q \in Reservations \ {r} : reservation'[q] = reservation[q]
      /\ reservation'[r].status = "active"
      /\ reservation'[r].items = [w \in Rows |-> delta[h][w].reserved]
  BY <1>1, <1>2 DEF Table
<1>4. /\ \A w \in Rows : inventory'[w].reserved = inventory[w].reserved + delta[h][w].reserved
      /\ delta'[h] = NoDelta
  BY <1>1, CommitReserved
<1>5. Backed(inventory', reservation')
  <2>1. Backed(inventory, reservation)
    BY BackedNow DEF BackedInv
  <2>2. ASSUME NEW w \in Rows
        PROVE  inventory'[w].reserved = inventory[w].reserved +
                 (ActiveItems(reservation', w)[r] - ActiveItems(reservation, w)[r])
    <3>1. /\ ActiveItems(reservation', w)[r] = delta[h][w].reserved
          /\ ActiveItems(reservation, w)[r] = 0
      BY <1>1, <1>3 DEF ActiveItems
    <3> QED  BY <1>2, <1>4, <3>1
  <2> QED  BY <1>2, <1>3, <2>1, <2>2, BackedChange
<1>6. Backs(reservation', handler'[h], delta'[h])
  <2>1. handler'[h] = IdleHandler
    BY <1>1 DEF IInv, TypeOK
  <2>2. IdleHandler.pc \notin Releasing \cup Taking
    BY DEF IdleHandler, Releasing, Taking
  <2> QED  BY <2>1, <2>2, BacksNothing
<1>7. ASSUME NEW g \in Handlers \ {h}, NEW q \in Touched(handler[g])
      PROVE  reservation'[q] = reservation[q]
  <2>1. Backs(reservation, handler[g], delta[g]) /\ handler[g] \in HandlerState
    BY DEF BackedInv, IInv, TypeOK
  <2>2. q # r
    BY <1>1, <2>1 DEF Backs
  <2>3. handler[g].pc \in Releasing => handler[g].res \in Reservations
    BY <2>1 DEF Backs, Releases
  <2>4. handler[g].pc = "consumeReserved" => handler[g].todo \subseteq ItemEntry
    BY DEF IInv, Coherent
  <2>5. q \in Reservations
    BY <2>1, <2>3, <2>4, TouchedType
  <2> QED  BY <1>3, <2>2, <2>5
<1> QED  BY <1>5, <1>6, <1>7, BackedOnly

LEMMA AllocatesBacked ==
  ASSUME IInv, IInv', BackedInv, NEW h \in Handlers, Only(h), Allocates(h)
  PROVE  BackedInv'
<1>1. CASE CreateReservation(h)
  BY <1>1, CreateReservationBacked
<1>2. CASE ~CreateReservation(h)
  <2>1. handler'[h].pc \in Reserving /\ UNCHANGED <<inventory, reservation>>
    <3>1. ASSUME NEW c \in Clients, NEW want \in ReserveOrders, StartReservation(h, c, want)
          PROVE  handler'[h].pc \in Reserving /\ UNCHANGED <<inventory, reservation>>
      BY <3>1 DEF StartReservation, IdleHandler, Reserving, dbVars, IInv, TypeOK
    <3>2. ASSUME AssertInventoryAvailability(h), handler'[h].pc = "allocateInventory"
          PROVE  handler'[h].pc \in Reserving /\ UNCHANGED <<inventory, reservation>>
      BY <3>2 DEF AssertInventoryAvailability, Reserving, dbVars
    <3>3. handler \in [Handlers -> HandlerState]
      BY DEF IInv, TypeOK
    <3>4. ASSUME ReadAllocation(h)
          PROVE  handler'[h].pc \in Reserving /\ UNCHANGED <<inventory, reservation>>
      BY <3>3, <3>4 DEF ReadAllocation, Reserving, dbVars, HandlerState
    <3>5. ASSUME AllocateRow(h)
          PROVE  handler'[h].pc \in Reserving /\ UNCHANGED <<inventory, reservation>>
      BY <3>3, <3>5 DEF AllocateRow, Reserving, dbVars, HandlerState
    <3> QED  BY <1>2, <3>1, <3>2, <3>4, <3>5 DEF Allocates
  <2>2. Backs(reservation, handler'[h], delta'[h])
    <3>1. handler'[h].pc \notin Releasing \cup Taking
      BY <2>1 DEF Reserving, Releasing, Taking
    <3> QED  BY <3>1, BacksNothing
  <2> QED  BY <2>1, <2>2, BackedHere
<1> QED  BY <1>1, <1>2

(* A purchase that goes on without touching the items it left: what it     *)
(* knows of the reservations stays true.                                   *)
LEMMA GoesOnTaking ==
  ASSUME NEW rsv, NEW s, NEW n, NEW d, NEW e, Backs(rsv, s, d), s.pc \in Taking,
         n.pc \in Taking \ {"consumeReserved"}, n.left = s.left,
         \A w \in Rows : e[w].reserved = d[w].reserved,
         \A r \in n.convert :
           r \in {f.res : f \in n.left} /\ \A w \in Rows : ItemsLeft(rsv, n.left, r, w) = 0
  PROVE  Backs(rsv, n, e)
<1>1. Touched(n) \subseteq Touched(s)
  BY DEF Touched, ReadItems, Releasing, Taking
<1>2. Releases(rsv, n, e)
  BY DEF Releases, Releasing, Taking
<1>3. Consumes(rsv, n, e)
  BY DEF Backs, Consumes
<1> QED  BY <1>1, <1>2, <1>3 DEF Backs

LEMMA ReadReservedBacked ==
  ASSUME IInv, IInv', BackedInv, NEW h \in Handlers, Only(h), ReadReserved(h),
         Fresh(handler[h]), Accounted(handler[h], delta[h])
  PROVE  BackedInv'
<1> DEFINE s == handler'[h]
<1>1. /\ s.pc = "consumeReserved" /\ s.left = handler[h].left /\ s.todo = UsableItems(h)
      /\ handler[h].pc = "readReserved" /\ UNCHANGED <<inventory, reservation, delta>>
  BY DEF ReadReserved, IInv, TypeOK, HandlerState, dbVars
<1>2. s.left = {} /\ delta'[h] = NoDelta
  BY <1>1 DEF Fresh, Accounted, Buying, Taking
<1>3. \A e \in UsableItems(h) : /\ reservation[e.res].status = "active"
                                /\ e \in ItemsIn(reservation, e.res)
  BY DEF UsableItems, ItemsIn
<1> HIDE DEF s
<1>4. ASSUME NEW w \in Rows PROVE SumFunction(TakenFrom(reservation, {}, w)) = 0
  <2>1. \A r \in Reservations : reservation[r].items[w] \in Nat
    BY DEF IInv, TypeOK, ReservationRow
  <2>2. \A r \in Reservations : ItemsLeft(reservation, {}, r, w) = reservation[r].items[w]
    BY DEF ItemsLeft, Rewritten
  <2>3. TakenFrom(reservation, {}, w) = [r \in Reservations |-> 0]
    BY <2>1, <2>2 DEF TakenFrom
  <2> QED  BY <2>3, IdsAreFinite, SumZero
<1>5. Consumes(reservation, s, NoDelta)
  BY <1>1, <1>2, <1>3, <1>4 DEF Consumes, NoDelta, Rewritten
<1>6. Releases(reservation, s, NoDelta)
  BY <1>1 DEF Releases, Releasing
<1>7. \A r \in Touched(s) : reservation[r].status = "active"
  BY <1>1, <1>2, <1>3 DEF Touched, ReadItems, Releasing, Taking
<1>8. Backs(reservation, s, delta'[h])
  BY <1>2, <1>5, <1>6, <1>7 DEF Backs
<1> QED  BY <1>1, <1>8, BackedHere DEF s

LEMMA ConsumeItemBacked ==
  ASSUME IInv, IInv', BackedInv, NEW h \in Handlers, Only(h), ConsumeItem(h)
  PROVE  BackedInv'
<1> DEFINE s == handler[h]  n == handler'[h]
<1>1. PICK e \in s.todo :
        LET take == Smaller(s.need[e.row[1]], e.cap)
        IN  /\ s.pc = "consumeReserved"
            /\ UpdateInventory(h, e.row, 0, -take, take)
            /\ n.pc = "consumeReserved"
            /\ n.left = s.left \cup {[e EXCEPT !.cap = e.cap - take]}
            /\ n.todo \subseteq s.todo \ {e}
            /\ UNCHANGED dbVars
  <2>1. handler \in [Handlers -> HandlerState]
    BY Zenon DEF IInv, TypeOK
  <2>2. PICK e \in s.todo :
          LET b == e.row[1]
              take == Smaller(s.need[b], e.cap)
          IN  /\ s.pc = "consumeReserved"
              /\ UpdateInventory(h, e.row, 0, -take, take)
              /\ handler' = [handler EXCEPT
                   ![h].need[b] = s.need[b] - take,
                   ![h].left = @ \cup {[e EXCEPT !.cap = @ - take]},
                   ![h].todo = {f \in @ \ {e} : f.row[1] = b => s.need[b] - take > 0}]
              /\ UNCHANGED dbVars
    BY Zenon DEF ConsumeItem
  <2> DEFINE take == Smaller(s.need[e.row[1]], e.cap)
  <2>3. /\ n.pc = s.pc
        /\ n.left = s.left \cup {[e EXCEPT !.cap = e.cap - take]}
        /\ n.todo = {f \in s.todo \ {e} : f.row[1] = e.row[1] => s.need[e.row[1]] - take > 0}
    BY <2>1, <2>2, SMTT(30) DEF HandlerState
  <2> QED  BY <2>2, <2>3, Zenon
<1> DEFINE take == Smaller(s.need[e.row[1]], e.cap)  f == [e EXCEPT !.cap = e.cap - take]
<1>2. Backs(reservation, s, delta[h])
  BY DEF BackedInv
<1>3. /\ \A g \in s.todo : g \in ItemsIn(reservation, g.res) /\ ~Rewritten(s.left, g.res, g.row)
      /\ \A g, k \in s.left : g.res = k.res /\ g.row = k.row => g = k
      /\ \A w \in Rows : delta[h][w].reserved = 0 - SumFunction(TakenFrom(reservation, s.left, w))
  BY <1>1, <1>2 DEF Backs, Consumes, Taking
<1>4. e \in ItemEntry /\ s.left \in SUBSET ItemEntry /\ s.need \in [Books -> Nat]
  BY <1>1, FieldTypes DEF Coherent
<1>5. e.res \in Reservations /\ e.row \in Rows /\ e.row[1] \in Books /\ e.cap \in Nat
  BY <1>4, EntryTypes
<1>6. take \in Nat /\ e.cap - take \in Nat
  <2>1. s.need[e.row[1]] \in Nat
    BY <1>4, <1>5
  <2> QED  BY <1>5, <2>1, SmallerType
<1>7. f \in ItemEntry /\ f.res = e.res /\ f.row = e.row /\ f.cap = e.cap - take
  <2> HIDE DEF take
  <2> QED  BY <1>4, <1>6 DEF ItemEntry
<1>8. e.cap = reservation[e.res].items[e.row]
  BY <1>3 DEF ItemsIn
<1>9. /\ delta'[h][e.row].reserved = delta[h][e.row].reserved + (-take)
      /\ \A x \in Rows \ {e.row} : delta'[h][x] = delta[h][x]
  BY <1>1, <1>5, UpdateReserved
<1>10. /\ s.pc = "consumeReserved" /\ n.pc = "consumeReserved" /\ n.left = s.left \cup {f}
       /\ n.todo \subseteq s.todo \ {e} /\ UNCHANGED <<inventory, reservation>>
  BY <1>1 DEF dbVars
<1>11. reservation \in Table /\ n.left \in SUBSET ItemEntry
  BY <1>4, <1>7, <1>10 DEF IInv, TypeOK, Table
<1> HIDE DEF take, f, n
<1>12. ~Rewritten(s.left, e.res, e.row)
  BY <1>3
<1>13. ASSUME NEW w \in Rows, NEW r \in Reservations
       PROVE  ItemsLeft(reservation, n.left, r, w) =
                IF r = e.res /\ w = e.row THEN e.cap - take ELSE ItemsLeft(reservation, s.left, r, w)
  <2>1. CASE r = e.res /\ w = e.row
    <3>1. Rewritten(n.left, r, w) /\ \A g \in n.left : g.res = r /\ g.row = w => g = f
      BY <1>7, <1>10, <1>12, <2>1 DEF Rewritten
    <3> QED  BY <1>7, <2>1, <3>1, RewrittenItem
  <2>2. CASE ~(r = e.res /\ w = e.row)
    <3>1. \A g \in n.left : g.res = r /\ g.row = w <=> g \in s.left /\ g.res = r /\ g.row = w
      BY <1>7, <1>10, <2>2
    <3>2. Rewritten(n.left, r, w) <=> Rewritten(s.left, r, w)
      BY <1>10, <3>1 DEF Rewritten
    <3>3. CASE Rewritten(s.left, r, w)
      <4>1. PICK g \in s.left : g.res = r /\ g.row = w /\ ItemsLeft(reservation, s.left, r, w) = g.cap
        BY <3>3, RewrittenItem
      <4>2. PICK k \in n.left : k.res = r /\ k.row = w /\ ItemsLeft(reservation, n.left, r, w) = k.cap
        BY <3>2, <3>3, RewrittenItem
      <4>3. k \in s.left /\ k = g
        BY <1>3, <3>1, <4>1, <4>2
      <4> QED  BY <2>2, <4>1, <4>2, <4>3
    <3>4. CASE ~Rewritten(s.left, r, w)
      BY <2>2, <3>2, <3>4 DEF ItemsLeft
    <3> QED  BY <3>3, <3>4
  <2> QED  BY <2>1, <2>2
<1>14. ASSUME NEW w \in Rows
       PROVE  delta'[h][w].reserved = 0 - SumFunction(TakenFrom(reservation, n.left, w))
  <2> DEFINE a == TakenFrom(reservation, s.left, w)  b == TakenFrom(reservation, n.left, w)
  <2>1. /\ a \in [Reservations -> Int] /\ b \in [Reservations -> Int]
        /\ SumFunction(a) \in Int
    BY <1>4, <1>11, TakenFromType
  <2>2. CASE w # e.row
    <3>1. a = b
      BY <1>13, <2>2 DEF TakenFrom
    <3> QED  BY <1>3, <1>9, <2>2, <3>1
  <2>3. CASE w = e.row
    <3>1. a[e.res] = 0
      <4>1. ItemsLeft(reservation, s.left, e.res, w) = reservation[e.res].items[w]
        BY <1>12, <2>3 DEF ItemsLeft
      <4> QED  BY <1>5, <1>8, <2>3, <4>1 DEF TakenFrom
    <3>2. b[e.res] = take
      <4>1. ItemsLeft(reservation, n.left, e.res, w) = e.cap - take
        BY <1>5, <1>13, <2>3
      <4> QED  BY <1>5, <1>6, <1>8, <2>3, <4>1 DEF TakenFrom
    <3>3. \A r \in Reservations \ {e.res} : a[r] = b[r]
      BY <1>13 DEF TakenFrom
    <3>4. delta[h][w].reserved = 0 - SumFunction(a)
      BY <1>3
    <3> HIDE DEF a, b
    <3>5. SumFunction(b) = SumFunction(a) + (b[e.res] - a[e.res])
      BY <1>5, <2>1, <3>3, IdsAreFinite, SumChange
    <3> QED  BY <1>6, <1>9, <2>1, <2>3, <3>1, <3>2, <3>4, <3>5 DEF b
  <2> QED  BY <2>2, <2>3
<1>15. \A g, k \in n.left : g.res = k.res /\ g.row = k.row => g = k
  BY <1>3, <1>7, <1>10, <1>12 DEF Rewritten
<1>16. ASSUME NEW g \in n.todo
       PROVE  g \in ItemsIn(reservation, g.res) /\ ~Rewritten(n.left, g.res, g.row)
  <2>1. g \in s.todo /\ g # e
    BY <1>10
  <2>2. g \in ItemsIn(reservation, g.res) /\ ~Rewritten(s.left, g.res, g.row)
    BY <1>3, <2>1
  <2>3. e \in ItemsIn(reservation, e.res)
    BY <1>3
  <2>4. ~(g.res = e.res /\ g.row = e.row)
    BY <2>1, <2>2, <2>3 DEF ItemsIn
  <2> QED  BY <1>7, <1>10, <2>2, <2>4 DEF Rewritten
<1>17. Consumes(reservation, n, delta'[h])
  BY <1>10, <1>14, <1>15, <1>16 DEF Consumes
<1>18. Releases(reservation, n, delta'[h])
  BY <1>10 DEF Releases, Releasing
<1>19. \A r \in Touched(n) : reservation[r].status = "active"
  <2>1. Touched(n) \subseteq Touched(s)
    BY <1>7, <1>10 DEF Touched, ReadItems, Releasing, Taking
  <2> QED  BY <1>2, <2>1 DEF Backs
<1>20. Backs(reservation, n, delta'[h])
  BY <1>17, <1>18, <1>19 DEF Backs
<1> QED  BY <1>10, <1>20, BackedHere, Zenon DEF n

(* The reservations that a purchase converts are left without items.       *)
LEMMA EmptiedIsEmpty ==
  ASSUME NEW left, \A e, f \in left : e.res = f.res /\ e.row = f.row => e = f,
         NEW r \in Emptied(left)
  PROVE  /\ r \in {e.res : e \in left}
         /\ \A w \in Rows : ItemsLeft(reservation, left, r, w) = 0
<1>1. r \in {e.res : e \in left}
  BY DEF Emptied
<1>2. ASSUME NEW w \in Rows PROVE ItemsLeft(reservation, left, r, w) = 0
  <2>1. CASE [res |-> r, row |-> w, cap |-> 0] \in left
    <3>1. Rewritten(left, r, w)
      BY <2>1 DEF Rewritten
    <3>2. PICK e \in left : e.res = r /\ e.row = w /\ ItemsLeft(reservation, left, r, w) = e.cap
      BY <3>1, RewrittenItem
    <3>3. e = [res |-> r, row |-> w, cap |-> 0]
      BY <2>1, <3>2
    <3> QED  BY <3>2, <3>3
  <2>2. CASE reservation[r].items[w] = 0 /\ \A e \in left : <<e.res, e.row>> # <<r, w>>
    BY <2>2 DEF ItemsLeft, Rewritten
  <2> QED  BY <2>1, <2>2 DEF Emptied
<1> QED  BY <1>1, <1>2

LEMMA RewriteItemsBacked ==
  ASSUME IInv, IInv', BackedInv, NEW h \in Handlers, Only(h), RewriteItems(h),
         handler'[h].pc = "createRecord"
  PROVE  BackedInv'
<1> DEFINE s == handler[h]  n == handler'[h]
<1>1. ~Throw(h)
  BY ThrowIsQuiet DEF Quiet, Taking
<1>2. /\ s.pc = "consumeReserved" /\ UNCHANGED <<inventory, reservation, delta>>
      /\ handler' = [handler EXCEPT ![h].pc = "createRecord", ![h].convert = Emptied(s.left)]
  BY <1>1 DEF RewriteItems, dbVars
<1>3. n.pc = "createRecord" /\ n.left = s.left /\ n.convert = Emptied(s.left)
  <2>1. handler \in [Handlers -> HandlerState]
    BY DEF IInv, TypeOK
  <2> QED  BY <1>2, <2>1 DEF HandlerState
<1>4. Backs(reservation, s, delta[h])
  BY DEF BackedInv
<1>5. \A e, f \in s.left : e.res = f.res /\ e.row = f.row => e = f
  BY <1>2, <1>4 DEF Backs, Consumes, Taking
<1>6. \A r \in n.convert :
        r \in {f.res : f \in n.left} /\ \A w \in Rows : ItemsLeft(reservation, n.left, r, w) = 0
  BY <1>3, <1>5, EmptiedIsEmpty
<1>7. n.pc \in Taking \ {"consumeReserved"} /\ s.pc \in Taking
  BY <1>2, <1>3 DEF Taking
<1>8. \A w \in Rows : delta'[h][w].reserved = delta[h][w].reserved
  BY <1>2
<1> HIDE DEF n, s
<1>9. Backs(reservation, n, delta'[h])
  BY <1>3, <1>4, <1>6, <1>7, <1>8, GoesOnTaking DEF s
<1> QED  BY <1>2, <1>9, BackedHere DEF n

(* The statements between the rewriting of the items and the commit.       *)
LEMMA TakesStockBacked ==
  ASSUME IInv, IInv', BackedInv, NEW h \in Handlers, Only(h),
         \/ CreateRecord(h) /\ handler'[h].pc = "readInventory"
         \/ ReadInventory(h)
         \/ DecrementInventory(h)
  PROVE  BackedInv'
<1> DEFINE s == handler[h]  n == handler'[h]
<1>1. handler \in [Handlers -> HandlerState]
  BY DEF IInv, TypeOK
<1>2. /\ s.pc \in {"createRecord", "readInventory", "decrementInventory"}
      /\ n.pc \in {"readInventory", "decrementInventory"}
      /\ n.left = s.left /\ n.convert = s.convert
      /\ UNCHANGED <<inventory, reservation>>
      /\ \A w \in Rows : delta'[h][w].reserved = delta[h][w].reserved
  <2>1. CASE CreateRecord(h) /\ n.pc = "readInventory"
    <3>1. ~Throw(h)
      <4>1. n.pc # "readInventory" \/ ~Throw(h)
        BY ThrowIsQuiet DEF Quiet, Taking
      <4> QED  BY <2>1, <4>1
    <3> QED  BY <1>1, <2>1, <3>1 DEF CreateRecord, Goto, HandlerState, dbVars
  <2>2. CASE ReadInventory(h)
    BY <1>1, <2>2, SMTT(30) DEF ReadInventory, HandlerState, dbVars
  <2>3. CASE DecrementInventory(h)
    <3>1. PICK e \in s.todo :
            LET b == e.row[1]
                take == Smaller(s.need[b], e.cap)
            IN  /\ s.pc = "decrementInventory"
                /\ UpdateInventory(h, e.row, -take, 0, take)
                /\ handler' = [handler EXCEPT
                     ![h].need[b] = s.need[b] - take,
                     ![h].todo = {f \in @ \ {e} : f.row[1] = b => s.need[b] - take > 0}]
                /\ UNCHANGED dbVars
      BY <2>3, Zenon DEF DecrementInventory
    <3>2. e.row \in Rows
      BY FieldTypes, EntryTypes, Zenon
    <3>3. /\ delta'[h][e.row].reserved = delta[h][e.row].reserved + 0
          /\ \A x \in Rows \ {e.row} : delta'[h][x] = delta[h][x]
          /\ \A x \in Rows : delta[h][x].reserved \in Int
      BY <3>1, <3>2, UpdateReserved
    <3>4. \A w \in Rows : delta'[h][w].reserved = delta[h][w].reserved
      BY <3>2, <3>3, SMTT(30)
    <3>5. n.pc = s.pc /\ n.left = s.left /\ n.convert = s.convert
      BY <1>1, <3>1 DEF HandlerState
    <3> QED  BY <3>1, <3>4, <3>5, Zenon DEF dbVars
  <2> QED  BY <2>1, <2>2, <2>3
<1>3. Backs(reservation, s, delta[h])
  BY DEF BackedInv
<1>4. s.pc \in Taking \ {"consumeReserved"} /\ n.pc \in Taking \ {"consumeReserved"}
  BY <1>2 DEF Taking
<1>5. \A r \in n.convert :
        r \in {f.res : f \in n.left} /\ \A w \in Rows : ItemsLeft(reservation, n.left, r, w) = 0
  BY <1>2, <1>3, <1>4 DEF Backs, Consumes
<1> HIDE DEF n, s
<1>6. Backs(reservation, n, delta'[h])
  BY <1>2, <1>3, <1>4, <1>5, GoesOnTaking DEF s
<1> QED  BY <1>2, <1>6, BackedHere DEF n

(* The purchase commits: it sells the copies that its client's reservations*)
(* lose.                                                                   *)
LEMMA CommitBacked ==
  ASSUME IInv, IInv', BackedInv, Exclusive, NEW h \in Handlers, handler[h].actor \in Clients,
         Only(h), CommitPurchase(h)
  PROVE  BackedInv'
<1> DEFINE s == handler[h]
<1>1. s.pc = "decrementInventory" /\ CommitInventory(h)
  BY Zenon DEF CommitPurchase
<1>2. Backs(reservation, s, delta[h])
  BY DEF BackedInv
<1>3. /\ \A w \in Rows : delta[h][w].reserved = 0 - SumFunction(TakenFrom(reservation, s.left, w))
      /\ \A r \in s.convert :
           r \in {e.res : e \in s.left} /\ \A w \in Rows : ItemsLeft(reservation, s.left, r, w) = 0
      /\ Touched(s) = {e.res : e \in s.left}
      /\ \A r \in Touched(s) : reservation[r].status = "active"
  BY <1>1, <1>2 DEF Backs, Consumes, Taking, Touched, Releasing, ReadItems
<1>4. /\ reservation \in Table /\ reservation' \in Table
      /\ s.left \in SUBSET ItemEntry /\ s.convert \in SUBSET Reservations
      /\ inventory \in [Rows -> InventoryRow]
  BY FieldTypes DEF IInv, TypeOK, Table
<1>5. \A r \in Reservations :
        /\ reservation'[r].items = [w \in Rows |-> ItemsLeft(reservation, s.left, r, w)]
        /\ reservation'[r].status = IF r \in s.convert THEN "converted" ELSE reservation[r].status
  BY CommitRewrites
<1>6. /\ \A w \in Rows : inventory'[w].reserved = inventory[w].reserved + delta[h][w].reserved
      /\ delta'[h] = NoDelta
  BY <1>1, CommitReserved
<1>7. Backed(inventory', reservation')
  <2>1. ASSUME NEW w \in Rows
        PROVE  inventory'[w].reserved = SumFunction(ActiveItems(reservation', w))
    <3> DEFINE f == ActiveItems(reservation, w)  g == TakenFrom(reservation, s.left, w)
               k == ActiveItems(reservation', w)
    <3>1. /\ f \in [Reservations -> Int] /\ k \in [Reservations -> Int]
          /\ g \in [Reservations -> Int] /\ SumFunction(g) \in Int
      BY <1>4, ActiveItemsType, TakenFromType
    <3>2. ASSUME NEW r \in Reservations PROVE k[r] = f[r] - g[r]
      <4>1. /\ ItemsLeft(reservation, s.left, r, w) \in Nat /\ reservation[r].items[w] \in Nat
            /\ ~Rewritten(s.left, r, w) =>
                 ItemsLeft(reservation, s.left, r, w) = reservation[r].items[w]
        BY <1>4, ItemsLeftType
      <4>2. g[r] = reservation[r].items[w] - ItemsLeft(reservation, s.left, r, w)
        BY DEF TakenFrom
      <4>3. CASE r \in s.convert
        <5>1. reservation[r].status = "active" /\ ItemsLeft(reservation, s.left, r, w) = 0
          BY <1>3, <4>3
        <5>2. f[r] = reservation[r].items[w] /\ k[r] = 0
          BY <1>5, <4>3, <5>1 DEF ActiveItems
        <5> QED  BY <4>1, <4>2, <5>1, <5>2
      <4>4. CASE r \notin s.convert /\ reservation[r].status = "active"
        <5>1. f[r] = reservation[r].items[w] /\ k[r] = ItemsLeft(reservation, s.left, r, w)
          BY <1>5, <4>4 DEF ActiveItems
        <5> QED  BY <4>1, <4>2, <5>1
      <4>5. CASE r \notin s.convert /\ reservation[r].status # "active"
        <5>1. ~Rewritten(s.left, r, w)
          BY <1>3, <4>5 DEF Rewritten
        <5>2. f[r] = 0 /\ k[r] = 0
          BY <1>5, <4>5 DEF ActiveItems
        <5> QED  BY <4>1, <4>2, <5>1, <5>2
      <4> QED  BY <4>3, <4>4, <4>5
    <3>3. inventory[w].reserved = SumFunction(f)
      BY BackedNow DEF BackedInv, Backed
    <3>4. inventory'[w].reserved = inventory[w].reserved + (0 - SumFunction(g))
      BY <1>3, <1>6
    <3>5. SumFunction(f) \in Int
      BY <3>1, IdsAreFinite, SumFunctionType
    <3> HIDE DEF f, g, k
    <3>6. SumFunction(k) = SumFunction(f) - SumFunction(g)
      BY <3>1, <3>2, IdsAreFinite, SumMinus
    <3> QED  BY <3>1, <3>3, <3>4, <3>5, <3>6 DEF k
  <2> QED  BY <2>1 DEF Backed
<1>8. Backs(reservation', handler'[h], delta'[h])
  <2>1. PICK p : handler'[h] = Completed(s, p)
    BY CommitShape
  <2>2. handler'[h].pc \notin Releasing \cup Taking
    BY <2>1 DEF Completed, IdleHandler, Releasing, Taking
  <2> QED  BY <2>2, BacksNothing
<1>9. ASSUME NEW g \in Handlers \ {h}, NEW r \in Touched(handler[g])
      PROVE  /\ reservation'[r].items = reservation[r].items
             /\ reservation'[r].status = reservation[r].status
  <2>1. Backs(reservation, handler[g], delta[g]) /\ handler[g] \in HandlerState
    BY DEF BackedInv, IInv, TypeOK
  <2>2. handler[g].pc \in Releasing => handler[g].res \in Reservations
    BY <2>1 DEF Backs, Releases
  <2>3. handler[g].pc = "consumeReserved" => handler[g].todo \subseteq ItemEntry
    BY DEF IInv, Coherent
  <2>4. r \in Reservations
    BY <2>1, <2>2, <2>3, TouchedType
  <2>5. r \notin Touched(s)
    BY DEF Exclusive
  <2>6. r \notin s.convert /\ \A w \in Rows : ~Rewritten(s.left, r, w)
    BY <1>3, <2>5 DEF Rewritten
  <2>7. reservation[r].items \in [Rows -> Nat]
    BY <1>4, <2>4 DEF Table, ReservationRow
  <2>8. \A w \in Rows : ItemsLeft(reservation, s.left, r, w) = reservation[r].items[w]
    BY <2>6 DEF ItemsLeft
  <2>9. [w \in Rows |-> ItemsLeft(reservation, s.left, r, w)] = reservation[r].items
    BY <2>7, <2>8
  <2> QED  BY <1>5, <2>4, <2>6, <2>9
<1> QED  BY <1>7, <1>8, <1>9, BackedOnly, Zenon

LEMMA TakesBacked ==
  ASSUME IInv, IInv', BackedInv, Exclusive, NEW h \in Handlers,
         handler[h].pc \in Buying => handler[h].actor \in Clients, Fresh(handler[h]),
         Accounted(handler[h], delta[h]), Only(h), Takes(h)
  PROVE  BackedInv'
<1>1. ASSUME CommitPurchase(h) PROVE BackedInv'
  <2>1. handler[h].pc \in Buying
    BY <1>1, Zenon DEF CommitPurchase, Buying
  <2> QED  BY <1>1, <2>1, CommitBacked, Zenon
<1> QED  BY <1>1, ReadReservedBacked, ConsumeItemBacked, RewriteItemsBacked, TakesStockBacked DEF Takes

LEMMA BackedPreserved ==
  ASSUME IInv, IInv', SalesInv, FreshInv, AccountsInv, BackedInv, Exclusive, [Next]_vars
  PROVE  BackedInv'
<1>1. /\ \A h \in Handlers : Engaged(handler[h]) /\ Fresh(handler[h])
      /\ \A h \in Handlers : handler[h].pc \in Buying => handler[h].actor \in Clients
      /\ \A h \in Handlers : Accounted(handler[h], delta[h])
  BY DEF SalesInv, Sells, Engaged, FreshInv, AccountsInv
<1>2. CASE Passes
  <2>1. reservation \in Table /\ reservation' \in Table
    BY DEF IInv, TypeOK, Table
  <2>2. \A r \in Reservations : /\ reservation'[r].items = reservation[r].items
                                /\ reservation'[r].status = reservation[r].status
    <3>1. ASSUME NEW r \in Reservations
          PROVE  /\ reservation'[r].items = reservation[r].items
                 /\ reservation'[r].status = reservation[r].status
      <4>1. reservation[r] \in ReservationRow
        BY <2>1 DEF Table
      <4>2. \/ reservation'[r] = reservation[r]
            \/ reservation'[r] = [reservation[r] EXCEPT !.due = TRUE]
        BY <1>2 DEF Passes
      <4> QED  BY <4>1, <4>2 DEF ReservationRow
    <3> QED  BY <3>1
  <2>3. Backed(inventory', reservation')
    <3>1. Backed(inventory, reservation)
      BY BackedNow DEF BackedInv
    <3>2. \A w \in Rows : inventory'[w].reserved = inventory[w].reserved
      BY <1>2 DEF Passes
    <3> QED  BY <2>2, <3>1, <3>2, BackedStays
  <2>4. ASSUME NEW g \in Handlers PROVE Backs(reservation', handler'[g], delta'[g])
    <3>1. handler'[g] = handler[g] /\ delta'[g] = delta[g]
      BY <1>2 DEF Passes
    <3>2. Backs(reservation, handler[g], delta[g]) /\ handler[g] \in HandlerState
      BY DEF BackedInv, IInv, TypeOK
    <3>3. handler[g].pc \in Releasing => handler[g].res \in Reservations
      BY <3>2 DEF Backs, Releases
    <3>4. handler[g].pc = "consumeReserved" => handler[g].todo \subseteq ItemEntry
      BY DEF IInv, Coherent
    <3>5. Touched(handler[g]) \subseteq Reservations
      BY <3>2, <3>3, <3>4, TouchedType
    <3>6. Backs(reservation', handler[g], delta[g])
      BY <2>1, <2>2, <3>2, <3>5, BacksStays
    <3> QED  BY <3>1, <3>6
  <2>5. ReservedIsBacked'
    BY <2>3, BackedNext
  <2> QED  BY <2>4, <2>5 DEF BackedInv
<1>3. ASSUME NEW h \in Handlers, Only(h), Quiet(h) PROVE BackedInv'
  <2>1. UNCHANGED <<inventory, reservation>> /\ handler'[h].pc \notin Releasing \cup Taking
    BY <1>3 DEF Quiet
  <2>2. Backs(reservation, handler'[h], delta'[h])
    BY <2>1, BacksNothing
  <2> QED  BY <1>3, <2>1, <2>2, BackedHere
<1>4. ASSUME NEW h \in Handlers, Only(h), Allocates(h) PROVE BackedInv'
  BY <1>4, AllocatesBacked
<1>5. ASSUME NEW h \in Handlers, Only(h), Ends(h) PROVE BackedInv'
  BY <1>5, EndsBacked
<1>6. ASSUME NEW h \in Handlers, Only(h), Takes(h) PROVE BackedInv'
  BY <1>1, <1>6, TakesBacked
<1> QED  BY <1>1, <1>2, <1>3, <1>4, <1>5, <1>6, StockCases

LEMMA BackedInit == DbInit => BackedInv
<1> SUFFICES ASSUME DbInit PROVE BackedInv
  OBVIOUS
<1>1. \A h \in Handlers : Backs(reservation, handler[h], delta[h])
  BY BacksNothing DEF DbInit, IdleHandler, Releasing, Taking
<1>2. ASSUME NEW w \in Rows PROVE inventory[w].reserved = SumFunction(ActiveItems(reservation, w))
  <2>1. ActiveItems(reservation, w) = [r \in Reservations |-> 0]
    BY DEF DbInit, NoReservation, ActiveItems
  <2>2. inventory[w].reserved = 0
    BY DEF DbInit
  <2> QED  BY <2>1, <2>2, IdsAreFinite, SumZero
<1>3. ReservedIsBacked
  BY <1>2, BackedNow DEF Backed
<1> QED  BY <1>1, <1>3 DEF BackedInv

(* What a handler is going to close or rewrite is its client's and not due,*)
(* or, for the cron, due.                                                  *)
Owned(rsv, s) ==
  \A r \in Touched(s) :
    IF s.actor = NULL THEN rsv[r].due ELSE rsv[r].client = s.actor /\ ~rsv[r].due

OwnerInv == \A h \in Handlers : Owned(reservation, handler[h])

LEMMA TouchedHere ==
  ASSUME IInv, BackedInv, NEW g \in Handlers
  PROVE  /\ Touched(handler[g]) \subseteq Reservations
         /\ \A r \in Touched(handler[g]) : reservation[r].status = "active"
<1>1. Backs(reservation, handler[g], delta[g]) /\ handler[g] \in HandlerState
  BY DEF BackedInv, IInv, TypeOK
<1>2. handler[g].pc \in Releasing => handler[g].res \in Reservations
  BY <1>1 DEF Backs, Releases
<1>3. handler[g].pc = "consumeReserved" => handler[g].todo \subseteq ItemEntry
  BY DEF IInv, Coherent
<1> QED  BY <1>1, <1>2, <1>3, TouchedType DEF Backs

LEMMA NextExpiredOwned ==
  ASSUME NEW rsv \in Table, NEW s \in HandlerState, s.actor = NULL,
         \A q \in s.queue : rsv[q].due,
         Touched(NextExpired(s)) \subseteq s.queue
  PROVE  Owned(rsv, NextExpired(s))
<1>1. NextExpired(s).actor = NULL
  BY NextExpiredShape DEF IdleHandler
<1> QED  BY <1>1 DEF Owned

LEMMA EndsOwned ==
  ASSUME IInv, BackedInv, OwnerInv, NEW h \in Handlers, Ends(h)
  PROVE  Owned(reservation, handler'[h])
<1> DEFINE s == handler[h]  n == handler'[h]
<1>1. /\ reservation \in Table /\ handler \in [Handlers -> HandlerState]
      /\ s \in HandlerState /\ Owned(reservation, s) /\ Backs(reservation, s, delta[h])
  BY DEF IInv, TypeOK, Table, OwnerInv, BackedInv
<1>2. ASSUME NEW c \in Clients, NEW r \in Reservations, StartCancel(h, c, r)
      PROVE  Owned(reservation, n)
  <2>1. /\ n.pc = "release" /\ n.actor = c /\ n.res = r /\ n.queue = {}
        /\ reservation[r].client = c /\ ~reservation[r].due
    BY <1>1, <1>2 DEF StartCancel, Holds, IdleHandler
  <2>2. c # NULL
    BY NullIsNoId
  <2> HIDE DEF n
  <2> QED  BY <2>1, <2>2 DEF Owned, Touched, Releasing
<1>3. ASSUME StartExpireCron(h) PROVE Owned(reservation, n)
  <2> DEFINE m == [IdleHandler EXCEPT !.queue = ExpiredReservations,
                     !.snapshot = UNION {ItemsOf(r) : r \in ExpiredReservations}]
  <2>1. n = NextExpired(m)
    BY <1>1, <1>3 DEF StartExpireCron
  <2>2. /\ m.queue = ExpiredReservations /\ m.actor = NULL
        /\ m.snapshot = UNION {ItemsOf(r) : r \in ExpiredReservations}
    BY DEF IdleHandler
  <2>3. m \in HandlerState
    <3>1. ExpiredReservations \in SUBSET Reservations
      BY DEF ExpiredReservations
    <3>2. UNION {ItemsOf(r) : r \in ExpiredReservations} \in SUBSET ItemEntry
      BY <3>1, ItemsOfType
    <3>3. [IdleHandler EXCEPT !.queue = ExpiredReservations] \in HandlerState
      BY <3>1, IdleHandlerType, SetFields
    <3>4. [[IdleHandler EXCEPT !.queue = ExpiredReservations] EXCEPT
              !.snapshot = UNION {ItemsOf(r) : r \in ExpiredReservations}] \in HandlerState
      BY <3>2, <3>3, SetFields
    <3> QED  BY <3>4
  <2> HIDE DEF m, n
  <2>4. \A q \in m.queue : reservation[q].status = "active" /\ reservation[q].due
    BY <2>2 DEF ExpiredReservations
  <2>5. \A q \in m.queue : {e \in m.snapshot : e.res = q} = ItemsIn(reservation, q)
    BY <2>2, ItemsAreIn DEF ItemsIn
  <2>6. Touched(NextExpired(m)) \subseteq m.queue
    BY <1>1, <2>3, <2>4, <2>5, NextExpiredReleases
  <2> QED  BY <1>1, <2>1, <2>2, <2>3, <2>4, <2>6, NextExpiredOwned
<1>4. ASSUME ReadRelease(h) \/ ReleaseRow(h) PROVE Owned(reservation, n)
  <2>1. /\ s.pc \in Releasing /\ n.pc \in Releasing /\ n.actor = s.actor
        /\ n.res = s.res /\ n.queue = s.queue
    <3>1. CASE ReadRelease(h)
      BY <1>1, <3>1 DEF ReadRelease, Goto, HandlerState, Releasing
    <3>2. CASE ReleaseRow(h)
      BY <1>1, <3>2 DEF ReleaseRow, HandlerState, Releasing
    <3> QED  BY <1>4, <3>1, <3>2
  <2> HIDE DEF n
  <2>2. Touched(n) = Touched(s)
    BY <2>1 DEF Touched
  <2> QED  BY <1>1, <2>1, <2>2 DEF Owned
<1>5. ASSUME FinishCancel(h) PROVE Owned(reservation, n)
  <2>1. n = IdleHandler
    BY <1>1, <1>5 DEF FinishCancel, Close
  <2> QED  BY <2>1 DEF IdleHandler, Owned, Touched, Releasing, Taking
<1>6. ASSUME s.pc \in Releasing, n = NextExpired(s) PROVE Owned(reservation, n)
  <2>1. /\ s.queue \subseteq Touched(s)
        /\ \A q \in s.queue : {e \in s.snapshot : e.res = q} = ItemsIn(reservation, q)
    BY <1>1, <1>6 DEF Touched, Backs, Releases
  <2>2. \A q \in s.queue : reservation[q].status = "active"
    BY <1>1, <2>1 DEF Backs
  <2>3. Touched(NextExpired(s)) \subseteq s.queue
    BY <1>1, <2>1, <2>2, NextExpiredReleases
  <2>4. \/ n = IdleHandler
        \/ n.actor = s.actor
    BY <1>1, <1>6, NextExpiredShape
  <2>5. CASE n = IdleHandler
    BY <2>5 DEF IdleHandler, Owned, Touched, Releasing, Taking
  <2>6. CASE n.actor = s.actor
    <3>1. Touched(n) \subseteq Touched(s)
      BY <1>6, <2>1, <2>3
    <3> HIDE DEF n
    <3> QED  BY <1>1, <2>6, <3>1 DEF Owned
  <2> QED  BY <2>4, <2>5, <2>6
<1>7. ASSUME FinishExpire(h) PROVE Owned(reservation, n)
  BY <1>1, <1>6, <1>7 DEF FinishExpire, Close, Releasing
<1>8. ASSUME s.pc \in Releasing, SkipExpired(h) PROVE Owned(reservation, n)
  BY <1>1, <1>6, <1>8 DEF SkipExpired
<1> QED  BY <1>2, <1>3, <1>4, <1>5, <1>7, <1>8 DEF Ends

LEMMA TakesOwned ==
  ASSUME IInv, OwnerInv, NEW h \in Handlers, Fresh(handler[h]),
         handler[h].pc \in Buying => handler[h].actor \in Clients, Takes(h)
  PROVE  Owned(reservation, handler'[h])
<1> DEFINE s == handler[h]  n == handler'[h]
<1>1. handler \in [Handlers -> HandlerState] /\ s \in HandlerState /\ Owned(reservation, s)
  BY DEF IInv, TypeOK, OwnerInv
<1>2. ASSUME ReadReserved(h) PROVE Owned(reservation, n)
  <2>1. /\ n.pc = "consumeReserved" /\ n.left = s.left /\ n.todo = UsableItems(h)
        /\ n.actor = s.actor /\ s.pc = "readReserved"
    BY <1>1, <1>2 DEF ReadReserved, HandlerState
  <2>2. s.left = {} /\ s.actor \in Clients
    BY <2>1 DEF Fresh, Buying, Taking
  <2>3. s.actor # NULL
    BY <2>2, NullIsNoId
  <2>4. \A e \in UsableItems(h) : reservation[e.res].client = s.actor /\ ~reservation[e.res].due
    BY DEF UsableItems
  <2> HIDE DEF n
  <2> QED  BY <2>1, <2>2, <2>3, <2>4 DEF Owned, Touched, ReadItems, Releasing, Taking
<1>3. ASSUME s.pc \in Taking, n.pc \in Taking, n.actor = s.actor,
             \A e \in ReadItems(n) : \E f \in ReadItems(s) : e.res = f.res
      PROVE  Owned(reservation, n)
  <2> HIDE DEF n
  <2>1. Touched(n) \subseteq Touched(s)
    BY <1>3, Zenon DEF Touched, Releasing, Taking
  <2> QED  BY <1>1, <1>3, <2>1 DEF Owned
<1>4. ASSUME ConsumeItem(h) PROVE Owned(reservation, n)
  <2>1. PICK e \in s.todo :
          LET b == e.row[1]
              take == Smaller(s.need[b], e.cap)
          IN  /\ s.pc = "consumeReserved"
              /\ handler' = [handler EXCEPT
                   ![h].need[b] = s.need[b] - take,
                   ![h].left = @ \cup {[e EXCEPT !.cap = @ - take]},
                   ![h].todo = {f \in @ \ {e} : f.row[1] = b => s.need[b] - take > 0}]
    BY <1>4, Zenon DEF ConsumeItem
  <2> DEFINE f == [e EXCEPT !.cap = e.cap - Smaller(s.need[e.row[1]], e.cap)]
  <2>2. /\ n.pc = s.pc /\ n.actor = s.actor /\ n.left = s.left \cup {f}
        /\ n.todo \subseteq s.todo
    BY <1>1, <2>1 DEF HandlerState
  <2>3. f.res = e.res
    <3>1. e \in ItemEntry
      BY <2>1 DEF IInv, Coherent
    <3> QED  BY <3>1 DEF ItemEntry
  <2> HIDE DEF n, f
  <2>4. \A k \in ReadItems(n) : \E g \in ReadItems(s) : k.res = g.res
    BY <2>1, <2>2, <2>3 DEF ReadItems
  <2> QED  BY <1>3, <2>1, <2>2, <2>4, Zenon DEF n, Taking
<1>5. ASSUME n.left = s.left, n.actor = s.actor, s.pc \in Taking,
             n.pc \in Taking \ {"consumeReserved"}
      PROVE  Owned(reservation, n)
  BY <1>3, <1>5 DEF ReadItems
<1>6. ASSUME RewriteItems(h), n.pc = "createRecord" PROVE Owned(reservation, n)
  <2>1. ~Throw(h)
    BY <1>6, ThrowIsQuiet DEF Quiet, Taking
  <2>2. /\ s.pc = "consumeReserved"
        /\ handler' = [handler EXCEPT ![h].pc = "createRecord", ![h].convert = Emptied(s.left)]
    BY <1>6, <2>1 DEF RewriteItems
  <2>3. n.left = s.left /\ n.actor = s.actor
    BY <1>1, <2>2 DEF HandlerState
  <2> QED  BY <1>5, <1>6, <2>2, <2>3 DEF Taking
<1>7. ASSUME CreateRecord(h), n.pc = "readInventory" PROVE Owned(reservation, n)
  <2>1. ~Throw(h)
    BY <1>7, ThrowIsQuiet DEF Quiet, Taking
  <2>2. s.pc = "createRecord" /\ n.left = s.left /\ n.actor = s.actor
    BY <1>1, <1>7, <2>1 DEF CreateRecord, Goto, HandlerState
  <2> QED  BY <1>5, <1>7, <2>2 DEF Taking
<1>8. ASSUME ReadInventory(h) PROVE Owned(reservation, n)
  <2>1. /\ s.pc = "readInventory" /\ n.pc = "decrementInventory"
        /\ n.left = s.left /\ n.actor = s.actor
    BY <1>1, <1>8 DEF ReadInventory, HandlerState
  <2> QED  BY <1>5, <2>1 DEF Taking
<1>9. ASSUME DecrementInventory(h) PROVE Owned(reservation, n)
  <2>1. /\ s.pc = "decrementInventory" /\ n.pc = s.pc
        /\ n.left = s.left /\ n.actor = s.actor
    BY <1>1, <1>9 DEF DecrementInventory, HandlerState
  <2> QED  BY <1>5, <2>1 DEF Taking
<1>10. ASSUME CommitPurchase(h) PROVE Owned(reservation, n)
  <2>1. s.pc = "decrementInventory"
    BY <1>10 DEF CommitPurchase
  <2>2. PICK p : n = Completed(s, p)
    BY <1>10, <2>1, CommitShape DEF Buying
  <2>3. n.pc \notin Releasing \cup Taking
    BY <2>2 DEF Completed, IdleHandler, Releasing, Taking
  <2> QED  BY <2>3, Zenon DEF Owned, Touched
<1> QED  BY <1>2, <1>4, <1>6, <1>7, <1>8, <1>9, <1>10 DEF Takes

(* A reservation keeps its client, and falls due only as time passes.      *)
LEMMA OwnersStay ==
  ASSUME IInv, NEW h \in Handlers, Quiet(h) \/ Allocates(h) \/ Ends(h) \/ Takes(h)
  PROVE  \A r \in Reservations : reservation[r].status # "none" =>
           /\ reservation'[r].client = reservation[r].client
           /\ reservation'[r].due = reservation[r].due
<1>1. reservation \in [Reservations -> ReservationRow]
  BY DEF IInv, TypeOK
<1>2. CASE UNCHANGED reservation
  BY <1>2, Zenon
<1>3. ASSUME Allocates(h), ~CreateReservation(h) PROVE UNCHANGED reservation
  BY <1>3, Zenon DEF Allocates, StartReservation, AssertInventoryAvailability, ReadAllocation,
              AllocateRow, dbVars
<1>4. CASE CreateReservation(h)
  <2>1. PICK q \in Reservations :
          /\ reservation[q].status = "none"
          /\ \E row : reservation' = [reservation EXCEPT ![q] = row]
    BY <1>4 DEF CreateReservation
  <2>2. PICK row : reservation' = [reservation EXCEPT ![q] = row]
    BY <2>1
  <2> QED  BY <1>1, <2>1, <2>2
<1>5. CASE Ends(h)
  <2>1. CASE \E status \in {"cancelled", "expired"} :
               reservation' = [reservation EXCEPT ![handler[h].res].status = status]
    <3>1. PICK status \in {"cancelled", "expired"} :
            reservation' = [reservation EXCEPT ![handler[h].res].status = status]
      BY <2>1, Zenon
    <3> QED  BY <1>1, <3>1 DEF ReservationRow
  <2> QED  BY <1>2, <1>5, <2>1, EndsShape
<1>6. ASSUME Takes(h), ~CommitPurchase(h) PROVE UNCHANGED reservation
  <2>1. ~Throw(h) \/ UNCHANGED reservation
    BY ThrowIsQuiet DEF Quiet
  <2> QED  BY <1>6, <2>1, Zenon DEF Takes, ReadReserved, ConsumeItem, RewriteItems, CreateRecord, Goto,
                ReadInventory, DecrementInventory, dbVars
<1>7. CASE CommitPurchase(h)
  BY <1>7, CommitRewrites
<1> QED  BY <1>2, <1>3, <1>4, <1>5, <1>6, <1>7 DEF Quiet

(* Nothing that ends a reservation or takes its items makes it active.     *)
LEMMA ActiveWasActive ==
  ASSUME IInv, NEW h \in Handlers, Ends(h) \/ Takes(h)
  PROVE  \A r \in Reservations :
           reservation'[r].status = "active" => reservation[r].status = "active"
<1>1. reservation \in [Reservations -> ReservationRow]
  BY DEF IInv, TypeOK
<1>2. CASE Ends(h)
  <2>1. CASE \E status \in {"cancelled", "expired"} :
               reservation' = [reservation EXCEPT ![handler[h].res].status = status]
    <3>1. PICK status \in {"cancelled", "expired"} :
            reservation' = [reservation EXCEPT ![handler[h].res].status = status]
      BY <2>1, Zenon
    <3> QED  BY <1>1, <3>1 DEF ReservationRow
  <2> QED  BY <1>2, <2>1, EndsShape
<1>3. ASSUME Takes(h), ~CommitPurchase(h) PROVE UNCHANGED reservation
  <2>1. ~Throw(h) \/ UNCHANGED reservation
    BY ThrowIsQuiet DEF Quiet
  <2> QED  BY <1>3, <2>1, Zenon DEF Takes, ReadReserved, ConsumeItem, RewriteItems, CreateRecord, Goto,
                ReadInventory, DecrementInventory, dbVars
<1>4. CASE CommitPurchase(h)
  BY <1>4, CommitRewrites
<1> QED  BY <1>2, <1>3, <1>4

TouchedAreActive ==
  \A g \in Handlers :
    /\ Touched(handler[g]) \subseteq Reservations
    /\ \A r \in Touched(handler[g]) : reservation[r].status = "active"

LEMMA TouchedNow == IInv /\ BackedInv => TouchedAreActive
BY TouchedHere DEF TouchedAreActive

(* No client and no tick of the cron overlaps, no webhook buys, and no     *)
(* reservation falls due under its owner's request.                        *)
Disciplined == Overlapping = {} /\ ~LateExpiry /\ WebhookStatuses = {}

LEMMA OwnersExclude ==
  ASSUME Disciplined, OrderInv, OwnerInv
  PROVE  Exclusive
<1>1. ASSUME NEW g \in Handlers, NEW h \in Handlers, NEW r,
             r \in Touched(handler[g]), r \in Touched(handler[h])
      PROVE  g = h
  <2>1. handler[g].pc # "idle" /\ handler[h].pc # "idle"
    BY <1>1 DEF Touched, Releasing, Taking
  <2>2. handler[g].actor = handler[h].actor
    BY <1>1 DEF OwnerInv, Owned
  <2> QED  BY <2>1, <2>2 DEF OrderInv, OneRequest, Disciplined
<1> QED  BY <1>1 DEF Exclusive

LEMMA OwnerPreserved ==
  ASSUME Disciplined, IInv, IInv', SalesInv, FreshInv, BackedInv, BackedInv', OwnerInv, [Next]_vars
  PROVE  OwnerInv'
<1>1. /\ \A h \in Handlers : Engaged(handler[h]) /\ Fresh(handler[h])
      /\ \A h \in Handlers : handler[h].pc \in Buying => handler[h].actor \in Clients
  BY DEF SalesInv, Sells, Engaged, FreshInv
<1>2. reservation \in Table
  BY DEF IInv, TypeOK, Table
<1>3. CASE Passes
  <2>1. ASSUME NEW g \in Handlers, NEW r \in Touched(handler[g])
        PROVE  IF handler[g].actor = NULL THEN reservation'[r].due
               ELSE reservation'[r].client = handler[g].actor /\ ~reservation'[r].due
    <3>1. r \in Reservations
      BY TouchedHere
    <3>2. reservation[r] \in ReservationRow
      BY <1>2, <3>1 DEF Table
    <3>3. IF handler[g].actor = NULL THEN reservation[r].due
          ELSE reservation[r].client = handler[g].actor /\ ~reservation[r].due
      BY DEF OwnerInv, Owned
    <3>4. CASE reservation'[r] = reservation[r]
      BY <3>3, <3>4
    <3>5. CASE /\ reservation'[r] = [reservation[r] EXCEPT !.due = TRUE]
               /\ \A h \in Handlers : handler[h].actor # reservation[r].client
      BY <3>2, <3>3, <3>5 DEF ReservationRow
    <3> QED  BY <1>3, <3>1, <3>4, <3>5 DEF Passes, Disciplined
  <2>2. \A g \in Handlers : handler'[g] = handler[g]
    BY <1>3 DEF Passes
  <2> QED  BY <2>1, <2>2 DEF OwnerInv, Owned
<1>4. ASSUME NEW h \in Handlers, Only(h), Owned(reservation, handler'[h]),
             Touched(handler'[h]) \subseteq Reservations,
             \A r \in Touched(handler'[h]) : reservation[r].status # "none",
             Quiet(h) \/ Allocates(h) \/ Ends(h) \/ Takes(h)
      PROVE  OwnerInv'
  <2>1. \A r \in Reservations : reservation[r].status # "none" =>
          /\ reservation'[r].client = reservation[r].client
          /\ reservation'[r].due = reservation[r].due
    BY <1>4, OwnersStay
  <2>2. ASSUME NEW g \in Handlers PROVE Owned(reservation', handler'[g])
    <3>1. /\ Owned(reservation, handler'[g])
          /\ Touched(handler'[g]) \subseteq Reservations
          /\ \A r \in Touched(handler'[g]) : reservation[r].status # "none"
      <4>1. CASE g = h
        BY <1>4, <4>1
      <4>2. CASE g # h
        <5>1. handler'[g] = handler[g]
          BY <1>4, <4>2 DEF Only
        <5> QED  BY <5>1, TouchedHere DEF OwnerInv
      <4> QED  BY <4>1, <4>2
    <3> QED  BY <2>1, <3>1 DEF Owned
  <2> QED  BY <2>2 DEF OwnerInv
<1>5. ASSUME NEW h \in Handlers, Only(h), Quiet(h) \/ Allocates(h) PROVE OwnerInv'
  <2>1. handler'[h].pc \notin Releasing \cup Taking
    <3>1. handler \in [Handlers -> HandlerState]
      BY DEF IInv, TypeOK
    <3>2. ASSUME NEW c \in Clients, NEW want \in ReserveOrders, StartReservation(h, c, want)
          PROVE  handler'[h].pc \in Reserving
      BY <3>1, <3>2 DEF StartReservation, IdleHandler, Reserving
    <3>3. ASSUME ReadAllocation(h) PROVE handler'[h].pc \in Reserving
      BY <3>1, <3>3 DEF ReadAllocation, Reserving, HandlerState
    <3>4. ASSUME AllocateRow(h) PROVE handler'[h].pc \in Reserving
      BY <3>1, <3>4 DEF AllocateRow, Reserving, HandlerState
    <3>5. ASSUME CreateReservation(h) PROVE handler'[h].pc = "idle"
      BY <3>1, <3>5 DEF CreateReservation, IdleHandler
    <3> QED  BY <1>5, <3>2, <3>3, <3>4, <3>5 DEF Quiet, Allocates, Reserving, Releasing, Taking
  <2>2. Touched(handler'[h]) = {}
    BY <2>1 DEF Touched
  <2>3. Owned(reservation, handler'[h])
    BY <2>2 DEF Owned
  <2> QED  BY <1>4, <1>5, <2>2, <2>3
<1>6. ASSUME NEW h \in Handlers, Only(h), Ends(h) \/ Takes(h) PROVE OwnerInv'
  <2>1. TouchedAreActive'
    BY TouchedNow, PTL
  <2>2. /\ Touched(handler'[h]) \subseteq Reservations
        /\ \A r \in Touched(handler'[h]) : reservation[r].status = "active"
    BY <1>6, <2>1, ActiveWasActive DEF TouchedAreActive
  <2>3. Owned(reservation, handler'[h])
    BY <1>1, <1>6, EndsOwned, TakesOwned
  <2> QED  BY <1>4, <1>6, <2>2, <2>3
<1> QED  BY <1>1, <1>3, <1>5, <1>6, StockCases

LEMMA OwnerInit == DbInit => OwnerInv
BY DEF DbInit, IdleHandler, OwnerInv, Owned, Touched, Releasing, Taking

(* Under that discipline no two handlers are going to close or rewrite the *)
(* same reservation.                                                       *)
LEMMA DisciplinedBacks ==
  ASSUME Disciplined
  PROVE  Spec => [](BackedInv /\ Exclusive)
<1>1. WebhookStatuses = {}
  BY DEF Disciplined
<1>2. /\ DbInit => BackedInv /\ OwnerInv
      /\ IInv /\ IInv' /\ SalesInv /\ FreshInv /\ AccountsInv /\ OrderInv /\ BackedInv /\ OwnerInv
           /\ [Next]_vars => BackedInv' /\ OwnerInv'
      /\ OrderInv /\ OwnerInv => Exclusive
  BY BackedInit, OwnerInit, BackedPreserved, OwnerPreserved, OwnersExclude
<1>3. Spec => []OrderInv
  BY <1>1, OrderInvariance
<1> QED  BY <1>2, <1>3, Invariance, SalesInvariance, FreshInvariance, AccountsInvariance, PTL DEF Spec

(* The reserved copies of a stock row are those of the active reservations *)
(* that hold it, when no two actors work on the same reservation: each     *)
(* client has one request in flight, ticks of the cron do not meet and     *)
(* reservations do not fall due under a running request.                   *)
THEOREM ReservedCopiesAreBacked ==
  ASSUME Disciplined
  PROVE  Spec => []ReservedIsBacked
<1>1. Spec => [](BackedInv /\ Exclusive)
  BY DisciplinedBacks
<1>2. BackedInv => ReservedIsBacked
  BY DEF BackedInv
<1> QED  BY <1>1, <1>2, PTL

LEMMA SettledStays ==
  ASSUME IInv, IInv', SalesInv, FreshInv, BackedInv, [Next]_vars,
         NEW r \in Reservations, reservation[r].status \in {"cancelled", "expired", "converted"}
  PROVE  reservation'[r].status = reservation[r].status
<1>1. \A h \in Handlers : Engaged(handler[h]) /\ Fresh(handler[h])
  BY DEF SalesInv, Sells, FreshInv
<1>2. reservation \in [Reservations -> ReservationRow]
  BY DEF IInv, TypeOK
<1>3. CASE Passes
  <2>1. \/ reservation'[r] = reservation[r]
        \/ reservation'[r] = [reservation[r] EXCEPT !.due = TRUE]
    BY <1>3 DEF Passes
  <2> QED  BY <1>2, <2>1 DEF ReservationRow
<1>4. ASSUME NEW h \in Handlers, Quiet(h) PROVE UNCHANGED reservation
  BY <1>4, Zenon DEF Quiet
<1>5. ASSUME NEW h \in Handlers, Allocates(h) PROVE reservation'[r] = reservation[r]
  <2>1. CASE CreateReservation(h)
    <3>1. PICK q \in Reservations :
            /\ reservation[q].status = "none"
            /\ \E row : reservation' = [reservation EXCEPT ![q] = row]
      BY <2>1 DEF CreateReservation
    <3>2. PICK row : reservation' = [reservation EXCEPT ![q] = row]
      BY <3>1
    <3> QED  BY <1>2, <3>1, <3>2
  <2> QED  BY <1>5, <2>1, Zenon DEF Allocates, StartReservation, AssertInventoryAvailability,
                ReadAllocation, AllocateRow, dbVars
<1>6. ASSUME NEW h \in Handlers, Ends(h) PROVE reservation'[r].status = reservation[r].status
  <2>1. CASE handler[h].pc \in Releasing
    <3>1. handler[h].res \in Touched(handler[h])
      BY <2>1 DEF Touched
    <3>2. handler[h].res # r
      BY <3>1, TouchedHere
    <3> QED  BY <1>2, <1>6, <3>2, EndsShape
  <2>2. CASE handler[h].pc \notin Releasing
    BY <1>6, <2>2 DEF Ends, StartCancel, StartExpireCron, ReadRelease, ReleaseRow, FinishCancel,
                      FinishExpire, Close, Releasing, dbVars
  <2> QED  BY <2>1, <2>2
<1>7. ASSUME NEW h \in Handlers, Takes(h) PROVE reservation'[r].status = reservation[r].status
  <2>1. CASE CommitPurchase(h)
    <3>1. handler[h].pc = "decrementInventory"
      BY <2>1 DEF CommitPurchase
    <3>2. \A q \in handler[h].convert : q \in {e.res : e \in handler[h].left}
      BY <3>1 DEF BackedInv, Backs, Consumes, Taking
    <3>3. Touched(handler[h]) = {e.res : e \in handler[h].left}
      BY <3>1 DEF Touched, ReadItems, Releasing, Taking
    <3>4. r \notin handler[h].convert
      BY <3>2, <3>3, TouchedHere, Zenon
    <3> QED  BY <2>1, <3>4, CommitRewrites
  <2>2. CASE ~CommitPurchase(h)
    <3>1. ~Throw(h) \/ UNCHANGED reservation
      BY ThrowIsQuiet DEF Quiet
    <3> QED  BY <1>7, <2>2, <3>1, Zenon DEF Takes, ReadReserved, ConsumeItem, RewriteItems, CreateRecord,
                  Goto, ReadInventory, DecrementInventory, dbVars
  <2> QED  BY <2>1, <2>2
<1> QED  BY <1>1, <1>3, <1>4, <1>5, <1>6, <1>7, StockCases

(* A reservation that was cancelled, expired or converted stays so, when   *)
(* requests do not overlap: none is cancelled, expired and sold at once,   *)
(* although none of the final writes looks at the status it replaces.      *)
THEOREM SettledReservationsStay ==
  ASSUME Disciplined
  PROVE  Spec => SettledStaysSettled
<1>1. Spec => [](BackedInv /\ Exclusive)
  BY DisciplinedBacks
<1>2. IInv /\ IInv' /\ SalesInv /\ FreshInv /\ BackedInv /\ [Next]_vars =>
        [\A r \in Reservations :
           reservation[r].status \in {"cancelled", "expired", "converted"}
             => reservation'[r].status = reservation[r].status]_reservation
  BY SettledStays
<1> QED  BY <1>1, <1>2, Invariance, SalesInvariance, FreshInvariance, PTL DEF Spec, SettledStaysSettled

-----------------------------------------------------------------------------
(* How far a stock row can be overdrawn.                                   *)

(* Where a handler takes copies from stock rows that it has read. *)
AtStock == {"allocateInventory", "decrementInventory"}

(* The copies of row w that a handler has read and not taken yet. *)
Pending(s, w) ==
  IF \E e \in s.todo : e.row = w
  THEN Smaller(s.need[w[1]], (CHOOSE e \in s.todo : e.row = w).cap)
  ELSE 0

(* The copies of row w that a handler will take from it, if its transaction*)
(* commits: those of its uncommitted writes and those still to be written. *)
Owes(s, d, w) == IF s.pc \in AtStock THEN Pending(s, w) - d[w].available ELSE 0

(* A handler takes the copies of one order, and gives back only those of a *)
(* reservation.                                                            *)
Claims(s, d) ==
  /\ s.pc \in Reserving \cup Taking => \A b \in Books : s.need[b] <= MaxCopies
  /\ s.pc = "assertInventoryAvailability" => s.todo = {}
  /\ s.pc \in AtStock =>
       /\ \A e, f \in s.todo : e.row = f.row => e = f
       /\ \A w \in Rows : d[w].available <= 0 /\ s.need[w[1]] - d[w].available <= MaxCopies
  /\ s.pc \in Taking \ AtStock => \A w \in Rows : d[w].available = 0
  /\ s.pc \in Releasing => \A w \in Rows : d[w].available >= 0

Debts(w) == [h \in Handlers |-> Owes(handler[h], delta[h], w)]

(* What is left of a row when every handler has taken what it has read.    *)
DebtsBounded ==
  \A w \in Rows : inventory[w].available - SumFunction(Debts(w)) >= -(StaleReaders * MaxCopies)

DebtInv == (\A h \in Handlers : Claims(handler[h], delta[h])) /\ DebtsBounded

(* Outside its transaction, and before it writes, a handler has no         *)
(* uncommitted writes.                                                     *)
NoWrites ==
  \A h \in Handlers : handler[h].pc \notin Reserving \cup Releasing \cup Taking => delta[h] = NoDelta

LEMMA NothingWritten == IInv /\ AccountsInv => NoWrites
BY DEF IInv, Coherent, InTransaction, AccountsInv, Accounted, NoWrites, Reserving, Releasing, Taking

LEMMA PendingRow ==
  ASSUME NEW s, NEW e \in s.todo, \A f, g \in s.todo : f.row = g.row => f = g
  PROVE  Pending(s, e.row) = Smaller(s.need[e.row[1]], e.cap)
BY DEF Pending

LEMMA PendingElsewhere ==
  ASSUME NEW s, NEW w, \A e \in s.todo : e.row # w
  PROVE  Pending(s, w) = 0
BY DEF Pending

(* The variables of a handler that works on stock rows. *)
Loops(s) == s.need \in [Books -> Nat] /\ s.todo \subseteq ItemEntry \cup StockEntry

LEMMA PendingType ==
  ASSUME NEW s, Loops(s), NEW w \in Rows
  PROVE  Pending(s, w) \in Nat /\ Pending(s, w) <= s.need[w[1]]
<1>1. w[1] \in Books
  BY DEF Rows
<1>2. CASE \E e \in s.todo : e.row = w
  <2> DEFINE e == CHOOSE f \in s.todo : f.row = w
  <2>1. e \in s.todo
    BY <1>2
  <2>2. e.cap \in Nat
    BY <2>1, EntryTypes DEF Loops
  <2>3. Pending(s, w) = Smaller(s.need[w[1]], e.cap)
    BY <1>2 DEF Pending
  <2> HIDE DEF e
  <2> QED  BY <1>1, <2>2, <2>3 DEF Smaller, Loops
<1>3. CASE ~\E e \in s.todo : e.row = w
  BY <1>1, <1>3 DEF Pending, Loops
<1> QED  BY <1>2, <1>3

(* What a handler owes of a row is at most one order's copies.             *)
LEMMA OwesType ==
  ASSUME NEW s, Loops(s), NEW d \in [Rows -> DeltaRow], Claims(s, d), MaxCopies \in Nat, NEW w \in Rows
  PROVE  /\ Owes(s, d, w) \in 0..MaxCopies
         /\ s.pc \in AtStock => Owes(s, d, w) >= -d[w].available
<1>1. w[1] \in Books /\ d[w].available \in Int
  BY DEF Rows, DeltaRow
<1>2. Pending(s, w) \in Nat /\ Pending(s, w) <= s.need[w[1]] /\ s.need[w[1]] \in Nat
  BY <1>1, PendingType DEF Loops
<1> QED  BY <1>1, <1>2 DEF Owes, Claims

(* A row of the loop is written: what was pending is owed as a write, and  *)
(* the rows that follow have no more to give than before.                  *)
LEMMA OwesRow ==
  ASSUME NEW s, Loops(s), NEW n, Loops(n), NEW d \in [Rows -> DeltaRow], NEW c \in [Rows -> DeltaRow],
         Claims(s, d), MaxCopies \in Nat, NEW e \in s.todo, s.pc \in AtStock, n.pc = s.pc,
         n.todo \subseteq s.todo \ {e},
         \A b \in Books : n.need[b] = IF b = e.row[1] THEN s.need[b] - Smaller(s.need[b], e.cap) ELSE s.need[b],
         c[e.row].available = d[e.row].available - Smaller(s.need[e.row[1]], e.cap),
         \A w \in Rows \ {e.row} : c[w] = d[w]
  PROVE  Claims(n, c) /\ \A w \in Rows : Owes(n, c, w) <= Owes(s, d, w)
<1> DEFINE take == Smaller(s.need[e.row[1]], e.cap)
<1>1. e.row \in Rows /\ e.row[1] \in Books /\ e.cap \in Nat
  BY EntryTypes DEF Loops
<1>2. take \in Nat /\ take <= s.need[e.row[1]]
  BY <1>1 DEF Smaller, Loops
<1>3. \A b \in Books : n.need[b] \in Nat /\ s.need[b] \in Nat /\ n.need[b] <= s.need[b]
  BY <1>1, <1>2 DEF Loops
<1>4. \A f, g \in s.todo : f.row = g.row => f = g
  BY DEF Claims
<1>5. \A f \in n.todo : f \in s.todo /\ f.row # e.row
  BY <1>4
<1>6. n.need[e.row[1]] = s.need[e.row[1]] - take
  BY <1>1
<1>7. c[e.row].available = d[e.row].available - take
  OBVIOUS
<1>8. \A w \in Rows : w[1] \in Books /\ d[w].available \in Int /\ c[w].available \in Int
  BY DEF Rows, DeltaRow
<1> HIDE DEF take
<1>9. ASSUME NEW w \in Rows
      PROVE  /\ c[w].available <= 0 /\ n.need[w[1]] - c[w].available <= MaxCopies
             /\ Owes(n, c, w) <= Owes(s, d, w)
  <2>1. /\ d[w].available <= 0 /\ s.need[w[1]] - d[w].available <= MaxCopies
        /\ s.need[w[1]] \in Nat /\ n.need[w[1]] \in Nat /\ n.need[w[1]] <= s.need[w[1]]
        /\ Owes(s, d, w) = Pending(s, w) - d[w].available
        /\ Owes(n, c, w) = Pending(n, w) - c[w].available
    BY <1>3, <1>8 DEF Claims, Owes
  <2>2. CASE w = e.row
    <3>1. Pending(s, w) = take
      BY <1>4, <2>2, PendingRow DEF take
    <3>2. Pending(n, w) = 0
      BY <1>5, <2>2, PendingElsewhere
    <3> QED  BY <1>2, <1>6, <1>7, <1>8, <2>1, <2>2, <3>1, <3>2
  <2>3. CASE w # e.row
    <3>1. c[w] = d[w]
      BY <2>3
    <3>2. Pending(n, w) <= Pending(s, w) /\ Pending(n, w) \in Nat /\ Pending(s, w) \in Nat
      <4>1. Pending(n, w) \in Nat /\ Pending(s, w) \in Nat
        BY PendingType
      <4>2. CASE \E f \in n.todo : f.row = w
        <5>1. PICK f \in n.todo : f.row = w
          BY <4>2
        <5>2. Pending(n, w) = Smaller(n.need[w[1]], f.cap)
          BY <1>4, <1>5, <5>1, PendingRow
        <5>3. Pending(s, w) = Smaller(s.need[w[1]], f.cap)
          BY <1>4, <1>5, <5>1, PendingRow
        <5>4. f.cap \in Nat
          BY EntryTypes DEF Loops
        <5> QED  BY <2>1, <5>2, <5>3, <5>4 DEF Smaller
      <4>3. CASE ~\E f \in n.todo : f.row = w
        <5>1. Pending(n, w) = 0
          BY <4>3, PendingElsewhere
        <5> QED  BY <4>1, <5>1
      <4> QED  BY <4>2, <4>3
    <3> QED  BY <1>8, <2>1, <3>1, <3>2
  <2> QED  BY <2>2, <2>3
<1>10. n.pc \in Reserving \cup Taking => s.pc \in Reserving \cup Taking
  OBVIOUS
<1>11. \A b \in Books : n.need[b] <= MaxCopies
  <2>1. s.pc \in Reserving \cup Taking
    BY DEF AtStock, Reserving, Taking
  <2>2. \A b \in Books : s.need[b] <= MaxCopies
    BY <2>1 DEF Claims
  <2> QED  BY <1>3, <2>2
<1>12. \A f, g \in n.todo : f.row = g.row => f = g
  BY <1>4, <1>5
<1>13. Claims(n, c)
  BY <1>9, <1>11, <1>12 DEF Claims, AtStock, Releasing
<1> QED  BY <1>9, <1>13

(* The rows are read: what the handler will take of a row stands in it.    *)
LEMMA OwesRead ==
  ASSUME IInv, NEW h \in Handlers, NEW n, Loops(n), n.pc \in AtStock, NEW rows \in SUBSET Rows,
         n.todo = {[res |-> NULL, row |-> w, cap |-> Available(h, w)] : w \in rows},
         NEW w \in Rows
  PROVE  \/ w \in rows /\ inventory[w].available >= Owes(n, delta[h], w)
         \/ Owes(n, delta[h], w) = -delta[h][w].available
<1>1. inventory[w].available \in Int /\ delta[h][w].available \in Int
  BY DEF IInv, TypeOK, InventoryRow, DeltaRow
<1>2. Owes(n, delta[h], w) = Pending(n, w) - delta[h][w].available
  BY DEF Owes
<1>3. CASE w \in rows
  <2> DEFINE e == [res |-> NULL, row |-> w, cap |-> Available(h, w)]
  <2>1. e \in n.todo /\ e.row = w /\ e.cap = Available(h, w)
    BY <1>3
  <2> HIDE DEF e
  <2>2. Pending(n, w) = Smaller(n.need[w[1]], Available(h, w))
    BY <2>1, PendingRow
  <2>3. n.need[w[1]] \in Nat /\ Available(h, w) \in Int
    BY <1>1 DEF Loops, Rows, Available
  <2>4. Pending(n, w) <= Available(h, w) /\ Pending(n, w) \in Int
    BY <2>2, <2>3 DEF Smaller
  <2> QED  BY <1>1, <1>2, <1>3, <2>4 DEF Available
<1>4. CASE w \notin rows
  <2>1. Pending(n, w) = 0
    BY <1>4, PendingElsewhere
  <2> QED  BY <1>1, <1>2, <2>1
<1> QED  BY <1>3, <1>4

(* A sum of numbers that are at most m.                                    *)
LEMMA SumOnAtMost ==
  ASSUME NEW S, IsFiniteSet(S), NEW m \in Nat, NEW f, \A x \in S : f[x] \in Int /\ f[x] <= m
  PROVE  SumFunctionOnSet(f, S) <= Cardinality(S) * m
<1> DEFINE C == {T \in SUBSET S : ~(SumFunctionOnSet(f, T) <= Cardinality(T) * m)}
<1> SUFFICES ASSUME C # {} PROVE FALSE
  OBVIOUS
<1>2. PICK T \in C : \A u \in C : ~(u \subseteq T /\ u # T)
  <2>1. C \subseteq SUBSET S
    OBVIOUS
  <2> HIDE DEF C
  <2> QED  BY <2>1, SmallestSubset
<1>3. IsFiniteSet(T) /\ Cardinality(T) \in Nat
  BY FS_Subset, FS_CardinalityType
<1>4. T # {}
  BY SumEmpty, FS_EmptySet
<1>5. Pick(T) \in T /\ Pick(T) \in S
  BY <1>4, PickIn
<1> DEFINE p == Pick(T)  u == T \ {p}  a == SumFunctionOnSet(f, u)  k == Cardinality(u)
<1>6. IsFiniteSet(u) /\ k = Cardinality(T) - 1 /\ u \subseteq S
  BY <1>3, <1>5, FS_RemoveElement
<1>7. a <= k * m
  BY <1>2, <1>5
<1>8. a \in Int /\ k \in Nat
  BY <1>6, SumType, FS_CardinalityType
<1>9. SumFunctionOnSet(f, T) = f[p] + a
  BY <1>3, <1>4, SumRecursion
<1>10. f[p] \in Int /\ f[p] <= m
  BY <1>5
<1>11. ~(SumFunctionOnSet(f, T) <= Cardinality(T) * m)
  OBVIOUS
<1>12. Cardinality(T) = k + 1
  BY <1>3, <1>6
<1> HIDE DEF a, p, k, u, C
<1>13. (k + 1) * m = k * m + m
  BY <1>8
<1>14. k * m \in Int
  BY <1>8
<1> QED  BY <1>7, <1>8, <1>9, <1>10, <1>11, <1>12, <1>13, <1>14

(* What the other handlers owe of a row.                                   *)
LEMMA OthersOwe ==
  ASSUME NEW S, IsFiniteSet(S), NEW m \in Nat, NEW f \in [S -> Int], \A x \in S : f[x] <= m, NEW x \in S
  PROVE  SumFunction(f) - f[x] <= (Cardinality(S) - 1) * m
<1>1. IsFiniteSet(S \ {x}) /\ Cardinality(S \ {x}) = Cardinality(S) - 1
  BY FS_RemoveElement
<1>2. SumFunctionOnSet(f, S) = f[x] + SumFunctionOnSet(f, S \ {x})
  BY SumRemove
<1>3. SumFunctionOnSet(f, S \ {x}) <= Cardinality(S \ {x}) * m
  BY <1>1, SumOnAtMost
<1>4. SumFunctionOnSet(f, S \ {x}) \in Int
  BY <1>1, SumType
<1>5. SumFunction(f) = SumFunctionOnSet(f, S)
  BY DEF SumFunction
<1> QED  BY <1>1, <1>2, <1>3, <1>4, <1>5

LEMMA DebtTypes ==
  IInv /\ (\A h \in Handlers : Claims(handler[h], delta[h]))
    => /\ MaxCopies \in Nat
       /\ \A h \in Handlers : Loops(handler[h]) /\ delta[h] \in [Rows -> DeltaRow]
       /\ \A w \in Rows : Debts(w) \in [Handlers -> 0..MaxCopies] /\ inventory[w].available \in Int
<1> SUFFICES ASSUME IInv, \A h \in Handlers : Claims(handler[h], delta[h])
             PROVE  /\ MaxCopies \in Nat
                    /\ \A h \in Handlers : Loops(handler[h]) /\ delta[h] \in [Rows -> DeltaRow]
                    /\ \A w \in Rows : /\ Debts(w) \in [Handlers -> 0..MaxCopies]
                                       /\ inventory[w].available \in Int
  OBVIOUS
<1>1. MaxCopies \in Nat
  BY BoundsAreNaturals
<1>2. \A h \in Handlers : Loops(handler[h]) /\ delta[h] \in [Rows -> DeltaRow]
  BY FieldTypes DEF Loops, IInv, TypeOK
<1>3. \A w \in Rows : inventory[w].available \in Int
  BY DEF IInv, TypeOK, InventoryRow
<1>4. \A w \in Rows, h \in Handlers : Owes(handler[h], delta[h], w) \in 0..MaxCopies
  BY <1>1, <1>2, OwesType
<1> QED  BY <1>1, <1>2, <1>3, <1>4 DEF Debts

(* A step of one handler keeps the bound if it takes no more of a row than *)
(* it owed, or finds in the row what it will take.                         *)
LEMMA DebtStep ==
  ASSUME IsFiniteSet(Handlers), IInv, IInv', DebtInv, NEW h \in Handlers, Only(h),
         Claims(handler'[h], delta'[h]),
         \A w \in Rows :
           \/ inventory'[w].available - Owes(handler'[h], delta'[h], w)
                >= inventory[w].available - Owes(handler[h], delta[h], w)
           \/ inventory'[w].available >= Owes(handler'[h], delta'[h], w)
  PROVE  DebtInv'
<1>1. \A g \in Handlers : Claims(handler[g], delta[g])
  BY DEF DebtInv
<1>2. \A g \in Handlers : Claims(handler'[g], delta'[g])
  BY <1>1 DEF Only
<1>3. /\ MaxCopies \in Nat
      /\ \A w \in Rows : Debts(w) \in [Handlers -> 0..MaxCopies] /\ inventory[w].available \in Int
  BY <1>1, DebtTypes
<1>4. \A w \in Rows : Debts(w)' \in [Handlers -> 0..MaxCopies] /\ inventory'[w].available \in Int
  <2>1. /\ \A g \in Handlers : Loops(handler'[g]) /\ delta'[g] \in [Rows -> DeltaRow]
        /\ \A w \in Rows : inventory'[w].available \in Int
    BY DEF IInv, TypeOK, HandlerState, Loops, InventoryRow
  <2>2. \A w \in Rows, g \in Handlers : Owes(handler'[g], delta'[g], w) \in 0..MaxCopies
    BY <1>2, <1>3, <2>1, OwesType
  <2> QED  BY <2>1, <2>2 DEF Debts
<1>5. ASSUME NEW w \in Rows
      PROVE  inventory'[w].available - SumFunction(Debts(w)') >= -(StaleReaders * MaxCopies)
  <2> DEFINE f == Debts(w)  g == Debts(w)'  a == inventory[w].available  b == inventory'[w].available
             bound == StaleReaders * MaxCopies
  <2>1. /\ f \in [Handlers -> Int] /\ g \in [Handlers -> Int] /\ a \in Int /\ b \in Int
        /\ \A x \in Handlers : g[x] <= MaxCopies
    BY <1>3, <1>4
  <2>2. f[h] = Owes(handler[h], delta[h], w) /\ g[h] = Owes(handler'[h], delta'[h], w)
    BY DEF Debts
  <2>3. \A x \in Handlers \ {h} : f[x] = g[x]
    BY DEF Debts, Only
  <2>4. a - SumFunction(f) >= -bound
    BY DEF DebtInv, DebtsBounded
  <2>5. bound \in Int /\ (Cardinality(Handlers) - 1) * MaxCopies <= bound
    <3> DEFINE k == Cardinality(Handlers)
    <3>1. k \in Nat /\ (StaleReaders = k \/ StaleReaders = k - 1)
      BY FS_CardinalityType DEF StaleReaders
    <3> HIDE DEF k
    <3>2. (k - 1) * MaxCopies = k * MaxCopies - MaxCopies /\ k * MaxCopies \in Int
      BY <1>3, <3>1
    <3> QED  BY <1>3, <3>1, <3>2 DEF k
  <2>6. SumFunction(f) \in Int /\ SumFunction(g) \in Int
    BY <2>1, SumFunctionType
  <2>7. b - g[h] >= a - f[h] \/ b >= g[h]
    BY <2>2
  <2> HIDE DEF f, g, a, b, bound
  <2>8. CASE b - g[h] >= a - f[h]
    <3>1. SumFunction(g) = SumFunction(f) + (g[h] - f[h])
      BY <2>1, <2>3, SumChange
    <3>2. f[h] \in Int /\ g[h] \in Int
      BY <2>1
    <3>3. b - SumFunction(g) >= -bound
      BY <2>1, <2>4, <2>5, <2>6, <2>8, <3>1, <3>2
    <3> QED  BY <3>3 DEF g, b, bound
  <2>9. CASE b >= g[h]
    <3>1. SumFunction(g) - g[h] <= (Cardinality(Handlers) - 1) * MaxCopies
      BY <1>3, <2>1, OthersOwe
    <3>2. g[h] \in Int
      BY <2>1
    <3>3. (Cardinality(Handlers) - 1) * MaxCopies \in Int
      BY <1>3, FS_CardinalityType
    <3>4. b - SumFunction(g) >= -bound
      BY <2>1, <2>5, <2>6, <2>9, <3>1, <3>2, <3>3
    <3> QED  BY <3>4 DEF g, b, bound
  <2> QED  BY <2>7, <2>8, <2>9
<1>6. StaleReaders' = StaleReaders
  BY DEF StaleReaders
<1> QED  BY <1>2, <1>5, <1>6 DEF DebtInv, DebtsBounded

(* A transaction that commits takes what it owed.                          *)
LEMMA CommitOwes ==
  ASSUME IInv, NEW h \in Handlers, Claims(handler[h], delta[h]), CommitInventory(h),
         handler[h].pc \in AtStock \cup Releasing, handler'[h].pc \notin AtStock, NEW w \in Rows
  PROVE  inventory'[w].available - Owes(handler'[h], delta'[h], w)
           >= inventory[w].available - Owes(handler[h], delta[h], w)
<1>1. inventory[w].available \in Int /\ delta[h][w].available \in Int /\ delta[h] \in [Rows -> DeltaRow]
  BY DEF IInv, TypeOK, InventoryRow, DeltaRow
<1>2. inventory'[w].available = inventory[w].available + delta[h][w].available
  BY DEF CommitInventory, Available
<1>3. Owes(handler'[h], delta'[h], w) = 0
  BY DEF Owes
<1>4. Loops(handler[h]) /\ MaxCopies \in Nat
  BY FieldTypes, BoundsAreNaturals DEF Loops
<1>5. CASE handler[h].pc \in AtStock
  <2>1. Owes(handler[h], delta[h], w) \in Int /\ Owes(handler[h], delta[h], w) >= -delta[h][w].available
    BY <1>1, <1>4, <1>5, OwesType
  <2> QED  BY <1>1, <1>2, <1>3, <2>1
<1>6. CASE handler[h].pc \in Releasing
  <2>1. Owes(handler[h], delta[h], w) = 0 /\ delta[h][w].available >= 0
    BY <1>6 DEF Owes, AtStock, Releasing, Claims
  <2> QED  BY <1>1, <1>2, <1>3, <2>1
<1> QED  BY <1>5, <1>6

(* A step of h that changes no stock row, and after which h takes from     *)
(* none, owes no more than before.                                         *)
LEMMA OwesNothing ==
  ASSUME IInv, NEW h \in Handlers, Claims(handler[h], delta[h]), UNCHANGED inventory,
         handler'[h].pc \notin AtStock, NEW w \in Rows
  PROVE  inventory'[w].available - Owes(handler'[h], delta'[h], w)
           >= inventory[w].available - Owes(handler[h], delta[h], w)
<1>1. Loops(handler[h]) /\ MaxCopies \in Nat /\ delta[h] \in [Rows -> DeltaRow]
  BY FieldTypes, BoundsAreNaturals DEF Loops, IInv, TypeOK
<1>2. Owes(handler[h], delta[h], w) \in Nat
  BY <1>1, OwesType
<1>3. Owes(handler'[h], delta'[h], w) = 0
  BY DEF Owes
<1>4. inventory[w].available \in Int
  BY DEF IInv, TypeOK, InventoryRow
<1> QED  BY <1>2, <1>3, <1>4

LEMMA IdleClaims ==
  ASSUME NEW s, s.pc \notin Reserving \cup Taking, MaxCopies \in Nat
  PROVE  Claims(s, NoDelta)
BY DEF Claims, NoDelta, Reserving, Taking, AtStock

(* What a step of h may do to the debts: see DebtStep. *)
KeepsDebts(h) ==
  /\ Claims(handler'[h], delta'[h])
  /\ \A w \in Rows :
       \/ inventory'[w].available - Owes(handler'[h], delta'[h], w)
            >= inventory[w].available - Owes(handler[h], delta[h], w)
       \/ inventory'[w].available >= Owes(handler'[h], delta'[h], w)

(* A row of a loop over stock rows is written.                             *)
LEMMA LoopDebts ==
  ASSUME IInv, IInv', DebtInv, NEW h \in Handlers, NEW e \in handler[h].todo, handler[h].pc \in AtStock,
         NEW take, take = Smaller(handler[h].need[e.row[1]], e.cap), NEW r, NEW sold,
         UpdateInventory(h, e.row, -take, r, sold), UNCHANGED inventory,
         handler'[h].pc = handler[h].pc, handler'[h].todo \subseteq handler[h].todo \ {e},
         handler'[h].need = [handler[h].need EXCEPT ![e.row[1]] = handler[h].need[e.row[1]] - take]
  PROVE  KeepsDebts(h)
<1> DEFINE s == handler[h]  n == handler'[h]  d == delta[h]  c == delta'[h]
<1>1. /\ Claims(s, d) /\ d \in [Rows -> DeltaRow] /\ delta \in [Handlers -> [Rows -> DeltaRow]]
      /\ MaxCopies \in Nat /\ Loops(s) /\ s \in HandlerState
  BY FieldTypes, BoundsAreNaturals DEF IInv, TypeOK, DebtInv, Loops
<1>2. Loops(n) /\ c \in [Rows -> DeltaRow]
  BY DEF IInv, TypeOK, HandlerState, Loops
<1>3. e.row \in Rows /\ e.row[1] \in Books /\ e.cap \in Nat
  BY <1>1, EntryTypes DEF Loops
<1>4. take \in Nat
  BY <1>1, <1>3, SmallerType DEF Loops
<1>5. c[e.row].available = d[e.row].available - take /\ \A w \in Rows \ {e.row} : c[w] = d[w]
  <2>1. c[e.row].available = d[e.row].available + -take /\ \A w \in Rows \ {e.row} : c[w] = d[w]
    BY <1>1, <1>3 DEF UpdateInventory
  <2>2. d[e.row].available \in Int
    BY <1>1, <1>3 DEF DeltaRow
  <2> QED  BY <1>4, <2>1, <2>2
<1>6. \A b \in Books : n.need[b] = IF b = e.row[1] THEN s.need[b] - Smaller(s.need[b], e.cap) ELSE s.need[b]
  BY <1>1, <1>3 DEF Loops
<1>7. \A w \in Rows : inventory[w].available \in Int
  BY DEF IInv, TypeOK, InventoryRow
<1> HIDE DEF s, n, d, c
<1>8. Claims(n, c) /\ \A w \in Rows : Owes(n, c, w) <= Owes(s, d, w)
  BY <1>1, <1>2, <1>5, <1>6, OwesRow DEF s, n
<1>9. \A w \in Rows : Owes(n, c, w) \in Int /\ Owes(s, d, w) \in Int
  BY <1>1, <1>2, <1>8, OwesType
<1>10. ASSUME NEW w \in Rows
       PROVE  inventory'[w].available - Owes(n, c, w) >= inventory[w].available - Owes(s, d, w)
  BY <1>7, <1>8, <1>9
<1> QED  BY <1>8, <1>10 DEF KeepsDebts, s, n, d, c

LEMMA AllocatesDebts ==
  ASSUME IInv, IInv', AccountsInv, DebtInv, NEW h \in Handlers, Allocates(h)
  PROVE  KeepsDebts(h)
<1> DEFINE s == handler[h]  n == handler'[h]
<1>1. /\ handler \in [Handlers -> HandlerState] /\ Claims(s, delta[h])
      /\ delta[h] \in [Rows -> DeltaRow] /\ delta \in [Handlers -> [Rows -> DeltaRow]]
      /\ MaxCopies \in Nat /\ Loops(s)
  BY FieldTypes, BoundsAreNaturals DEF IInv, TypeOK, DebtInv, Loops
<1>2. Loops(n) /\ delta'[h] \in [Rows -> DeltaRow] /\ handler'[h] \in HandlerState
  BY DEF IInv, TypeOK, HandlerState, Loops
<1>3. \A w \in Rows : inventory[w].available \in Int /\ delta[h][w].available \in Int
  BY DEF IInv, TypeOK, InventoryRow, DeltaRow
<1>4. ASSUME NEW c \in Clients, NEW want \in ReserveOrders, StartReservation(h, c, want)
      PROVE  KeepsDebts(h)
  <2>1. /\ n.pc = "assertInventoryAvailability" /\ n.todo = {} /\ n.need = want
        /\ UNCHANGED <<inventory, delta>>
    BY <1>1, <1>4 DEF StartReservation, IdleHandler, dbVars
  <2>2. \A b \in Books : want[b] <= MaxCopies
    <3>1. \A b \in Books : want[b] \in Nat /\ HeldCopies(c, b) \in Nat
      BY HeldType, BoundsAreNaturals
    <3>2. \A b \in Books : HeldCopies(c, b) + want[b] <= MaxCopies
      BY <1>4 DEF StartReservation, WithinLimits
    <3> QED  BY <1>1, <3>1, <3>2
  <2>3. Claims(n, delta'[h])
    BY <2>1, <2>2 DEF Claims, AtStock, Taking, Releasing
  <2>4. n.pc \notin AtStock
    BY <2>1 DEF AtStock
  <2> QED  BY <1>1, <2>1, <2>3, <2>4, OwesNothing DEF KeepsDebts
<1>5. ASSUME AssertInventoryAvailability(h), n.pc = "allocateInventory" PROVE KeepsDebts(h)
  <2>1. s.pc = "assertInventoryAvailability" /\ UNCHANGED <<inventory, delta>>
    BY <1>5 DEF AssertInventoryAvailability, dbVars
  <2>2. n = [s EXCEPT !.pc = "allocateInventory"]
    BY <1>1, <1>5 DEF AssertInventoryAvailability, IdleHandler
  <2>3. n.todo = {} /\ n.need = s.need /\ \A b \in Books : s.need[b] <= MaxCopies
    BY <1>1, <2>1, <2>2 DEF HandlerState, Claims, Reserving
  <2>4. delta[h] = NoDelta
    BY <2>1, FieldTypes DEF Coherent, InTransaction
  <2>5. \A w \in Rows : w[1] \in Books /\ delta[h][w].available = 0
    BY <2>4 DEF NoDelta, Rows
  <2>6. Claims(n, delta'[h])
    <3>1. \A w \in Rows : n.need[w[1]] - delta'[h][w].available <= MaxCopies
      BY <1>1, <2>1, <2>3, <2>5 DEF Loops
    <3> QED  BY <1>5, <2>1, <2>3, <2>5, <3>1 DEF Claims, AtStock, Releasing, Taking
  <2>7. \A w \in Rows : Owes(n, delta'[h], w) = 0 /\ Owes(s, delta[h], w) = 0
    <3>1. \A w \in Rows : Pending(n, w) = 0
      BY <2>3 DEF Pending
    <3> QED  BY <1>5, <2>1, <2>5, <3>1 DEF Owes, AtStock
  <2> QED  BY <1>3, <2>1, <2>6, <2>7 DEF KeepsDebts
<1>6. ASSUME ReadAllocation(h) PROVE KeepsDebts(h)
  <2>1. PICK b \in Books :
          /\ handler' = [handler EXCEPT ![h].todo =
               {[res |-> NULL, row |-> w, cap |-> Available(h, w)] :
                  w \in {x \in {b} \X Stores : Available(h, x) > 0}}]
          /\ s.pc = "allocateInventory" /\ s.todo = {} /\ UNCHANGED <<inventory, delta>>
    BY <1>6 DEF ReadAllocation, dbVars
  <2> DEFINE rows == {x \in {b} \X Stores : Available(h, x) > 0}
  <2>2. /\ n.pc = s.pc /\ n.need = s.need /\ rows \in SUBSET Rows
        /\ n.todo = {[res |-> NULL, row |-> w, cap |-> Available(h, w)] : w \in rows}
    BY <1>1, <2>1 DEF HandlerState, Rows
  <2> HIDE DEF n, rows
  <2>3. \A e, f \in n.todo : e.row = f.row => e = f
    BY <2>2
  <2>4. s.pc \in AtStock /\ s.pc \in Reserving
    BY <2>1 DEF AtStock, Reserving
  <2>5. Claims(n, delta'[h])
    BY <1>1, <2>1, <2>2, <2>3, <2>4 DEF Claims, Releasing
  <2>6. \A w \in Rows : Owes(s, delta[h], w) = -delta[h][w].available
    <3>1. \A w \in Rows : Pending(s, w) = 0
      BY <2>1 DEF Pending
    <3> QED  BY <1>3, <2>4, <3>1 DEF Owes
  <2>7. \A w \in Rows : \/ inventory[w].available >= Owes(n, delta[h], w)
                        \/ Owes(n, delta[h], w) = -delta[h][w].available
    BY <1>2, <2>2, <2>4, OwesRead DEF n
  <2>8. delta'[h] = delta[h] /\ inventory' = inventory
    BY <2>1
  <2>9. \A w \in Rows :
          \/ inventory'[w].available - Owes(n, delta'[h], w)
               >= inventory[w].available - Owes(s, delta[h], w)
          \/ inventory'[w].available >= Owes(n, delta'[h], w)
    BY <1>3, <2>6, <2>7, <2>8
  <2> QED  BY <2>5, <2>9 DEF KeepsDebts, n
<1>7. ASSUME AllocateRow(h) PROVE KeepsDebts(h)
  <2>1. PICK e \in s.todo :
          LET b == e.row[1]
              take == Smaller(s.need[b], e.cap)
          IN  /\ s.pc = "allocateInventory"
              /\ UpdateInventory(h, e.row, -take, take, 0)
              /\ handler' = [handler EXCEPT
                   ![h].need[b] = s.need[b] - take,
                   ![h].todo = IF s.need[b] - take = 0 THEN {} ELSE @ \ {e}]
              /\ UNCHANGED dbVars
    BY <1>7, Zenon DEF AllocateRow
  <2> DEFINE take == Smaller(s.need[e.row[1]], e.cap)
  <2>2. /\ n.pc = s.pc /\ n.todo \subseteq s.todo \ {e} /\ s.pc \in AtStock
        /\ n.need = [s.need EXCEPT ![e.row[1]] = s.need[e.row[1]] - take]
    BY <1>1, <2>1 DEF HandlerState, AtStock
  <2>3. UpdateInventory(h, e.row, -take, take, 0) /\ UNCHANGED inventory
    BY <2>1 DEF dbVars
  <2>4. take \in Nat
    BY <1>1, EntryTypes DEF Loops, Smaller
  <2> HIDE DEF n, take
  <2> QED  BY <1>1, <2>2, <2>3, <2>4, LoopDebts DEF n, take
<1>8. ASSUME CreateReservation(h) PROVE KeepsDebts(h)
  <2>1. CommitInventory(h) /\ n = IdleHandler /\ s.pc = "allocateInventory"
    BY <1>1, <1>8 DEF CreateReservation
  <2>2. n.pc \notin Reserving \cup Taking /\ n.pc \notin AtStock /\ s.pc \in AtStock
    BY <2>1 DEF IdleHandler, Reserving, Taking, AtStock
  <2>3. delta'[h] = NoDelta
    BY <1>1, <2>1 DEF CommitInventory
  <2> QED  BY <1>1, <2>1, <2>2, <2>3, CommitOwes, IdleClaims DEF KeepsDebts
<1> QED  BY <1>4, <1>5, <1>6, <1>7, <1>8 DEF Allocates

LEMMA EndsDebts ==
  ASSUME IInv, IInv', AccountsInv, DebtInv, NEW h \in Handlers, Ends(h)
  PROVE  KeepsDebts(h)
<1> DEFINE s == handler[h]  n == handler'[h]
<1>1. /\ Claims(s, delta[h]) /\ MaxCopies \in Nat
      /\ delta \in [Handlers -> [Rows -> DeltaRow]]
      /\ \A w \in Rows : inventory[w].available \in Int /\ delta[h][w].available \in Int
  BY BoundsAreNaturals DEF IInv, TypeOK, DebtInv, InventoryRow, DeltaRow
<1>2. n.pc \in Releasing \cup {"idle"}
  BY EndsShape
<1>3. n.pc \notin Reserving \cup Taking /\ n.pc \notin AtStock
  BY <1>2 DEF Releasing, Reserving, Taking, AtStock
<1>4. ASSUME \A w \in Rows : delta'[h][w].available >= 0 PROVE Claims(n, delta'[h])
  BY <1>3, <1>4 DEF Claims, Reserving
<1>5. ASSUME delta'[h] = NoDelta PROVE Claims(n, delta'[h])
  BY <1>1, <1>3, <1>5, IdleClaims
<1>6. ASSUME NEW c \in Clients, NEW r \in Reservations, StartCancel(h, c, r) PROVE KeepsDebts(h)
  <2>1. s.pc = "idle" /\ UNCHANGED <<inventory, delta>>
    BY <1>6 DEF StartCancel, MayStart, dbVars
  <2>2. delta'[h] = NoDelta
    BY <2>1, FieldTypes DEF Coherent, InTransaction
  <2> QED  BY <1>1, <1>3, <1>5, <2>1, <2>2, OwesNothing DEF KeepsDebts
<1>7. ASSUME StartExpireCron(h) PROVE KeepsDebts(h)
  <2>1. s.pc = "idle" /\ UNCHANGED <<inventory, delta>>
    BY <1>7 DEF StartExpireCron, MayStart, dbVars
  <2>2. delta'[h] = NoDelta
    BY <2>1, FieldTypes DEF Coherent, InTransaction
  <2> QED  BY <1>1, <1>3, <1>5, <2>1, <2>2, OwesNothing DEF KeepsDebts
<1>8. ASSUME s.pc \in Releasing PROVE \A w \in Rows : delta[h][w].available >= 0
  BY <1>1, <1>8 DEF Claims
<1>9. ASSUME ReadRelease(h) PROVE KeepsDebts(h)
  <2>1. s.pc \in Releasing /\ UNCHANGED <<inventory, delta>>
    BY <1>9 DEF ReadRelease, Releasing, dbVars
  <2>2. Claims(n, delta'[h])
    BY <1>4, <1>8, <2>1
  <2> QED  BY <1>1, <1>3, <2>1, <2>2, OwesNothing DEF KeepsDebts
<1>10. ASSUME ReleaseRow(h) PROVE KeepsDebts(h)
  <2>1. PICK e \in s.todo :
          s.pc = "releaseRow" /\ UpdateInventory(h, e.row, e.cap, -e.cap, 0) /\ UNCHANGED inventory
    BY <1>10 DEF ReleaseRow, dbVars
  <2>2. e.row \in Rows /\ e.cap \in Nat
    BY FieldTypes, EntryTypes
  <2>3. \A w \in Rows : delta[h][w].available >= 0
    BY <1>8, <2>1 DEF Releasing
  <2>4. /\ delta'[h][e.row].available = delta[h][e.row].available + e.cap
        /\ \A w \in Rows \ {e.row} : delta'[h][w] = delta[h][w]
    BY <1>1, <2>1, <2>2 DEF UpdateInventory
  <2>5. \A w \in Rows : delta'[h][w].available >= 0
    BY <1>1, <2>2, <2>3, <2>4
  <2> QED  BY <1>1, <1>3, <1>4, <2>1, <2>5, OwesNothing DEF KeepsDebts
<1>11. ASSUME CommitInventory(h), s.pc \in Releasing PROVE KeepsDebts(h)
  <2>1. delta'[h] = NoDelta
    BY <1>1, <1>11 DEF CommitInventory
  <2> QED  BY <1>1, <1>3, <1>5, <1>11, <2>1, CommitOwes DEF KeepsDebts
<1>12. FinishCancel(h) \/ FinishExpire(h) => CommitInventory(h) /\ s.pc \in Releasing
  BY DEF FinishCancel, FinishExpire, Close, Releasing
<1>13. ASSUME SkipExpired(h) PROVE KeepsDebts(h)
  <2>1. delta'[h] = NoDelta /\ UNCHANGED inventory
    BY <1>1, <1>13 DEF SkipExpired, DiscardInventory, dbVars
  <2> QED  BY <1>1, <1>3, <1>5, <2>1, OwesNothing DEF KeepsDebts
<1> QED  BY <1>6, <1>7, <1>9, <1>10, <1>11, <1>12, <1>13 DEF Ends

LEMMA TakesDebts ==
  ASSUME IInv, IInv', AccountsInv, DebtInv, NEW h \in Handlers, Takes(h),
         handler[h].pc \in Buying => handler[h].actor \in Clients
  PROVE  KeepsDebts(h)
<1> DEFINE s == handler[h]  n == handler'[h]
<1>1. /\ handler \in [Handlers -> HandlerState] /\ Claims(s, delta[h]) /\ MaxCopies \in Nat
      /\ delta \in [Handlers -> [Rows -> DeltaRow]] /\ Loops(s) /\ s \in HandlerState
      /\ \A w \in Rows : inventory[w].available \in Int /\ delta[h][w].available \in Int
  BY FieldTypes, BoundsAreNaturals DEF IInv, TypeOK, DebtInv, InventoryRow, DeltaRow, Loops
<1>2. ASSUME n.pc \in Taking \ AtStock, \A b \in Books : n.need[b] <= MaxCopies,
             \A w \in Rows : delta'[h][w].available = 0, UNCHANGED inventory
      PROVE  KeepsDebts(h)
  <2>1. Claims(n, delta'[h])
    BY <1>2 DEF Claims, Taking, AtStock, Releasing, Reserving
  <2> QED  BY <1>1, <1>2, <2>1, OwesNothing DEF KeepsDebts
<1>3. ASSUME ReadReserved(h) PROVE KeepsDebts(h)
  <2>1. s.pc = "readReserved" /\ n.pc = "consumeReserved" /\ n.need = s.want /\ UNCHANGED <<inventory, delta>>
    BY <1>1, <1>3, SMTT(30) DEF ReadReserved, HandlerState, dbVars
  <2>2. delta[h] = NoDelta
    BY <2>1, NothingWritten DEF NoWrites, Reserving, Releasing, Taking
  <2>3. s.want \in [Books -> 0..MaxCopies]
    BY <2>1, FieldTypes DEF Coherent
  <2>4. \A w \in Rows : delta'[h][w].available = 0
    BY <2>1, <2>2 DEF NoDelta
  <2>5. \A b \in Books : n.need[b] <= MaxCopies
    BY <1>1, <2>1, <2>3
  <2> QED  BY <1>2, <2>1, <2>4, <2>5 DEF Taking, AtStock
<1>4. ASSUME ConsumeItem(h) PROVE KeepsDebts(h)
  <2>1. PICK e \in s.todo :
          LET b == e.row[1]
              take == Smaller(s.need[b], e.cap)
          IN  /\ s.pc = "consumeReserved"
              /\ UpdateInventory(h, e.row, 0, -take, take)
              /\ handler' = [handler EXCEPT
                   ![h].need[b] = s.need[b] - take,
                   ![h].left = @ \cup {[e EXCEPT !.cap = @ - take]},
                   ![h].todo = {f \in @ \ {e} : f.row[1] = b => s.need[b] - take > 0}]
              /\ UNCHANGED dbVars
    BY <1>4, Zenon DEF ConsumeItem
  <2> DEFINE take == Smaller(s.need[e.row[1]], e.cap)
  <2>2. /\ n.pc = "consumeReserved"
        /\ n.need = [s.need EXCEPT ![e.row[1]] = s.need[e.row[1]] - take]
    BY <1>1, <2>1 DEF HandlerState
  <2>3. e.row \in Rows /\ e.row[1] \in Books /\ e.cap \in Nat
    BY FieldTypes, EntryTypes
  <2>4. take \in Nat
    BY <1>1, <2>3, SmallerType DEF Loops
  <2>5. UpdateInventory(h, e.row, 0, -take, take) /\ UNCHANGED inventory
    BY <2>1 DEF dbVars
  <2>6. (\A w \in Rows : delta[h][w].available = 0) /\ (\A b \in Books : s.need[b] <= MaxCopies)
    BY <1>1, <2>1 DEF Claims, Taking, AtStock
  <2> HIDE DEF take
  <2>7. \A w \in Rows : delta'[h][w].available = 0
    BY <1>1, <2>3, <2>5, <2>6 DEF UpdateInventory
  <2>8. \A b \in Books : n.need[b] <= MaxCopies
    BY <1>1, <2>2, <2>3, <2>4, <2>6 DEF Loops
  <2> QED  BY <1>2, <2>2, <2>5, <2>7, <2>8 DEF Taking, AtStock
<1>5. ASSUME UNCHANGED <<inventory, delta>>, s.pc \in Taking \ AtStock, n.pc \in Taking \ AtStock,
             n.need = s.need
      PROVE  KeepsDebts(h)
  BY <1>1, <1>2, <1>5 DEF Claims
<1>6. ASSUME RewriteItems(h), n.pc = "createRecord" PROVE KeepsDebts(h)
  <2>1. ~Throw(h)
    BY <1>6, ThrowIsQuiet DEF Quiet, Taking
  <2>2. UNCHANGED <<inventory, delta>> /\ s.pc = "consumeReserved" /\ n.need = s.need
    BY <1>1, <1>6, <2>1 DEF RewriteItems, HandlerState, dbVars
  <2> QED  BY <1>5, <1>6, <2>2 DEF Taking, AtStock
<1>7. ASSUME CreateRecord(h), n.pc = "readInventory" PROVE KeepsDebts(h)
  <2>1. ~Throw(h)
    BY <1>7, ThrowIsQuiet DEF Quiet, Taking
  <2>2. UNCHANGED <<inventory, delta>> /\ s.pc = "createRecord" /\ n.need = s.need
    BY <1>1, <1>7, <2>1 DEF CreateRecord, Goto, HandlerState, dbVars
  <2> QED  BY <1>5, <1>7, <2>2 DEF Taking, AtStock
<1>8. ASSUME ReadInventory(h) PROVE KeepsDebts(h)
  <2> DEFINE rows == StockRows(h, s.need)
  <2>1. /\ s.pc = "readInventory" /\ n.pc = "decrementInventory" /\ UNCHANGED <<inventory, delta>>
        /\ n.todo = {[res |-> NULL, row |-> w, cap |-> Available(h, w)] : w \in rows}
        /\ n.need = s.need /\ n \in HandlerState
    BY <1>1, <1>8 DEF ReadInventory, HandlerState, dbVars, IInv, TypeOK
  <2>2. Loops(n)
    BY <2>1 DEF HandlerState, Loops
  <2>3. rows \in SUBSET Rows
    BY DEF StockRows
  <2> HIDE DEF n, rows
  <2>4. (\A w \in Rows : delta[h][w].available = 0) /\ (\A b \in Books : s.need[b] <= MaxCopies)
    BY <1>1, <2>1 DEF Claims, Taking, AtStock
  <2>5. \A e, f \in n.todo : e.row = f.row => e = f
    BY <2>1
  <2>6. Claims(n, delta'[h])
    <3>1. \A w \in Rows : n.need[w[1]] - delta'[h][w].available <= MaxCopies
      <4>1. \A w \in Rows : w[1] \in Books
        BY DEF Rows
      <4> QED  BY <1>1, <2>1, <2>4, <4>1 DEF Loops
    <3> QED  BY <2>1, <2>4, <2>5, <3>1 DEF Claims, AtStock, Releasing, Reserving, Taking
  <2>7. \A w \in Rows : Owes(s, delta[h], w) = 0
    BY <2>1 DEF Owes, AtStock
  <2>8. \A w \in Rows : inventory[w].available >= Owes(n, delta[h], w)
                        \/ Owes(n, delta[h], w) = -delta[h][w].available
    BY <2>1, <2>2, <2>3, OwesRead DEF AtStock
  <2>9. delta'[h] = delta[h] /\ inventory' = inventory
    BY <2>1
  <2>10. \A w \in Rows :
          \/ inventory'[w].available - Owes(n, delta'[h], w)
               >= inventory[w].available - Owes(s, delta[h], w)
          \/ inventory'[w].available >= Owes(n, delta'[h], w)
    BY <1>1, <2>4, <2>7, <2>8, <2>9
  <2> QED  BY <2>6, <2>10 DEF KeepsDebts, n
<1>9. ASSUME DecrementInventory(h) PROVE KeepsDebts(h)
  <2>1. PICK e \in s.todo :
          LET b == e.row[1]
              take == Smaller(s.need[b], e.cap)
          IN  /\ s.pc = "decrementInventory"
              /\ UpdateInventory(h, e.row, -take, 0, take)
              /\ handler' = [handler EXCEPT
                   ![h].need[b] = s.need[b] - take,
                   ![h].todo = {f \in @ \ {e} : f.row[1] = b => s.need[b] - take > 0}]
              /\ UNCHANGED dbVars
    BY <1>9, Zenon DEF DecrementInventory
  <2> DEFINE take == Smaller(s.need[e.row[1]], e.cap)
  <2>2. /\ n.pc = s.pc /\ n.todo \subseteq s.todo \ {e} /\ s.pc \in AtStock
        /\ n.need = [s.need EXCEPT ![e.row[1]] = s.need[e.row[1]] - take]
    BY <1>1, <2>1 DEF HandlerState, AtStock
  <2>3. UpdateInventory(h, e.row, -take, 0, take) /\ UNCHANGED inventory
    BY <2>1 DEF dbVars
  <2> HIDE DEF n, take
  <2> QED  BY <2>2, <2>3, LoopDebts DEF n, take
<1>10. ASSUME CommitPurchase(h) PROVE KeepsDebts(h)
  <2>1. s.pc = "decrementInventory" /\ CommitInventory(h)
    BY <1>10 DEF CommitPurchase
  <2>2. PICK p : n = Completed(s, p)
    BY <1>10, <2>1, CommitShape DEF Buying
  <2>3. n.pc \notin Reserving \cup Taking /\ n.pc \notin AtStock /\ s.pc \in AtStock
    BY <2>1, <2>2 DEF Completed, IdleHandler, Reserving, Taking, AtStock
  <2>4. delta'[h] = NoDelta
    BY <1>1, <2>1 DEF CommitInventory
  <2> QED  BY <1>1, <2>1, <2>3, <2>4, CommitOwes, IdleClaims DEF KeepsDebts
<1> QED  BY <1>3, <1>4, <1>6, <1>7, <1>8, <1>9, <1>10 DEF Takes

LEMMA DebtPreserved ==
  ASSUME IsFiniteSet(Handlers), IInv, IInv', SalesInv, FreshInv, AccountsInv, AccountsInv', DebtInv,
         [Next]_vars
  PROVE  DebtInv'
<1>1. /\ \A h \in Handlers : Engaged(handler[h]) /\ Fresh(handler[h])
      /\ \A h \in Handlers : handler[h].pc \in Buying => handler[h].actor \in Clients
  BY DEF SalesInv, Sells, Engaged, FreshInv
<1>2. /\ MaxCopies \in Nat
      /\ \A w \in Rows : Debts(w) \in [Handlers -> 0..MaxCopies] /\ inventory[w].available \in Int
  BY DebtTypes DEF DebtInv
<1>3. CASE Passes
  <2>1. UNCHANGED <<handler, delta>>
    BY <1>3 DEF Passes
  <2>2. \A h \in Handlers : Claims(handler'[h], delta'[h])
    BY <2>1 DEF DebtInv
  <2>3. \A w \in Rows : Debts(w)' = Debts(w)
    BY <2>1 DEF Debts
  <2>4. StaleReaders' = StaleReaders
    BY DEF StaleReaders
  <2>5. ASSUME NEW w \in Rows
        PROVE  inventory'[w].available - SumFunction(Debts(w)) >= -(StaleReaders * MaxCopies)
    <3>1. CASE inventory'[w].available = inventory[w].available
      BY <3>1 DEF DebtInv, DebtsBounded
    <3>2. CASE Stocks # {} /\ inventory'[w].available >= 0
      <4> DEFINE f == Debts(w)
      <4>1. SumFunctionOnSet(f, Handlers) <= Cardinality(Handlers) * MaxCopies
        <5>1. \A h \in Handlers : f[h] \in Int /\ f[h] <= MaxCopies
          BY <1>2
        <5> HIDE DEF f
        <5> QED  BY <1>2, <5>1, SumOnAtMost
      <4>2. SumFunction(f) = SumFunctionOnSet(f, Handlers)
        BY DEF SumFunction, Debts
      <4>3. SumFunction(f) \in Int
        <5>1. f \in [Handlers -> Int]
          BY <1>2
        <5> QED  BY <5>1, SumFunctionType
      <4>4. StaleReaders = Cardinality(Handlers) /\ Cardinality(Handlers) * MaxCopies \in Int
        BY <1>2, <3>2, FS_CardinalityType DEF StaleReaders
      <4>5. inventory'[w].available \in Int
        BY DEF IInv, TypeOK, InventoryRow
      <4> HIDE DEF f
      <4>6. inventory'[w].available - SumFunction(f) >= -(StaleReaders * MaxCopies)
        BY <3>2, <4>1, <4>2, <4>3, <4>4, <4>5
      <4> QED  BY <4>6 DEF f
    <3> QED  BY <1>3, <3>1, <3>2 DEF Passes
  <2> QED  BY <2>2, <2>3, <2>4, <2>5 DEF DebtInv, DebtsBounded
<1>4. ASSUME NEW h \in Handlers, Only(h), KeepsDebts(h) PROVE DebtInv'
  BY <1>4, DebtStep DEF KeepsDebts
<1>5. ASSUME NEW h \in Handlers, Quiet(h) PROVE KeepsDebts(h)
  <2>1. NoWrites'
    BY NothingWritten, PTL
  <2>2. delta'[h] = NoDelta /\ UNCHANGED inventory
    BY <1>5, <2>1 DEF Quiet, NoWrites
  <2>3. handler'[h].pc \notin Reserving \cup Taking /\ handler'[h].pc \notin AtStock
    BY <1>5 DEF Quiet, AtStock, Reserving, Taking
  <2>4. Claims(handler[h], delta[h])
    BY DEF DebtInv
  <2> QED  BY <1>2, <2>2, <2>3, <2>4, IdleClaims, OwesNothing DEF KeepsDebts
<1>6. ASSUME NEW h \in Handlers, Only(h), Quiet(h) \/ Allocates(h) \/ Ends(h) \/ Takes(h) PROVE DebtInv'
  BY <1>1, <1>4, <1>5, <1>6, AllocatesDebts, EndsDebts, TakesDebts
<1> QED  BY <1>1, <1>3, <1>6, StockCases

LEMMA DebtInit ==
  ASSUME IsFiniteSet(Handlers), Handlers # {}, DbInit
  PROVE  DebtInv
<1>1. MaxCopies \in Nat /\ \A w \in Rows : inventory[w].available \in Nat
  BY BoundsAreNaturals DEF DbInit
<1>2. ASSUME NEW h \in Handlers
      PROVE  Claims(handler[h], delta[h]) /\ \A w \in Rows : Owes(handler[h], delta[h], w) = 0
  <2>1. handler[h].pc = "idle" /\ delta[h] = NoDelta
    BY DEF DbInit, IdleHandler
  <2> QED  BY <1>1, <2>1, IdleClaims DEF Owes, AtStock, Reserving, Taking
<1>3. \A w \in Rows : SumFunction(Debts(w)) = 0
  <2>1. \A w \in Rows : Debts(w) = [h \in Handlers |-> 0]
    BY <1>2 DEF Debts
  <2> QED  BY <2>1, SumZero
<1>4. StaleReaders \in Nat
  BY FS_CardinalityType, FS_EmptySet DEF StaleReaders
<1>5. StaleReaders * MaxCopies \in Nat
  BY <1>1, <1>4
<1>6. \A w \in Rows : inventory[w].available - SumFunction(Debts(w)) >= -(StaleReaders * MaxCopies)
  BY <1>1, <1>3, <1>5
<1> QED  BY <1>2, <1>6 DEF DebtInv, DebtsBounded

(* However requests, webhooks and the cron overlap, fail and die, a stock  *)
(* row is overdrawn by no more than one order of each of the other handlers*)
(* that may have read it: at most all of them where an admin writes the row*)
(* between the reading and the taking, and all but one where none does.    *)
THEOREM OversellStaysBounded ==
  ASSUME IsFiniteSet(Handlers), Handlers # {}
  PROVE  Spec => []OversellIsBounded
<1>1. /\ DbInit => DebtInv
      /\ IInv /\ IInv' /\ SalesInv /\ FreshInv /\ AccountsInv /\ AccountsInv' /\ DebtInv /\ [Next]_vars
           => DebtInv'
  BY DebtInit, DebtPreserved
<1>2. ASSUME IInv, DebtInv, NEW w \in Rows PROVE inventory[w].available >= -(StaleReaders * MaxCopies)
  <2>1. /\ Debts(w) \in [Handlers -> Nat] /\ inventory[w].available \in Int /\ MaxCopies \in Nat
    BY <1>2, DebtTypes DEF DebtInv
  <2>2. SumFunction(Debts(w)) \in Nat
    BY <2>1, SumNat
  <2>3. inventory[w].available - SumFunction(Debts(w)) >= -(StaleReaders * MaxCopies)
    BY <1>2 DEF DebtInv, DebtsBounded
  <2>4. StaleReaders * MaxCopies \in Int
    BY <2>1, FS_CardinalityType DEF StaleReaders
  <2> QED  BY <2>1, <2>2, <2>3, <2>4
<1>3. IInv /\ DebtInv => OversellIsBounded
  BY <1>2 DEF OversellIsBounded
<1> QED  BY <1>1, <1>3, Invariance, SalesInvariance, FreshInvariance, AccountsInvariance, PTL DEF Spec
=============================================================================
