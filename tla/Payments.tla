------------------------------ MODULE Payments ------------------------------
(***************************************************************************)
(* payments.service.ts: a client starts a payment for the contents of its  *)
(* cart, and the gateway reports what became of it with webhooks, which    *)
(* may be late, repeated, out of order, or lost.  An approved payment      *)
(* makes the purchase.                                                     *)
(***************************************************************************)
EXTENDS Purchases

CONSTANT WebhookStatuses   \* the statuses the gateway may report

ASSUME WebhookStatusesAreStatuses == WebhookStatuses \subseteq AttemptStatus \ {"none"}

(* The amount the client pays: the discount is taken off a total that was  *)
(* rounded to cents.                                                       *)
PaymentAmount(items, voucherCode) ==
  ToCents(ToCents(TotalAmount(items, NULL)) * 100 * PercentLeft(voucherCode))

-----------------------------------------------------------------------------
(* initiatePayment: the cart's items are read whatever the cart's status,  *)
(* the voucher is checked, and an attempt is stored with a snapshot of the *)
(* items.                                                                  *)
InitiatePayment(h, c, dto) ==
  \E a \in Attempts :
    LET v == dto.voucherCode
    IN
    /\ MayStart(h, c)
    /\ cart[c].items # NoBooks
    /\ v # NULL => VoucherIsValid(v, c)
    /\ attempt[a].status = "none"
    /\ \A b \in Attempts : attempt[b].status = "none" => a <= b
    /\ attempt' = [attempt EXCEPT ![a] =
         [status |-> "pending", client |-> c, items |-> cart[c].items,
          dto |-> [dto EXCEPT !.pickupStoreId =
                     IF dto.deliveryMode = "storePickup" THEN @ ELSE NULL],
          amount |-> PaymentAmount(cart[c].items, v),
          referenced |-> FALSE, purchaseId |-> NULL]]
    /\ handler' = [handler EXCEPT ![h] =
         [IdleHandler EXCEPT !.pc = "createCheckoutSession", !.actor = c,
                             !.attempt = a]]
    /\ UNCHANGED <<inventory, reservation, cart, wallet, ledger, voucher,
                   purchase, shelf, added, delta, locks>>

(* The one column of an attempt a handler changes besides its status.      *)
WriteAttempt(h, row, next) ==
  /\ attempt' = [attempt EXCEPT ![handler[h].attempt] = row]
  /\ handler' = [handler EXCEPT ![h] = next]
  /\ UNCHANGED <<inventory, reservation, cart, wallet, ledger, voucher,
                 purchase, shelf, added, delta, locks>>

(* The gateway's session is open: only now can a webhook find the attempt. *)
StoreReference(h) ==
  /\ handler[h].pc = "createCheckoutSession"
  /\ WriteAttempt(h, [attempt[handler[h].attempt] EXCEPT !.referenced = TRUE],
                  IdleHandler)

(* The gateway refused or could not be reached. *)
FailSession(h) ==
  /\ handler[h].pc = "createCheckoutSession"
  /\ WriteAttempt(h, [attempt[handler[h].attempt] EXCEPT !.status = "failed"],
                  IdleHandler)

-----------------------------------------------------------------------------
(* handleWebhook.  A webhook for an attempt that is already settled is     *)
(* acknowledged and changes nothing.                                       *)
ReceiveWebhook(h, a, status) ==
  /\ handler[h].pc = "idle"
  /\ attempt[a].referenced
  /\ PurchaseIdLeft
  /\ attempt[a].status \in {"pending", "processing"}
  /\ handler' = [handler EXCEPT ![h] =
       [IdleHandler EXCEPT
          !.pc = IF status = "approved" THEN "claim" ELSE "overwrite",
          !.actor = attempt[a].client, !.attempt = a, !.webhook = status]]
  /\ UNCHANGED <<dbVars, delta, locks>>

MapWebhookStatus(status) ==
  IF status \in {"approved", "pending", "cancelled", "expired"} THEN status ELSE "failed"

(* A webhook that does not approve writes its status over whatever the     *)
(* attempt's status has become since it was read.                          *)
OverwriteStatus(h) ==
  /\ handler[h].pc = "overwrite"
  /\ WriteAttempt(h, [attempt[handler[h].attempt] EXCEPT
                        !.status = MapWebhookStatus(handler[h].webhook)],
                  IdleHandler)

(* Mutant: the claim does not look at the status it replaces.              *)
MayClaimAgain(a) == attempt[a].status \in {"pending", "processing"}

(* updateMany where the status is still pending: one webhook wins.         *)
MayClaim(a) == attempt[a].status = "pending"

Claim(h) ==
  LET a == handler[h].attempt
  IN
  /\ handler[h].pc = "claim"
  /\ MayClaim(a)
  /\ WriteAttempt(h, [attempt[a] EXCEPT !.status = "processing"],
                  [handler[h] EXCEPT !.pc = "recheckCart", !.dto = attempt[a].dto,
                                     !.want = attempt[a].items])

LoseClaim(h) ==
  /\ handler[h].pc = "claim"
  /\ ~MayClaim(handler[h].attempt)
  /\ handler' = [handler EXCEPT ![h] = IdleHandler]
  /\ UNCHANGED <<dbVars, delta, locks>>

(* The purchase is committed; the attempt learns of it in a write of its   *)
(* own.                                                                    *)
Approve(h) ==
  /\ handler[h].pc = "approve"
  /\ WriteAttempt(h, [attempt[handler[h].attempt] EXCEPT
                        !.status = "approved", !.purchaseId = handler[h].purchaseId],
                  IdleHandler)

(* The catch block: the purchase, or the write that approves, threw.       *)
FailAttempt(h) ==
  /\ handler[h].pc = "fail"
  /\ WriteAttempt(h, [attempt[handler[h].attempt] EXCEPT !.status = "failed"],
                  IdleHandler)

PaymentRequest(h) ==
  \/ \E c \in Clients, dto \in PurchaseDtos : InitiatePayment(h, c, dto)
  \/ \E a \in Attempts, status \in WebhookStatuses : ReceiveWebhook(h, a, status)

PaymentStep(h) ==
  \/ StoreReference(h)
  \/ FailSession(h)
  \/ OverwriteStatus(h)
  \/ Claim(h)
  \/ LoseClaim(h)
  \/ Approve(h)
  \/ FailAttempt(h)
=============================================================================
