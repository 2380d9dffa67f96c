------------------------------- MODULE Wallet -------------------------------
(***************************************************************************)
(* wallet.service.ts: the balance of a client's wallet and the ledger of   *)
(* its movements.  Services compute amounts exactly, here in               *)
(* ten-thousandths of a cent; the columns hold cents.                      *)
(***************************************************************************)
EXTENDS StoreDb

CONSTANTS TopUpAmounts,  \* amounts clients recharge, in cents
          MaxMovements   \* bound: no more recharges once a ledger is this long

ASSUME TopUpsArePositive == TopUpAmounts \subseteq Nat \ {0} /\ MaxMovements \in Nat

Exact(cents) == 10000 * cents

(* What a Decimal(10, 2) column keeps of an amount: halves are rounded away*)
(* from zero.                                                              *)
ToCents(amount) ==
  IF amount >= 0 THEN (amount + 5000) \div 10000 ELSE -((5000 - amount) \div 10000)

(* Mutant: the movement does not name its purchase.                        *)
RecordMovementUnlinked(c, type, amount, purchaseId, gatewayReference) ==
  LET next == ToCents(IF type = "payment" THEN Exact(wallet[c]) - amount
                      ELSE Exact(wallet[c]) + amount)
  IN  /\ wallet' = [wallet EXCEPT ![c] = next]
      /\ ledger' = [ledger EXCEPT ![c] =
           Append(@, [type |-> type, amount |-> ToCents(amount), balanceAfter |-> next,
                      purchaseId |-> NULL, gatewayReference |-> gatewayReference])]

(* Mutant: the ledger keeps the balance read before the update.            *)
RecordMovementStale(c, type, amount, purchaseId, gatewayReference) ==
  LET next == ToCents(IF type = "payment" THEN Exact(wallet[c]) - amount
                      ELSE Exact(wallet[c]) + amount)
  IN  /\ wallet' = [wallet EXCEPT ![c] = next]
      /\ ledger' = [ledger EXCEPT ![c] =
           Append(@, [type |-> type, amount |-> ToCents(amount),
                      balanceAfter |-> wallet[c], purchaseId |-> purchaseId,
                      gatewayReference |-> gatewayReference])]

(* recordMovement: the balance moves relatively, under the lock of the     *)
(* client's row, and the new row of the ledger keeps the amount and the    *)
(* balance the update returned, each rounded on its own.                   *)
RecordMovement(c, type, amount, purchaseId, gatewayReference) ==
  LET next == ToCents(IF type = "payment" THEN Exact(wallet[c]) - amount
                      ELSE Exact(wallet[c]) + amount)
  IN  /\ amount > 0
      /\ wallet' = [wallet EXCEPT ![c] = next]
      /\ ledger' = [ledger EXCEPT ![c] =
           Append(@, [type |-> type, amount |-> ToCents(amount), balanceAfter |-> next,
                      purchaseId |-> purchaseId,
                      gatewayReference |-> gatewayReference])]

(* topUpWallet and topUpWalletWithCard: one transaction, one movement.     *)
TopUp(c, cents) ==
  /\ Len(ledger[c]) < MaxMovements
  /\ RecordMovement(c, "topUp", Exact(cents), NULL, NULL)
  /\ UNCHANGED <<inventory, reservation, cart, voucher, purchase, attempt,
                 shelf, added, handler, delta, locks>>
=============================================================================
