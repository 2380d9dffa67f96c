---------------------------- MODULE MCStorefront ----------------------------
(***************************************************************************)
(* Small instances of Storefront for TLC.                                  *)
(***************************************************************************)
EXTENDS Storefront, TLC

CONSTANTS c1, c2, v1

AllRows(n) == [w \in Rows |-> n]
AllBooks(n) == [b \in Books |-> n]
AllCarts(n) == [c \in Clients |-> AllBooks(n)]

OneEach == AllRows(1)
TwoEach == AllRows(2)
OneAndTwo == [w \in Rows |-> w[2]]   \* as many copies as the number of the store
CartOfOne == AllCarts(1)
CartOfTwo == AllCarts(2)
RoundPrice == AllBooks(100)
OddPrice == AllBooks(1250)   \* taxes and discounts that are not whole cents

OrderOne == {[b \in Books |-> 1]}
OrderLast == {[b \in Books |-> IF \E other \in Books : other > b THEN 0 ELSE 1]}
OrderUpToTwo == [Books -> 0..2] \ {NoBooks}

Body(mode, store, waitlist, v) ==
  [deliveryMode |-> mode, pickupStoreId |-> store,
   allowWaitlistPickup |-> waitlist, voucherCode |-> v]
Home == {Body("homeDelivery", NULL, FALSE, NULL)}
Pickup == {Body("storePickup", 1, FALSE, NULL)}
PickupOrWait == {Body("storePickup", 1, TRUE, NULL)}
HomeOrPickup == Home \cup PickupOrWait
HomeWithVoucher == {Body("homeDelivery", NULL, FALSE, v1)}
HomeOrVoucher == Home \cup HomeWithVoucher

Symmetry == Permutations(Clients) \cup Permutations(Handlers)
=============================================================================
