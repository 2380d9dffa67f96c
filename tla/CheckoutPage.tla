---------------------------- MODULE CheckoutPage ----------------------------
(***************************************************************************)
(* The checkout in the browser (client/src/pages/CheckoutPage.tsx): four   *)
(* steps, the stores a cart can be picked up in, and the order.            *)
(*                                                                         *)
(* What the page awaits, the stores, the geocoder that knows the address   *)
(* and the order, is answered in a later action, while the client goes on  *)
(* clicking.  A click works on the values of the rendering it was made in. *)
(* The shop behind the page is external: it sells the whole cart of its    *)
(* client and empties it.                                                  *)
(***************************************************************************)
EXTENDS Integers, FiniteSets

CONSTANTS
  Stores,    \* storeIds
  MaxCart,   \* bound: versions of the cart; 0 is the empty one
  Clicks,    \* clicks that may be awaiting an answer at the same time
  NULL

ASSUME CheckoutPageConstants ==
  /\ MaxCart \in Nat \ {0}
  /\ NULL \notin Stores

VARIABLES
  page,      \* the state hooks of the page
  cart,      \* the cart the page shows
  loads,     \* stores being loaded: for which cart, and whether cancelled
  click,     \* the clicks that await an answer
  shopCart   \* external: the client's cart in the shop

vars == <<page, cart, loads, click, shopCart>>

Cover == {"absent", "part", "full"}   \* how much of the cart a store has

(* The stores shown, with the cart they were loaded for (history).         *)
Options == [cart: 0..MaxCart, has: [Stores -> Cover]]
NoOptions == [cart |-> 0, has |-> [s \in Stores |-> "absent"]]

Page == [step: 1..4, mode: {"homeDelivery", "storePickup"},
         registered: BOOLEAN,      \* useRegisteredAddress
         store: Stores \cup {NULL}, wait: BOOLEAN,  \* pickupFallbackChoice
         options: Options, loading: BOOLEAN,
         submitting: BOOLEAN, error: BOOLEAN]

(* The body of an order; and what the page said of its store, whether that *)
(* was for the cart on it, and whether other stores were on their way      *)
(* (history).                                                              *)
Order == [mode: {"homeDelivery", "storePickup"}, store: Stores \cup {NULL},
          waitlist: BOOLEAN, said: Cover, current: BOOLEAN, loading: BOOLEAN]

NoOrder == [mode |-> "homeDelivery", store |-> NULL, waitlist |-> FALSE,
            said |-> "absent", current |-> FALSE, loading |-> FALSE]

Idle == [stage |-> "idle", order |-> NoOrder]

(* "toPayment" and "address" wait for the geocoder, "order" for the shop,  *)
(* which has "sold" or "refused".                                          *)
Click == [stage: {"idle", "toPayment", "address", "order", "sold", "refused"},
          order: Order]

Init ==
  /\ page = [step |-> 1, mode |-> "homeDelivery",
             registered |-> FALSE, store |-> NULL, wait |-> FALSE,
             options |-> NoOptions, loading |-> FALSE,
             submitting |-> FALSE, error |-> FALSE]
  /\ cart = 1 /\ shopCart = 1
  /\ loads = {}
  /\ click = [k \in Clicks |-> Idle]

(* Below the last step a page with an empty cart shows nothing but that.   *)
Shows(step) == page.step = step /\ (cart # 0 \/ step = 4)

-----------------------------------------------------------------------------
(* The stores for a pickup. *)

(* The effect of the page on [deliveryMode, requiredByBook]: running loads *)
(* are cancelled; a pickup starts one for the cart, everything else clears *)
(* what is shown.                                                          *)
LoadPickupStores(p, forCart) ==
  LET needed == p.mode = "storePickup" /\ forCart # 0
      stale == {[l EXCEPT !.cancelled = TRUE] : l \in loads}
  IN  /\ loads' = stale \cup (IF needed THEN {[cart |-> forCart, cancelled |-> FALSE]} ELSE {})
      /\ page' = IF needed THEN [p EXCEPT !.loading = TRUE]
                 ELSE [p EXCEPT !.loading = FALSE, !.options = NoOptions]

(* After a change of the page: the effect runs if its inputs have changed; *)
(* a cart that is loaded again is a new one even if nothing in it is.      *)
Rerender(p, loadCart) ==
  /\ cart' = IF loadCart THEN shopCart ELSE cart
  /\ IF p.mode # page.mode \/ loadCart THEN LoadPickupStores(p, cart')
     ELSE page' = p /\ UNCHANGED loads

Set(p) == Rerender(p, FALSE)

(* Mutant: a load that was cancelled is answered like any other.           *)
NeverCancelled(l) == FALSE

IsCancelled(l) == l.cancelled

(* Mutant: the choice is kept whatever the stores have now.                *)
KeptAnyway(store, has) == store

(* A chosen store that is no longer among the stores is dropped.           *)
KeptChoice(store, has) ==
  IF store = NULL \/ has[store] = "absent" THEN NULL ELSE store

(* buildPickupStoreOptions sums up what the stores have.                   *)
StoresAnswered(l) ==
  /\ l \in loads
  /\ loads' = loads \ {l}
  /\ \/ /\ IsCancelled(l) /\ UNCHANGED page
     \/ /\ ~IsCancelled(l)
        /\ \E has \in [Stores -> Cover] :
             page' = [page EXCEPT !.options = [cart |-> l.cart, has |-> has],
                        !.store = KeptChoice(@, has),
                        !.loading = FALSE]
     \/ /\ ~IsCancelled(l)   \* the request failed
        /\ page' = [page EXCEPT !.options = NoOptions, !.store = NULL, !.loading = FALSE]
  /\ UNCHANGED <<cart, click, shopCart>>

-----------------------------------------------------------------------------
(* Clicks that are done at once. *)

(* Another tab changes the cart in the shop, or empties it; the page hears *)
(* of it when it loads the cart again.  (Bound: an empty cart stays empty.)*)
CartChanges ==
  /\ shopCart # 0
  /\ shopCart' \in {0} \cup (shopCart + 1)..MaxCart
  /\ UNCHANGED <<page, cart, loads, click>>

LoadCart ==
  /\ Rerender(page, TRUE)
  /\ UNCHANGED <<click, shopCart>>

(* useGeolocation finds the client outside of Colombia, where there is no  *)
(* pickup, and may find it back inside at any time.                        *)
LeaveColombia ==
  /\ page.mode = "storePickup"
  /\ Set([page EXCEPT !.mode = "homeDelivery"])
  /\ UNCHANGED <<click, shopCart>>

ChangeStep ==
  \/ Shows(1) /\ Set([page EXCEPT !.step = 2])
  \/ Shows(2) /\ Set([page EXCEPT !.step = 1])
  \/ Shows(3) /\ Set([page EXCEPT !.step = 2])

ChangeDeliveryMode(mode) ==
  /\ Shows(2)
  /\ Set([page EXCEPT !.mode = mode, !.wait = FALSE,
            !.store = IF mode = "homeDelivery" THEN NULL ELSE @,
            !.registered = mode = "homeDelivery" \/ @])

ToggleRegisteredAddress ==
  /\ Shows(2) /\ page.mode = "homeDelivery"
  /\ Set([page EXCEPT !.registered = ~@])

SelectStore(s) ==
  /\ Shows(2) /\ page.mode = "storePickup" /\ ~page.loading
  /\ page.options.has[s] # "absent"
  /\ Set([page EXCEPT !.store = IF @ = s THEN NULL ELSE s, !.wait = FALSE])

(* A store that has not all of the cart offers to wait for it.             *)
ToggleWait ==
  /\ Shows(2) /\ page.mode = "storePickup" /\ ~page.loading
  /\ page.store # NULL /\ page.options.has[page.store] = "part"
  /\ Set([page EXCEPT !.wait = ~@])

(* Another way to pay puts the error away.                                 *)
ClearError ==
  /\ page.error
  /\ Set([page EXCEPT !.error = FALSE])

Interact ==
  /\ \/ ChangeStep \/ ToggleRegisteredAddress \/ ToggleWait \/ ClearError
     \/ \E mode \in {"homeDelivery", "storePickup"} : ChangeDeliveryMode(mode)
     \/ \E s \in Stores : SelectStore(s)
  /\ UNCHANGED <<click, shopCart>>

-----------------------------------------------------------------------------
(* The way to the payment and the order. *)

(* validatePickupStep: a store is chosen that has everything, or the client*)
(* waits for it.  A choice that is no longer among the stores shown is not *)
(* looked at again.                                                        *)
PickupIsValid ==
  /\ page.store # NULL
  /\ page.options.has[page.store] = "part" => page.wait

DeliveryIsValid == page.mode = "storePickup" => PickupIsValid

(* validateAddressStep asks the geocoder for any but the registered        *)
(* address.                                                                *)
AsksGeocoder == page.mode = "homeDelivery" /\ ~page.registered

(* goToPaymentStep. *)
GoToPayment(k) ==
  /\ Shows(2) /\ click[k] = Idle
  /\ IF AsksGeocoder
     THEN click' = [click EXCEPT ![k].stage = "toPayment"] /\ UNCHANGED <<page, cart, loads>>
     ELSE DeliveryIsValid /\ Set([page EXCEPT !.step = 3]) /\ UNCHANGED click
  /\ UNCHANGED <<shopCart>>

AddressChecked(k) ==
  /\ click[k].stage = "toPayment"
  /\ \E valid \in BOOLEAN : Set([page EXCEPT !.step = IF valid THEN 3 ELSE @])
  /\ click' = [click EXCEPT ![k] = Idle]
  /\ UNCHANGED <<shopCart>>

OrderOnScreen ==
  LET pickup == page.mode = "storePickup"
      said == IF ~pickup \/ page.store = NULL THEN "absent" ELSE page.options.has[page.store]
  IN  [mode |-> page.mode, store |-> IF pickup THEN page.store ELSE NULL,
       waitlist |-> pickup /\ page.wait /\ said # "full", said |-> said,
       current |-> page.options.cart = cart, loading |-> page.loading]

(* submitPurchase: the delivery is validated again, as it is now.  The     *)
(* button is dead once the order is under way, but not while the address is*)
(* looked up.                                                              *)
SubmitPurchase(k) ==
  /\ Shows(3) /\ ~page.submitting /\ ~page.error /\ click[k] = Idle
  /\ DeliveryIsValid
  /\ click' = [click EXCEPT ![k] =
       [stage |-> IF AsksGeocoder THEN "address" ELSE "order", order |-> OrderOnScreen]]
  /\ Set([page EXCEPT !.submitting = ~AsksGeocoder])
  /\ UNCHANGED <<shopCart>>

AddressFound(k) ==
  /\ click[k].stage = "address"
  /\ \E valid \in BOOLEAN :
       /\ click' = [click EXCEPT ![k] = IF valid THEN [@ EXCEPT !.stage = "order"] ELSE Idle]
       /\ Set([page EXCEPT !.submitting = valid \/ @])
  /\ UNCHANGED <<shopCart>>

(* External: the shop sells what is in the cart, or refuses.               *)
ShopAnswers(k) ==
  /\ click[k].stage = "order"
  /\ \/ /\ shopCart # 0
        /\ shopCart' = 0
        /\ click' = [click EXCEPT ![k] = [Idle EXCEPT !.stage = "sold"]]
     \/ /\ click' = [click EXCEPT ![k] = [Idle EXCEPT !.stage = "refused"]]
        /\ UNCHANGED shopCart
  /\ UNCHANGED <<page, cart, loads>>

(* Mutant: the button comes back to life only after a success.             *)
StaysSubmitting(answered) == ~answered

NoLongerSubmitting(answered) == FALSE

(* The page shows the purchase and loads the cart; or the error of a       *)
(* refusal, or of an answer that was lost.                                 *)
PurchaseAnswered(k) ==
  /\ click[k].stage \in {"sold", "refused"}
  /\ click' = [click EXCEPT ![k] = Idle]
  /\ \/ /\ click[k].stage = "sold"
        /\ Rerender([page EXCEPT !.step = 4, !.submitting = NoLongerSubmitting(TRUE)], TRUE)
     \/ Set([page EXCEPT !.error = TRUE, !.submitting = NoLongerSubmitting(FALSE)])
  /\ UNCHANGED <<shopCart>>

Answer(k) ==
  AddressChecked(k) \/ AddressFound(k) \/ ShopAnswers(k) \/ PurchaseAnswered(k)

Next ==
  \/ CartChanges \/ LoadCart \/ LeaveColombia \/ Interact
  \/ \E l \in loads : StoresAnswered(l)
  \/ \E k \in Clicks : GoToPayment(k) \/ SubmitPurchase(k) \/ Answer(k)

Spec == Init /\ [][Next]_vars

(* Every request is answered or fails.                                     *)
FairSpec == Spec /\ \A k \in Clicks : WF_vars(Answer(k))

-----------------------------------------------------------------------------
(* Properties *)

TypeOK ==
  /\ page \in Page
  /\ cart \in 0..MaxCart /\ shopCart \in 0..MaxCart
  /\ loads \in SUBSET [cart: 0..MaxCart, cancelled: BOOLEAN]
  /\ click \in [Clicks -> Click]

(* The stores on the page are those for the cart on the page, however late *)
(* and in whatever order the answers come while the client changes the     *)
(* cart and the way of delivery.                                           *)
StoresAreForTheCart ==
  ~page.loading /\ page.options # NoOptions =>
    page.mode = "storePickup" /\ page.options.cart = cart

(* A pickup is ordered from a store that, as the page knows it for the cart*)
(* it shows, has everything, or has a part and the client waits for the    *)
(* rest: though the choice made before survives a new cart, other stores   *)
(* and the way to and from the payment.  Only an order made while stores   *)
(* are being loaded may rest on the ones shown before, and name a store    *)
(* that they say nothing of; what they do say is heeded even then.         *)
OrdersCanBeDelivered ==
  \A k \in Clicks :
    LET o == click[k].order IN
    click[k].stage = "order" /\ o.mode = "storePickup" =>
      /\ o.store # NULL
      /\ o.said # "absent" => o.waitlist = (o.said = "part")
      /\ ~o.loading => o.current /\ o.said # "absent"

(* The page is not left dead: an order that is under way comes to an end.  *)
SubmissionsEnd == page.submitting ~> ~page.submitting
=============================================================================
