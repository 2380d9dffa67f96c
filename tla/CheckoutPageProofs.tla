------------------------- MODULE CheckoutPageProofs -------------------------
(***************************************************************************)
(* Proofs that the checkout shows the stores of the cart it shows, and     *)
(* that what it orders can be delivered, for any number of stores, of      *)
(* versions of the cart and of clicks under way.                           *)
(***************************************************************************)
EXTENDS CheckoutPage, TLAPS

(* A load that will be answered is the one for what the page shows now;    *)
(* without a pickup no stores are shown.                                   *)
LoadsAreForTheCart ==
  /\ \A l \in loads : ~l.cancelled =>
       page.loading /\ page.mode = "storePickup" /\ l.cart = cart
  /\ page.options # NoOptions => page.mode = "storePickup"

(* Only a delivery home waits for the geocoder.                            *)
GeocoderIsForHome ==
  \A k \in Clicks : click[k].stage = "address" => click[k].order.mode = "homeDelivery"

(* A chosen store is among those shown, once none are being loaded.        *)
ChosenStoreIsShown ==
  page.mode = "storePickup" /\ cart # 0 /\ page.store # NULL /\ ~page.loading =>
    page.options.has[page.store] # "absent"

PageInv == TypeOK /\ LoadsAreForTheCart /\ StoresAreForTheCart /\ ChosenStoreIsShown

OrderInv == TypeOK /\ GeocoderIsForHome /\ OrdersCanBeDelivered

(* A page on which no store is newly chosen, or one of those shown.         *)
Chooses(p) == p.store \in {NULL, page.store} \/ page.options.has[p.store] # "absent"

(* A change of the page that leaves the stores to the effect.              *)
Renders(p, b) ==
  /\ p.loading = page.loading /\ p.options = page.options /\ Chooses(p)
  /\ Rerender(p, b)

-----------------------------------------------------------------------------
(* The page and its loads. *)

LEMMA NoOptionsType == NoOptions \in Options
BY CheckoutPageConstants DEF NoOptions, Options, Cover

(* What the page becomes when the stores are loaded again.                 *)
LEMMA LoadingPreserves ==
  ASSUME PageInv, NEW p \in Page, NEW b \in BOOLEAN, Rerender(p, b),
         p.mode # page.mode \/ b
  PROVE  /\ page' \in Page /\ cart' \in 0..MaxCart
         /\ loads' \in SUBSET [cart: 0..MaxCart, cancelled: BOOLEAN]
         /\ LoadsAreForTheCart' /\ StoresAreForTheCart' /\ ChosenStoreIsShown'
<1> DEFINE needed == p.mode = "storePickup" /\ cart' # 0
           stale == {[l EXCEPT !.cancelled = TRUE] : l \in loads}
           fresh == [cart |-> cart', cancelled |-> FALSE]
<1>1. cart' \in 0..MaxCart
  BY DEF PageInv, TypeOK, Rerender
<1>2. /\ loads' = stale \cup (IF needed THEN {fresh} ELSE {})
      /\ page' = IF needed THEN [p EXCEPT !.loading = TRUE]
                 ELSE [p EXCEPT !.loading = FALSE, !.options = NoOptions]
  BY DEF Rerender, LoadPickupStores
<1>3. \A l \in stale : l \in [cart: 0..MaxCart, cancelled: BOOLEAN] /\ l.cancelled
  BY DEF PageInv, TypeOK
<1>4. fresh \in [cart: 0..MaxCart, cancelled: BOOLEAN]
  BY <1>1
<1>5. loads' \in SUBSET [cart: 0..MaxCart, cancelled: BOOLEAN]
  <2> HIDE DEF stale, fresh
  <2> QED  BY <1>2, <1>3, <1>4
<1>6. page' \in Page
  BY <1>2, NoOptionsType DEF Page
<1>7. CASE needed
  <2>1. page'.loading /\ page'.mode = "storePickup" /\ page'.options = p.options
    BY <1>2, <1>7 DEF Page
  <2>2. \A l \in loads' : ~l.cancelled => l = fresh
    <3> HIDE DEF stale, fresh
    <3> QED  BY <1>2, <1>3
  <2> QED  BY <1>1, <1>5, <1>6, <2>1, <2>2
        DEF LoadsAreForTheCart, StoresAreForTheCart, ChosenStoreIsShown
<1>8. CASE ~needed
  <2>1. page'.options = NoOptions /\ ~(page'.mode = "storePickup" /\ cart' # 0)
    BY <1>2, <1>8 DEF Page
  <2>2. \A l \in loads' : l.cancelled
    <3> HIDE DEF stale, fresh, needed
    <3> QED  BY <1>2, <1>3, <1>8
  <2>3. NoOptions' = NoOptions
    BY DEF NoOptions
  <2> QED  BY <1>1, <1>5, <1>6, <2>1, <2>2, <2>3
        DEF LoadsAreForTheCart, StoresAreForTheCart, ChosenStoreIsShown
<1> QED  BY <1>7, <1>8

(* Any change of the page that leaves the stores to the effect.            *)
LEMMA RerenderPreserves ==
  ASSUME PageInv, NEW p \in Page, NEW b \in BOOLEAN, Renders(p, b)
  PROVE  /\ page' \in Page /\ cart' \in 0..MaxCart
         /\ loads' \in SUBSET [cart: 0..MaxCart, cancelled: BOOLEAN]
         /\ LoadsAreForTheCart' /\ StoresAreForTheCart' /\ ChosenStoreIsShown'
<1>1. CASE p.mode # page.mode \/ b
  BY <1>1, LoadingPreserves DEF Renders
<1>2. CASE ~(p.mode # page.mode \/ b)
  <2>1. page' = p /\ cart' = cart /\ loads' = loads /\ p.mode = page.mode
    BY <1>2 DEF Renders, Rerender
  <2> QED  BY <2>1 DEF PageInv, TypeOK, LoadsAreForTheCart, StoresAreForTheCart, NoOptions,
           ChosenStoreIsShown, Chooses, Renders
<1> QED  BY <1>1, <1>2

(* An answer is that to the one load that is not cancelled.                *)
LEMMA AnswerPreserves ==
  ASSUME PageInv, NEW l \in loads, StoresAnswered(l)
  PROVE  /\ page' \in Page
         /\ loads' \in SUBSET [cart: 0..MaxCart, cancelled: BOOLEAN]
         /\ LoadsAreForTheCart' /\ StoresAreForTheCart' /\ ChosenStoreIsShown'
<1>0. /\ page \in Page
      /\ loads \in SUBSET [cart: 0..MaxCart, cancelled: BOOLEAN]
      /\ loads' = loads \ {l} /\ cart' = cart /\ NoOptions' = NoOptions
  BY DEF PageInv, TypeOK, StoresAnswered, NoOptions
<1>1. CASE l.cancelled
  <2>1. page' = page
    BY <1>1 DEF StoresAnswered, IsCancelled
  <2> QED  BY <1>0, <2>1 DEF PageInv, LoadsAreForTheCart, StoresAreForTheCart,
                             ChosenStoreIsShown
<1>2. CASE ~l.cancelled
  <2>1. page.mode = "storePickup" /\ l.cart = cart
    BY <1>2 DEF PageInv, LoadsAreForTheCart
  <2>2. \A m \in loads' : m.cancelled
    <3> SUFFICES ASSUME NEW m \in loads', ~m.cancelled PROVE FALSE
      OBVIOUS
    <3>1. m.cart = cart /\ m \in [cart: 0..MaxCart, cancelled: BOOLEAN]
      BY <1>0 DEF PageInv, LoadsAreForTheCart
    <3>2. m = l
      BY <1>0, <1>2, <2>1, <3>1
    <3> QED  BY <1>0, <3>2
  <2>3. page' \in Page /\ page'.mode = "storePickup"
        /\ (page'.options = NoOptions \/ page'.options.cart = cart)
        /\ (page'.store = NULL \/ page'.options.has[page'.store] # "absent")
    <3>1. CASE \E has \in [Stores -> Cover] :
                 page' = [page EXCEPT !.options = [cart |-> l.cart, has |-> has],
                            !.store = KeptChoice(@, has),
                            !.loading = FALSE]
      <4>1. PICK has \in [Stores -> Cover] :
              page' = [page EXCEPT !.options = [cart |-> l.cart, has |-> has],
                         !.store = KeptChoice(@, has),
                         !.loading = FALSE]
        BY <3>1
      <4>2. [cart |-> l.cart, has |-> has] \in Options
        BY <1>0 DEF Options
      <4> QED  BY <1>0, <2>1, <4>1, <4>2 DEF Page, KeptChoice
    <3>2. CASE page' = [page EXCEPT !.options = NoOptions, !.store = NULL, !.loading = FALSE]
      BY <1>0, <2>1, <3>2, NoOptionsType DEF Page
    <3> QED  BY <1>2, <3>1, <3>2 DEF StoresAnswered, IsCancelled
  <2> QED  BY <1>0, <2>2, <2>3 DEF LoadsAreForTheCart, StoresAreForTheCart, ChosenStoreIsShown
<1> QED  BY <1>1, <1>2 DEF PageInv, TypeOK

-----------------------------------------------------------------------------
(* Every step of the page. *)

LEMMA InitPage == Init => PageInv /\ OrderInv
<1> SUFFICES ASSUME Init PROVE PageInv /\ OrderInv
  OBVIOUS
<1>1. TypeOK
  BY CheckoutPageConstants, NoOptionsType
     DEF Init, TypeOK, Page, Click, Order, Idle, NoOrder, Cover
<1> QED  BY <1>1
      DEF Init, PageInv, OrderInv, LoadsAreForTheCart, StoresAreForTheCart, ChosenStoreIsShown,
          GeocoderIsForHome, OrdersCanBeDelivered, Idle, NoOrder

(* Each click renders a page with the same stores on it.                   *)
LEMMA InteractRenders ==
  ASSUME TypeOK, Interact
  PROVE  \E p \in Page : Renders(p, FALSE)
<1>0. page \in Page
  BY DEF TypeOK
<1>1. CASE ChangeStep
  <2>1. PICK i \in 1..4 : Set([page EXCEPT !.step = i])
    BY <1>1 DEF ChangeStep
  <2> QED  BY <1>0, <2>1 DEF Set, Page, Renders, Chooses
<1>2. CASE ToggleRegisteredAddress
  <2>1. Set([page EXCEPT !.registered = ~page.registered])
    BY <1>2 DEF ToggleRegisteredAddress
  <2> QED  BY <1>0, <2>1 DEF Set, Page, Renders, Chooses
<1>3. CASE ToggleWait
  <2>1. Set([page EXCEPT !.wait = ~page.wait])
    BY <1>3 DEF ToggleWait
  <2> QED  BY <1>0, <2>1 DEF Set, Page, Renders, Chooses
<1>4. CASE ClearError
  <2>1. Set([page EXCEPT !.error = FALSE])
    BY <1>4 DEF ClearError
  <2> QED  BY <1>0, <2>1 DEF Set, Page, Renders, Chooses
<1>5. ASSUME NEW mode \in {"homeDelivery", "storePickup"}, ChangeDeliveryMode(mode)
      PROVE  \E p \in Page : Renders(p, FALSE)
  <2> DEFINE p == [page EXCEPT !.mode = mode, !.wait = FALSE,
                     !.store = IF mode = "homeDelivery" THEN NULL ELSE page.store,
                     !.registered = mode = "homeDelivery" \/ page.registered]
  <2>1. Rerender(p, FALSE)
    BY <1>5 DEF ChangeDeliveryMode, Set
  <2>2. p \in Page /\ p.loading = page.loading /\ p.options = page.options /\ Chooses(p)
    BY <1>0 DEF Page, Chooses
  <2> HIDE DEF p
  <2> QED  BY <2>1, <2>2 DEF Renders
<1>6. ASSUME NEW s \in Stores, SelectStore(s)
      PROVE  \E p \in Page : Renders(p, FALSE)
  <2> DEFINE p == [page EXCEPT !.store = IF page.store = s THEN NULL ELSE s, !.wait = FALSE]
  <2>1. Rerender(p, FALSE) /\ page.options.has[s] # "absent"
    BY <1>6 DEF SelectStore, Set
  <2>2. p \in Page /\ p.loading = page.loading /\ p.options = page.options /\ Chooses(p)
    BY <1>0, <2>1 DEF Page, Chooses
  <2> HIDE DEF p
  <2> QED  BY <2>1, <2>2 DEF Renders
<1> QED  BY <1>1, <1>2, <1>3, <1>4, <1>5, <1>6 DEF Interact

(* So does each step of a click that goes on to the payment or the order.  *)
LEMMA ClicksRender ==
  ASSUME TypeOK, NEW k \in Clicks, GoToPayment(k) \/ SubmitPurchase(k) \/ Answer(k)
  PROVE  \/ UNCHANGED <<page, cart, loads>>
         \/ \E p \in Page, b \in BOOLEAN : Renders(p, b)
<1>0. page \in Page
  BY DEF TypeOK
<1>1. CASE GoToPayment(k)
  <2>1. CASE AsksGeocoder
    BY <1>1, <2>1 DEF GoToPayment
  <2>2. CASE ~AsksGeocoder
    <3> DEFINE p == [page EXCEPT !.step = 3]
    <3>1. Rerender(p, FALSE)
      BY <1>1, <2>2 DEF GoToPayment, Set
    <3>2. p \in Page /\ p.loading = page.loading /\ p.options = page.options /\ Chooses(p)
      BY <1>0 DEF Page, Chooses
    <3> HIDE DEF p
    <3> QED  BY <3>1, <3>2 DEF Renders
  <2> QED  BY <2>1, <2>2
<1>2. CASE AddressChecked(k)
  <2>1. PICK valid \in BOOLEAN : Rerender([page EXCEPT !.step = IF valid THEN 3 ELSE page.step], FALSE)
    BY <1>2 DEF AddressChecked, Set
  <2>2. [page EXCEPT !.step = IF valid THEN 3 ELSE page.step] \in Page
    BY <1>0 DEF Page
  <2> QED  BY <1>0, <2>1, <2>2 DEF Page, Renders, Chooses
<1>3. CASE SubmitPurchase(k)
  <2>1. Rerender([page EXCEPT !.submitting = ~AsksGeocoder], FALSE)
    BY <1>3 DEF SubmitPurchase, Set
  <2> HIDE DEF AsksGeocoder
  <2>2. [page EXCEPT !.submitting = ~AsksGeocoder] \in Page
    BY <1>0 DEF Page
  <2> QED  BY <1>0, <2>1, <2>2 DEF Page, Renders, Chooses
<1>4. CASE AddressFound(k)
  <2>1. PICK valid \in BOOLEAN : Rerender([page EXCEPT !.submitting = valid \/ page.submitting], FALSE)
    BY <1>4 DEF AddressFound, Set
  <2>2. [page EXCEPT !.submitting = valid \/ page.submitting] \in Page
    BY <1>0 DEF Page
  <2> QED  BY <1>0, <2>1, <2>2 DEF Page, Renders, Chooses
<1>5. CASE ShopAnswers(k)
  BY <1>5 DEF ShopAnswers
<1>6. CASE PurchaseAnswered(k)
  <2>1. \/ Rerender([page EXCEPT !.step = 4, !.submitting = FALSE], TRUE)
        \/ Rerender([page EXCEPT !.error = TRUE, !.submitting = FALSE], FALSE)
    BY <1>6 DEF PurchaseAnswered, Set, NoLongerSubmitting
  <2> DEFINE p == [page EXCEPT !.step = 4, !.submitting = FALSE]
             q == [page EXCEPT !.error = TRUE, !.submitting = FALSE]
  <2>0. 4 \in 1..4
    OBVIOUS
  <2>2. p \in Page /\ p.loading = page.loading /\ p.options = page.options /\ Chooses(p)
    BY <1>0, <2>0 DEF Page, Chooses
  <2>3. q \in Page /\ q.loading = page.loading /\ q.options = page.options /\ Chooses(q)
    BY <1>0 DEF Page, Chooses
  <2>4. Rerender(p, TRUE) \/ Rerender(q, FALSE)
    BY <2>1
  <2> HIDE DEF p, q
  <2> QED  BY <2>2, <2>3, <2>4 DEF Renders
<1> QED  BY <1>1, <1>2, <1>3, <1>4, <1>5, <1>6 DEF Answer

-----------------------------------------------------------------------------
(* The orders of the clicks. *)

(* What a pickup is ordered with.                                          *)
Deliverable(o) ==
  /\ o.store # NULL
  /\ o.said # "absent" => o.waitlist = (o.said = "part")
  /\ ~o.loading => o.current /\ o.said # "absent"

(* What is ordered has the values on the screen, which were valid.         *)
LEMMA OrderOnScreenIsDeliverable ==
  ASSUME PageInv, DeliveryIsValid, cart # 0
  PROVE  /\ OrderOnScreen \in Order
         /\ OrderOnScreen.mode = page.mode
         /\ page.mode = "storePickup" => Deliverable(OrderOnScreen)
<1> DEFINE said == IF page.mode # "storePickup" \/ page.store = NULL THEN "absent"
                   ELSE page.options.has[page.store]
           current == page.options.cart = cart
<1>1. page \in Page /\ page.options \in Options
  BY DEF PageInv, TypeOK, Page
<1>2. said \in Cover
  BY <1>1 DEF Page, Options, Cover
<1>3. OrderOnScreen =
        [mode |-> page.mode, store |-> IF page.mode = "storePickup" THEN page.store ELSE NULL,
         waitlist |-> page.mode = "storePickup" /\ page.wait /\ said # "full", said |-> said,
         current |-> current, loading |-> page.loading]
  BY DEF OrderOnScreen
<1>4. page.mode = "storePickup" => page.store # NULL /\ (said = "part" => page.wait)
  BY DEF DeliveryIsValid, PickupIsValid
<1>5. page.mode = "storePickup" /\ ~page.loading => current /\ said # "absent"
  <2> SUFFICES ASSUME page.mode = "storePickup", ~page.loading
               PROVE  current /\ said # "absent"
    OBVIOUS
  <2>1. page.store \in Stores /\ page.options.has[page.store] # "absent"
    BY <1>1, <1>4 DEF PageInv, ChosenStoreIsShown, Page
  <2>2. page.options # NoOptions
    BY <2>1 DEF NoOptions
  <2> QED  BY <1>4, <2>1, <2>2 DEF PageInv, StoresAreForTheCart
<1>6. current \in BOOLEAN
  OBVIOUS
<1> HIDE DEF said, current
<1>7. OrderOnScreen \in Order
  BY <1>1, <1>2, <1>3, <1>6 DEF Order, Page
<1>8. page.mode = "storePickup" => Deliverable(OrderOnScreen)
  <2>1. /\ OrderOnScreen.said = said /\ OrderOnScreen.current = current
        /\ OrderOnScreen.loading = page.loading
        /\ page.mode = "storePickup" =>
             /\ OrderOnScreen.store = page.store
             /\ OrderOnScreen.waitlist = (page.wait /\ said # "full")
    BY <1>3
  <2> QED  BY <1>1, <1>2, <1>4, <1>5, <2>1 DEF Deliverable, Page, Cover
<1> QED  BY <1>3, <1>7, <1>8

(* A click keeps its order while it waits, or begins one, or ends.         *)
LEMMA ClickPreserves ==
  ASSUME OrderInv, NEW k \in Clicks, NEW c \in Click,
         click' = [click EXCEPT ![k] = c],
         c.stage = "address" => c.order.mode = "homeDelivery",
         c.stage = "order" /\ c.order.mode = "storePickup" => Deliverable(c.order)
  PROVE  click' \in [Clicks -> Click] /\ GeocoderIsForHome' /\ OrdersCanBeDelivered'
<1>1. click \in [Clicks -> Click]
  BY DEF OrderInv, TypeOK
<1>2. \A j \in Clicks : click'[j] = IF j = k THEN c ELSE click[j]
  BY <1>1
<1> QED  BY <1>1, <1>2 DEF OrderInv, GeocoderIsForHome, OrdersCanBeDelivered, Deliverable

LEMMA ClicksPreserve ==
  ASSUME PageInv, OrderInv, NEW k \in Clicks, GoToPayment(k) \/ SubmitPurchase(k) \/ Answer(k)
  PROVE  click' \in [Clicks -> Click] /\ GeocoderIsForHome' /\ OrdersCanBeDelivered'
<1>0. TypeOK /\ click[k] \in Click /\ click \in [Clicks -> Click]
  BY DEF OrderInv, TypeOK
<1>1. Idle \in Click /\ Idle.stage = "idle" /\ Idle.order = NoOrder
  BY DEF Idle, Click, NoOrder, Order, Cover
<1>2. CASE click' = [click EXCEPT ![k] = Idle]
  BY <1>1, <1>2, ClickPreserves
<1>3. ASSUME NEW stage \in {"toPayment", "sold", "refused"},
             NEW o \in Order, click' = [click EXCEPT ![k] = [stage |-> stage, order |-> o]]
      PROVE  click' \in [Clicks -> Click] /\ GeocoderIsForHome' /\ OrdersCanBeDelivered'
  <2> DEFINE c == [stage |-> stage, order |-> o]
  <2>1. c \in Click /\ c.stage # "address" /\ c.stage # "order"
    BY <1>3 DEF Click
  <2>2. click' = [click EXCEPT ![k] = c]
    BY <1>3
  <2> HIDE DEF c
  <2> QED  BY <2>1, <2>2, ClickPreserves
<1>4. CASE GoToPayment(k)
  <2>1. CASE AsksGeocoder
    <3>1. click' = [click EXCEPT ![k] = [stage |-> "toPayment", order |-> click[k].order]]
      BY <1>0, <1>4, <2>1 DEF GoToPayment, Click
    <3>2. click[k].order \in Order
      BY <1>0 DEF Click
    <3> QED  BY <1>3, <3>1, <3>2
  <2>2. CASE ~AsksGeocoder
    <3>1. click' = click
      BY <1>4, <2>2 DEF GoToPayment
    <3> QED  BY <1>0, <3>1 DEF OrderInv, GeocoderIsForHome, OrdersCanBeDelivered
  <2> QED  BY <2>1, <2>2
<1>5. CASE SubmitPurchase(k)
  <2> DEFINE c == [stage |-> IF AsksGeocoder THEN "address" ELSE "order",
                   order |-> OrderOnScreen]
  <2>1. click' = [click EXCEPT ![k] = c] /\ DeliveryIsValid /\ cart # 0
    BY <1>5 DEF SubmitPurchase, Shows
  <2>2. AsksGeocoder => page.mode = "homeDelivery"
    BY DEF AsksGeocoder
  <2>3. /\ c.stage = "address" => AsksGeocoder
        /\ c.order = OrderOnScreen /\ c.stage \in {"address", "order"}
    OBVIOUS
  <2>4. c \in Click
    BY <1>0, <2>1, OrderOnScreenIsDeliverable DEF Click
  <2> HIDE DEF c
  <2> QED  BY <1>0, <2>1, <2>2, <2>3, <2>4, OrderOnScreenIsDeliverable, ClickPreserves
<1>6. CASE AddressChecked(k)
  BY <1>2, <1>6 DEF AddressChecked
<1>7. CASE AddressFound(k)
  <2>1. \/ click' = [click EXCEPT ![k] = [click[k] EXCEPT !.stage = "order"]]
        \/ click' = [click EXCEPT ![k] = Idle]
    BY <1>7 DEF AddressFound
  <2> DEFINE c == [click[k] EXCEPT !.stage = "order"]
  <2>2. c \in Click /\ c.stage = "order" /\ c.order = click[k].order
    BY <1>0 DEF Click
  <2>3. click[k].order.mode = "homeDelivery"
    BY <1>7 DEF AddressFound, OrderInv, GeocoderIsForHome
  <2>4. click' = [click EXCEPT ![k] = c] \/ click' = [click EXCEPT ![k] = Idle]
    BY <2>1
  <2> HIDE DEF c
  <2> QED  BY <1>2, <2>2, <2>3, <2>4, ClickPreserves
<1>8. CASE ShopAnswers(k)
  <2>1. \/ click' = [click EXCEPT ![k] = [stage |-> "sold", order |-> NoOrder]]
        \/ click' = [click EXCEPT ![k] = [stage |-> "refused", order |-> NoOrder]]
    BY <1>8 DEF ShopAnswers, Idle
  <2>2. NoOrder \in Order
    BY DEF NoOrder, Order, Cover
  <2> QED  BY <1>3, <2>1, <2>2
<1>9. CASE PurchaseAnswered(k)
  BY <1>2, <1>9 DEF PurchaseAnswered
<1> QED  BY <1>4, <1>5, <1>6, <1>7, <1>8, <1>9 DEF Answer

-----------------------------------------------------------------------------
LEMMA NextPreserves ==
  ASSUME PageInv, OrderInv, [Next]_vars
  PROVE  PageInv' /\ OrderInv'
<1>0. TypeOK
  BY DEF PageInv
<1>1. shopCart' \in 0..MaxCart
  <2>1. ASSUME CartChanges PROVE shopCart' \in 0..MaxCart
    <3>1. shopCart' \in {0} \cup (shopCart + 1)..MaxCart /\ shopCart \in 0..MaxCart
      BY <1>0, <2>1 DEF CartChanges, TypeOK
    <3> QED  BY <3>1, CheckoutPageConstants
  <2>2. ASSUME NEW k \in Clicks, GoToPayment(k) \/ SubmitPurchase(k) \/ Answer(k)
        PROVE  shopCart' \in 0..MaxCart
    <3>1. CASE ShopAnswers(k)
      <4>1. shopCart' = 0 \/ shopCart' = shopCart
        BY <3>1 DEF ShopAnswers
      <4> QED  BY <1>0, <4>1, CheckoutPageConstants DEF TypeOK
    <3>2. CASE ~ShopAnswers(k)
      <4>1. shopCart' = shopCart
        BY <2>2, <3>2 DEF GoToPayment, SubmitPurchase, Answer, AddressChecked,
                          AddressFound, PurchaseAnswered
      <4> QED  BY <1>0, <4>1 DEF TypeOK
    <3> QED  BY <3>1, <3>2
  <2> QED  BY <1>0, <2>1, <2>2
        DEF TypeOK, Next, vars, LoadCart, LeaveColombia, Interact, StoresAnswered
<1>2. /\ page' \in Page /\ cart' \in 0..MaxCart
      /\ loads' \in SUBSET [cart: 0..MaxCart, cancelled: BOOLEAN]
      /\ LoadsAreForTheCart' /\ StoresAreForTheCart' /\ ChosenStoreIsShown'
  <2>1. CASE UNCHANGED <<page, cart, loads>>
    BY <2>1 DEF PageInv, TypeOK, LoadsAreForTheCart, StoresAreForTheCart, NoOptions,
           ChosenStoreIsShown
  <2>2. ASSUME \E p \in Page, b \in BOOLEAN : Renders(p, b)
        PROVE  <1>2
    BY <2>2, RerenderPreserves
  <2>3. CASE LoadCart
    BY <1>0, <2>2, <2>3 DEF LoadCart, TypeOK, Renders, Chooses
  <2>4. CASE LeaveColombia
    <3> DEFINE p == [page EXCEPT !.mode = "homeDelivery"]
    <3>1. Rerender(p, FALSE)
      BY <2>4 DEF LeaveColombia, Set
    <3>2. p \in Page /\ p.loading = page.loading /\ p.options = page.options /\ Chooses(p)
      BY <1>0 DEF TypeOK, Page, Chooses
    <3> HIDE DEF p
    <3> QED  BY <2>2, <3>1, <3>2 DEF Renders
  <2>5. CASE Interact
    BY <1>0, <2>2, <2>5, InteractRenders
  <2>6. ASSUME NEW l \in loads, StoresAnswered(l) PROVE <1>2
    BY <1>0, <2>6, AnswerPreserves DEF StoresAnswered, TypeOK
  <2>7. ASSUME NEW k \in Clicks, GoToPayment(k) \/ SubmitPurchase(k) \/ Answer(k)
        PROVE  <1>2
    BY <1>0, <2>1, <2>2, <2>7, ClicksRender
  <2> QED  BY <2>1, <2>3, <2>4, <2>5, <2>6, <2>7 DEF Next, CartChanges, vars
<1>3. click' \in [Clicks -> Click] /\ GeocoderIsForHome' /\ OrdersCanBeDelivered'
  <2>1. CASE UNCHANGED click
    BY <2>1 DEF OrderInv, TypeOK, GeocoderIsForHome, OrdersCanBeDelivered
  <2> QED  BY <2>1, ClicksPreserve
        DEF Next, CartChanges, LoadCart, LeaveColombia, Interact, StoresAnswered, vars
<1>4. TypeOK'
  BY <1>1, <1>2, <1>3 DEF TypeOK, Page, Options, Click, Order
<1> QED  BY <1>2, <1>3, <1>4 DEF PageInv, OrderInv

(* The state of the checkout page always has its type, and the stores that *)
(* are shown once none are being loaded are those for the cart shown.      *)
THEOREM PageInvariance == Spec => [](PageInv /\ OrderInv)
<1>1. Init => PageInv /\ OrderInv
  BY InitPage
<1>2. (PageInv /\ OrderInv) /\ [Next]_vars => (PageInv /\ OrderInv)'
  BY NextPreserves
<1> QED  BY <1>1, <1>2, PTL DEF Spec

(* However late the stores are answered, and whatever the client does in   *)
(* between, the page shows those for its cart (CheckoutPage.tsx, the       *)
(* effect that loads the stores and its cancelled flag).                   *)
THEOREM StoresShown == Spec => []StoresAreForTheCart
<1>1. PageInv /\ OrderInv => StoresAreForTheCart
  BY DEF PageInv
<1> QED  BY <1>1, PageInvariance, PTL

(* submitPurchase: whatever became of the cart, of the stores and of the   *)
(* choice on the way, a pickup is ordered from a store that is known, for  *)
(* the cart shown, to have everything, or a part that the client waits for;*)
(* an order made while stores are being loaded heeds those shown before.   *)
THEOREM OrdersDeliverable == Spec => []OrdersCanBeDelivered
<1>1. PageInv /\ OrderInv => OrdersCanBeDelivered
  BY DEF OrderInv
<1> QED  BY <1>1, PageInvariance, PTL
=============================================================================
