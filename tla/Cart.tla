-------------------------------- MODULE Cart --------------------------------
(***************************************************************************)
(* cart.service.ts: a client puts books in its cart, changes quantities    *)
(* and takes books out.  None of it runs in a transaction: each statement  *)
(* is committed on its own.                                                *)
(***************************************************************************)
EXTENDS StoreDb

CONSTANTS CartQuantities,  \* the quantities clients put in their carts
          MaxAdded         \* bound: copies of a book a client ever puts there

ASSUME CartQuantitiesAreNatural ==
  CartQuantities \subseteq Nat \ {0} /\ MaxAdded \in Nat

(* What sumAvailableQuantityAcrossStores sums. *)
AvailableAcrossStores(b) ==
  {[res |-> NULL, row |-> w, cap |-> inventory[w].available] : w \in {b} \X Stores}

-----------------------------------------------------------------------------
(* addItem.  The stock is read first; MaxAdded is a bound of the model.    *)
StartAddItem(h, c, b, quantity) ==
  /\ MayStart(h, c)
  /\ added[c][b] + quantity <= MaxAdded
  /\ CopiesIn(AvailableAcrossStores(b), b) >= 1
  /\ handler' = [handler EXCEPT ![h] =
       [IdleHandler EXCEPT !.pc = "ensureActiveCart", !.actor = c,
                           !.want = [NoBooks EXCEPT ![b] = quantity],
                           !.own = AvailableAcrossStores(b)]]
  /\ UNCHANGED <<dbVars, delta, locks>>

(* ensureActiveCart: a cart that was bought is emptied, then opened again. *)
EnsureActiveCart(h) ==
  /\ handler[h].pc = "ensureActiveCart"
  /\ Goto(h, IF cart[handler[h].actor].status = "active" THEN "findItem" ELSE "emptyCart")
  /\ UNCHANGED <<dbVars, delta, locks>>

(* One statement of a cart's request: its row of Cart, and what follows.   *)
WriteCart(h, row, next) ==
  /\ cart' = [cart EXCEPT ![handler[h].actor] = row]
  /\ handler' = [handler EXCEPT ![h] = next]
  /\ UNCHANGED <<inventory, reservation, wallet, ledger, voucher, purchase,
                 attempt, shelf, delta, locks>>

EmptyCart(h) ==
  /\ handler[h].pc = "emptyCart"
  /\ WriteCart(h, [cart[handler[h].actor] EXCEPT !.items = NoBooks],
               [handler[h] EXCEPT !.pc = "activateCart"])
  /\ UNCHANGED added

ActivateCart(h) ==
  /\ handler[h].pc = "activateCart"
  /\ WriteCart(h, [cart[handler[h].actor] EXCEPT !.status = "active"],
               [handler[h] EXCEPT !.pc = "findItem"])
  /\ UNCHANGED added

(* The quantity the cart already has is added to; the sum must stay within *)
(* MaxCopies and within the stock that was read.                           *)
FindItem(h) ==
  \E b \in Books :
    LET existing == cart[handler[h].actor].items[b]
        nextQuantity == existing + handler[h].want[b]
    IN
    /\ handler[h].pc = "findItem"
    /\ handler[h].want[b] > 0
    /\ handler' = [handler EXCEPT ![h] =
         IF nextQuantity > MaxCopies \/ nextQuantity > CopiesIn(handler[h].own, b)
         THEN IdleHandler
         ELSE [@ EXCEPT !.pc = "writeItem", !.need[b] = existing,
                        !.want = [NoBooks EXCEPT ![b] = nextQuantity]]]
    /\ UNCHANGED <<dbVars, delta, locks>>

(* The quantity computed is stored: in the row that was found, which must  *)
(* still be there, or in a new row, if there is still none.                *)
WriteItem(h) ==
  \E b \in Books :
    LET c == handler[h].actor
        current == cart[c].items[b]
        quantity == handler[h].want[b]
    IN
    /\ handler[h].pc = "writeItem"
    /\ quantity > 0
    /\ IF (current > 0) = (handler[h].need[b] > 0)
       THEN /\ WriteCart(h, [cart[c] EXCEPT !.items[b] = quantity], IdleHandler)
            /\ added' = [added EXCEPT ![c][b] =
                 @ + (IF quantity > current THEN quantity - current ELSE 0)]
       ELSE WriteCart(h, cart[c], IdleHandler) /\ UNCHANGED added

-----------------------------------------------------------------------------
(* updateItem and removeItem. *)
StartUpdateItem(h, c, b, quantity) ==
  /\ MayStart(h, c)
  /\ added[c][b] + quantity <= MaxAdded
  /\ cart[c].items[b] > 0
  /\ quantity <= MaxCopies
  /\ CopiesIn(AvailableAcrossStores(b), b) >= quantity
  /\ handler' = [handler EXCEPT ![h] =
       [IdleHandler EXCEPT !.pc = "writeItem", !.actor = c,
                           !.want = [NoBooks EXCEPT ![b] = quantity],
                           !.need = [NoBooks EXCEPT ![b] = cart[c].items[b]]]]
  /\ UNCHANGED <<dbVars, delta, locks>>

StartRemoveItem(h, c, b) ==
  /\ MayStart(h, c)
  /\ cart[c].items[b] > 0
  /\ handler' = [handler EXCEPT ![h] =
       [IdleHandler EXCEPT !.pc = "removeItem", !.actor = c,
                           !.want = [NoBooks EXCEPT ![b] = 1]]]
  /\ UNCHANGED <<dbVars, delta, locks>>

RemoveItem(h) ==
  \E b \in Books :
    /\ handler[h].pc = "removeItem"
    /\ handler[h].want[b] > 0
    /\ WriteCart(h, [cart[handler[h].actor] EXCEPT !.items[b] = 0], IdleHandler)
    /\ UNCHANGED added

(* A run that is not about carts sets CartQuantities to {}.                *)
CartRequest(h) ==
  \E c \in Clients, b \in Books :
    \/ \E quantity \in CartQuantities :
         StartAddItem(h, c, b, quantity) \/ StartUpdateItem(h, c, b, quantity)
    \/ CartQuantities # {} /\ StartRemoveItem(h, c, b)

CartStep(h) ==
  \/ EnsureActiveCart(h)
  \/ EmptyCart(h)
  \/ ActivateCart(h)
  \/ FindItem(h)
  \/ WriteItem(h)
  \/ RemoveItem(h)
=============================================================================
