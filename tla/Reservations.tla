---------------------------- MODULE Reservations ----------------------------
(***************************************************************************)
(* reservations.service.ts: a client reserves copies for 24 hours, cancels *)
(* a reservation, and a cron job that runs every minute expires the        *)
(* reservations that fell due.                                             *)
(***************************************************************************)
EXTENDS StoreDb

(* Mutant: the status of the reservation is not looked at.                 *)
HoldsWhateverStatus(r, c) == reservation[r].client = c /\ ~reservation[r].due

(* The reservations whose items a client still holds. *)
Holds(r, c) ==
  reservation[r].client = c /\ reservation[r].status = "active" /\ ~reservation[r].due

(* Copies of book b in reservation r, and in those that client c holds.    *)
ItemCopies(r, b) == SumFunction([s \in Stores |-> reservation[r].items[<<b, s>>]])

HeldCopies(c, b) ==
  SumFunction([r \in Reservations |-> IF Holds(r, c) THEN ItemCopies(r, b) ELSE 0])

Requested(want) == {b \in Books : want[b] > 0}

(* Mutant: only the request is counted, not what the client already        *)
(* holds.                                                                  *)
WithinLimitsOfRequest(c, want) ==
  /\ Cardinality(Requested(want)) <= MaxDifferentBooks
  /\ \A b \in Books : want[b] <= MaxCopies

(* assertRequestLimits and assertClientActiveReservationLimits *)
WithinLimits(c, want) ==
  LET total == [b \in Books |-> HeldCopies(c, b) + want[b]]
  IN  /\ Cardinality(Requested(total)) <= MaxDifferentBooks
      /\ \A b \in Books : total[b] <= MaxCopies

(* The items of reservation r, as a handler reads them. *)
ItemsOf(r) ==
  {[res |-> r, row |-> w, cap |-> reservation[r].items[w]] :
     w \in {x \in Rows : reservation[r].items[x] > 0}}

-----------------------------------------------------------------------------
(* createReservation. *)

(* Bound: a reservation starts only while there is an id left for it.      *)
ReservationIdLeft ==
  Cardinality({r \in Reservations : reservation[r].status = "none"}) >
  Cardinality({h \in Handlers : handler[h].pc \in {"assertInventoryAvailability",
                                                  "allocateInventory"}})

(* The limits are read outside the transaction. *)
StartReservation(h, c, want) ==
  /\ MayStart(h, c)
  /\ ReservationIdLeft
  /\ WithinLimits(c, want)
  /\ handler' = [handler EXCEPT ![h] =
       [IdleHandler EXCEPT !.pc = "assertInventoryAvailability",
                           !.actor = c, !.want = want, !.need = want]]
  /\ UNCHANGED <<dbVars, delta, locks>>

(* So is the stock: enough copies over all stores, or the request fails. *)
AssertInventoryAvailability(h) ==
  LET stock(b) == SumFunction([s \in Stores |->
                    IF inventory[<<b, s>>].available > 0
                    THEN inventory[<<b, s>>].available ELSE 0])
  IN
  /\ handler[h].pc = "assertInventoryAvailability"
  /\ handler' = [handler EXCEPT ![h] =
       IF \A b \in Books : stock(b) >= handler[h].want[b]
       THEN [@ EXCEPT !.pc = "allocateInventory"] ELSE IdleHandler]
  /\ UNCHANGED <<dbVars, delta, locks>>

(* The transaction is rolled back and the request ends with an error. *)
Reject(h) ==
  /\ handler' = [handler EXCEPT ![h] = IdleHandler]
  /\ DiscardInventory(h)
  /\ UNCHANGED dbVars

(* allocateInventoryForReservation reads the rows of one book that have    *)
(* copies; books are taken in order, each when the one before is done.     *)
ReadAllocation(h) ==
  \E b \in Books :
    LET rows == {w \in {b} \X Stores : Available(h, w) > 0}
    IN
    /\ handler[h].pc = "allocateInventory"
    /\ handler[h].todo = {}
    /\ handler[h].need[b] > 0 /\ handler[h].need[b] = handler[h].want[b]
    /\ \A other \in Books : other < b => handler[h].need[other] = 0
    /\ rows # {}
    /\ handler' = [handler EXCEPT ![h].todo =
         {[res |-> NULL, row |-> w, cap |-> Available(h, w)] : w \in rows}]
    /\ UNCHANGED <<dbVars, delta, locks>>

(* One row of the loop: available copies become reserved ones. *)
AllocateRow(h) ==
  \E e \in handler[h].todo :
    LET b == e.row[1]
        take == Smaller(handler[h].need[b], e.cap)
        remaining == handler[h].need[b] - take
    IN
    /\ handler[h].pc = "allocateInventory"
    /\ IsFirst(e, handler[h].todo)
    /\ UpdateInventory(h, e.row, -take, take, 0)
    /\ handler' = [handler EXCEPT
         ![h].need[b] = remaining,
         ![h].todo = IF remaining = 0 THEN {} ELSE @ \ {e}]
    /\ UNCHANGED dbVars

(* No rows are left and copies are still missing: the request fails. *)
FailAllocation(h) ==
  /\ handler[h].pc = "allocateInventory"
  /\ handler[h].todo = {}
  /\ \E b \in Books :
       /\ handler[h].need[b] > 0
       /\ \A other \in Books : other < b => handler[h].need[other] = 0
       /\ \/ handler[h].need[b] < handler[h].want[b]
          \/ \A s \in Stores : Available(h, <<b, s>>) <= 0
  /\ Reject(h)

(* reservation.create with one item per row that was allocated. *)
CreateReservation(h) ==
  \E r \in Reservations :
    LET c == handler[h].actor
    IN
    /\ handler[h].pc = "allocateInventory"
    /\ handler[h].need = NoBooks
    /\ reservation[r].status = "none"
    /\ \A q \in Reservations : reservation[q].status = "none" => r <= q
    /\ reservation' = [reservation EXCEPT ![r] =
         [status |-> "active", client |-> c, due |-> FALSE,
          madeAt |-> Len(ledger[c]),
          items |-> [w \in Rows |-> delta[h][w].reserved]]]
    /\ CommitInventory(h)
    /\ handler' = [handler EXCEPT ![h] = IdleHandler]
    /\ UNCHANGED <<cart, wallet, ledger, voucher, purchase, attempt, added>>

-----------------------------------------------------------------------------
(* releaseReservedInventory, shared by the cancellation and the cron. *)

(* Mutant: released copies become available but stay reserved.             *)
ReleaseRowHalf(h) ==
  \E e \in handler[h].todo :
    /\ handler[h].pc = "releaseRow"
    /\ IsFirst(e, handler[h].todo)
    /\ UpdateInventory(h, e.row, e.cap, 0, 0)
    /\ handler' = [handler EXCEPT ![h].pc = "release", ![h].todo = @ \ {e}]
    /\ UNCHANGED dbVars

(* The stock row of the next item is read; items of a row with too few     *)
(* reserved copies cannot be released.                                     *)
ReadRelease(h) ==
  \E e \in handler[h].todo :
    /\ handler[h].pc = "release"
    /\ IsFirst(e, handler[h].todo)
    /\ Reserved(h, e.row) >= e.cap
    /\ Goto(h, "releaseRow")
    /\ UNCHANGED <<dbVars, delta, locks>>

ReleaseRow(h) ==
  \E e \in handler[h].todo :
    /\ handler[h].pc = "releaseRow"
    /\ IsFirst(e, handler[h].todo)
    /\ UpdateInventory(h, e.row, e.cap, -e.cap, 0)
    /\ handler' = [handler EXCEPT ![h].pc = "release", ![h].todo = @ \ {e}]
    /\ UNCHANGED dbVars

(* Every item is released: the reservation gets its final status, whatever *)
(* status it has by now, and the transaction commits.                      *)
Close(h, status, next) ==
  LET r == handler[h].res
  IN
  /\ handler[h].pc = "release"
  /\ handler[h].todo = {}
  /\ \A other \in Handlers \ {h} : <<"reservation", r>> \notin locks[other]
  /\ reservation' = [reservation EXCEPT ![r].status = status]
  /\ CommitInventory(h)
  /\ handler' = [handler EXCEPT ![h] = next]
  /\ UNCHANGED <<cart, wallet, ledger, voucher, purchase, attempt, added>>

-----------------------------------------------------------------------------
(* cancelReservation. *)

(* assertNoAssociatedPayment: a payment made since the reservation for a   *)
(* purchase with one of the reserved books.                                *)
HasAssociatedPayment(r) ==
  LET c == reservation[r].client
      reservedBooks == {e.row[1] : e \in ItemsOf(r)}
  IN  \E i \in (reservation[r].madeAt + 1) .. Len(ledger[c]) :
        /\ ledger[c][i].type = "payment"
        /\ \E b \in reservedBooks : purchase[ledger[c][i].purchaseId].items[b] > 0

StartCancel(h, c, r) ==
  /\ MayStart(h, c)
  /\ Holds(r, c)
  /\ ~HasAssociatedPayment(r)
  /\ handler' = [handler EXCEPT ![h] =
       [IdleHandler EXCEPT !.pc = "release", !.actor = c, !.res = r,
                           !.todo = ItemsOf(r)]]
  /\ UNCHANGED <<dbVars, delta, locks>>

FinishCancel(h) ==
  /\ handler[h].actor # NULL
  /\ Close(h, "cancelled", IdleHandler)

FailRelease(h) ==
  /\ handler[h].actor # NULL
  /\ handler[h].pc = "release"
  /\ \E e \in handler[h].todo : IsFirst(e, handler[h].todo) /\ Reserved(h, e.row) < e.cap
  /\ Reject(h)

-----------------------------------------------------------------------------
(* expireReservationsCron. *)

(* Mutant: the loop does not advance past the reservation it processed.    *)
NextExpiredAgain(state) ==
  LET r == CHOOSE q \in state.queue : \A other \in state.queue : q <= other
  IN  IF state.queue = {} THEN IdleHandler
      ELSE [state EXCEPT !.pc = "release", !.res = r,
                         !.todo = {e \in state.snapshot : e.res = r}]

(* The transaction of the next expired reservation, or the end of the tick.*)
NextExpired(state) ==
  LET r == CHOOSE q \in state.queue : \A other \in state.queue : q <= other
  IN  IF state.queue = {} THEN IdleHandler
      ELSE [state EXCEPT !.pc = "release", !.res = r, !.queue = @ \ {r},
                         !.todo = {e \in state.snapshot : e.res = r}]

(* Mutant: the comparison with expirationDate is the wrong way round.      *)
NotYetExpiredReservations ==
  {r \in Reservations : reservation[r].status = "active" /\ ~reservation[r].due}

ExpiredReservations ==
  {r \in Reservations : reservation[r].status = "active" /\ reservation[r].due}

(* The due reservations and their items are read once, outside the         *)
(* transactions that expire them.                                          *)
StartExpireCron(h) ==
  /\ MayStart(h, NULL)
  /\ handler' = [handler EXCEPT ![h] =
       NextExpired([IdleHandler EXCEPT
         !.queue = ExpiredReservations,
         !.snapshot = UNION {ItemsOf(r) : r \in ExpiredReservations}])]
  /\ UNCHANGED <<dbVars, delta, locks>>

FinishExpire(h) ==
  /\ handler[h].actor = NULL
  /\ Close(h, "expired", NextExpired(handler[h]))

(* A reservation that cannot be released is logged and left active; the    *)
(* cron goes on with the next one.                                         *)
SkipExpired(h) ==
  /\ handler' = [handler EXCEPT ![h] = NextExpired(@)]
  /\ DiscardInventory(h)
  /\ UNCHANGED dbVars

FailExpire(h) ==
  /\ handler[h].actor = NULL
  /\ handler[h].pc = "release"
  /\ \E e \in handler[h].todo : IsFirst(e, handler[h].todo) /\ Reserved(h, e.row) < e.cap
  /\ SkipExpired(h)

ReservationRequest(h) ==
  \/ \E c \in Clients, want \in ReserveOrders : StartReservation(h, c, want)
  \/ \E c \in Clients, r \in Reservations : StartCancel(h, c, r)
  \/ StartExpireCron(h)

ReservationStep(h) ==
  \/ AssertInventoryAvailability(h)
  \/ ReadAllocation(h)
  \/ AllocateRow(h)
  \/ FailAllocation(h)
  \/ CreateReservation(h)
  \/ ReadRelease(h)
  \/ ReleaseRow(h)
  \/ FinishCancel(h)
  \/ FailRelease(h)
  \/ FinishExpire(h)
  \/ FailExpire(h)
=============================================================================
