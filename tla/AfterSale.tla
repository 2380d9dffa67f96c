----------------------------- MODULE AfterSale -----------------------------
(***************************************************************************)
(* A purchase after the sale: its delivery (updatePurchaseStatus and       *)
(* updatePurchaseAddress of purchases.service.ts), its return              *)
(* (returns.service.ts) and the refund of the return (refunds.service.ts). *)
(*                                                                         *)
(* Each HTTP request is a sequence of database calls.  A request reads a   *)
(* row and decides; its write comes in a later action, and names the row   *)
(* by its id alone.  A purchase has at most one return and a return at     *)
(* most one refund (unique columns), so both are keyed by purchaseId.      *)
(***************************************************************************)
EXTENDS Integers, Sequences, FiniteSets, FiniteSetsExt

CONSTANTS
  Purchases,    \* purchaseIds
  Clients,
  Owner,        \* the client of each purchase
  Total,        \* totalAmount of each purchase, in cents
  Requests,     \* requests that may be in progress at the same time
  SingleAdmin,  \* is there never more than one administrator's request?
  ReturnDays,   \* RETURN_REQUEST_MAX_DAYS
  RefundDays,   \* REFUND_REQUEST_MAX_DAYS
  MaxDay,       \* bound: the last day of the instance
  MaxCrashes,   \* bound: how many requests may die
  NULL

ASSUME AfterSaleConstants ==
  /\ Owner \in [Purchases -> Clients]
  /\ Total \in [Purchases -> Nat \ {0}]
  /\ SingleAdmin \in BOOLEAN
  /\ {ReturnDays, RefundDays} \subseteq Nat \ {0}
  /\ MaxDay \in Nat /\ MaxCrashes \in Nat
  /\ NULL \notin Nat /\ NULL \notin Purchases

VARIABLES
  order,     \* table Purchase: status, dispatchDate and shippingAddress
  returned,  \* table ReturnBook: status of the return of each purchase
  refund,    \* table Refund: status of the refund of each return
  wallet,    \* Client.walletBalance gained since the start, in cents
  ledger,    \* table Transaction: refunds paid to each client, in commit order
  request,   \* what each request in progress has read
  today,     \* days since the purchases were made
  crashes    \* requests that died

vars == <<order, returned, refund, wallet, ledger, request, today, crashes>>

PurchaseStatus == {"inPreparation", "shipped", "delivered", "cancelled"}
ReturnStatus == {"none", "pending", "approved", "rejected"}
RefundStatus == {"none", "pending", "processed", "rejected"}

OrderRow == [status: PurchaseStatus, dispatchDate: (0..MaxDay) \cup {NULL},
             address: {"old", "new"}]
RefundMovement == [refund: Purchases, amount: Nat, balanceAfter: Nat]

ClientOps == {"address", "askReturn", "askRefund"}
AdminOps == {"status", "approve", "reject", "process"}
Steps == {"read", "write", "refundRead", "refundCreate", "processRead", "credit"}

(* A request: what it does, to which purchase, its next database call, the *)
(* dispatch date it has read and the status it was asked to write.         *)
Request == [op: ClientOps \cup AdminOps, purchase: Purchases, step: Steps,
            seen: (0..MaxDay) \cup {NULL}, status: PurchaseStatus]
Idle == [op |-> "idle"]

Init ==
  /\ order = [p \in Purchases |-> [status |-> "inPreparation",
                                   dispatchDate |-> NULL, address |-> "old"]]
  /\ returned = [p \in Purchases |-> "none"]
  /\ refund = [p \in Purchases |-> "none"]
  /\ wallet = [c \in Clients |-> 0]
  /\ ledger = [c \in Clients |-> <<>>]
  /\ request = [r \in Requests |-> Idle]
  /\ today = 0 /\ crashes = 0

rows == <<order, returned, refund, wallet, ledger>>

Running(r, op, step) == request[r].op = op /\ request[r].step = step
GoTo(r, step) == request' = [request EXCEPT ![r].step = step]
Finish(r) == request' = [request EXCEPT ![r] = Idle]

(* A request arrives.  With a single administrator their requests follow   *)
(* one another; clients send theirs at any time.                           *)
MayStart(r, op) ==
  /\ request[r] = Idle
  /\ SingleAdmin /\ op \in AdminOps => \A s \in Requests : request[s].op \notin AdminOps

Start(r, op, p, status) ==
  /\ MayStart(r, op)
  /\ request' = [request EXCEPT ![r] =
       [op |-> op, purchase |-> p, step |-> "read", seen |-> NULL,
        status |-> status]]
  /\ UNCHANGED <<rows, today, crashes>>

Arrive(r, p) ==
  \/ \E op \in (ClientOps \cup AdminOps) \ {"status"} : Start(r, op, p, "inPreparation")
  \/ \E status \in PurchaseStatus : Start(r, "status", p, status)

-----------------------------------------------------------------------------
(* purchases.service.ts *)

IsAllowedTransition(from, to) ==
  <<from, to>> \in {<<"inPreparation", "shipped">>, <<"inPreparation", "cancelled">>,
                    <<"shipped", "delivered">>}

(* updatePurchaseStatus, updatePurchaseAddress: the purchase is read.  An  *)
(* unchanged status, a transition that is not allowed or an address that   *)
(* comes too late end the request.                                         *)
ReadOrder(r) ==
  LET q == request[r]
      now == order[q.purchase]
      ok == IF q.op = "status" THEN /\ q.status # now.status
                                    /\ IsAllowedTransition(now.status, q.status)
            ELSE now.status = "inPreparation"
  IN  /\ q.op \in {"status", "address"} /\ q.step = "read"
      /\ request' = [request EXCEPT ![r] =
           IF ok THEN [q EXCEPT !.step = "write",
                         !.seen = IF q.op = "status" THEN now.dispatchDate ELSE NULL]
           ELSE Idle]
      /\ UNCHANGED <<rows, today, crashes>>

(* The status is written, and the dispatch date that was read: today's on  *)
(* a first dispatch.                                                       *)
WriteStatus(r) ==
  LET q == request[r] IN
  /\ Running(r, "status", "write")
  /\ order' = [order EXCEPT ![q.purchase] =
       [@ EXCEPT !.status = q.status,
                 !.dispatchDate = IF q.status = "shipped" /\ q.seen = NULL
                                  THEN today ELSE q.seen]]
  /\ Finish(r)
  /\ UNCHANGED <<returned, refund, wallet, ledger, today, crashes>>

WriteAddress(r) ==
  /\ Running(r, "address", "write")
  /\ order' = [order EXCEPT ![request[r].purchase].address = "new"]
  /\ Finish(r)
  /\ UNCHANGED <<returned, refund, wallet, ledger, today, crashes>>

-----------------------------------------------------------------------------
(* returns.service.ts *)

(* createReturnRequest: a delivered purchase without a return, not too     *)
(* long after it was dispatched.                                           *)
WithinReturnWindow(p) ==
  today <= ReturnDays + (IF order[p].dispatchDate = NULL THEN 0 ELSE order[p].dispatchDate)

ReadForReturn(r) ==
  LET p == request[r].purchase IN
  /\ Running(r, "askReturn", "read")
  /\ IF order[p].status = "delivered" /\ returned[p] = "none" /\ WithinReturnWindow(p)
     THEN GoTo(r, "write") ELSE Finish(r)
  /\ UNCHANGED <<rows, today, crashes>>

(* The unique purchaseId of the table refuses a second return.             *)
CreateReturn(r) ==
  LET p == request[r].purchase IN
  /\ Running(r, "askReturn", "write")
  /\ returned' = [returned EXCEPT ![p] = IF @ = "none" THEN "pending" ELSE @]
  /\ Finish(r)
  /\ UNCHANGED <<order, refund, wallet, ledger, today, crashes>>

(* Mutant: a return may be decided whatever has become of it.              *)
MayDecideAgain(p) == returned[p] # "none"

MayDecide(p) == returned[p] = "pending"

(* approveReturnRequest and rejectReturnRequest read the return.           *)
ReadReturn(r) ==
  /\ request[r].op \in {"approve", "reject"} /\ request[r].step = "read"
  /\ IF MayDecide(request[r].purchase) THEN GoTo(r, "write") ELSE Finish(r)
  /\ UNCHANGED <<rows, today, crashes>>

(* approveReturnRequest goes on to createAutomaticRefund; a reject is done.*)
Approve(r) ==
  /\ Running(r, "approve", "write")
  /\ returned' = [returned EXCEPT ![request[r].purchase] = "approved"]
  /\ GoTo(r, "refundRead")
  /\ UNCHANGED <<order, refund, wallet, ledger, today, crashes>>

Reject(r) ==
  /\ Running(r, "reject", "write")
  /\ returned' = [returned EXCEPT ![request[r].purchase] = "rejected"]
  /\ Finish(r)
  /\ UNCHANGED <<order, refund, wallet, ledger, today, crashes>>

-----------------------------------------------------------------------------
(* refunds.service.ts *)

IsWithinRefundWindow == today <= RefundDays

RefundIsMissing(p) == refund[p] = "none"

(* Mutant: a refund that comes too late is not recorded.                   *)
AutomaticRefundInTime == IF IsWithinRefundWindow THEN "pending" ELSE "none"

AutomaticRefund == IF IsWithinRefundWindow THEN "pending" ELSE "rejected"

(* createAutomaticRefund, inside approve: nothing to do for a return that  *)
(* is no longer approved or has its refund.                                *)
ReadForAutomaticRefund(r) ==
  LET p == request[r].purchase IN
  /\ Running(r, "approve", "refundRead")
  /\ IF returned[p] = "approved" /\ RefundIsMissing(p)
     THEN GoTo(r, "refundCreate") ELSE Finish(r)
  /\ UNCHANGED <<rows, today, crashes>>

(* The refund is created, rejected when it comes too late; the unique      *)
(* returnId refuses a second one.  A pending one is processed at once.     *)
CreateAutomaticRefund(r) ==
  LET p == request[r].purchase IN
  /\ Running(r, "approve", "refundCreate")
  /\ IF RefundIsMissing(p)
     THEN /\ refund' = [refund EXCEPT ![p] = AutomaticRefund]
          /\ IF IsWithinRefundWindow THEN GoTo(r, "processRead") ELSE Finish(r)
     ELSE Finish(r) /\ UNCHANGED refund
  /\ UNCHANGED <<order, returned, wallet, ledger, today, crashes>>

(* createRefundRequest: the client asks for the refund of an approved      *)
(* return that has none.                                                   *)
ReadForRefundRequest(r) ==
  LET p == request[r].purchase IN
  /\ Running(r, "askRefund", "read")
  /\ IF returned[p] = "approved" /\ RefundIsMissing(p) /\ IsWithinRefundWindow
     THEN GoTo(r, "write") ELSE Finish(r)
  /\ UNCHANGED <<rows, today, crashes>>

CreateRefundRequest(r) ==
  LET p == request[r].purchase IN
  /\ Running(r, "askRefund", "write")
  /\ refund' = [refund EXCEPT ![p] = IF RefundIsMissing(p) THEN "pending" ELSE @]
  /\ Finish(r)
  /\ UNCHANGED <<order, returned, wallet, ledger, today, crashes>>

(* Mutant: the refund is taken from the wallet.                            *)
RecordRefundTaken(c, p) ==
  /\ wallet' = [wallet EXCEPT ![c] = @ - Total[p]]
  /\ ledger' = [ledger EXCEPT ![c] =
       Append(@, [refund |-> p, amount |-> Total[p], balanceAfter |-> wallet[c]])]

(* recordRefundTransaction of wallet.service.ts: the balance grows         *)
(* relatively and the ledger keeps what it has become.                     *)
RecordRefundTransaction(c, p) ==
  /\ wallet' = [wallet EXCEPT ![c] = @ + Total[p]]
  /\ ledger' = [ledger EXCEPT ![c] =
       Append(@, [refund |-> p, amount |-> Total[p], balanceAfter |-> wallet[c] + Total[p]])]

(* Mutant: a refund may be processed whatever its status.                  *)
MayProcessAgain(p) == refund[p] # "none" /\ returned[p] = "approved"

MayProcess(p) == refund[p] = "pending" /\ returned[p] = "approved"

(* processRefund, called by approve or by an administrator: the refund and *)
(* its return are read,                                                    *)
ReadForProcess(r) ==
  /\ Running(r, "process", "read") \/ Running(r, "approve", "processRead")
  /\ IF MayProcess(request[r].purchase) THEN GoTo(r, "credit") ELSE Finish(r)
  /\ UNCHANGED <<rows, today, crashes>>

(* and one transaction marks the refund processed and credits the wallet,  *)
(* without reading either again.                                           *)
ProcessRefund(r) ==
  LET p == request[r].purchase IN
  /\ request[r].op \in {"process", "approve"} /\ request[r].step = "credit"
  /\ refund' = [refund EXCEPT ![p] = "processed"]
  /\ RecordRefundTransaction(Owner[p], p)
  /\ Finish(r)
  /\ UNCHANGED <<order, returned, today, crashes>>

-----------------------------------------------------------------------------
DayPasses ==
  /\ today < MaxDay
  /\ today' = today + 1
  /\ UNCHANGED <<rows, request, crashes>>

(* A request dies with its process; what it has written stays.             *)
Crash(r) ==
  /\ request[r] # Idle /\ crashes < MaxCrashes
  /\ crashes' = crashes + 1
  /\ Finish(r)
  /\ UNCHANGED <<rows, today>>

Step(r) ==
  \/ ReadOrder(r) \/ WriteStatus(r) \/ WriteAddress(r)
  \/ ReadForReturn(r) \/ CreateReturn(r)
  \/ ReadReturn(r) \/ Approve(r) \/ Reject(r)
  \/ ReadForAutomaticRefund(r) \/ CreateAutomaticRefund(r)
  \/ ReadForRefundRequest(r) \/ CreateRefundRequest(r)
  \/ ReadForProcess(r) \/ ProcessRefund(r)

Next == \/ \E r \in Requests : Step(r) \/ Crash(r) \/ \E p \in Purchases : Arrive(r, p)
        \/ DayPasses

Spec == Init /\ [][Next]_vars

(* The process runs what it has accepted.                                  *)
FairSpec == Spec /\ \A r \in Requests : WF_vars(Step(r))

-----------------------------------------------------------------------------
(* Properties *)

TypeOK ==
  /\ order \in [Purchases -> OrderRow]
  /\ returned \in [Purchases -> ReturnStatus]
  /\ refund \in [Purchases -> RefundStatus]
  /\ wallet \in [Clients -> Nat]
  /\ ledger \in [Clients -> Seq(RefundMovement)]
  /\ request \in [Requests -> Request \cup {Idle}]
  /\ today \in 0..MaxDay /\ crashes \in 0..MaxCrashes

(* What is paid back is paid once: a client's ledger names each refund at  *)
(* most once, and names exactly those that are processed.  An approval     *)
(* credits in a call after the one that creates the refund, and may die    *)
(* before; a request to process that follows finds the refund as it was    *)
(* left.  Two administrators' requests that overlap break this.            *)
PaidBackOnce ==
  \A c \in Clients :
    /\ \A i, j \in DOMAIN ledger[c] : ledger[c][i].refund = ledger[c][j].refund => i = j
    /\ {ledger[c][i].refund : i \in DOMAIN ledger[c]}
         = {p \in Purchases : Owner[p] = c /\ refund[p] = "processed"}

(* A refund has an approved return behind it, and the return a delivered   *)
(* purchase: no decision is taken back once money may have followed it.    *)
RefundFollowsReturn ==
  \A p \in Purchases :
    /\ refund[p] # "none" => returned[p] = "approved"
    /\ returned[p] # "none" => order[p].status = "delivered"

(* Every approved return gets its refund, accepted or rejected as too      *)
(* late, unless the server dies over it.  (The refund may stay pending: a  *)
(* client that asks for it between the approval and the automatic refund   *)
(* makes the latter find it and leave it to an administrator.)             *)
ApprovedReturnsGetARefund ==
  \A p \in Purchases : returned[p] = "approved" ~> refund[p] # "none" \/ crashes > 0

(* The three tables together keep the promise of ReturnCase.               *)
Phase(p) ==
  CASE returned[p] = "none" -> "none"
    [] returned[p] = "pending" -> "asked"
    [] returned[p] = "rejected" \/ refund[p] = "rejected" -> "refused"
    [] refund[p] = "processed" -> "refunded"
    [] OTHER -> "accepted"

Case == INSTANCE ReturnCase WITH phase <- [p \in Purchases |-> Phase(p)],
                                 balance <- wallet

ImplementsReturnCase == Case!Spec
=============================================================================
