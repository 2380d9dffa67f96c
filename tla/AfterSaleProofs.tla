--------------------------- MODULE AfterSaleProofs ---------------------------
(***************************************************************************)
(* Proofs that, as long as one administrator works at a time, returns and  *)
(* refunds keep the promise of ReturnCase and every refund is paid once, for*)
(* any number of purchases, clients, requests and crashes.                 *)
(***************************************************************************)
EXTENDS AfterSale, SequenceTheorems, TLAPS

OneAdmin ==
  \A r, s \in Requests : request[r].op \in AdminOps /\ request[s].op \in AdminOps => r = s

(* What a request has read, before it writes, is still so.                 *)
ReadingHolds(q) ==
  LET p == q.purchase IN
  /\ q.op = "status" /\ q.step = "write" =>
       IsAllowedTransition(order[p].status, q.status)
  /\ q.op = "askReturn" /\ q.step = "write" => order[p].status = "delivered"
  /\ q.op \in {"approve", "reject"} /\ q.step = "write" => returned[p] = "pending"
  /\ q.op = "approve" /\ q.step \in {"refundRead", "refundCreate", "processRead"} =>
       returned[p] = "approved"
  /\ q.op = "askRefund" /\ q.step = "write" => returned[p] = "approved"
  /\ q.op \in {"approve", "process"} /\ q.step = "credit" =>
       refund[p] = "pending" /\ returned[p] = "approved"

AfterSaleInv ==
  /\ TypeOK /\ OneAdmin
  /\ \A r \in Requests : ReadingHolds(request[r])
  /\ RefundFollowsReturn /\ PaidBackOnce

(* The condition under which all of this holds.                            *)
OneAdminAtATime == SingleAdmin

-----------------------------------------------------------------------------
(* Requests. *)

LEMMA IdleHolds ==
  Idle.op = "idle" /\ Idle.op \notin AdminOps /\ ReadingHolds(Idle) /\ ReadingHolds(Idle)'
<1>1. Idle.op = "idle"
  BY DEF Idle
<1> QED  BY <1>1 DEF ReadingHolds, AdminOps, Idle

LEMMA RunningIsRequest ==
  ASSUME TypeOK, NEW r \in Requests, request[r].op # "idle"
  PROVE  request[r] \in Request /\ request[r].purchase \in Purchases
<1>1. Idle.op = "idle"
  BY DEF Idle
<1>2. request[r] \in Request
  BY <1>1 DEF TypeOK
<1> QED  BY <1>2 DEF Request

(* The next step of a request, or its end, leaves one administrator.       *)
LEMMA GoOn ==
  ASSUME AfterSaleInv, NEW r \in Requests, NEW c \in Request \cup {Idle},
         request' = [request EXCEPT ![r] = c],
         c.op \in AdminOps => request[r].op \in AdminOps
  PROVE  /\ request' \in [Requests -> Request \cup {Idle}] /\ OneAdmin'
         /\ \A s \in Requests : request'[s] = IF s = r THEN c ELSE request[s]
<1>1. \A s \in Requests : request'[s] = IF s = r THEN c ELSE request[s]
  BY DEF AfterSaleInv, TypeOK
<1>2. OneAdmin'
  BY <1>1 DEF AfterSaleInv, OneAdmin, AdminOps
<1> QED  BY <1>1, <1>2 DEF AfterSaleInv, TypeOK

LEMMA GoToType ==
  ASSUME AfterSaleInv, NEW r \in Requests, request[r].op # "idle", NEW step \in Steps
  PROVE  LET c == [request[r] EXCEPT !.step = step]
         IN  /\ c \in Request /\ c.op = request[r].op /\ c.purchase = request[r].purchase
             /\ c.step = step /\ c.seen = request[r].seen /\ c.status = request[r].status
BY RunningIsRequest DEF AfterSaleInv, Request

(* What does not touch the money, or the tables at all.                    *)
LEMMA PaidPreserved ==
  ASSUME PaidBackOnce, ledger' = ledger,
         \A p \in Purchases : refund'[p] = "processed" <=> refund[p] = "processed"
  PROVE  PaidBackOnce'
<1>1. ASSUME NEW c \in Clients
      PROVE  {p \in Purchases : Owner[p] = c /\ refund'[p] = "processed"}
               = {p \in Purchases : Owner[p] = c /\ refund[p] = "processed"}
  OBVIOUS
<1> QED  BY <1>1 DEF PaidBackOnce

LEMMA RowsKept ==
  ASSUME AfterSaleInv, UNCHANGED rows
  PROVE  RefundFollowsReturn' /\ PaidBackOnce'
<1>1. UNCHANGED <<order, returned, refund, wallet, ledger>>
  BY DEF rows
<1>2. PaidBackOnce'
  BY <1>1, PaidPreserved DEF AfterSaleInv
<1> QED  BY <1>1, <1>2 DEF AfterSaleInv, RefundFollowsReturn

(* A request that has only read.                                           *)
LEMMA ReadPreserves ==
  ASSUME AfterSaleInv, NEW r \in Requests, NEW c \in Request \cup {Idle},
         request' = [request EXCEPT ![r] = c], UNCHANGED rows,
         c.op \in AdminOps => request[r].op \in AdminOps,
         ReadingHolds(c), today' \in 0..MaxDay, crashes' \in 0..MaxCrashes
  PROVE  AfterSaleInv'
<1>1. TypeOK'
  BY GoOn DEF AfterSaleInv, TypeOK, rows, Request, Idle, OrderRow, RefundMovement
<1>2. \A s \in Requests : ReadingHolds(request[s])'
  BY GoOn DEF AfterSaleInv, ReadingHolds, rows, IsAllowedTransition
<1> QED  BY <1>1, <1>2, GoOn, RowsKept DEF AfterSaleInv

LEMMA StepOrEndPreserves ==
  ASSUME AfterSaleInv, NEW r \in Requests, request[r].op # "idle", NEW step \in Steps,
         GoTo(r, step) \/ Finish(r),
         GoTo(r, step) => ReadingHolds([request[r] EXCEPT !.step = step]),
         UNCHANGED rows, today' \in 0..MaxDay, crashes' \in 0..MaxCrashes
  PROVE  AfterSaleInv'
<1>1. CASE Finish(r)
  BY <1>1, IdleHolds, ReadPreserves DEF Finish
<1>2. CASE GoTo(r, step)
  <2> DEFINE c == [request[r] EXCEPT !.step = step]
  <2>1. c \in Request /\ c.op = request[r].op
    BY GoToType
  <2>2. request' = [request EXCEPT ![r] = c] /\ ReadingHolds(c)
    BY <1>2 DEF GoTo
  <2> HIDE DEF c
  <2> QED  BY <2>1, <2>2, ReadPreserves
<1> QED  BY <1>1, <1>2

LEMMA StartPreserves ==
  ASSUME AfterSaleInv, OneAdminAtATime, NEW r \in Requests,
         NEW op \in ClientOps \cup AdminOps, NEW p \in Purchases,
         NEW status \in PurchaseStatus, Start(r, op, p, status)
  PROVE  AfterSaleInv'
<1> DEFINE c == [op |-> op, purchase |-> p, step |-> "read", seen |-> NULL, status |-> status]
<1>1. request' = [request EXCEPT ![r] = c] /\ UNCHANGED <<rows, today, crashes>>
  BY DEF Start
<1>2. c \in Request /\ c.op = op /\ c.step = "read"
  BY DEF Request, Steps
<1>3. op \in AdminOps => \A s \in Requests : request[s].op \notin AdminOps
  BY DEF Start, MayStart, OneAdminAtATime
<1> HIDE DEF c
<1>4. \A s \in Requests : request'[s] = IF s = r THEN c ELSE request[s]
  BY <1>1 DEF AfterSaleInv, TypeOK
<1>5. TypeOK'
  <2>1. request' \in [Requests -> Request \cup {Idle}]
    BY <1>1, <1>2 DEF AfterSaleInv, TypeOK
  <2> QED  BY <1>1, <2>1 DEF AfterSaleInv, TypeOK, rows, Request, Idle, OrderRow, RefundMovement
<1>6. OneAdmin'
  BY <1>2, <1>3, <1>4 DEF AfterSaleInv, OneAdmin, AdminOps
<1>7. \A s \in Requests : ReadingHolds(request[s])'
  BY <1>1, <1>2, <1>4 DEF AfterSaleInv, ReadingHolds, rows, IsAllowedTransition
<1> QED  BY <1>1, <1>5, <1>6, <1>7, RowsKept DEF AfterSaleInv

-----------------------------------------------------------------------------
(* The steps of purchases.service.ts. *)

LEMMA ReadOrderPreserves ==
  ASSUME AfterSaleInv, NEW r \in Requests, ReadOrder(r)
  PROVE  AfterSaleInv'
<1> DEFINE q == request[r]
           seen == IF q.op = "status" THEN order[q.purchase].dispatchDate ELSE NULL
           c == [q EXCEPT !.step = "write", !.seen = seen]
<1>0. TypeOK /\ q.op \in {"status", "address"} /\ UNCHANGED <<rows, today, crashes>>
  BY DEF AfterSaleInv, ReadOrder
<1>1. q \in Request /\ q.purchase \in Purchases
  BY <1>0, RunningIsRequest
<1>2. CASE Finish(r)
  BY <1>0, <1>2, IdleHolds, ReadPreserves DEF Finish, TypeOK
<1>3. CASE ~Finish(r)
  <2>1. /\ request' = [request EXCEPT ![r] = c]
        /\ q.op = "status" => IsAllowedTransition(order[q.purchase].status, q.status)
    BY <1>3 DEF ReadOrder, Finish
  <2>2. order[q.purchase] \in OrderRow
    BY <1>0, <1>1 DEF TypeOK
  <2>3. seen \in (0..MaxDay) \cup {NULL} /\ (q.op = "status" => seen = order[q.purchase].dispatchDate)
    BY <2>2 DEF OrderRow
  <2> HIDE DEF seen
  <2>4. /\ c \in Request /\ c.op = q.op /\ c.purchase = q.purchase /\ c.seen = seen
        /\ c.status = q.status /\ c.step = "write"
    BY <1>1, <2>3 DEF Request, Steps
  <2> HIDE DEF c
  <2>5. ReadingHolds(c)
    BY <1>0, <2>1, <2>3, <2>4 DEF ReadingHolds
  <2> QED  BY <1>0, <2>1, <2>4, <2>5, ReadPreserves DEF TypeOK
<1> QED  BY <1>2, <1>3

LEMMA TransitionCases ==
  ASSUME NEW from, NEW to, IsAllowedTransition(from, to)
  PROVE  /\ from \in {"inPreparation", "shipped"} /\ to \in {"shipped", "cancelled", "delivered"}
         /\ to \in {"shipped", "cancelled"} => from = "inPreparation"
         /\ to = "delivered" => from = "shipped"
BY DEF IsAllowedTransition

(* The status is still what had been read: a delivery cannot be undone.    *)
LEMMA WriteStatusPreserves ==
  ASSUME AfterSaleInv, NEW r \in Requests, WriteStatus(r)
  PROVE  /\ AfterSaleInv'
         /\ \A p \in Purchases : Phase(p)' = Phase(p)
<1> DEFINE q == request[r]
           p0 == q.purchase
           date == IF q.status = "shipped" /\ q.seen = NULL THEN today ELSE q.seen
           row == [order[p0] EXCEPT !.status = q.status, !.dispatchDate = date]
<1>0. TypeOK /\ q.op = "status" /\ q.step = "write"
      /\ UNCHANGED <<returned, refund, wallet, ledger, today, crashes>>
  BY DEF AfterSaleInv, WriteStatus, Running
<1>1. q \in Request /\ p0 \in Purchases
  BY <1>0, RunningIsRequest
<1>2. order' = [order EXCEPT ![p0] = row] /\ request' = [request EXCEPT ![r] = Idle]
  BY DEF WriteStatus, Finish
<1>3. IsAllowedTransition(order[p0].status, q.status)
  BY <1>0 DEF AfterSaleInv, ReadingHolds
<1>4. order[p0] \in OrderRow /\ today \in 0..MaxDay
  BY <1>0, <1>1 DEF TypeOK
<1>5. date \in (0..MaxDay) \cup {NULL}
  BY <1>1, <1>4 DEF Request
<1> HIDE DEF date
<1>8. row \in OrderRow /\ row.status = q.status /\ row.dispatchDate = date
  BY <1>1, <1>4, <1>5 DEF OrderRow, Request
<1> HIDE DEF row
<1>9. \A p \in Purchases : order'[p] = IF p = p0 THEN row ELSE order[p]
  BY <1>0, <1>2 DEF TypeOK
<1>10. /\ request' \in [Requests -> Request \cup {Idle}] /\ OneAdmin'
       /\ \A s \in Requests : request'[s] = IF s = r THEN Idle ELSE request[s]
  BY <1>2, GoOn, IdleHolds
<1>11. TypeOK'
  <2>1. order' \in [Purchases -> OrderRow]
    BY <1>0, <1>2, <1>8 DEF TypeOK
  <2> QED  BY <1>0, <1>10, <2>1 DEF TypeOK, Request, Idle, OrderRow, RefundMovement
<1>12. ASSUME NEW s \in Requests PROVE ReadingHolds(request[s])'
  <2>1. CASE s = r
    BY <1>10, <2>1, IdleHolds DEF ReadingHolds
  <2>2. CASE s # r
    <3>1. request[s].op \notin AdminOps /\ request'[s] = request[s]
      BY <1>0, <1>10, <2>2 DEF AfterSaleInv, OneAdmin, AdminOps
    <3>2. ReadingHolds(request[s])
      BY DEF AfterSaleInv
    <3>3. request[s].op = "askReturn" /\ request[s].step = "write" => request[s].purchase # p0
      BY <1>3, <3>2, TransitionCases DEF ReadingHolds
    <3>4. request[s].op = "askReturn" => request[s].purchase \in Purchases
      BY <1>0, RunningIsRequest
    <3> QED  BY <1>0, <1>9, <3>1, <3>2, <3>3, <3>4 DEF ReadingHolds, AdminOps
  <2> QED  BY <2>1, <2>2
<1>14. RefundFollowsReturn'
  <2>1. returned[p0] = "none"
    BY <1>1, <1>3, TransitionCases DEF AfterSaleInv, RefundFollowsReturn
  <2> QED  BY <1>0, <1>9, <2>1 DEF AfterSaleInv, RefundFollowsReturn
<1>15. PaidBackOnce'
  BY <1>0, PaidPreserved DEF AfterSaleInv
<1>17. \A p \in Purchases : Phase(p)' = Phase(p)
  BY <1>0 DEF Phase
<1> QED  BY <1>10, <1>11, <1>12, <1>14, <1>15, <1>17 DEF AfterSaleInv

LEMMA WriteAddressPreserves ==
  ASSUME AfterSaleInv, NEW r \in Requests, WriteAddress(r)
  PROVE  /\ AfterSaleInv'
         /\ \A p \in Purchases : order'[p].dispatchDate = order[p].dispatchDate
                                 /\ order'[p].status = order[p].status
<1> DEFINE p0 == request[r].purchase
<1>0. TypeOK /\ request[r].op = "address"
      /\ UNCHANGED <<returned, refund, wallet, ledger, today, crashes>>
  BY DEF AfterSaleInv, WriteAddress, Running
<1>1. p0 \in Purchases
  BY <1>0, RunningIsRequest
<1>2. order' = [order EXCEPT ![p0] = [order[p0] EXCEPT !.address = "new"]]
      /\ request' = [request EXCEPT ![r] = Idle]
  BY DEF WriteAddress, Finish
<1>3. order[p0] \in OrderRow
  BY <1>0, <1>1 DEF TypeOK
<1>4. order' \in [Purchases -> OrderRow]
  <2>1. [order[p0] EXCEPT !.address = "new"] \in OrderRow
    BY <1>3 DEF OrderRow
  <2> QED  BY <1>0, <1>2, <2>1 DEF TypeOK
<1>5. \A p \in Purchases : order'[p].dispatchDate = order[p].dispatchDate
                          /\ order'[p].status = order[p].status
  BY <1>0, <1>2, <1>3 DEF TypeOK, OrderRow
<1>6. /\ request' \in [Requests -> Request \cup {Idle}] /\ OneAdmin'
      /\ \A s \in Requests : request'[s] = IF s = r THEN Idle ELSE request[s]
  BY <1>2, GoOn, IdleHolds
<1>7. TypeOK'
  BY <1>0, <1>4, <1>6 DEF TypeOK, Request, Idle, OrderRow, RefundMovement
<1>8. ASSUME NEW s \in Requests PROVE ReadingHolds(request[s])'
  <2>1. CASE s = r
    BY <1>6, <2>1, IdleHolds DEF ReadingHolds
  <2>2. CASE s # r
    <3>1. ReadingHolds(request[s]) /\ request'[s] = request[s]
      BY <1>6, <2>2 DEF AfterSaleInv
    <3>2. request[s].op # "idle" => request[s].purchase \in Purchases
      BY <1>0, RunningIsRequest
    <3> QED  BY <1>0, <1>5, <3>1, <3>2 DEF ReadingHolds
  <2> QED  BY <2>1, <2>2
<1>9. RefundFollowsReturn' /\ PaidBackOnce'
  BY <1>0, <1>5, PaidPreserved DEF AfterSaleInv, RefundFollowsReturn
<1> QED  BY <1>5, <1>6, <1>7, <1>8, <1>9 DEF AfterSaleInv

-----------------------------------------------------------------------------
(* The steps of returns.service.ts and refunds.service.ts. *)

(* A return is asked for, or decided by the one administrator.             *)
LEMMA ReturnChanges ==
  ASSUME AfterSaleInv, NEW r \in Requests, NEW p0 \in Purchases,
         NEW to \in {"pending", "approved", "rejected"}, NEW c \in Request \cup {Idle},
         request' = [request EXCEPT ![r] = c],
         returned' = [returned EXCEPT ![p0] = to],
         UNCHANGED <<order, refund, wallet, ledger, today, crashes>>,
         c.op \in AdminOps => request[r].op \in AdminOps,
         c.op # "idle" => /\ c.op = "approve" /\ c.step = "refundRead" /\ c.purchase = p0
                          /\ to = "approved",
         \/ to = returned[p0]
         \/ returned[p0] = "none" /\ order[p0].status = "delivered"
         \/ returned[p0] = "pending" /\ request[r].op \in AdminOps
  PROVE  AfterSaleInv'
<1>1. /\ request' \in [Requests -> Request \cup {Idle}] /\ OneAdmin'
      /\ \A s \in Requests : request'[s] = IF s = r THEN c ELSE request[s]
  BY GoOn
<1>2. \A p \in Purchases : returned'[p] = IF p = p0 THEN to ELSE returned[p]
  BY DEF AfterSaleInv, TypeOK
<1>3. TypeOK'
  <2>1. returned' \in [Purchases -> ReturnStatus]
    BY DEF AfterSaleInv, TypeOK, ReturnStatus
  <2> QED  BY <1>1, <2>1 DEF AfterSaleInv, TypeOK, Request, Idle, OrderRow, RefundMovement
<1>4. ASSUME NEW s \in Requests PROVE ReadingHolds(request[s])'
  <2>1. CASE s = r
    BY <1>1, <1>2, <2>1 DEF ReadingHolds
  <2>2. CASE s # r
    <3>1. ReadingHolds(request[s]) /\ request'[s] = request[s]
      BY <1>1, <2>2 DEF AfterSaleInv
    <3>2. request[s].op # "idle" => request[s].purchase \in Purchases
      BY RunningIsRequest DEF AfterSaleInv
    <3>3. request[r].op \in AdminOps => request[s].op \notin AdminOps
      BY <2>2 DEF AfterSaleInv, OneAdmin
    <3> QED  BY <1>2, <3>1, <3>2, <3>3 DEF ReadingHolds, AdminOps
  <2> QED  BY <2>1, <2>2
<1>5. RefundFollowsReturn'
  BY <1>2 DEF AfterSaleInv, RefundFollowsReturn
<1>6. PaidBackOnce'
  BY PaidPreserved DEF AfterSaleInv
<1> QED  BY <1>1, <1>3, <1>4, <1>5, <1>6 DEF AfterSaleInv

(* The refund of an approved return is recorded.                           *)
LEMMA RefundRecorded ==
  ASSUME AfterSaleInv, NEW r \in Requests, NEW p0 \in Purchases,
         NEW to \in {"pending", "rejected"}, NEW c \in Request \cup {Idle},
         request' = [request EXCEPT ![r] = c],
         refund' = [refund EXCEPT ![p0] = to],
         UNCHANGED <<order, returned, wallet, ledger, today, crashes>>,
         c.op \in AdminOps => request[r].op \in AdminOps,
         c.op # "idle" => c.op = "approve" /\ c.step = "processRead" /\ c.purchase = p0,
         refund[p0] = "none", returned[p0] = "approved"
  PROVE  AfterSaleInv'
<1>1. /\ request' \in [Requests -> Request \cup {Idle}] /\ OneAdmin'
      /\ \A s \in Requests : request'[s] = IF s = r THEN c ELSE request[s]
  BY GoOn
<1>2. \A p \in Purchases : refund'[p] = IF p = p0 THEN to ELSE refund[p]
  BY DEF AfterSaleInv, TypeOK
<1>3. TypeOK'
  <2>1. refund' \in [Purchases -> RefundStatus]
    BY DEF AfterSaleInv, TypeOK, RefundStatus
  <2> QED  BY <1>1, <2>1 DEF AfterSaleInv, TypeOK, Request, Idle, OrderRow, RefundMovement
<1>4. ASSUME NEW s \in Requests PROVE ReadingHolds(request[s])'
  <2>1. CASE s = r
    BY <1>1, <2>1 DEF ReadingHolds
  <2>2. CASE s # r
    <3>1. ReadingHolds(request[s]) /\ request'[s] = request[s]
      BY <1>1, <2>2 DEF AfterSaleInv
    <3>2. request[s].op # "idle" => request[s].purchase \in Purchases
      BY RunningIsRequest DEF AfterSaleInv
    <3> QED  BY <1>2, <3>1, <3>2 DEF ReadingHolds
  <2> QED  BY <2>1, <2>2
<1>5. RefundFollowsReturn'
  BY <1>2 DEF AfterSaleInv, RefundFollowsReturn
<1>6. PaidBackOnce'
  BY <1>2, PaidPreserved DEF AfterSaleInv
<1> QED  BY <1>1, <1>3, <1>4, <1>5, <1>6 DEF AfterSaleInv

(* Each read, and the reads that follow a write.                           *)
LEMMA ReadsPreserve ==
  ASSUME AfterSaleInv, NEW r \in Requests,
         \/ ReadForReturn(r) \/ ReadReturn(r) \/ ReadForAutomaticRefund(r)
         \/ ReadForRefundRequest(r) \/ ReadForProcess(r)
  PROVE  AfterSaleInv'
<1> DEFINE q == request[r]
<1>0. /\ UNCHANGED rows /\ today' \in 0..MaxDay /\ crashes' \in 0..MaxCrashes
      /\ q.op # "idle"
  BY DEF AfterSaleInv, TypeOK, ReadForReturn, ReadReturn, ReadForAutomaticRefund,
         ReadForRefundRequest, ReadForProcess, Running
<1>1. \A step \in Steps : LET c == [q EXCEPT !.step = step]
                         IN  c.op = q.op /\ c.step = step /\ c.purchase = q.purchase
  BY <1>0, GoToType
<1>2. CASE ReadForReturn(r)
  <2>1. GoTo(r, "write") \/ Finish(r)
    BY <1>2 DEF ReadForReturn
  <2>2. GoTo(r, "write") => Finish(r) \/ ReadingHolds([q EXCEPT !.step = "write"])
    BY <1>1, <1>2 DEF ReadForReturn, ReadingHolds, Running, Steps
  <2> QED  BY <1>0, <2>1, <2>2, StepOrEndPreserves, IdleHolds, ReadPreserves DEF Steps, Finish
<1>3. CASE ReadReturn(r)
  <2>1. GoTo(r, "write") \/ Finish(r)
    BY <1>3 DEF ReadReturn
  <2>2. GoTo(r, "write") => Finish(r) \/ ReadingHolds([q EXCEPT !.step = "write"])
    BY <1>1, <1>3 DEF ReadReturn, ReadingHolds, MayDecide, Steps
  <2> QED  BY <1>0, <2>1, <2>2, StepOrEndPreserves, IdleHolds, ReadPreserves DEF Steps, Finish
<1>4. CASE ReadForAutomaticRefund(r)
  <2>1. GoTo(r, "refundCreate") \/ Finish(r)
    BY <1>4 DEF ReadForAutomaticRefund
  <2>2. GoTo(r, "refundCreate") => Finish(r) \/ ReadingHolds([q EXCEPT !.step = "refundCreate"])
    BY <1>1, <1>4 DEF ReadForAutomaticRefund, ReadingHolds, Running, Steps
  <2> QED  BY <1>0, <2>1, <2>2, StepOrEndPreserves, IdleHolds, ReadPreserves DEF Steps, Finish
<1>5. CASE ReadForRefundRequest(r)
  <2>1. GoTo(r, "write") \/ Finish(r)
    BY <1>5 DEF ReadForRefundRequest
  <2>2. GoTo(r, "write") => Finish(r) \/ ReadingHolds([q EXCEPT !.step = "write"])
    BY <1>1, <1>5 DEF ReadForRefundRequest, ReadingHolds, Running, Steps
  <2> QED  BY <1>0, <2>1, <2>2, StepOrEndPreserves, IdleHolds, ReadPreserves DEF Steps, Finish
<1>6. CASE ReadForProcess(r)
  <2>1. GoTo(r, "credit") \/ Finish(r)
    BY <1>6 DEF ReadForProcess
  <2>2. GoTo(r, "credit") => Finish(r) \/ ReadingHolds([q EXCEPT !.step = "credit"])
    BY <1>1, <1>6 DEF ReadForProcess, ReadingHolds, MayProcess, Running, Steps
  <2> QED  BY <1>0, <2>1, <2>2, StepOrEndPreserves, IdleHolds, ReadPreserves DEF Steps, Finish
<1> QED  BY <1>2, <1>3, <1>4, <1>5, <1>6

-----------------------------------------------------------------------------
(* What a step means for the case. *)

CaseStep == [Case!Next]_<<[p \in Purchases |-> Phase(p)], wallet>>

LEMMA PhaseKept ==
  ASSUME \A p \in Purchases : Phase(p)' = Phase(p), wallet' = wallet
  PROVE  CaseStep
<1>1. [p \in Purchases |-> Phase(p)]' = [p \in Purchases |-> Phase(p)]
  OBVIOUS
<1> QED  BY <1>1 DEF CaseStep

LEMMA PhaseMoves ==
  ASSUME NEW p0 \in Purchases, wallet' = wallet,
         \A p \in Purchases \ {p0} : Phase(p)' = Phase(p),
         <<Phase(p0), Phase(p0)'>> \in {<<"none", "asked">>, <<"asked", "accepted">>,
                                       <<"asked", "refused">>, <<"accepted", "refused">>}
  PROVE  CaseStep
<1> DEFINE phases == [p \in Purchases |-> Phase(p)]
<1>1. phases' = [phases EXCEPT ![p0] = Phase(p0)']
  OBVIOUS
<1>2. phases[p0] = Phase(p0)
  OBVIOUS
<1>3. \/ phases[p0] = "none" /\ phases' = [phases EXCEPT ![p0] = "asked"]
      \/ phases[p0] = "asked" /\ phases' = [phases EXCEPT ![p0] = "accepted"]
      \/ /\ phases[p0] = "asked" \/ phases[p0] = "accepted"
         /\ phases' = [phases EXCEPT ![p0] = "refused"]
  <2> HIDE DEF phases
  <2> QED  BY <1>1, <1>2
<1>4. Case!Ask(p0) \/ Case!Accept(p0) \/ Case!Refuse(p0)
  BY <1>3 DEF Case!Ask, Case!Accept, Case!Refuse, Case!Decide
<1> QED  BY <1>4 DEF CaseStep, Case!Next

LEMMA RowsKeptCase == ASSUME UNCHANGED rows PROVE CaseStep
<1>1. \A p \in Purchases : Phase(p)' = Phase(p)
  BY DEF rows, Phase
<1>2. wallet' = wallet
  BY DEF rows
<1> QED  BY <1>1, <1>2, PhaseKept

-----------------------------------------------------------------------------
(* The writes, and what they mean for the case. *)

LEMMA CreateReturnPreserves ==
  ASSUME AfterSaleInv, NEW r \in Requests, CreateReturn(r)
  PROVE  AfterSaleInv' /\ CaseStep
<1>0. TypeOK /\ request[r].op = "askReturn" /\ request[r].step = "write"
  BY DEF AfterSaleInv, CreateReturn, Running
<1>1. PICK p0 \in Purchases : p0 = request[r].purchase
  BY <1>0, RunningIsRequest
<1>2. returned[p0] \in ReturnStatus
  BY <1>0, <1>1 DEF TypeOK
<1>3. PICK to \in {"pending", "approved", "rejected"} :
        to = IF returned[p0] = "none" THEN "pending" ELSE returned[p0]
  BY <1>2 DEF ReturnStatus
<1>4. /\ request' = [request EXCEPT ![r] = Idle]
      /\ returned' = [returned EXCEPT ![p0] = to]
      /\ UNCHANGED <<order, refund, wallet, ledger, today, crashes>>
  BY <1>1, <1>3 DEF CreateReturn, Finish
<1>5. order[p0].status = "delivered"
  BY <1>0, <1>1 DEF AfterSaleInv, ReadingHolds
<1>6. AfterSaleInv'
  BY <1>3, <1>4, <1>5, IdleHolds, ReturnChanges
<1>7. \A p \in Purchases : returned'[p] = IF p = p0 THEN to ELSE returned[p]
  BY <1>0, <1>4 DEF TypeOK
<1>8. CASE returned[p0] = "none"
  <2>1. Phase(p0) = "none" /\ Phase(p0)' = "asked"
    <3>1. returned'[p0] = "pending" /\ refund[p0] = "none" /\ refund'[p0] = "none"
      BY <1>3, <1>4, <1>7, <1>8 DEF AfterSaleInv, RefundFollowsReturn
    <3>2. Phase(p0) = "none"
      BY <1>8, <3>1 DEF Phase
    <3>3. Phase(p0)' = "asked"
      BY <3>1 DEF Phase
    <3> QED  BY <3>2, <3>3
  <2>2. \A p \in Purchases \ {p0} : Phase(p)' = Phase(p)
    BY <1>4, <1>7 DEF Phase
  <2> QED  BY <1>4, <1>6, <2>1, <2>2, PhaseMoves
<1>9. CASE returned[p0] # "none"
  <2>1. \A p \in Purchases : Phase(p)' = Phase(p)
    BY <1>3, <1>4, <1>7, <1>9 DEF Phase
  <2> QED  BY <1>4, <1>6, <2>1, PhaseKept
<1> QED  BY <1>8, <1>9

LEMMA DecidePreserves ==
  ASSUME AfterSaleInv, NEW r \in Requests, Approve(r) \/ Reject(r)
  PROVE  AfterSaleInv' /\ CaseStep
<1>0. /\ TypeOK /\ request[r].op \in {"approve", "reject"} /\ request[r].step = "write"
      /\ UNCHANGED <<order, refund, wallet, ledger, today, crashes>>
  BY DEF AfterSaleInv, Approve, Reject, Running
<1>1. /\ \E p \in Purchases : p = request[r].purchase
      /\ request[r].op \in AdminOps /\ request[r].op # "idle"
  BY <1>0, RunningIsRequest DEF AdminOps
<1>2. PICK p0 \in Purchases : p0 = request[r].purchase
  BY <1>1
<1>3. PICK to \in {"approved", "rejected"} :
        to = IF request[r].op = "approve" THEN "approved" ELSE "rejected"
  OBVIOUS
<1> DEFINE c == IF request[r].op = "approve" THEN [request[r] EXCEPT !.step = "refundRead"] ELSE Idle
<1>4. /\ request' = [request EXCEPT ![r] = c]
      /\ returned' = [returned EXCEPT ![p0] = to]
  BY <1>2, <1>3 DEF Approve, Reject, Running, GoTo, Finish
<1>5. returned[p0] = "pending"
  BY <1>0, <1>2 DEF AfterSaleInv, ReadingHolds
<1>6. /\ c \in Request \cup {Idle}
      /\ c.op # "idle" => /\ c.op = "approve" /\ c.step = "refundRead" /\ c.purchase = p0
                          /\ to = "approved"
  BY <1>0, <1>1, <1>2, <1>3, GoToType, IdleHolds DEF Steps
<1> HIDE DEF c
<1>7. AfterSaleInv'
  BY <1>0, <1>1, <1>4, <1>5, <1>6, ReturnChanges
<1>8. \A p \in Purchases : returned'[p] = IF p = p0 THEN to ELSE returned[p]
  BY <1>0, <1>4 DEF TypeOK
<1>9. refund[p0] = "none"
  BY <1>5 DEF AfterSaleInv, RefundFollowsReturn
<1>10. Phase(p0) = "asked" /\ Phase(p0)' = IF to = "approved" THEN "accepted" ELSE "refused"
  BY <1>0, <1>5, <1>8, <1>9 DEF Phase
<1>11. \A p \in Purchases \ {p0} : Phase(p)' = Phase(p)
  BY <1>0, <1>8 DEF Phase
<1> QED  BY <1>0, <1>7, <1>10, <1>11, PhaseMoves

(* Either way a refund is recorded only for a return that has none.        *)
LEMMA RecordPreserves ==
  ASSUME AfterSaleInv, NEW r \in Requests,
         CreateAutomaticRefund(r) \/ CreateRefundRequest(r)
  PROVE  AfterSaleInv' /\ CaseStep
<1>0. /\ TypeOK /\ request[r].op \in {"approve", "askRefund"}
      /\ UNCHANGED <<order, returned, wallet, ledger, today, crashes>>
  BY DEF AfterSaleInv, CreateAutomaticRefund, CreateRefundRequest, Running
<1>1. request[r].op # "idle"
  BY <1>0
<1>5. PICK p0 \in Purchases : p0 = request[r].purchase
  BY <1>0, <1>1, RunningIsRequest
<1>2. returned[p0] = "approved"
  BY <1>5 DEF AfterSaleInv, ReadingHolds, CreateAutomaticRefund, CreateRefundRequest, Running
<1>3. CASE refund[p0] # "none"
  <2>1. request' = [request EXCEPT ![r] = Idle] /\ refund' = refund
    BY <1>0, <1>5, <1>3
       DEF CreateAutomaticRefund, CreateRefundRequest, RefundIsMissing, Finish, TypeOK
  <2>2. UNCHANGED rows
    BY <1>0, <2>1 DEF rows
  <2> QED  BY <1>0, <2>1, <2>2, IdleHolds, ReadPreserves, RowsKeptCase DEF TypeOK
<1>4. CASE refund[p0] = "none"
  <2> DEFINE goOn == [request[r] EXCEPT !.step = "processRead"]
  <2>1. /\ goOn \in Request /\ goOn.op = request[r].op /\ goOn.step = "processRead"
        /\ goOn.purchase = p0
    BY <1>1, <1>5, GoToType DEF Steps
  <2>2. \/ request' = [request EXCEPT ![r] = Idle]
        \/ request[r].op = "approve" /\ request' = [request EXCEPT ![r] = goOn]
    BY <1>4, <1>5 DEF CreateAutomaticRefund, CreateRefundRequest, RefundIsMissing, Finish, GoTo,
                      Running
  <2> HIDE DEF goOn
  <2>3. \E to \in {"pending", "rejected"} : refund' = [refund EXCEPT ![p0] = to]
    BY <1>4, <1>5 DEF CreateAutomaticRefund, CreateRefundRequest, RefundIsMissing, AutomaticRefund
  <2>4. PICK to \in {"pending", "rejected"} : refund' = [refund EXCEPT ![p0] = to]
    BY <2>3
  <2>5. AfterSaleInv'
    <3>1. CASE request' = [request EXCEPT ![r] = Idle]
      BY <1>0, <1>2, <1>4, <2>4, <3>1, IdleHolds, RefundRecorded
    <3>2. CASE request[r].op = "approve" /\ request' = [request EXCEPT ![r] = goOn]
      BY <1>0, <1>2, <1>4, <2>1, <2>4, <3>2, RefundRecorded
    <3> QED  BY <2>2, <3>1, <3>2
  <2>6. \A p \in Purchases : refund'[p] = IF p = p0 THEN to ELSE refund[p]
    BY <1>0, <2>4 DEF TypeOK
  <2>7. \A p \in Purchases \ {p0} : Phase(p)' = Phase(p)
    BY <1>0, <2>6 DEF Phase
  <2>8. Phase(p0) = "accepted" /\ Phase(p0)' = IF to = "pending" THEN "accepted" ELSE "refused"
    BY <1>0, <1>2, <1>4, <2>6 DEF Phase
  <2>9. CASE to = "pending"
    <3>1. \A p \in Purchases : Phase(p)' = Phase(p)
      BY <2>7, <2>8, <2>9
    <3> QED  BY <1>0, <2>5, <3>1, PhaseKept
  <2>10. CASE to = "rejected"
    BY <1>0, <2>5, <2>7, <2>8, <2>10, PhaseMoves
  <2> QED  BY <2>9, <2>10
<1> QED  BY <1>3, <1>4

(* One payment more, of a refund that was not paid.                        *)
LEMMA ProcessRefundPreserves ==
  ASSUME AfterSaleInv, NEW r \in Requests, ProcessRefund(r)
  PROVE  AfterSaleInv' /\ CaseStep
<1>0. /\ TypeOK /\ request[r].op \in {"process", "approve"} /\ request[r].step = "credit"
      /\ UNCHANGED <<order, returned, today, crashes>>
  BY DEF AfterSaleInv, ProcessRefund
<1>1. request[r].op # "idle" /\ request[r].op \in AdminOps
  BY <1>0 DEF AdminOps
<1>2. PICK p0 \in Purchases : p0 = request[r].purchase
  BY <1>0, <1>1, RunningIsRequest
<1>3. PICK c0 \in Clients : c0 = Owner[p0]
  BY AfterSaleConstants
<1>4. refund[p0] = "pending" /\ returned[p0] = "approved"
  BY <1>0, <1>2 DEF AfterSaleInv, ReadingHolds
<1>5. wallet[c0] \in Nat /\ Total[p0] \in Nat /\ ledger[c0] \in Seq(RefundMovement)
  BY <1>0, AfterSaleConstants DEF TypeOK
<1> DEFINE m == [refund |-> p0, amount |-> Total[p0], balanceAfter |-> wallet[c0] + Total[p0]]
<1>6. /\ request' = [request EXCEPT ![r] = Idle]
      /\ refund' = [refund EXCEPT ![p0] = "processed"]
      /\ wallet' = [wallet EXCEPT ![c0] = wallet[c0] + Total[p0]]
      /\ ledger' = [ledger EXCEPT ![c0] = Append(ledger[c0], m)]
  BY <1>2, <1>3 DEF ProcessRefund, RecordRefundTransaction, Finish
<1>7. m \in RefundMovement /\ m.refund = p0
  BY <1>5 DEF RefundMovement
<1> HIDE DEF m
<1>8. /\ request' \in [Requests -> Request \cup {Idle}] /\ OneAdmin'
      /\ \A s \in Requests : request'[s] = IF s = r THEN Idle ELSE request[s]
  BY <1>6, GoOn, IdleHolds
<1>9. /\ \A p \in Purchases : refund'[p] = IF p = p0 THEN "processed" ELSE refund[p]
      /\ \A c \in Clients : ledger'[c] = IF c = c0 THEN Append(ledger[c0], m) ELSE ledger[c]
  BY <1>0, <1>6 DEF TypeOK
<1>10. TypeOK'
  <2>1. refund' \in [Purchases -> RefundStatus]
    BY <1>0, <1>6 DEF TypeOK, RefundStatus
  <2>2. wallet' \in [Clients -> Nat]
    BY <1>0, <1>5, <1>6 DEF TypeOK
  <2>3. Append(ledger[c0], m) \in Seq(RefundMovement)
    BY <1>5, <1>7, AppendProperties
  <2>4. ledger' \in [Clients -> Seq(RefundMovement)]
    BY <1>0, <1>6, <2>3 DEF TypeOK
  <2> QED  BY <1>0, <1>8, <2>1, <2>2, <2>4 DEF TypeOK, Request, Idle, OrderRow, RefundMovement
<1>11. ASSUME NEW s \in Requests PROVE ReadingHolds(request[s])'
  <2>1. CASE s = r
    BY <1>8, <2>1, IdleHolds DEF ReadingHolds
  <2>2. CASE s # r
    <3>1. ReadingHolds(request[s]) /\ request'[s] = request[s]
      BY <1>8, <2>2 DEF AfterSaleInv
    <3>2. request[s].op \notin AdminOps
      BY <1>1, <2>2 DEF AfterSaleInv, OneAdmin
    <3> QED  BY <1>0, <3>1, <3>2 DEF ReadingHolds, AdminOps
  <2> QED  BY <2>1, <2>2
<1>12. RefundFollowsReturn'
  BY <1>0, <1>4, <1>9 DEF AfterSaleInv, RefundFollowsReturn
<1>13. PaidBackOnce'
  <2>1. ASSUME NEW c \in Clients, c # c0
        PROVE  /\ \A i, j \in DOMAIN ledger'[c] : ledger'[c][i].refund = ledger'[c][j].refund => i = j
               /\ {ledger'[c][i].refund : i \in DOMAIN ledger'[c]}
                    = {p \in Purchases : Owner[p] = c /\ refund'[p] = "processed"}
    <3>1. ledger'[c] = ledger[c]
      BY <1>9, <2>1
    <3>2. \A p \in Purchases : Owner[p] = c => refund'[p] = refund[p]
      BY <1>3, <1>9, <2>1
    <3>3. {p \in Purchases : Owner[p] = c /\ refund'[p] = "processed"}
            = {p \in Purchases : Owner[p] = c /\ refund[p] = "processed"}
      BY <3>2
    <3> QED  BY <3>1, <3>3 DEF AfterSaleInv, PaidBackOnce
  <2>2. /\ \A i, j \in DOMAIN ledger'[c0] : ledger'[c0][i].refund = ledger'[c0][j].refund => i = j
        /\ {ledger'[c0][i].refund : i \in DOMAIN ledger'[c0]}
             = {p \in Purchases : Owner[p] = c0 /\ refund'[p] = "processed"}
    <3> DEFINE old == ledger[c0]
               new == Append(old, m)
               last == Len(old) + 1
               paid == {p \in Purchases : Owner[p] = c0 /\ refund[p] = "processed"}
    <3>1. /\ \A i, j \in DOMAIN old : old[i].refund = old[j].refund => i = j
          /\ {old[i].refund : i \in DOMAIN old} = paid
      BY DEF AfterSaleInv, PaidBackOnce
    <3>2. p0 \notin paid
      BY <1>4
    <3>3. {p \in Purchases : Owner[p] = c0 /\ refund'[p] = "processed"} = paid \cup {p0}
      BY <1>3, <1>9
    <3>4. /\ DOMAIN new = DOMAIN old \cup {last} /\ last \notin DOMAIN old
          /\ \A i \in DOMAIN old : new[i] = old[i]
          /\ new[last] = m
      <4>1. DOMAIN old = 1..Len(old) /\ Len(old) \in Nat
        BY <1>5, ElementOfSeq
      <4> QED  BY <1>5, <1>7, <4>1, AppendProperties
    <3> HIDE DEF old, new, last, paid
    <3>5. \A i \in DOMAIN old : new[i].refund \in paid /\ new[i].refund # p0
      BY <3>1, <3>2, <3>4
    <3>6. \A i, j \in DOMAIN new : new[i].refund = new[j].refund => i = j
      BY <1>7, <3>1, <3>4, <3>5
    <3>7. {new[i].refund : i \in DOMAIN new} = paid \cup {p0}
      <4>1. {new[i].refund : i \in DOMAIN new} = {old[i].refund : i \in DOMAIN old} \cup {m.refund}
        BY <3>4
      <4> QED  BY <1>7, <3>1, <4>1
    <3>8. ledger'[c0] = new
      BY <1>9 DEF new, old
    <3> QED  BY <3>3, <3>6, <3>7, <3>8
  <2>3. ASSUME NEW c \in Clients
        PROVE  /\ \A i, j \in DOMAIN ledger'[c] : ledger'[c][i].refund = ledger'[c][j].refund => i = j
               /\ {ledger'[c][i].refund : i \in DOMAIN ledger'[c]}
                    = {p \in Purchases : Owner[p] = c /\ refund'[p] = "processed"}
    BY <2>1, <2>2
  <2> QED  BY <2>3 DEF PaidBackOnce
<1>14. CaseStep
  <2> DEFINE phases == [p \in Purchases |-> Phase(p)]
  <2>1. Phase(p0) = "accepted"
    BY <1>4 DEF Phase
  <2>2. Phase(p0)' = "refunded"
    <3>1. refund'[p0] = "processed" /\ returned'[p0] = "approved"
      BY <1>0, <1>4, <1>9
    <3> QED  BY <3>1 DEF Phase
  <2>3. \A p \in Purchases \ {p0} : Phase(p)' = Phase(p)
    BY <1>0, <1>9 DEF Phase
  <2>4. phases[p0] = "accepted" /\ phases' = [phases EXCEPT ![p0] = "refunded"]
    BY <2>1, <2>2, <2>3
  <2>5. wallet' = [wallet EXCEPT ![Owner[p0]] = wallet[Owner[p0]] + Total[p0]]
    BY <1>3, <1>6
  <2>6. Case!PayBack(p0)
    BY <2>4, <2>5 DEF Case!PayBack
  <2> QED  BY <2>6 DEF CaseStep, Case!Next
<1> QED  BY <1>8, <1>10, <1>11, <1>12, <1>13, <1>14 DEF AfterSaleInv

-----------------------------------------------------------------------------
(* The invariant and the theorems. *)

LEMMA InitAfterSale ==
  Init => AfterSaleInv /\ Case!Init
<1> SUFFICES ASSUME Init PROVE AfterSaleInv /\ Case!Init
  OBVIOUS
<1>1. TypeOK
  <2>1. 0 \in 0..MaxDay /\ 0 \in 0..MaxCrashes
    BY AfterSaleConstants
  <2> QED  BY <2>1 DEF Init, TypeOK, OrderRow, PurchaseStatus, ReturnStatus, RefundStatus
<1>2. \A r \in Requests : request[r] = Idle
  BY DEF Init
<1>3. OneAdmin /\ \A r \in Requests : ReadingHolds(request[r])
  BY <1>2, IdleHolds DEF OneAdmin
<1>4. RefundFollowsReturn
  BY DEF Init, RefundFollowsReturn
<1>5. PaidBackOnce
  <2>1. \A c \in Clients : DOMAIN ledger[c] = {}
    BY DEF Init
  <2>2. \A c \in Clients : {ledger[c][i].refund : i \in DOMAIN ledger[c]} = {}
    BY <2>1
  <2>3. \A c \in Clients : {p \in Purchases : Owner[p] = c /\ refund[p] = "processed"} = {}
    BY DEF Init
  <2> QED  BY <2>1, <2>2, <2>3 DEF PaidBackOnce
<1>6. Case!Init
  <2>1. \A p \in Purchases : Phase(p) = "none"
    BY DEF Init, Phase
  <2> QED  BY <2>1 DEF Case!Init, Init
<1> QED  BY <1>1, <1>3, <1>4, <1>5, <1>6 DEF AfterSaleInv

LEMMA NextAfterSale ==
  ASSUME AfterSaleInv, OneAdminAtATime, [Next]_vars
  PROVE  AfterSaleInv' /\ CaseStep
<1>0. TypeOK
  BY DEF AfterSaleInv
<1>1. ASSUME NEW r \in Requests, WriteStatus(r)
      PROVE  AfterSaleInv' /\ CaseStep
  <2>1. wallet' = wallet
    BY <1>1 DEF WriteStatus
  <2> QED  BY <1>1, <2>1, WriteStatusPreserves, PhaseKept
<1>2. ASSUME NEW r \in Requests, WriteAddress(r)
      PROVE  AfterSaleInv' /\ CaseStep
  <2>1. /\ AfterSaleInv'
        /\ \A p \in Purchases : order'[p].dispatchDate = order[p].dispatchDate
                               /\ order'[p].status = order[p].status
    BY <1>2, WriteAddressPreserves
  <2>2. wallet' = wallet /\ \A p \in Purchases : Phase(p)' = Phase(p)
    BY <1>2 DEF WriteAddress, Phase
  <2> QED  BY <2>1, <2>2, PhaseKept
<1>3. ASSUME NEW r \in Requests, ReadOrder(r)
      PROVE  AfterSaleInv' /\ CaseStep
  BY <1>3, ReadOrderPreserves, RowsKeptCase DEF ReadOrder, rows
<1>4. ASSUME NEW r \in Requests,
             \/ ReadForReturn(r) \/ ReadReturn(r) \/ ReadForAutomaticRefund(r)
             \/ ReadForRefundRequest(r) \/ ReadForProcess(r)
      PROVE  AfterSaleInv' /\ CaseStep
  <2>1. UNCHANGED rows
    BY <1>4 DEF ReadForReturn, ReadReturn, ReadForAutomaticRefund, ReadForRefundRequest,
                ReadForProcess
  <2> QED  BY <1>4, <2>1, ReadsPreserve, RowsKeptCase DEF rows
<1>5. ASSUME NEW r \in Requests, CreateReturn(r)
      PROVE  AfterSaleInv' /\ CaseStep
  BY <1>5, CreateReturnPreserves DEF CreateReturn
<1>6. ASSUME NEW r \in Requests, Approve(r) \/ Reject(r)
      PROVE  AfterSaleInv' /\ CaseStep
  BY <1>6, DecidePreserves DEF Approve, Reject
<1>7. ASSUME NEW r \in Requests, CreateAutomaticRefund(r) \/ CreateRefundRequest(r)
      PROVE  AfterSaleInv' /\ CaseStep
  BY <1>7, RecordPreserves DEF CreateAutomaticRefund, CreateRefundRequest
<1>8. ASSUME NEW r \in Requests, ProcessRefund(r)
      PROVE  AfterSaleInv' /\ CaseStep
  BY <1>8, ProcessRefundPreserves DEF ProcessRefund
<1>9. ASSUME NEW r \in Requests, NEW p \in Purchases, Arrive(r, p)
      PROVE  AfterSaleInv' /\ CaseStep
  <2>1. PICK op \in ClientOps \cup AdminOps, status \in PurchaseStatus : Start(r, op, p, status)
    BY <1>9 DEF Arrive, PurchaseStatus, AdminOps
  <2>2. UNCHANGED rows
    BY <2>1 DEF Start
  <2> QED  BY <2>1, <2>2, StartPreserves, RowsKeptCase DEF rows
<1>10. ASSUME NEW r \in Requests, Crash(r)
       PROVE  AfterSaleInv' /\ CaseStep
  <2>1. UNCHANGED <<rows, today>> /\ request' = [request EXCEPT ![r] = Idle]
    BY <1>10 DEF Crash, Finish
  <2>2. today' \in 0..MaxDay /\ crashes' \in 0..MaxCrashes
    BY <1>0, <1>10, <2>1, AfterSaleConstants DEF Crash, TypeOK
  <2> QED  BY <2>1, <2>2, IdleHolds, ReadPreserves, RowsKeptCase DEF rows
<1>11. ASSUME UNCHANGED <<rows, request, crashes>>, today' \in 0..MaxDay
       PROVE  AfterSaleInv' /\ CaseStep
  <2>1. UNCHANGED rows /\ request' = request /\ crashes' = crashes
    BY <1>11
  <2>2. TypeOK'
    BY <1>0, <1>11, <2>1 DEF TypeOK, rows, Request, Idle, OrderRow, RefundMovement
  <2>3. OneAdmin' /\ \A r \in Requests : ReadingHolds(request[r])'
    BY <2>1 DEF AfterSaleInv, OneAdmin, ReadingHolds, rows, IsAllowedTransition, AdminOps
  <2> QED  BY <2>1, <2>2, <2>3, RowsKept, RowsKeptCase DEF AfterSaleInv, rows
<1>12. CASE DayPasses
  <2>1. today' \in 0..MaxDay
    BY <1>0, <1>12, AfterSaleConstants DEF DayPasses, TypeOK
  <2> QED  BY <1>11, <1>12, <2>1 DEF DayPasses
<1>13. CASE UNCHANGED vars
  BY <1>0, <1>11, <1>13 DEF vars, rows, TypeOK
<1> QED  BY <1>1, <1>2, <1>3, <1>4, <1>5, <1>6, <1>7, <1>8, <1>9, <1>10, <1>12, <1>13
      DEF Next, Step

(* While one administrator works at a time, the tables of purchases,       *)
(* returns, refunds and movements keep their types, and what a request has *)
(* read is still so when it writes.                                        *)
THEOREM AfterSaleInvariance ==
  ASSUME OneAdminAtATime
  PROVE  Spec => []AfterSaleInv
<1>1. Init => AfterSaleInv
  BY InitAfterSale
<1>2. AfterSaleInv /\ [Next]_vars => AfterSaleInv'
  BY NextAfterSale
<1> QED  BY <1>1, <1>2, PTL DEF Spec

(* Nothing is paid back twice, whichever of approve and process credits    *)
(* the wallet and whatever dies in between (refunds.service.ts).           *)
THEOREM RefundsArePaidOnce ==
  ASSUME OneAdminAtATime
  PROVE  Spec => []PaidBackOnce
<1>1. AfterSaleInv => PaidBackOnce
  BY DEF AfterSaleInv
<1> QED  BY <1>1, AfterSaleInvariance, PTL

(* Money follows an approved return of a delivered purchase                *)
(* (returns.service.ts and refunds.service.ts).                            *)
THEOREM RefundsFollowReturns ==
  ASSUME OneAdminAtATime
  PROVE  Spec => []RefundFollowsReturn
<1>1. AfterSaleInv => RefundFollowsReturn
  BY DEF AfterSaleInv
<1> QED  BY <1>1, AfterSaleInvariance, PTL

(* Purchases, returns, refunds and wallets together keep the promise of    *)
(* ReturnCase: one return of a purchase, decided once, paid back when and  *)
(* only when it ends as refunded.                                          *)
THEOREM RefinesReturnCase ==
  ASSUME OneAdminAtATime
  PROVE  Spec => ImplementsReturnCase
<1>1. Init => Case!Init
  BY InitAfterSale
<1>2. AfterSaleInv /\ [Next]_vars => [Case!Next]_<<[p \in Purchases |-> Phase(p)], wallet>>
  BY NextAfterSale DEF CaseStep
<1> QED  BY <1>1, <1>2, AfterSaleInvariance, PTL DEF Spec, ImplementsReturnCase, Case!Spec
=============================================================================
