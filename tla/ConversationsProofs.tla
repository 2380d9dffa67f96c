------------------------ MODULE ConversationsProofs ------------------------
(***************************************************************************)
(* Proofs about the chat, for any number of conversations, messages,       *)
(* administrators and overlapping requests: what a closed conversation     *)
(* lacks, that an accepted one is not taken over if no two administrators  *)
(* accept at once, and how many a client may come to have.                 *)
(***************************************************************************)
EXTENDS Conversations, FiniteSetTheorems, TLAPS

Is(r, op) == request[r].op = op

(* What requests and the cron job have read exists, and administrators     *)
(* accept.                                                                 *)
Inv ==
  /\ conversation \in [ConversationIds -> ConversationRow]
  /\ request \in [Requests -> Request \cup {Idle}]
  /\ \A x \in cron : x \in Reading /\ x.conversation \in Existing
  /\ ClosedIsUnassigned
  /\ \A r \in Requests :
       /\ request[r].op \in {"view", "send", "claim"} => request[r].conversation \in Existing
       /\ Is(r, "claim") => request[r].user \in Admins
       /\ Is(r, "create") => request[r].step = "write"

(* Who is about to accept a conversation is the only one, and nobody has.  *)
ClaimInv ==
  /\ Inv
  /\ \A r, s \in Requests : Is(r, "claim") /\ Is(s, "claim") => r = s
  /\ \A r \in Requests : Running(r, "claim", "write") =>
       conversation[request[r].conversation].admin = NULL

(* Once there is a conversation, whoever is still about to open another    *)
(* had found none.                                                         *)
Opening == {r \in Requests : Is(r, "create")}
CreateInv ==
  /\ Inv /\ IsFiniteSet(Existing)
  /\ Existing # {} =>
       Cardinality(Existing) + Cardinality(Opening) <= Cardinality(Requests)

ClaimsDoNotOverlap == {"claim"} \in Conflicts

-----------------------------------------------------------------------------
(* How a step changes the requests and the conversations. *)

LEMMA IdleIsNone == Idle \notin Request /\ Idle.op = "idle"
<1>1. Idle.op = "idle"
  BY DEF Idle
<1> QED  BY <1>1 DEF Request, Ops

LEMMA RequestsHaveFields ==
  ASSUME Inv, NEW r \in Requests, request[r].op # "idle"
  PROVE  request[r] \in Request
BY IdleIsNone DEF Inv

(* The request goes on with a record, or ends.                             *)
LEMMA RequestChanges ==
  ASSUME Inv, NEW r \in Requests, NEW q \in Request \cup {Idle},
         request' = [request EXCEPT ![r] = q]
  PROVE  /\ request' \in [Requests -> Request \cup {Idle}]
         /\ request'[r] = q
         /\ \A s \in Requests \ {r} : request'[s] = request[s]
BY DEF Inv

LEMMA FinishChanges ==
  ASSUME Inv, NEW r \in Requests, Finish(r)
  PROVE  /\ request' \in [Requests -> Request \cup {Idle}]
         /\ request'[r].op = "idle"
         /\ \A s \in Requests \ {r} : request'[s] = request[s]
BY IdleIsNone DEF Inv, Finish

LEMMA DecideChanges ==
  ASSUME Inv, NEW r \in Requests, NEW q \in Request, NEW admin \in Admins \cup {NULL},
         Decide(r, q, admin)
  PROVE  /\ request' \in [Requests -> Request \cup {Idle}]
         /\ \/ request'[r].op = "idle"
            \/ /\ request'[r].op = q.op /\ request'[r].step = "write"
               /\ request'[r].conversation = q.conversation /\ request'[r].user = q.user
               /\ q.op \in {"send", "claim"} /\ (q.op = "claim" => admin = NULL)
         /\ \A s \in Requests \ {r} : request'[s] = request[s]
<1>1. CASE Finish(r)
  BY <1>1, FinishChanges
<1>2. CASE ~Finish(r)
  <2> DEFINE p == [q EXCEPT !.step = "write", !.admin = admin, !.lastAdmin = NULL]
  <2>1. /\ request' = [request EXCEPT ![r] = p]
        /\ q.op \in {"send", "claim"} /\ (q.op = "claim" => admin = NULL)
    BY <1>2 DEF Decide, MayAccept
  <2>2. /\ p \in Request /\ p.op = q.op /\ p.step = "write"
        /\ p.conversation = q.conversation /\ p.user = q.user
    BY DEF Request
  <2> HIDE DEF p
  <2>3. /\ request' \in [Requests -> Request \cup {Idle}] /\ request'[r] = p
        /\ \A s \in Requests \ {r} : request'[s] = request[s]
    BY <2>1, <2>2, RequestChanges
  <2> QED  BY <2>1, <2>2, <2>3
<1> QED  BY <1>1, <1>2

(* A request reads a conversation: it ends, goes on to close it, or to     *)
(* write on it.                                                            *)
LEMMA ReadChanges ==
  ASSUME Inv, NEW r \in Requests, NEW op \in {"view", "send", "claim"},
         NEW u \in Users, NEW k \in Existing, ReadConversation(r, op, u, k)
  PROVE  /\ request' \in [Requests -> Request \cup {Idle}]
         /\ \/ request'[r].op = "idle"
            \/ /\ request'[r].op = op /\ request'[r].step \in {"close", "write"}
               /\ request'[r].conversation = k /\ request'[r].user = u
               /\ op = "claim" /\ request'[r].step = "write" => conversation[k].admin = NULL
         /\ \A s \in Requests \ {r} : request'[s] = request[s]
         /\ \A s \in Requests : request[s].op # "idle" => {op, request[s].op} \notin Conflicts
         /\ conversation' = conversation /\ cron' = cron
<1> DEFINE lastAdmin == LastAdminOf(k)
           q == [op |-> op, user |-> u, step |-> "close", conversation |-> k, message |-> NULL,
                 admin |-> NULL, lastAdmin |-> lastAdmin]
<1>1. /\ IF k \in Expired THEN request' = [request EXCEPT ![r] = q]
         ELSE Decide(r, q, conversation[k].admin)
      /\ MayStart(r, op) /\ conversation' = conversation /\ cron' = cron
  BY DEF ReadConversation, rows
<1>2. k \in ConversationIds /\ conversation[k] \in ConversationRow
  BY DEF Inv, Existing
<1>3. lastAdmin \in Admins \cup {NULL} /\ conversation[k].admin \in Admins \cup {NULL}
  BY <1>2 DEF LastAdminOf, ConversationRow
<1> HIDE DEF lastAdmin
<1>4. q \in Request /\ q.op = op /\ q.step = "close" /\ q.conversation = k /\ q.user = u
  BY <1>2, <1>3 DEF Request, Ops
<1> HIDE DEF q
<1>5. CASE k \in Expired
  <2>1. request' = [request EXCEPT ![r] = q]
    BY <1>1, <1>5
  <2> QED  BY <1>1, <1>4, <2>1, RequestChanges DEF MayStart
<1>6. CASE k \notin Expired
  <2>1. Decide(r, q, conversation[k].admin)
    BY <1>1, <1>6
  <2>2. PICK admin \in Admins \cup {NULL} : admin = conversation[k].admin
    BY <1>3
  <2>3. Decide(r, q, admin)
    BY <2>1, <2>2
  <2> QED  BY <1>1, <1>4, <2>2, <2>3, DecideChanges DEF MayStart
<1> QED  BY <1>5, <1>6

(* One conversation is written anew.                                       *)
LEMMA UpdateChanges ==
  ASSUME Inv, NEW k \in ConversationIds, NEW row \in ConversationRow, Update(k, row)
  PROVE  /\ conversation' \in [ConversationIds -> ConversationRow]
         /\ conversation'[k].status = row.status /\ conversation'[k].admin = row.admin
         /\ \A j \in ConversationIds \ {k} : conversation'[j] = conversation[j]
<1> DEFINE new == [row EXCEPT !.age = 0]
<1>1. new \in ConversationRow /\ new.status = row.status /\ new.admin = row.admin
  BY DEF ConversationRow
<1>2. conversation' = [conversation EXCEPT ![k] = new]
  BY DEF Update
<1> HIDE DEF new
<1> QED  BY <1>1, <1>2 DEF Inv

LEMMA CloseChanges ==
  ASSUME Inv, NEW k \in ConversationIds, NEW lastAdmin \in Admins \cup {NULL},
         Close(k, lastAdmin)
  PROVE  /\ conversation' \in [ConversationIds -> ConversationRow]
         /\ conversation'[k].status = "closed" /\ conversation'[k].admin = NULL
         /\ \A j \in ConversationIds \ {k} : conversation'[j] = conversation[j]
<1> DEFINE row == [conversation[k] EXCEPT !.status = "closed", !.admin = NULL,
                                          !.lastAdmin = lastAdmin]
<1>1. conversation[k] \in ConversationRow
  BY DEF Inv
<1>2. row \in ConversationRow /\ row.status = "closed" /\ row.admin = NULL
  BY <1>1 DEF ConversationRow
<1>3. Update(k, row)
  BY DEF Close
<1> HIDE DEF row
<1> QED  BY <1>2, <1>3, UpdateChanges

LEMMA ActivateChanges ==
  ASSUME Inv, NEW k \in ConversationIds,
         Update(k, [conversation[k] EXCEPT !.status = "active"])
  PROVE  /\ conversation' \in [ConversationIds -> ConversationRow]
         /\ conversation'[k].status = "active"
         /\ conversation'[k].admin = conversation[k].admin
         /\ \A j \in ConversationIds \ {k} : conversation'[j] = conversation[j]
<1> DEFINE row == [conversation[k] EXCEPT !.status = "active"]
<1>1. conversation[k] \in ConversationRow
  BY DEF Inv
<1>2. row \in ConversationRow /\ row.status = "active" /\ row.admin = conversation[k].admin
  BY <1>1 DEF ConversationRow
<1>3. Update(k, row)
  OBVIOUS
<1> HIDE DEF row
<1> QED  BY <1>2, <1>3, UpdateChanges

LEMMA AssignChanges ==
  ASSUME Inv, NEW k \in ConversationIds, NEW u \in Admins,
         Update(k, [conversation[k] EXCEPT !.status = "active", !.admin = u])
  PROVE  /\ conversation' \in [ConversationIds -> ConversationRow]
         /\ conversation'[k].status = "active"
         /\ \A j \in ConversationIds \ {k} : conversation'[j] = conversation[j]
<1> DEFINE row == [conversation[k] EXCEPT !.status = "active", !.admin = u]
<1>1. conversation[k] \in ConversationRow
  BY DEF Inv
<1>2. row \in ConversationRow /\ row.status = "active"
  BY <1>1 DEF ConversationRow
<1>3. Update(k, row)
  OBVIOUS
<1> HIDE DEF row
<1> QED  BY <1>2, <1>3, UpdateChanges

-----------------------------------------------------------------------------
(* Steps that neither begin a request nor write what it is for: nobody is  *)
(* assigned, no conversation comes into being, and requests end or go on.  *)
GoesOn ==
  /\ \A k \in ConversationIds :
       /\ \/ conversation'[k].admin = conversation[k].admin
          \/ conversation'[k].admin = NULL /\ conversation'[k].status = "closed"
       /\ conversation'[k].status = "none" <=> conversation[k].status = "none"
  /\ \A r \in Requests :
       \/ request'[r] = request[r]
       \/ /\ request'[r].op \in {"idle", request[r].op}
          /\ request'[r].op = "claim" /\ request'[r].step = "write" =>
               conversation'[request'[r].conversation].admin = NULL

(* What Inv needs of a step that creates nothing.                          *)
LEMMA Preserve ==
  ASSUME Inv,
         conversation' \in [ConversationIds -> ConversationRow],
         request' \in [Requests -> Request \cup {Idle}],
         \A x \in cron' : x \in Reading /\ x.conversation \in Existing,
         \A k \in ConversationIds : conversation'[k].status = "closed" =>
            conversation'[k].admin = NULL,
         \A k \in Existing : conversation'[k].status # "none",
         \A r \in Requests :
           \/ request'[r] = request[r]
           \/ /\ request'[r].op \in {"view", "send", "claim"} =>
                   request'[r].conversation \in Existing
              /\ request'[r].op = "claim" => request'[r].user \in Admins
              /\ request'[r].op = "create" => request'[r].step = "write"
  PROVE  Inv'
<1>1. \A k \in Existing : k \in ConversationIds /\ conversation'[k].status # "none"
  BY DEF Existing
<1>2. ClosedIsUnassigned'
  BY DEF ClosedIsUnassigned
<1>3. ASSUME NEW r \in Requests
      PROVE  /\ request'[r].op \in {"view", "send", "claim"} =>
                  /\ request'[r].conversation \in ConversationIds
                  /\ conversation'[request'[r].conversation].status # "none"
             /\ request'[r].op = "claim" => request'[r].user \in Admins
             /\ request'[r].op = "create" => request'[r].step = "write"
  BY <1>1 DEF Inv, Is
<1> QED  BY <1>1, <1>2, <1>3 DEF Inv, Is, Existing

LEMMA RefreshGoesOn ==
  ASSUME Inv, NEW r \in Requests, RefreshConversation(r)
  PROVE  Inv' /\ GoesOn
<1>1. PICK q \in Request : q = request[r]
  BY RequestsHaveFields DEF RefreshConversation
<1>2. /\ q.op # "idle" /\ q.step = "close" /\ Close(q.conversation, q.lastAdmin)
      /\ Decide(r, q, NULL) /\ cron' = cron
  BY <1>1 DEF RefreshConversation
<1>3. /\ request' \in [Requests -> Request \cup {Idle}]
      /\ \/ request'[r].op = "idle"
         \/ /\ request'[r].op = q.op /\ request'[r].step = "write"
            /\ request'[r].conversation = q.conversation /\ request'[r].user = q.user
            /\ q.op \in {"send", "claim"}
      /\ \A s \in Requests \ {r} : request'[s] = request[s]
  BY <1>2, DecideChanges
<1>4. q.op \in {"view", "send", "claim"}
  BY <1>1, <1>2 DEF Request, Ops, Inv, Is
<1>5. PICK k \in Existing : k = q.conversation
  BY <1>1, <1>4 DEF Inv
<1>6. k \in ConversationIds /\ conversation[k].status # "none"
  BY DEF Existing
<1>7. q.lastAdmin \in Admins \cup {NULL}
  BY DEF Request
<1>8. /\ conversation' \in [ConversationIds -> ConversationRow]
      /\ conversation'[k].status = "closed" /\ conversation'[k].admin = NULL
      /\ \A j \in ConversationIds \ {k} : conversation'[j] = conversation[j]
  BY <1>2, <1>5, <1>6, <1>7, CloseChanges
<1>9. Inv'
  <2>1. \A j \in ConversationIds : conversation'[j].status = "closed" =>
           conversation'[j].admin = NULL
    BY <1>8 DEF Inv, ClosedIsUnassigned
  <2>2. \A j \in Existing : conversation'[j].status # "none"
    BY <1>8 DEF Existing
  <2>3. \/ request'[r].op = "idle"
        \/ /\ request'[r].conversation \in Existing /\ request'[r].op # "create"
           /\ request'[r].op = "claim" => request'[r].user \in Admins
    BY <1>1, <1>3, <1>5 DEF Inv, Is
  <2>4. \A s \in Requests :
          \/ request'[s] = request[s]
          \/ /\ request'[s].op \in {"view", "send", "claim"} =>
                  request'[s].conversation \in Existing
             /\ request'[s].op = "claim" => request'[s].user \in Admins
             /\ request'[s].op = "create" => request'[s].step = "write"
    BY <1>3, <2>3
  <2>5. \A x \in cron' : x \in Reading /\ x.conversation \in Existing
    BY <1>2 DEF Inv
  <2> QED  BY <1>3, <1>8, <2>1, <2>2, <2>4, <2>5, Preserve
<1>10. GoesOn
  <2>1. \A j \in ConversationIds :
          /\ \/ conversation'[j].admin = conversation[j].admin
             \/ conversation'[j].admin = NULL /\ conversation'[j].status = "closed"
          /\ conversation'[j].status = "none" <=> conversation[j].status = "none"
    BY <1>6, <1>8
  <2>2. /\ request'[r].op \in {"idle", request[r].op}
        /\ request'[r].op = "claim" /\ request'[r].step = "write" =>
             conversation'[request'[r].conversation].admin = NULL
    BY <1>1, <1>3, <1>5, <1>8
  <2> QED  BY <1>3, <2>1, <2>2 DEF GoesOn
<1> QED  BY <1>9, <1>10

(* The steps of a message being sent.                                      *)
LEMMA SendGoesOn ==
  ASSUME Inv, NEW r \in Requests, CreateMessage(r) \/ ActivateAndNotify(r)
  PROVE  Inv' /\ GoesOn
<1>1. request[r].op = "send" /\ cron' = cron
  BY DEF CreateMessage, ActivateAndNotify, Running
<1>2. PICK q \in Request : q = request[r]
  BY <1>1, RequestsHaveFields
<1>3. PICK k \in Existing : k = q.conversation
  BY <1>1, <1>2 DEF Inv
<1>4. k \in ConversationIds /\ conversation[k] \in ConversationRow /\ conversation[k].status # "none"
  BY DEF Existing, Inv
<1>5. /\ conversation' \in [ConversationIds -> ConversationRow]
      /\ conversation'[k].status \in {"active", conversation[k].status}
      /\ conversation'[k].admin = conversation[k].admin
      /\ \A j \in ConversationIds \ {k} : conversation'[j] = conversation[j]
  <2>1. CASE CreateMessage(r)
    <3> DEFINE row == [conversation[k] EXCEPT !.silence = 0]
    <3>1. row \in ConversationRow /\ row.status = conversation[k].status
          /\ row.admin = conversation[k].admin
      BY <1>4 DEF ConversationRow
    <3>2. conversation' = [conversation EXCEPT ![k] = row]
      BY <1>2, <1>3, <2>1 DEF CreateMessage
    <3> HIDE DEF row
    <3> QED  BY <3>1, <3>2 DEF Inv
  <2>2. CASE ActivateAndNotify(r)
    <3>1. Update(k, [conversation[k] EXCEPT !.status = "active"])
      BY <1>2, <1>3, <2>2 DEF ActivateAndNotify
    <3> QED  BY <1>4, <3>1, ActivateChanges
  <2> QED  BY <2>1, <2>2
<1>6. /\ request' \in [Requests -> Request \cup {Idle}]
      /\ \/ request'[r].op = "idle"
         \/ request'[r].op = "send" /\ request'[r].conversation = k
      /\ \A s \in Requests \ {r} : request'[s] = request[s]
  <2>1. CASE CreateMessage(r)
    <3>1. PICK m \in MessageIds :
            request' = [request EXCEPT ![r] = [q EXCEPT !.step = "activate", !.message = m]]
      BY <1>2, <2>1 DEF CreateMessage
    <3> DEFINE p == [q EXCEPT !.step = "activate", !.message = m]
    <3>2. p \in Request /\ p.op = "send" /\ p.conversation = k
      BY <1>1, <1>2, <1>3 DEF Request
    <3>3. request' = [request EXCEPT ![r] = p]
      BY <3>1
    <3> HIDE DEF p
    <3> QED  BY <3>2, <3>3, RequestChanges
  <2>2. CASE ActivateAndNotify(r)
    BY <2>2, FinishChanges DEF ActivateAndNotify
  <2> QED  BY <2>1, <2>2
<1>7. Inv'
  <2>1. \A j \in ConversationIds : conversation'[j].status = "closed" =>
           conversation'[j].admin = NULL
    BY <1>5 DEF Inv, ClosedIsUnassigned
  <2>2. \A j \in Existing : conversation'[j].status # "none"
    BY <1>4, <1>5 DEF Existing
  <2>3. \A s \in Requests :
          \/ request'[s] = request[s]
          \/ /\ request'[s].op \in {"view", "send", "claim"} =>
                  request'[s].conversation \in Existing
             /\ request'[s].op = "claim" => request'[s].user \in Admins
             /\ request'[s].op = "create" => request'[s].step = "write"
    BY <1>6
  <2>4. \A x \in cron' : x \in Reading /\ x.conversation \in Existing
    BY <1>1 DEF Inv
  <2> QED  BY <1>5, <1>6, <2>1, <2>2, <2>3, <2>4, Preserve
<1>8. GoesOn
  <2>1. \A j \in ConversationIds :
          /\ conversation'[j].admin = conversation[j].admin
          /\ conversation'[j].status = "none" <=> conversation[j].status = "none"
    BY <1>4, <1>5
  <2> QED  BY <1>1, <1>6, <2>1 DEF GoesOn
<1> QED  BY <1>7, <1>8

(* The cron job's update of one conversation.                              *)
LEMMA CloseInactiveGoesOn ==
  ASSUME Inv, CloseInactive
  PROVE  Inv' /\ GoesOn
<1>1. PICK x \in cron : Close(x.conversation, x.lastAdmin) /\ cron' = cron \ {x}
  BY DEF CloseInactive
<1>2. x \in Reading /\ x.conversation \in Existing
  BY <1>1 DEF Inv
<1>3. PICK k \in Existing, lastAdmin \in Admins \cup {NULL} :
        k = x.conversation /\ lastAdmin = x.lastAdmin
  BY <1>2 DEF Reading
<1>4. k \in ConversationIds /\ conversation[k].status # "none" /\ request' = request
  BY DEF Existing, CloseInactive
<1>5. Close(k, lastAdmin)
  BY <1>1, <1>3
<1>6. /\ conversation' \in [ConversationIds -> ConversationRow]
      /\ conversation'[k].status = "closed" /\ conversation'[k].admin = NULL
      /\ \A j \in ConversationIds \ {k} : conversation'[j] = conversation[j]
  BY <1>4, <1>5, CloseChanges
<1>7. Inv'
  <2>1. \A j \in ConversationIds : conversation'[j].status = "closed" =>
           conversation'[j].admin = NULL
    BY <1>6 DEF Inv, ClosedIsUnassigned
  <2>2. \A j \in Existing : conversation'[j].status # "none"
    BY <1>6 DEF Existing
  <2>3. \A y \in cron' : y \in Reading /\ y.conversation \in Existing
    BY <1>1 DEF Inv
  <2>4. request' \in [Requests -> Request \cup {Idle}]
    BY <1>4 DEF Inv
  <2> QED  BY <1>4, <1>6, <2>1, <2>2, <2>3, <2>4, Preserve
<1>8. GoesOn
  BY <1>4, <1>6 DEF GoesOn
<1> QED  BY <1>7, <1>8

LEMMA TimeGoesOn ==
  ASSUME Inv, TimePasses
  PROVE  Inv' /\ GoesOn
<1>1. \A k \in ConversationIds :
        /\ conversation'[k] \in ConversationRow
        /\ conversation'[k].status = conversation[k].status
        /\ conversation'[k].admin = conversation[k].admin
  <2> SUFFICES ASSUME NEW k \in ConversationIds
               PROVE  /\ conversation'[k] \in ConversationRow
                      /\ conversation'[k].status = conversation[k].status
                      /\ conversation'[k].admin = conversation[k].admin
    OBVIOUS
  <2>1. conversation[k] \in ConversationRow
    BY DEF Inv
  <2>2. CASE k \in Existing
    <3> DEFINE silence == IF conversation[k].silence \in 0..1 THEN conversation[k].silence + 1
                          ELSE conversation[k].silence
    <3>1. silence \in (0..2) \cup {NULL}
      BY <2>1 DEF ConversationRow
    <3>2. conversation'[k] = [conversation[k] EXCEPT !.age = 1, !.silence = silence]
      BY <2>2 DEF TimePasses
    <3>3. 1 \in 0..1
      OBVIOUS
    <3> HIDE DEF silence
    <3> DEFINE old == conversation[k]
               new == [old EXCEPT !.age = 1, !.silence = silence]
    <3>4. old \in ConversationRow
      BY <2>1
    <3>5. conversation'[k] = new
      BY <3>2
    <3> HIDE DEF old
    <3>6. new \in ConversationRow /\ new.status = old.status /\ new.admin = old.admin
      BY <3>1, <3>3, <3>4 DEF ConversationRow
    <3> HIDE DEF new
    <3>7. old = conversation[k]
      BY DEF old
    <3> QED  BY <3>5, <3>6, <3>7
  <2>3. CASE k \notin Existing
    BY <2>1, <2>3 DEF TimePasses
  <2> QED  BY <2>2, <2>3
<1>2. conversation' \in [ConversationIds -> ConversationRow]
  <2>1. \E f : conversation' = [k \in ConversationIds |-> f[k]]
    <3>1. conversation' = [k \in ConversationIds |-> conversation'[k]]
      BY DEF TimePasses
    <3> QED  BY <3>1
  <2> QED  BY <1>1, <2>1
<1>3. request' = request /\ cron' = cron
  BY DEF TimePasses
<1>4. Inv'
  <2>1. \A j \in ConversationIds : conversation'[j].status = "closed" =>
           conversation'[j].admin = NULL
    BY <1>1 DEF Inv, ClosedIsUnassigned
  <2>2. \A j \in Existing : conversation'[j].status # "none"
    BY <1>1 DEF Existing
  <2>3. request' \in [Requests -> Request \cup {Idle}]
        /\ \A x \in cron' : x \in Reading /\ x.conversation \in Existing
    BY <1>3 DEF Inv
  <2> QED  BY <1>2, <1>3, <2>1, <2>2, <2>3, Preserve
<1>5. GoesOn
  BY <1>1, <1>3 DEF GoesOn
<1> QED  BY <1>4, <1>5

(* Steps that write no conversation.                                       *)
LEMMA OthersGoOn ==
  ASSUME Inv,
         \/ \E r \in Requests : TableIsFull(r)
         \/ \E u \in Users, m \in MessageIds : MarkMessageAsRead(u, m)
         \/ StartCron
  PROVE  Inv' /\ GoesOn
<1>1. conversation' = conversation
  BY DEF TableIsFull, MarkMessageAsRead, StartCron, rows
<1>2. /\ request' \in [Requests -> Request \cup {Idle}]
      /\ \A r \in Requests : request'[r] = request[r] \/ request'[r].op = "idle"
  <2>1. CASE \E r \in Requests : TableIsFull(r)
    <3>1. PICK r \in Requests : Finish(r)
      BY <2>1 DEF TableIsFull
    <3> QED  BY <3>1, FinishChanges
  <2>2. CASE request' = request
    BY <2>2 DEF Inv
  <2> QED  BY <2>1, <2>2 DEF MarkMessageAsRead, StartCron
<1>3. \A x \in cron' : x \in Reading /\ x.conversation \in Existing
  <2>1. CASE cron' = cron
    BY <2>1 DEF Inv
  <2>2. CASE StartCron
    <3> SUFFICES ASSUME NEW x \in cron' PROVE x \in Reading /\ x.conversation \in Existing
      OBVIOUS
    <3>1. cron' = {[conversation |-> k, lastAdmin |-> LastAdminOf(k)] : k \in Expired}
      BY <2>2 DEF StartCron
    <3>2. PICK k \in Expired : x = [conversation |-> k, lastAdmin |-> LastAdminOf(k)]
      BY <3>1
    <3>3. k \in Existing /\ k \in ConversationIds
      BY DEF Expired, Existing
    <3>4. conversation[k] \in ConversationRow
      BY <3>3 DEF Inv
    <3>5. LastAdminOf(k) \in Admins \cup {NULL}
      BY <3>4 DEF LastAdminOf, ConversationRow
    <3> QED  BY <3>2, <3>3, <3>5 DEF Reading
  <2> QED  BY <2>1, <2>2 DEF TableIsFull, MarkMessageAsRead, StartCron
<1>4. Inv'
  <2>1. conversation' \in [ConversationIds -> ConversationRow]
        /\ \A j \in ConversationIds : conversation'[j].status = "closed" =>
             conversation'[j].admin = NULL
    BY <1>1 DEF Inv, ClosedIsUnassigned
  <2>2. \A j \in Existing : conversation'[j].status # "none"
    BY <1>1 DEF Existing
  <2> QED  BY <1>2, <1>3, <2>1, <2>2, Preserve
<1>5. GoesOn
  BY <1>1, <1>2 DEF GoesOn
<1> QED  BY <1>4, <1>5

-----------------------------------------------------------------------------
(* Requests that begin, and what they are for. *)

LEMMA OpenConversationBegins ==
  ASSUME Inv, NEW r \in Requests, OpenConversation(r)
  PROVE  /\ Inv' /\ conversation' = conversation
         /\ \/ request'[r].op = "idle"
            \/ /\ request'[r].op \in {"view", "send", "claim"}
               /\ request'[r].op = "claim" /\ request'[r].step = "write" =>
                    conversation[request'[r].conversation].admin = NULL
               /\ \A s \in Requests : request[s].op # "idle" =>
                    {request'[r].op, request[s].op} \notin Conflicts
         /\ \A s \in Requests \ {r} : request'[s] = request[s]
<1>1. PICK k \in Existing, op \in {"view", "send", "claim"}, u \in Users :
        ReadConversation(r, op, u, k) /\ (op = "claim" => u \in Admins)
  BY DEF OpenConversation, Users
<1>2. /\ request' \in [Requests -> Request \cup {Idle}]
      /\ \/ request'[r].op = "idle"
         \/ /\ request'[r].op = op /\ request'[r].step \in {"close", "write"}
            /\ request'[r].conversation = k /\ request'[r].user = u
            /\ op = "claim" /\ request'[r].step = "write" => conversation[k].admin = NULL
      /\ \A s \in Requests \ {r} : request'[s] = request[s]
      /\ \A s \in Requests : request[s].op # "idle" => {op, request[s].op} \notin Conflicts
      /\ conversation' = conversation /\ cron' = cron
  BY <1>1, ReadChanges
<1>3. Inv'
  <2>1. conversation' \in [ConversationIds -> ConversationRow]
        /\ \A j \in ConversationIds : conversation'[j].status = "closed" =>
             conversation'[j].admin = NULL
    BY <1>2 DEF Inv, ClosedIsUnassigned
  <2>2. \A j \in Existing : conversation'[j].status # "none"
    BY <1>2 DEF Existing
  <2>3. \A s \in Requests :
          \/ request'[s] = request[s]
          \/ /\ request'[s].op \in {"view", "send", "claim"} =>
                  request'[s].conversation \in Existing
             /\ request'[s].op = "claim" => request'[s].user \in Admins
             /\ request'[s].op = "create" => request'[s].step = "write"
    BY <1>1, <1>2
  <2>4. \A x \in cron' : x \in Reading /\ x.conversation \in Existing
    BY <1>2 DEF Inv
  <2> QED  BY <1>2, <2>1, <2>2, <2>3, <2>4, Preserve
<1> QED  BY <1>2, <1>3

LEMMA OpenChatBegins ==
  ASSUME Inv, NEW r \in Requests, OpenChat(r)
  PROVE  /\ Inv' /\ conversation' = conversation /\ Existing = {}
         /\ request'[r].op = "create"
         /\ \A s \in Requests : request[s].op # "idle" => {"create", request[s].op} \notin Conflicts
         /\ \A s \in Requests \ {r} : request'[s] = request[s]
<1> DEFINE q == [op |-> "create", user |-> Client, step |-> "write", conversation |-> NULL,
                 message |-> NULL, admin |-> NULL, lastAdmin |-> NULL]
<1>1. /\ request' = [request EXCEPT ![r] = q] /\ MayStart(r, "create") /\ Existing = {}
      /\ conversation' = conversation /\ cron' = cron
  BY DEF OpenChat, HasNoConversation, rows
<1>2. q \in Request /\ q.op = "create" /\ q.step = "write"
  BY DEF Request, Ops, Users
<1> HIDE DEF q
<1>3. /\ request' \in [Requests -> Request \cup {Idle}] /\ request'[r] = q
      /\ \A s \in Requests \ {r} : request'[s] = request[s]
  BY <1>1, <1>2, RequestChanges
<1>4. Inv'
  <2>1. conversation' \in [ConversationIds -> ConversationRow]
        /\ \A j \in ConversationIds : conversation'[j].status = "closed" =>
             conversation'[j].admin = NULL
    BY <1>1 DEF Inv, ClosedIsUnassigned
  <2>2. \A j \in Existing : conversation'[j].status # "none"
    BY <1>1
  <2>3. \A s \in Requests :
          \/ request'[s] = request[s]
          \/ /\ request'[s].op \in {"view", "send", "claim"} =>
                  request'[s].conversation \in Existing
             /\ request'[s].op = "claim" => request'[s].user \in Admins
             /\ request'[s].op = "create" => request'[s].step = "write"
    BY <1>2, <1>3
  <2>4. \A x \in cron' : x \in Reading /\ x.conversation \in Existing
    BY <1>1 DEF Inv
  <2> QED  BY <1>3, <2>1, <2>2, <2>3, <2>4, Preserve
<1> QED  BY <1>1, <1>2, <1>3, <1>4 DEF MayStart

LEMMA CreateConversationChanges ==
  ASSUME Inv, NEW r \in Requests, CreateConversation(r)
  PROVE  /\ Inv' /\ Is(r, "create") /\ request'[r].op = "idle"
         /\ \A s \in Requests \ {r} : request'[s] = request[s]
         /\ \E k \in ConversationIds \ Existing :
              /\ conversation'[k].admin = conversation[k].admin
              /\ \A j \in ConversationIds \ {k} : conversation'[j] = conversation[j]
<1>1. PICK k \in ConversationIds \ Existing :
        Update(k, [conversation[k] EXCEPT !.status = "active"])
  BY DEF CreateConversation
<1>2. /\ conversation' \in [ConversationIds -> ConversationRow]
      /\ conversation'[k].status = "active"
      /\ conversation'[k].admin = conversation[k].admin
      /\ \A j \in ConversationIds \ {k} : conversation'[j] = conversation[j]
  BY <1>1, ActivateChanges
<1>3. Finish(r) /\ cron' = cron /\ Is(r, "create")
  BY DEF CreateConversation, Running, Is
<1>4. /\ request' \in [Requests -> Request \cup {Idle}]
      /\ request'[r].op = "idle"
      /\ \A s \in Requests \ {r} : request'[s] = request[s]
  BY <1>3, FinishChanges
<1>5. Inv'
  <2>1. \A j \in ConversationIds : conversation'[j].status = "closed" =>
           conversation'[j].admin = NULL
    BY <1>2 DEF Inv, ClosedIsUnassigned
  <2>2. \A j \in Existing : conversation'[j].status # "none"
    BY <1>2 DEF Existing
  <2>3. \A x \in cron' : x \in Reading /\ x.conversation \in Existing
    BY <1>3 DEF Inv
  <2> QED  BY <1>2, <1>4, <2>1, <2>2, <2>3, Preserve
<1> QED  BY <1>1, <1>2, <1>3, <1>4, <1>5

LEMMA ClaimConversationChanges ==
  ASSUME Inv, NEW r \in Requests, ClaimConversation(r)
  PROVE  /\ Inv' /\ Running(r, "claim", "write") /\ request'[r].op = "idle"
         /\ \A s \in Requests \ {r} : request'[s] = request[s]
         /\ \A j \in ConversationIds :
              /\ j # request[r].conversation => conversation'[j] = conversation[j]
              /\ conversation'[j].status = "none" <=> conversation[j].status = "none"
<1>1. request[r].op = "claim" /\ request[r].step = "write"
  BY DEF ClaimConversation, Running
<1>2. PICK q \in Request : q = request[r]
  BY <1>1, RequestsHaveFields
<1>3. PICK k \in Existing, u \in Admins : k = q.conversation /\ u = q.user
  BY <1>1, <1>2 DEF Inv, Is
<1>4. k \in ConversationIds /\ conversation[k].status # "none"
  BY DEF Existing
<1>5. /\ Update(k, [conversation[k] EXCEPT !.status = "active", !.admin = u])
      /\ Finish(r) /\ cron' = cron
  BY <1>2, <1>3 DEF ClaimConversation
<1>6. /\ conversation' \in [ConversationIds -> ConversationRow]
      /\ conversation'[k].status = "active"
      /\ \A j \in ConversationIds \ {k} : conversation'[j] = conversation[j]
  BY <1>4, <1>5, AssignChanges
<1>7. /\ request' \in [Requests -> Request \cup {Idle}]
      /\ request'[r].op = "idle"
      /\ \A s \in Requests \ {r} : request'[s] = request[s]
  BY <1>5, FinishChanges
<1>8. Inv'
  <2>1. \A j \in ConversationIds : conversation'[j].status = "closed" =>
           conversation'[j].admin = NULL
    BY <1>6 DEF Inv, ClosedIsUnassigned
  <2>2. \A j \in Existing : conversation'[j].status # "none"
    BY <1>6 DEF Existing
  <2>3. \A x \in cron' : x \in Reading /\ x.conversation \in Existing
    BY <1>5 DEF Inv
  <2> QED  BY <1>6, <1>7, <2>1, <2>2, <2>3, Preserve
<1> QED  BY <1>1, <1>2, <1>3, <1>4, <1>6, <1>7, <1>8 DEF Running

-----------------------------------------------------------------------------
(* The invariants. *)

LEMMA InitInv == Init => Inv /\ ClaimInv /\ (\A j, k \in Existing : j = k)
<1> SUFFICES ASSUME Init PROVE Inv /\ ClaimInv /\ \A j, k \in Existing : j = k
  OBVIOUS
<1>1. \A r \in Requests : request[r].op = "idle"
  BY IdleIsNone DEF Init
<1>2. request \in [Requests -> Request \cup {Idle}] /\ cron = {}
  BY DEF Init
<1>3. 0 \in 0..1 /\ 1 \in 0..1 /\ 2 \in 0..2
  OBVIOUS
<1> DEFINE old == [NoConversation EXCEPT !.status = "active", !.age = 1, !.silence = 2]
<1>4. /\ NoConversation \in ConversationRow /\ NoConversation.status = "none"
      /\ NoConversation.admin = NULL
  BY <1>3 DEF NoConversation, ConversationRow
<1>5. old \in ConversationRow /\ old.status = "active" /\ old.admin = NULL
  BY <1>3 DEF NoConversation, ConversationRow
<1>6. \/ conversation = [k \in ConversationIds |-> NoConversation]
      \/ \E o \in ConversationIds :
           conversation = [k \in ConversationIds |-> IF k # o THEN NoConversation ELSE old]
  BY DEF Init
<1> HIDE DEF old
<1>7. /\ conversation \in [ConversationIds -> ConversationRow]
      /\ \A k \in ConversationIds : conversation[k].status # "closed"
      /\ \A j, k \in Existing : j = k
  BY <1>4, <1>5, <1>6 DEF Existing
<1> QED  BY <1>1, <1>2, <1>7 DEF Inv, ClaimInv, ClosedIsUnassigned, Is, Running

(* Every step begins a request, or goes on, or opens or accepts a          *)
(* conversation.                                                           *)
LEMMA StepsAre ==
  ASSUME Inv, Next
  PROVE  \/ \E r \in Requests : \/ OpenConversation(r) \/ OpenChat(r)
                                \/ CreateConversation(r) \/ ClaimConversation(r)
         \/ Inv' /\ GoesOn
<1>1. ASSUME NEW r \in Requests,
             \/ RefreshConversation(r) \/ CreateMessage(r) \/ TableIsFull(r) \/ ActivateAndNotify(r)
      PROVE  Inv' /\ GoesOn
  BY <1>1, RefreshGoesOn, SendGoesOn, OthersGoOn
<1>2. CASE \/ \E u \in Users, m \in MessageIds : MarkMessageAsRead(u, m)
           \/ Cron \/ TimePasses
  BY <1>2, OthersGoOn, CloseInactiveGoesOn, TimeGoesOn DEF Cron
<1> QED  BY <1>1, <1>2 DEF Next, Arrive, Step

LEMMA NextPreserves ==
  ASSUME Inv, Next
  PROVE  Inv'
BY StepsAre, OpenConversationBegins, OpenChatBegins, CreateConversationChanges,
   ClaimConversationChanges

LEMMA StutteringKeepsInv == Inv /\ UNCHANGED vars => Inv' /\ GoesOn
<1> SUFFICES ASSUME Inv, UNCHANGED vars PROVE Inv' /\ GoesOn
  OBVIOUS
<1>1. conversation' = conversation /\ request' = request /\ cron' = cron
  BY DEF vars, rows
<1> QED  BY <1>1 DEF Inv, GoesOn, ClosedIsUnassigned, Existing, Is

(* What readings refer to exists, and a closed conversation has no         *)
(* administrator: inductive however requests, cron ticks and time          *)
(* interleave.                                                             *)
THEOREM ConversationsInvariance == Spec => []Inv
BY InitInv, NextPreserves, StutteringKeepsInv, PTL DEF Spec

(* closeInactiveConversationsCron, refreshConversationIfNeeded,            *)
(* sendMessage: a conversation closed by any of several writers and        *)
(* reopened by late messages is never closed and assigned at the same time.*)
THEOREM ClosedAreUnassigned == Spec => []ClosedIsUnassigned
<1>1. Inv => ClosedIsUnassigned
  BY DEF Inv
<1> QED  BY <1>1, ConversationsInvariance, PTL

-----------------------------------------------------------------------------
(* An administrator keeps a conversation. *)

AdminKept ==
  \A k \in ConversationIds : conversation[k].admin # NULL =>
    conversation'[k].admin = conversation[k].admin \/ conversation'[k].status = "closed"

LEMMA GoingOnKeepsClaims ==
  ASSUME ClaimInv, Inv', GoesOn
  PROVE  ClaimInv' /\ AdminKept
<1>1. AdminKept
  BY DEF GoesOn, AdminKept
<1>2. \A r \in Requests : request'[r].op = "claim" => request[r].op = "claim"
  BY DEF GoesOn
<1>3. \A r, s \in Requests : request'[r].op = "claim" /\ request'[s].op = "claim" => r = s
  BY <1>2 DEF ClaimInv, Is
<1>4. ASSUME NEW r \in Requests, request'[r].op = "claim", request'[r].step = "write"
      PROVE  conversation'[request'[r].conversation].admin = NULL
  <2>1. CASE request'[r] = request[r]
    <3>1. PICK k \in Existing : k = request[r].conversation
      BY <1>4, <2>1 DEF ClaimInv, Inv
    <3>2. k \in ConversationIds /\ conversation[k].admin = NULL
      BY <1>4, <2>1, <3>1 DEF ClaimInv, Running, Existing
    <3>3. conversation'[k].admin = NULL
      BY <3>2 DEF GoesOn
    <3> QED  BY <2>1, <3>1, <3>3
  <2>2. CASE request'[r] # request[r]
    BY <1>4, <2>2 DEF GoesOn
  <2> QED  BY <2>1, <2>2
<1> QED  BY <1>1, <1>3, <1>4 DEF ClaimInv, Is, Running

LEMMA NextKeepsClaims ==
  ASSUME ClaimInv, ClaimsDoNotOverlap, Next
  PROVE  ClaimInv' /\ AdminKept
<1>0. Inv
  BY DEF ClaimInv
<1>1. ASSUME NEW r \in Requests, OpenConversation(r)
      PROVE  ClaimInv' /\ AdminKept
  <2>1. /\ Inv' /\ conversation' = conversation
        /\ \/ request'[r].op = "idle"
           \/ /\ request'[r].op = "claim" /\ request'[r].step = "write" =>
                   conversation[request'[r].conversation].admin = NULL
              /\ \A s \in Requests : request[s].op # "idle" =>
                   {request'[r].op, request[s].op} \notin Conflicts
        /\ \A s \in Requests \ {r} : request'[s] = request[s]
    BY <1>0, <1>1, OpenConversationBegins
  <2>2. request'[r].op = "claim" => \A s \in Requests : request[s].op # "claim"
    <3>1. {"claim", "claim"} = {"claim"}
      OBVIOUS
    <3> QED  BY <2>1, <3>1 DEF ClaimsDoNotOverlap
  <2>3. \A s, t \in Requests : request'[s].op = "claim" /\ request'[t].op = "claim" => s = t
    BY <2>1, <2>2 DEF ClaimInv, Is
  <2>4. \A s \in Requests : request'[s].op = "claim" /\ request'[s].step = "write" =>
          conversation'[request'[s].conversation].admin = NULL
    BY <2>1 DEF ClaimInv, Running
  <2> QED  BY <2>1, <2>3, <2>4 DEF ClaimInv, Is, Running, AdminKept
<1>2. ASSUME NEW r \in Requests, OpenChat(r)
      PROVE  ClaimInv' /\ AdminKept
  <2>1. /\ Inv' /\ conversation' = conversation /\ request'[r].op = "create"
        /\ \A s \in Requests \ {r} : request'[s] = request[s]
    BY <1>0, <1>2, OpenChatBegins
  <2>2. \A s \in Requests : request'[s].op = "claim" => s # r
    BY <2>1
  <2> QED  BY <2>1, <2>2 DEF ClaimInv, Is, Running, AdminKept
<1>3. ASSUME NEW r \in Requests, CreateConversation(r)
      PROVE  ClaimInv' /\ AdminKept
  <2>1. /\ Inv' /\ request'[r].op = "idle"
        /\ \A s \in Requests \ {r} : request'[s] = request[s]
        /\ \A j \in ConversationIds : conversation'[j].admin = conversation[j].admin
    BY <1>0, <1>3, CreateConversationChanges
  <2>2. \A s \in Requests : request'[s].op = "claim" => s # r
    BY <2>1
  <2>3. \A s \in Requests : request'[s].op = "claim" =>
          request[s].conversation \in ConversationIds
    BY <2>1, <2>2 DEF ClaimInv, Inv, Existing
  <2> QED  BY <2>1, <2>2, <2>3 DEF ClaimInv, Is, Running, AdminKept
<1>4. ASSUME NEW r \in Requests, ClaimConversation(r)
      PROVE  ClaimInv' /\ AdminKept
  <2>1. /\ Inv' /\ Running(r, "claim", "write") /\ request'[r].op = "idle"
        /\ \A s \in Requests \ {r} : request'[s] = request[s]
        /\ \A j \in ConversationIds :
             j # request[r].conversation => conversation'[j] = conversation[j]
    BY <1>0, <1>4, ClaimConversationChanges
  <2>2. conversation[request[r].conversation].admin = NULL
    BY <2>1 DEF ClaimInv
  <2>3. AdminKept
    BY <2>1, <2>2 DEF AdminKept
  <2>4. \A s \in Requests : request'[s].op # "claim"
    BY <2>1 DEF ClaimInv, Running, Is
  <2> QED  BY <2>1, <2>3, <2>4 DEF ClaimInv, Is, Running
<1>5. CASE Inv' /\ GoesOn
  BY <1>5, GoingOnKeepsClaims
<1> QED  BY <1>0, <1>1, <1>2, <1>3, <1>4, <1>5, StepsAre

(* claimConversation: an accepted conversation is never taken over by      *)
(* another administrator before it is closed, provided that no two         *)
(* administrators accept at the same time.                                 *)
THEOREM AdminsKeepConversations ==
  ASSUME ClaimsDoNotOverlap
  PROVE  Spec => AdminKeepsConversation
<1>1. ClaimInv /\ UNCHANGED vars => ClaimInv'
  BY StutteringKeepsInv, GoingOnKeepsClaims DEF ClaimInv
<1>2. ClaimInv /\ [Next]_vars => ClaimInv'
  BY <1>1, NextKeepsClaims
<1>3. ClaimInv /\ [Next]_vars => [AdminKept]_conversation
  BY NextKeepsClaims DEF vars, rows
<1>4. AdminKeepsConversation <=> [][AdminKept]_conversation
  BY PTL DEF AdminKeepsConversation, AdminKept
<1> QED  BY <1>2, <1>3, <1>4, InitInv, PTL DEF Spec

-----------------------------------------------------------------------------
(* How many conversations a client may come to have. *)

(* A client's conversation is found again however it ended: only requests  *)
(* that found none before there was one open another.                      *)
ConversationsAreBounded == Cardinality(Existing) <= Cardinality(Requests)

LEMMA OpeningIsFinite ==
  ASSUME IsFiniteSet(Requests)
  PROVE  /\ IsFiniteSet(Opening) /\ Cardinality(Opening) \in Nat
         /\ Cardinality(Opening) <= Cardinality(Requests) /\ Cardinality(Requests) \in Nat
<1>1. Opening \in SUBSET Requests
  BY DEF Opening
<1>2. IsFiniteSet(Opening) /\ Cardinality(Opening) <= Cardinality(Requests)
  BY <1>1, FS_Subset
<1> QED  BY <1>2, FS_CardinalityType

(* A step after which there are the same conversations, and nobody more is *)
(* about to open one.                                                      *)
LEMMA NoMoreOpen ==
  ASSUME CreateInv, Inv', IsFiniteSet(Requests), Existing' = Existing,
         \A s \in Requests : request'[s].op = "create" => request[s].op = "create"
  PROVE  CreateInv'
<1>1. Opening' \in SUBSET Opening
  BY DEF Opening, Is
<1>2. IsFiniteSet(Opening) /\ Cardinality(Opening) \in Nat /\ Cardinality(Requests) \in Nat
  BY OpeningIsFinite
<1>3. Cardinality(Opening') <= Cardinality(Opening) /\ IsFiniteSet(Opening')
  BY <1>1, <1>2, FS_Subset
<1>4. Cardinality(Opening') \in Nat
  BY <1>3, FS_CardinalityType
<1>5. Cardinality(Existing) \in Nat
  BY FS_CardinalityType DEF CreateInv
<1>6. Existing # {} => Cardinality(Existing) + Cardinality(Opening') <= Cardinality(Requests)
  BY <1>2, <1>3, <1>4, <1>5 DEF CreateInv
<1> QED  BY <1>6 DEF CreateInv

(* The one that opens a conversation is no longer about to.                *)
LEMMA CreateKeepsBound ==
  ASSUME CreateInv, IsFiniteSet(Requests), NEW r \in Requests, CreateConversation(r)
  PROVE  CreateInv'
<1>1. PICK k \in ConversationIds \ Existing :
        /\ Inv' /\ Is(r, "create") /\ request'[r].op = "idle"
        /\ \A s \in Requests \ {r} : request'[s] = request[s]
        /\ \A j \in ConversationIds \ {k} : conversation'[j] = conversation[j]
  BY CreateConversationChanges DEF CreateInv
<1>2. Existing' \in SUBSET (Existing \cup {k})
  BY <1>1 DEF Existing
<1>3. r \in Opening /\ Opening' = Opening \ {r}
  BY <1>1 DEF Opening, Is
<1>4. IsFiniteSet(Opening) /\ Cardinality(Opening) \in Nat /\ Cardinality(Requests) \in Nat
      /\ Cardinality(Opening) <= Cardinality(Requests)
  BY OpeningIsFinite
<1>5. Cardinality(Opening') = Cardinality(Opening) - 1
  BY <1>3, <1>4, FS_RemoveElement
<1>6. IsFiniteSet(Existing) /\ Cardinality(Existing) \in Nat
  BY FS_CardinalityType DEF CreateInv
<1>7. /\ IsFiniteSet(Existing \cup {k})
      /\ Cardinality(Existing \cup {k}) = Cardinality(Existing) + 1
  BY <1>6, FS_AddElement
<1>8. IsFiniteSet(Existing') /\ Cardinality(Existing') <= Cardinality(Existing) + 1
  BY <1>2, <1>7, FS_Subset
<1>9. Cardinality(Existing') \in Nat
  BY <1>8, FS_CardinalityType
<1>10. Cardinality(Existing) + Cardinality(Opening) <= Cardinality(Requests)
  <2>1. CASE Existing = {}
    <3>1. Cardinality(Existing) = 0
      BY <2>1, FS_EmptySet
    <3> QED  BY <1>4, <3>1
  <2>2. CASE Existing # {}
    BY <2>2 DEF CreateInv
  <2> QED  BY <2>1, <2>2
<1>11. Cardinality(Existing') + Cardinality(Opening') <= Cardinality(Requests)
  BY <1>4, <1>5, <1>6, <1>8, <1>9, <1>10
<1> QED  BY <1>1, <1>8, <1>11 DEF CreateInv

LEMMA NextKeepsCreates ==
  ASSUME CreateInv, IsFiniteSet(Requests), Next
  PROVE  CreateInv'
<1>0. Inv
  BY DEF CreateInv
<1>1. ASSUME NEW r \in Requests, OpenConversation(r)
      PROVE  CreateInv'
  <2>1. /\ Inv' /\ conversation' = conversation /\ request'[r].op # "create"
        /\ \A s \in Requests \ {r} : request'[s] = request[s]
    BY <1>0, <1>1, OpenConversationBegins
  <2>2. \A s \in Requests : request'[s].op = "create" => request[s].op = "create"
    BY <2>1
  <2>3. Existing' = Existing
    BY <2>1 DEF Existing
  <2> QED  BY <2>1, <2>2, <2>3, NoMoreOpen
<1>2. ASSUME NEW r \in Requests, OpenChat(r)
      PROVE  CreateInv'
  <2>1. Inv' /\ conversation' = conversation /\ Existing = {}
    BY <1>0, <1>2, OpenChatBegins
  <2>2. Existing' = {}
    BY <2>1 DEF Existing
  <2>3. IsFiniteSet(Existing')
    BY <2>2, FS_EmptySet
  <2> QED  BY <2>1, <2>2, <2>3 DEF CreateInv
<1>3. ASSUME NEW r \in Requests, CreateConversation(r)
      PROVE  CreateInv'
  BY <1>3, CreateKeepsBound
<1>4. ASSUME NEW r \in Requests, ClaimConversation(r)
      PROVE  CreateInv'
  <2>1. /\ Inv' /\ request'[r].op = "idle"
        /\ \A s \in Requests \ {r} : request'[s] = request[s]
        /\ \A j \in ConversationIds :
             conversation'[j].status = "none" <=> conversation[j].status = "none"
    BY <1>0, <1>4, ClaimConversationChanges
  <2>2. \A s \in Requests : request'[s].op = "create" => request[s].op = "create"
    BY <2>1
  <2>3. Existing' = Existing
    BY <2>1 DEF Existing
  <2> QED  BY <2>1, <2>2, <2>3, NoMoreOpen
<1>5. CASE Inv' /\ GoesOn
  <2>1. \A s \in Requests : request'[s].op = "create" => request[s].op = "create"
    BY <1>5 DEF GoesOn
  <2>2. Existing' = Existing
    BY <1>5 DEF GoesOn, Existing
  <2> QED  BY <1>5, <2>1, <2>2, NoMoreOpen
<1> QED  BY <1>0, <1>1, <1>2, <1>3, <1>4, <1>5, StepsAre

LEMMA InitCreates ==
  ASSUME IsFiniteSet(Requests), Requests # {}, Init
  PROVE  CreateInv
<1>1. Inv /\ \A j, k \in Existing : j = k
  BY InitInv
<1>2. IsFiniteSet(Existing) /\ Cardinality(Existing) <= 1
  <2>1. CASE Existing = {}
    BY <2>1, FS_EmptySet
  <2>2. CASE Existing # {}
    <3>1. PICK k : Existing = {k}
      BY <1>1, <2>2
    <3>2. IsFiniteSet({k}) /\ Cardinality({k}) = 1
      BY FS_Singleton
    <3> QED  BY <3>1, <3>2
  <2> QED  BY <2>1, <2>2
<1>3. Opening = {}
  BY IdleIsNone DEF Init, Opening, Is
<1>4. Cardinality(Opening) = 0
  BY <1>3, FS_EmptySet
<1>5. Cardinality(Requests) \in Nat /\ Cardinality(Requests) # 0
  BY FS_CardinalityType, FS_EmptySet
<1>6. Cardinality(Existing) \in Nat
  BY <1>2, FS_CardinalityType
<1>7. Cardinality(Existing) + Cardinality(Opening) <= Cardinality(Requests)
  BY <1>2, <1>4, <1>5, <1>6
<1> QED  BY <1>1, <1>2, <1>7 DEF CreateInv

(* createConversation: whoever opens chats, and however conversations are  *)
(* closed and reopened in between, a client comes to have no more of them  *)
(* than requests can be in progress at a time; with requests one after     *)
(* another, one.  (The table has no constraint: when two overlap, there may*)
(* be two.)                                                                *)
THEOREM ConversationsStayBounded ==
  ASSUME IsFiniteSet(Requests), Requests # {}
  PROVE  Spec => []ConversationsAreBounded
<1>1. Init => CreateInv
  BY InitCreates
<1>2. CreateInv /\ UNCHANGED vars => CreateInv'
  <2> SUFFICES ASSUME CreateInv, UNCHANGED vars PROVE CreateInv'
    OBVIOUS
  <2>1. Inv'
    BY StutteringKeepsInv DEF CreateInv
  <2>2. conversation' = conversation /\ request' = request
    BY DEF vars, rows
  <2>3. Existing' = Existing
    BY <2>2 DEF Existing
  <2> QED  BY <2>1, <2>2, <2>3, NoMoreOpen
<1>3. CreateInv /\ [Next]_vars => CreateInv'
  BY <1>2, NextKeepsCreates
<1>4. CreateInv => ConversationsAreBounded
  <2> SUFFICES ASSUME CreateInv PROVE Cardinality(Existing) <= Cardinality(Requests)
    BY DEF ConversationsAreBounded
  <2>1. /\ Cardinality(Opening) \in Nat /\ Cardinality(Requests) \in Nat
        /\ Cardinality(Existing) \in Nat
    BY OpeningIsFinite, FS_CardinalityType DEF CreateInv
  <2>2. CASE Existing = {}
    <3>1. Cardinality(Existing) = 0
      BY <2>2, FS_EmptySet
    <3> QED  BY <2>1, <3>1
  <2>3. CASE Existing # {}
    <3>1. Cardinality(Existing) + Cardinality(Opening) <= Cardinality(Requests)
      BY <2>3 DEF CreateInv
    <3> QED  BY <2>1, <3>1
  <2> QED  BY <2>2, <2>3
<1> QED  BY <1>1, <1>3, <1>4, PTL DEF Spec
=============================================================================
