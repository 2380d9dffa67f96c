--------------------------- MODULE Conversations ---------------------------
(***************************************************************************)
(* conversations.service.ts: the chat between a client and the             *)
(* administrators.                                                         *)
(*                                                                         *)
(* A conversation is active or closed, and assigned to an administrator or *)
(* queued for any of them.  Whoever reads one that has been silent for an  *)
(* hour closes it first, and so does a cron job, from a list it has read   *)
(* before.  No request holds a transaction: a request reads, decides and   *)
(* writes in separate database calls.                                      *)
(*                                                                         *)
(* Time is counted in half hours: a conversation is silent once its last   *)
(* message is two old (CONVERSATION_INACTIVITY_TIMEOUT_MS), and one that   *)
(* has an administrator is spared until its last update is one old         *)
(* (CONVERSATION_RECLAIM_GRACE_MS).  Ages beyond those are all the same,   *)
(* and the age of a message before the last one is not kept.  Nor are the  *)
(* notices that a chat was opened or accepted.  A tick of the cron job ends*)
(* before the next one, and the process does not die.                      *)
(***************************************************************************)
EXTENDS Integers, FiniteSets

CONSTANTS
  Client,         \* the client
  Admins,         \* the active administrators
  ConversationIds, MessageIds,  \* bounds: rows the two tables may ever hold
  Requests,       \* requests that may be in progress at the same time
  Conflicts,      \* pairs of operations that never overlap in the instance
  NULL

Users == {Client} \cup Admins

ASSUME ConversationConstants ==
  /\ ConversationIds \subseteq Nat \ {0} /\ MessageIds \subseteq Nat \ {0}
  /\ Client \notin Admins /\ Admins # {}
  /\ NULL \notin Users /\ NULL \notin ConversationIds /\ NULL \notin MessageIds

VARIABLES
  conversation,  \* table Conversation
  message,       \* table Message, from the start of the instance on
  notified,      \* who has a notification about each message
  request,       \* what each request in progress has read
  cron           \* what is left of the list the cron job has read

rows == <<conversation, message, notified>>
vars == <<rows, request, cron>>

ConversationRow == [status: {"none", "active", "closed"}, admin: Admins \cup {NULL},
                    lastAdmin: Admins \cup {NULL},
                    age: 0..1,      \* since updatedAt
                    silence: (0..2) \cup {NULL}]  \* since sentAt of the last message
MessageRow == [conversation: ConversationIds \cup {NULL}, sender: Users \cup {NULL},
               isRead: BOOLEAN]

Ops == {"create", "view", "send", "claim"}
Request == [op: Ops, user: Users, step: {"close", "write", "activate"},
            conversation: ConversationIds \cup {NULL}, message: MessageIds \cup {NULL},
            admin: Admins \cup {NULL}, lastAdmin: Admins \cup {NULL}]
Idle == [op |-> "idle"]

(* An expired conversation as the cron job has read it.                    *)
Reading == [conversation: ConversationIds, lastAdmin: Admins \cup {NULL}]

NoConversation == [status |-> "none", admin |-> NULL, lastAdmin |-> NULL, age |-> 0,
                   silence |-> NULL]

(* The client has no conversation yet, or one from before, still queued    *)
(* with an old message.                                                    *)
Init ==
  /\ \/ conversation = [k \in ConversationIds |-> NoConversation]
     \/ \E old \in ConversationIds :
          /\ \A k \in ConversationIds : old <= k
          /\ conversation = [k \in ConversationIds |-> IF k # old THEN NoConversation
                 ELSE [NoConversation EXCEPT !.status = "active", !.age = 1, !.silence = 2]]
  /\ message = [m \in MessageIds |->
       [conversation |-> NULL, sender |-> NULL, isRead |-> FALSE]]
  /\ notified = [m \in MessageIds |-> {}]
  /\ request = [r \in Requests |-> Idle]
  /\ cron = {}

GoTo(r, step) == request' = [request EXCEPT ![r].step = step]
Finish(r) == request' = [request EXCEPT ![r] = Idle]
Running(r, op, step) == request[r].op = op /\ request[r].step = step

(* conversation.update: the row and its updatedAt.                         *)
Update(k, row) == conversation' = [conversation EXCEPT ![k] = [row EXCEPT !.age = 0]]

-----------------------------------------------------------------------------
(* What is read of a conversation. *)

Existing == {k \in ConversationIds : conversation[k].status # "none"}
IsSilent(k) == conversation[k].silence = 2

(* Mutant: an assigned conversation is never closed.                       *)
IsExpiredUnlessAssigned(k) ==
  /\ IsSilent(k)
  /\ ~(conversation[k].status = "active" /\ conversation[k].admin # NULL)

(* isConversationExpired                                                   *)
IsConversationExpired(k) ==
  /\ IsSilent(k)
  /\ ~ /\ conversation[k].status = "active" /\ conversation[k].admin # NULL
       /\ conversation[k].age = 0

(* Those that refreshConversationIfNeeded and the cron job close.          *)
Expired == {k \in Existing : conversation[k].status = "active" /\ IsConversationExpired(k)}

LastAdminOf(k) == IF conversation[k].admin # NULL THEN conversation[k].admin
                  ELSE conversation[k].lastAdmin

(* Mutant: closing leaves the administrator.                               *)
CloseKeepingAdmin(k, lastAdmin) ==
  Update(k, [conversation[k] EXCEPT !.status = "closed", !.lastAdmin = lastAdmin])

(* The write of refreshConversationIfNeeded and of the cron job: the last  *)
(* administrator is the one that had been read.                            *)
Close(k, lastAdmin) ==
  Update(k, [conversation[k] EXCEPT !.status = "closed", !.admin = NULL,
                                    !.lastAdmin = lastAdmin])

-----------------------------------------------------------------------------
(* Requests *)

MayStart(r, op) ==
  /\ request[r] = Idle
  /\ \A s \in Requests : request[s].op # "idle" => {op, request[s].op} \notin Conflicts

(* Mutant: whoever sees a conversation may write in it.                    *)
MayReplyIfVisible(u, admin) == u = Client \/ admin \in {NULL, u}

(* canViewConversation and ensureCanReply: an administrator must have      *)
(* accepted the conversation.                                              *)
MayReply(u, admin) == u = Client \/ u = admin

(* Mutant: a conversation may be accepted from its administrator.          *)
MayAcceptAny(u, admin) == u # admin

MayAccept(u, admin) == admin = NULL

(* What a request does with the administrator it has read: a view, and a   *)
(* create that has found a conversation, end here.                         *)
Decide(r, q, admin) ==
  IF \/ q.op = "send" /\ MayReply(q.user, admin)
     \/ q.op = "claim" /\ MayAccept(q.user, admin)
  THEN request' = [request EXCEPT ![r] = [q EXCEPT !.step = "write", !.admin = admin,
                                                   !.lastAdmin = NULL]]
  ELSE Finish(r)

(* A request starts by reading the conversation and its last message; one  *)
(* that has expired is closed first.                                       *)
ReadConversation(r, op, u, k) ==
  LET q == [op |-> op, user |-> u, step |-> "close", conversation |-> k, message |-> NULL,
            admin |-> NULL, lastAdmin |-> LastAdminOf(k)]
  IN  /\ MayStart(r, op)
      /\ IF k \in Expired THEN request' = [request EXCEPT ![r] = q]
         ELSE Decide(r, q, conversation[k].admin)
      /\ UNCHANGED <<rows, cron>>

(* A user looks at a conversation (what that may change does not depend on *)
(* who does, or whether createConversation has found it), writes in it or  *)
(* accepts it.                                                             *)
OpenConversation(r) ==
  \E k \in Existing : \/ ReadConversation(r, "view", Client, k)
                      \/ \E u \in Users : ReadConversation(r, "send", u, k)
                      \/ \E u \in Admins : ReadConversation(r, "claim", u, k)

(* Mutant: a closed conversation is not found.                             *)
HasNoActiveConversation == \A k \in Existing : conversation[k].status = "closed"

HasNoConversation == Existing = {}

(* createConversation of a client that has none.                           *)
OpenChat(r) ==
  /\ HasNoConversation /\ MayStart(r, "create")
  /\ request' = [request EXCEPT ![r] =
       [op |-> "create", user |-> Client, step |-> "write", conversation |-> NULL,
        message |-> NULL, admin |-> NULL, lastAdmin |-> NULL]]
  /\ UNCHANGED <<rows, cron>>

(* refreshConversationIfNeeded                                             *)
RefreshConversation(r) ==
  LET q == request[r] IN
  /\ q.op # "idle" /\ q.step = "close"
  /\ Close(q.conversation, q.lastAdmin)
  /\ Decide(r, q, NULL)
  /\ UNCHANGED <<message, notified, cron>>

(* createConversation                                                      *)
CreateConversation(r) ==
  /\ Running(r, "create", "write")
  /\ \E k \in ConversationIds \ Existing :
       /\ \A other \in ConversationIds \ Existing : k <= other
       /\ Update(k, [conversation[k] EXCEPT !.status = "active"])
  /\ Finish(r)
  /\ UNCHANGED <<message, notified, cron>>

(* sendMessage: first the message is written,                              *)
CreateMessage(r) ==
  LET q == request[r] IN
  /\ Running(r, "send", "write")
  /\ \E m \in MessageIds :
       /\ message[m].conversation = NULL
       /\ \A n \in MessageIds : n < m => message[n].conversation # NULL
       /\ message' = [message EXCEPT ![m] =
            [@ EXCEPT !.conversation = q.conversation, !.sender = q.user]]
       /\ request' = [request EXCEPT ![r] = [q EXCEPT !.step = "activate", !.message = m]]
  /\ conversation' = [conversation EXCEPT ![q.conversation].silence = 0]
  /\ UNCHANGED <<notified, cron>>

(* Bound: a message beyond the table ends the request.                     *)
TableIsFull(r) ==
  /\ \/ Running(r, "send", "write") /\ \A m \in MessageIds : message[m].conversation # NULL
     \/ Running(r, "create", "write") /\ Existing = ConversationIds
  /\ Finish(r)
  /\ UNCHANGED <<rows, cron>>

(* Mutants: nobody, or the missing administrator, is told of a message in  *)
(* the queue.                                                              *)
AssignedOnly(u, admin) == IF u # Client THEN {Client} ELSE {admin} \ {NULL}
AssignedIfAny(u, admin) == IF u # Client THEN {Client} ELSE {admin}

(* notifyActiveAdmins or getRecipientUserId, by the reading.               *)
Recipients(u, admin) ==
  IF u # Client THEN {Client} ELSE IF admin = NULL THEN Admins ELSE {admin}

(* The conversation is opened again, and its other side is told of the     *)
(* message: both writes depend on the reading alone.                       *)
ActivateAndNotify(r) ==
  LET q == request[r]
      k == q.conversation
  IN  /\ Running(r, "send", "activate")
      /\ Update(k, [conversation[k] EXCEPT !.status = "active"])
      /\ notified' = [notified EXCEPT ![q.message] = @ \cup Recipients(q.user, q.admin)]
      /\ Finish(r)
      /\ UNCHANGED <<message, cron>>

(* claimConversation                                                       *)
ClaimConversation(r) ==
  LET q == request[r]
      k == q.conversation
  IN  /\ Running(r, "claim", "write")
      /\ Update(k, [conversation[k] EXCEPT !.status = "active", !.admin = q.user])
      /\ Finish(r)
      /\ UNCHANGED <<message, notified, cron>>

(* markMessageAsRead: whoever may see the conversation, but not the sender.*)
(* One action: nothing else writes isRead, and nothing unsets it.          *)
MarkMessageAsRead(u, m) ==
  LET k == message[m].conversation IN
  /\ k # NULL /\ u # message[m].sender /\ ~message[m].isRead
  /\ u = Client \/ conversation[k].admin \in {u, NULL}
  /\ message' = [message EXCEPT ![m].isRead = TRUE]
  /\ UNCHANGED <<conversation, notified, request, cron>>

-----------------------------------------------------------------------------
(* closeInactiveConversationsCron: the list, then one update for each.     *)
StartCron ==
  /\ cron = {} /\ Expired # {}
  /\ cron' = {[conversation |-> k, lastAdmin |-> LastAdminOf(k)] : k \in Expired}
  /\ UNCHANGED <<rows, request>>

CloseInactive ==
  /\ \E x \in cron :
       /\ \A y \in cron : x.conversation <= y.conversation
       /\ Close(x.conversation, x.lastAdmin)
       /\ cron' = cron \ {x}
  /\ UNCHANGED <<message, notified, request>>

(* Half an hour passes.                                                    *)
TimePasses ==
  /\ conversation' = [k \in ConversationIds |->
       IF k \in Existing
       THEN [conversation[k] EXCEPT !.age = 1,
               !.silence = IF @ \in 0..1 THEN @ + 1 ELSE @]
       ELSE conversation[k]]
  /\ UNCHANGED <<message, notified, request, cron>>

Arrive(r) == OpenConversation(r) \/ OpenChat(r)

Step(r) ==
  \/ RefreshConversation(r)
  \/ CreateConversation(r) \/ CreateMessage(r) \/ TableIsFull(r)
  \/ ActivateAndNotify(r) \/ ClaimConversation(r)

Cron == StartCron \/ CloseInactive

Next == \/ \E r \in Requests : Arrive(r) \/ Step(r)
        \/ \E u \in Users, m \in MessageIds : MarkMessageAsRead(u, m)
        \/ Cron \/ TimePasses

Spec == Init /\ [][Next]_vars

(* The process runs what it has accepted, the scheduler fires, time passes.*)
FairSpec == Spec /\ (\A r \in Requests : WF_vars(Step(r))) /\ WF_vars(Cron) /\ WF_vars(TimePasses)

-----------------------------------------------------------------------------
(* Properties *)

TypeOK ==
  /\ conversation \in [ConversationIds -> ConversationRow]
  /\ message \in [MessageIds -> MessageRow]
  /\ notified \in [MessageIds -> SUBSET Users]
  /\ request \in [Requests -> Request \cup {Idle}]
  /\ cron \in SUBSET Reading

(* A closed conversation has no administrator, although a message reopens  *)
(* it without looking at who is assigned and several writers may close it  *)
(* at once: what is closed can be accepted by anyone.                      *)
ClosedIsUnassigned ==
  \A k \in ConversationIds : conversation[k].status = "closed" => conversation[k].admin = NULL

(* A client has one conversation, that is found again however it ended.    *)
OneConversation == Cardinality(Existing) <= 1

(* An administrator keeps an accepted conversation until it is closed: no  *)
(* other one takes it over.                                                *)
AdminKeepsConversation ==
  [][\A k \in ConversationIds : conversation[k].admin # NULL =>
       conversation'[k].admin = conversation[k].admin \/ conversation'[k].status = "closed"]_conversation

(* A conversation that somebody has written in does not stay open for      *)
(* ever, whoever is or was assigned to it.                                 *)
SilentConversationsClose ==
  \A k \in ConversationIds :
    conversation[k].status = "active" /\ conversation[k].silence # NULL
      ~> conversation[k].status = "closed"

(* Every message is announced to somebody on its other side.               *)
MessagesAreNotified ==
  \A m \in MessageIds : message[m].conversation # NULL
    ~> \E u \in notified[m] : (u = Client) # (message[m].sender = Client)
=============================================================================
