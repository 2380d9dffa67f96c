----------------------------- MODULE Catalogue -----------------------------
(***************************************************************************)
(* Books as administrators create, edit and delete them                    *)
(* (books.service.ts), the subscriptions of users to categories            *)
(* (subscriptions.service.ts), and the news of a new book, which the       *)
(* request that created it sends out after it has been answered            *)
(* (triggerNewBookNotifications, notifications.service.ts).                *)
(*                                                                         *)
(* Each call of the database is an action; the deletion of a book is one   *)
(* transaction, of which the rows it erased first are kept apart until it  *)
(* commits.                                                                *)
(***************************************************************************)
EXTENDS Integers, Sequences, FiniteSets

CONSTANTS
  Books,         \* bookIds, given out in order
  Categories,    \* the categories there are
  NoCategory,    \* an id in a body that is no category's
  Users,         \* users that may subscribe
  Requests,      \* requests and announcements that may be in progress
  MaxCrashes,    \* bound: how often the server may restart
  NULL

ASSUME CatalogueConstants ==
  /\ Books \subseteq Nat
  /\ NoCategory \notin Categories
  /\ NULL \notin Users
  /\ MaxCrashes \in Nat

VARIABLES
  book,          \* table Book: has the id been given out, is the book still there?
  bookCategory,  \* table BookCategory: the categories of each book
  news,          \* table News: is there one of the book?
  subscription,  \* table Subscription: pairs of a user and a category
  notification,  \* tables Notification and NotificationLog, by notificationId
  request,       \* what each request in progress remembers
  audience,      \* history: who was subscribed when the news of a book went out
  crashes        \* restarts so far

vars == <<book, bookCategory, news, subscription, notification, request,
          audience, crashes>>
rows == <<book, bookCategory, news, notification, audience>>

(* One notification: about which book's news it is, whether its book is    *)
(* still named (the columns become NULL when book and news are deleted     *)
(* beside it), whether it was erased, the statuses that were logged, and,  *)
(* as history, whether the mail server took its mail and the statuses that *)
(* could not be written.                                                   *)
Statuses == {"sent", "failed"}
Notification == [user: Users, about: Books, named: BOOLEAN, erased: BOOLEAN,
                 logs: Seq(Statuses), delivered: BOOLEAN, lost: SUBSET Statuses]

Steps == {"addCategories", "readBook", "createNews", "readSubscriptions",
          "next", "create", "mail", "log", "logFailure", "erase"}

Request == [op: {"create", "update", "delete", "announce"}, step: Steps, book: Books,
            want: SUBSET (Categories \cup {NoCategory}),  \* categoryIds
            queue: SUBSET Users,                         \* userIds still to tell
            user: Users \cup {NULL},
            held: SUBSET Nat]     \* notifications that are erased or written
Idle == [op |-> "idle"]

Init ==
  /\ book = [b \in Books |-> "none"]
  /\ bookCategory = [b \in Books |-> {}]
  /\ news = [b \in Books |-> FALSE]
  /\ subscription \in SUBSET (Users \X Categories)
  /\ notification = <<>>
  /\ request = [r \in Requests |-> Idle]
  /\ audience = [b \in Books |-> {}]
  /\ crashes = 0

At(r, step) == request[r] # Idle /\ request[r].step = step
GoTo(r, step) == request' = [request EXCEPT ![r].step = step]
Finish(r) == request' = [request EXCEPT ![r] = Idle]

Begin(r, op, b, step, want, held) ==
  /\ request[r] = Idle
  /\ request' = [request EXCEPT ![r] =
       [op |-> op, step |-> step, book |-> b, want |-> want, queue |-> {},
        user |-> NULL, held |-> held]]

-----------------------------------------------------------------------------
(* subscriptions.service.ts: one write each; the unique key refuses a      *)
(* second subscription.                                                    *)
Subscribe(u, k) ==
  /\ <<u, k>> \notin subscription
  /\ subscription' = subscription \cup {<<u, k>>}
  /\ UNCHANGED <<rows, request, crashes>>

Unsubscribe(u, k) ==
  /\ <<u, k>> \in subscription
  /\ subscription' = subscription \ {<<u, k>>}
  /\ UNCHANGED <<rows, request, crashes>>

-----------------------------------------------------------------------------
(* books.service.ts *)

(* adminCreate: the book is there, and visible, before its categories are. *)
(* Without a list of them its announcement starts at once.                 *)
AdminCreate(r, b, want) ==
  /\ book[b] = "none" /\ \A other \in Books : other < b => book[other] # "none"
  /\ book' = [book EXCEPT ![b] = "listed"]
  /\ IF want = {} THEN Begin(r, "announce", b, "readBook", want, {})
     ELSE Begin(r, "create", b, "addCategories", want, {})
  /\ UNCHANGED <<bookCategory, news, subscription, notification, audience, crashes>>

(* adminUpdate with a list of categories: the old ones are removed before  *)
(* the new ones are looked at.                                             *)
AdminUpdate(r, b, want) ==
  /\ book[b] = "listed"
  /\ bookCategory' = [bookCategory EXCEPT ![b] = {}]
  /\ IF want = {} THEN request[r] = Idle /\ UNCHANGED request
     ELSE Begin(r, "update", b, "addCategories", want, {})
  /\ UNCHANGED <<book, news, subscription, notification, audience, crashes>>

(* The end of both: a category that does not exist, a book deleted in the  *)
(* meantime or a pair that is already there refuses all of them.  A new    *)
(* book goes on to its announcement, of which nobody waits for the end.    *)
AddCategories(r) ==
  LET q == request[r]
      b == q.book
      ok == NoCategory \notin q.want /\ book[b] = "listed" /\ bookCategory[b] \cap q.want = {}
  IN
  /\ At(r, "addCategories")
  /\ IF ok THEN bookCategory' = [bookCategory EXCEPT ![b] = @ \cup q.want]
           ELSE UNCHANGED bookCategory
  /\ request' = [request EXCEPT ![r] =
       IF ok /\ q.op = "create"
       THEN [q EXCEPT !.op = "announce", !.step = "readBook"] ELSE Idle]
  /\ UNCHANGED <<book, news, subscription, notification, audience, crashes>>

(* adminDelete, a transaction: the notifications of the book and their     *)
(* logs go first; a second deletion waits for it.                          *)
Erasing(r) == IF At(r, "erase") THEN request[r].held ELSE {}

AdminDelete(r, b) ==
  /\ book[b] = "listed"
  /\ \A other \in Requests : ~(At(other, "erase") /\ request[other].book = b)
  /\ Begin(r, "delete", b, "erase", {},
           {i \in DOMAIN notification : notification[i].about = b})
  /\ UNCHANGED <<rows, subscription, crashes>>

(* Then its news, categories and the book itself.  A notification written  *)
(* since stays, without a name of its book.                                *)
CommitDelete(r) ==
  LET b == request[r].book IN
  /\ At(r, "erase")
  /\ book' = [book EXCEPT ![b] = "deleted"]
  /\ bookCategory' = [bookCategory EXCEPT ![b] = {}]
  /\ news' = [news EXCEPT ![b] = FALSE]
  /\ notification' = [i \in DOMAIN notification |->
       IF i \in request[r].held THEN [notification[i] EXCEPT !.erased = TRUE]
       ELSE IF notification[i].about = b THEN [notification[i] EXCEPT !.named = FALSE]
       ELSE notification[i]]
  /\ Finish(r)
  /\ UNCHANGED <<subscription, audience, crashes>>

(* A row inserted between two of its statements, or a timeout, takes the   *)
(* deletion back.                                                          *)
RollBackDelete(r) ==
  /\ At(r, "erase")
  /\ Finish(r)
  /\ UNCHANGED <<rows, subscription, crashes>>

-----------------------------------------------------------------------------
(* triggerNewBookNotifications *)

(* The book is read again; without it, or without categories, that is all. *)
ReadBook(r) ==
  LET b == request[r].book IN
  /\ At(r, "readBook")
  /\ request' = [request EXCEPT ![r] =
       IF book[b] = "listed" /\ bookCategory[b] # {}
       THEN [@ EXCEPT !.want = bookCategory[b], !.step = "createNews"] ELSE Idle]
  /\ UNCHANGED <<rows, subscription, crashes>>

(* News names its book: a book that is gone has none.                      *)
CreateNews(r) ==
  LET b == request[r].book IN
  /\ At(r, "createNews")
  /\ IF book[b] = "listed"
     THEN news' = [news EXCEPT ![b] = TRUE] /\ GoTo(r, "readSubscriptions")
     ELSE UNCHANGED news /\ Finish(r)
  /\ UNCHANGED <<book, bookCategory, subscription, notification, audience, crashes>>

Subscribers(want) == {u \in Users : \E k \in want : <<u, k>> \in subscription}

(* The subscriptions to any of the categories, each user once.             *)
UserIds(want) == {s[1] : s \in {t \in subscription : t[2] \in want}}

ReadSubscriptions(r) ==
  LET q == request[r] IN
  /\ At(r, "readSubscriptions")
  /\ request' = [request EXCEPT ![r] =
       [q EXCEPT !.queue = UserIds(q.want), !.step = "next"]]
  /\ audience' = [audience EXCEPT ![q.book] = Subscribers(q.want)]
  /\ UNCHANGED <<book, bookCategory, news, subscription, notification, crashes>>

(* Mutant: the loop comes back to a user it has told.                      *)
AllOf(queue, u) == queue

Rest(queue, u) == queue \ {u}

-----------------------------------------------------------------------------
(* sendNewBookNotification, for the next user of the loop.                 *)

(* News and book are read; without them there is nothing to say.           *)
NextUser(r) ==
  LET q == request[r] IN
  /\ At(r, "next")
  /\ IF q.queue = {} THEN Finish(r)
     ELSE \E u \in q.queue :
       request' = [request EXCEPT ![r] =
         [q EXCEPT !.queue = Rest(q.queue, u), !.user = u,
                   !.step = IF news[q.book] THEN "create" ELSE "next"]]
  /\ UNCHANGED <<rows, subscription, crashes>>

(* The notification names news and book; when they are gone the            *)
(* announcement fails as a whole.                                          *)
CreateNotification(r) ==
  LET q == request[r] IN
  /\ At(r, "create")
  /\ IF news[q.book]
     THEN /\ notification' = Append(notification,
               [user |-> q.user, about |-> q.book, named |-> TRUE, erased |-> FALSE,
                logs |-> <<>>, delivered |-> FALSE, lost |-> {}])
          /\ request' = [request EXCEPT ![r] =
               [q EXCEPT !.held = {Len(notification) + 1}, !.step = "mail"]]
     ELSE UNCHANGED notification /\ Finish(r)
  /\ UNCHANGED <<book, bookCategory, news, subscription, audience, crashes>>

(* Mutants: a failure of the mail is not seen by its sender, or not caught.*)
AfterMailUnseen(q, sent) == [q EXCEPT !.step = "log"]
AfterMailUncaught(q, sent) == IF sent THEN [q EXCEPT !.step = "log"] ELSE Idle

(* A mail that fails is caught.                                            *)
AfterMail(q, sent) == [q EXCEPT !.step = IF sent THEN "log" ELSE "logFailure"]

(* The mail server takes the mail or does not.                             *)
SendMail(r) ==
  /\ At(r, "mail")
  /\ \E sent \in BOOLEAN :
       /\ request' = [request EXCEPT ![r] = AfterMail(@, sent)]
       /\ notification' = [i \in DOMAIN notification |->
            IF i \in request[r].held THEN [notification[i] EXCEPT !.delivered = sent]
            ELSE notification[i]]
  /\ UNCHANGED <<book, bookCategory, news, subscription, audience, crashes>>

(* A status is logged.  Beside an open deletion of the notification this   *)
(* waits, after it there is no row to name; and any write may fail.        *)
Log(r, status) ==
  \E i \in request[r].held :
    /\ ~notification[i].erased /\ \A other \in Requests : i \notin Erasing(other)
    /\ notification' = [notification EXCEPT ![i].logs = Append(@, status)]

LogFails(r, status) ==
  \E i \in request[r].held :
    notification' = [notification EXCEPT ![i].lost = @ \cup {status}]

(* The log of a mail that was sent is written inside the mail's try: when  *)
(* the write fails, the catch takes it for a failure of the mail.          *)
WriteLog(r) ==
  /\ At(r, "log")
  /\ \/ Log(r, "sent") /\ GoTo(r, "next")
     \/ LogFails(r, "sent") /\ GoTo(r, "logFailure")
  /\ UNCHANGED <<book, bookCategory, news, subscription, audience, crashes>>

(* The catch: once it is logged the loop goes on with the next user; what  *)
(* fails here ends the announcement.                                       *)
WriteFailureLog(r) ==
  /\ At(r, "logFailure")
  /\ \/ Log(r, "failed") /\ GoTo(r, "next")
     \/ LogFails(r, "failed") /\ Finish(r)
  /\ UNCHANGED <<book, bookCategory, news, subscription, audience, crashes>>

-----------------------------------------------------------------------------
(* The server restarts: nothing takes its requests and announcements up    *)
(* again.                                                                  *)
Crash ==
  /\ crashes < MaxCrashes
  /\ \E r \in Requests : request[r] # Idle
  /\ crashes' = crashes + 1
  /\ request' = [r \in Requests |-> Idle]
  /\ UNCHANGED <<rows, subscription>>

(* The lists of categories in a body; one that does not exist refuses the  *)
(* whole list.                                                             *)
CategoryIds == (SUBSET Categories) \cup {{NoCategory}}

Ask(r) ==
  \E b \in Books :
    \/ AdminDelete(r, b)
    \/ \E want \in CategoryIds :
         AdminCreate(r, b, want) \/ AdminUpdate(r, b, want)

Step(r) ==
  \/ AddCategories(r) \/ CommitDelete(r)
  \/ ReadBook(r) \/ CreateNews(r) \/ ReadSubscriptions(r)
  \/ NextUser(r) \/ CreateNotification(r) \/ SendMail(r)
  \/ WriteLog(r) \/ WriteFailureLog(r)

Next ==
  \/ \E r \in Requests : Ask(r) \/ Step(r) \/ RollBackDelete(r)
  \/ \E u \in Users, k \in Categories : Subscribe(u, k) \/ Unsubscribe(u, k)
  \/ Crash

Spec == Init /\ [][Next]_vars

(* Node runs what it has started, and PostgreSQL lets who waits for a row  *)
(* in turn.                                                                *)
FairSpec == Spec /\ \A r \in Requests : SF_vars(Step(r))

-----------------------------------------------------------------------------
(* Properties *)

TypeOK ==
  /\ book \in [Books -> {"none", "listed", "deleted"}]
  /\ bookCategory \in [Books -> SUBSET Categories]
  /\ news \in [Books -> BOOLEAN]
  /\ subscription \in SUBSET (Users \X Categories)
  /\ notification \in Seq(Notification)
  /\ request \in [Requests -> Request \cup {Idle}]
  /\ audience \in [Books -> SUBSET Users]
  /\ crashes \in 0..MaxCrashes

(* A user hears of a new book once, however many of its categories it      *)
(* follows and whatever administrators do to the book meanwhile.           *)
NotifiedOnce ==
  \A i, j \in DOMAIN notification :
    notification[i].user = notification[j].user
      /\ notification[i].about = notification[j].about => i = j

(* A notification's log has one entry at most.  "sent" says that the mail  *)
(* server took the mail; "failed" that it did not, or that "sent" could not*)
(* be written; and none says that "failed" could not be written either,    *)
(* that the server restarted, or that the announcement is still at it.     *)
LogTellsTheTruth ==
  \A i \in DOMAIN notification :
    LET n == notification[i] IN
    \/ n.logs = <<"sent">> /\ n.delivered
    \/ n.logs = <<"failed">> /\ (n.delivered => "sent" \in n.lost)
    \/ /\ n.logs = <<>>
       /\ \/ "failed" \in n.lost \/ crashes > 0
          \/ \E r \in Requests : request[r] # Idle /\ request[r].op = "announce"
                                   /\ i \in request[r].held

(* Whoever was subscribed when the news went out is told, even if the mail *)
(* of others fails, unless the book is deleted, the server restarts, or the*)
(* failure of a mail could not be logged.  (None of this is ever undone, so*)
(* "again and again" says "in the end".)                                   *)
SubscribersAreTold ==
  []<>(\A b \in Books : \A u \in audience[b] :
         \/ \E i \in DOMAIN notification :
              notification[i].about = b
                /\ (notification[i].user = u \/ "failed" \in notification[i].lost)
         \/ book[b] = "deleted" \/ crashes > 0)
=============================================================================
