--------------------------- MODULE CatalogueProofs ---------------------------
(***************************************************************************)
(* Proofs that a user is told of a new book once, and that the log of a    *)
(* mail says what became of it, for any number of books, categories, users *)
(* and requests, and any number of restarts.                               *)
(***************************************************************************)
EXTENDS Catalogue, SequenceTheorems, TLAPS

(* A request that announces a book, or will: there is one for each book at *)
(* most, as there is one that created it.                                  *)
Announces(q) == q.op \in {"create", "announce"}

(* A request that has written the notification it sends a mail for.        *)
Mailing(q) == q.op = "announce" /\ q.step \in {"mail", "log", "logFailure"}

StepOfOp(q) ==
  q # Idle => /\ q.op = "delete" <=> q.step = "erase"
              /\ q.op \in {"create", "update"} <=> q.step = "addCategories"
              /\ q.step = "create" => q.user \in Users

(* A user that has a notification of the book is not told again by q.      *)
HasTold(q, u) ==
  /\ q.step \in {"next", "create", "mail", "log", "logFailure"}
  /\ u \notin q.queue
  /\ q.step = "create" => u # q.user

Told ==
  /\ \A r, s \in Requests : Announces(request[r]) /\ Announces(request[s])
       /\ request[r].book = request[s].book => r = s
  /\ \A r \in Requests : Announces(request[r]) => book[request[r].book] # "none"
  /\ \A i \in DOMAIN notification : book[notification[i].about] # "none"
  /\ \A r \in Requests : Announces(request[r]) =>
       /\ request[r].step = "create" => request[r].user \notin request[r].queue
       /\ \A i \in DOMAIN notification : notification[i].about = request[r].book =>
            HasTold(request[r], notification[i].user)

(* The notification whose mail is under way, which is one request's        *)
(* business: its log is empty, its mail was taken before "sent" is written,*)
(* and was not, or "sent" could not be written, before "failed" is.        *)
ToBeLogged(q, i) ==
  /\ notification[i].logs = <<>>
  /\ q.step = "log" => notification[i].delivered
  /\ q.step = "logFailure" =>
       (notification[i].delivered => "sent" \in notification[i].lost)

LogIsTrue(n) ==
  \/ n.logs = <<"sent">> /\ n.delivered
  \/ n.logs = <<"failed">> /\ (n.delivered => "sent" \in n.lost)
  \/ n.logs = <<>>

(* A notification without an entry is under way, or is excused.            *)
Excused(i) ==
  \/ "failed" \in notification[i].lost \/ crashes > 0
  \/ \E r \in Requests : Mailing(request[r]) /\ i \in request[r].held

Logged ==
  /\ \A r \in Requests : Mailing(request[r]) =>
       \E i \in DOMAIN notification :
         request[r].held = {i} /\ ToBeLogged(request[r], i)
  /\ \A r, s \in Requests : Mailing(request[r]) /\ Mailing(request[s])
       /\ request[r].held \cap request[s].held # {} => r = s
  /\ \A i \in DOMAIN notification :
       LogIsTrue(notification[i]) /\ (notification[i].logs = <<>> => Excused(i))

CatalogueInv ==
  /\ TypeOK
  /\ \A r \in Requests : StepOfOp(request[r])
  /\ Told /\ NotifiedOnce
  /\ Logged

-----------------------------------------------------------------------------
(* Requests and notifications. *)

LEMMA IdleIsNoRequest ==
  Idle \notin Request /\ Idle.op = "idle" /\ ~Announces(Idle) /\ ~Mailing(Idle)
<1>1. Idle.op = "idle"
  BY DEF Idle
<1> QED  BY <1>1 DEF Request, Announces, Mailing

LEMMA AtIsRequest ==
  ASSUME CatalogueInv, NEW r \in Requests, NEW step, At(r, step)
  PROVE  request[r] \in Request /\ request[r].step = step /\ StepOfOp(request[r])
         /\ request[r] # Idle
BY DEF CatalogueInv, TypeOK, At

(* Notifications changed one by one remain a sequence of them.             *)
LEMMA NotificationsMapped ==
  ASSUME notification \in Seq(Notification),
         notification' \in [DOMAIN notification -> Notification]
  PROVE  notification' \in Seq(Notification) /\ DOMAIN notification' = DOMAIN notification
<1>1. DOMAIN notification = 1..Len(notification) /\ Len(notification) \in Nat
  BY ElementOfSeq
<1>2. notification' \in [1..Len(notification) -> Notification]
  BY <1>1
<1> QED  BY <1>1, <1>2, SeqDef

LEMMA NotificationType ==
  ASSUME notification \in Seq(Notification)
  PROVE  /\ DOMAIN notification = 1..Len(notification) /\ Len(notification) \in Nat
         /\ \A i \in DOMAIN notification : notification[i] \in Notification
BY ElementOfSeq

(* A step that neither forgets a book nor touches who was told of what,    *)
(* and leaves request r as c, which has told those it should have.         *)
LEMMA ToldPreserved ==
  ASSUME CatalogueInv, NEW r \in Requests, NEW c,
         request' = [request EXCEPT ![r] = c],
         \A b \in Books : book[b] # "none" => book'[b] # "none",
         DOMAIN notification' = DOMAIN notification,
         \A i \in DOMAIN notification :
           /\ notification'[i].user = notification[i].user
           /\ notification'[i].about = notification[i].about,
         Announces(c) =>
           /\ c.book \in Books /\ book'[c.book] # "none"
           /\ \/ Announces(request[r]) /\ request[r].book = c.book
              \/ book[c.book] = "none"
           /\ c.step = "create" => c.user \notin c.queue
           /\ \A i \in DOMAIN notification :
                notification[i].about = c.book => HasTold(c, notification[i].user)
  PROVE  Told' /\ NotifiedOnce'
<1>1. \A s \in Requests : request'[s] = IF s = r THEN c ELSE request[s]
  BY DEF CatalogueInv, TypeOK
<1>2. \A i \in DOMAIN notification : notification[i].about \in Books
  BY NotificationType DEF CatalogueInv, TypeOK, Notification
<1>3. \A s \in Requests : Announces(request[s]) => request[s].book \in Books
  BY IdleIsNoRequest DEF CatalogueInv, TypeOK, Request
<1>4. \A s, t \in Requests : Announces(request'[s]) /\ Announces(request'[t])
        /\ request'[s].book = request'[t].book => s = t
  BY <1>1, <1>3 DEF CatalogueInv, Told
<1>5. \A s \in Requests : Announces(request'[s]) => book'[request'[s].book] # "none"
  BY <1>1, <1>3 DEF CatalogueInv, Told
<1>6. \A i \in DOMAIN notification' : book'[notification'[i].about] # "none"
  BY <1>2 DEF CatalogueInv, Told
<1>7. \A s \in Requests : Announces(request'[s]) =>
        /\ request'[s].step = "create" => request'[s].user \notin request'[s].queue
        /\ \A i \in DOMAIN notification' : notification'[i].about = request'[s].book =>
             HasTold(request'[s], notification'[i].user)
  BY <1>1 DEF CatalogueInv, Told
<1>8. NotifiedOnce'
  BY DEF CatalogueInv, NotifiedOnce
<1>9. Told'
  BY <1>4, <1>5, <1>6, <1>7 DEF Told, Announces, HasTold
<1> QED  BY <1>8, <1>9

(* A step of r that changes the mail or log only of the notification it    *)
(* sends a mail for, and leaves r as c.                                    *)
LEMMA LoggedPreserved ==
  ASSUME CatalogueInv, NEW r \in Requests, NEW c,
         request' = [request EXCEPT ![r] = c], crashes' = crashes,
         DOMAIN notification' = DOMAIN notification,
         \A i \in DOMAIN notification :
           \/ /\ ~(Mailing(request[r]) /\ i \in request[r].held)
              /\ notification'[i].logs = notification[i].logs
              /\ notification'[i].delivered = notification[i].delivered
              /\ notification'[i].lost = notification[i].lost
           \/ /\ Mailing(request[r]) /\ i \in request[r].held
              /\ LogIsTrue(notification'[i])
              /\ notification'[i].logs = <<>> =>
                   "failed" \in notification'[i].lost \/ Mailing(c),
         Mailing(c) => /\ Mailing(request[r]) /\ c.held = request[r].held
                       /\ \A i \in c.held : ToBeLogged(c, i)'
  PROVE  Logged'
<1>1. \A s \in Requests : request'[s] = IF s = r THEN c ELSE request[s]
  BY DEF CatalogueInv, TypeOK
<1>2. \A s \in Requests \ {r} : Mailing(request[s]) => 
        \A i \in request[s].held : ~(Mailing(request[r]) /\ i \in request[r].held)
  BY DEF CatalogueInv, Logged
<1>3. ASSUME NEW s \in Requests, Mailing(request'[s])
      PROVE  \E i \in DOMAIN notification' :
               request'[s].held = {i} /\ ToBeLogged(request[s], i)'
  <2>1. CASE s = r
    <3>1. request'[s] = c /\ Mailing(c) /\ Mailing(request[r]) /\ c.held = request[r].held
      BY <1>1, <1>3, <2>1
    <3>2. PICK i \in DOMAIN notification : request[r].held = {i}
      BY <3>1 DEF CatalogueInv, Logged
    <3>3. ToBeLogged(c, i)'
      BY <3>1, <3>2
    <3>4. ToBeLogged(request[s], i)'
      BY <3>1, <3>3 DEF ToBeLogged
    <3> QED  BY <3>1, <3>2, <3>4
  <2>2. CASE s # r
    <3>1. Mailing(request[s]) /\ request'[s] = request[s]
      BY <1>1, <1>3, <2>2
    <3>2. PICK i \in DOMAIN notification : request[s].held = {i} /\ ToBeLogged(request[s], i)
      BY <3>1 DEF CatalogueInv, Logged
    <3>3. /\ notification'[i].logs = notification[i].logs
          /\ notification'[i].delivered = notification[i].delivered
          /\ notification'[i].lost = notification[i].lost
      BY <1>2, <2>2, <3>1, <3>2
    <3> QED  BY <3>1, <3>2, <3>3 DEF ToBeLogged
  <2> QED  BY <2>1, <2>2
<1>4. ASSUME NEW s \in Requests, NEW u \in Requests, Mailing(request'[s]),
             Mailing(request'[u]), request'[s].held \cap request'[u].held # {}
      PROVE  s = u
  BY <1>1, <1>4 DEF CatalogueInv, Logged
<1>5. ASSUME NEW i \in DOMAIN notification' PROVE LogIsTrue(notification'[i])
  BY DEF CatalogueInv, Logged, LogIsTrue
<1>6. ASSUME NEW i \in DOMAIN notification', notification'[i].logs = <<>>
      PROVE  \/ "failed" \in notification'[i].lost \/ crashes' > 0
             \/ \E s \in Requests : Mailing(request'[s]) /\ i \in request'[s].held
  <2>1. CASE Mailing(request[r]) /\ i \in request[r].held
    BY <1>1, <1>6, <2>1
  <2>2. CASE ~(Mailing(request[r]) /\ i \in request[r].held)
    <3>1. Excused(i) /\ notification'[i].lost = notification[i].lost
      BY <1>6, <2>2 DEF CatalogueInv, Logged
    <3>2. ASSUME NEW s \in Requests, Mailing(request[s]), i \in request[s].held
          PROVE  request'[s] = request[s]
      BY <1>1, <2>2, <3>2
    <3> QED  BY <3>1, <3>2 DEF Excused
  <2> QED  BY <2>1, <2>2
<1> QED  BY <1>3, <1>4, <1>5, <1>6 DEF Logged, Mailing, LogIsTrue, Excused

-----------------------------------------------------------------------------
(* Steps that leave the notifications alone.                               *)

LEMMA QuietPreserves ==
  ASSUME CatalogueInv, NEW r \in Requests, NEW c \in Request \cup {Idle},
         request' = [request EXCEPT ![r] = c], notification' = notification,
         StepOfOp(c), ~Mailing(c), ~Mailing(request[r]),
         \A b \in Books : book[b] # "none" => book'[b] # "none",
         Announces(c) =>
           /\ book'[c.book] # "none"
           /\ \/ Announces(request[r]) /\ request[r].book = c.book
              \/ book[c.book] = "none"
           /\ c.step = "create" => c.user \notin c.queue
           /\ \A i \in DOMAIN notification :
                notification[i].about = c.book => HasTold(c, notification[i].user),
         book' \in [Books -> {"none", "listed", "deleted"}],
         bookCategory' \in [Books -> SUBSET Categories],
         news' \in [Books -> BOOLEAN],
         subscription' = subscription, audience' \in [Books -> SUBSET Users],
         crashes' = crashes
  PROVE  CatalogueInv'
<1>1. TypeOK'
  BY DEF CatalogueInv, TypeOK, Request, Idle, Steps, Notification
<1>2. \A s \in Requests : StepOfOp(request[s])'
  BY DEF CatalogueInv, TypeOK, StepOfOp, Idle
<1>3. c.op # "idle" => c \in Request
  BY IdleIsNoRequest
<1>4. Announces(c) => c.book \in Books
  BY <1>3 DEF Announces, Request
<1>5. Told' /\ NotifiedOnce'
  BY <1>4, ToldPreserved
<1>6. Logged'
  BY LoggedPreserved
<1> QED  BY <1>1, <1>2, <1>5, <1>6 DEF CatalogueInv

(* The requests that begin and end.                                        *)
LEMMA BeginType ==
  ASSUME NEW op \in {"create", "update", "delete", "announce"}, NEW b \in Books,
         NEW step \in {"addCategories", "readBook", "erase"},
         (op = "delete") <=> (step = "erase"), (op = "announce") <=> (step = "readBook"),
         NEW want \in SUBSET (Categories \cup {NoCategory}), NEW held \in SUBSET Nat
  PROVE  LET c == [op |-> op, step |-> step, book |-> b, want |-> want, queue |-> {},
                   user |-> NULL, held |-> held]
         IN  c \in Request /\ StepOfOp(c) /\ ~Mailing(c) /\ c.op = op /\ c.book = b
             /\ c.step = step
BY DEF Request, StepOfOp, Mailing, Steps

LEMMA EndPreserves ==
  ASSUME CatalogueInv, NEW r \in Requests, Finish(r), ~Mailing(request[r]),
         notification' = notification, book' = book, bookCategory' \in [Books -> SUBSET Categories],
         news' \in [Books -> BOOLEAN],
         subscription' = subscription, audience' = audience, crashes' = crashes
  PROVE  CatalogueInv'
<1>1. StepOfOp(Idle)
  BY DEF StepOfOp
<1> QED  BY <1>1, IdleIsNoRequest, QuietPreserves DEF Finish, CatalogueInv, TypeOK

LEMMA CategoryIdsType == \A want \in CategoryIds : want \in SUBSET (Categories \cup {NoCategory})
BY DEF CategoryIds

LEMMA AdminCreatePreserves ==
  ASSUME CatalogueInv, NEW r \in Requests, NEW b \in Books, NEW want \in CategoryIds,
         AdminCreate(r, b, want)
  PROVE  CatalogueInv'
<1> DEFINE Begun(op, step) ==
             [op |-> op, step |-> step, book |-> b, want |-> want, queue |-> {},
              user |-> NULL, held |-> {}]
<1>0. TypeOK
  BY DEF CatalogueInv
<1>1. /\ book' \in [Books -> {"none", "listed", "deleted"}] /\ book'[b] = "listed"
      /\ book[b] = "none"
      /\ \A d \in Books : book[d] # "none" => book'[d] # "none"
  BY <1>0 DEF AdminCreate, TypeOK
<1>2. /\ bookCategory' = bookCategory /\ news' = news /\ subscription' = subscription
      /\ notification' = notification /\ audience' = audience /\ crashes' = crashes
  BY DEF AdminCreate
<1>3. PICK op \in {"create", "announce"}, step \in {"addCategories", "readBook"} :
        /\ (op = "announce") <=> (step = "readBook")
        /\ request' = [request EXCEPT ![r] = Begun(op, step)]
        /\ request[r] = Idle
  BY DEF AdminCreate, Begin
<1> DEFINE c == Begun(op, step)
<1>4. /\ c \in Request /\ StepOfOp(c) /\ ~Mailing(c) /\ c.op = op /\ c.book = b
      /\ c.step = step
  BY <1>3, BeginType, CategoryIdsType
<1>5. \A i \in DOMAIN notification : notification[i].about # b
  BY <1>1 DEF CatalogueInv, Told
<1> HIDE DEF c
<1>6. request' = [request EXCEPT ![r] = c] /\ ~Mailing(request[r])
  BY <1>3, IdleIsNoRequest DEF c
<1>7. c.step # "create"
  BY <1>4
<1> QED  BY <1>0, <1>1, <1>2, <1>4, <1>5, <1>6, <1>7, QuietPreserves DEF TypeOK

LEMMA AdminUpdatePreserves ==
  ASSUME CatalogueInv, NEW r \in Requests, NEW b \in Books, NEW want \in CategoryIds,
         AdminUpdate(r, b, want)
  PROVE  CatalogueInv'
<1> DEFINE c == [op |-> "update", step |-> "addCategories", book |-> b, want |-> want,
                 queue |-> {}, user |-> NULL, held |-> {}]
<1>0. TypeOK
  BY DEF CatalogueInv
<1>1. /\ book' = book /\ news' = news /\ subscription' = subscription
      /\ notification' = notification /\ audience' = audience /\ crashes' = crashes
      /\ bookCategory' \in [Books -> SUBSET Categories]
  BY <1>0 DEF AdminUpdate, TypeOK
<1>2. ~Mailing(request[r])
  BY IdleIsNoRequest DEF AdminUpdate, Begin
<1>3. CASE want = {}
  <2>1. Finish(r)
    BY <1>0, <1>3 DEF AdminUpdate, TypeOK, Finish
  <2> QED  BY <1>0, <1>1, <1>2, <2>1, EndPreserves DEF TypeOK
<1>4. CASE want # {}
  <2>1. request' = [request EXCEPT ![r] = c]
    BY <1>4 DEF AdminUpdate, Begin
  <2>2. /\ c \in Request /\ StepOfOp(c) /\ ~Mailing(c) /\ c.op = "update"
    BY BeginType, CategoryIdsType
  <2>3. ~Announces(c)
    BY <2>2 DEF Announces
  <2> HIDE DEF c
  <2> QED  BY <1>0, <1>1, <1>2, <2>1, <2>2, <2>3, QuietPreserves DEF TypeOK
<1> QED  BY <1>3, <1>4

(* A creation that is through becomes the announcement of its book, of     *)
(* which nobody has heard yet.                                             *)
LEMMA AddCategoriesPreserves ==
  ASSUME CatalogueInv, NEW r \in Requests, AddCategories(r)
  PROVE  CatalogueInv'
<1> DEFINE q == request[r]
           ok == NoCategory \notin q.want /\ book[q.book] = "listed"
                 /\ bookCategory[q.book] \cap q.want = {}
           c == [q EXCEPT !.op = "announce", !.step = "readBook"]
<1>0. TypeOK
  BY DEF CatalogueInv
<1>1. q \in Request /\ q.step = "addCategories" /\ StepOfOp(q) /\ q # Idle
  BY AtIsRequest DEF AddCategories
<1>6. ~Mailing(q)
  BY <1>1 DEF Mailing
<1>2. /\ book' = book /\ news' = news /\ subscription' = subscription
      /\ notification' = notification /\ audience' = audience /\ crashes' = crashes
  BY DEF AddCategories
<1>3. bookCategory' \in [Books -> SUBSET Categories]
  <2>1. CASE ok
    <3>1. bookCategory' = [bookCategory EXCEPT ![q.book] = @ \cup q.want]
      BY <2>1 DEF AddCategories
    <3>2. q.want \subseteq Categories
      BY <1>1, <2>1 DEF Request
    <3> QED  BY <1>0, <3>1, <3>2 DEF TypeOK
  <2>2. CASE ~ok
    BY <1>0, <2>2 DEF AddCategories, TypeOK
  <2> QED  BY <2>1, <2>2
<1>4. CASE ok /\ q.op = "create"
  <2>1. request' = [request EXCEPT ![r] = c]
    BY <1>4 DEF AddCategories
  <2>2. c \in Request /\ c.op = "announce" /\ c.step = "readBook" /\ c.book = q.book
    BY <1>1 DEF Request, Steps
  <2>3. StepOfOp(c) /\ ~Mailing(c) /\ Announces(q)
    BY <1>4, <2>2 DEF StepOfOp, Mailing, Announces
  <2>4. \A i \in DOMAIN notification : notification[i].about # q.book
    BY <1>1, <2>3 DEF CatalogueInv, Told, HasTold
  <2>5. book[q.book] # "none"
    BY <2>3 DEF CatalogueInv, Told
  <2> HIDE DEF c
  <2> QED  BY <1>0, <1>2, <1>3, <2>1, <2>2, <2>3, <2>4, <2>5, <1>6, QuietPreserves DEF TypeOK
<1>5. CASE ~(ok /\ q.op = "create")
  <2>1. Finish(r)
    BY <1>5 DEF AddCategories, Finish
  <2> QED  BY <1>0, <1>2, <1>3, <2>1, <1>6, EndPreserves DEF TypeOK
<1> QED  BY <1>4, <1>5

LEMMA AdminDeletePreserves ==
  ASSUME CatalogueInv, NEW r \in Requests, NEW b \in Books, AdminDelete(r, b)
  PROVE  CatalogueInv'
<1> DEFINE held == {i \in DOMAIN notification : notification[i].about = b}
           c == [op |-> "delete", step |-> "erase", book |-> b, want |-> {}, queue |-> {},
                 user |-> NULL, held |-> held]
<1>0. TypeOK
  BY DEF CatalogueInv
<1>1. request' = [request EXCEPT ![r] = c] /\ ~Mailing(request[r])
  BY IdleIsNoRequest DEF AdminDelete, Begin
<1>2. held \in SUBSET Nat
  BY <1>0, NotificationType DEF TypeOK
<1> HIDE DEF held
<1>3. c \in Request /\ StepOfOp(c) /\ ~Mailing(c) /\ c.op = "delete"
  BY <1>2 DEF Request, StepOfOp, Mailing, Steps
<1>4. ~Announces(c)
  BY <1>3 DEF Announces
<1>5. UNCHANGED <<rows, subscription, crashes>>
  BY DEF AdminDelete
<1> HIDE DEF c
<1> QED  BY <1>0, <1>1, <1>3, <1>4, <1>5, QuietPreserves DEF TypeOK, rows

(* The announcement up to its loop: nobody has been told.                  *)
LEMMA AnnouncementPreserves ==
  ASSUME CatalogueInv, NEW r \in Requests, NEW c,
         request[r] \in Request, request[r].op = "announce",
         request' = [request EXCEPT ![r] = c],
         c \in Request, c.op = "announce", c.book = request[r].book,
         \/ /\ request[r].step \in {"readBook", "createNews", "readSubscriptions"}
            /\ c.step \in {"createNews", "readSubscriptions", "next"}
         \/ /\ request[r].step = "next" /\ c.step \in {"next", "create"}
            /\ c.queue \subseteq request[r].queue /\ c.user \in request[r].queue \ c.queue,
         notification' = notification, book' = book, bookCategory' = bookCategory,
         news' \in [Books -> BOOLEAN], audience' \in [Books -> SUBSET Users],
         subscription' = subscription, crashes' = crashes
  PROVE  CatalogueInv'
<1>0. TypeOK /\ c # Idle
  BY IdleIsNoRequest DEF CatalogueInv
<1>1. Announces(request[r]) /\ StepOfOp(c) /\ ~Mailing(c) /\ ~Mailing(request[r])
  BY DEF Announces, StepOfOp, Mailing, Request
<1>2. /\ book[c.book] # "none"
      /\ \A i \in DOMAIN notification : notification[i].about = c.book =>
           HasTold(request[r], notification[i].user)
  BY <1>1 DEF CatalogueInv, Told
<1>3. /\ c.step = "create" => c.user \notin c.queue
      /\ \A i \in DOMAIN notification : notification[i].about = c.book =>
           HasTold(c, notification[i].user)
  BY <1>2 DEF HasTold
<1> QED  BY <1>0, <1>1, <1>2, <1>3, QuietPreserves DEF TypeOK

LEMMA UserIdsType == ASSUME TypeOK, NEW want PROVE UserIds(want) \in SUBSET Users
BY DEF UserIds, TypeOK

LEMMA ReadsPreserve ==
  ASSUME CatalogueInv, NEW r \in Requests,
         ReadBook(r) \/ CreateNews(r) \/ ReadSubscriptions(r) \/ NextUser(r)
  PROVE  CatalogueInv'
<1> DEFINE q == request[r]
<1>0. TypeOK
  BY DEF CatalogueInv
<1>1. /\ q \in Request /\ StepOfOp(q) /\ q # Idle
      /\ q.step \in {"readBook", "createNews", "readSubscriptions", "next"}
  BY AtIsRequest DEF ReadBook, CreateNews, ReadSubscriptions, NextUser
<1>2. q.op = "announce" /\ ~Mailing(q)
  BY <1>1 DEF StepOfOp, Request, Mailing
<1>3. /\ notification' = notification /\ book' = book /\ bookCategory' = bookCategory
      /\ subscription' = subscription /\ crashes' = crashes
  BY DEF ReadBook, CreateNews, ReadSubscriptions, NextUser, rows
<1>4. CASE ReadBook(r)
  <2> DEFINE c == [q EXCEPT !.want = bookCategory[q.book], !.step = "createNews"]
  <2>1. request' = [request EXCEPT ![r] = c] \/ Finish(r)
    BY <1>4 DEF ReadBook, Finish
  <2>2. bookCategory[q.book] \in SUBSET (Categories \cup {NoCategory})
    BY <1>0, <1>1 DEF TypeOK, Request
  <2>3. /\ c \in Request /\ c.op = "announce" /\ c.book = q.book /\ c.step = "createNews"
    BY <1>1, <1>2, <2>2 DEF Request, Steps
  <2>4. q.step = "readBook" /\ news' = news /\ audience' = audience
    BY <1>4, AtIsRequest DEF ReadBook, rows
  <2> HIDE DEF c
  <2> QED  BY <1>0, <1>1, <1>2, <1>3, <2>1, <2>3, <2>4, AnnouncementPreserves, EndPreserves
        DEF TypeOK
<1>5. CASE CreateNews(r)
  <2> DEFINE c == [q EXCEPT !.step = "readSubscriptions"]
  <2>1. /\ request' = [request EXCEPT ![r] = c] \/ Finish(r)
        /\ news' \in [Books -> BOOLEAN]
    BY <1>0, <1>5 DEF CreateNews, GoTo, Finish, TypeOK
  <2>3. /\ c \in Request /\ c.op = "announce" /\ c.book = q.book
        /\ c.step = "readSubscriptions"
    BY <1>1, <1>2 DEF Request, Steps
  <2>4. q.step = "createNews" /\ audience' = audience
    BY <1>5, AtIsRequest DEF CreateNews
  <2> HIDE DEF c
  <2> QED  BY <1>0, <1>1, <1>2, <1>3, <2>1, <2>3, <2>4, AnnouncementPreserves, EndPreserves
        DEF TypeOK
<1>6. CASE ReadSubscriptions(r)
  <2> DEFINE c == [q EXCEPT !.queue = UserIds(q.want), !.step = "next"]
  <2>1. request' = [request EXCEPT ![r] = c]
    BY <1>6 DEF ReadSubscriptions
  <2>2. /\ c \in Request /\ c.op = "announce" /\ c.book = q.book /\ c.step = "next"
    BY <1>0, <1>1, <1>2, UserIdsType DEF Request, Steps
  <2>3. audience' \in [Books -> SUBSET Users]
    BY <1>0, <1>6 DEF ReadSubscriptions, TypeOK, Subscribers
  <2>4. q.step = "readSubscriptions" /\ news' = news
    BY <1>6, AtIsRequest DEF ReadSubscriptions
  <2> HIDE DEF c
  <2> QED  BY <1>0, <1>1, <1>2, <1>3, <2>1, <2>2, <2>3, <2>4, AnnouncementPreserves DEF TypeOK
<1>7. CASE NextUser(r)
  <2>1. q.step = "next" /\ news' = news /\ audience' = audience
    BY <1>7, AtIsRequest DEF NextUser, rows
  <2>2. CASE q.queue = {}
    <3>1. Finish(r)
      BY <1>7, <2>2 DEF NextUser
    <3> QED  BY <1>0, <1>2, <1>3, <2>1, <3>1, EndPreserves DEF TypeOK
  <2>3. CASE q.queue # {}
    <3>1. PICK u \in q.queue : request' = [request EXCEPT ![r] =
             [q EXCEPT !.queue = Rest(q.queue, u), !.user = u,
                       !.step = IF news[q.book] THEN "create" ELSE "next"]]
      BY <1>7, <2>3 DEF NextUser
    <3> DEFINE c == [q EXCEPT !.queue = Rest(q.queue, u), !.user = u,
                              !.step = IF news[q.book] THEN "create" ELSE "next"]
    <3>2. q.queue \in SUBSET Users
      BY <1>1 DEF Request
    <3>3. /\ c \in Request /\ c.op = "announce" /\ c.book = q.book
          /\ c.step \in {"next", "create"} /\ c.queue = q.queue \ {u} /\ c.user = u
      BY <1>1, <1>2, <3>2 DEF Request, Steps, Rest
    <3>4. request' = [request EXCEPT ![r] = c]
      BY <3>1
    <3> HIDE DEF c
    <3>5. c.queue \subseteq q.queue /\ c.user \in q.queue \ c.queue
      BY <3>3
    <3> QED  BY <1>0, <1>1, <1>2, <1>3, <2>1, <3>3, <3>4, <3>5, AnnouncementPreserves DEF TypeOK
  <2> QED  BY <2>2, <2>3
<1> QED  BY <1>4, <1>5, <1>6, <1>7

-----------------------------------------------------------------------------
(* Steps that change a notification. *)

(* The deletion of a book erases its notifications or takes their name.    *)
LEMMA CommitDeletePreserves ==
  ASSUME CatalogueInv, NEW r \in Requests, CommitDelete(r)
  PROVE  CatalogueInv'
<1> DEFINE b == request[r].book
<1>0. TypeOK /\ notification \in Seq(Notification)
  BY DEF CatalogueInv, TypeOK
<1>1. request[r] \in Request /\ request' = [request EXCEPT ![r] = Idle]
  BY AtIsRequest DEF CommitDelete, Finish
<1>2. notification' = [i \in DOMAIN notification |->
       IF i \in request[r].held THEN [notification[i] EXCEPT !.erased = TRUE]
       ELSE IF notification[i].about = b THEN [notification[i] EXCEPT !.named = FALSE]
       ELSE notification[i]]
  BY DEF CommitDelete
<1>3. \A i \in DOMAIN notification :
        /\ [notification[i] EXCEPT !.erased = TRUE] \in Notification
        /\ [notification[i] EXCEPT !.named = FALSE] \in Notification
        /\ notification[i] \in Notification
  BY <1>0, NotificationType DEF Notification
<1>4. notification' \in [DOMAIN notification -> Notification]
  BY <1>2, <1>3
<1>5. /\ notification' \in Seq(Notification) /\ DOMAIN notification' = DOMAIN notification
  BY <1>0, <1>4, NotificationsMapped
<1>6. ASSUME NEW i \in DOMAIN notification
      PROVE  /\ notification'[i].user = notification[i].user
             /\ notification'[i].about = notification[i].about
             /\ notification'[i].logs = notification[i].logs
             /\ notification'[i].delivered = notification[i].delivered
             /\ notification'[i].lost = notification[i].lost
  <2>1. notification[i] \in Notification
    BY <1>3
  <2> QED  BY <1>2, <2>1 DEF Notification
<1>7. /\ book' \in [Books -> {"none", "listed", "deleted"}]
      /\ \A d \in Books : book[d] # "none" => book'[d] # "none"
      /\ bookCategory' \in [Books -> SUBSET Categories]
      /\ news' \in [Books -> BOOLEAN]
      /\ subscription' = subscription /\ audience' = audience /\ crashes' = crashes
  BY <1>0 DEF CommitDelete, TypeOK
<1>8. TypeOK'
  <2>1. request' \in [Requests -> Request \cup {Idle}]
    BY <1>0, <1>1 DEF TypeOK
  <2> QED  BY <1>0, <1>5, <1>7, <2>1 DEF TypeOK, Request, Idle, Steps, Notification
<1>9. \A s \in Requests : StepOfOp(request[s])'
  BY <1>0, <1>1 DEF CatalogueInv, TypeOK, StepOfOp, Idle
<1>10. Told' /\ NotifiedOnce'
  BY <1>1, <1>5, <1>6, <1>7, IdleIsNoRequest, ToldPreserved
<1>11. Logged'
  <2>1. request[r].step = "erase"
    BY AtIsRequest DEF CommitDelete
  <2>2. ~Mailing(request[r])
    BY <2>1 DEF Mailing
  <2> QED  BY <1>1, <1>5, <1>6, <1>7, <2>2, IdleIsNoRequest, LoggedPreserved
<1> QED  BY <1>8, <1>9, <1>10, <1>11 DEF CatalogueInv

(* A book that is there when its notification is written, and of which its *)
(* user has not been told.                                                 *)
LEMMA CreateNotificationPreserves ==
  ASSUME CatalogueInv, NEW r \in Requests, CreateNotification(r)
  PROVE  CatalogueInv'
<1> DEFINE q == request[r]
           n == [user |-> q.user, about |-> q.book, named |-> TRUE, erased |-> FALSE,
                 logs |-> <<>>, delivered |-> FALSE, lost |-> {}]
           new == Len(notification) + 1
           c == [q EXCEPT !.held = {new}, !.step = "mail"]
<1>0. TypeOK /\ notification \in Seq(Notification)
  BY DEF CatalogueInv, TypeOK
<1>1. q \in Request /\ StepOfOp(q) /\ q.step = "create" /\ q # Idle
  BY AtIsRequest DEF CreateNotification
<1>2. q.op = "announce" /\ Announces(q) /\ ~Mailing(q)
  BY <1>1 DEF StepOfOp, Request, Announces, Mailing
<1>3. UNCHANGED <<book, bookCategory, news, subscription, audience, crashes>>
  BY DEF CreateNotification
<1>4. CASE ~news[q.book]
  <2>1. Finish(r) /\ notification' = notification
    BY <1>4 DEF CreateNotification
  <2> QED  BY <1>0, <1>2, <1>3, <2>1, EndPreserves DEF TypeOK
<1>5. CASE news[q.book]
  <2>1. notification' = Append(notification, n) /\ request' = [request EXCEPT ![r] = c]
    BY <1>5 DEF CreateNotification
  <2>2. /\ DOMAIN notification = 1..Len(notification) /\ Len(notification) \in Nat
        /\ \A i \in DOMAIN notification : notification[i] \in Notification
    BY <1>0, NotificationType
  <2>3. q.user \in Users
    BY <1>1 DEF StepOfOp
  <2>4. n \in Notification /\ n.user = q.user /\ n.about = q.book /\ n.logs = <<>>
        /\ n.delivered = FALSE
    BY <1>1, <2>3 DEF Notification, Request
  <2> HIDE DEF n
  <2>5. /\ notification' \in Seq(Notification)
        /\ DOMAIN notification' = 1..new
        /\ \A i \in DOMAIN notification : notification'[i] = notification[i]
        /\ notification'[new] = n
        /\ DOMAIN notification' = DOMAIN notification \cup {new} /\ new \notin DOMAIN notification
    BY <1>0, <2>1, <2>2, <2>4, AppendProperties
  <2>6. /\ c \in Request /\ c.op = "announce" /\ c.step = "mail" /\ c.book = q.book
        /\ c.held = {new} /\ c.queue = q.queue
    <3>1. {new} \in SUBSET Nat
      BY <2>2
    <3> HIDE DEF new
    <3> QED  BY <1>1, <1>2, <3>1 DEF Request, Steps
  <2> HIDE DEF new, c
  <2>7. \A s \in Requests : request'[s] = IF s = r THEN c ELSE request[s]
    BY <1>0, <2>1 DEF TypeOK
  <2>8. Announces(c) /\ Mailing(c) /\ c # Idle
    BY <2>6, IdleIsNoRequest DEF Announces, Mailing
  <2>9. TypeOK'
    <3>1. request' \in [Requests -> Request \cup {Idle}]
      BY <1>0, <2>1, <2>6 DEF TypeOK
    <3> QED  BY <1>0, <1>3, <2>5, <3>1 DEF TypeOK, Request, Idle, Steps, Notification
  <2>10. \A s \in Requests : StepOfOp(request[s])'
    BY <2>6, <2>7 DEF CatalogueInv, StepOfOp, Idle
  <2>11. book[q.book] # "none" /\ q.user \notin q.queue
         /\ \A i \in DOMAIN notification :
              notification[i].about = q.book => HasTold(q, notification[i].user)
    BY <1>1, <1>2 DEF CatalogueInv, Told
  <2>12. NotifiedOnce'
    <3>1. \A i \in DOMAIN notification : notification[i].about = q.book => notification[i].user # q.user
      BY <1>1, <2>11 DEF HasTold
    <3>2. \A i, j \in DOMAIN notification :
            notification[i].user = notification[j].user
              /\ notification[i].about = notification[j].about => i = j
      BY DEF CatalogueInv, NotifiedOnce
    <3>3. notification'[new].user = q.user /\ notification'[new].about = q.book
      BY <2>4, <2>5
    <3> HIDE DEF q
    <3> SUFFICES ASSUME NEW i \in DOMAIN notification \cup {new},
                        NEW j \in DOMAIN notification \cup {new},
                        notification'[i].user = notification'[j].user,
                        notification'[i].about = notification'[j].about
                 PROVE  i = j
      BY <2>5 DEF NotifiedOnce
    <3>4. CASE i # new /\ j # new
      BY <2>5, <3>2, <3>4
    <3>5. CASE i = new /\ j # new
      BY <2>5, <3>1, <3>3, <3>5
    <3>6. CASE i # new /\ j = new
      BY <2>5, <3>1, <3>3, <3>6
    <3> QED  BY <3>4, <3>5, <3>6
  <2>13. Told'
    <3>1. \A s, t \in Requests : Announces(request'[s]) /\ Announces(request'[t])
            /\ request'[s].book = request'[t].book => s = t
      BY <1>2, <2>6, <2>7 DEF CatalogueInv, Told
    <3>2. \A s \in Requests : Announces(request'[s]) => book'[request'[s].book] # "none"
      BY <1>3, <2>6, <2>7, <2>11 DEF CatalogueInv, Told
    <3>3. \A i \in DOMAIN notification' : book'[notification'[i].about] # "none"
      BY <1>3, <2>4, <2>5, <2>11 DEF CatalogueInv, Told
    <3>4. ASSUME NEW s \in Requests, Announces(request'[s]), s # r
          PROVE  /\ request'[s] = request[s] /\ request[s].book # q.book
      BY <1>2, <2>7, <3>4 DEF CatalogueInv, Told
    <3>5. \A i \in DOMAIN notification' : notification'[i].about = c.book =>
             HasTold(c, notification'[i].user)
      BY <2>4, <2>5, <2>6, <2>11 DEF HasTold
    <3>6. ASSUME NEW s \in Requests, Announces(request'[s])
          PROVE  /\ request'[s].step = "create" => request'[s].user \notin request'[s].queue
                 /\ \A i \in DOMAIN notification' : notification'[i].about = request'[s].book =>
                      HasTold(request'[s], notification'[i].user)
      <4>1. CASE s = r
        BY <2>6, <2>7, <3>5, <4>1
      <4>2. CASE s # r
        <5>1. request'[s] = request[s] /\ request[s].book # q.book /\ Announces(request[s])
          BY <3>4, <3>6, <4>2
        <5>2. /\ request[s].step = "create" => request[s].user \notin request[s].queue
              /\ \A i \in DOMAIN notification : notification[i].about = request[s].book =>
                   HasTold(request[s], notification[i].user)
          BY <5>1 DEF CatalogueInv, Told
        <5>3. \A i \in DOMAIN notification' : notification'[i].about = request[s].book =>
                i \in DOMAIN notification /\ notification'[i] = notification[i]
          BY <2>4, <2>5, <5>1
        <5> QED  BY <5>1, <5>2, <5>3
      <4> QED  BY <4>1, <4>2
    <3> QED  BY <3>1, <3>2, <3>3, <3>6 DEF Told, Announces, HasTold
  <2>14. Logged'
    <3>1. ASSUME NEW s \in Requests, Mailing(request'[s])
          PROVE  \E i \in DOMAIN notification' :
                   request'[s].held = {i} /\ ToBeLogged(request[s], i)'
      <4>1. CASE s = r
        BY <2>4, <2>5, <2>6, <2>7, <4>1 DEF ToBeLogged
      <4>2. CASE s # r
        <5>1. request'[s] = request[s] /\ Mailing(request[s])
          BY <2>7, <3>1, <4>2
        <5>2. PICK i \in DOMAIN notification :
                request[s].held = {i} /\ ToBeLogged(request[s], i)
          BY <5>1 DEF CatalogueInv, Logged
        <5>3. i \in DOMAIN notification' /\ notification'[i] = notification[i]
          BY <2>5
        <5>4. ToBeLogged(request[s], i)'
          BY <5>1, <5>2, <5>3 DEF ToBeLogged
        <5> QED  BY <5>1, <5>2, <5>3, <5>4
      <4> QED  BY <4>1, <4>2
    <3>2. \A s \in Requests \ {r} : Mailing(request[s]) => new \notin request[s].held
      BY <2>5 DEF CatalogueInv, Logged
    <3>3. \A s, t \in Requests : Mailing(request'[s]) /\ Mailing(request'[t])
            /\ request'[s].held \cap request'[t].held # {} => s = t
      BY <2>6, <2>7, <3>2 DEF CatalogueInv, Logged
    <3>4. ASSUME NEW i \in DOMAIN notification'
          PROVE  /\ LogIsTrue(notification'[i])
                 /\ notification'[i].logs = <<>> => Excused(i)'
      <4>1. CASE i = new
        <5>1. Mailing(request'[r]) /\ i \in request'[r].held
          BY <2>6, <2>7, <2>8, <4>1
        <5>2. Excused(i)'
          BY <5>1 DEF Excused, Mailing
        <5> QED  BY <2>4, <2>5, <4>1, <5>2 DEF LogIsTrue
      <4>2. CASE i # new
        <5>1. i \in DOMAIN notification /\ notification'[i] = notification[i]
          BY <2>5, <4>2
        <5>2. LogIsTrue(notification[i]) /\ (notification[i].logs = <<>> => Excused(i))
          BY <5>1 DEF CatalogueInv, Logged
        <5>3. \A s \in Requests : Mailing(request[s]) => request'[s] = request[s]
          BY <1>2, <2>7
        <5>4. Excused(i) => Excused(i)'
          BY <1>3, <5>1, <5>3 DEF Excused, Mailing
        <5> QED  BY <5>1, <5>2, <5>4
      <4> QED  BY <4>1, <4>2
    <3> QED  BY <3>1, <3>3, <3>4 DEF Logged, Mailing, LogIsTrue
  <2> QED  BY <2>9, <2>10, <2>12, <2>13, <2>14 DEF CatalogueInv
<1> QED  BY <1>4, <1>5

(* A step of the mailing of notification i, which makes it n and goes on to*)
(* c: to the next user once there is an entry, or to nothing when there can*)
(* be none.                                                                *)
LEMMA MailingPreserves ==
  ASSUME CatalogueInv, NEW r \in Requests, Mailing(request[r]),
         NEW i \in DOMAIN notification, request[r].held = {i},
         NEW n \in Notification, LogIsTrue(n),
         n.user = notification[i].user, n.about = notification[i].about,
         NEW c \in Request \cup {Idle},
         \/ c = Idle /\ "failed" \in n.lost
         \/ /\ c = [request[r] EXCEPT !.step = c.step]
            /\ \/ c.step = "next" /\ n.logs # <<>>
               \/ c.step = "log" /\ n.logs = <<>> /\ n.delivered
               \/ /\ c.step = "logFailure" /\ n.logs = <<>>
                  /\ n.delivered => "sent" \in n.lost,
         notification' = [notification EXCEPT ![i] = n],
         request' = [request EXCEPT ![r] = c],
         UNCHANGED <<book, bookCategory, news, subscription, audience, crashes>>
  PROVE  CatalogueInv'
<1> DEFINE q == request[r]
<1>0. TypeOK /\ notification \in Seq(Notification)
  BY DEF CatalogueInv, TypeOK
<1>1. q \in Request /\ StepOfOp(q) /\ q.op = "announce" /\ Announces(q)
  BY <1>0, IdleIsNoRequest DEF CatalogueInv, TypeOK, Mailing, Announces
<1>2. notification' \in [DOMAIN notification -> Notification]
  BY <1>0, NotificationType
<1>3. notification' \in Seq(Notification) /\ DOMAIN notification' = DOMAIN notification
  BY <1>0, <1>2, NotificationsMapped
<1>4. \A j \in DOMAIN notification :
        notification'[j] = IF j = i THEN n ELSE notification[j]
  OBVIOUS
<1>5. TypeOK'
  <2>1. request' \in [Requests -> Request \cup {Idle}]
    BY <1>0 DEF TypeOK
  <2> QED  BY <1>0, <1>3, <2>1 DEF TypeOK, Request, Idle, Steps, Notification
<1>6. c # Idle => /\ c.op = "announce" /\ c.book = q.book /\ c.queue = q.queue
                  /\ c.held = q.held /\ c.step \in {"next", "log", "logFailure"}
                  /\ StepOfOp(c) /\ Announces(c)
  BY <1>1 DEF Request, StepOfOp, Announces
<1>7. \A s \in Requests : StepOfOp(request[s])'
  BY <1>0, <1>6 DEF CatalogueInv, TypeOK, StepOfOp, Idle
<1>8. /\ book[q.book] # "none"
      /\ \A j \in DOMAIN notification :
           notification[j].about = q.book => HasTold(q, notification[j].user)
  BY <1>1 DEF CatalogueInv, Told
<1>9. Told' /\ NotifiedOnce'
  <2>1. Announces(c) => /\ c.book \in Books /\ c.step # "create" /\ c.book = q.book
                        /\ \A j \in DOMAIN notification :
                             notification[j].about = c.book => HasTold(c, notification[j].user)
    BY <1>6, <1>8, IdleIsNoRequest DEF HasTold, Request
  <2> QED  BY <1>1, <1>3, <1>4, <1>8, <2>1, ToldPreserved
<1>10. Logged'
  <2>1. ASSUME NEW j \in DOMAIN notification
        PROVE  \/ /\ ~(Mailing(q) /\ j \in q.held)
                  /\ notification'[j].logs = notification[j].logs
                  /\ notification'[j].delivered = notification[j].delivered
                  /\ notification'[j].lost = notification[j].lost
               \/ /\ Mailing(q) /\ j \in q.held
                  /\ LogIsTrue(notification'[j])
                  /\ notification'[j].logs = <<>> =>
                       "failed" \in notification'[j].lost \/ Mailing(c)
    <3>1. CASE j = i
      <4>1. n.logs = <<>> => "failed" \in n.lost \/ Mailing(c)
        <5>1. ASSUME c # Idle, n.logs = <<>> PROVE c.step \in {"log", "logFailure"}
          BY <5>1
        <5>2. ASSUME c = Idle PROVE "failed" \in n.lost
          <6>1. \A step : [q EXCEPT !.step = step].op = "announce"
            BY <1>1 DEF Request
          <6>2. c # [q EXCEPT !.step = c.step]
            BY <5>2, <6>1, IdleIsNoRequest
          <6> QED  BY <6>2
        <5>3. ASSUME c # Idle, n.logs = <<>> PROVE Mailing(c)
          BY <1>6, <5>1, <5>3 DEF Mailing
        <5> QED  BY <5>2, <5>3
      <4>2. notification'[j] = n /\ j \in q.held
        BY <1>4, <3>1
      <4> QED  BY <4>1, <4>2
    <3>2. CASE j # i
      BY <1>4, <3>2
    <3> QED  BY <3>1, <3>2
  <2>2. Mailing(c) => /\ Mailing(q) /\ c.held = q.held
                      /\ \A j \in c.held : ToBeLogged(c, j)'
    BY <1>4, <1>6, IdleIsNoRequest DEF Mailing, ToBeLogged
  <2> HIDE DEF q
  <2> QED  BY <1>3, <2>1, <2>2, LoggedPreserved DEF q
<1> QED  BY <1>5, <1>7, <1>9, <1>10 DEF CatalogueInv

(* The request that sends a mail or writes a log holds one notification,   *)
(* which has no log yet.                                                   *)
LEMMA MailingHolds ==
  ASSUME CatalogueInv, NEW r \in Requests, NEW step \in {"mail", "log", "logFailure"},
         At(r, step)
  PROVE  /\ request[r] \in Request /\ Mailing(request[r]) /\ request[r].step = step
         /\ \E i \in DOMAIN notification :
              /\ request[r].held = {i} /\ ToBeLogged(request[r], i)
              /\ notification[i] \in Notification
<1>1. request[r] \in Request /\ request[r].step = step /\ StepOfOp(request[r])
      /\ request[r] # Idle
  BY AtIsRequest
<1>2. Mailing(request[r])
  BY <1>1 DEF StepOfOp, Request, Mailing
<1> QED  BY <1>1, <1>2, NotificationType DEF CatalogueInv, TypeOK, Logged

(* The mail is sent or not.                                                *)
LEMMA SendMailPreserves ==
  ASSUME CatalogueInv, NEW r \in Requests, SendMail(r)
  PROVE  CatalogueInv'
<1> DEFINE q == request[r]
<1>1. q \in Request /\ Mailing(q)
  BY MailingHolds DEF SendMail
<1>2. PICK i \in DOMAIN notification :
        q.held = {i} /\ ToBeLogged(q, i) /\ notification[i] \in Notification
  BY MailingHolds DEF SendMail
<1>3. PICK sent \in BOOLEAN :
        /\ request' = [request EXCEPT ![r] = AfterMail(q, sent)]
        /\ notification' = [j \in DOMAIN notification |->
             IF j \in q.held THEN [notification[j] EXCEPT !.delivered = sent]
             ELSE notification[j]]
  BY DEF SendMail
<1> DEFINE n == [notification[i] EXCEPT !.delivered = sent]
           c == AfterMail(q, sent)
<1>4. /\ n \in Notification /\ n.user = notification[i].user /\ n.logs = <<>>
      /\ n.about = notification[i].about /\ n.delivered = sent
  BY <1>2 DEF Notification, ToBeLogged
<1>5. /\ c \in Request /\ c = [q EXCEPT !.step = c.step]
      /\ c.step = IF sent THEN "log" ELSE "logFailure"
  BY <1>1 DEF AfterMail, Request, Steps
<1>6. notification' = [notification EXCEPT ![i] = n]
  BY <1>2, <1>3
<1>7. LogIsTrue(n)
  BY <1>4 DEF LogIsTrue
<1> HIDE DEF n, c
<1>8. request' = [request EXCEPT ![r] = c]
  BY <1>3 DEF c
<1>9. UNCHANGED <<book, bookCategory, news, subscription, audience, crashes>>
  BY DEF SendMail
<1> QED  BY <1>1, <1>2, <1>4, <1>5, <1>6, <1>7, <1>8, <1>9, MailingPreserves

(* The write of an entry, or the failure of it, changes one notification.  *)
LEMMA WriteLogPreserves ==
  ASSUME CatalogueInv, NEW r \in Requests, WriteLog(r) \/ WriteFailureLog(r)
  PROVE  CatalogueInv'
<1> DEFINE q == request[r]
           Logs(i, status) == [notification[i] EXCEPT !.logs = <<status>>]
           Fails(i, status) ==
             [notification[i] EXCEPT !.lost = notification[i].lost \cup {status}]
           To(step) == [q EXCEPT !.step = step]
<1>1. q \in Request /\ Mailing(q) /\ (WriteLog(r) => q.step = "log")
      /\ (WriteFailureLog(r) => q.step = "logFailure")
  BY MailingHolds DEF WriteLog, WriteFailureLog
<1>2. PICK i \in DOMAIN notification :
        q.held = {i} /\ ToBeLogged(q, i) /\ notification[i] \in Notification
  BY MailingHolds DEF WriteLog, WriteFailureLog
<1>3. UNCHANGED <<book, bookCategory, news, subscription, audience, crashes>>
  BY DEF WriteLog, WriteFailureLog
<1>4. notification[i].logs = <<>>
  BY <1>2 DEF ToBeLogged
<1>5. \A status \in Statuses :
        /\ Log(r, status) => notification' = [notification EXCEPT ![i] = Logs(i, status)]
        /\ LogFails(r, status) => notification' = [notification EXCEPT ![i] = Fails(i, status)]
  <2>1. \A status : Append(notification[i].logs, status) = <<status>>
    BY <1>4
  <2> QED  BY <1>2, <2>1 DEF Log, LogFails
<1>6. \A step \in {"next", "logFailure"} :
        /\ To(step) \in Request /\ To(step).step = step
        /\ GoTo(r, step) => request' = [request EXCEPT ![r] = To(step)]
  BY <1>1 DEF Request, Steps, GoTo
<1> HIDE DEF Logs, Fails, To
<1>7. /\ "sent" \in Statuses /\ "failed" \in Statuses
      /\ Idle \in Request \cup {Idle}
  BY DEF Statuses
<1>8. \A step \in {"next", "logFailure"} : To(step) = [q EXCEPT !.step = To(step).step]
  BY <1>6 DEF To
<1>9. \A status \in Statuses :
        /\ Logs(i, status) \in Notification /\ Logs(i, status).logs = <<status>>
        /\ Logs(i, status).user = notification[i].user
        /\ Logs(i, status).about = notification[i].about
        /\ Logs(i, status).delivered = notification[i].delivered
        /\ Logs(i, status).lost = notification[i].lost
        /\ Fails(i, status) \in Notification /\ Fails(i, status).logs = <<>>
        /\ Fails(i, status).user = notification[i].user
        /\ Fails(i, status).about = notification[i].about
        /\ Fails(i, status).delivered = notification[i].delivered
        /\ status \in Fails(i, status).lost
  <2> TAKE status \in Statuses
  <2> DEFINE n == notification[i]
  <2>1. n \in Notification /\ n.logs = <<>>
    BY <1>2, <1>4
  <2>2. /\ Logs(i, status) = [n EXCEPT !.logs = <<status>>]
        /\ Fails(i, status) = [n EXCEPT !.lost = n.lost \cup {status}]
    BY DEF Logs, Fails
  <2> HIDE DEF n
  <2>3. <<status>> \in Seq(Statuses)
    OBVIOUS
  <2>4. /\ Logs(i, status) \in Notification /\ Logs(i, status).logs = <<status>>
        /\ Logs(i, status).user = n.user /\ Logs(i, status).about = n.about
        /\ Logs(i, status).delivered = n.delivered /\ Logs(i, status).lost = n.lost
    BY <2>1, <2>2, <2>3 DEF Notification
  <2>5. /\ Fails(i, status) \in Notification /\ Fails(i, status).logs = <<>>
        /\ Fails(i, status).user = n.user /\ Fails(i, status).about = n.about
        /\ Fails(i, status).delivered = n.delivered /\ status \in Fails(i, status).lost
    BY <2>1, <2>2 DEF Notification
  <2> QED  BY <2>4, <2>5 DEF n
<1>10. CASE WriteLog(r) /\ Log(r, "sent") /\ GoTo(r, "next")
  <2>1. notification[i].delivered
    BY <1>1, <1>2, <1>10 DEF ToBeLogged
  <2>2. LogIsTrue(Logs(i, "sent")) /\ Logs(i, "sent").logs # <<>>
    <3>1. Logs(i, "sent").logs = <<"sent">> /\ Logs(i, "sent").delivered
      BY <1>7, <1>9, <2>1
    <3> QED  BY <3>1 DEF LogIsTrue
  <2> QED  BY <1>1, <1>2, <1>3, <1>5, <1>6, <1>7, <1>8, <1>9, <1>10, <2>2, MailingPreserves
<1>11. CASE WriteLog(r) /\ LogFails(r, "sent") /\ GoTo(r, "logFailure")
  <2>2. LogIsTrue(Fails(i, "sent")) /\ Fails(i, "sent").logs = <<>>
    BY <1>7, <1>9 DEF LogIsTrue
  <2> QED  BY <1>1, <1>2, <1>3, <1>5, <1>6, <1>7, <1>8, <1>9, <1>11, <2>2, MailingPreserves
<1>12. CASE WriteFailureLog(r) /\ Log(r, "failed") /\ GoTo(r, "next")
  <2>1. notification[i].delivered => "sent" \in notification[i].lost
    BY <1>1, <1>2, <1>12 DEF ToBeLogged
  <2>2. LogIsTrue(Logs(i, "failed")) /\ Logs(i, "failed").logs # <<>>
    BY <1>7, <1>9, <2>1 DEF LogIsTrue
  <2> QED  BY <1>1, <1>2, <1>3, <1>5, <1>6, <1>7, <1>8, <1>9, <1>12, <2>2, MailingPreserves
<1>13. CASE WriteFailureLog(r) /\ LogFails(r, "failed") /\ Finish(r)
  <2>2. LogIsTrue(Fails(i, "failed")) /\ "failed" \in Fails(i, "failed").lost
    BY <1>7, <1>9 DEF LogIsTrue
  <2>3. request' = [request EXCEPT ![r] = Idle]
    BY <1>13 DEF Finish
  <2> QED  BY <1>1, <1>2, <1>3, <1>5, <1>7, <1>9, <1>13, <2>2, <2>3, MailingPreserves
<1> QED  BY <1>10, <1>11, <1>12, <1>13 DEF WriteLog, WriteFailureLog

-----------------------------------------------------------------------------
(* The invariant. *)

LEMMA CrashPreserves ==
  ASSUME CatalogueInv, Crash PROVE CatalogueInv'
<1>0. TypeOK
  BY DEF CatalogueInv
<1>1. /\ request' = [r \in Requests |-> Idle]
      /\ UNCHANGED <<book, bookCategory, news, notification, audience, subscription>>
      /\ crashes' = crashes + 1 /\ crashes < MaxCrashes
  BY DEF Crash, rows
<1>2. TypeOK'
  <2>1. crashes' \in 0..MaxCrashes
    BY <1>0, <1>1, CatalogueConstants DEF TypeOK
  <2> QED  BY <1>0, <1>1, <2>1 DEF TypeOK, Request, Idle, Steps, Notification
<1>3. \A r \in Requests : request'[r] = Idle
  BY <1>1
<1>4. (\A r \in Requests : StepOfOp(request[r]))'
  BY <1>3 DEF StepOfOp, Idle
<1>5. Told' /\ NotifiedOnce'
  BY <1>1, <1>3, IdleIsNoRequest DEF CatalogueInv, Told, NotifiedOnce, Announces
<1>6. Logged'
  <2>1. crashes' > 0
    BY <1>0, <1>1, CatalogueConstants DEF TypeOK
  <2>2. \A i \in DOMAIN notification : LogIsTrue(notification[i])
    BY DEF CatalogueInv, Logged
  <2>3. \A i \in DOMAIN notification' : LogIsTrue(notification[i])' /\ Excused(i)'
    BY <1>1, <2>1, <2>2 DEF LogIsTrue, Excused
  <2> QED  BY <1>3, <2>3, IdleIsNoRequest DEF Logged, Mailing
<1> QED  BY <1>2, <1>4, <1>5, <1>6 DEF CatalogueInv

(* Neither those who subscribe, nor a stuttering step, touch books and     *)
(* notifications.                                                          *)
LEMMA SubscriptionPreserves ==
  ASSUME CatalogueInv, UNCHANGED <<rows, request, crashes>>,
         subscription' \in SUBSET (Users \X Categories)
  PROVE  CatalogueInv'
<1>1. TypeOK'
  BY DEF CatalogueInv, TypeOK, rows, Request, Idle, Steps, Notification
<1> QED  BY <1>1 DEF CatalogueInv, rows, StepOfOp, Idle, Told, NotifiedOnce, Logged,
              LogIsTrue, Excused, Announces, Mailing, HasTold, ToBeLogged

LEMMA InitCatalogue == Init => CatalogueInv
<1> SUFFICES ASSUME Init PROVE CatalogueInv
  OBVIOUS
<1>1. TypeOK
  BY CatalogueConstants DEF Init, TypeOK
<1>2. \A r \in Requests : request[r] = Idle
  BY DEF Init
<1>3. DOMAIN notification = {}
  BY DEF Init
<1> QED  BY <1>1, <1>2, <1>3, IdleIsNoRequest
      DEF CatalogueInv, StepOfOp, Told, NotifiedOnce, Logged

LEMMA CataloguePreserved ==
  ASSUME CatalogueInv, [Next]_vars PROVE CatalogueInv'
<1>0. subscription \in SUBSET (Users \X Categories)
  BY DEF CatalogueInv, TypeOK
<1>1. ASSUME NEW r \in Requests, NEW b \in Books, AdminDelete(r, b) PROVE CatalogueInv'
  BY <1>1, AdminDeletePreserves
<1>2. ASSUME NEW r \in Requests, NEW b \in Books, NEW want \in CategoryIds,
             AdminCreate(r, b, want) \/ AdminUpdate(r, b, want)
      PROVE  CatalogueInv'
  BY <1>2, AdminCreatePreserves, AdminUpdatePreserves
<1>3. ASSUME NEW r \in Requests, Step(r) PROVE CatalogueInv'
  BY <1>3, AddCategoriesPreserves, CommitDeletePreserves, ReadsPreserve,
     CreateNotificationPreserves, SendMailPreserves, WriteLogPreserves DEF Step
<1>4. ASSUME NEW r \in Requests, RollBackDelete(r) PROVE CatalogueInv'
  <2>1. Finish(r) /\ UNCHANGED <<rows, subscription, crashes>>
    BY <1>4 DEF RollBackDelete
  <2>2. ~Mailing(request[r])
    BY <1>4, AtIsRequest DEF RollBackDelete, Mailing
  <2> QED  BY <2>1, <2>2, EndPreserves DEF CatalogueInv, TypeOK, rows
<1>5. ASSUME NEW u \in Users, NEW k \in Categories, Subscribe(u, k) \/ Unsubscribe(u, k)
      PROVE  CatalogueInv'
  <2>1. <<u, k>> \in Users \X Categories
    OBVIOUS
  <2> QED  BY <1>0, <1>5, <2>1, SubscriptionPreserves DEF Subscribe, Unsubscribe
<1>6. CASE UNCHANGED vars
  BY <1>0, <1>6, SubscriptionPreserves DEF vars, rows
<1> QED  BY <1>1, <1>2, <1>3, <1>4, <1>5, <1>6, CrashPreserves DEF Next, Ask

(* The tables of the catalogue keep their types, and the invariant holds.  *)
THEOREM CatalogueInvariance == Spec => []CatalogueInv
<1>1. Init => CatalogueInv
  BY InitCatalogue
<1>2. CatalogueInv /\ [Next]_vars => CatalogueInv'
  BY CataloguePreserved
<1> QED  BY <1>1, <1>2, PTL DEF Spec

(* No user gets two notifications of one book, though the announcement     *)
(* runs beside other requests and restarts (triggerNewBookNotifications    *)
(* and the set of user ids it collects).                                   *)
THEOREM EachIsNotifiedOnce == Spec => []NotifiedOnce
<1>1. CatalogueInv => NotifiedOnce
  BY DEF CatalogueInv
<1> QED  BY <1>1, CatalogueInvariance, PTL

(* The log of a notification says "sent" only of a mail the server took,   *)
(* "failed" only of one it did not take or whose "sent" could not be       *)
(* written, and it is empty only if that could not be written either, the  *)
(* server restarted, or the mail is still under way, though any write of   *)
(* it may fail and the book may go meanwhile (sendNewBookNotification, its *)
(* try and catch).                                                         *)
THEOREM LogsAreTrue == Spec => []LogTellsTheTruth
<1>1. CatalogueInv => LogTellsTheTruth
  <2> SUFFICES ASSUME CatalogueInv, NEW i \in DOMAIN notification
               PROVE  \/ notification[i].logs = <<"sent">> /\ notification[i].delivered
                      \/ /\ notification[i].logs = <<"failed">>
                         /\ notification[i].delivered => "sent" \in notification[i].lost
                      \/ /\ notification[i].logs = <<>>
                         /\ \/ "failed" \in notification[i].lost \/ crashes > 0
                            \/ \E r \in Requests : /\ request[r] # Idle
                                                   /\ request[r].op = "announce"
                                                   /\ i \in request[r].held
    BY DEF LogTellsTheTruth
  <2>1. LogIsTrue(notification[i]) /\ (notification[i].logs = <<>> => Excused(i))
    BY DEF CatalogueInv, Logged
  <2>2. \A r \in Requests : Mailing(request[r]) =>
          request[r] # Idle /\ request[r].op = "announce"
    BY IdleIsNoRequest DEF Mailing
  <2> QED  BY <2>1, <2>2 DEF LogIsTrue, Excused
<1> QED  BY <1>1, CatalogueInvariance, PTL
=============================================================================
