# INKORA: a TLA+ model of an online bookshop

INKORA is an online bookshop: a NestJS API (`src/src/`) over PostgreSQL through
Prisma (`src/prisma/schema.prisma`), with a React front end (`src/client/`).
Clients fill carts, reserve copies for 24 hours, buy with a wallet or through a
payment gateway, return what they bought and chat with administrators; these keep
the stock and the catalogue. All services share one database, there is no
in-memory lock and no queue: what makes the shop correct is what each request
writes in which transaction, and what it assumes of rows it read earlier. In the
browser it is what a page assumes of answers that come while its user goes on
clicking. That is what these modules model.

## 1. Inventory

### Components, state and operations

| Component | State | Operations that change state | Modelled |
|---|---|---|---|
| `cart` | Cart, CartItem | addItem, updateItem, removeItem, ensureActiveCart | `Cart` |
| `reservations` | Reservation, ReservationItem, Inventory | createReservation, cancelReservation, expireReservationsCron (every minute) | `Reservations` |
| `purchases` | Purchase, PurchaseItem, Inventory, Reservation, Cart, Voucher, Client | createPurchase (with createPurchaseFromCartItems) | `Purchases` |
| | | updatePurchaseStatus, updatePurchaseAddress | `AfterSale` |
| `payments` | PaymentAttempt | initiatePayment, handleWebhook | `Payments` |
| `wallet` | Client.walletBalance, Transaction | topUpWallet, topUpWalletWithCard, recordMovement | `Wallet`; of refunds `AfterSale` |
| `stores` | Store, Inventory | updateInventoryByStoreId; create, update, delete | `Storefront`: the stock only |
| `returns`, `refunds` | ReturnBook, Refund, Transaction | createReturnRequest, approve, reject; createAutomaticRefund, createRefundRequest, processRefund | `AfterSale`, `ReturnCase` |
| `conversations` | Conversation, Message, Notification | createConversation, sendMessage, claimConversation, markMessageAsRead, closing on reading, closing cron | `Conversations` |
| `auth` | User, PasswordResetToken | validateUser (failures, lock), deactivateAdmin, activateAdmin, forgotPassword, resetPassword | `Access` |
| | TokenBlacklist, JWT | JWT strategy, blacklist and renewal (token-refresh interceptor), logout | `Session` |
| | | register, createAdmin, updateProfile, changePassword | no |
| Session in the browser (`src/client/src/auth`, `hooks`, `api`) | sessionStorage, timers, page | useInactivityTimeout, logoutSession, handleUnauthorizedResponse | `Session` |
| Checkout page (`CheckoutPage.tsx`, `useCart`) | state hooks, loads, clicks | steps, delivery, stores, submission | `CheckoutPage` |
| `books`, `categories` | Book, BookCategory, News, Inventory | adminCreate, adminUpdate (categories), adminDelete, triggerNewBookNotifications | `Catalogue` |
| `subscriptions`, `notifications` | Subscription, Notification, NotificationLog | subscribe, unsubscribe, sendNewBookNotification | `Catalogue` |
| `vouchers`, `tasks` | Voucher | use (inside a purchase); birthday cron | use: `Purchases` |
| `clients`, `admin`, `audit`, `mail`, `geo`, `recaptcha`, `recommendations`, rest of `src/client` | profiles, logs | reads, output, outside services, presentation | no |

### How they interact

* By shared rows. `Inventory(bookId, storeId)` has `availableQuantity` and
  `reservedQuantity`. Reservations move copies from the first to the second,
  cancellation and the cron move them back, a purchase takes them out of either,
  an admin overwrites the first. A return needs the status that
  `updatePurchaseStatus` writes, a refund the return's.
* By calls. `purchases` calls `wallet.recordPurchaseTransaction` inside its
  transaction, `refunds` `recordRefundTransaction` inside its own;
  `returns.approveReturnRequest` calls `refunds.createAutomaticRefund` after its
  write; `payments.handleWebhook` calls `purchases.createPurchaseFromCartItems`
  with the snapshot of an attempt and catches what it throws;
  `books.adminCreate` starts `triggerNewBookNotifications` and answers.
* By the clock. `expireReservationsCron` ticks each minute and the closing of
  conversations too; `expirationDate`, `Voucher.expiresAt`, locks, links, tokens
  and the return window pass.
* By the gateway. Webhooks come late, again, in any order, or never.
* By the browser's one thread: effects, timers, answers and clicks take turns
  between `await`s.

### What is hard

1. Nearly every operation reads outside a transaction (limits, status of the
   cart, of the reservation, the return, the refund, the conversation, the
   account), then writes by the row's id, without a condition. At READ COMMITTED
   nothing protects such a reading.
2. Stock is read row by row and decremented row by row with relative updates.
3. The crons work on a snapshot; that of reservations swallows each failure.
4. The purchase writes six tables in one transaction, the webhook's attempt is
   written before and after it, in statements of their own; the approval of a
   return, its refund and the credit are separate too.
5. Transactions lock rows in different orders, time out, and die with the process.
6. Failed sign-ins are counted by writing what was read plus one, with reCAPTCHA
   and bcrypt in between.
7. The tab's session is ended by timers, by whoever comes back to a hidden tab, by
   a 401 and by the user, and prolonged by an answer that brings a new token.
8. An announcement goes on, mail by mail, after its request was answered, while
   its book may be deleted.

### What correct means, by component

* **Stock**: no copy appears or vanishes (`CopiesConserved`); reserved copies are
  those of active reservations (`ReservedIsBacked`); no row is overdrawn
  (`NoOversell`), which the code breaks, but by one order for each other request
  that has read it at most (`OversellIsBounded`).
* **Reservations**: what is stored is within the limits (`ReservationLimits`), a
  settled reservation stays so (`SettledStaysSettled`), a due one is expired
  (`DueReservationsEnd`).
* **Purchases**: what is taken is what is sold (`SoldAsBought`), paid once
  (`PaidExactlyOnce`); a client whose requests follow one another buys what was put
  in the cart once and uses a voucher once, however they fail and are repeated
  (`CartBoughtOnce`, `VoucherUsedOnce`); the checkout takes exactly the cart it read
  (`CheckoutTakesTheCart`).
* **Payments**: an attempt buys once (`AttemptBuysOnce`), an approved one names a
  purchase of its snapshot (`ApprovedIsBought`), a rejected one charged nothing
  (`RejectedIsNotCharged`), a claimed one is settled (`ClaimsAreSettled`).
* **Wallet**: the ledger explains the balance (`LedgerExplainsWallet`).
* **After the sale**: what is paid back is paid once (`PaidBackOnce`), for a return
  that is approved of a purchase that was delivered (`RefundFollowsReturn`); an
  approved return gets its refund (`ApprovedReturnsGetARefund`); together the three
  tables are one case per purchase (`ImplementsReturnCase`).
* **Conversations**: a closed one is free (`ClosedIsUnassigned`), a client has one
  (`OneConversation`), who accepted one keeps it (`AdminKeepsConversation`), a silent
  one is closed (`SilentConversationsClose`), a message is announced
  (`MessagesAreNotified`).
* **Sign-in**: only so many wrong passwords before a lock (`TriesAreBounded`), the
  lock ends (`LocksEnd`), only root readmits who was deactivated
  (`DeactivatedStaysOut`), a reset link that was used or replaced sets passwords only
  for requests that had found it before (`LinkUsesAreBounded`).
* **Session**: nobody is signed in without a timer (`SessionIsTimed`), an unused
  session ends (`IdleSessionsEnd`) and only such a one is timed out
  (`TimedOutOnlyWhenIdle`), signing out works without the server
  (`LogoutCompletes`), deactivation reaches the tab (`DeactivatedLosesSession`).
* **Catalogue**: nobody is told twice (`NotifiedOnce`), the log is true
  (`LogTellsTheTruth`), subscribers are told (`SubscribersAreTold`).
* **Checkout page**: the stores shown are for the cart shown
  (`StoresAreForTheCart`), a pickup is ordered from a store that has what the page
  says it has (`OrdersCanBeDelivered`), the button comes back to life (`SubmissionsEnd`).
* **All**: every request ends (`RequestsEnd`).

The full list of hazards, each with its line and the properties that watch it, is
`hazards` in `PROJECT.json`.

## 2. The modules

```
StoreDb            tables, transactions, row locks, handlers
 |- Wallet         recordMovement, recharges
 |   `- Purchases  createPurchase and createPurchaseFromCartItems
 |       `- Payments   initiatePayment, handleWebhook
 |- Cart           addItem, updateItem, removeItem
 `- Reservations   createReservation, cancelReservation, the cron
Storefront         all of them, the environment, Spec, the properties, IInv
ReturnCase         what the shop promises about giving a purchase back
AfterSale          delivery, returns, refunds; implements ReturnCase
Conversations      the chat and its cron
Access             sign-in, locks, deactivation, reset links
Session            one tab's session and the server's tokens
Catalogue          books, subscriptions, announcements
CheckoutPage       the checkout in the browser
```

`MCStorefront`, `MCAfterSale`, ... give the constants values for TLC (`MCCatalogue`,
`MCCheckoutPage` and `MCSession` only name model values); `StorefrontProofs` and, on top
of it, `StorefrontSafety`, `AfterSaleProofs`, ... hold the theorems.

The seven specifications share no table that two of them write, except the
wallet: `AfterSale` starts from a purchase that has been made and keeps the wallet
as what was gained since. Its writes are relative, as those of `Wallet` are, so the
two add up. `Access` ends where a password was right; `Session` starts there.
`CheckoutPage` has the shop of `Storefront` as its environment: an order empties the
cart or is refused.

### The storefront

**Statements, transactions, locks.** A handler is one running request, webhook or
cron tick: a record of its local variables and of its place (`pc`) in the code.
One action is one SQL statement. Uncommitted relative writes of the stock are in
`delta[h]`; a statement reads what is committed plus its handler's `delta`. A row
that was written stays in `locks[h]` until the transaction ends, and another
transaction that wants to write it waits (its action is disabled). `CommitInventory`
publishes, `DiscardInventory` forgets. `Throw`, `Reject` and `SkipExpired` are the
three ways a failed transaction ends: for a purchase (a webhook goes on in its
catch block), for a reservation, and for the cron (the next reservation).

**State.** `inventory`, `reservation`, `cart`, `wallet`, `ledger`, `voucher`,
`purchase`, `attempt` are the tables, with the columns the modelled code reads;
`handler`, `delta`, `locks` are what is running; `shelf` (copies that stand in each
store), `added` (copies ever put in each cart) and the fields `taken`, `madeAt` are
history: `madeAt` stands for `reservationDate`, the others only for properties.

**Money.** Purchases compute amounts in floating point and the columns keep cents.
Amounts are exact multiples of a ten-thousandth of a cent here and `ToCents` rounds
as `Decimal(10, 2)` does. Balance and amount of one movement are rounded apart, so
a chain of balances may be off by a cent per movement, and `initiatePayment` rounds
before it takes off a discount, so it may ask for a cent more or less than the
purchase charges (12.50 with 21% tax and 10% discount: 15.13 less 10% is asked as
13.62; charged is 13.61). Both cents are in the properties.

Choices a reader should know:

* Consecutive reads are one action where splitting them could only add runs in
  which the request is rejected: the reservation and the payments
  `cancelReservation` reads, the item and the stock `updateItem` reads.
* The last writes of a purchase (wallet, cart, voucher, cart items) and its commit
  are one action: none depends on what it finds in the row, and nothing reads them
  before the commit. That loses only waits for these rows.
* Loops over books run in the order of `bookId`. The code follows the order of the
  cart or body; only the order of locks depends on it, and `Faults` aborts
  transactions anywhere anyway.
* A release that finds too few reserved copies in its row fails at once; the code
  first moves those it finds, then throws, and the transaction takes it back.
* Reservation ids are given out in the order of `reservationDate`.
* The catalogue is fixed: books stay available, stores active. Deleted stores,
  prices of zero and the creation of a missing cart are left out. An item of a cart
  is identified by its book, not by `cartItemId`.
* `updateInventoryByStoreId` is one action: it is one transaction of blind writes.
* `MAX_COPIES_PER_BOOK` and `MAX_COPIES_PER_BOOK_PURCHASE` (both 3 in the code) are
  one constant `MaxCopies`; `MAX_DIFFERENT_BOOKS_PER_CLIENT` is `MaxDifferentBooks`.
* `Deadlocked` lets any transaction of a circle be the victim, PostgreSQL picks one.
* Signatures of webhooks, mails, invoices and audit rows are left out.

**Environment flags.** `Overlapping` is the set of clients that may have two requests
in flight (and `NULL`, the cron, whose ticks may overlap); webhooks may always
overlap. `LateExpiry` lets a reservation fall due while its owner's request runs.
`Faults` lets transactions be rolled back at any statement, the write that approves
an attempt fail, and handlers die. A property is stated with the weakest of these
assumptions under which the code gives it; the runs that refute properties show
what happens without.

### After the sale

A request of `AfterSale` is a sequence of database calls; `request[r]` remembers its
place and what it has read. A purchase has one return and a return one refund by
unique columns, so `returned` and `refund` are functions of the purchase. Time is
counted in days, which is what `RETURN_REQUEST_MAX_DAYS` and
`REFUND_REQUEST_MAX_DAYS` are. `updatePurchaseStatus` writes the `dispatchDate` it has
read, so `seen` keeps it. `processRefund` is called by an administrator and by
`createAutomaticRefund`; its transaction is one action, which credits the wallet by a
relative write. A request may die between any two calls (`Crash`). With
`SingleAdmin` the administrators' requests follow one another; clients' always
overlap.

### Conversations

Rows keep ages instead of dates: half hours since `updatedAt` and since the last
message, up to the values that matter (a conversation is silent after two, one with
an administrator is spared until its last update is one old). A request reads the
conversation with its last message; if it has expired, the request's next call closes
it (`RefreshConversation`), with the `lastAdmin` that was read. `sendMessage` writes
the message, then reopens the conversation whatever it has become. The cron's list is
`cron`, closed one by one. `Conflicts` lists the pairs of operations that do not
overlap in an instance.

### Sign-in

`Access` is one account. An attempt reads it once and writes, after reCAPTCHA and
bcrypt, what it computed from the reading: `failed` and `until` are that reading.
What time does to a lock is `LockEnds`, to a link `LinkExpires`. `tries` and `sets` are
history. `forgotPassword` deletes the old links and creates one in two calls;
`resetPassword` sets the password and then marks the link, in two calls. Requests do
not die here: a death between those two calls leaves the link to be found again, and one
between a wrong password and its count leaves it uncounted, so the two bounds are for a
server that is not restarted in between.

### Session

`Session` is one tab and what the server knows of its tokens, in minutes. A call to
the API goes through the JWT strategy (`Authenticate`), the interceptor that refuses
revoked tokens (`Deny`) or renews those about to expire (`Answer`), and back to the tab
(`Deliver`), which by then may be somewhere else. Tokens no one holds any more are
given out again (`Forget`, `Unissued`): three suffice for a tab, its call and the
answer. The timers of `useInactivityTimeout` are `timer`: whether they run, for how
long, and how old `lastActivityRef` is. In a hidden tab they may be held back, so time
goes on there although one is due; in a visible one it fires when it is due. A
logout is the call `Logout`, of which there is one at a time (`isLoggingOut`,
`logoutSession.ts:14`).

### Catalogue

`adminCreate` writes the book first and its categories in a second call; `adminUpdate`
erases the categories first. `adminDelete` is a transaction: what it erased first is in
the request's `held` until it commits or is rolled back, and whoever wants to log
about those rows waits. The announcement is a loop over the subscribers it has read:
for each, a notification (its row is in `held` until it is logged), a mail and a log.
The mail and the log of its success are in one `try` (`notifications.service.ts:44`), and
any write of a log may fail: `WriteLog` that fails goes on in the `catch`, as a mail that
fails does (`AfterMail`), and `WriteFailureLog` that fails ends the announcement. A
restart (`Crash`) ends all that is running. `audience`, `delivered`, `about` and `lost`
(the statuses that could not be logged) are history.

### Checkout page

`page` holds the state hooks. What an `await` waits for is in `loads` (the stores for a
cart, with the `cancelled` flag of the effect that started it) and `click` (clicks that
wait for the geocoder or for the order, with the order as the rendering showed it: the
choice, and as history whether stores were being loaded, whether those shown were for
the cart shown and what they said of the chosen one). An answer drops a choice that is
not among the stores it brings (`KeptChoice`). The
effect on `[deliveryMode, requiredByBook]` runs in the action that changes one of
them (`Rerender`). A cart is a version number, 0 the empty one; a store has all of it,
part or nothing.

## 3. The runs

| Run | Instance | Shows |
|---|---|---|
| `stock` | 1 client with overlapping requests, overlapping cron ticks, 1 reservation, 2 purchases, 2 stores, late expiry, faults, an admin, a recharge | `TypeOK`, `CopiesConserved`, `SoldAsBought`, `PaidExactlyOnce`, `LedgerExplainsWallet` whatever overlaps and fails |
| `discipline` | 2 clients with one request each, 2 stores, 2 reservations, 2 purchases, faults | `ReservedIsBacked`, `ReservationLimits`, `SettledStaysSettled`; and that two purchases beside each other overdraw a row by one order at most (`OversellIsBounded`) |
| `orders` | 2 clients with one request each beside the cron, 2 stores, 1 reservation, 1 voucher, 2 purchases, carts that are filled again, late expiry, faults | `CartBoughtOnce`, `VoucherUsedOnce`: a cart or voucher that was used is refused to the next request, also when the one before was rolled back or died |
| `payment` | 1 client with overlapping requests, 2 attempts with a voucher, overlapping and contradicting webhooks, a changing cart, faults | `AttemptBuysOnce`, `ApprovedIsBought` |
| `progress` | 2 clients, cron, 1 attempt, 1 reservation, 2 books, fairness, no faults | `RequestsEnd`, `DueReservationsEnd`, `ClaimsAreSettled`; transactions do deadlock in it: a purchase that uses a reservation of book 2 locks that row before the row of book 1, a purchase from stock takes them the other way round |
| `after_sale` | 1 purchase, 3 requests, one administrator at a time, windows of a day, 3 days, one death | `PaidBackOnce`, `RefundFollowsReturn`, `ApprovedReturnsGetARefund`, the refinement `ImplementsReturnCase` |
| `support` | 1 client, 2 administrators, 2 conversations, 1 message, 2 requests and the cron | `ClosedIsUnassigned`, `OneConversation`, `AdminKeepsConversation`, `SilentConversationsClose`, `MessagesAreNotified` |
| `session` | 3 tokens, 1 call and a logout, tokens live 2 minutes and are renewed in the second, inactivity 2, warning 1 | `SessionIsTimed`, `IdleSessionsEnd`, `LogoutCompletes`, `DeactivatedLosesSession` |
| `access` | 2 requests that overlap, captcha after 3 failures, lock after 4, 1 reactivation, 2 links | `TriesAreBounded` (14), `LocksEnd`, `DeactivatedStaysOut`, `LinkUsesAreBounded` |
| `catalogue` | 1 book, 2 categories and one that does not exist, 2 users, 2 requests, 1 restart | `NotifiedOnce`, `LogTellsTheTruth`, `SubscribersAreTold` |
| `checkout_page` | 1 store, 2 versions of the cart, 2 clicks | `StoresAreForTheCart`, `OrdersCanBeDelivered`, `SubmissionsEnd` |
| `oversell` | 2 clients, the last copy | refutes `NoOversell` |

**Bounds of the storefront.** Ids are finite: `ReservationIdLeft` and
`PurchaseIdLeft` start a request only while an id is left for it; `MaxMovements` stops
recharges and `MaxAdded` what is put in carts. Two handlers give every pairwise
interleaving, and each race of this code is between two transactions. Two stores make
every loop over stock rows of `stock`, `discipline` and `orders` run more than once and
leave it half done; two books make the loop over books do so (`progress`);
prices of 12.50 make every rounding happen. Clients and handlers are symmetric in the
safety runs; `progress` uses no symmetry.

**Bounds of the others.** A purchase's return and refund concern no other purchase,
so one is enough in `after_sale`; three requests let the client's two and an
administrator's overlap. Windows of one day end within the three days. In `support` the
second conversation is the one a client must not get, two administrators are the one
who has accepted and the one who must not, and the initial states include a queued
conversation of long ago. In `session` every order of renewal, warning, inactivity and
expiry occurs with lives of two minutes. In `access` the captcha and the lock come
after 3 and 4 failures instead of 3 and 5, because the states grow with the square of
the limit. Attempts overlap one another, and so do requests for links and resets; an
attempt beside one of those is left out, because neither reads or writes what the other
does, and root's changes of the status beside an attempt, because the code breaks
`DeactivatedStaysOut` there. Two attempts at a time can try at most 14 wrong passwords there
(`TriesAreBounded` fails with 13): M(M+3)/2 of them for a limit of M (section 4). They
overwrite each other's counts and a late failure lifts the lock
of the other one. In `catalogue` two categories tell "one of" from "all of" and two
requests are an announcement and what goes on beside it. In `checkout_page` two
versions of the cart make a stale one; the second click is made while the first is
waiting.

**Deadlock** is checked everywhere but in `access`, where an inactive account whose
links and reactivations are used up has nothing left to do, and in `checkout_page`,
where the page shows an empty cart and its visitor may leave it at that.

**Fairness.** `Storefront` has strong fairness of each handler's next statement: Node
runs every handler that can go on, and PostgreSQL grants a row lock to those that
wait for it in turn, so a handler whose statement is enabled again and again executes
it. The ticks of the cron are strongly fair because it has a timer and does not
compete with requests for the few handlers of the model. Nobody has to send a
request or a webhook; no fault has to happen or stop: `progress` has no faults,
because after a crash a claimed attempt stays `processing` for ever (nothing in the
code takes it up again, `payments.service.ts:210`). In the other modules:

* `AfterSale`: weak fairness of each request's next call; nothing there waits.
* `Conversations`: the same, and of the cron and of time.
* `Session`: weak fairness of the server and of answers; strong fairness of `Poll`
  and `Deliver`, because private pages poll every two seconds and the network may
  lose answers but not every one of them. Nobody has to use the tab, and the timers of
  a hidden tab need not fire.
* `Access`: weak fairness of each request's next call and of time, strong fairness of
  `Attempt`: the lock of an account that nobody tries to sign in to is lifted by
  nobody, the code does that at the next attempt.
* `Catalogue`: strong fairness of each request's next call, which may have to wait
  again and again for the row another transaction holds.
* `CheckoutPage`: weak fairness of answers: a request is answered or fails. The stores
  need not be answered and the client need not click.

**What is refuted.** `oversell` is a finding in `PROJECT.json`, with the line that
promises otherwise. It and what follows have one cause, a condition read before and
outside the write that relies on it. These have no run of their own; each is reached by
changing the constants named here, and is stated so that the run above that checks the
property shows the weakest assumption under which the code keeps it:

| Property | Refuted with | Because |
|---|---|---|
| `ReservedIsBacked`, `SettledStaysSettled` | `discipline`, `Overlapping = {c1}` | a client cancels twice, or beside the cron, and both release the copies |
| `ReservedIsBacked`, `SettledStaysSettled` | `discipline`, `LateExpiry = TRUE` | the cron releases what its owner is cancelling |
| `ReservationLimits` | `discipline`, `Overlapping = {c1}` | two requests count the same active reservations |
| `CartBoughtOnce` | `orders`, `Overlapping = {c1}` | two checkouts read the same open cart |
| `VoucherUsedOnce` | the same | both find the voucher unused |
| `VoucherUsedOnce`, `CartBoughtOnce` | `payment`, `Overlapping = {}` | a purchase overlaps the webhook of an attempt for the same cart and voucher |
| `CheckoutTakesTheCart` | `payment`, as a PROPERTY | a book put in the cart during a checkout is deleted with its items |
| `RejectedIsNotCharged` | `payment`, statuses `approved` and `failed` | a rejecting webhook is written after an approving one has bought |
| `AttemptBuysOnce` | `payment`, with the status `pending` | it reopens an attempt that is being bought; the repository does not say what the gateway sends |
| `PaidBackOnce` | `after_sale`, `SingleAdmin = FALSE` | two administrators process one refund |
| `RefundFollowsReturn` | the same | one rejects the return that the other has just approved; a late status write takes the delivery back |
| `ImplementsReturnCase` | the same | a refund is paid twice, or paid for a return that was rejected meanwhile |
| `AdminKeepsConversation` | `support`, no `{claim}` in `Conflicts` | two administrators accept at once, the later one takes over |
| `OneConversation` | `support`, no `{create}` in `Conflicts` | a client opens a conversation twice at once |
| `DeactivatedStaysOut` | `access`, no `{login, deactivate}` in `Conflicts` | a failure recorded after the deactivation writes `active` |
| `TimedOutOnlyWhenIdle` | `session`, as a PROPERTY | `lastActivityRef` is older than a session that has just begun: who hides the tab then is signed out on coming back |

A consequence of the first: after a double cancellation a stock row has fewer reserved
copies than its reservations hold, and `releaseReservedInventory` then throws for the
other reservations of that row, which the cron logs and tries again each minute, for
ever.

What holds of such races is stated where there is something to say: a row of the stock is
overdrawn by at most one order for each other handler (`OversellIsBounded`), a link sets at
most as many passwords as resets found it unused (`LinkUsesAreBounded`: two in `access`,
so it does let a second password in), a client has at most as many conversations as its
requests that overlap (`ConversationsAreBounded`, section 4).

Smaller things seen on the way, which no property states: an administrator's
`adminUpdate` with an unknown category leaves the book with none, because the old ones are
erased in a call of their own (`Catalogue!AdminUpdate`); a notification written while its
book is being deleted stays, naming no book; two administrators who write the status of a
purchase at once may take a dispatch back (`AfterSale!WriteStatus` does not read again);
`CheckoutPage.tsx:1338` sets `submitting` only after the
geocoder has answered, so that two clicks may both submit (`CheckoutPage!SubmitPurchase`
allows it; `OrdersCanBeDelivered` holds for both).

## 4. The proofs

TLAPS proves these for all values of the constants that satisfy the modules'
assumptions and the premises the theorems state:

| Module | Theorems |
|---|---|
| `StorefrontProofs` | `Invariance` (`IInv`), `TypeCorrect`, `StockConserved` (`CopiesConserved`), `LedgerCorrect` (`LedgerExplainsWallet`) |
| `StorefrontSafety` | `SalesArePaid` (`PaidExactlyOnce`), `ApprovedAttemptsBuy` (`ApprovedIsBought`), `SalesTakeWhatTheySell` (`SoldAsBought`), `AttemptsBuyOnce` (`AttemptBuysOnce`), `VouchersAreUsedOnce` (`VoucherUsedOnce`), `CartsAreBoughtOnce` (`CartBoughtOnce`), `ReservationsAreLimited` (`ReservationLimits`), `ReservedCopiesAreBacked` (`ReservedIsBacked`), `SettledReservationsStay` (`SettledStaysSettled`), `OversellStaysBounded` (`OversellIsBounded`), and the invariants `SalesInvariance`, `AccountsInvariance`, `OnceInvariance`, `OrderInvariance` |
| `AfterSaleProofs` | `AfterSaleInvariance`, `RefundsArePaidOnce` (`PaidBackOnce`), `RefundsFollowReturns` (`RefundFollowsReturn`), `RefinesReturnCase` (`ImplementsReturnCase`) |
| `ConversationsProofs` | `ConversationsInvariance`, `ClosedAreUnassigned`, `AdminsKeepConversations`, `ConversationsStayBounded` |
| `SessionProofs` | `SessionInvariance`, `SessionsAreTimed`, `IdleSessionsAreEnded` |
| `AccessProofs` | `LinkUsesStayBounded` (`LinkUsesAreBounded`), `InactiveStaysOut`, `TwoTryABoundedNumber` (`TriesAreBounded`) |
| `CatalogueProofs` | `CatalogueInvariance`, `EachIsNotifiedOnce`, `LogsAreTrue` |
| `CheckoutPageProofs` | `PageInvariance`, `StoresShown`, `OrdersDeliverable` |

### The storefront

**Types, stock and ledgers** (`StorefrontProofs`). None of the three is inductive alone.
`CopiesConserved` speaks of committed rows, and a commit publishes what the handler accumulated statement by
statement; so `Coherent(handler[h], delta[h])` says that at every place in the code a
handler's uncommitted writes are balanced (`available + reserved + sold = 0` in each
row), and that outside a transaction there are none. `TypeOK` needs more of what a
place in the code knows: a reservation is created from `delta[h].reserved`, which
must not be negative while it allocates; the amount a purchase charges is natural
because what it sells came from a cart or a snapshot, whose quantities are within
`MaxCopies` (or a row would have been refused); the statements that write a client's
cart belong to a client. `LedgerExplainsWallet` rests on `RecordMovementExplains` and
on `RoundedApart`, the arithmetic of rounding two amounts apart. `MovesPreserve`
and `TablesUnchanged` reduce each statement to the new state of one handler;
`UpdateInventoryPreserves`, `CommitConserves`, `CommitPreserves`, `RollbackPreserves`
and `WriteAttemptPreserves` are one lemma for each kind of write; then one
lemma for each service, with one step for each action.

**What the shop promises its clients** (`StorefrontSafety`). Everything there rests on
`IInv`. A first part says once what each action does to the handlers (`CartShape`,
`ReservationShape`, `PurchaseShape`, ...: a statement moves one handler, which goes on with its
request, ends it, or takes up a new one) and brings the dozens of actions down to the few
kinds a property tells apart (`Cases`, `OrderlyCases`, `StockCases`). Then each property has an
inductive invariant of its own:

| Property | Invariant: what it adds | Premise |
|---|---|---|
| `PaidExactlyOnce`, `ApprovedIsBought` | `SalesInv`: what a handler that buys or pays has in its hands is what its attempt, its purchase and the ledger say; a payment in a ledger names a sold purchase of its client | none |
| `SoldAsBought` | `AccountsInv`: what a purchase has taken, summed over stores, and what it still needs make up what it wants | none |
| `AttemptBuysOnce` | `OnceInv`: an attempt that is being bought was claimed, by one handler, and has not paid | no webhook reports `pending` |
| `VoucherUsedOnce` | `OrderInv` (one request of a client at a time) and `VoucherInv`: the voucher a purchase is about to use is its client's and unused | no client overlaps, no webhooks |
| `CartBoughtOnce` | `CartInv`: a purchase in progress wants what its client's cart holds | the same |
| `ReservationLimits` | `LimitsInv`: a reservation being made fits under the limits, and has what it wants but for what it still needs | the same |
| `ReservedIsBacked`, `SettledStaysSettled` | `BackedInv`: the uncommitted releases and sales of a handler are of active reservations, row by row what it has still to close; `OwnerInv`: which are its client's and not due or, for the cron, due | requests, ticks of the cron and due dates do not overlap, no webhooks (`Disciplined`) |
| `OversellIsBounded` | `DebtInv`: what each handler has read of a row and has still to take or to commit is at most one order, and the row less all these debts is above the bound | finitely many handlers |

The crux of `ReservedIsBacked` is `Exclusive`: no two handlers close or rewrite the same
reservation. Row locks do not give it, the code reads reservations without them; the
discipline of who may touch what (`OwnerInv`) does.

`OversellIsBounded` has no premise about who overlaps, fails or corrects the stock. Adding
the debts up is what makes it inductive: a handler that reads a row takes on a debt that
the row can pay, so only the debts of the others can drive it below zero, and a commit
turns a debt into a smaller row. Where an admin writes the row at any time (`Stocks # {}`)
a handler's own reading may be older than the write too, hence one order more.

**Why the premises.** They are what the code does not ensure, and the table of section 3
has the counterexamples: a `pending` webhook opens a claimed attempt again; two requests
of one client read the same cart, voucher or reservations, and a webhook is one more
request that its client does not wait for; a reservation that falls due while its
owner's request runs is released by the cron beside it.
`VoucherUsedOnce`, `CartBoughtOnce` and `ReservationLimits` are proved for more than their runs
show: any number of clients at once, late expiry, overlapping ticks of the cron.

**Sums.** Copies are added up over stores, reservations and purchases with
`SumFunction`, whose definition is a fold. What the proofs need of it (`SumRemove`,
`SumChange`, `SumAtMost`, ...) is proved by smallest counterexample (`SmallestSubset`): of the
subsets of a finite set for which a statement about sums is false, take one that contains
none of the others. An induction theorem would do it more directly, but the provers
cannot instantiate one.

### The others

Each has an inductive invariant that says what a request's place in the code knows of
rows it read before, and the proof is that nobody else can have changed that.

* **After the sale.** `AfterSaleInv` adds to the properties `ReadingHolds` (a request
  about to decide a return finds it as read, one about to credit a refund finds it
  pending and its return approved, one about to write a status may still do so) and
  `OneAdmin`. Only administrators decide and pay, so `OneAdminAtATime` (`SingleAdmin`) makes
  readings hold; clients' requests only fill what is empty. The refinement follows: each
  action changes at most one purchase's phase, and `ProcessRefund` is the one that changes
  the balance.
* **Conversations.** Whatever is read or listed exists; the only write of an
  administrator also makes the conversation active, and whoever closes one clears it.
  `ClaimInv` adds that a claim about to write has found its conversation free, which
  needs `ClaimsDoNotOverlap`. `CreateInv` counts, whatever overlaps: once a client has a
  conversation no request begins to open another, so those it has and those being opened
  are never more than its requests.
* **Session.** The timers never know of more recent activity than there was: `idle <=
  timer.since`. With the effect that starts the timers whenever a session begins, both
  properties follow.
* **Sign-in.** `ResetInv` counts, whatever overlaps: the passwords an unused link has set
  and is about to set are no more than the resets that hold it, because who sets one holds
  it until the link is marked; once it is marked no reset finds it any more. `LoginInv`: while an attempt runs the account is not
  inactive, for nobody deactivates it meanwhile (`DeactivationWaitsForAttempts`), and an
  inactive one lets none begin. `TriesInv`, for two requests at a time: count for each
  request the failures that are left to the lock, as the account has them or as it has read
  them; if m >= n are the two counts, twice the passwords tried and m(m+1) + 2n make at most
  M(M+3), but for failures that are tried and not written. The request that keeps the
  older count lets the other one go on to the lock, then lifts it, with one less.
* **Catalogue.** `Told`: who has a notification about a book is no longer in its
  announcement's queue, and a book is announced once. `Logged`: a notification whose mail
  is under way has no log and is in the hands of one announcement, which writes "sent" only
  after the mail was taken, and "failed" only after it was not, or "sent" was lost. So a log
  of a failure is true, or the failure is that of the log of a mail that arrived; and a
  notification without any log lost its log or its server.
* **Checkout page.** `PageInv`: a load that is not cancelled is for the cart and the mode
  on screen, so its answer is; and once no stores are being loaded a chosen store is one of
  those shown (`ChosenStoreIsShown`), since each answer drops a choice it does not bring.
  `OrderInv`: a waiting order was made from such a page, and is a value that nobody changes.

**From which assumptions.** The named assumptions of the modules; TLC evaluates them
in every run. `IdsAreFinite` says of the sets of ids that sums run over what is true of
every table at every time. The premises `OneAdminAtATime`, `ClaimsDoNotOverlap`,
`DeactivationWaitsForAttempts` and those of the table above are in the theorems that need
them, not in the modules: they are what the code
does not ensure (section 3), and the runs make the same choices of `SingleAdmin`,
`Conflicts`, `Overlapping`, `LateExpiry`, `Handlers` and `WebhookStatuses`. `TwoTryABoundedNumber`
takes the number of requests and the relation of `TriesBound` to `MaxFailed` as premises;
`access` meets it with equality. `OversellStaysBounded`, `LinkUsesStayBounded` and
`ConversationsStayBounded` assume only that handlers or requests are finitely many (and, for
the first and the last, that there are any).

**Only model-checked.** Liveness (`RequestsEnd`, `DueReservationsEnd`, `ClaimsAreSettled`,
`ApprovedReturnsGetARefund`, `SilentConversationsClose`, `MessagesAreNotified`,
`LogoutCompletes`, `DeactivatedLosesSession`, `LocksEnd`, `SubscribersAreTold`,
`SubmissionsEnd`), which is out of the prover's reach, and `OneConversation`, which holds of a client who does
not open two conversations at once; what holds for any number of requests at once is
proved instead (`ConversationsStayBounded`). Every other invariant that a run checks, every
action property and the refinement are proved.

## 5. Not modelled

* `stores`: create, update and delete. A store's stock rows are a constant of
  `Storefront`; its deletion checks pending orders outside its transaction
  (`stores.service.ts:305`), a hazard that is listed without a property. It also takes
  the reserved copies of active reservations away and leaves their items without a
  store (`stores.service.ts:312`); to release such an item, `releaseReservedInventory`
  looks for reserved copies in every store (`reservations.service.ts:526`). That is
  read off the code, not checked; `DueReservationsEnd` and `ReservedIsBacked` are
  stated for stores that stay.
* `books.updateInventory` upserts stock store by store, each one a
  special case of `UpdateInventory` with one book; images, prices and search of books.
* `tasks`: the birthday cron is a loop of independent inserts.
* `auth`: register, createAdmin, updateProfile, changePassword, the cleaning of the
  blacklist: single writes of unique rows.
* The browser: a reload of the page, several tabs, `useCart` loads that
  come back out of order, the voucher, cards and profile on the checkout page.
* `clients`, `admin`, `audit`, `mail`, `geo`, `recaptcha`, `recommendations`: reads,
  output and outside services, whose answers are choices of the environment.

Most of the repository's lines are none of these: pages and components that lay out
and validate forms (`src/client/src/pages`, `components`), `seed.ts`, data transfer
objects, mail templates, geographic tables, queries and statistics. They have no
protocol to model, so the modelled share of the lines stays small while every
service with one is here.

## 6. Plan

1. Theorems for webhooks beside requests: what of `VoucherUsedOnce` and `CartBoughtOnce`
   holds when the client waits for its payment; a bound for any number of attempts.
2. Abstract specifications: `Attempt`, the life of a payment attempt that buys once,
   implemented by `Payments`; `Shop`, in which a purchase is one step, implemented by
   `Storefront` for disciplined clients.
3. Stores deleted beside sales; carts with deleted stores; books withdrawn.
4. Pure algorithms over bounded inputs: the allocation of copies to stores against a
   reference definition; `findAlternativePickupStore`.
