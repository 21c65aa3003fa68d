# Formal model of kin-app-server

kin-app-server is the HTTP server behind the Kin wallet application. Users earn
kin by solving tasks and spend it on goods, mostly gift card codes. This
directory holds TLA+ modules of its concurrent parts, the TLC configurations
that check them on small instances, and theorems about them with proofs that
TLAPS checks.

    tlc -workers 2 -config MCOrders_locks.cfg MCOrders     # one run
    tlapm OrdersProofs.tla                                 # all proofs of a module

`PROJECT.json` lists the runs with their properties, the source lines behind
every definition (`map`), the hazards of the code, the findings and the theorems.

## 1. The system

Flask handlers run in uwsgi: 5 processes with 2 threads each (`wsgi.ini`), behind
a load balancer, so any two handlers interleave at any statement. They share
a Postgres database (SQLAlchemy, one scoped session per request), a redis server
(cached values and `redis_lock` locks), a payment service that answers through a
callback, and the blockchain (Stellar/Kin). cron calls four maintenance endpoints
every minute. Nothing else serialises anything.

Two facts of the code decide much of its behaviour:

 * In prod and stage the engine has `isolation_level='AUTOCOMMIT'`
   (`__init__.py:52-75`). Every statement is a transaction of its own, and
   `SELECT ... FOR UPDATE` keeps its row lock for the length of the SELECT only.
 * JSON columns (`completed_tasks_dict`, `next_task_memo_dict`,
   `next_task_ts_dict`) are read, changed in Python and written back as a whole.

### Components

| component | state it keeps | operations | what must hold | modelled |
|---|---|---|---|---|
| Orders and goods: `models/order.py`, `models/good.py`, `purchase_api`, `process_order` | tables `order`, `good`, `transaction`; lock `redeem:<tx_hash>` without expiry | book, redeem, release unclaimed goods | a good is sold once; an active order has its good; nothing is handed out unpaid; a hash redeems once; unpaid goods come back | `Orders` |
| Tasks and their payment: `views_public.py`, `models/task2.py`, `models/user.py`, `utils.py` | the three dicts of `user_app_data`; redis `tasks:` and `memo:` (30 min), lock `pay:` (60 s); table `transaction` | next task, submit results, pay, callback, migrate | a task is paid for once and recorded for who earned it; a solved task stays solved and is not offered again | `Payments` |
| Offers and locked offers: `models/offer.py` | table `offer`; redis `USER_LOCKED_OFFERS` (30 min) | list, switch on and off, lock | a limited offer is bought once per period; the cache loses no purchase | `OfferLimit` |
| Users and phones: `models/user.py`, onboarding | `user` (deactivated, encrypted phone), `user_app_data`, `user_task_results`; lock `address:` | register, set phone, deactivate, restore, onboard | one active user per phone, with the history of the phone; registrations bounded; a user has its rows; an account that was created is recorded | `Phones`, `Accounts` |
| Backup hints: `models/backup.py` | `phone_backup_hints` | store hints, restore | a restore finds the user of the address | `Phones`, without the contents of the hints |
| Gift cards: `blackhawk.py`, `models/blackhawk*.py` | `blackhawk_card.processed`, order ids, `good` | order cards, track orders, replenish | a card that was paid for becomes a good, and none is lost | `GiftCards` |
| Push authentication tokens: `models/push_auth_token.py` | `send_date`, `ack_date`, `authenticated`; lock `update_token:` without expiry | send, acknowledge, scan | a user who answers is authenticated, and a token that was pushed is accepted | `PushAuth` |
| Captcha: `models/user.py`, `views_public.py` | `user_app_data.should_solve_captcha_ternary`, `captcha_history` | serve, check, solve, promote, raise | never twice within the cooldown; nobody is refused for ever | `Captcha` |
| Task catalogue: `models/task2.py`, `models/category.py` | tables `task2`, `category`; redis `USER_TASK_IN_CATEGORY`, `USER_CATEGORIES` (30 min) | next tasks, count, add, delete, switch, delay, correct | counts do not include what is solved; the list of categories comes back after an edit | `Catalogue` |
| Migration to tasks 2.0 | the dicts of both generations | one pass per user, one per task | a user's history is not taken back | `Accounts`, `Catalogue` |
| Publishing to AMQP: `amqp_publisher.py` | a connection and a pool of channels in each process | take, publish, return, reconnect | a channel serves one thread; no thread waits for ever | `ChannelPool` |
| Truex, p2p and app2app transfers | one table each | insert a row | rows are what the client sent | no, see section 7 |
| Blockchain, payment service, Blackhawk, push services | outside | pay, look up, create account, order cards, push | - | as environment of the modules that call them |
| Metrics, reports, other administration, secrets | - | output and reports | - | no, see section 7 |

### Interactions

 * Booking reads goods and orders, then writes a good, then inserts an order.
   The client learns the order id, puts it in the memo of a blockchain payment,
   and redeems with the hash of that payment. cron releases goods whose orders
   have expired, from a list it read at the start.
 * A task is served with a memo taken from `next_task_memo_dict`. Submitting
   marks the task as solved, takes the lock, takes and replaces the memo, caches
   (user, task) under the memo and asks the payment service to pay. The service
   calls back with the memo; the row of table `transaction` is written from the
   cache entry. The check that refuses to pay twice reads that row.
 * Verifying a phone number deactivates the other users of the number and moves their
   history to the new one; a restore moves it back to an earlier user. A
   deactivated user is refused tasks, results and purchases.
 * A Blackhawk card becomes a row of `good`; an offer is listed when it has free
   goods; buying one sets the locked-offers key, which booking looks at.

### What is hard here

Interleavings of two requests of one user, of requests with cron and of two cron
runs; caches and locks that expire on their own while a handler that relies on
them goes on; processes that die between two statements that belong together;
callbacks that are late, repeated or lost. `PROJECT.json` lists each hazard
with its line and the properties about it, or says why there is none.

## 2. The modules

| module | what it is |
|---|---|
| `Orders` | booking, redeeming and releasing, one action per SQL statement, redis call or blockchain query |
| `Inventory` | what the goods table promises: a good is free, held by one order, or sold |
| `MCOrders` | the constants and symmetry sets of the `Orders` runs |
| `OrdersProofs`, `OrdersPromiseProofs` | theorems about `Orders`; the second proves that it implements `Inventory` |
| `Payments` | serving tasks, submitting results, paying and recording, one action per statement |
| `MCPayments` | the constants and symmetry sets of the `Payments` runs |
| `PaymentsProofs` | theorems about `Payments` |
| `Phones` | verifying a number, moving its history, restoring an earlier user, one action per statement |
| `MCPhones` | the symmetry set of the `Phones` runs |
| `PhonesProofs` | theorems about `Phones` |
| `Threads` | what the smaller services share: threads, failures, NULL |
| `GiftCards`, `GiftCardsProofs` | buying cards from Blackhawk and turning them into goods; theorems |
| `OfferLimit`, `OfferLimitProofs` | one purchase of an offer per period, by way of a cached dict; theorems |
| `Accounts`, `AccountsProofs` | registration, wallets, the migration of a user's tasks; theorems |
| `PushAuth` | authentication by push |
| `Captcha` | the captcha flag |
| `Catalogue` | next tasks, categories and their counts, two caches, edits by operators |
| `ChannelPool` | the channels to AMQP that the threads of a process share |
| `MCServices` | one specification in which one of the seven services runs, and its fairness |
| `ServicesProofs` | theorems about `PushAuth`, `Captcha`, `Catalogue` and `ChannelPool`, and about `MCServices` |

In all of them a *worker* is a thread of uwsgi or rq. In the first three `pc[w]` is the point its handler has
reached, `job[w]` the handler's local variables, cleared when the handler returns; the
smaller services, which are checked together, have names of their own for these two
(`cardStep` and `cardJob`, `reqStep` and `req`, and so on).
A handler that reads a value into `job[w]` and writes it back later acts on a stale
copy exactly where the code does.

Operators whose name ends in `Broken` or `Swapped` are the code with one plausible
mistake. No action uses them. Each stands for its neighbour in an experiment
that makes a property fail (`mutants` in `PROJECT.json`), which shows that the
property depends on what the code does.

### Orders

| handler | actions |
|---|---|
| `book_offer_api`, `create_order`, `allocate_good` | `Book`, `RefuseBooking`, `CountOrders`, `TooManyOrders`, `PickGood`, `OutOfGoods`, `AssignGood`, `InsertOrder` |
| `purchase_api`, `process_order`, `create_tx`, `finalize_good`, `delete_order` | `Redeem`, `LookupOrder`, `RefuseRedeem`, `RecordTx`, `RecordTxFails`, `RereadOrder`, `FindGood`, `FindGoodFails`, `FinalizeGood`, `DeleteOrder`, `Unlock` |
| `release_unclaimed_goods`, `has_expired`, `release_good` | `ListUnclaimed`, `CheckExpired`, `AbortRelease`, `EndRelease`, `SearchGood`, `FreeGood` |
| outside | `AddGood`, `Pay`, `Expire`, `Crash`, `Raise` |

 * `stock`, `goodOrder`, `goodTx` are table `good`; `orderRow` is table `order`;
   `txTable` is table `transaction`. `expired` holds the orders whose age exceeds
   `ORDER_EXPIRATION_SECS`; orders may expire in any order, a superset of what
   time allows.
 * `redeemLocks` are the redis locks `redeem:<tx_hash>`. A redemption that does
   not get its lock changes nothing (the `finally` then raises `NotAcquired`),
   so it is no action.
 * Session behaviour that matters is kept. `create_tx` swallows a duplicate key but
   leaves the session in a failed transaction, so the handler stops at the next
   attribute it reads (`RecordTxFails`). A commit expires loaded objects, so the
   order is selected again (`RereadOrder`) and the cron run re-reads the goods
   it listed once it has committed (`fresh`).
 * `Crash` is a process that dies; the lock `redeem:` stays when the process is gone. `Raise` is
   a statement that raises: the handler ends with an error, and a redemption goes through its
   `finally`, which releases the lock.
 * `Pay` may pay for any order that has a row, to the right address and amount
   or not (`matches`). The checks of booking on other tables (balance, locked
   offers, phone, blacklist) are one nondeterministic refusal.
 * `delivered` and `lateReleased` are history variables: the goods handed
   out, and the goods released after they had been finalized.

### Payments

| handler | actions |
|---|---|
| `get_next_task_for_category_internal` and below | `GetTask`, `SelectTask`, `MintMemo`, `FillCache` |
| `post_user_task_results_endpoint` | `SubmitResults`, `RejectPremature`, `PassCooldown`, `LookupPayment`, `LoadCompleted`, `MarkCompleted`, `LoadNext`, `MintMemo`, `Schedule`, `TakePayLock`, `AlreadyCompensating`, `TakeMemo`, `ReplaceMemo`, `CachePayment`, `SendPayment` |
| `payment_service_callback_endpoint` | `ReceiveCallback`, `RecordPayment` |
| `migrate_next_task_memo` | `MigrateMemos` |
| outside | `Settle`, `EndCooldown`, `ExpirePayLock`, `ExpireMemoCache`, `ExpireTaskCache`, `Crash` |

 * `completed`, `nextMemo`, `cooling` are the dicts of `user_app_data` (a category
   is in `cooling` while its `next_task_ts` lies ahead). `taskCache`, `memoCache`,
   `payLocks` are the redis keys. `payments` is the payment service, `txRow`
   table `transaction`.
 * Which unsolved task is served (client version, country, dates) is left open:
   any unsolved task of the category, or none.
 * Memos are 19 random characters; they are assumed not to repeat.
 * `turn` counts how often each payment lock was taken. It is a history variable,
   like `memoOwner`, and tells the payments made under one lock from those
   made under the next.
 * Every request to the payment service is a payment of its own.
 * `BeforeLock` names the submissions that have looked for an earlier payment, found none, and have
   yet to try the payment lock.

### Phones

| handler | actions |
|---|---|
| `set_user_phone_number_endpoint`, `set_user_phone_number` | `VerifyNumber`, `CheckRegistrations`, `ReadNumber`, `WriteNumber` |
| `deactivate_by_enc_phone_number` | `ListOthers`, `DeactivateOther`, `CopyHistory`, `PurgeResults`, `MoveResults`, `MoveResultsFails` |
| `post_backup_restore`, `restore_user_by_address` | `AskRestore`, `MatchNumbers`, `ActivateUser`, then the actions above |
| `store_backup_hints` | `StoreHints` |
| submission of results, as far as it writes history | `SubmitResults`, `StoreResults`, `LoadCompleted`, `MarkCompleted` |
| `onboard_user` with an old client | `BlockOldClient` |
| failures | `Crash` |

 * `phone` and `deactivated` are columns of `user`, `completed` is
   `completed_tasks_dict` (`next_task_ts_dict` is copied by the same statement and
   left out), `results` is `user_task_results`, and `hinted` the numbers with a row
   in `phone_backup_hints`. `todo[w]` holds the users that
   `deactivate_by_enc_phone_number` has listed and not yet reached. The list has
   no order in the code either: the query does not sort.
 * An address stands for its user: `public_address` is unique. Phone verification is
   required, as in production (`PHONE_VERIFICATION_REQUIRED`). Requests from the
   ACL, which skip the limit of registrations, are left out.
 * `authorize` looks at a user only when a submission arrives, so the user may be
   deactivated, and its history moved, before the submission writes. `completed`
   is written back from a copy.
 * `earned`, `overlapped`, `spoiled` and `blocked` are history variables: the tasks
   solved under a number; the numbers that had two requests at once; those with
   a request that ended halfway or that replaced a number or was
   replaced; the users deactivated because of their client.

### GiftCards

| code | actions |
|---|---|
| `replenish_bh_cards`, `refresh_bh_auth_token` | `BeginReplenish`, `RefreshToken`, `CountPending`, `CheckBalance` |
| `track_orders`, `create_good`, `set_processed_orders` | `ListUnprocessed`, `AskStatus`, `FetchCard`, `InsertGood`, `MarkProcessed` |
| `order_gift_cards`, `create_bh_card` | `StartOrder`, `AddCard`, `CompleteOrder`, `StoreCard`, `StopOrdering` |
| outside | `ProcessOrder`, `CancelOrder`, `SellCard`, `CardJobDies` |

 * `bh` is Blackhawk's side, `rows` and `processed` table `blackhawk_card`, `goods[c]` the number of
   rows of table `good` with the code of card `c`. A card stands for its code; balances and
   prices are outcomes.
 * Every server's cron asks for the job once a minute and rq runs it, so jobs overlap.
   `does_code_exist` and the insert that follows are two steps: two jobs may insert one
   code, and `goods` counts both.
 * `skipped` and `abandoned` are history variables: cards whose code could not be fetched
   and which are marked as processed with the rest of their order; orders whose job died
   before all their rows were written.

### OfferLimit

| handler | actions |
|---|---|
| `GET /user/offers`, `get_offers_for_user` | `AskOffers`, `ReadCache`, `QueryPurchases`, `WriteCache`, `ListOffers` |
| `book_offer_api`, the check of locked offers | `AskOffers`, the same three, `BookOffer` |
| `process_order`, `set_locked_offers` | `Redeem`, `RecordPurchase`, `QueryPurchases`, `WriteCache` |
| outside | `SetListing`, `OrderExpires`, `CacheExpires`, `Midnight`, `RequestDies` |

 * One user; `cached` is its redis key. `get_locked_offers` filters the dict it read and writes
   the result back, so a `set_locked_offers` in between is lost. The two compare dates
   differently: the query finds a purchase for one day longer than the filter (`FoundBy`,
   `Unexpired`).
 * Checking, paying and redeeming are requests of their own: `open` counts booked orders,
   and a user with two open orders of an offer redeems both.
 * The code gives the limit up in two ways, and the properties except both. `unsure` is a
   history variable: the offers redeemed while another request was in progress, or by a request
   that failed before it wrote the dict. `Overtaken(x)` is a state of table `transaction`: of two
   purchases, the second made while the query still found the first, the first has run out and
   the second counts. `dict()` keeps one row for each offer, the last, and the query has no ORDER BY: the
   dict may have been given the date of the first, and then the filter drops the offer while the
   second purchase still counts. (A table that is only appended to is usually read in the order of
   its rows, and then the second one stays; SQL does not promise it.) Two orders open at once lead
   there, and so does an order booked on the day after the period, on which the filter has
   unlocked the offer and the query still finds the purchase. Until the older purchase has run
   out, these cases are *not* excepted.

### Accounts

| handler | actions |
|---|---|
| `user/register`, `create_user` | `RegisterNew`, `InsertUser`, `InsertAppData` |
| `user/onboard`, `onboard_user` | `AskWallet`, `LockAddress`, `CreateAccount`, `SetOnboarded`, `ReleaseAddress` |
| `user/app-launch`, `task20_migrate_user_to_tasks2` | `LaunchApp`, `LookAtDict`, `Migrate` |
| writers of the dict | `ReadDict`, `WriteDict`, `NukeUser` |
| failures | `VisitDies` |

 * The insert of the app data is a commit of its own, after that of the user; `halfway` names
   users whose registration ended in between, `stranded` the accounts whose request
   ended before it marked the user.
 * A category is present in the migrated dict or not; the dict is otherwise its set of tasks.

### PushAuth

| handler | actions |
|---|---|
| `user/app-launch`, `user/update-token`, forced send | `Launch`, `UpdatePushToken`, `ForceSend` |
| `should_send_auth_token`, `refresh_token`, `send_push_auth_token` | `ShouldSend`, `RefreshAuthToken`, `ReadToken`, `Push`, `SetSendDate` |
| `ack_auth_token_api` | `AppAcks`, `CompareToken`, `SetAckDate` |
| cron: `scan_for_deauthed_users` | `ScanForDeauthed` |
| outside | `TimePasses`, `PushLost`, `CallDies` |

 * `send_date` is kept as an age in four classes, as far as the code tells ages apart.
 * The scan is modelled as written: the age of the acknowledgement is computed from
   `send_date` as well, so its condition is never true (`ServicesProofs!ScanFindsNobody`).

### Captcha

| handler | actions |
|---|---|
| serving a task | `ServeTask` |
| `post_user_task_results_endpoint`, `passed_captcha`, `captcha_solved` | `SubmitTask`, `CheckCaptcha`, `CaptchaSolved`, `StoreSubmission` |
| `autoswitch_captcha`, `automatically_raise_captcha_flag` | `AutoSwitch`, `DecideRaise`, `RaiseFlag` |
| outside | `SetCaptcha`, `SecondsPass`, `SubmissionDies` |

 * The flag is -1 (not needed), 0 (raised) or 1 (to be solved). Completed tasks are counted
   modulo `CAPTCHA_TASK_MODULO`; the clock counts cooldown periods.
 * A task in hand remembers whether it was served with a captcha. A client that was
   refused drops its task and asks again.

### Catalogue

| handler | actions |
|---|---|
| `get_categories_for_user`, `count_immediate_tasks` | `ServeCategories`, `BeginCategories`, `ListCategories`, `CountImmediate`, `KeepCounts` |
| `get_next_tasks_for_user`, `next_task_id_for_category` | `BeginTasks`, `ReadNextTasks`, `WriteTasksCache` |
| `store_task_results`, `get_next_task_delay_days` | `SubmitResults`, `ClearCatsCache`, `ClearTasksCache`, `StoreResults`, `StoreDelay` |
| `add_task`, `delete_task`, `set_delay_days`, `add_category` | `CheckTask`, `InsertTask`, `DeleteTask`, `SetDelayDays`, `AddCategory` |
| `switch_task_ids`, corrections, `task20_migrate_task` | `SwitchTaskIds`, `MarkCompleted`, `UnmarkCompleted`, `MigrateTask` |
| outside | `TasksCacheExpires`, `CatsCacheExpires`, `NextDay`, `ViewDies` |

 * One user. A task is a row of category, position, day, delay, and whether its list of
   excluded countries is a list. Which tasks a client or a country may not have is a
   constant (`TooNew`, `Skipped`).
 * A submission deletes the two cache keys one after the other, and a request of another worker may
   run in between. `add_task` checks first and writes later: with the overwrite flag it replaces
   a row that must be there by then, without it the row must not be there and the category must
   be; otherwise the insert raises and nothing is written (`InsertTask`).
 * `catsCache` keeps the task behind each count in place of the number, so that a property
   can say which task was counted. `answer` and `marked` are history variables.

### ChannelPool

| method | actions |
|---|---|
| `AmqpPublisher.publish` | `Publish`, `CreateManager`, `BasicPublish`, `ReleaseChannel`, `ReleaseFailed` |
| `get_channel`, `init_pool` | `GetChannel`, `ReconnectLocked`, `NothingIdle` |
| `establish_connection` | `Connect`, `CloseChannels`, `CloseFails`, `ResetPool`, `AppendChannel`, `AppendFails` |
| outside | `ConnectionDrops` |

 * The threads of one process. A critical section is one step; what runs outside the lock,
   among it `establish_connection` after an exception, is one step per call to the broker.
 * Objects that are out of reach are forgotten and their identities used again, so
   that the state space is finite.
 * Each call of `establish_connection` may raise: connecting, closing an old channel
   (`CloseFails`: the old pool stays, under the new connection), opening a new one (`AppendFails`,
   also while the connection is open: the pool stays as far as it is filled, and `init_pool`, which
   looks at the connection only, does not mend it).

### MCServices

The seven services share no variable and no action, so a behaviour of all of them tells
no more than a behaviour of each: the variable `active` names the one that runs,
and the others stay in one initial state. One specification with the sum of their state
spaces, and not the product, then checks all of them under the same switch for failures.
What they have in common with the larger modules (a card becomes a good of `Orders`,
a redemption sets the locked offers, the migrated dict is that of `Payments`) is in each
of them the environment of the other.

## 3. The runs

| run | question | bounds | states |
|---|---|---|---|
| `orders_locks` | with row locks held to the commit, failures and any expiry: is a good held by one live order at a time? (`TypeOK`, `ActiveOrderHasGood`, `ResaleOnlyAfterLateRelease`, `GoodLeavesOnlyExpiredOrder`) | 2 workers, 1 user, 2 offers, 2 goods, 2 orders, 2 hashes, limit 2 | 486,822 |
| `orders_autocommit` | in production's isolation mode, with failures: what still holds? (`DeliveryPaidFor`, `OrdersBounded`, `TxHandedOutOnce`) | 2 workers, 1 user, 1 offer, 2 goods, 3 orders, 1 hash, limit 1 | 139,081 |
| `orders_promise` | without failures and with prompt redemptions: do the handlers implement `Inventory`, is a recorded payment served, is every unpaid good released? (`ImplementsInventory`, `RecordedIsServed`, `UnclaimedReleased`, `LockMeansProcessing`) | 2 workers, 1 offer, 2 goods, 2 orders, 2 hashes, no symmetry | 245,877 |
| `orders_double_allocation` | violated: `ActiveOrderHasGood` with AUTOCOMMIT | 2 orders, limit 2 | - |
| `orders_used_up_resold` | violated: a used-up good stays taken | 1 good, row locks | - |
| `payments_serial` | a client with one request at a time, payments recorded before the lock ends (`Timely`), no lock that ends amid a submission (`Swift`): is a task paid once, recorded as sent, kept as solved, not offered again? (`PaidOnce`, `RecordedAsSent`, `CachedTaskOpen`, `CompletedNeverLost`) | 2 workers, 1 user, 2 tasks of 1 category, 3 memos, 2 payments, 2 turns | 105,270 |
| `payments_free` | any interleaving and any expiry: what still holds? (`TypeOK`, `OnePaymentPerLock`) | 2 workers, 1 user, 1 task, 3 memos, 2 payments, 2 turns | 118,614 |
| `payments_twice` | violated: `PaidOnce` once the lock may expire before the callback | 1 worker | - |
| `phones_free` | any interleaving and failure: who is active, how many may register, does the history follow the number? (`TypeOK`, `OneActiveToBe`, `RegistrationsBounded`, `HistoryFollows`) | 2 workers, 3 users, 1 number, 1 task, limit 2 | 2,103,149 |
| `phones_orphan` | violated: a number in use has an active user | 2 workers, 2 users | - |
| `services_serial` | six of the smaller services without failures, but for the pool of channels: does what is promised to happen happen, and what holds only without overlap hold? (`EveryCardBecomesGood`, `UserGetsAuthenticated`, `CaptchaGetsSolved`, `CategoriesServedAgain`, `PublishEndsUnlessDeserted`; `PendingBounded`, `CountedTaskOpen`, `MigratedKeepsTasks`, `CaptchaNotTwiceSoon`) | 1 worker and 2 senders; 2 orders, 2 cards in batches of 1; 3 solvable tasks; 1 new token; 2 captcha categories, every 2nd task; 2 tasks in 2 categories, 1 edit; pool of 1 channel, 1 fault and any number of channels that cannot be opened | 62,118 |
| `services_free` | all seven, two workers each, any interleaving, calls and threads that fail at any step: what still holds? (`ServicesTypesOK`, `ProcessedCardIsGood`, `PaidCardRecorded`, `CacheKeepsPurchases`, `NotBookedWhileLocked`, `RegisteredHasData`, `FundedMeansOnboarded`, `AccountsBounded`, `PushedTokenValid`, `ChannelsExclusive`) | 2 workers; 2 orders, 2 cards; 1 offer, 2 orders of it, period 2 days, 4 dates; 3 addresses; 2 new tokens; 2 tasks in 1 category, 1 edit; pool of 1 channel, 2 faults | 1,503,654 |

Bounds. Two workers are enough for each race, as each is between two
handlers; the theorems of section 5 hold for any number. Two goods let a good be
free while the other is contended; two orders let a good move from one order to
another, and the third order of `orders_autocommit` lets the limit be
overrun. One hash is enough for repeated redemptions; the two hashes of
`orders_locks` and `orders_promise` let one order be paid twice. Ids (`OrderIds`, `TxHashes`, `Memos`,
`PayIds`) are used up, never reused, so their number bounds the length of a run.
`MaxTurns` bounds the expiries of a payment lock: two turns are the first that can
pay twice. In `Orders` and `Payments` a single user suffices for what is
checked: rows of one user are not written by requests of another, and the goods are
shared by orders whatever their user. In `Phones` three users are the first that
can overrun the limit of two registrations, and let a restore choose between
two others; one number suffices for `phones_free`, as a statement about a number
touches only its users, and the theorem covers any number of numbers.

In the services, one Blackhawk offer with a threshold of one card is short again as
soon as its card is sold; a second order shows the limit of pending orders, which is 0 instead
of 10. A period of two days and four dates let a purchase expire, let the query and the
filter disagree on the day after, and let a second purchase be made while the first counts or
while only the query finds it. Three addresses are one more than two workers may
open accounts for, so `AccountsBounded` is a bound that interleaved requests reach and a broken
handler exceeds. The third task of `services_serial` is in the category `0` that the migration
looks for. Two generations of a push token tell a token from its successor. A pool of one channel
is the smallest that threads contend for. What goes wrong with a pool does so between two threads: a fault
makes a thread reconnect, and a channel that cannot be opened, which needs no bound, meets the
reconnect; the second fault of `services_free` lets a reconnect meet a reconnect. A manager that is
replaced under a waiting thread takes three threads. `PublishEndsUnlessDeserted` excepts that thread by name, and
holds with `Senders = {s1, s2, s3}` and `MaxFaults = 0` as well (4,292 states); three threads and
a fault are beyond the bounds of a run. `PendingBounded` is checked
with one job at a time: for two jobs the bound is two orders, which takes a third one to break, and
the run then has 2.8 million states; its theorem covers overlapping jobs. `MaxEdits`,
`MaxFaults`, `MaxDay`, `MaxClock`, `LastDay` and `MaxToken` bound what never ends.

Deadlock is checked in the runs of `Orders`, `Payments` and `Phones`. The services may stop: ids,
days, edits and faults are used up, and all threads of a pool may poll it for nothing.

## 4. Assumptions of the runs, and fairness

| constant | meaning |
|---|---|
| `AutoCommit` | TRUE is the engine of prod and stage, FALSE an engine that keeps row locks to the commit, which the comments of `good.py` count on |
| `Faulty` | processes die and statements fail, at any step |
| `Prompt` | an order does not expire while it is being redeemed |
| `Serial` | a user has one request in progress at a time |
| `Timely` | a payment is recorded before the lock taken for it, and its cache entry, expire |
| `Swift` | no payment lock expires between a submission's look for an earlier payment and its own attempt at the lock |

The code guarantees neither `Timely` nor `Swift`: the lock lasts 60 seconds whatever becomes of the
payment and of the requests. They say what `PaidOnce` rests on, and it needs both. `payments_twice`
shows it violated without `Timely`. With `Swift = FALSE` alone changed in `MCPayments_serial.cfg` TLC
finds it violated too: a second submission looks for an earlier payment before the callback, which
then records it in time; the lock expires; the submission takes it and is paid.

`orders_promise` and `services_serial` check liveness. `FairSpec`
of `Orders` assumes weak fairness of the steps of a handler in progress (uwsgi runs the threads it
has started, and redis, Postgres and the blockchain query answer or time out) and strong
fairness of the start of a release run: cron calls the endpoint every minute, and
a waiting request gets a worker once one becomes free again and again. No
fairness is assumed of clients, payments or the passing of time.

`FairSpec` of `MCServices` assumes:

 * weak fairness of `Work`, for each worker: a thread goes on with what it has begun, and a free
   worker starts the job that cron asks for every minute;
 * weak fairness of `Elsewhere`: Blackhawk processes the orders it accepted (the code waits for
   that), tasks are served to a client that has none, and redis lets keys expire at their time
   to live;
 * strong fairness of `UserAsks` and `AppAnswers`: the user launches the app, submits tasks and
   opens the list of categories again and again, and the app acknowledges what it was
   pushed. These are assumptions about the client, without which nothing is owed to it; they are
   strong because a request waits for a worker that is free now and then;
 * strong fairness of `SenderGoesOn`, for each thread: the lock of the pool is handed to whoever
   waits for it some time, and a thread that polls finds its turn.

Nothing is assumed of operators, of days, of sales, or of the call that forces a push. With one
worker, `EveryCardBecomesGood` needs `Faulty = FALSE`: a card whose code could not be
fetched is marked as processed and lost (`skipped`).

`Prompt` is needed for `ImplementsInventory`: without it a used-up good can go
back to the pool (`orders_used_up_resold`). `RecordedIsServed` needs it too: an order that expires
after `get_order_by_memo` accepted it loses its good to a release run, and the client has paid
for nothing, as no retry gets past the recorded hash. A process that dies after `create_tx`
leaves the same behind. And one payment must not share its order with another (`SolePayment`): the
second finds the order gone. `Faulty = FALSE` is needed for
`UnclaimedReleased`: a process that dies after `allocate_good` and before the
insert leaves a good whose order has no row; `has_expired` then raises out of every
later cron run at that good.

## 5. What is proved

The theorems of the eight proof modules hold for all finite or infinite sets of users,
goods, hashes, tasks, memos and payments. They assume what the modules state of their
constants: `OrdersAssumption` and `NoneAssumption` (`OfferOf` is a function, the
switches are Booleans, `None` is not a value of any other kind), and the same in the
other modules; and what the counting theorems count, namely that there are finitely
many workers (`WorkersAssumption`, `PhonesAssumption`, `ThreadsAssumption`), in `Orders` at
least one, and finitely many Blackhawk orders and offers (`GiftCardsFinite`).

A theorem with a hypothesis (`ASSUME ... PROVE`) says in which case it holds:
`~AutoCommit`, `~Faulty` and `Prompt`, `Serial`, `Timely` and `Swift` are the switches of section 4;
`OneVisit`, `OneView` and `OneSubmission` say that the service has one request in progress
at a time. The runs satisfy them where they check the property, and none of them is idle: TLC finds
`CompletedNeverLost`, `CachedTaskOpen` and `RecordedAsSent` violated when two workers
serve one user with two tasks, `PaidOnce` when the lock may expire before the callback
(`payments_twice`) or amid a submission (section 4),
and `MigratedKeepsTasks`, `CountedTaskOpen` and `CaptchaNotTwiceSoon` when
`services_free` checks them.

| theorem | statement |
|---|---|
| `OrdersProofs!TypeCorrect` | `TypeOK`, with the local variables a handler has set at each step (`JobOK`) |
| `RedemptionPaid`, `TxPaysOnce` | in either isolation mode, under any failure and expiry: what is handed out was paid for by the transaction recorded for it; a hash is handed out once |
| `AllocationSafe` | `AllocationInv` is inductive when row locks last to the commit |
| `OrdersBacked`, `NoEarlyResale`, `GoodsKept` | its consequences: an active order has a good put aside; a good is sold again only after a release that came after its sale; a good leaves an order only because the order expired |
| `OrdersPromiseProofs!OrdersImplementInventory` | when row locks last to the commit, nothing fails and redemptions end before their order expires: every step of a handler is a step of `Inventory` or leaves it alone |
| `PaymentsServed` | under the same conditions: a redemption that recorded a payment hands out its good, or is on its way there, unless another payment names the same order |
| `LocksReleased` | when nothing fails, the redis lock of a redemption is that of one in progress |
| `OrdersLimit` | in either isolation mode, under any failure: the active orders of a user exceed the limit by less than one per worker |
| `PaymentsProofs!TypeCorrect` | `TypeOK` |
| `PaidUnderLock` | however requests interleave and whatever expires, one payment for each time the lock is taken |
| `PaymentsRecordedAsSent` | with one request at a time: a payment is recorded for the user and the task it was sent for, whatever expires before the callback |
| `CacheOffersOpenTasks`, `SolvedStaysSolved` | with one request at a time: the cache offers no solved task, and no write takes one back |
| `TaskPaidOnce` | with one request at a time (`Serial`), payments recorded before their locks expire (`Timely`), and no lock that expires while a submission that found no payment has yet to try it (`Swift`): a task is paid for once |
| `PhonesProofs!TypeCorrect` | `TypeOK` |
| `OneActive` | however requests interleave, of two active users of a number one is about to be deactivated, unless a request about the number ended halfway or replaced a number |
| `RegistrationsLimit` | a number has no more users than the limit if its requests do not overlap, and less than one more per worker if they do |
| `HistoryFollowsNumber` | requests about a number that did not overlap, end halfway or replace it leave one active user, with every task solved under the number, whatever requests about other numbers do to the same users in between |
| `GiftCardsProofs!MarkedIsGood` | however jobs overlap and fail, a card is marked as processed only when its code is a good or was passed over |
| `PaidRecorded` | a card that was paid for has its row, unless a job is about to write it or has died there |
| `PendingLimit` | however many jobs overlap, the orders that have a row and wait for Blackhawk number at most `MaxPending` and one for each worker and offer |
| `OfferLimitProofs!CacheKeeps` | a dict in redis holds every purchase that counts, except: what a redemption is about to write; a redemption that overlapped with another request, or that failed before it wrote the cache (`unsure`); an older purchase that was overtaken by a second one and has run out (`Overtaken`) |
| `LimitKept` | with the exceptions `unsure` and `Overtaken`, an offer is not booked again while a purchase of it counts, also when two orders of it had been open at once |
| `AccountsProofs!RegistrationComplete` | a registered user has its app data, unless a request is about to insert it or ended in between |
| `FundsRecorded` | an account that was created belongs to an onboarded user, unless a request is about to mark it or ended in between |
| `AccountsLimit` | a user gets at most one account per worker, besides those of requests that died before they marked the user |
| `MigrationKeepsTasks` | with one request at a time: no task leaves the dict of a migrated user |
| `ServicesProofs!PushesStayValid` | until a user is authenticated, every push on its way, or about to be sent, carries the token in the table |
| `CaptchasApart` | with one submission at a time: captchas are a cooldown apart, unless an operator set the flag |
| `CountsOpenTasks` | with one request at a time: the cached counts contain no solved task, unless an operator entered it |
| `ChannelsNeverShared` | for any number of threads: no channel is in the hands of two, no busy channel of the pool in nobody's |
| `GiftCardsTypeCorrect`, `OfferLimitTypeCorrect`, `AccountsTypeCorrect`, `PushAuthTypeCorrect`, `CaptchaTypeCorrect`, `CatalogueTypeCorrect`, `ChannelPoolTypeCorrect` | the types of the seven services |
| `ServicesTypeCorrect` | all seven at once in `MCServices`, each of whose behaviours is one of every service (`ServicesImplementEach`) |

The arguments:

 * *Redemption.* `RedeemInv` says that a worker past `create_tx` owns its hash: the row
   of table `transaction` is its own, nothing was handed out for the hash yet, and no
   other worker has got as far with it. The primary key of the table carries this, not
   the redis lock, so it also holds when processes die. `DeliveryPaidFor` alone is not
   inductive: it says nothing of a worker on its way to `FinalizeGood`.
 * *Allocation.* `AllocationInv` is the conjunction of `RowsInv` (two workers never
   hold the same row, and a row is as it was selected), `BookingInv` (an order id belongs
   to one booking, and from `allocate_good` on it has its good), `ActiveOrderHasGood` and
   `SoldInv` (a good handed out stays marked, unless it was released late). The first needs
   `~AutoCommit`, and it is the one that fails in production.
 * *Inventory.* `AllocationInv` is not enough for the refinement. `PromiseInv` adds that a
   new order id has no good yet (`FreshInv`, for `Reserve`), that an order being redeemed has
   not expired (`RedeemedInv`, for `Sell`), and that a used-up good belongs to an order that
   never expires any more, because its row is gone or about to go (`UsedUpInv`, for `Release`). The
   last part is where `~Faulty` and `Prompt` are used: a redemption that dies before
   `delete_order`, or is overtaken by the expiry, leaves an order behind whose good is used up
   and may be released.
 * *Redemption, served.* Past `create_tx` a redemption fails only if its order has lost its row or its
   good. The row goes with `delete_order` of a redemption of the same order, which is this one when no
   other payment names the order (`SolePayment`); the good goes only to a release of an expired order, which
   `Prompt` excludes. `ServedInv` adds to `RecordedIsServed` that the row is there from the lookup on,
   and that `delete_order` comes after the good was handed out.
 * *Payment.* `LockInv` adds to `OnePaymentPerLock` that no payment's turn exceeds its
   lock's turn, and that a worker on its way to pay holds a turn nobody has paid
   under and nobody else holds. Expiry of the lock does not disturb it,
   because the next worker takes a new turn.
 * *Phone numbers.* A request first makes its own claim (`WriteNumber` or `ActivateUser`)
   and then looks for others, so of two requests at once the one that looks last sees the
   other. `ClaimInv` adds to `OneActiveToBe` that a worker has users left to
   deactivate only while it moves a number, and that whoever is about to be
   activated still has the number it was matched by, unless the number is spoiled.
   The same argument explains the finding: *both* may see each other.

 * *Counting.* `OrdersBounded`, `RegistrationsBounded`, `AccountsBounded` and `PendingBounded` bound
   the number of rows that a handler counted (or looked for) before it wrote one. None is
   inductive: the invariant counts the rows together with the workers that have been let past
   the count and have not written yet (`LimitInv`, `CountInv`, `FundedInv`). A write moves a
   worker from the second set to the first; and the worker that counts is not one of
   those it overlooks, hence "less than one per worker".
 * *Orders that wait.* `PendingLimit` is harder, because a job does not count at once: it asks
   Blackhawk order by order, meanwhile other jobs order, and each job may order for several
   offers. `MayOrder(S)` is the set of pairs of worker and offer that may still lead to an
   order if of the jobs that count only those in `S` go on. `PendingInv` bounds orders and
   `MayOrder({})` together, and ranks the jobs that count by the time they listed the cards
   (`ListedBefore`): for each job, either there is room for it and those before it, or
   the orders it does *not* know of are few enough to leave room if it finds few waiting.
 * *One request at a time.* `MemoInv` says that a handler's copy of the dict of memos is current
   when it writes it back, and that a memo in the dict is its user's and unspent (`DictsInv`,
   `HandlersInv`); so two payments never share a memo, and the cache entry a callback
   finds is that of its payment (`SentInv`). `SolvedInv` says the same of the copy of the solved
   tasks, and that a submission past the check has cleared the cache. `PaidInv` builds on
   `RecordedAsSent`: a payment without a row is covered by its lock (`Timely`), and a
   submission that found no row before the callback wrote it will be stopped by that lock, which does
   not expire before the submission tries it (`Swift`).
   `OpenInv` (`CountsOpenTasks`), `DictInv` (`MigrationKeepsTasks`) and `CooledInv` (`CaptchasApart`)
   relate in the same way what a handler has read to what is so when it acts.
 * *History.* `FollowInv` follows the only request about a number through its steps: `Stage`
   says at each of them who is active and who has the history. Requests about *other* numbers
   may take the same users away, so `HeldInv` says that a user named by a
   request still has the number it was found by, unless the number is spoiled, and `NewUserInv`
   that a number about to be written is news to its user.
 * *Channels.* `HandsInv` relates the step of a thread to what it holds; `BusyInv` says that a
   channel in a thread's hands is busy as long as any pool has it, so nobody else is
   given it. A channel whose pool was replaced is in no pool, and its identity is not given to a
   new one while a thread holds it.
 * *Composition.* A step of `MCServices` is one of one service and leaves the variables of the
   others alone, so a behaviour of it is one of each service (`ServicesImplementEach`), and
   what is proved of a service holds in the composition.
 * *Gift cards.* `GiftCardsInv` says what a job knows of the order it is at (`JobOK`): one it
   converts is processed at Blackhawk and will not change, one it fills is incomplete and its
   own (`OwnOrders`), and orders have no card in common (`CardsApart`). On top of it,
   `ConversionInv` says of every listed card of an order being converted that it is a
   good, was passed over, is still to come, or is the one being inserted. Goods never leave
   the table, so another job's steps cannot undo this. For `PaidCardRecorded` the point
   is that a job dies holding cards of one order only.
 * *Offer limit.* `CacheInv` says that a redemption which has yet to write the cache while
   another request runs makes its offer unsure (`OverlapUnsure`), and that dicts in the hands of
   requests are good (`HeldDictsGood`), as is the one in redis (`CacheGood`). The first is what lets a
   request write back a copy. A dict is good if it has a purchase of each offer that counts *with a
   date that counts*, or an older purchase was overtaken (`GoodDict`): membership alone
   is not inductive, because an older date of the same offer is filtered out earlier. That
   happens at midnight, and the second purchase was then made while the query still found the first
   (`MidnightKeepsCache`); no purchase is dated later than today (`NoneLater`).
 * *Accounts.* `AccountsInv` relates the local variables of a request to the step it is at; the
   primary keys and the blockchain, which refuses an account twice, do the rest. The lock
   `address:` is not needed for it.
 * *Push.* A token is generated anew only for an authenticated user, and nothing takes the
   authentication back (`ScanFindsNobody`). The invariant adds that a request on its way to
   generate a token finds the user authenticated.

Each proof that a step preserves an invariant has one case per action.

## 6. What is only model-checked

Every invariant and every action property of the passing runs is proved, and the refinement of
`Inventory`. What remains with TLC:

 * liveness: `UnclaimedReleased` of `Orders`; `EveryCardBecomesGood`,
   `UserGetsAuthenticated`, `CaptchaGetsSolved`, `CategoriesServedAgain` and
   `PublishEndsUnlessDeserted` of the services. It depends on fairness and on when an action is ENABLED, which is out of the
   prover's reach;
 * that the properties break without the hypotheses of their theorems: the violated runs show it for
   `ActiveOrderHasGood` and `PaidOnce`, the counterexamples named in section 5 for the others.

`MigratedKeepsTasks`, `CountedTaskOpen`, `CaptchaNotTwiceSoon` and the properties of
`payments_serial` are proved for one request at a time only. That is not a weakness of the
proofs: with two requests the code does not keep them.

## 7. Findings

 * **Two orders for one good** (`orders_double_allocation`). `allocate_good` locks
   "the line until the commit is complete" (`models/good.py:101`), but with
   AUTOCOMMIT the lock ends with the SELECT. Two bookings select one good; the
   second overwrites the first, whose order is then active, can be paid, and has
   no good.
 * **A used-up good is sold again** (`orders_used_up_resold`). `release_good` clears
   `order_id` after `has_expired` said yes, without looking at `tx_hash` again. A
   redemption that was accepted just before the expiry finalizes the good in between.
   Row locks do not help.
 * **A task is paid twice** (`payments_twice`). The lock lasts 60 seconds
   (`views_public.py:429`), and the payment is known only after the callback. Results
   sent again in between find neither lock nor row. A callback in time does not help when the lock
   expires amid the second submission: its check for an earlier payment comes before the lock and is
   not made again under it (section 4).
 * **A number without a user** (`phones_orphan`). Two users who verify one number at
   the same time each commit their claim, list the other (`models/user.py:906`) and
   deactivate it. The code expects one "old user" (`models/user.py:778`) and keeps "the
   one with user_id" (`models/user.py:894`); here nobody stays active.

Two ways in which a call of `publish` polls for ever. The run of `ChannelPool` excepts both by name
(`PublishEndsUnlessDeserted`), and TLC finds each when its exception is taken out of the property:

 * `establish_connection` empties the pool and fills it channel by channel. When `Channel()` raises
   (`amqp_publisher.py:231`), an open connection is left with a short or empty pool. `init_pool`
   "recreates it on error" (line 238) by the state of the connection only, and `get_channel` polls;
   one thread and one refused message are enough (`ShortPool`);
 * threads that find no manager each make one (line 115). A thread that took a channel of the first
   releases it to the second (line 132), which does not know it and returns False. A third
   thread that entered `get_channel` of the first waits for that channel; nothing has to fail.

Five more places where the code differs from what it says, or cannot do what it is for. They
follow from a single line each, so no run is spent on them:

 * the docstring of the category cache says 10 minutes, its time to live is 30
   (`models/category.py:131`, `utils.py:311`; `CatsCacheExpires`);
 * `switch_task_ids` looks for the two ids in `task2` and renames rows of table `task`
   (`models/task2.py:690`; `SwitchTaskIds` changes `oldTasks`), so it switches nothing that is served;
 * `scan_for_deauthed_users` compares the age of `send_date` with two intervals that cannot both
   hold (`models/push_auth_token.py:141`; `Unacknowledged`), so it de-authenticates nobody;
 * a position is unique in its category only for tasks added without the overwrite flag: the flag
   and `task20_migrate_task` do not look (`CheckTask`, `MigrateTask`);
 * a migrated task has no list of excluded countries, and the next request that comes to it
   raises (`models/task2.py:239`; `Unreadable`). `CategoriesServedAgain` sets this case aside.

When the first Blackhawk token cannot be generated, its time stays NULL, and every
replenish job raises when it computes the token's age (`RefreshToken`).

Not modelled, and why: logging, metrics and reports (output nothing depends on), the contents of
push messages, secrets and deployment, the truex callback (it raises at
`views_public.py:1225` before it pays), p2p and app2app transfers (one insert of what
the client reports), e-mail templates, phone blacklists and the old task tables
(only read), and the administration endpoints that change one row of no modelled table at an
operator's request. Of `Accounts`,
requests that repeat the registration of a known user, which overwrite its device
data. The resubmission check of `Payments` looks at every user of the phone number
(`PhoneOf`, `Associated`), but the runs have one user: that two users of one number can be paid
for one task at the same time, each under a lock of its own, is recorded as a hazard.

## 8. Plan

1. An abstract specification of a phone number, whose history belongs to its last user, with `Phones`
   shown to implement it; one of a purchase limit, for `OfferLimit`.
2. `Payments` with two users of one number.
3. `GiftCards` composed with `Orders` through `AddGood`, and `OfferLimit` with the booking of `Orders`.
