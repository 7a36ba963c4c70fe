# Verification of the Across backend

TLA+ modules, TLC configurations and TLAPS proofs kept beside the Go backend in
`src/`. The backend is a Fiber HTTP server over PostgreSQL with a few background
workers; several replicas run at once and share nothing but the database, Redis
and the outside services (Flutterwave, Google Play, SMTP/SES, Expo, an object
store). Its hard part is not one algorithm but what happens *between* database
transactions: requests, webhooks, workers and administrators act on the same rows
in any order, calls to a gateway lose their answers, processes stop half-way.
That is what the modules model.

## 1. The system and its parts

| Part | State it keeps | Operations | Talks to |
|---|---|---|---|
| XP wallet (`xp_*.go`, `reward_service.go`) | signed ledger `xp_transactions`, reservations `xp_redemptions`, `xp_withdrawals` | balance, release of a quote, withdrawal request, review, rewards | order payments (consume a reservation) |
| Email outbox (`services/email_outbox.go`, `ses_controller.go`) | `email_outbox`, `email_suppressions` | queue, recover, sweep, claim, deliver, complaint | SMTP, SES |
| Provider subscriptions (`provider_marketplace_controller.go`, `provider_renewal.go`, `provider_checkout_recovery.go`) | subscriptions, their payments, `provider_renewal_preferences` | checkout, cancel, stop renewals, settle | Flutterwave, payments ledger |
| Order payments (`payment_controller.go`, `payment_ledger.go`) | orders, `payments`, webhook events | webhook, verify, administrator reconcile | Flutterwave, XP wallet, seller settlement |
| Seller settlement (`settlement_reconciliation.go`) | `seller_settlement_jobs`, seller payments, seller ledger | leased job that pages through gateway settlements | Flutterwave, fulfilment gate |
| Merchant fulfilment (`merchant_fulfillment_controller.go`, `ops_controller.go`) | fulfilment stage and version, events, manifests | transitions, bulk, manifests, receipt confirmation, automatic confirmation | settlement, rewards, notifications |
| Google Play billing (`playbilling/`) | purchases, events, refund jobs, checkout intents | process, prepare, reconcile, acknowledge, refund | Google, provider lock |
| Push and web push (`services/push_notifications.go`, `web_push.go`) | deliveries, tokens, tickets | enqueue, claim, send, retry, receipts, registration | Expo, browsers |
| Town Hall and community (`community_*.go`) | rooms, participants, applications, offers, friendships, blocks | apply, approve, offer, choose, close, befriend, block, report | notifications, chat |
| Conversations and support (`provider_conversation_controller.go`, `provider_chat_images.go`, `message_receipts.go`, `support_controller.go`) | conversations in threads, messages, read marks, receipts, tickets | contact, send, book, read, reply, close | notifications, availability slots |
| Posts (`merchant_product_controller.go`, listings in `provider_marketplace_controller.go`, migrations 075, 107) | listings, products, slots, revisions | create, submit, edit, moderate, archive, show | the provider's plan |
| Accounts (`auth_controller.go`, `identity_service.go`, `referral_controller.go`) | users, identities, mailed links, session versions, referrals | sign up, verify, reset, sign in, reward | mail, XP ledger, provider payments |
| Administrator access (`admin_access_controller.go`, `middleware/auth.go`) | administrators, roles, recorded changes | sign in, create, change, delete, reset | every administrator's request |
| Search, profiles, uploads, analytics | rows of their own | mostly reads and one statement each | - |
| Middleware (`middleware/`) | Redis counters, cached pages, admission slots | limit, cache, admit, drain | Redis |
| Workers, migrations, configuration | tickers, migration ledger | start-up and background passes | everything |

`PROJECT.json` lists the same parts with their files and says of each whether it
is modelled. What is hard in them, in short:

* balances and limits are read in one statement and relied on in a later one;
* advisory locks guard some writers and not others (rewards and settlements take
  none), and are gone once the transaction commits, before the gateway is called;
* queues are leases of a few minutes whose holder may wake up after losing them,
  and most final updates name a row by id only;
* a payment is reported by webhook, by the buyer's browser and by an administrator,
  each any number of times, late and out of order;
* gateway calls take effect although their answer is lost.

For each part, what makes it correct:

* wallet: never overdrawn, a withdrawal is paid or returned and never both, ledger
  and rows agree;
* outboxes: every row settles, duplicates only for a reason, suppressed or foreign
  recipients get nothing;
* subscriptions: at most one payable page, paid access never cancelled, a stopped
  renewal stays stopped, every payment buys time of its own;
* order payments: one settlement per payment, nothing paid stays unsettled;
* seller settlement: a hold never undoes a payout, a reversal stays visible, the
  ledger follows the gateway;
* fulfilment: versions count events, nothing ships before its settlement, a
  completed order stays completed, one reward per order;
* Play billing: a purchase is granted once and to one provider, granted or refunded
  but not both;
* push: one copy for each device unless a claim lapsed, no device suffers for another,
  every open notification arrives or is given up;
* Town Hall: never more providers than seats, nobody speaks after a removal or a block,
  a choice is recorded once and at the newest price, every request ends;
* messages: one thread for a customer and a business, no page that is called current
  misses a message, a retry repeats nothing, a closed ticket stays closed;
* posts: the public sees what was reviewed and no more than the plan allows;
* accounts: one Google identity for an account, every reward once, a reset ends all
  sessions;
* administrators: one super administrator is always left, and a change is made by
  somebody who still may;
* public pages: no answer is older than its question or shows private data of another,
  nobody waits for a fill that nobody makes.

## 2. Modules

| Module | What it is |
|---|---|
| `WalletPromise` | abstract: what the wallet promises a user, without database or locks |
| `XPWallet` | the wallet's handlers with sessions, advisory locks, reads and commits; implements `WalletPromise` |
| `XPWalletProofs` | TLAPS proofs about `XPWallet` |
| `EmailOutbox` | the leased email queue with replicas, crashes and lost answers |
| `ProviderSubscriptions` | checkout, cancellation, renewals and settlement of one provider against the gateway |
| `SellerSettlement` | worker replicas that read one seller's settlements under a lease and write payments and merchant ledger |
| `MerchantFulfilment` | transitions, manifests, the settlement gate and receipts of one seller's orders |
| `OrderSettlement` | webhook, buyer and administrator settle the charges of old orders |
| `PlayBilling` | purchases of Google Play from report to grant, acknowledgement or refund, of one provider |
| `Push` | notifications and the two leased queues that carry them to phones and browsers |
| `TownHall` | requests, seats, offers and choices, with the friendships, blocks and private rooms around them |
| `Messaging` | the thread of a customer and a business, bookings, receipts, and the support desk |
| `ProviderPosts` | listings and products of one provider under a plan that changes, their moderation and what the public sees |
| `Accounts` | sign-up, mailed links, resets, Google sign-in, sessions and the rewards of new accounts |
| `AdminAccess` | roles of administrators and the changes they make to each other |
| `PublicCache` | the cache of public pages, the revision it is keyed by, flights and slots of the replicas |
| `SellerSettlementProofs`, `MerchantFulfilmentProofs`, `OrderSettlementProofs`, `PlayBillingProofs` | TLAPS proofs about these four |
| `CommunityProofs` | TLAPS proofs about `Push` and `TownHall` |
| `ProviderProofs` | TLAPS proofs about `ProviderSubscriptions`, `ProviderPosts` and `Messaging` |
| `AccessProofs` | TLAPS proofs about `Accounts`, `AdminAccess` and `PublicCache`, all three together, and about `EmailOutbox` |
| `MC*` | small instances for TLC; `MCAccess` holds `Accounts`, `AdminAccess` and `PublicCache` |

Common conventions. A handler whose transaction can be interleaved with others is a
session that passes through named steps, one action for each stretch of code that no
other writer can observe half-done; a handler that is one transaction under row locks
is one action. A refused request changes nothing and is a disabled action or a step
back to idle. A definition whose comment begins with "Slip:" is an operation with
one plausible mistake. No behaviour uses it; it stands directly before the operation
it belongs to, and replacing that operation by it makes TLC report the property
named in the comment. The last definition or two of a module join its properties
into the formulas the runs name (`WalletSafe` is the conjunction of five invariants);
section 3 spells them out.

### XPWallet

`total` is `SUM(amount)` of the user's rows in `xp_transactions`, `ledger` the set of
their unique keys, `order` what a retired checkout left behind (orders, payments and
reservations), `withdrawal` the table `xp_withdrawals`. `lock`, `step`, `task` and
`memo` are the sessions: who holds `pg_advisory_xact_lock` of which user, and what a
handler read before it decides.

| Action | Code |
|---|---|
| `Begin`, `Lock`, `Abort`, `Finish` | transaction begin, `lockXPUser`, rollback, commit |
| `GetBalance`, `ReleaseXPQuote` | the handlers of those names with `releaseUnusedXP` |
| `SettleOrder` | `settleOrderPayment` with `consumeXP` |
| `RequestCheck`, `RequestCommit` | `RequestWithdrawal` before and after the balance was read |
| `ReviewCheck`, `ReviewCommit` | `AdminReviewWithdrawal` |
| `Award` | every reward insert; takes no lock |
| `Expire` | the 15 minutes of a reservation pass |

The refinement reads each withdrawal row as a claim (open is held, rejected is
returned) and the balance minus the reservations as the spendable points.

### EmailOutbox

`row` is the table, `stage` the next statement of a replica's pass and `jobs` what it
has claimed. Because a pass may stall, a job outlives its lease: `Recover` hands the
row to another replica while the old job still runs, and `Record` writes the final
status by id, whatever the row says by then. `copies`, `lapses` and `lost` count what
the program does not store: mails accepted by SMTP, recovered leases, lost answers.

### ProviderSubscriptions

One provider, because every lock and every rule is per provider. `sub`, `pay`, `paid`
and `pref` are tables; `link`, `charge`, `billed` and `renewing` are the gateway's side,
modelled from the calls the code makes. `SubscriptionCheckout`,
`CancelUnpaidProviderCheckout` and `ProviderManageRenewal` are sessions of several
steps; `Settle` is `settleProviderSubscription`, one transaction, run by anyone at any
time. `AdminClaim`, `AdminCancel` and `AdminConfirm` are
`AdminCancelGatewaySubscription`: `stopping` is its row in
`provider_gateway_subscription_cancellations`, and because the handler takes no lock of
the provider it runs beside everything else. What an administrator
was told is `confirmed` must be true at the gateway (`StoppedMeansStopped`). Time is
counted in months.

Assumptions on the gateway, taken from what the code relies on: a disabled page takes
no card payment any more; the answer "no such payment" is final for cards; a transfer
to the account a prepaid page showed may still arrive later (the reason why references
are kept). `StoppedMeansStopped` speaks of what had been bought before the renewals
were recorded as stopped: a later purchase is a later wish.

### SellerSettlement

`members` and `gateway` are Flutterwave's side: which charges a settlement pays out and
what is said of it now. `payment` and `entry` are the two tables the job writes, `job`
the seller's row with lease and saved cursor, `worker` the memory of each process.

| Action | Code |
|---|---|
| `Charge` | the part of `settleOrderPayment` that creates the ledger row and the job |
| `Announce`, `PayOut`, `Reverse` | Flutterwave holds, pays, takes back |
| `Claim`, `Lapse` | `claimSettlementJob`; `locked_until` is reached |
| `List`, `Fetch` | a list page; a detail page of one settlement |
| `Apply` | `applyFlutterwaveSettlement`, then `saveSettlementCursor` |
| `Finish`, `Fail`, `Crash` | end of the scan; a failed request; the process stops |

The lease protects only the cursor. A page in memory is applied whatever became of the
lease, so an old answer may be applied after a newer one, and the last condition of the
payments UPDATE (`Acceptable`) alone decides. Three things are abstracted: `next_check_at`
only delays a claim, so a free job may be claimed at any time; a settlement is listed as
long as it exists, because corrections come within the seven days a scan looks back; an
answer with an unusable amount is a failed request. `when`, `payouts` and `lapsed` are
history variables.

### MerchantFulfilment

`fulfil`, `trail`, `order`, `ledger` and `manifest` are the tables, `session` the requests
under way. A handler reads the gate (`ledger`) without locking the row it reads, so that
read is a step of its own (`ReadMove`, `ReadCreate`, `ReadMembers`) and what follows it
under the locks of the fulfilment rows is one more (`Move`, `Create`, `ChangeManifest`).
`AskMove`, `AskCreate` and `AskManifest` are requests of staff who looked at a list; a
request sent twice is a second request with the version seen first. `Release` and
`Reverse` are what `SellerSettlement` does to the gate, `ConfirmReceipt` and `AutoConfirm`
end an order (the reward is one of `XPWallet`'s postings). `late` and `released` are
history variables.

### OrderSettlement

`order` and `payment` are the rows a settlement touches, `event` is
`payment_webhook_events`, `charge`, `sent` and `answered` are the gateway's side and
`handler` the requests under way.

| Action | Code |
|---|---|
| `Charge`, `AnnounceEarly`, `Conclude` | external: a buyer pays on a page; Flutterwave announces the charge before and when it is final |
| `Receive` | `FlutterwaveWebhook` up to and with `beginPaymentWebhook` |
| `Verify`, `Reconcile` | `VerifyFlutterwavePayment`, `AdminReconcileFlutterwavePayment` up to the settlement |
| `LookUp`, `Outage` | `verifyFlutterwaveTransaction` of a webhook, answered or not |
| `Check`, `Commit`, `Rollback` | `settleOrderPayment` with `settlePaymentLedger` and `consumeXP`: locks and reads, commit, failure |
| `Notify`, `NotifyFails` | the rest of `settleAndNotify` |
| `Finish`, `Crash` | `finishPaymentWebhook` and the answer; the process stops |

Product checkout is retired: `FlutterwaveCheckout` and `TokenizedCharge` refuse every
request, so no action creates an attempt. `Init` holds the attempts it left
(`recordOrderPaymentAttempt`), on which charges may still arrive. The key of an event
leaves the reported status out, so an early announcement and the final one of a charge
share a row: once the early one is `ignored`, the final one is answered 200 and not
looked at. Only the buyer's verification or the administrator's reconcile settles such
a charge, which is why `FairSpec` asks for a reconcile of these charges and of no
others. Subscriptions, which share webhook and verification, are in
`ProviderSubscriptions`; the `Charge` of `SellerSettlement` and the `SettleOrder` of
`XPWallet` are what the `Commit` of this module looks like from there.

### PlayBilling

`google` is what Google knows of each purchase token, numbered by change; `purchase`,
`receipt`, `job`, `event` and `intent` are the tables; `card` is the provider's
Flutterwave subscription in one word. `session` holds the requests and passes under way.

| Action | Code |
|---|---|
| `Buy`, `Sale`, `PeriodEnds`, `CardMoves` | external: the buyer, Google, Flutterwave |
| `CardCheckout` | what `SubscriptionCheckout` asks about Play |
| `Prepare`, `IntentExpires` | `Store.Prepare` and its fifteen minutes |
| `VerifyRequest`, `Recover`, `Claim` | the three ways into `Store.Process`: the phone, `recoverNotificationPurchases`, the reconcile worker |
| `Verify`, `CommitNothing`, `CommitRefund`, `CommitPurchase`, `ClearIntent`, `Acknowledge`, `Converge` | `Store.Process`, one action for each call or transaction |
| `Notification`, `Mark`, `MarkRefunded`, `Match` | Google's message, and how the worker finishes it |
| `Refund`, `Revoke`, `Confirm` | `reconcileRefunds` |
| `Die` | a failed statement, call or process, at any step |

The lock of the provider is held from the report to the commit and no longer:
acknowledgement and reward follow in transactions of their own, so another pass may have
written a newer answer in between. `NewestAnswerWins` is therefore about answers in
flight, and `CatchesUp` about everything that stopped half-way.

### Push

`note`, `device` and `job` are notifications, registrations and the rows of both queues;
`worker` is the memory of each pass: the plan of requests still to send and the answers
still to save. `tickets` and `receipts` are Expo's receipts. A notification commits in a
transaction of its own (`WriteNotification`, `CommitNotification`), so a phone that
registers meanwhile is seen by neither; `Materialize` is the statement at the start of
every pass that repairs this. `Split` is the recursion of `sendPushDeliveries` after HTTP
400; `Reject` is any other status but 429 and 5xx (401, 403, 413, a redirect), which fails
every phone of the request at once and without a split, and for a browser an answer or a
key that fails its job but leaves it registered. Both end as `failed` in the table; the
state `rejected` of the model is the one whose `last_error` names a status other than 400.
`Die` is an error in the middle of a pass. `credit` counts the sends a job has a reason for.

### TownHall

`hall`, `part`, `pair` and `paid` are the tables; `tx` is a transaction that holds the row
of a room between its first read and its writes: an approval counting seats
(`BeginApprove`, `EndApprove`), a message (`BeginSay`, `EndSay`), a choice
(`BeginChoose`, `EndChoose`). Everything else on a room is one action that needs the row
free. `Purge` is the worker's call of `expire_unengaged_town_hall_requests` and
`purge_ended_town_hall_requests`; a reported request is kept. `Scenes` chooses which parts of the model a behaviour explores, so that seats, rooms
per plan, and friendships need not all be combined in one state space. Of the operations on
friends only `Block` and `Unblock` have a route in this release (`routes.go:276`);
`RequestFriend`, `ReplyFriend`, `RemoveFriend` and `StartDirect` are handlers that only the
integration tests mount (`launch_chat_routes_test.go:18` asserts that their routes are
gone). They stay in the model for the friendships and private rooms of earlier releases, so
the runs and the proofs cover more interleavings than the routes permit.

### Messaging

One customer and one business, several conversations in their thread. A message has the
time its transaction began and is visible at its commit (`BeginSend`, `CommitSend`), so
messages appear in another order than their times. A trigger counts every write to a
conversation in its `history_revision`; `bumps` has the writes themselves, each named by
its conversation and time, so that `Revision`, the tag of a page and the sum of these
counters in the code, is their number here.
`AskPage` reads it, `ShowPage` the rows, in two statements as in `conversationMessages`.
`BeginContact` takes the advisory lock of customer and business. `BeginBooking` and
`CommitBooking` are `CreateRequest`, which also takes a place in a slot. `Announce` is
what a handler does after its commit, and what is lost if it dies. `CreateTicket`,
`BeginReply`, `CommitReply` and `AdminCloseTicket` are the desk; `MarkRead`,
`BatchDelivered`, `Acknowledge` and `SavePreferences` are the receipts.

### ProviderPosts

`post` has the listings and products, `plan` what the paid plan allows now (0: nothing),
`maker` what a request of the staff has checked before it writes, `screen` what an
administrator is looking at, `judged` (history) the revision that the last decision was
about: `AdminModerateListing` compares a revision only if the request names one, so
`Judges` is the one on the screen for a request that does and what the row holds for one
that does not. The rules are triggers on both tables: `MayEnter` is
`enforce_provider_listing_capacity`, `FreeSlot` is `assign_provider_post_slot`,
`ListingStatus` is `maintain_listing_review_baseline`. A check in a handler is made before
the insert and may be stale; the trigger decides. `ShownListings`, `ShownProducts`,
`ListingPage` and `ProductPage` are the four public queries, each with its own
conditions: the lists look at the slot, a listing's own page does not.

### Accounts

`user`, `identity`, `referral` and `ledger` are tables, `links` what was mailed,
`sessions` the bearer tokens handed out and `request` what an open request has read.
`BeginGoogle` takes both advisory locks; `GoogleKnown`, `GoogleLink` and `GoogleCreate`
are the three ways `ResolvePrivyWithReferral` ends, `AwardWelcome` the transaction after
it. `Login` and `RespondSession` read the account twice. `Reconcile` is the database
function `reconcile_referral_reward`, run by every trigger that may complete a referral.

### AdminAccess

A change of an administrator passes the middleware (`Authorize`), then takes one advisory
lock and reads the caller again (`BeginAdminAccess`), then commits (`CreateAdmin`,
`UpdateAdminAccess`, `ResetAdminPassword`).

### PublicCache

`fetch` is a GET on its way through the middleware in the order of `main.go`: `Admit`
takes a slot (`slots`), `ReadRevision` and `TakeToken` make the token of
`CatalogFreshness`, `Lookup` and `Recheck` are the two looks into Redis (`stored`),
`Register` and `Answer` open and close a flight under the mutex, `GiveUp` is the 503 after
two seconds, `Load` the handler, `Store` the write to Redis. `flights` and `slots` are
memory of a replica and go with it (`Restart`). A page is what was read for it: the
revision and minute of its handler, and whom it shows. `since` in `fetch` is the catalogue
at the arrival, which no code reads. `Accounts`, `AdminAccess` and `PublicCache` share no
table; `MCAccess` explores each while the others stay as they began.

### How the modules meet

`SellerSettlement` writes the gate that `MerchantFulfilment` reads (`Release`, `Reverse`);
`OrderSettlement`'s `Commit` is the `Charge` of the one and the `SettleOrder` of
`XPWallet`; the rewards of `Accounts` and `MerchantFulfilment` are the `Award` of
`XPWallet`; `ProviderSubscriptions` and `PlayBilling` share the lock of the provider and
see each other as one variable; their outcome is `ChangePlan` in `ProviderPosts` and
`SubscriptionMoves` in `TownHall`. Each module lets the other side act whenever it likes,
which is more than it really does.

## 3. Runs

| Run | Checks | Bounds |
|---|---|---|
| `xp_wallet` | `WalletSafe` (`NeverOverdrawn`, `OneOpenWithdrawal`, `LedgerMatchesRows`, `DecisionsStayValid`, `LockHeld`), `DecidedForGood` (`ClosedIsFinal`, `ChargedReservationKept`), `KeepsPromise` | one user, two sessions, two keys, two old orders, one reward, opening balances 1 and 3, withdrawals of 2; 1.4 million states |
| `email_outbox` | `MailTypeOK`, `MailRules` (`CopiesBounded`, `AttemptsBounded`, `NoMailToSuppressed`), `MailsSettle` | one mail, two replicas, three attempts, four faults; 0.3 million |
| `provider` | `TypeOK`, `SubscriptionsAgree` (`OneOpenLink`, `PaidNeverCancelled`, `LedgerAgrees`, `StoppedMeansStopped`, `PeriodsStack`), `PaidIsHonoured` | two references, two transactions, two requests and an administrator's, plans of one and three months, a clock of one month; 1.7 million |
| `settlement` | `RecordsTrue` (`RecordedPayoutsHappened`, `LedgerAgrees`), `RecordsStick` (`PayoutsStick`, `ReversalsStick`), `PayoutsSeen` | two workers, two charges in one settlement or one charge in two, two requests per claim, two payouts, one fault; 1.3 million |
| `fulfilment` | `ReleaseGate` (`NothingBeforeRelease`, `ReversalBlocks`), `GoodsTogether` (`StagesAgree`, `DispatchedTogether`), `StoryHolds` (`CompletedForGood`, `TrailUnbroken`) | two orders of one route, one manifest, two requests, two changes of payouts; 2.9 million |
| `order_settlement` | `SettlesRight` (`SettledOnce`, `ProcessedMeansPaid`), `PaymentIsFinal`, `ChargesSettle` | one order with two attempts, or discounted with one, two charges, one webhook and one confirmation at a time, two crashes or outages; 0.3 million |
| `play_billing` | `TypeOK`, `PurchasesHonoured` (`GrantedOrRefunded`, `AckedMeansGranted`), `NewestAnswerWins`, `CatchesUp` | two tokens, two messages, two requests or passes, two orders each, one failure; 0.9 million |
| `push` | `PushTypeOK`, `PushRules` (`CopiesBounded`, `BadNeighboursHarmless`), `PushesSettle` | one notification in four households: two phones that must not share a request, two of which Expo refuses one, two passes over one phone, a browser of two users; two attempts, one ticket without a receipt, one fault; 0.1 million |
| `town_hall` | `TypeOK`, `RoomsInOrder` (`NeverOverbooked`, `AdmittedIsSeated`, `SpeakersAreAdmitted`, `BlocksHold`, `DealsOnce`) and `DealsAreStanding` in `HallHolds`, `RequestsEnd` | three scenes: two providers and one seat, one provider and two requests of which its plan allows one, a friendship; two offers each; 0.6 million |
| `messaging` | `ChatTypeOK`, `ThreadsInOrder` (`OneThread`, `PageIsFresh`, `AnnouncedWithTheMessage`, `PrivateReads`), `DoneIsDone` (`ClosedForGood`, `RetriesAreHarmless`) | two contacts, two open transactions, five references, slots of one or two, four transactions in all, in four scenes; 1.0 million |
| `provider_posts` | `PostsTypeOK`, `PublicPosts` (`SlotsHold`, `ReviewedContentOnly`), `QuotaAtEntry` | two listings, one product, two requests of the staff, one administrator's screen, plans of none to two, one edit; 3.3 million |
| `access` | `AccessTypeOK`, `AccountsAgree` (`OneIdentity`, `RewardsMatch`), `SignedOutForGood`; `LastAdminStays`, `PrivilegeHeld`; `PagesAreFresh` (`FreshPages`, `FlightsAreFlown`, `FilledOnce`) | two addresses, two subjects, two open requests, two links, one reset; three administrators, two of them founders, two changes at once, three commits; one page and one write or minute, three public fetches of a replica with two slots, or two fetches of any kind and two replicas; 1.7 million |

Why the bounds are enough. Locks are per user or per provider, so two concurrent
requests show every conflict of two, and a third only repeats one. The wallet's
amounts are chosen so that a withdrawal fits alone, fits only after a reservation was
freed, fits only after a reward, or does not fit: a balance of 3 with two reservations
of 1 and withdrawals of 2. Mails never interact except by sharing a batch, so one mail
with two replicas shows stale workers overwriting their successor; four faults allow a
lapse, a lost answer, a crash and a failed update in one history. Two transactions over
two references let one card be renewed, or two checkouts be paid, and one month is enough
for a charge to be settled before or after the end of the period it pays for. Two workers are a holder of the lease
and one that lost it; two requests per claim cut every scan short at each place; a payout,
a reversal and a second payout are all the kinds of answer that can pass each other. Two
orders of one seller are the least that a manifest or a bulk request can treat
differently, and two requests that share an order are the least that can conflict;
requests that share none touch different rows and are not started together. In
`order_settlement` all locks and rows belong to one order; two charges are made on one
attempt or on two, and a webhook that meets a confirmation is every race of two
settlements: what two webhooks of one event add is the double `finishPaymentWebhook`,
which the proofs cover for any number of handlers. Release,
reversal and one gate read before it is the whole race at the gate.

Two purchases are the least that can conflict, and the second message about one is the
least that can be late; the failure may fall on any step of either. In `push` a request of
two phones is the least that can be split, and a receipt batch of two with one ticket that
is never answered shows that it does not keep the others waiting. One seat and two
providers, or one allowed room and two requests, are every race for a seat: a seat count
only moves where it happens. Two offers of a provider are an older and a newer price. In
`messaging` two open transactions can commit in either order, in one conversation or in
two of the same thread, around a page that is asked for and shown in two steps; four
transactions allow a first message, a retry of it and two more. Three posts under a plan of
none to two have every shortage: too many at entry, a plan that shrinks below what is
published, a slot in between that becomes free. Two founders who demote each other are the
race of `AdminAccess`, the third is the one they may promote. One write, or one minute, that
falls at any step of a fetch is what can make a page old; a fetch that fills, one that waits
and one that is turned away are all the parts there are, and two replicas overwrite each
other's page.

`CHECK_DEADLOCK FALSE` stands where the program may really come to rest or a bound ends
it: every order is completed (`fulfilment`), the clock has run out (`provider`), nothing is
left to buy or refund (`play_billing`), the notification was delivered (`push`), all
requests are gone (`town_hall`), no transaction is left (`messaging`), every post is
archived and edited (`provider_posts`), every link and change is used up (`access`; fetches go on).

### Known divergences

Where the code does other than a comment, a document or a test beside it says, the models
follow the code. No property claims the promise; these are the places.

* `email_outbox.go:255`: a failed owner lookup, not only a lost owner, gives a mail up for
  good, attempts left or not.
* `provider_marketplace_controller.go:1590,1687`: the checks for an active and for a
  pending subscription are two statements. A payment settled in between lets a provider
  with an active subscription open a second checkout. It is honoured and adds time.
* `provider_marketplace_controller.go:1782,1809`: a first charge settled late shares its
  month with the next one of the same card; `:1811` settling an old monthly transaction
  again grants a month more (`payment_controller.go:532` calls a repetition harmless).
* `settlement_reconciliation.go:369`: a payment first seen reversed never accepts a later
  payout, which `docs/SELLER_SETTLEMENTS.md:100` promises.
* `playbilling/store.go:235`: the commit of one purchase deletes the reservation of a
  checkout for another, which `Prepare` says is held (`:267`).
* `push_notifications.go:196` and `notifications_controller.go:149`: pushes queued for a
  phone are sent to it also after it registered for another user; the browser queue and
  its test (`web_push_integration_test.go:175`) cancel them. A late receipt disables a
  registration newer than the push.
* `support_controller.go:410`: a message committed late with an earlier time counts as
  read, although its reader has not seen it (`chat_unread_test.go:76`).

Gaps that no text of the repository denies, all reached by the models:

* `merchant_fulfillment_controller.go:350`: an order that was ever on a manifest can not be put
  on another one, also when that manifest is cancelled.
* `provider_marketplace_controller.go:1717,2155`: a checkout without a page and a pending
  cancellation whose request died are released by no handler.
* A second successful charge of an order that is paid is refused and stays where it is;
  `PaymentIsFinal` says only that it changes nothing.
* `provider_marketplace_controller.go:1247`: changing the capacity of a slot sets what
  remains to what is new, and a rejected booking does not give its place back.
* `provider_chat_images.go:142`: a retry is refused when the newest conversation of the
  thread has become another one in the meantime; the message itself is not repeated.
* An event to the provider that follows the commit (`request_created`, a message to the
  customer) is lost when the process stops there.
* `merchant_product_controller.go:425`: the approval of a product carries no revision, and
  that of a listing may omit it (`provider_marketplace_controller.go:1902,1922`). Such a
  decision covers whatever the row holds by then. Of these `ReviewedContentOnly` says only
  that a later edit takes the post off the shelf until the next decision; that the public
  sees what was on the administrator's screen is said of decisions that name a revision.
* `push_notifications.go:314-327`: a request to Expo answered with a status other than 2xx,
  400, 429 or 5xx fails at its first attempt for every phone in it, healthy ones included;
  `BadNeighboursHarmless` is about requests answered 400.
* A business stays approved after its document was rejected; a free provider whose only
  live post has slot 2 is not shown; a listing's own page does not look at the slot.
* The welcome reward is lost when the process stops between the verification and the
  reward; a paused referral program leaves rewards owed until the next trigger.
* A password sign-in that read the old hash before a reset hands out a session with the
  new version (`auth_controller.go:1081`); `SignedOutForGood` is about sessions that
  exist when the reset commits.

### Fairness

* `OrderSettlement!FairSpec`: a handler runs on (weak fairness of `Serve`); the gateway
  repeats the announcement of a successful charge until it gets a 2xx (strong fairness
  of `Receive`); an administrator reconciles, by transaction, a charge that was
  announced early (strong fairness of `Reconcile`). Strong, because the handler may be
  busy with another request in between.
* `EmailOutbox!FairMailSpec`: time passes (`BecomeDue`, `Lapse`), the ticker of the worker
  fires every five seconds (`Pass`) and a goroutine with a claimed mail goes on
  (`Deliver`), because its SMTP connection has a deadline. Faults are bounded by
  `MaxFaults`; nothing forces them.
* `ProviderSubscriptions!FairSpec`: a verified payment is eventually settled
  (`Settle`), since webhook, confirmation and the administrator's reconcile all end
  there.
* `PlayBilling!FairSpec`: some request or pass under way goes on (weak fairness of a
  `Step`), and the minute worker gets to each purchase, message and refund that still
  needs it (strong fairness of `Useful`): nobody holds the provider's lock for more than
  the 25 seconds of a request, so its `pg_try_advisory_xact_lock` finds it free again and
  again.
* `Push!FairPushSpec`: open transactions commit, a pass goes on, claims lapse, and every
  ticker fires (`Materialize`, the two claims, the receipts). Strong for the tickers,
  because a pass that is under way delays the next.
* `TownHall!FairSpec`: deadlines pass, open transactions end and the worker runs
  (`Purge`). Nothing is asked of users.
* `SellerSettlement!FairSpec`: leases run out (`Lapse`), and while there is something to
  do *some* worker does it (`Claim` or `Work`): the ticker fires every minute and a
  request times out after twenty seconds. No single worker is sure to go on.

## 4. Proofs

`XPWalletProofs` proves, for any finite set of old orders and any users, sessions,
keys and amounts:

* `TypeCorrect`, and `WalletNeverOverdrawn`, `AtMostOneOpen`, `LedgerConsistent`,
  `DecisionsHold`, `LocksHaveHolders`, joined in `WalletIsSafe`: the invariants of run
  `xp_wallet`;
* `ClosedWithdrawalsFinal`, `ChargedReservationsKept`, joined in `DecisionsAreFinal`: its
  action property;
* `WalletKeepsPromise`: `XPWallet` implements `WalletPromise`.

`NeverOverdrawn` is not inductive. `RequestCommit` subtracts points because of a
balance read in an earlier step, so the invariant has to say why that balance is
still there: whoever is past `Lock` holds the lock of its user (`LockHeld`), and what
it decided under that lock still holds (`DecisionsStayValid`: the amount read is at
most the amount available now, the reservations it will free are still unused, no
other withdrawal is open). `Inv` is the conjunction of these with `TypeOK`,
`OneOpenWithdrawal` and `LedgerMatchesRows`. Everyone who could make a decision stale
needs the same lock; those without it (`Award`, `Expire`) only ever add points or
lapsed reservations. There is one lemma per action, and `NextInv` puts them together.

For the refinement each action maps to `Earn`, `Hold`, `Pay`, `Return` or a stutter.
`RequestHolds` is the interesting one: the request takes its points and frees lapsed
reservations in one step, hence `Hold` lets the balance fall by *at most* the points.

The proofs assume what `XPWallet` names: `OrdersAssumption` (finitely many old orders,
each with an owner), `AmountsAssumption` (amounts are positive) and `NullsAssumption`.

`SellerSettlementProofs` proves `TypeCorrect`, `LedgersAgree` and `RecordsAreTrue` (joined
in `RecordsTellTheTruth`), and `PayoutsNeverDowngraded` and `ReversalsNotErased` (joined in
`RecordsAreNotUndone`), for any charges, settlements, layouts, workers and bounds, from
the four named assumptions of the module. `RecordedPayoutsHappened` is not inductive:
`Apply` writes what a worker read earlier, when the gateway may have said something else.
`Inv` adds `PagesTrue` (a page in memory was true once: if it says successful, that payout
is in the history), `GatewayTrue` (so is what the gateway says now) and `HeadsOpened` (a
scan stands at a settlement that was listed). Pages outlive leases, and none of this relies
on the lease: it is not what keeps the books right. `ReversalsStick` does depend on it, as
the property says (`~lapsed`). Its invariant `Aged` (`NewsInOrder`) adds that a worker that
works holds the lease (`Held`), so nobody else records a reversal between its read and its
write; that a recorded reversal is either the last word of its settlement or older than it
(`ReversalsAged`); and that of the settlements of a charge the one that is paid was paid last
(`LatestPaid`), without which a reversal of one settlement could be newer than the payout of
the next. Together they give `PagesFresh`: a payout in memory is newer than the reversal it
is about to replace.

`ProviderProofs` has three parts. For `ProviderSubscriptions` it proves the type invariant, `AtMostOneOpenLink`,
`PaidAccessStays`, `StoppedStaysStopped` and `PeriodsNeverOverlap`, joined in
`SubscriptionsTellOneStory`, for any references, charges, requests and months. The difficulty
is that the gateway is asked while no row is locked, so what a request has found out must
hold without a lock. `Requests` says why it does: a checkout in flight is for the one pending
subscription, whose page nobody knows yet (`Creating`); a cancellation has taken the page down
before it asks for payments, so the answer "nothing was paid" stays true of a card
(`Cancelling`); the manager of renewals holds the lock while nothing is pending, so nothing
new can renew behind its second listing (`Managing`). `Books` relates the tables to the
gateway. `PeriodsStack` needs two parts of its own: `Covered`, no period reaches beyond the
end of its subscription, and `Chained`, a card is paid at most a month ahead of another
subscription, so that its next payment, which starts after all the others, never ends before
its last. `StartsAfter` is the lemma about the starting month, from which the rest follows.

For `ProviderPosts` it proves `PostsTypeCorrect`, `PublicPostsHold` and `EntriesFit`, for any
listings, products, requests, administrators and plans. A request counts the posts before it
writes and may be wrong by then; the triggers count again while they hold the provider's row,
and `EntriesFit` says that nothing is made, queued before its first publication or published
for the first time beyond the plan of that moment (`InsertFits`, `QueueFits`, `DecisionFits`,
and `NothingEnters` for all other steps). That the public never sees more than
the limit is an argument about slots: live posts have different ones (`SlotsDiffer`), so as
many posts as slots fit below it (`CountedBySlots`); `FreeSlotIsFree` is the lemma about the
slot that `FreeSlot` finds, `LimitsFit` the one about `ListingLimit`. Edits are counted by a
variable of their own, not added up over the posts: nothing about a sum can be proved without
an induction.

For `Messaging` it proves `ChatTypesHold`, `ThreadsStayInOrder` and `DoneStaysDone`, for any
listings, writers, references and slots. Several writes are open at once and commit in any
order, and only a first contact holds a lock until then. `WriteOK` says what each relies on:
a contact that nobody changes the thread it is about to join, all others only that a
conversation stays and keeps its thread. `PageIsFresh` is the interesting property. The
messages of a page are read after its tag, so a tag of the current revision must mean that
nothing was committed since; it does because every commit, also of an older message and also
of a retry, makes the revision greater (`BumpKeeps`, `PagesFallBehind`), and it makes it
greater because no two writes have the same time (`TimesOK`). A booking is stored once because
its key was unused until its commit (`MessagesOK`), which gives `RetriesAreHarmless`.

`MerchantFulfilmentProofs` proves every property of run `fulfilment`
(`GateOfTheSettlement`, `GoodsGoTogether`, `StoriesHold` and the theorems they join), for any orders,
manifests and requests under way. The interesting one is `ReversalBlocks`. Its invariant,
`LateOK`, says why a request that passed the gate before a reversal does no lasting harm:
when the first of them moves the order, the version it raises is one no other request has
seen (`ExpectsOK`), so all others fail; the only other way to move the order is the
dispatch of its manifest, and an order that was dispatched cannot be dispatched again.
`PassedReleased` ties a passed gate to a payout that happened. `OrderSteps` reduces the
next-state relation to the three things that can happen to an order, from which the two
action properties follow.

`OrderSettlementProofs` proves `TypeCorrect`, `OrdersSettleOnce` and
`ProcessedEventsArePaid` (joined in `SettlementIsRight`), and `PaymentsAreFinal`, for any orders, attempts, charges, handlers and faults.
`SettledOnce` is not inductive: `Commit` writes because of what `Check` read. `Inv` adds
`HandlersTrue`, what each handler relies on at its step. Its heart is that a handler
between `Check` and `Commit` holds the lock of its order and everything it found
(`Payable`) still holds; `LocksKept` shows that no other handler can change it, since
whoever commits on that order would have to hold the same lock. `CommitSettles` then
gives the effect of a commit, the first one or a repetition, and `PaidStays` that no
later step undoes it, from which `EventsTrue` follows: whoever writes `processed` knows a
charge that has paid its order. `ChargesStay` is what the proof needs of the gateway: a
successful charge stays what it was.

`PlayBillingProofs` proves `TypeCorrect`, `PurchasesAreHonoured` and `NewestAnswerKept`, for
any purchases, messages, requests, periods and failures. Neither half of `PurchasesHonoured`
is inductive. Whoever decides holds the lock of the provider from the look at the refund
jobs to the commit, so what was found still holds then, and no other answer is written in
between (`Locks`). What follows the commit has no lock: it relies only on what no step
takes back (`Past` and `Grows`: a purchase stays known, a receipt stays written, an
acknowledgement stays given). Google tells what is true when it is asked, and its count of
changes only grows (`Answered`), so an answer is at least as new as all that was recorded
before it was asked for. `NewestAnswerWins` follows from the same invariant.

`CommunityProofs` has two parts. For `TownHall` it proves `TypeCorrect`, `RoomsAlwaysInOrder`
and `ChoicesStand` (joined in `TownHallHolds`), for any requests, providers, offers and limits; neither set need be finite.
What is decided about a room is decided while its row is locked, and every writer of its
seats, applications and offers waits for that row. `Held` is what an open transaction found
and relies on at its end, and it is part of the invariant for as long as the lock is held:
the clock and a report do not wait, but they take nobody's seat. A private room is locked
by whoever writes there, so a block waits (`PairOK`), and the choice it records is in the room
(`ChosenOK`). Two limits are counted over the same seats, those of the room and those of
the plan; `Within` carries with the bound that the counted set is finite, which an infinite
set of providers would otherwise leave open, and `OneMore` and `Fewer` are all that a step
needs of it.

For `Push` it proves `PushTypesHold` and `OneCopyEach`, for any finite sets of phones and
browsers and any number of notifications, passes and attempts. That a job is never sent
without a reason says nothing of who may send it next. `Covered` does: the passes that carry
a job (it is in a request still to send, or in an answer that will put it back) and its one
place in the queue are together no more than its credit. A claim moves the job from its
place into a pass, a send spends a unit and takes the job out of the plan, saving `retry`
gives the place back, a lapse makes a place and pays for it; `Kept` is the lemma for steps that
leave the passes alone, `Moved` for those of one pass. The count needs every job to be named
once in a pass (`PassShape`), through the halves of a refused request (`Halved`), the answers
that replace it (`Answered`) and the saves (`Popped`, `Followed`). The other half, that a
phone is not given up for the tokens of its neighbours, rests on `KnownOK`: a pass remembers fewer
attempts than the job has by now, however often others have claimed it since; and on
`RefusedOK`: of the requests that Expo answers with 400 only one for a single phone is given
up, and that phone is the refused one (`Reject`, for any other status, is kept apart). A
job has one ticket at most (`OneEach`), so none of it is left when its ticket is taken away.

`AccessProofs` has five parts. For `Accounts` it proves `AccountTypesHold`,
`AccountsNeverDiverge` and `EndedSessionsStayEnded`, for any addresses, Google identities,
requests and resets. A Google sign-in decides on what it read, and a sign-up takes neither
of its locks. The invariant says why it still decides rightly: the lock of the subject keeps
what `user_identities` says of it (`Relies`, `OneSignIn`), an account that exists stays,
stays active and keeps its identity, and the unique address is left to the insert. Of sessions
it says that each was given to an active account with a version this account had (`Given`);
as versions only grow (`Grows`), an older one never becomes the current one again. The proof
has shown that the model ordered sign-ins too strictly: two that find no account do not
exclude each other, because there is no row to lock, and `BeginGoogle` now says so.

For `AdminAccess` it proves `AdminTypesHold`, `AdminNeverLost` and `NoStalePrivilege`, for any
administrators and any number of changes under way. `LastAdminStays` is not inductive: a
commit that removes a super administrator counts the others, and that the caller is one of
those who stay was read earlier. `AdminInv` adds `OneChangeAtATime`, whoever holds the lock is
alone and still a super administrator: nobody changes a row without the lock. `CommitKeeps`
gives the effect of a commit once, for all three kinds of change.

For `PublicCache` it proves `CacheTypesHold` and `PagesStayFresh` (`PagesAreFresh`, all three
parts), for any replicas, fetches, pages and slots. None of the parts is inductive. `CacheInv`
adds `StoredOK`, a page in Redis was read no earlier than the token it is kept under, and
`FetchOK`, what a fetch has found out at each step: its token was read after its question
and before its page, and whoever fills holds a flight. A flight belongs to one fetch from
`Register` to `Answer`, and has one owner for a key; so no other fetch of the replica
can store under its key (`FilledOnce`), and the answer that ends a flight
wakes everybody who waits for it (`FlightsAreFlown`). `StepKeeps` covers the steps that
touch one record only; `CacheAssumption` is all that is assumed.

For `EmailOutbox` it proves `MailTypesHold` and `MailRulesHold`, for any mails, workers and
limits. A job outlives its lease, so two workers may hold the same mail, and no bound on the
copies can be inductive without counting who may still send one. `MailOK` counts: the copies
sent, the deliveries that may still send (`Unspent`) or put the mail back, and its place in
the queue (`InQueue`) together never exceed what the first place, the lapses and the lost
answers have paid for; the attempts beyond the limit likewise, counted over the deliveries
that have attempts left (`Young`). A claim turns a place into a delivery, a final update turns
it back, and only `Recover` makes a place without ending a delivery. `MailStays` is the
lemma for every step that passes nothing on.

Last, `AccessHolds` states the invariants of run `access` of the three parts side by side, as
`MCAccess` runs them.

The type invariants of `XPWallet`, `SellerSettlement`, `MerchantFulfilment` and
`OrderSettlement` are proved and are not invariants of a run of their own.
The strengthened invariants were model-checked on the instance of their module's run before
they were proved (that of `PlayBilling` with two messages).

Only model-checked: liveness (`ChargesSettle`, `MailsSettle`, `PaidIsHonoured`,
`PayoutsSeen`, `CatchesUp`, `PushesSettle`, `RequestsEnd`), since fairness and `ENABLED` are
beyond the prover, as is induction over data. Every other property of a run is proved.

## 5. Not modelled, and the plan

Left out for good: formatting, validation of input, queries that only read, uploads and
storage, cryptography, configuration, analytics. A batch's checkout is retired and its
transitions are not routed; only the worker that closes expired batches runs, one UPDATE.

Left out of the modelled parts:

* `PlayBilling`: prices, test purchases, the binding of an account to a provider.
* `Push`: a phone that changes its user (see the divergences), and the repair of jobs that
  an older release rejected (`push_notifications.go:172-190`).
* `TownHall`: statuses that expire, promotions, profiles, and what moderators read; a report
  only matters for keeping a request. A purge that meets a report still being written, whose
  foreign key it would break, is decided by the database and not modelled.
* `Messaging`: images, locations, and administrators who read a thread; the blocking of a
  conversation, which no handler sets.
* `ProviderPosts`: limits on media, discovery and ranking, documents of drivers. A plan is the number of posts it
  allows.
* `Accounts`: cooldowns, lifetimes of links, profile edits, deletion.

Small or of one process, and so far left out: driver availability (a row with an expiry),
rate limits and metrics (a Redis script), the version hint of the catalogue (one cached
number per process), the migration runner (one advisory lock, each ledger row with its migration).

No safety property that a run checks is left to prove; the next theorems belong to what is
modelled next.

To model next: profiles and promotions of the community.
