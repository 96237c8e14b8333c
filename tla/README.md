# Verification of the order back end

TLA+ models, TLC runs and TLAPS proofs for a hyper-local marketplace: the
Node.js back end (`src/backend`) and the customer's cart, the part of its web
client whose requests race with each other.  A customer checks out from one or
more sellers, pays online or in cash, a seller accepts and packs each order,
riders race for its delivery, and a timeout cancels whatever nobody answers.
Many short handlers run over shared MongoDB documents, without locks, in
several processes: API servers, Bull queue workers and cron schedulers.

All paths below are relative to `src/backend/app`, except the cart's, which are
relative to `src/frontend/src`.

## 1. Inventory

| Component | State | Operations | Talks to |
|---|---|---|---|
| Placement `services/orderPlacementService.js` | `Order`, `CheckoutGroup`, `Cart`, coupon use, wallet redemption | place order(s) in one transaction | stock, idempotency, coupons, pricing |
| Idempotency locks `services/idempotencyService.js` | Redis lock, result, error keys | check, lock, store, release | placement |
| Pricing `services/checkoutPricingService.js`, `services/finance/pricingService.js` | breakdowns of one checkout | price lines, handling, coupon, tip, wallet, payable | placement, coupons, settings |
| Stock `services/stockService.js` | `Product.stock`, `Order.stockReservation` | reserve, commit, release, adjust | placement, compensation, payment |
| Online payment `services/paymentService.js` | `Payment`, `PaymentWebhookEvent`, `CheckoutGroup.paymentStatus` | create attempt, verify, webhook, side effects on orders | gateway, finance, engine |
| Order workflow engine `services/orderWorkflowService.js` | `Order`: `workflowStatus`, deadlines, `deliverySearchMeta`, `deliveryBoy`, `deliveryRiderStep`, `assignmentVersion`, `skippedBy` | seller accept/reject/pack, rider accept/skip/arrive/pickup/advance, customer cancel, timeouts, OTP delivery, return pickup | queues, compensation, finance, delivery assignment, notifications |
| Cancellation compensation `services/orderCompensation.js` | `stockReservation`, `financeFlags.cancellationReversalApplied` | release stock, reverse finance | stock, finance, checkout group |
| Auto-cancel cron `jobs/orderAutoCancelJob.js` | none; reads deadlines | expire seller/search/payment/return-pickup deadlines | engine, compensation |
| Workflow job queue `services/workflow/*`, `queues/*` | delayed Bull jobs | add, remove, hand out (again) | engine |
| Delivery assignment `models/deliveryAssignment.js` | `status`, `winnerDeliveryId` | publish, record winner | engine |
| Hand-off OTP `services/deliveryOtpService.js`, `services/orderWorkflowService.js` | `OrderOtp` | request, verify, consume | engine, settlement |
| Order finance `services/finance/orderFinanceService.js` | `financeFlags`, `settlementStatus`, `paymentBreakdown` | capture, settle, reverse, book and remit COD cash | wallets, ledger, payouts |
| COD cash `controller/deliveryController.js`, `services/admin/cashService.js` | `cashInHand`, `Transaction` rows | submit, reconcile, settle | order finance |
| Payouts, returns `services/finance/payoutService.js`, `services/order/orderReturnService.js`, `jobs/returnWindowReleaseJob.js` | `Payout.status`, `returnStatus`, holds | hold, release, request, approve, refund | wallets, cron |
| Distributed scheduler `services/distributedScheduler.js` | Redis locks, timers | acquire, run job, release | every cron job |
| Notifications `modules/notifications/*` | dedupe keys, `Notification`, Bull jobs, push tokens | announce, queue, deliver, retry, bury | FCM, every component |
| Customer cart `modules/customer/context/CartContext.jsx`, `core/api/dedupe.js` | cart shown, pending count, local storage, GET cache; `Cart` document | add, change, remove, clear, load, log in, log out | `controller/cartController.js` |
| Retention (TTL indexes in `models/order.js`, `models/checkoutGroup.js`) | `placement.idempotencyKeyExpiry` | MongoDB's TTL monitor deletes | placement |
| Admin override `controller/orderController.js` `updateOrderStatus` | `Order.status` | write any status | settlement, compensation |
| Login OTP, caches, search index, tracking, sockets, onboarding, catalogue, middleware, start-up, pages of the web clients | see `PROJECT.json` | | |

### What is hard here

Every handler is `read; await; write`.  Between the two, any other handler may
run, in this process or another.  The code protects itself in five ways:
status guards inside `findOneAndUpdate` filters, idempotency flags inside
transactions, keys in Redis with a time to live, `version`-like counters, and
the cron job as a fallback for lost queue jobs.  The properties are about
whether these suffice:

* **Placing** is retried by clients while the first request is still at work.
  Correct means: one order per key, and stock, wallet and coupon never go below
  zero whatever the requests read.
* **Paying** is confirmed by webhook or status check, any number of times, in
  any order, for several attempts, possibly after the order was cancelled.
  Correct means: a capture is credited once, the records agree with the
  gateway, a seller never works on an unpaid order, and money of a cancelled
  order returns.
* **Cancelling** can be started by six handlers (seller reject, seller
  timeout, search given up, customer, payment timeout, payment failed).
  Correct means: goods and money come back exactly once, never for an order
  that lives on.
* **Riders** race each other and the search timeout.  Correct means: one
  winner, a carried order is never cancelled or reassigned, the search is given
  up only after all its windows.
* **Delivering** an order ends in one settlement, though three endpoints can
  deliver it; its **cash** is booked and remitted by five callers that plan on
  what they read.  Correct means: the wallets agree with what the orders owe.
* **Pricing** rewrites the same breakdown in six passes.  Correct means: after
  each of them no money was lost or made, and shares add up within rounding.
* **Jobs** may be lost, late, repeated or run by two instances.  Correct
  means: no order waits for ever, no timeout acts before its deadline, and two
  runs of a cron job overlap only when a lock could not prevent it.
* **Answers** reach a web page out of order or never.  Correct means: once all
  is quiet the page shows the server's cart.
* **Crashes** between two statements of a handler.  Correct means: what was
  done is not done again, and what was not done is done by somebody.

`PROJECT.json` lists each hazard with its line and the properties that cover
it, or why none does.

## 2. Plan

Order of work: the engine and its compensation first (every other part either
feeds it or follows from it), then what follows a delivery (settlement, payout,
return, refund), then what comes before it (pricing, placement, payment), then
the machinery around all of them.

| Module | What | Composed with | Status |
|---|---|---|---|
| `OrderLifecycle` | abstract: what one order promises | implemented by `OrderWorkflow` | done |
| `OrderWorkflow` | engine, compensation, payment effects, jobs, cron, crashes | INSTANCEs `OrderLifecycle` | done |
| `OrderWorkflowProofs` | types, seven safety invariants, the implementation of `OrderLifecycle` | extends `OrderWorkflow`, TLAPS | done |
| `OrderReturn` | settlement, seller payout, return, pickup search, refund | continues a delivered order, INSTANCEs `ReturnMoney` | done |
| `ReturnMoney` | abstract: how a return moves the wallets | implemented by `OrderReturn` | done |
| `OrderReturnProofs` | types, three money invariants, the implementation of `ReturnMoney` | extends `OrderReturn`, TLAPS | done |
| `CheckoutPricing` | the amounts of a checkout | its result is what `Checkout` takes | done |
| `CheckoutPricingProofs` | types, the conservation of money, the sums over the sellers | extends `CheckoutPricing`, TLAPS | done |
| `Checkout` | idempotency keys, snapshot transaction, stock, wallet, coupon, cart | its end state is `Init` of `OrderWorkflow` and of `OnlinePayment`; INSTANCEs `AtomicCheckout` | done |
| `AtomicCheckout` | abstract: an order is placed in one step | implemented by `Checkout` | done |
| `CheckoutProofs` | types, one order per key, nothing taken twice, the implementation of `AtomicCheckout` | extends `Checkout`, TLAPS | done |
| `OnlinePayment` | attempts, `Payment` rows, webhooks, status checks over a checkout group | its effects on an order are `Capture` and `PaymentFailed` of `OrderWorkflow` | done |
| `OnlinePaymentProofs` | types and three invariants of rows, orders and gateway | extends `OnlinePayment`, TLAPS | done |
| `CashOnDelivery` | delivery codes, settlement of cash orders, cash in hand and its remittance | what `Deliver` of `OrderWorkflow` is for a cash order | done |
| `CashOnDeliveryProofs` | types, one settlement, the cash that is in hand | extends `CashOnDelivery`, TLAPS | done |
| `DistributedScheduler` | the lock of the cron jobs | justifies `Schedulers` of the engine and the return | done |
| `Notifications` | one announcement from call to phone | | done |
| `RedisKeysProofs` | types and overlap of the scheduler; types, one notification, what its status tells | extends `DistributedScheduler` and `Notifications`, TLAPS | done |
| `CustomerCart` | optimistic page, GET cache, local storage, cart endpoints | | done |
| `CustomerCartProofs` | types, the cart shown, the guest's cart | extends `CustomerCart`, TLAPS | done |
| `MCOrderWorkflow`, `MCOrderReturn`, `MCCheckout`, `MCCashOnDelivery`, `MCCheckoutPricing` | symmetry sets and inputs for TLC | extend the component | done |

The plan is done: every safety property that a run checks is also the statement
of a theorem (`TypeOK` of the runs included), and so are the three refinements.

## 3. How the models correspond to the code

### `OrderWorkflow`

* **State.**  The variables up to `version` are paths of the `Order` document
  under the names the code gives them (`ws` is `workflowStatus`, `captured` and
  `reversed` are `financeFlags.onlinePaymentCaptured` and
  `cancellationReversalApplied`).  A deadline is a Boolean: has it passed?  It
  turns TRUE by `SellerDeadline`, `SearchDeadline` or `ReservationDeadline`, and
  FALSE when a handler writes a new one.  `offer` is the `DeliveryAssignment`;
  `restocked`, `refunded` and `walletBack` count effects on the `Product`
  and `Wallet` documents; `gateway` is what the payment provider would answer;
  `jobs` is the set of delayed Bull jobs.  `windows` is the only history
  variable.
* **Handlers.**  A handler that is a single `findOneAndUpdate` is one action,
  guarded by the update's filter.  Any other is cut at the awaits between which
  another handler's write would matter: a *context* `c` is where it is
  suspended, `pc[c]` names the statement it resumes at, `seen[c]` and `who[c]`
  are the attempt and the rider it holds in local variables.
  `Workers` run API requests, webhooks and Bull jobs, `Schedulers` the cron job.
* **Transactions** (`Capture`, `PaymentFailed`,
  `ReverseOrderFinanceOnCancellation`) are one action each; the last may also
  abort (`ReversalFails`), which the code logs and swallows.
* **Queue.**  Adding or removing a job may fail silently (`AddJob`,
  `RemoveJob`), a job may be handed out early, late, again or never
  (`SellerTimeoutJob`, `DeliveryTimeoutJob`).  Job timing is thereby
  over-approximated: nothing relates a job to the clock.
* **Crash(c)** ends a handler between two statements.

### `OrderReturn`

Most of these handlers load a Mongoose document, change it and `save()` it.
`save()` writes only modified paths, and assigning an equal value modifies
nothing; that is what `Assign`, `Keep`, `Saved` and `Written` say.  A context
holds what it will write (`ret`, `boy`, `unset`) and what it remembers
(`attempt`, `payee`).  Only a save that assigns a whole array is checked
against the version key; `stale` is the set of contexts whose document is no
longer current (`Versioned`, `Bump`, `SaveVersioned`), which concerns
`createReturnRequest` and `approveReturn` only.  Pushing to `skippedBy`
increments the version without checking it (`SaveRefusal`, `SkipReturnPickup`).

`order` holds the return paths (`returnStatus`, `returnDeliveryBoy`,
`returnSearchExpiresAt`, `returnSearchMeta.attempt`) and the settlement paths
(`settlementStatus.sellerPayout` as `sp`, four `financeFlags`).  `payout` is the
seller's `Payout`, `wallet` counts movements, `receipt` is the unique reference
`RET-PICK-<order>`, `otp` says whether the latest pickup and drop codes are
usable.  `SettlementAborts` is the nested transaction: the payout commits, the
settlement around it does not.
The products' return window closes only while no request is being saved: a
request that was read goes on either way, and no other can be read afterwards.

### `OrderLifecycle`

An order in seven phases, its carrier, and how often goods and money moved.
`OrderWorkflow` maps `workflowStatus` to `phase` and reads the other four off
its own variables.

### `ReturnMoney`

The movements of a return: the seller's share is granted and paid out, the
customer asks, the refund happens and costs the seller the pending share, a debit
or, of a held share that was paid all the same, nothing.  `OrderReturn` maps the
counters of `wallet`, whether the payout is cancelled, and whether the order has
a `returnStatus`.

### `Checkout`

All requests are one customer's.  A request is a handler with one step per
awaited call: look up the answer under its key, take the lock, look for an order
placed under it, begin the transaction, and so on to the reply.  The
MongoDB transaction has a snapshot and a write conflict: what it reads is the
database as of its beginning, and when somebody commits a document that it
writes too, it becomes *dirty* and aborts instead of committing.  That is why an
oversold unit of stock is impossible although the check and the decrement are
separate statements.  `fund` has both records of the customer's money, the
`Wallet` row and its mirror `User.walletBalance`, with the seeding of the one
from the other.  At the start they are one of `Ledgers`: the row may be missing
or hold less than the mirror, as for a customer from before the `Wallet`
collection, or more, where only the row was credited and the mirror is stale
(`services/orderPlacementService.js:387-390`).  The fuller one is right, and is
what `Purse` names.  Order ids may collide (`Fault`), which is the only error the
code retries by itself.  A key used with another payload may be answered with a
422 (`OtherPayload`); the checksums themselves are left out.

Two switches matter.  `Canonical` is `WALLET_REDEMPTION_REDUCES_PAYABLE`.  It is
off by default; the run sets it, since without it the debit writes only
`User.walletBalance`, which the check does not read, and money can be spent
twice.  The theorems hold for both values: all but the wallet's part of
`NothingOverdrawn` and the purse's part of the refinement are independent of it.
`SERVER_SIDE_COUPON_ENGINE` is on, its default.  The comments there
(`services/orderPlacementService.js:663-667`,
`services/finance/couponService.js:313-316`) expect that an order may go through
over the coupon's limit, uncounted: the increment's own guard would let it.
`CouponWithinLimit` holds all the same.  Inside the transaction the guard sees
the snapshot that `computeOrderDiscount` checked, and two orders that both
increment the coupon conflict, so that the second starts anew, finds the limit
reached and is refused.  With the engine off the count is raised after the commit,
and the limit can be exceeded; the mutant of `NothingOverdrawn` is that order of
steps.  Three outside steps make the world move:
refunds credit the wallet, cancelled orders give stock back, the cart is filled
again.

### `AtomicCheckout`

The same shop without requests, keys in Redis, transactions or faults: `Place`
looks at the shelf, the cart, the coupon and the purse and takes from all of them
in one step.  `Checkout` maps its documents one to one, the fuller record of the
wallet being the purse and the stored results the confirmed keys.  One difference to a
single step is visible, and `TakeFromBasket` has it: a direct order whose
transaction saw an empty cart does not write the cart, so what the customer put
into it meanwhile stays there.  With `Canonical` on, that is the only document a
transaction reads, decides on and does not write; with it off the Wallet row is
another, and `Place` does not look at the purse.

### `CheckoutPricing`

`buildCheckoutPricingSnapshot` as the six passes it makes over the sellers'
breakdowns: lines, handling fee, rebate, tip, wallet, payable.  A pass whose
iterations depend on each other has one step per seller.  Amounts are whole
paise; a share is the nearest paisa, and either of the two on a tie, which is
what `toFixed(2)` of a floating-point product may give.  What it reads does not
change meanwhile: products and categories are read in the placement transaction;
the finance settings are read anew for each seller and outside of it
(`services/finance/pricingService.js:445`), and taken to stay the same.  A
missing category is a rule of zeros.  `tax` is 0 throughout, as in the code.

### `OnlinePayment`

`OrderWorkflow` takes the gateway's answer as given; here it races.  A handler
loads a `Payment` row, waits for the gateway, and saves later; `save()` writes
the status only if the handler changed it.  `hooks` are the webhooks the gateway
has still to deliver: one stays there until a handler answered it, and may reach
a second handler before.  The orders of the group are moved one by one, so that a
handler may die half-way.  The transactions of capture and failure are one step.

### `CashOnDelivery`

Cash orders, each of one of the `Riders`.  One action per transaction, and per
call outside one; a context is where a handler is suspended and what it planned,
and for which rider.  Three
entry points deliver (the rider's code, the status override, the settlement
endpoint), five book or remit cash.  `txns` are the legacy `Transaction` rows,
which hold gross amounts and on which `settle` of the admin works; `history`
counts settlements and bookings per order.  `ReconcileOrder` takes the rider that
the payload names, if it names one, before the order's
(`controller/orderFinanceController.js:304`); `history.mixed` are the riders
whose wallets such a call mixed up.

### `DistributedScheduler`

Time is discrete and passes only while no timer is due (`Tick`); a handler takes
as long as it likes.  The lock lives for two intervals, as the code sets it.
Reading the owner and deleting the lock are two steps.  `late` says of a run
that the lock expired under it, `stray` that a lock expired between the two.
Redis is there, though calls to it fail; configured without it, the code runs
every job of every instance.

### `Notifications`

One event, one user.  `claimed` is the dedupe key in Redis, `local` the table a
process falls back to.  A job is waiting, active, completed or failed; an active
one whose handler is slow counts as stalled and is handed out again.  `unsure`
collects the kinds of fault after which the code cannot tell what happened (an
expired key, a push that FCM made and answered with an error, a push that could
not be recorded because the write after it failed, a job that was added although
the call failed, a stalled handler that still runs): each conjunct of the
properties names those it does not survive.  A call of the database that fails
before the push leaves no doubt: the attempt fails, and is made again.  A call
ends "skipped" where the outer catch of `notify` took over, with the row not
created, or created and neither queued nor marked.

### `CustomerCart`

One tab, one account, one product.  A click changes what is shown, sends a
request, and its answer is taken over only when no other is pending.  The GET is
cached and shared among its callers (`dedupe.js`).  A cart is a sequence of
lines, since two concurrent additions can leave two lines of one product.
A request or its answer may get lost, and a call may break off while the request
is under way or the server at work on it (`BreaksOff`): the page then reloads the
cart, perhaps before the server's write.  `doubt` is on from an overlap, a GET or
clear that failed, such a broken call, a login or a reload until a change was
answered in peace; what is shown is compared with the server outside of it.

### Operators named `<definition>_<fault>`

Each is the definition that follows it with one plausible mistake (a dropped
filter, an off-by-one, a forgotten call).  No specification uses them; they
record which property catches which mistake (`"mutants"` in `PROJECT.json`).

## 4. Runs

### Passing

| Run | Bounds | Shows |
|---|---|---|
| `order_safety` | 2 riders, 2 workers, 1 scheduler, 2 attempts, 1 crash, 1 failed reversal | six safety invariants, and that every step is a step of `OrderLifecycle` or none |
| `order_live` | 1 rider, 1 worker, 1 scheduler, 3 attempts, 1 crash, 1 failed reversal | no order waits for ever for its seller, for a rider or for its payment, with every Bull job lost; the search is given up only after all its windows; goods of every cancelled order come back if no process dies |
| `return_safety` | 1 rider, 2 contexts that run requests and cron alike, 1 attempt, no automatic release, no pickup codes, 1 crash | the type invariant, the three money invariants, and that every step is a step of `ReturnMoney` or none, with every pair of handlers interleaved and one of them dying |
| `return_live` | 1 rider, 1 worker, 1 scheduler, 2 attempts, 1 pickup code, automatic release | a pickup search ends without Bull; a held payout is released when nobody returns the order |
| `checkout_pricing` | carts of 1 to 5 sellers, 3 distances, 3 discounts, 5 coupons, 3 tips, 4 wallet amounts, 3 sets of rules, 3 sets of settings | no pass loses money, handling is charged once, shares and payable amounts are right up to the rounding of tiny amounts |
| `checkout` | 2 requests, 1 key or none; a Wallet row that is missing, behind or ahead; 1 unit of stock, of wallet money and of coupon use; one each of refill, refund, cancellation, expired lock and fault | one order per key, nothing taken twice, every step a step of `AtomicCheckout` or none, and a client that keeps asking gets a final answer |
| `online_payment` | 2 orders in the group, 2 contexts, 2 attempts, 2 requests to start one, 1 status check, 1 crash | a capture is credited once and, without a crash, reaches every order; each record rests on an answer of the gateway; a cancelled order's goods are released once, and an order that reached its seller stays paid |
| `cash_on_delivery` | 2 orders of 2 riders in any distribution, 2 contexts, gross 2, commission 1, 1 try per code, 1 code per order and 1 request for one, 1 admin settlement, 1 fault | one settlement per order; each rider holds what his orders owe unless a reconciliation named the wrong rider, and all riders together never less than what all orders owe |
| `scheduler` | 2 instances, 3 runs, interval 1, 3 starts, 1 failure | runs overlap only after a lock expired; the job keeps running |
| `notifications` | 2 calls, 2 processes, 2 handlers, 1 token, 2 attempts, 1 stall, 2 faults | one notification per event, a status that tells whether a push was made, none pending for ever but for the two exceptions of `PendingResolved` |
| `customer_cart` | 2 requests on their way, 3 clicks, 1 failed or broken call, 2 logins, logouts or reloads | the page ends with the server's cart, and a guest's reload loses one change at most |

Why these bounds are enough to be interesting: two riders make an acceptance a
race, and a second worker makes it a race against the rest of a first
handler; the scheduler adds the timeout as a third party, so that three
handlers are in progress at once.  Two attempts give a search both an extension
and a giving-up, the third one (`order_live`) a stale attempt number that is
neither first nor last.  One crash is enough to lose a handler at each of its
statements.  In `OrderReturn` a single rider suffices for the money, none of
which depends on who the rider is.  In `checkout` every resource is scarce:
each can be had once, and the two records of the wallet differ in every way
they can.  In `online_payment` a group of two can be half moved, and
two attempts can both be paid.  In `cash_on_delivery` two orders let a remittance
stop half-way, and two riders let a reconciliation take one's cash for the
other's order; a single requested code is enough there, since the status handler and
the endpoint deliver the other order.  In `notifications` two faults let the mark
fail after the queue did, or a push go unrecorded after another failure; the
theorems are about any number of tokens.  Three runs on two instances let a run start between the two
calls that delete another's lock.  Three clicks with two requests let a click
come between an answer and the other answer.  The amounts of `checkout_pricing`
are a few paise, where rounding matters most; four sellers are the smallest cart
in which the last one's remainder can become negative, and five the smallest in
which more wallet money is divided than there is.

Symmetry: `order_safety` permutes riders and workers, `return_safety` riders and
contexts (there `Workers = Schedulers`, so that a permutation keeps both),
`cash_on_delivery` contexts and riders.  No handler compares two of them other than for
equality, and no liveness property is checked under symmetry.

The state counters (`restocked`, `refunded`, `wallet`, `version`, `credits`)
have no bound: each is bounded by what the guards allow.  The bounds that exist
are the constants called `Max...`, each commented "bound" where it is declared;
`MaxAttempts`, `MaxTries`, `MaxCodes`, `MaxStalled` and the attempts of
`Notifications` are limits of the code itself.

`CHECK_DEADLOCK FALSE` is set in all runs but `checkout_pricing`, whose
checkouts end in a step of their own (`Ended`): elsewhere a delivered or
cancelled order with no job left, or an answered request, has nothing more to do.

### Fairness

All of it is weak, unless said otherwise, and none of it is about customers,
sellers, riders or administrators wanting something.

* `OrderWorkflow`, `OrderReturn`: time passes; a handler in progress goes on (a
  process that dies is `Crash`); the cron jobs, which `index.js`
  (`startScheduler`) registers at start-up with intervals of ten seconds
  (auto-cancel) and a minute (release of held payouts) by default, keep looking
  at each of their queries.  Nothing is assumed of the gateway or of Bull.
* `Checkout`: handlers go on; a lock expires, as Redis sees to; a client
  that was told to wait, or got no answer, asks again.  The last
  is an assumption on the client, and `KeyedRequestResolved` is about such ones.
* `OnlinePayment`: handlers go on; a webhook is taken (strongly: at any time all
  contexts may be busy), because the gateway redelivers until it is answered.
* `DistributedScheduler`: time passes, due timers fire, runs go on.
* `Notifications`: calls and handlers go on, Bull hands out waiting jobs and
  checks for stalled ones.  Fairness of the stall check is only assumed where
  the handler that owns the job no longer works on it.
* `CustomerCart`: requests that were sent are served or fail, answers arrive,
  the browser's timer fires and a page that is leaving loads.

`CancelledOrderRestocked` and `CaptureReachesOrders` are stated for behaviours
without a crash because after one they are false: no handler takes up what died.

### Finding

| Run | The code says | It does |
|---|---|---|
| `late_capture` | cancellations do not keep the customer's money | a capture that arrives after the reversal stays with the platform |

`PROJECT.json` has the lines of both sides.

### Known weaknesses

What the models contain, and the properties therefore exclude or do not claim.
None of these is a run: each is a short path that reading the lines shows.

*Orders and returns.*
A reversal that crashed is never completed: every retry returns early, because
the order is cancelled already (`services/orderWorkflowService.js:489`).
The TTL index on the idempotency key's expiry deletes whole orders after 24
hours (`models/order.js:584`, set at `services/orderPlacementService.js:547`).
The pickup commission of a return is paid twice when its handler dies before it
writes the flag, the last of its three writes.
The second of two concurrent acceptances of a return pickup overwrites the
first.  A rejection can be saved over an approval.  The payout of a rejected
return stays on hold until an administrator or the batch job pays it.  A held
payout that the batch job paid (`services/finance/payoutService.js:129`) is
neither cancelled nor debited by a later refund
(`services/order/orderReturnService.js:527`).

*Placement and prices.*
An error cached by a request whose lock had expired is answered before the
result of the retry that placed the order.  The client app sends no
`Idempotency-Key`, so there a repeated submit is a second order.
With `WALLET_REDEMPTION_REDUCES_PAYABLE` off only `User.walletBalance` is
debited while the `Wallet` row is checked; with it on, the debit is what was
asked for (`services/orderPlacementService.js:606`) although the snapshot caps
what is deducted.  The debit's `$inc` also reaches the mirror: of a customer whose
`Wallet` row holds more than `User.walletBalance`, the drift that
`services/orderPlacementService.js:387-390` names, spending it takes
`User.walletBalance` below zero.  `NothingOverdrawn` keeps the row from that, and
says by how much the mirror stays behind.  One checkout of several sellers counts as several uses
against `perUserLimit`.  A discount sent by the client is used uncapped, and one
above the price of the goods gives negative totals: with the coupon engine off,
and also with the engine on when the request names no coupon
(`services/checkoutPricingService.js:404`), although the comment above it says
that customers cannot credit themselves a discount.  `SharesAddUp` (for the
wallet's shares) and `PayableNotNegative` therefore presuppose one that is not
above it.  `grossTotal` leaves out
the tip, although the comment at `services/checkoutPricingService.js:96` makes
it equal to the payable amount.  Discount shares have no remainder: the sum may
be off by half a paisa per seller.  With five or more sellers the tips of the
others, rounded up, can leave the last seller's total negative, and the wallet
pass then divides more than the customer offered: four orders of one paisa and a
fifth of nothing, with a tip of 2 and 5 of wallet money, redeem 8 and leave the
last order 2 below zero; `SharesAddUp` says by how much at most.  A manual stock adjustment reads and writes
in two statements (`controller/stockController.js`).

*Payment and cash.*
A failed payment cancels without giving redeemed wallet money back.  A status
check that saw a pending payment writes `CREATED` over the orders' `PAID`
(`services/paymentService.js:462`).  An attempt that fails after another was paid
writes `FAILED` and `CANCELLED` over the group's `PAID`
(`services/paymentService.js:334-346`), though the gateway captured the money and
the orders that were moved are with their sellers.  If it comes between the capture of an order (`services/paymentService.js:367`) and
its move to the seller (`:375`), or after a crash there, it cancels and restocks
that order too, as it looks at the workflow status alone (`:399-403`): the
customer has paid and gets nothing.  `FailureReleasesOnce` says when that window
is open, and `RecordsAgreeWithGateway` asks of each record only that some answer
of the gateway is behind it.  The webhook's event id falls back to the
transaction's, so that a second event of one transaction counts as a repetition.
A booking of cash that failed is not retried, although the log says so
(`services/orderSettlement.js:26`).  Concurrent settlements by administrators
may exceed the cash there is (`services/admin/cashService.js:204`).  A
reconciliation whose payload names a rider debits that one, whoever carried the
order (`controller/orderFinanceController.js:304-312`,
`validation/financeValidation.js:75-79`,
`services/finance/orderFinanceService.js:625`): his wallet falls short, clamped at
zero, and the order's rider keeps the cash on his.  Two guesses
of a delivery code made at once count as one.

*Notifications and cart.*
A dedupe key whose row could not be created suppresses the announcement until it
expires.  A write that fails after the push
(`modules/notifications/notification.worker.js:197`) makes Bull try again, and the
phone rings twice.  A row that could neither be queued nor marked as failed
(`modules/notifications/notification.service.js:303`) stays pending, as the outer
catch (`:328`) only logs.  A page that a first addition overtakes while it loads
after login shows a cart that is not the server's until the next answered change,
and so does one whose call broke off while the request was under way or the
server at work on it, or whose `clearCart` failed; a logout stores the account's cart as the guest's; two
concurrent additions leave two lines of one product.

## 5. Proofs

For every value of the constants.  The only assumptions are the named `ASSUME`s
of the modules: placeholders such as `NoRider`, `NoKey` and `NoRun` are not
members of the sets they stand in for; workers are not schedulers
(`OrderWorkflow` only); there is at least one order, one process, one instance
and one call where the module needs one; `Contexts` and `Riders` of
`CashOnDelivery` and `Calls` of `Notifications` are finite; of the two records of a
wallet at least one holds `InitialFunds`, and a row that is missing holds nothing
(`Checkout`); keys are not names of documents and the
wants of a request are among those the code distinguishes (`Checkout`);
`MaxAttempts` and intervals are positive, amounts, bounds and limits are natural
numbers, the requests, rules and settings of `CheckoutPricing` are of their types.

`OrderWorkflowProofs` proves `TypeOK`.  It is not inductive alone: a handler at
"extend" writes `seen[c] + 1`, which is in range only if what it read was below
the maximum.  `LocalsReady` adds that for each suspended handler.

It then proves seven invariants in five layers, each over the
layers before it:

| Invariant | Strengthening, and why it is needed |
|---|---|
| `StockInv` | a context in the compensation implies a cancelled order; at most one context is between "cancelled" and "release", and what it has done so far determines `restocked`: the guarded `CancelIf` lets one handler in, and the status never leaves CANCELLED |
| `PaymentInv` | an order that is not cancelled was not reversed, nothing was given back without `reversed`, and a handler about to move the order on has a committed capture behind it |
| `RiderInv` | the rider a suspended handler acts for is the order's rider; a handler about to write the progress belongs to an order that left with its rider |
| `DeadlineInv` | a timeout handler past its first read has a deadline that passed, and nothing sets that deadline anew from there |
| `SearchInv` | the attempts up to the one written, and up to the one a stale handler read, all had their window |

From `TypeInv`, `StockInv` and `PaymentInv` alone follows that the engine
implements the abstract order (`LifecycleImplemented`): every action is a step of
`OrderLifecycle`, or changes none of what it shows.  The two invariants are what
makes a stale handler harmless there: a handler that writes a later status finds
the order where the abstract step needs it, and goods and money move in one
abstract step each because their guards hold once.

Each `...Step` lemma has one step per action; the `...Quiet` and `...Cancel`
lemmas are the frames most actions fall under.

`OrderReturnProofs` proves `TypeOK` and the three money invariants from
`ReturnInv`.  Its only strengthening is `CancelledAfterSettlement`: a payout is
cancelled only by the refund, after the payout was queued, so that a repeated
settlement never creates a second one.  The frame lemmas say which variables a
handler that only starts, saves or crashes leaves alone.

With one more fact, that a settled order has a payout (`PayoutExists`), it follows
that the return implements `ReturnMoney` (`ReturnImplementsMoney`).  That says
more than the invariants: no single step pays the seller twice, or takes the
pending share and debits him, or refunds and pays out; and `returnStatus` never
goes back to "none" under a stale handler, so that every refund is of a return
that was asked for.  The lemmas follow the movements: most handlers fall under
`AskImplements`, since they save at most a `returnStatus`.

`CheckoutPricingProofs` proves that money is conserved by every step
(`MoneyAccountedFor`) from `IInv`: all amounts are whole numbers, the totals of a
seller's breakdown are those of its parts once the lines are gathered, tip and
wallet are zero before their passes.  One lemma per pass works on one breakdown;
one lemma per action lifts it to all sellers.

What the breakdowns add up to needs more.  `PricingInv` has three further parts:

| Part | What it says, and why it is needed |
|---|---|
| `SumsInv` | `GoodsInv`: the line loop has so far priced the first lines of the seller at hand, so that each subtotal is the price of its goods and a divisor of shares is what the model says it is.  `ChargesInv`: fees are natural numbers, and a discount is one of the two roundings of its share.  `WithinGoods`: the discount is at most the goods, unless the client alone chose it.  With them goes `HandlingChargedOnce` |
| `TipInv` | what the tip loop has given away so far is the sum of the tips written, each a rounding of its share, and all of it is given once the last seller took the rest |
| `WalletInv` | the same of the wallet loop, where each part is a rounding and no clamp bites as long as totals are not negative, and the last part is clamped to what that seller owes |

`SharesAddUp` and `PayableNotNegative` follow by bounding the deviations: each
rounding is off by half a paisa, and their sum by half a paisa per seller.  The
sums are folds of the community modules.  The lemmas at the front show that a
fold's recursive function exists, by induction over the size of its set as the
well-founded order of the naturals gives it, and then what it does when one
summand is added (`SumAdd`) or changes (`SumChange`) and when all are bounded
(`SumBetween`).

`CheckoutProofs` has two invariants over the types.  `KeyInv` is
`OneOrderPerKey` and: a transaction that is not dirty began when no order had its
key.  That holds because whoever places an order under the key writes the
document a second one writes too and so makes it dirty; Redis is not needed for
it, only for the truth of what is answered (`Truthful`), which `HandlersInv`
supports.  `FundsInv` says likewise that a transaction which is not dirty may
rely on what it read of stock, cart, coupon and wallet (`SnapshotInv`), from which the
supplies never fall below zero.  `SuppliesSufficeCorrect` is unconditional.
`NothingOverdrawnCorrect` adds the wallet where `Canonical` is on, for all
`Ledgers`: the ledger that is checked stays above zero, and the mirror stays
behind the purse by what it lagged at the start.  Without that switch the debit
writes only `User.walletBalance`, which the check does not read, and nothing is
left to prove.

`CheckoutIsAtomic` puts the two together: at the commit the key is free and
everything the snapshot was checked for still holds, so the commit is `Place` of
`AtomicCheckout`, taken then; everything a request does before or after it is
`Confirm` or does not show.  The invariants say what no sum of orders exceeds;
the refinement says that each order by itself took exactly what it asked for, of
documents that were so at that moment.

`OnlinePaymentProofs` proves its three invariants from `PaymentInv`.  The
gateway's final answers and an order's capture are never taken back; therefore
what a handler remembers of them is still so when it acts (`Truthful`), and the
orders it has passed in its loop are captured (`Progress`).  That is all there is
to say of a group with one paid and one failed attempt, where the last writer decides
what it reads; the theorem about released goods has to name the step at which a
captured order can still be cancelled.

`CashOnDeliveryProofs` proves the types, where a code's number stays in range
because the handlers about to create one are counted with those created, the
single settlement and the sums of cash: a handler about to remit has a plan that
takes something of its rider's orders, and each transaction changes the sum over
a rider's orders by what it books.  For riders that a reconciliation mixed up only
the sum over all riders can be kept, and only from below, since the debit is
clamped at zero.  Its lemmas about sums are those of the pricing, over orders.

`RedisKeysProofs` is about the two components in which processes keep apart by a
key that expires.  Their theorems are in one module, in which the definitions of
`DistributedScheduler` have to have names of their own.  For `Notifications` they
follow from `NotifyInv`, for each kind of fault that has
not happened: the dedupe key lets one call through (`DedupeInv`); an active
job has one handler, which holds its Bull lock (`LockInv`); nothing that may be
tried again has been pushed (`PushInv`), unless that could not be recorded; only a job that was not added is marked
so (`MarkInv`); a push is on record or its handler is about to record it
(`RecordInv`).  Each part needs those before it: a second handler on one job
would push what the first had pushed.

For `DistributedScheduler`, `OverlapOnlyAfterExpiry` follows from `OwnerInv`,
which adds two facts about a run that is not late: while it has the
lock, the key holds its name (`HolderOwns`), and when it is about to delete, what
it is about to delete is its own unless a lock expired in between
(`DeleterOwns`).  The property alone is not inductive, since it does not
say who owns the key while only one run works.

`CustomerCartProofs` first proves the types together with `CountInv`: the pending
count is the number of changes the page will still hear of, which is a statement
about cardinalities, one lemma per kind of step.  Without it an answer that finds
a count of one would not know that it is the last.  Over that come

| Invariant | What it says, and why it is needed |
|---|---|
| `AloneInv` | a change or a GET marked as alone has no other on its way beside it; it uses the count |
| `GetInv` | a GET sent alone and answered holds the server's lines, since nobody has written since |
| `PeaceInv` | without doubt, either one change is on its way alone, or nothing is but a GET that will read the cart as it is; if there is no such GET the page shows the server's lines, and the cache never holds others |

`ShownIsRight` is the last of them once nothing is pending.  `GuestKeepsTheCart`
needs none: every step of a guest that changes what is shown keeps what was shown
before, which the store holds at worst.

Only model-checked: the nine liveness properties, which depend on fairness and are
out of the prover's reach.

## 6. Not modelled, and why

* **Pages and forms.**  Of the repository's 130,000 lines 90,000 are web
  clients: layout, local form state, one request at a time.  The cart is the
  part in which several requests of one page race.  The back end's
  largest files are catalogue, account and directory controllers that read or
  write one document per request.  Modelling them would restate their
  assignments; the share of all lines that the models cover is therefore small
  (about 6 %), while they cover the services that keep orders, money and stock.
* **One order in the engine.**  Orders share products, wallets and riders only
  through increments; no handler of the engine reads another order.  The orders
  of one checkout meet in `OnlinePayment`, those of one rider in
  `CashOnDelivery`.
* **Amounts** are in `CheckoutPricing` and, as cash, in `CashOnDelivery`.
  Elsewhere movements are counted; the goods of an order move as a whole.
* **Retention.**  The TTL indexes are one step that deletes an order; see the
  known weaknesses.
* **Login codes** have the shape of delivery codes over a row nothing else
  reads.  `generateDeliveryOtp` and `validateDeliveryOtp` have no caller.
* **Administration**: statuses other than delivered in `updateOrderStatus`,
  which are written over any status without a condition; withdrawals, manual
  wallet and stock adjustments, finance statements and settings.
* **The legacy refund** of a return, `completeReturnAndRefundLegacy`
  (`controller/orderController.js:996-1155`), is an emergency path without a
  transaction, taken only where `TRANSACTIONAL_REFUND_ENABLED` is set to false.
  `OrderReturn` has the transaction, which is the default; its theorems say
  nothing of the other path.
* **The v1 flow** is for orders of `workflowVersion` 1 only; the settlement v2
  shares with it is in `CashOnDelivery`.
* **Documents nothing here reads back**: ledger rows, which follow a wallet in
  its transaction, `Transaction` and `CheckoutGroup` rows written by the
  compensation, sockets, broadcasts (of which only "a pickup was offered" is
  kept), photos, item selection, the rider's payout, tracking, search index.
* **Merged reads.**  `VerifyReturnDropOtp` loads the order and finds the code
  in one step; two queries of one cron run are two actions.  `SettleDeliveredOrder`
  is a transaction with its abort as a separate outcome.  The preview endpoint
  prices outside a transaction; `CheckoutPricing` has the placement's.
* **Assumptions on use.**  An administrator uses `updateReturnStatus` only on an
  order that has a return; the pickup commission is positive.
