------------------------------- MODULE Checkout -------------------------------
(***************************************************************************)
(* Placing an order: the idempotency keys of one customer in Redis, and    *)
(* the MongoDB transaction that takes the stock, the wallet money, the     *)
(* coupon and the cart.                                                    *)
(*                                                                         *)
(* A request is a handler with one step per awaited call that other        *)
(* handlers can observe.  The transaction has a snapshot: it begins, and   *)
(* it commits unless somebody wrote, since then, a document that it writes *)
(* too.  All requests are the same customer's, who contends with himself   *)
(* for wallet and cart and with every other customer for stock and coupon. *)
(* An order redeems one unit of wallet money and one use of the coupon.    *)
(*                                                                         *)
(* Operators named <definition>_<fault> are variants of the definition that *)
(* follows them with a plausible bug; no specification uses them.          *)
(***************************************************************************)
EXTENDS Integers

CONSTANTS
    Requests,       \* the HTTP requests to place an order
    Keys,           \* values of the Idempotency-Key header
    NoKey,          \* no such header
    Wants,          \* what a request may ask for: sets of "cart", "wallet", "coupon", "other"
    InitialStock,
    InitialFunds,   \* wallet money the customer starts with
    Ledgers,        \* the two records of it, at the start: Wallet row and User.walletBalance
    CouponLimit,    \* coupon.usageLimit
    Canonical,      \* WALLET_REDEMPTION_REDUCES_PAYABLE
    MaxAdds,        \* bound: goods put into the cart
    MaxCredits,     \* bound: refunds credited to the wallet
    MaxCancels,     \* bound: units of placed orders that are returned to the stock
    MaxExpiries,    \* bound: locks whose time to live runs out under their holder
    MaxFaults       \* bound: crashes, failing calls and id collisions

\* A key stands for the checkout group that is written under it, which is none of
\* the other documents.
ASSUME CheckoutKeysAssumption ==
    NoKey \notin Keys /\ Keys \cap {"stock", "cart", "user", "wallet", "coupon"} = {}
ASSUME CheckoutWantsAssumption == {} \in Wants /\ Wants \subseteq SUBSET {"cart", "wallet", "coupon", "other"}
ASSUME CheckoutFundsAssumption ==
    InitialStock \in Nat /\ InitialFunds \in Nat /\ CouponLimit \in Nat /\ Canonical \in BOOLEAN
\* The records may differ either way: the Wallet row of a customer from before the
\* Wallet collection is missing or holds less, and User.walletBalance is stale where
\* only the row was credited.  The fuller one is right.
ASSUME CheckoutLedgersAssumption ==
    \A l \in Ledgers : /\ l.row \in BOOLEAN /\ {l.wallet, l.user} \subseteq 0..InitialFunds
                       /\ InitialFunds \in {l.wallet, l.user}
                       /\ l.wallet # 0 => l.row
ASSUME CheckoutBoundAssumption ==
    /\ MaxAdds \in Nat /\ MaxCredits \in Nat /\ MaxCancels \in Nat
    /\ MaxExpiries \in Nat /\ MaxFaults \in Nat

VARIABLES
    lock, result, failure,  \* the keys in Redis under which there is such an entry
    stock, cart, coupon,    \* product.stock, the quantity in the cart, coupon.usedCount
    fund,                   \* the customer's Wallet row and User.walletBalance
    orders,                 \* the checkout groups
    tally,                  \* history: what was sold, restocked, spent, credited and added,
                            \* and how far User.walletBalance lagged behind at the start
    req,                    \* what each request asks for
    ctx,                    \* its handler
    dirty,                  \* open transactions whose snapshot is out of date
    expiries, faults

redis  == <<lock, result, failure>>
db     == <<stock, cart, coupon, fund, orders, tally>>
bounds == <<expiries, faults>>
vars   == <<redis, db, req, ctx, dirty, bounds>>

-----------------------------------------------------------------------------
\* A request: its key, and whether it carries no items and takes the cart's, and
\* uses wallet money and the coupon.  "other" goods are never short of stock.
Inputs == [key : Keys \cup {NoKey}, uses : Wants]

Labels == {"idle", "check", "lock", "find", "begin", "tx", "fail", "fail_unlock", "release",
           "refind", "store", "unlock", "done"}
Replies == {"none", "placed", "duplicate", "busy", "error", "lost"}
Documents == {"stock", "cart", "user", "wallet", "coupon"} \cup Keys

\* docs: what the open transaction writes; cause: why it was aborted; reply: the
\* answer the request will get.
Handlers == [pc : Labels, docs : SUBSET Documents, reply : Replies,
             cause : {"none", "final", "duplicate", "collision"}]

Fresh == [pc |-> "idle", docs |-> {}, cause |-> "none", reply |-> "none"]

Key(r)       == req[r].key
Keyed(r)     == Key(r) # NoKey
Uses(r, x)   == x \in req[r].uses
At(r, label) == ctx[r].pc = label

Goto(r, label)         == ctx' = [ctx EXCEPT ![r].pc = label]
Answer(r, reply)       == ctx' = [ctx EXCEPT ![r] = [Fresh EXCEPT !.pc = "done", !.reply = reply]]
Abort(r, label, cause) == ctx' = [ctx EXCEPT ![r] = [Fresh EXCEPT !.pc = label, !.cause = cause]]
\* The order exists: store the result, if there is a key, and answer.
Report(r, reply) ==
    IF Keyed(r) THEN ctx' = [ctx EXCEPT ![r] = [Fresh EXCEPT !.pc = "store", !.reply = reply]]
                ELSE Answer(r, reply)

\* Writing these documents makes the snapshots useless that other transactions
\* hold and mean to write them from.
Touch(docs) ==
    dirty' = {q \in Requests : ctx'[q].pc = "tx" /\ (q \in dirty \/ ctx'[q].docs \cap docs # {})}
\* A step of a handler outside its transaction.
Local == UNCHANGED <<db, req, dirty, bounds>>

PlacedUnder(k) == k # NoKey /\ \E o \in orders : o.key = k

-----------------------------------------------------------------------------
Init ==
    /\ lock = {} /\ result = {} /\ failure = {}
    /\ stock = InitialStock /\ cart = 0 /\ coupon = 0 /\ orders = {}
    /\ fund \in {[row |-> l.row, wallet |-> l.wallet, user |-> l.user, seeded |-> FALSE] : l \in Ledgers}
    /\ tally = [orders |-> 0, sold |-> 0, restocked |-> 0, spent |-> 0, credited |-> 0,
                redeemed |-> 0, added |-> 0, carted |-> 0, lag |-> InitialFunds - fund.user]
    /\ req = [r \in Requests |-> [key |-> NoKey, uses |-> {}]]
    /\ ctx = [r \in Requests |-> Fresh]
    /\ dirty = {} /\ expiries = 0 /\ faults = 0

Submit(r) ==
    /\ At(r, "idle")
    /\ \E input \in Inputs :
        /\ req' = [req EXCEPT ![r] = input]
        /\ Goto(r, IF input.key = NoKey THEN "begin" ELSE "check")
    /\ UNCHANGED <<redis, db, dirty, bounds>>

\* A client that was told to wait, or never heard of its request, sends it again.
Retry(r) ==
    /\ At(r, "done") /\ ctx[r].reply \in {"busy", "lost"} /\ Keyed(r)
    /\ ctx' = [ctx EXCEPT ![r] = [Fresh EXCEPT !.pc = "check"]]
    /\ UNCHANGED redis /\ Local

\* The key is also used with another payload, which may be the one that the stored
\* checksum is of.
OtherPayload(r) == \E q \in Requests : Key(q) = Key(r) /\ req[q].uses # req[r].uses

\* checkIdempotency: an error that was cached is looked at before a result.
Check(r) ==
    /\ At(r, "check")
    /\ IF Key(r) \in failure THEN Answer(r, "error")
       ELSE IF Key(r) \in result
            THEN Answer(r, "duplicate") \/ (OtherPayload(r) /\ Answer(r, "error"))
       ELSE IF Key(r) \in lock THEN Answer(r, "busy")
       ELSE Goto(r, "lock")
    /\ UNCHANGED redis /\ Local

\* acquireIdempotencyLock: SET NX EX.
Lock(r) ==
    /\ At(r, "lock")
    /\ IF Key(r) \in lock THEN Answer(r, "busy") ELSE Goto(r, "find")
    /\ lock' = lock \cup {Key(r)}
    /\ UNCHANGED <<result, failure>> /\ Local

\* findExistingCheckoutByIdempotency, outside the transaction.
FindExisting(r) ==
    /\ At(r, "find")
    /\ IF PlacedUnder(Key(r)) THEN Report(r, "duplicate") ELSE Goto(r, "begin")
    /\ UNCHANGED redis /\ Local

-----------------------------------------------------------------------------
(* The transaction.                                                        *)

\* getCustomerBalance: the Wallet row if there is one.
Balance == IF fund.row THEN fund.wallet ELSE fund.user
Quantity(r) == IF Uses(r, "cart") THEN cart ELSE 1
FromStock(r) == IF Uses(r, "other") THEN 0 ELSE Quantity(r)

\* The checks before anything is written.
Acceptable(r) ==
    /\ Uses(r, "wallet") => Balance >= 1
    /\ Uses(r, "cart") => cart > 0
    /\ Uses(r, "coupon") => coupon < CouponLimit

TxDocs_CouponAfterCommit(r) ==
    (IF Uses(r, "other") THEN {} ELSE {"stock"})
              \cup (IF cart > 0 THEN {"cart"} ELSE {})
              \cup (IF ~Uses(r, "wallet") THEN {} ELSE IF Canonical THEN {"user", "wallet"} ELSE {"user"})
              \cup ({Key(r)} \cap Keys)
TxDocs(r) ==
    (IF Uses(r, "other") THEN {} ELSE {"stock"})
              \cup (IF cart > 0 THEN {"cart"} ELSE {})
              \cup (IF ~Uses(r, "wallet") THEN {} ELSE IF Canonical THEN {"user", "wallet"} ELSE {"user"})
              \cup (IF Uses(r, "coupon") THEN {"coupon"} ELSE {})
              \cup ({Key(r)} \cap Keys)

\* The snapshot is taken and every condition evaluated on it: the group's unique
\* index on customer and key, the guarded decrement of the stock.  What fails in
\* there aborts the transaction.
Begin_NoUniqueIndex(r) ==
    /\ At(r, "begin")
    /\ IF Acceptable(r) /\ stock >= FromStock(r)
       THEN ctx' = [ctx EXCEPT ![r].pc = "tx", ![r].docs = TxDocs(r)]
       ELSE Abort(r, "fail", "final")
    /\ UNCHANGED <<redis, db, req, dirty, bounds>>
Begin(r) ==
    /\ At(r, "begin")
    /\ IF Acceptable(r) /\ ~PlacedUnder(Key(r)) /\ stock >= FromStock(r)
       THEN ctx' = [ctx EXCEPT ![r].pc = "tx", ![r].docs = TxDocs(r)]
       ELSE Abort(r, "fail",
                  IF Acceptable(r) /\ PlacedUnder(Key(r)) THEN "duplicate" ELSE "final")
    /\ UNCHANGED <<redis, db, req, dirty, bounds>>

\* seedCanonicalCustomerWalletFromUser: once, the Wallet row is raised to
\* User.walletBalance.
Seed == ~fund.seeded /\ fund.user > fund.wallet

\* debitWallet, after the seeding; without the switch only User.walletBalance is
\* written.
PayFromWallet ==
    IF Canonical
    THEN [row |-> TRUE, wallet |-> (IF Seed THEN fund.user ELSE fund.wallet) - 1,
          user |-> fund.user - 1, seeded |-> fund.seeded \/ Seed]
    ELSE [fund EXCEPT !.user = @ - 1]

\* consumeCartItems: a cart that was empty in the snapshot is not written, and a
\* direct order takes its line out of the cart.
CartAfter(r) == IF "cart" \in ctx[r].docs THEN cart - Quantity(r) ELSE cart

\* incrementCouponUsage.
CouponAfter(r) == IF Uses(r, "coupon") THEN coupon + 1 ELSE coupon

Placement(r) == [no |-> tally.orders, key |-> Key(r), qty |-> FromStock(r), cancelled |-> FALSE]

\* Everything the order takes, at once.
TakeEverything(r) ==
    /\ stock' = stock - FromStock(r)
    /\ orders' = orders \cup {Placement(r)}
    /\ cart' = CartAfter(r)
    /\ coupon' = CouponAfter(r)
    /\ fund' = IF Uses(r, "wallet") THEN PayFromWallet ELSE fund
    /\ tally' = [tally EXCEPT
            !.orders   = @ + 1,
            !.sold     = @ + FromStock(r),
            !.spent    = @ + (IF Uses(r, "wallet") THEN 1 ELSE 0),
            !.redeemed = @ + (IF Uses(r, "coupon") THEN 1 ELSE 0),
            !.carted   = @ + (IF Uses(r, "cart") THEN Quantity(r) ELSE 0)]

Commit_IgnoresConflicts(r) ==
    /\ At(r, "tx")
    /\ TakeEverything(r)
    /\ Report(r, "placed")
    /\ Touch(ctx[r].docs)
    /\ UNCHANGED <<redis, req, bounds>>
Commit(r) ==
    /\ At(r, "tx") /\ r \notin dirty
    /\ TakeEverything(r)
    /\ Report(r, "placed")
    /\ Touch(ctx[r].docs)
    /\ UNCHANGED <<redis, req, bounds>>

\* Another transaction writes, or has written, one of its documents first.  A
\* write conflict is not a retryable error for isRetryableError.
WriteConflict(r) ==
    /\ At(r, "tx")
    /\ \/ r \in dirty
       \/ \E q \in Requests \ {r} : At(q, "tx") /\ ctx[q].docs \cap ctx[r].docs # {}
    /\ Abort(r, "fail", "final")
    /\ Touch({})
    /\ UNCHANGED <<redis, db, req, bounds>>

-----------------------------------------------------------------------------
(* After the transaction.                                                  *)

\* storeIdempotencyResult: the result, then the lock, whoever holds it.
StoreResult(r) ==
    /\ At(r, "store")
    /\ result' = result \cup {Key(r)}
    /\ Goto(r, "unlock")
    /\ UNCHANGED <<lock, failure>> /\ Local

Unlock(r) ==
    /\ At(r, "unlock")
    /\ lock' = lock \ {Key(r)}
    /\ Answer(r, ctx[r].reply)
    /\ UNCHANGED <<result, failure>> /\ Local

\* storeIdempotencyError: likewise.
StoreError(r) ==
    /\ At(r, "fail")
    /\ failure' = failure \cup ({Key(r)} \cap Keys)
    /\ Goto(r, IF Keyed(r) THEN "fail_unlock" ELSE "refind")
    /\ UNCHANGED <<lock, result>> /\ Local

UnlockFailed(r) ==
    /\ At(r, "fail_unlock")
    /\ lock' = lock \ {Key(r)}
    /\ Goto(r, "refind")
    /\ UNCHANGED <<result, failure>> /\ Local

\* releaseIdempotencyLock, after a retryable error.
Release(r) ==
    /\ At(r, "release")
    /\ lock' = lock \ {Key(r)}
    /\ Answer(r, "error")
    /\ UNCHANGED <<result, failure>> /\ Local

\* A duplicate key: the order that is there, or the whole placement once more if
\* two orders drew the same public id.  Any other error is the answer.
FindDuplicate(r) ==
    /\ At(r, "refind")
    /\ IF ctx[r].cause = "final" THEN Answer(r, "error")
       ELSE IF PlacedUnder(Key(r)) THEN Report(r, "duplicate")
       ELSE IF ctx[r].cause = "collision"
            THEN ctx' = [ctx EXCEPT ![r] = [Fresh EXCEPT !.pc = IF Keyed(r) THEN "check" ELSE "begin"]]
       ELSE Answer(r, "error")
    /\ UNCHANGED redis /\ Local

-----------------------------------------------------------------------------
(* Failures.                                                               *)

Fault == faults < MaxFaults /\ faults' = faults + 1

\* In the transaction: an infrastructure error that is retryable or is not, or an
\* order id that was taken since it was drawn.
TxFails(r) ==
    /\ At(r, "tx") /\ Fault
    /\ \/ Abort(r, IF Keyed(r) THEN "release" ELSE "refind", IF Keyed(r) THEN "none" ELSE "final")
       \/ Abort(r, "fail", "final")
       \/ Abort(r, "fail", "collision")
    /\ Touch({})
    /\ UNCHANGED <<redis, db, req, expiries>>

\* Elsewhere a call that throws leaves the handler, and after the commit even
\* abortTransaction throws; the client gets a 500.  Or the process dies and the
\* client gets nothing.  Either way the lock stays.
Dies(r) ==
    /\ ctx[r].pc \notin {"idle", "done"} /\ Fault
    /\ \/ Answer(r, "lost")
       \/ ~At(r, "tx") /\ Answer(r, "error")
    /\ Touch({})
    /\ UNCHANGED <<redis, db, req, expiries>>

LockHeld(k) == \E r \in Requests : Key(r) = k /\ ctx[r].pc \notin {"idle", "check", "lock", "done"}

\* The lock's time to live ends, also while its holder still works.
LockExpires_NoTtl(k) ==
    /\ k \in lock /\ LockHeld(k) /\ expiries < MaxExpiries
    /\ expiries' = expiries + 1 /\ lock' = lock \ {k}
    /\ UNCHANGED <<result, failure, db, req, ctx, dirty, faults>>
LockExpires(k) ==
    /\ k \in lock
    /\ IF LockHeld(k) THEN expiries < MaxExpiries /\ expiries' = expiries + 1
                      ELSE UNCHANGED expiries
    /\ lock' = lock \ {k}
    /\ UNCHANGED <<result, failure, db, req, ctx, dirty, faults>>

-----------------------------------------------------------------------------
(* Other writers of the same documents.                                    *)

\* addToCart, updateQuantity: a save the version key refuses when checkout has
\* replaced the items in between.
AddToCart ==
    /\ tally.added < MaxAdds
    /\ cart' = cart + 1 /\ tally' = [tally EXCEPT !.added = @ + 1]
    /\ UNCHANGED <<redis, stock, coupon, fund, orders, req, ctx, bounds>>
    /\ Touch({"cart"})

\* releaseReservedStockForOrder of a placed order that is cancelled.
RestockCancelled(o) ==
    /\ o \in orders /\ ~o.cancelled /\ tally.restocked + o.qty <= MaxCancels
    /\ orders' = (orders \ {o}) \cup {[o EXCEPT !.cancelled = TRUE]}
    /\ stock' = stock + o.qty
    /\ tally' = [tally EXCEPT !.restocked = @ + o.qty]
    /\ UNCHANGED <<redis, cart, coupon, fund, req, ctx, bounds>>
    /\ Touch({"stock"})

\* creditWallet for a refund, mirrored to User.walletBalance.
WalletCredited ==
    /\ tally.credited < MaxCredits
    /\ fund' = [fund EXCEPT !.row = TRUE, !.wallet = @ + 1, !.user = @ + 1]
    /\ tally' = [tally EXCEPT !.credited = @ + 1]
    /\ UNCHANGED <<redis, stock, cart, coupon, orders, req, ctx, bounds>>
    /\ Touch({"wallet", "user"})

-----------------------------------------------------------------------------
Handler(r) ==
    \/ Check(r) \/ Lock(r) \/ FindExisting(r) \/ Begin(r) \/ Commit(r) \/ WriteConflict(r)
    \/ StoreResult(r) \/ Unlock(r) \/ StoreError(r) \/ UnlockFailed(r) \/ Release(r)
    \/ FindDuplicate(r)

Next ==
    \/ \E r \in Requests : Submit(r) \/ Retry(r) \/ Handler(r) \/ TxFails(r) \/ Dies(r)
    \/ \E k \in Keys : LockExpires(k)
    \/ AddToCart \/ WalletCredited
    \/ \E o \in orders : RestockCancelled(o)

Spec == Init /\ [][Next]_vars

\* A handler that does not die goes on, a lock expires, a client keeps asking.
FairSpec ==
    /\ Spec
    /\ \A r \in Requests : WF_vars(Handler(r)) /\ WF_vars(Retry(r))
    /\ \A k \in Keys : WF_vars(LockExpires(k))

-----------------------------------------------------------------------------
TypeOK ==
    /\ lock \subseteq Keys /\ result \subseteq Keys /\ failure \subseteq Keys
    /\ stock \in Int /\ cart \in Int /\ coupon \in Nat
    /\ fund \in [row : BOOLEAN, wallet : Int, user : Int, seeded : BOOLEAN]
    /\ \A o \in orders : o \in [no : Int, key : Keys \cup {NoKey}, qty : Int, cancelled : BOOLEAN]
    /\ tally \in [{"orders", "sold", "restocked", "spent", "credited", "redeemed", "added", "carted",
                 "lag"} -> Int]
    /\ req \in [Requests -> Inputs] /\ ctx \in [Requests -> Handlers]
    /\ dirty \subseteq {r \in Requests : At(r, "tx")}
    /\ expiries \in 0..MaxExpiries /\ faults \in 0..MaxFaults

\* However often a request with one key is sent, processed at once, or retried
\* after its lock expired or its handler died, one checkout group exists for it,
\* and whoever is told that the order is there is told the truth, by Redis too
\* (placeOrderAtomic, the unique index on customer and key).
OneOrderPerKey ==
    /\ \A o, p \in orders : o.key = p.key /\ o.key # NoKey => o = p
    /\ \A k \in result : PlacedUnder(k)
    /\ \A r \in Requests : Keyed(r) /\ ctx[r].reply \in {"placed", "duplicate"} => PlacedUnder(Key(r))

\* Concurrent checkouts and cancellations neither sell stock that is not there
\* nor lose any (reserveStockForItems inside the transaction).
StockNeverOversold ==
    stock >= 0 /\ stock = InitialStock - tally.sold + tally.restocked

\* What the customer owns: with the canonical wallet the fuller of the two records,
\* which seeding makes equal.
Purse == IF Canonical /\ fund.wallet > fund.user THEN fund.wallet ELSE fund.user

\* Orders are paid with wallet money that the customer had, once: the check reads
\* one ledger, the debit writes both, and concurrent orders and refunds are not
\* lost.  The ledger that is checked is never overdrawn.  User.walletBalance is not
\* checked and stays behind by what it lagged at the start: of a customer whose
\* Wallet row held more, spending it takes the mirror below zero
\* (getCustomerBalance, seedCanonicalCustomerWalletFromUser, debitWallet).
WalletCoversOrders ==
    /\ Balance >= 0 /\ fund.wallet >= 0
    /\ Purse = InitialFunds + tally.credited - tally.spent
    /\ fund.user = Purse - tally.lag

\* usageLimit is checked on a snapshot, and orders that pass the check together
\* must not all commit.  The guard of the increment itself would let an order
\* through without counting it; inside the transaction the guard sees the checked
\* snapshot, and the orders conflict on the coupon instead (computeOrderDiscount,
\* incrementCouponUsage).
CouponWithinLimit ==
    tally.redeemed <= CouponLimit /\ coupon = tally.redeemed

\* What was put into the cart is ordered from it at most once, however often the
\* cart is submitted (resolveOrderItemsInput, consumeCartItems).
CartOrderedOnce ==
    cart >= 0 /\ tally.carted + cart <= tally.added

\* Orders that are placed together take no more than there was of anything they
\* take: stock, wallet money, uses of the coupon, what is in the cart.  Each is
\* checked on the snapshot and written in the transaction, so two orders that
\* passed the same check must not both commit (placeOrderAtomic).
NothingOverdrawn ==
    StockNeverOversold /\ WalletCoversOrders /\ CouponWithinLimit /\ CartOrderedOnce

\* Checkout behaves as if every order were placed in one step: what a transaction
\* read from its snapshot, it could have read when it commits, so no interleaving of
\* orders, cancellations, refunds, expiring locks and faults shows in what is sold,
\* paid and promised (placeOrderAtomic).
Atomic == INSTANCE AtomicCheckout
    WITH shelf <- stock, basket <- cart, redeemed <- coupon, purse <- Purse,
         placed <- orders, number <- tally.orders, confirmed <- result
ImplementsAtomicCheckout == Atomic!Spec

\* A client that keeps sending its request with one key is not told to wait for
\* ever, even if the process that held the lock died.
KeyedRequestResolved ==
    \A r \in Requests :
        At(r, "check") ~> (At(r, "done") /\ ctx[r].reply \notin {"busy", "lost"})
=============================================================================
