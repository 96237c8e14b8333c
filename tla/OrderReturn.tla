----------------------------- MODULE OrderReturn -----------------------------
(***************************************************************************)
(* A delivered order: its settlement, the seller's payout that is held     *)
(* while the customer may return the goods, the return itself (request,    *)
(* approval, search for a pickup rider, two hand-overs with a one-time     *)
(* code, quality check) and the refund.                                    *)
(*                                                                         *)
(* Most handlers load the order as a Mongoose document, test it, and save  *)
(* it later.  save() writes only the paths the handler modified, and       *)
(* modifying a path means giving it another value than the one that was    *)
(* loaded.  A suspended handler is therefore a context that remembers what *)
(* it is going to write; Keep is a path it leaves alone.  Only a handler   *)
(* that assigns an array is refused by the version key when the document   *)
(* has moved on.  MongoDB transactions are one action: they write the      *)
(* order, so a conflicting one aborts.                                     *)
(*                                                                         *)
(* Operators named <definition>_<fault> are variants of the definition that *)
(* follows them with a plausible bug; no specification uses them.          *)
(*                                                                         *)
(* Amounts are abstracted to how often each movement was made.             *)
(***************************************************************************)
EXTENDS Naturals

CONSTANTS
    Riders,
    NoRider,        \* returnDeliveryBoy: null
    Keep,           \* a path of the document that a handler does not modify
    Workers,        \* contexts running API requests and Bull jobs
    Schedulers,     \* contexts running cron jobs; one process may be both
    MaxAttempts,    \* RETURN_PICKUP_SEARCH_MAX_ATTEMPTS
    AutoRelease,    \* AUTO_RELEASE_SELLER_PAYOUT
    MaxPickupOtps,  \* bound: pickup codes that are generated
    MaxCrashes      \* bound: contexts that die in the middle of a handler

ASSUME ReturnRidersAssumption ==
    NoRider \notin Riders /\ Keep \notin Riders /\ Keep # NoRider
ASSUME ReturnAttemptsAssumption == MaxAttempts \in Nat \ {0}
ASSUME ReturnSwitchAssumption   == AutoRelease \in BOOLEAN
ASSUME ReturnBoundAssumption    == MaxPickupOtps \in Nat /\ MaxCrashes \in Nat

VARIABLES
    order,      \* the return and settlement paths of the Order document
    payout,     \* status of the seller's Payout document
    wallet,     \* movements on the wallets, counted
    receipt,    \* the Transaction "RET-PICK-<order>" exists
    otp,        \* OrderOtp: the latest code of each type can still be used
    offered,    \* a return pickup was broadcast to the riders
    closed,     \* returnWindowExpiresAt <= now
    returnable, \* the products' own return window is still open
    ctx,        \* the handlers in progress
    stale,      \* contexts whose document's version key is no longer current
    otps, crashes

money  == <<payout, wallet, receipt>>
clock  == <<closed, returnable>>
bounds == <<otps, crashes>>
vars   == <<order, money, otp, offered, clock, ctx, stale, bounds>>

-----------------------------------------------------------------------------
Contexts == Workers \cup Schedulers

ReturnStatuses ==
    {"none", "return_requested", "return_approved", "return_rejected",
     "return_pickup_assigned", "return_in_transit", "return_drop_pending",
     "returned", "qc_passed", "qc_failed", "refund_completed"}

\* attempt is returnSearchMeta.attempt, which reads as its default of 1 when it
\* is not set; expiry is returnSearchExpiresAt seen from now.
Orders ==
    [ret     : ReturnStatuses,
     boy     : Riders \cup {NoRider},
     expiry  : {"unset", "open", "past"},
     attempt : 1..MaxAttempts,
     sp      : {"PENDING", "HOLD", "COMPLETED", "CANCELLED"},
     held    : BOOLEAN,   \* financeFlags.sellerPayoutHeld
     queued  : BOOLEAN,   \* financeFlags.sellerPayoutQueued
     settled : BOOLEAN,   \* financeFlags.deliveredSettlementApplied
     paid    : BOOLEAN]   \* financeFlags.returnPickupCommissionPaid

\* The statements a suspended handler resumes at.
Resumptions ==
    {"request", "approve", "save", "assign", "broadcast", "accept", "refuse",
     "timeout", "pickup_otp", "picked", "credit", "record", "flag", "drop_otp", "drop",
     "qc_passed", "qc_failed", "refund", "free", "release"}

\* What a handler remembers: the paths it will write, and
\* the search attempt it read or the rider it will pay.
Idle == [pc |-> "idle", ret |-> Keep, boy |-> Keep, unset |-> {},
         attempt |-> 0, payee |-> NoRider]

Handlers ==
    [pc      : Resumptions \cup {"idle"},
     ret     : (ReturnStatuses \ {"none", "refund_completed"}) \cup {Keep},
     boy     : Riders \cup {NoRider, Keep},
     unset   : SUBSET {"expiry", "meta"},
     attempt : 0..MaxAttempts,
     payee   : Riders \cup {NoRider}]

Free(c)      == ctx[c] = Idle
At(c, label) == ctx[c].pc = label

Begin(c, h)    == ctx' = [ctx EXCEPT ![c] = h]
Goto(c, label) == ctx' = [ctx EXCEPT ![c].pc = label]
Done(c)        == Begin(c, Idle)

\* Assigning value to a path that was loaded as old modifies it or not.
Assign(old, value) == IF old = value THEN Keep ELSE value
Written(update, old) == IF update = Keep THEN old ELSE update

\* save() without a version check: the modified paths, over whatever is there.
Saved(c) ==
    [order EXCEPT
        !.ret     = Written(ctx[c].ret, @),
        !.boy     = Written(ctx[c].boy, @),
        !.expiry  = IF "expiry" \in ctx[c].unset THEN "unset" ELSE @,
        !.attempt = IF "meta" \in ctx[c].unset THEN 1 ELSE @]

\* Setting returnSearchExpiresAt to undefined modifies it if it was there.
\* returnSearchMeta is always there when the order is loaded, by its defaults.
UnsetExpiry == IF order.expiry = "unset" THEN {} ELSE {"expiry"}

\* A write that increments the version makes the documents stale that other
\* handlers have loaded and will save with a version check.
Versioned == {"request", "approve"}
Bump      == stale' = {c \in Contexts : ctx'[c].pc \in Versioned}
Fresh(c)  == c \notin stale

-----------------------------------------------------------------------------
(* The order is delivered and not settled yet.                             *)
Init ==
    /\ order = [ret |-> "none", boy |-> NoRider, expiry |-> "unset", attempt |-> 1,
                sp |-> "PENDING", held |-> FALSE, queued |-> FALSE,
                settled |-> FALSE, paid |-> FALSE]
    /\ payout = "none"
    /\ wallet = [pending |-> 0, available |-> 0, debits |-> 0, refunds |-> 0,
                 commissions |-> 0]
    /\ receipt = FALSE
    /\ otp = [pickup |-> FALSE, drop |-> FALSE]
    /\ offered = FALSE
    /\ closed = FALSE
    /\ returnable = TRUE
    /\ ctx = [c \in Contexts |-> Idle]
    /\ stale = {}
    /\ otps = 0
    /\ crashes = 0

-----------------------------------------------------------------------------
(* Settlement and payout.                                                  *)

CreatesPayout == ~order.queued /\ payout \in {"none", "CANCELLED"}

CreatePendingPayoutForOrder_Unchecked ==
    IF ~order.queued
    THEN /\ payout' = "PENDING"
         /\ wallet' = [wallet EXCEPT !.pending = @ + 1]
    ELSE UNCHANGED <<payout, wallet>>

\* createPendingPayoutForOrder: its own transaction, whatever session the
\* caller hands over.  An existing payout that is not cancelled is returned.
CreatePendingPayoutForOrder ==
    IF CreatesPayout
    THEN /\ payout' = "PENDING"
         /\ wallet' = [wallet EXCEPT !.pending = @ + 1]
    ELSE UNCHANGED <<payout, wallet>>

\* settleDeliveredOrder: the payout is created, and held while the return
\* window is open.  It may be called again for an order whose settlement failed.
SettleDeliveredOrder ==
    /\ ~order.settled
    /\ CreatePendingPayoutForOrder
    /\ order' = [order EXCEPT
                    !.sp = IF ~closed THEN "HOLD"
                           ELSE IF order.queued THEN @ ELSE "PENDING",
                    !.held = IF closed THEN @ ELSE TRUE,
                    !.queued = TRUE,
                    !.settled = TRUE]
    /\ UNCHANGED <<receipt, otp, offered, clock, ctx, stale, bounds>>

\* The outer transaction aborts after the inner one committed.
SettlementAborts ==
    /\ ~order.settled
    /\ CreatesPayout
    /\ CreatePendingPayoutForOrder
    /\ UNCHANGED <<order, receipt, otp, offered, clock, ctx, stale, bounds>>

\* processPayout: pending becomes available; sellerPayoutHeld is left alone.
ProcessPayout ==
    /\ payout = "PENDING"
    /\ payout' = "COMPLETED"
    /\ wallet' = [wallet EXCEPT !.pending = @ - 1, !.available = @ + 1]
    /\ order' = [order EXCEPT !.sp = "COMPLETED", !.queued = TRUE]

\* bulkProcessPayouts, by the batch job or an admin: takes no notice of a hold.
BulkProcessPayouts ==
    /\ ProcessPayout
    /\ UNCHANGED <<receipt, otp, offered, clock, ctx, stale, bounds>>

\* Put the payout back from HOLD to PENDING, for an admin to pay.
Unhold == order' = [order EXCEPT !.sp = "PENDING", !.held = FALSE]

ReleaseRead_Pending(c) ==
    /\ Free(c)
    /\ closed /\ order.ret = "none" /\ order.sp = "PENDING"
    /\ Begin(c, [Idle EXCEPT !.pc = "release"])
    /\ UNCHANGED <<order, money, otp, offered, clock, stale, bounds>>

\* releaseExpiredSellerHolds: select the order as a candidate ...
ReleaseRead(c) ==
    /\ Free(c)
    /\ closed /\ order.ret = "none" /\ order.sp = "HOLD"
    /\ Begin(c, [Idle EXCEPT !.pc = "release"])
    /\ UNCHANGED <<order, money, otp, offered, clock, stale, bounds>>

\* ... then pay its payout if there is a pending one.
Release(c) ==
    /\ At(c, "release")
    /\ \/ payout = "PENDING" /\ AutoRelease /\ ProcessPayout
       \/ payout = "PENDING" /\ ~AutoRelease /\ Unhold /\ UNCHANGED <<payout, wallet>>
       \/ payout # "PENDING" /\ UNCHANGED <<order, payout, wallet>>
    /\ Done(c)
    /\ UNCHANGED <<receipt, otp, offered, clock, stale, bounds>>

-----------------------------------------------------------------------------
(* The customer asks, the seller or an admin decides.                      *)

\* createReturnRequest and approveReturn assign arrays to the document, so
\* their save is refused when the version key has moved on.
SaveVersioned(c) ==
    /\ Done(c)
    /\ \/ Fresh(c) /\ order' = Saved(c) /\ Bump
       \/ ~Fresh(c) /\ stale' = stale \ {c} /\ UNCHANGED order

RequestReturn(c) ==
    /\ Free(c)
    /\ order.ret = "none" /\ returnable
    /\ Begin(c, [Idle EXCEPT !.pc = "request", !.ret = "return_requested"])
    /\ UNCHANGED <<order, money, otp, offered, clock, stale, bounds>>

SaveRequest(c) ==
    /\ At(c, "request")
    /\ SaveVersioned(c)
    /\ UNCHANGED <<money, otp, offered, clock, bounds>>

\* returnDeliveryBoy is not set before the approval or the first assignment:
\* null is then another value.
AssignRider(r) ==
    IF order.ret = "return_requested" THEN r ELSE Assign(order.boy, r)

ApproveReturn(c) ==
    /\ Free(c)
    /\ order.ret = "return_requested"
    /\ Begin(c, [Idle EXCEPT !.pc = "approve", !.ret = "return_approved",
                             !.boy = AssignRider(NoRider)])
    /\ UNCHANGED <<order, money, otp, offered, clock, stale, bounds>>

\* The approval is broadcast to the riders at once.
SaveApproval(c) ==
    /\ At(c, "approve")
    /\ SaveVersioned(c)
    /\ offered' = (offered \/ Fresh(c))
    /\ UNCHANGED <<money, otp, clock, bounds>>

RejectReturn(c) ==
    /\ Free(c)
    /\ order.ret = "return_requested"
    /\ Begin(c, [Idle EXCEPT !.pc = "save", !.ret = "return_rejected"])
    /\ UNCHANGED <<order, money, otp, offered, clock, stale, bounds>>

\* The save of every handler that ends with an unversioned one.
SaveOrder(c) ==
    /\ ctx[c].pc \in {"save", "accept"}
    /\ order' = Saved(c)
    /\ Done(c)
    /\ UNCHANGED <<money, otp, offered, clock, stale, bounds>>

-----------------------------------------------------------------------------
(* Finding a rider for the pickup.                                         *)

Unclaimed == order.ret = "return_pickup_assigned" /\ order.boy = NoRider

\* assignReturnDelivery to a rider, or to nobody: then it is broadcast.
AssignReturnDelivery(c) ==
    /\ Free(c)
    /\ order.ret \in {"return_requested", "return_approved"}
    /\ \E r \in Riders \cup {NoRider} :
          Begin(c, [Idle EXCEPT !.pc = IF r = NoRider THEN "assign" ELSE "save",
                                !.ret = "return_pickup_assigned",
                                !.boy = AssignRider(r)])
    /\ UNCHANGED <<order, money, otp, offered, clock, stale, bounds>>

SaveAssignment(c) ==
    /\ At(c, "assign")
    /\ order' = Saved(c)
    /\ Begin(c, [Idle EXCEPT !.pc = "broadcast"])
    /\ UNCHANGED <<money, otp, offered, clock, stale, bounds>>

\* startReturnPickupBroadcast: opens the first window unless a rider came first.
StartReturnPickupBroadcast(c) ==
    /\ At(c, "broadcast")
    /\ \/ /\ Unclaimed
          /\ order' = [order EXCEPT !.expiry = "open", !.attempt = 1]
          /\ offered' = TRUE
       \/ ~Unclaimed /\ UNCHANGED <<order, offered>>
    /\ Done(c)
    /\ UNCHANGED <<money, otp, clock, stale, bounds>>

\* acceptReturnPickup by rider r, to whom the pickup was offered.  It tests who
\* has the pickup, not the status of the return.
AcceptReturnPickup(c, r) ==
    /\ Free(c)
    /\ offered /\ order.boy = NoRider
    /\ Begin(c, [Idle EXCEPT !.pc = "accept",
                             !.ret = Assign(order.ret, "return_pickup_assigned"),
                             !.boy = r,
                             !.unset = UnsetExpiry])
    /\ UNCHANGED <<order, money, otp, offered, clock, stale, bounds>>

\* rejectReturnPickup by the rider who has it ...
RejectReturnPickup(c) ==
    /\ Free(c)
    /\ order.boy # NoRider /\ order.ret = "return_pickup_assigned"
    /\ Begin(c, [Idle EXCEPT !.pc = "refuse", !.ret = "return_approved",
                             !.boy = NoRider, !.unset = UnsetExpiry \cup {"meta"}])
    /\ UNCHANGED <<order, money, otp, offered, clock, stale, bounds>>

\* The rider joins skippedBy, unless he is in it already.
SaveRefusal(c) ==
    /\ At(c, "refuse")
    /\ order' = Saved(c)
    /\ Done(c)
    /\ Bump \/ UNCHANGED stale
    /\ UNCHANGED <<money, otp, offered, clock, bounds>>

\* ... by another one it only extends skippedBy, which increments the version.
SkipReturnPickup ==
    /\ offered /\ order.boy = NoRider
    /\ UNCHANGED <<order, money, otp, offered, clock, ctx, bounds>>
    /\ Bump

\* processReturnPickupTimeoutJob reads the order: from the cron job's query ...
TimeoutRead(c) ==
    /\ Free(c)
    /\ Unclaimed /\ order.expiry = "past"
    /\ Begin(c, [Idle EXCEPT !.pc = "timeout", !.attempt = order.attempt])
    /\ UNCHANGED <<order, money, otp, offered, clock, stale, bounds>>

\* ... or for a Bull job, which may be handed out late, twice or never, and
\* finds no deadline while the search is not open yet.
BullTimeoutRead(c) ==
    /\ Free(c)
    /\ offered /\ Unclaimed /\ order.expiry # "open"
    /\ Begin(c, [Idle EXCEPT !.pc = "timeout", !.attempt = order.attempt])
    /\ UNCHANGED <<order, money, otp, offered, clock, stale, bounds>>

PickupTimeout_Endless(c) ==
    /\ At(c, "timeout")
    /\ \/ Unclaimed /\ order' = [order EXCEPT !.expiry = "open"]
       \/ ~Unclaimed /\ UNCHANGED order
    /\ Done(c)
    /\ UNCHANGED <<money, otp, offered, clock, stale, bounds>>

PickupTimeout_NoMaximum(c) ==
    /\ At(c, "timeout")
    /\ \/ Unclaimed /\ order' = [order EXCEPT !.expiry = "open", !.attempt = ctx[c].attempt + 1]
       \/ ~Unclaimed /\ UNCHANGED order
    /\ Done(c)
    /\ UNCHANGED <<money, otp, offered, clock, stale, bounds>>

\* The next window of the search, or back to the seller after the last one.
\* The update tests the status and the rider, not the attempt or the deadline.
PickupTimeout(c) ==
    /\ At(c, "timeout")
    /\ \/ /\ Unclaimed /\ ctx[c].attempt < MaxAttempts
          /\ order' = [order EXCEPT !.expiry = "open", !.attempt = ctx[c].attempt + 1]
       \/ /\ Unclaimed /\ ctx[c].attempt = MaxAttempts
          /\ order' = [order EXCEPT !.ret = "return_approved", !.expiry = "unset",
                                    !.attempt = 1]
       \/ ~Unclaimed /\ UNCHANGED order
    /\ Done(c)
    /\ UNCHANGED <<money, otp, offered, clock, stale, bounds>>

-----------------------------------------------------------------------------
(* The hand-overs.                                                         *)

RequestReturnPickupOtp ==
    /\ otps < MaxPickupOtps
    /\ order.ret = "return_pickup_assigned"
    /\ otp' = [otp EXCEPT !.pickup = TRUE]
    /\ otps' = otps + 1
    /\ UNCHANGED <<order, money, offered, clock, ctx, stale, crashes>>

\* A code expires, or too many wrong ones were entered.
OtpDies ==
    /\ \E type \in {"pickup", "drop"} :
          otp[type] /\ otp' = [otp EXCEPT ![type] = FALSE]
    /\ UNCHANGED <<order, money, offered, clock, ctx, stale, bounds>>

\* verifyReturnPickupOtp: the code is read and matches; it is marked as used and
\* the order is loaded; the order is saved; the rider is paid in the background
\* if the loaded order says he was not.
VerifyReturnPickupOtp(c) ==
    /\ Free(c)
    /\ otp.pickup
    /\ Begin(c, [Idle EXCEPT !.pc = "pickup_otp"])
    /\ UNCHANGED <<order, money, otp, offered, clock, stale, bounds>>

ConsumePickupOtp(c) ==
    /\ At(c, "pickup_otp")
    /\ otp' = [otp EXCEPT !.pickup = FALSE]
    /\ Begin(c, [Idle EXCEPT !.pc = "picked",
                             !.ret = Assign(order.ret, "return_in_transit"),
                             !.payee = IF order.paid THEN NoRider ELSE order.boy])
    /\ UNCHANGED <<order, money, offered, clock, stale, bounds>>

SavePickup(c) ==
    /\ At(c, "picked")
    /\ order' = Saved(c)
    /\ IF ctx[c].payee = NoRider
       THEN Done(c)
       ELSE Begin(c, [Idle EXCEPT !.pc = "credit", !.payee = ctx[c].payee])
    /\ UNCHANGED <<money, otp, offered, clock, stale, bounds>>

\* creditWallet is called without an idempotency key ...
CreditCommission(c) ==
    /\ At(c, "credit")
    /\ wallet' = [wallet EXCEPT !.commissions = @ + 1]
    /\ Goto(c, "record")
    /\ UNCHANGED <<order, payout, receipt, otp, offered, clock, stale, bounds>>

\* ... the Transaction has a unique reference: a second one throws ...
RecordCommission(c) ==
    /\ At(c, "record")
    /\ receipt' = TRUE
    /\ IF receipt THEN Done(c) ELSE Goto(c, "flag")
    /\ UNCHANGED <<order, payout, wallet, otp, offered, clock, stale, bounds>>

\* ... and the flag comes last.
FlagCommission(c) ==
    /\ At(c, "flag")
    /\ order' = [order EXCEPT !.paid = TRUE]
    /\ Done(c)
    /\ UNCHANGED <<money, otp, offered, clock, stale, bounds>>

\* requestReturnDropOtp by the pickup's rider: a code for the seller ...
RequestReturnDropOtp(c) ==
    /\ Free(c)
    /\ order.boy # NoRider
    /\ order.ret \in {"return_in_transit", "return_drop_pending"}
    /\ otp' = [otp EXCEPT !.drop = TRUE]
    /\ Begin(c, [Idle EXCEPT !.pc = "drop_otp"])
    /\ UNCHANGED <<order, money, offered, clock, stale, bounds>>

\* ... and an updateOne of the status without a condition on it.
SaveDropPending(c) ==
    /\ At(c, "drop_otp")
    /\ order' = [order EXCEPT !.ret = "return_drop_pending"]
    /\ Done(c)
    /\ UNCHANGED <<money, otp, offered, clock, stale, bounds>>

\* verifyReturnDropOtp: the order is loaded and the code matches ...
VerifyReturnDropOtp(c) ==
    /\ Free(c)
    /\ order.boy # NoRider /\ otp.drop
    /\ Begin(c, [Idle EXCEPT !.pc = "drop", !.ret = Assign(order.ret, "returned")])
    /\ UNCHANGED <<order, money, otp, offered, clock, stale, bounds>>

\* ... it is marked as used, and the order saved.
SaveDrop(c) ==
    /\ At(c, "drop")
    /\ otp' = [otp EXCEPT !.drop = FALSE]
    /\ order' = Saved(c)
    /\ Done(c)
    /\ UNCHANGED <<money, offered, clock, stale, bounds>>

\* The order updateReturnStatus puts the statuses in; those it does not name
\* come before all others.
OrderOf(s) == CASE s = "return_pickup_assigned" -> 1
                [] s = "return_in_transit"      -> 2
                [] s = "returned"               -> 3
                [] OTHER                        -> 0

\* updateReturnStatus by the pickup's rider, or by an admin, who is assumed to
\* use it on a return only.
UpdateReturnStatus(c) ==
    /\ Free(c)
    /\ order.ret # "none"
    /\ \E s \in {"return_pickup_assigned", "return_in_transit", "returned"} :
          /\ OrderOf(s) >= OrderOf(order.ret)
          /\ Begin(c, [Idle EXCEPT !.pc = "save", !.ret = Assign(order.ret, s)])
    /\ UNCHANGED <<order, money, otp, offered, clock, stale, bounds>>

-----------------------------------------------------------------------------
(* Quality check and refund.                                               *)

\* updateReturnQcStatus loads a returned order ...
QualityCheck(c) ==
    /\ Free(c)
    /\ order.ret = "returned"
    /\ \E verdict \in {"qc_passed", "qc_failed"} :
          Begin(c, [Idle EXCEPT !.pc = verdict, !.ret = verdict])
    /\ UNCHANGED <<order, money, otp, offered, clock, stale, bounds>>

\* ... saves the verdict, and goes on to the refund or to the seller's payout.
SaveVerdict(c) ==
    /\ ctx[c].pc \in {"qc_passed", "qc_failed"}
    /\ order' = Saved(c)
    /\ Begin(c, [Idle EXCEPT !.pc = IF At(c, "qc_passed") THEN "refund" ELSE "free"])
    /\ UNCHANGED <<money, otp, offered, clock, stale, bounds>>

\* The seller's side of the refund: a held payout is cancelled if it is still
\* pending, otherwise the seller's wallet is debited.
IsHeld == order.sp = "HOLD" \/ order.held
Cancels == IsHeld /\ payout = "PENDING"
Debits_PaidOnly == ~IsHeld /\ payout = "COMPLETED"
Debits  == ~IsHeld

\* The rider is paid here unless he was when he fetched the goods.
PaysRider == order.boy # NoRider /\ ~order.paid

Refunded ==
    /\ payout' = IF Cancels THEN "CANCELLED" ELSE payout
    /\ wallet' = [wallet EXCEPT
                    !.refunds = @ + 1,
                    !.pending = IF Cancels THEN @ - 1 ELSE @,
                    !.debits = IF Debits THEN @ + 1 ELSE @,
                    !.commissions = IF PaysRider THEN @ + 1 ELSE @]
    /\ order' = [order EXCEPT
                    !.ret = "refund_completed",
                    !.sp = IF Cancels THEN "CANCELLED" ELSE @,
                    !.held = IF Cancels THEN FALSE ELSE @]

CompleteReturnAndRefund_NoReference(c) ==
    /\ At(c, "refund")
    /\ IF order.ret = "qc_passed" THEN Refunded ELSE UNCHANGED <<order, payout, wallet>>
    /\ Done(c)
    /\ UNCHANGED <<receipt, otp, offered, clock, stale, bounds>>

CompleteReturnAndRefund_DebitsHeld(c) ==
    /\ At(c, "refund")
    /\ \/ /\ order.ret = "qc_passed" /\ wallet.refunds = 0
          /\ payout' = IF Cancels THEN "CANCELLED" ELSE payout
          /\ wallet' = [wallet EXCEPT !.refunds = @ + 1, !.debits = @ + 1,
                                      !.pending = IF Cancels THEN @ - 1 ELSE @]
          /\ order' = [order EXCEPT !.ret = "refund_completed"]
       \/ UNCHANGED <<order, payout, wallet>>
    /\ Done(c)
    /\ UNCHANGED <<receipt, otp, offered, clock, stale, bounds>>

\* completeReturnAndRefund: one transaction.  It is refused when the order is
\* not "qc_passed" any more, when the unique reference of the customer's refund
\* exists already, or when the seller's balance is too low for the debit.
CompleteReturnAndRefund(c) ==
    /\ At(c, "refund")
    /\ \/ order.ret = "qc_passed" /\ wallet.refunds = 0 /\ Refunded
       \/ /\ order.ret # "qc_passed" \/ wallet.refunds > 0 \/ Debits
          /\ UNCHANGED <<order, payout, wallet>>
    /\ Done(c)
    /\ UNCHANGED <<receipt, otp, offered, clock, stale, bounds>>

\* The check failed: the seller gets the payout that was held.
FreePayout(c) ==
    /\ At(c, "free")
    /\ \/ AutoRelease /\ payout = "PENDING" /\ ProcessPayout
       \/ AutoRelease /\ payout # "PENDING" /\ UNCHANGED <<order, payout, wallet>>
       \/ ~AutoRelease /\ Unhold /\ UNCHANGED <<payout, wallet>>
    /\ Done(c)
    /\ UNCHANGED <<receipt, otp, offered, clock, stale, bounds>>

-----------------------------------------------------------------------------
(* Time and faults.                                                        *)

\* No handler looks at the windows of an order that is settled and being
\* returned: whether they close then is left out.
WindowCloses ==
    /\ ~closed /\ closed' = TRUE
    /\ order.ret \in {"none", "return_rejected"} \/ ~order.settled
    /\ UNCHANGED <<order, money, otp, offered, returnable, ctx, stale, bounds>>

\* Likewise, a request that was read goes on whether or not this window closes, and
\* no other can be read after it did: it closes then once the request is saved or lost.
ProductWindowCloses ==
    /\ returnable /\ returnable' = FALSE
    /\ order.ret = "none" /\ \A c \in Contexts : ~At(c, "request")
    /\ UNCHANGED <<order, money, otp, offered, closed, ctx, stale, bounds>>

SearchLapses ==
    /\ order.expiry = "open"
    /\ order' = [order EXCEPT !.expiry = "past"]
    /\ UNCHANGED <<money, otp, offered, clock, ctx, stale, bounds>>

\* The process of context c dies; what it had not written is lost.
Crash(c) ==
    /\ ~Free(c) /\ crashes < MaxCrashes
    /\ crashes' = crashes + 1
    /\ Done(c)
    /\ stale' = stale \ {c}
    /\ UNCHANGED <<order, money, otp, offered, clock, otps>>

-----------------------------------------------------------------------------
Payouts  == SettleDeliveredOrder \/ SettlementAborts \/ BulkProcessPayouts
Clock    == WindowCloses \/ ProductWindowCloses \/ SearchLapses
Requests == RequestReturnPickupOtp \/ OtpDies \/ SkipReturnPickup

CronRead(c) == ReleaseRead(c) \/ TimeoutRead(c)

Start(c) ==
    \/ RequestReturn(c) \/ ApproveReturn(c) \/ RejectReturn(c)
    \/ AssignReturnDelivery(c) \/ RejectReturnPickup(c)
    \/ \E r \in Riders : AcceptReturnPickup(c, r)
    \/ BullTimeoutRead(c)
    \/ VerifyReturnPickupOtp(c) \/ RequestReturnDropOtp(c) \/ VerifyReturnDropOtp(c)
    \/ UpdateReturnStatus(c) \/ QualityCheck(c)

Resume(c) ==
    \/ Release(c) \/ SaveRequest(c) \/ SaveApproval(c) \/ SaveOrder(c)
    \/ SaveAssignment(c) \/ SaveRefusal(c) \/ StartReturnPickupBroadcast(c) \/ PickupTimeout(c)
    \/ ConsumePickupOtp(c) \/ SavePickup(c)
    \/ CreditCommission(c) \/ RecordCommission(c) \/ FlagCommission(c)
    \/ SaveDropPending(c) \/ SaveDrop(c)
    \/ SaveVerdict(c) \/ CompleteReturnAndRefund(c) \/ FreePayout(c)

Next ==
    \/ Payouts \/ Clock \/ Requests
    \/ \E c \in Schedulers : CronRead(c)
    \/ \E c \in Workers : Start(c)
    \/ \E c \in Contexts : Resume(c) \/ Crash(c)

Spec == Init /\ [][Next]_vars

\* Time passes, a suspended handler resumes, and the cron jobs look again and again.
\* Nobody else is obliged to do anything.
FairSpec ==
    /\ Spec
    /\ WF_vars(WindowCloses) /\ WF_vars(SearchLapses)
    /\ \A c \in Contexts : WF_vars(Resume(c))
    /\ WF_vars(\E c \in Schedulers : ReleaseRead(c))
    /\ WF_vars(\E c \in Schedulers : TimeoutRead(c))

-----------------------------------------------------------------------------
(* Properties.                                                             *)

TypeOK ==
    /\ order \in Orders
    /\ payout \in {"none", "PENDING", "COMPLETED", "CANCELLED"}
    /\ wallet \in [pending : Nat, available : Nat, debits : Nat, refunds : Nat,
                   commissions : Nat]
    /\ receipt \in BOOLEAN
    /\ otp \in [pickup : BOOLEAN, drop : BOOLEAN]
    /\ offered \in BOOLEAN /\ closed \in BOOLEAN /\ returnable \in BOOLEAN
    /\ ctx \in [Contexts -> Handlers]
    /\ stale \in SUBSET Contexts
    /\ otps \in 0..MaxPickupOtps /\ crashes \in 0..MaxCrashes

\* The seller's share is credited at most once and is never both pending and
\* available, although settlement can be repeated after it failed half way and
\* the batch job, the hold-release job, an admin and the quality check all
\* process the same payout; after a cancelled payout nothing of it is left.
SellerPaidOnce ==
    /\ wallet.pending = (IF payout = "PENDING" THEN 1 ELSE 0)
    /\ wallet.available = (IF payout = "COMPLETED" THEN 1 ELSE 0)

\* The customer is refunded at most once, although updateReturnStatus lets a
\* refunded order be "returned" again and pass its quality check again.
CustomerRefundedOnce ==
    /\ wallet.refunds <= 1
    /\ order.ret = "refund_completed" => wallet.refunds = 1

\* A refund costs the seller one thing at most: the payout or a debit; and
\* without a refund it costs nothing.
SellerChargedOnce ==
    wallet.debits + (IF payout = "CANCELLED" THEN 1 ELSE 0) <= wallet.refunds

\* The wallets move as ReturnMoney promises, whatever handlers, jobs and admins do to
\* the order and its payout at the same time: in one step at most one of them pays the
\* seller, refunds the customer or charges the refund to the seller, and the refund is
\* of a return that was asked for (processPayout, completeReturnAndRefund).
Money == INSTANCE ReturnMoney
         WITH pending <- wallet.pending, available <- wallet.available,
              debits <- wallet.debits, refunds <- wallet.refunds,
              forfeited <- (payout = "CANCELLED"), asked <- (order.ret # "none")
ImplementsReturnMoney == Money!Spec

\* A search for a pickup rider ends, with a rider or back at the seller, even
\* if every Bull job is lost and stale handlers rewrite the attempt number.
PickupSearchEnds == (Unclaimed /\ order.expiry # "unset") ~> ~Unclaimed

\* A payout that is held for a delivered order nobody returns is released.
HeldPayoutReleased ==
    (order.sp = "HOLD" /\ payout = "PENDING")
        ~> (order.sp # "HOLD" \/ payout # "PENDING" \/ order.ret # "none")

=============================================================================
