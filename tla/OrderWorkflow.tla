---------------------------- MODULE OrderWorkflow ----------------------------
(***************************************************************************)
(* One marketplace order driven by the v2 workflow engine                  *)
(* (services/orderWorkflowService.js) and everything that races over it:   *)
(* API requests of the customer, the seller and the riders, the payment    *)
(* gateway's answers, Bull timeout jobs and the auto-cancel cron job.      *)
(*                                                                         *)
(* Every handler is an async function: it reads a document, awaits, and    *)
(* writes another one, and any other handler may run at each await.  A     *)
(* context (an API/queue worker, or a scheduler process) is where one      *)
(* handler is suspended; pc[c] names the statement it resumes at.  A       *)
(* handler that is one atomic findOneAndUpdate is one action.              *)
(*                                                                         *)
(* Operators named <definition>_<fault> are variants of the definition that *)
(* follows them with a plausible bug; no specification uses them.  They     *)
(* show which property would catch the bug.                                 *)
(*                                                                         *)
(* Money amounts, items and addresses are abstracted away: the goods of    *)
(* the order, its gateway payment and the wallet amount redeemed for it    *)
(* each move as a whole.                                                   *)
(***************************************************************************)
EXTENDS Naturals, FiniteSets

CONSTANTS
    Riders,            \* delivery partners
    NoRider,           \* deliveryBoy: null
    Workers,           \* contexts running API requests, webhooks and Bull jobs
    Schedulers,        \* contexts running the auto-cancel cron job
    MaxAttempts,       \* DELIVERY_SEARCH_MAX_ATTEMPTS
    MaxCrashes,        \* bound: contexts that die in the middle of a handler
    MaxRefundFailures  \* bound: finance reversals whose transaction aborts

ASSUME NoRiderAssumption    == NoRider \notin Riders
ASSUME ContextsAssumption   == Workers \cap Schedulers = {}
ASSUME AttemptsAssumption   == MaxAttempts \in Nat \ {0}
ASSUME FaultBoundAssumption == MaxCrashes \in Nat /\ MaxRefundFailures \in Nat

VARIABLES
    \* the Order document
    mode,            \* paymentMode, fixed at placement
    ws,              \* workflowStatus
    cancelReason,
    paymentStatus,
    captured,        \* financeFlags.onlinePaymentCaptured
    reversed,        \* financeFlags.cancellationReversalApplied
    reservation,     \* stockReservation.status
    sellerDue,       \* sellerPendingExpiresAt <= now
    searchDue,       \* deliverySearchExpiresAt <= now
    reservationDue,  \* stockReservation.expiresAt <= now
    attempt,         \* deliverySearchMeta.attempt, 1 by default
    rider,           \* deliveryBoy
    skippedBy,
    step,            \* deliveryRiderStep, 0 when unset
    version,         \* assignmentVersion
    \* other documents
    offer,           \* the DeliveryAssignment of this order
    restocked,       \* times the goods were added back to Product.stock
    refunded,        \* times the captured payment was credited to the customer
    walletBack,      \* times the redeemed wallet amount was credited back
    \* outside the database
    gateway,         \* what the payment gateway answers
    jobs,            \* delayed Bull jobs
    \* the handlers in progress
    pc,              \* the statement each context resumes at
    seen,            \* the attempt its handler read
    who,             \* the rider it acts for
    \* history and bounds
    windows,         \* search attempts whose accept window was opened
    crashes, refundFailures

payment      == <<paymentStatus, captured, gateway>>
compensation == <<reservation, restocked, reversed, refunded, walletBack>>
deadlines    == <<sellerDue, searchDue, reservationDue>>
search       == <<attempt, windows, skippedBy>>
delivery     == <<rider, step, version, offer>>
handlers     == <<pc, seen, who>>
faults       == <<crashes, refundFailures>>

vars == <<mode, ws, cancelReason, payment, compensation, deadlines, search,
          delivery, jobs, handlers, faults>>

-----------------------------------------------------------------------------
Contexts == Workers \cup Schedulers

Statuses == {"CREATED", "SELLER_PENDING", "SELLER_ACCEPTED", "DELIVERY_SEARCH",
             "DELIVERY_ASSIGNED", "PICKUP_READY", "OUT_FOR_DELIVERY",
             "DELIVERED", "CANCELLED"}

Carrying == {"DELIVERY_ASSIGNED", "PICKUP_READY", "OUT_FOR_DELIVERY"}

PaymentStatuses == {"PENDING_CASH_COLLECTION", "CREATED", "PAID", "FAILED", "REFUNDED"}

CancelReasons == {"Rejected by seller", "Seller timeout", "No delivery partner",
                  "Cancelled by customer", "Payment timeout", "Payment failed"}

\* Bull job ids: seller job of the order, delivery job per attempt.
SellerJob == 0
DeliveryJob(n) == n
Jobs == {SellerJob} \cup {DeliveryJob(n) : n \in 1..MaxAttempts}

\* The statements a suspended handler resumes at.
Resumptions ==
    {"seller_timeout", "extend", "reschedule", "give_up", "customer_cancel",
     "payment_timeout", "accepted", "cancelled", "packed", "publish",
     "assigned", "record_winner", "skip", "advance", "mirror_pending", "move",
     "notify_seller", "load", "restock", "release", "refund"}

Idle(c) == pc[c] = "idle"

\* The handler of context c reaches its next statement, keeping its locals ...
Goto(c, label) ==
    /\ pc' = [pc EXCEPT ![c] = label]
    /\ UNCHANGED <<seen, who>>

\* ... or having read the attempt n of the order, on behalf of rider r ...
GotoWith(c, label, n, r) ==
    /\ pc' = [pc EXCEPT ![c] = label]
    /\ seen' = [seen EXCEPT ![c] = n]
    /\ who' = [who EXCEPT ![c] = r]

\* ... or ends, and its locals with it.
Done(c) == GotoWith(c, "idle", 0, NoRider)

\* An add to the queue (remove from it) that may fail: the port swallows it.
AddJob(j)    == jobs' \in {jobs, jobs \cup {j}}
RemoveJob(j) == jobs' \in {jobs, jobs \ {j}}

-----------------------------------------------------------------------------
(* Placement: a COD order goes straight to its seller, an ONLINE order     *)
(* waits for its payment with its stock reserved for a limited time.       *)
Init ==
    /\ \/ /\ mode = "COD"
          /\ ws = "SELLER_PENDING"
          /\ paymentStatus = "PENDING_CASH_COLLECTION"
          /\ reservation = "COMMITTED"
          /\ gateway = "none"
          /\ jobs \in {{}, {SellerJob}}
       \/ /\ mode = "ONLINE"
          /\ ws = "CREATED"
          /\ paymentStatus = "CREATED"
          /\ reservation = "RESERVED"
          /\ gateway = "pending"
          /\ jobs = {}
    /\ cancelReason = "none"
    /\ captured = FALSE /\ reversed = FALSE
    /\ sellerDue = FALSE /\ searchDue = FALSE /\ reservationDue = FALSE
    /\ attempt = 1 /\ windows = {} /\ skippedBy = {}
    /\ rider = NoRider /\ step = 0 /\ version = 0
    /\ offer = [status |-> "none", winner |-> NoRider]
    /\ restocked = 0 /\ refunded = 0 /\ walletBack = 0
    /\ pc = [c \in Contexts |-> "idle"]
    /\ seen = [c \in Contexts |-> 0]
    /\ who = [c \in Contexts |-> NoRider]
    /\ crashes = 0 /\ refundFailures = 0

-----------------------------------------------------------------------------
(* The environment: deadlines pass, the gateway settles, processes die.    *)

SellerDeadline ==
    /\ ws = "SELLER_PENDING" /\ ~sellerDue
    /\ sellerDue' = TRUE
    /\ UNCHANGED <<mode, ws, cancelReason, payment, compensation, searchDue,
                   reservationDue, search, delivery, jobs, handlers, faults>>

SearchDeadline ==
    /\ ws = "DELIVERY_SEARCH" /\ ~searchDue
    /\ searchDue' = TRUE
    /\ UNCHANGED <<mode, ws, cancelReason, payment, compensation, sellerDue,
                   reservationDue, search, delivery, jobs, handlers, faults>>

ReservationDeadline ==
    /\ ws = "CREATED" /\ mode = "ONLINE" /\ ~reservationDue
    /\ reservationDue' = TRUE
    /\ UNCHANGED <<mode, ws, cancelReason, payment, compensation, sellerDue,
                   searchDue, search, delivery, jobs, handlers, faults>>

GatewaySettles ==
    /\ gateway = "pending"
    /\ gateway' \in {"captured", "failed"}
    /\ UNCHANGED <<mode, ws, cancelReason, paymentStatus, captured, compensation,
                   deadlines, search, delivery, jobs, handlers, faults>>

\* The process dies, or a statement of the handler throws: the rest of the
\* handler never runs.
Crash(c) ==
    /\ crashes < MaxCrashes
    /\ ~Idle(c)
    /\ Done(c)
    /\ crashes' = crashes + 1
    /\ UNCHANGED <<mode, ws, cancelReason, payment, compensation, deadlines,
                   search, delivery, jobs, refundFailures>>

-----------------------------------------------------------------------------
(* The gateway's answer, brought by its webhook or by a status check; both *)
(* may be processed any number of times.                                   *)

\* A status check that found the payment still pending ...
CheckPending(c) ==
    /\ Idle(c) /\ c \in Workers
    /\ gateway = "pending"
    /\ Goto(c, "mirror_pending")
    /\ UNCHANGED <<mode, ws, cancelReason, payment, compensation, deadlines,
                   search, delivery, jobs, faults>>

\* ... mirrors that onto the order later, whatever has happened since.
MirrorPending(c) ==
    /\ pc[c] = "mirror_pending"
    /\ paymentStatus' = "CREATED"
    /\ Done(c)
    /\ UNCHANGED <<mode, ws, cancelReason, captured, gateway, compensation,
                   deadlines, search, delivery, jobs, faults>>

Capture_MovesFirst(c) ==
    /\ Idle(c) /\ c \in Workers
    /\ gateway = "captured"
    /\ Goto(c, "move")
    /\ UNCHANGED <<mode, ws, cancelReason, payment, compensation, deadlines,
                   search, delivery, jobs, faults>>

\* The finance transaction of a captured payment.
Capture(c) ==
    /\ Idle(c) /\ c \in Workers
    /\ gateway = "captured"
    /\ captured' = TRUE
    /\ paymentStatus' = IF captured THEN paymentStatus ELSE "PAID"
    /\ Goto(c, "move")
    /\ UNCHANGED <<mode, ws, cancelReason, gateway, compensation, deadlines,
                   search, delivery, jobs, faults>>

MoveOrderToSellerPendingAfterPayment_Unguarded(c) ==
    /\ pc[c] = "move"
    /\ ws' = "SELLER_PENDING"
    /\ sellerDue' = FALSE
    /\ Goto(c, "notify_seller")
    /\ UNCHANGED <<mode, cancelReason, payment, compensation, searchDue,
                   reservationDue, search, delivery, jobs, faults>>

MoveOrderToSellerPendingAfterPayment(c) ==
    /\ pc[c] = "move"
    /\ \/ /\ ws = "CREATED" /\ mode = "ONLINE"
          /\ ws' = "SELLER_PENDING"
          /\ sellerDue' = FALSE
          /\ Goto(c, "notify_seller")
       \/ /\ ~(ws = "CREATED" /\ mode = "ONLINE")
          /\ Done(c)
          /\ UNCHANGED <<ws, sellerDue>>
    /\ UNCHANGED <<mode, cancelReason, payment, compensation, searchDue,
                   reservationDue, search, delivery, jobs, faults>>

AfterPlaceOrderV2(c) ==
    /\ pc[c] = "notify_seller"
    /\ AddJob(SellerJob)
    /\ Done(c)
    /\ UNCHANGED <<mode, ws, cancelReason, payment, compensation, deadlines,
                   search, delivery, faults>>

\* A failed payment: one transaction restocks and cancels the order.  It does
\* not go through compensateOrderCancellation.
PaymentFailed ==
    /\ gateway = "failed"
    /\ ws = "CREATED"
    /\ ws' = "CANCELLED"
    /\ cancelReason' = "Payment failed"
    /\ paymentStatus' = "FAILED"
    /\ \/ /\ reservation # "RELEASED"
          /\ restocked' = restocked + 1
          /\ reservation' = "RELEASED"
       \/ /\ reservation = "RELEASED"
          /\ UNCHANGED <<restocked, reservation>>
    /\ UNCHANGED <<mode, captured, gateway, reversed, refunded, walletBack,
                   deadlines, search, delivery, jobs, handlers, faults>>

-----------------------------------------------------------------------------
(* The guarded cancelling update, and the compensation that follows it.    *)

\* findOneAndUpdate from the given statuses to CANCELLED; on success the
\* handler goes on at next, on no match it returns.
CancelIf(c, open, reason, next) ==
    \/ /\ open
       /\ ws' = "CANCELLED"
       /\ cancelReason' = reason
       /\ Goto(c, next)
    \/ /\ ~open
       /\ Done(c)
       /\ UNCHANGED <<ws, cancelReason>>

\* compensateOrderCancellation re-reads the order ...
LoadReservation(c) ==
    /\ pc[c] = "load"
    /\ Goto(c, IF reservation = "RELEASED" THEN "refund" ELSE "restock")
    /\ UNCHANGED <<mode, ws, cancelReason, payment, compensation, deadlines,
                   search, delivery, jobs, faults>>

\* ... adds the goods back to the products ...
Restock(c) ==
    /\ pc[c] = "restock"
    /\ restocked' = restocked + 1
    /\ Goto(c, "release")
    /\ UNCHANGED <<mode, ws, cancelReason, payment, reservation, reversed,
                   refunded, walletBack, deadlines, search, delivery, jobs, faults>>

\* ... saves that the reservation is released ...
SaveReleased(c) ==
    /\ pc[c] = "release"
    /\ reservation' = "RELEASED"
    /\ Goto(c, "refund")
    /\ UNCHANGED <<mode, ws, cancelReason, payment, restocked, reversed,
                   refunded, walletBack, deadlines, search, delivery, jobs, faults>>

\* ... and runs the finance reversal, one transaction guarded by its flag.
ReverseOrderFinanceOnCancellation(c) ==
    /\ pc[c] = "refund"
    /\ \/ /\ ~reversed
          /\ reversed' = TRUE
          /\ walletBack' = walletBack + 1
          /\ \/ /\ mode = "ONLINE" /\ captured
                /\ refunded' = refunded + 1
                /\ paymentStatus' = "REFUNDED"
             \/ /\ ~(mode = "ONLINE" /\ captured)
                /\ UNCHANGED <<refunded, paymentStatus>>
       \/ /\ reversed
          /\ UNCHANGED <<reversed, walletBack, refunded, paymentStatus>>
    /\ Done(c)
    /\ UNCHANGED <<mode, ws, cancelReason, captured, gateway, reservation,
                   restocked, deadlines, search, delivery, jobs, faults>>

\* Its transaction may abort: the failure is logged and swallowed.
ReversalFails(c) ==
    /\ pc[c] = "refund"
    /\ refundFailures < MaxRefundFailures
    /\ refundFailures' = refundFailures + 1
    /\ Done(c)
    /\ UNCHANGED <<mode, ws, cancelReason, payment, compensation, deadlines,
                   search, delivery, jobs, crashes>>

-----------------------------------------------------------------------------
(* The customer.                                                           *)

CustomerCancel(c) ==
    /\ Idle(c) /\ c \in Workers
    /\ ws = "SELLER_PENDING"
    /\ Goto(c, "customer_cancel")
    /\ UNCHANGED <<mode, ws, cancelReason, payment, compensation, deadlines,
                   search, delivery, jobs, faults>>

CustomerCancelUpdate(c) ==
    /\ pc[c] = "customer_cancel"
    /\ CancelIf(c, ws = "SELLER_PENDING", "Cancelled by customer", "cancelled")
    /\ UNCHANGED <<mode, payment, compensation, deadlines, search, delivery,
                   jobs, faults>>

UnscheduleCancelled_NoCompensation(c) ==
    /\ pc[c] = "cancelled"
    /\ RemoveJob(SellerJob)
    /\ Done(c)
    /\ UNCHANGED <<mode, ws, cancelReason, payment, compensation, deadlines,
                   search, delivery, faults>>

\* After a seller's or a customer's cancel the seller's timeout job goes first.
UnscheduleCancelled(c) ==
    /\ pc[c] = "cancelled"
    /\ RemoveJob(SellerJob)
    /\ Goto(c, "load")
    /\ UNCHANGED <<mode, ws, cancelReason, payment, compensation, deadlines,
                   search, delivery, faults>>

-----------------------------------------------------------------------------
(* The seller.                                                             *)

SellerAccept(c) ==
    /\ Idle(c) /\ c \in Workers
    /\ ws = "SELLER_PENDING"
    /\ mode = "ONLINE" => paymentStatus = "PAID"
    /\ ws' = "SELLER_ACCEPTED"
    /\ Goto(c, "accepted")
    /\ UNCHANGED <<mode, cancelReason, payment, compensation, deadlines, search,
                   delivery, jobs, faults>>

UnscheduleAccepted(c) ==
    /\ pc[c] = "accepted"
    /\ RemoveJob(SellerJob)
    /\ Done(c)
    /\ UNCHANGED <<mode, ws, cancelReason, payment, compensation, deadlines,
                   search, delivery, faults>>

SellerReject(c) ==
    /\ Idle(c) /\ c \in Workers
    /\ ws = "SELLER_PENDING"
    /\ CancelIf(c, ws = "SELLER_PENDING", "Rejected by seller", "cancelled")
    /\ UNCHANGED <<mode, payment, compensation, deadlines, search, delivery,
                   jobs, faults>>

SellerPack(c) ==
    /\ Idle(c) /\ c \in Workers
    /\ ws = "SELLER_ACCEPTED"
    /\ ws' = "DELIVERY_SEARCH"
    /\ searchDue' = FALSE
    /\ attempt' = 1
    /\ windows' = windows \cup {1}
    /\ Goto(c, "packed")
    /\ UNCHANGED <<mode, cancelReason, payment, compensation, sellerDue,
                   reservationDue, skippedBy, delivery, jobs, faults>>

SchedulePacked(c) ==
    /\ pc[c] = "packed"
    /\ AddJob(DeliveryJob(1))
    /\ Goto(c, "publish")
    /\ UNCHANGED <<mode, ws, cancelReason, payment, compensation, deadlines,
                   search, delivery, faults>>

PublishOffer(c) ==
    /\ pc[c] = "publish"
    /\ offer' = [status |-> "broadcasting", winner |-> NoRider]
    /\ Done(c)
    /\ UNCHANGED <<mode, ws, cancelReason, payment, compensation, deadlines,
                   search, rider, step, version, jobs, faults>>

-----------------------------------------------------------------------------
(* The riders.                                                             *)

RiderAccept_LastWins(c, r) ==
    /\ Idle(c) /\ c \in Workers
    /\ ws \in {"DELIVERY_SEARCH", "DELIVERY_ASSIGNED"}
    /\ ~searchDue
    /\ r \notin skippedBy
    /\ ws' = "DELIVERY_ASSIGNED"
    /\ rider' = r
    /\ step' = 1
    /\ version' = version + 1
    /\ GotoWith(c, "assigned", attempt, r)
    /\ UNCHANGED <<mode, cancelReason, payment, compensation, deadlines, search,
                   offer, jobs, faults>>

\* First delivery partner to accept wins.
RiderAccept(c, r) ==
    /\ Idle(c) /\ c \in Workers
    /\ ws = "DELIVERY_SEARCH"
    /\ rider = NoRider
    /\ ~searchDue
    /\ r \notin skippedBy
    /\ ws' = "DELIVERY_ASSIGNED"
    /\ rider' = r
    /\ step' = 1
    /\ version' = version + 1
    /\ GotoWith(c, "assigned", attempt, r)
    /\ UNCHANGED <<mode, cancelReason, payment, compensation, deadlines, search,
                   offer, jobs, faults>>

UnscheduleAssigned(c) ==
    /\ pc[c] = "assigned"
    /\ RemoveJob(DeliveryJob(seen[c]))
    /\ Goto(c, "record_winner")
    /\ UNCHANGED <<mode, ws, cancelReason, payment, compensation, deadlines,
                   search, delivery, faults>>

\* The broadcasting DeliveryAssignment, if there is one yet, gets its winner.
RecordWinner(c) ==
    /\ pc[c] = "record_winner"
    /\ \/ /\ offer.status = "broadcasting"
          /\ offer' = [status |-> "assigned", winner |-> who[c]]
       \/ /\ offer.status # "broadcasting"
          /\ UNCHANGED offer
    /\ Done(c)
    /\ UNCHANGED <<mode, ws, cancelReason, payment, compensation, deadlines,
                   search, rider, step, version, jobs, faults>>

\* skipOrder checks the status of the document it read ...
SkipOrder(c, r) ==
    /\ Idle(c) /\ c \in Workers
    /\ ws = "DELIVERY_SEARCH"
    /\ r \notin skippedBy
    /\ GotoWith(c, "skip", 0, r)
    /\ UNCHANGED <<mode, ws, cancelReason, payment, compensation, deadlines,
                   search, delivery, jobs, faults>>

\* ... and saves its push without checking it again.
SaveSkip(c) ==
    /\ pc[c] = "skip"
    /\ skippedBy' = skippedBy \cup {who[c]}
    /\ Done(c)
    /\ UNCHANGED <<mode, ws, cancelReason, payment, compensation, deadlines,
                   attempt, windows, delivery, jobs, faults>>

MarkArrivedAtStore ==
    /\ ws = "DELIVERY_ASSIGNED"
    /\ ws' = "PICKUP_READY"
    /\ step' = 2
    /\ UNCHANGED <<mode, cancelReason, payment, compensation, deadlines, search,
                   rider, version, offer, jobs, handlers, faults>>

ConfirmPickup ==
    /\ ws \in {"DELIVERY_ASSIGNED", "PICKUP_READY"}
    /\ ws' = "OUT_FOR_DELIVERY"
    /\ step' = 3
    /\ UNCHANGED <<mode, cancelReason, payment, compensation, deadlines, search,
                   rider, version, offer, jobs, handlers, faults>>

AdvanceRiderUi_AnyStatus(c) ==
    /\ Idle(c) /\ c \in Workers
    /\ rider # NoRider
    /\ GotoWith(c, "advance", 0, rider)
    /\ UNCHANGED <<mode, ws, cancelReason, payment, compensation, deadlines,
                   search, delivery, jobs, faults>>

\* advanceDeliveryRiderUi reads the status and updates without it.
AdvanceRiderUi(c) ==
    /\ Idle(c) /\ c \in Workers
    /\ ws = "OUT_FOR_DELIVERY"
    /\ GotoWith(c, "advance", 0, rider)
    /\ UNCHANGED <<mode, ws, cancelReason, payment, compensation, deadlines,
                   search, delivery, jobs, faults>>

AdvanceRiderUiUpdate(c) ==
    /\ pc[c] = "advance"
    /\ step' = IF rider = who[c] THEN 4 ELSE step
    /\ Done(c)
    /\ UNCHANGED <<mode, ws, cancelReason, payment, compensation, deadlines,
                   search, rider, version, offer, jobs, faults>>

\* The hand-off with the right code.
Deliver ==
    /\ ws = "OUT_FOR_DELIVERY"
    /\ ws' = "DELIVERED"
    /\ UNCHANGED <<mode, cancelReason, payment, compensation, deadlines, search,
                   delivery, jobs, handlers, faults>>

-----------------------------------------------------------------------------
(* The timeout handlers, started by a Bull worker or by the cron job.      *)

SellerTimeoutExpired_NoDeadline == ws = "SELLER_PENDING"

SellerTimeoutExpired == ws = "SELLER_PENDING" /\ sellerDue

DeliveryTimeoutExpired == ws = "DELIVERY_SEARCH" /\ searchDue

DeliveryTimeoutDecision_OneTooFew ==
    IF attempt < MaxAttempts - 1 THEN "extend" ELSE "give_up"

\* What processDeliveryTimeoutJob decides from the document it read.
DeliveryTimeoutDecision == IF attempt < MaxAttempts THEN "extend" ELSE "give_up"

\* The first read of processSellerTimeoutJob and processDeliveryTimeoutJob.
ReadSellerTimeout(c) ==
    \/ SellerTimeoutExpired /\ Goto(c, "seller_timeout")
    \/ ~SellerTimeoutExpired /\ UNCHANGED handlers

ReadDeliveryTimeout(c) ==
    \/ /\ DeliveryTimeoutExpired
       /\ GotoWith(c, DeliveryTimeoutDecision, attempt, NoRider)
    \/ /\ ~DeliveryTimeoutExpired
       /\ UNCHANGED handlers

\* Bull hands a job out at least once: a job whose worker stalls stays and is
\* handed out again.
SellerTimeoutJob(c) ==
    /\ Idle(c) /\ c \in Workers
    /\ SellerJob \in jobs
    /\ RemoveJob(SellerJob)
    /\ ReadSellerTimeout(c)
    /\ UNCHANGED <<mode, ws, cancelReason, payment, compensation, deadlines,
                   search, delivery, faults>>

DeliveryTimeoutJob(c, n) ==
    /\ Idle(c) /\ c \in Workers
    /\ DeliveryJob(n) \in jobs
    /\ RemoveJob(DeliveryJob(n))
    /\ ReadDeliveryTimeout(c)
    /\ UNCHANGED <<mode, ws, cancelReason, payment, compensation, deadlines,
                   search, delivery, faults>>

AutoCancelSellerExpired_NeedsJob(c) ==
    /\ Idle(c) /\ c \in Schedulers
    /\ SellerTimeoutExpired
    /\ SellerJob \in jobs
    /\ ReadSellerTimeout(c)
    /\ UNCHANGED <<mode, ws, cancelReason, payment, compensation, deadlines,
                   search, delivery, jobs, faults>>

\* The cron job finds the expired order by a query and calls the same handlers.
AutoCancelSellerExpired(c) ==
    /\ Idle(c) /\ c \in Schedulers
    /\ SellerTimeoutExpired
    /\ ReadSellerTimeout(c)
    /\ UNCHANGED <<mode, ws, cancelReason, payment, compensation, deadlines,
                   search, delivery, jobs, faults>>

AutoCancelDeliveryExpired(c) ==
    /\ Idle(c) /\ c \in Schedulers
    /\ DeliveryTimeoutExpired
    /\ ReadDeliveryTimeout(c)
    /\ UNCHANGED <<mode, ws, cancelReason, payment, compensation, deadlines,
                   search, delivery, jobs, faults>>

SellerTimeoutUpdate_Unguarded(c) ==
    /\ pc[c] = "seller_timeout"
    /\ CancelIf(c, TRUE, "Seller timeout", "load")
    /\ UNCHANGED <<mode, payment, compensation, deadlines, search, delivery,
                   jobs, faults>>

SellerTimeoutUpdate(c) ==
    /\ pc[c] = "seller_timeout"
    /\ CancelIf(c, ws = "SELLER_PENDING", "Seller timeout", "load")
    /\ UNCHANGED <<mode, payment, compensation, deadlines, search, delivery,
                   jobs, faults>>

ExtendSearch_SameAttempt(c) ==
    /\ pc[c] = "extend"
    /\ ws = "DELIVERY_SEARCH"
    /\ searchDue' = FALSE
    /\ Goto(c, "reschedule")
    /\ UNCHANGED <<mode, ws, cancelReason, payment, compensation, sellerDue,
                   reservationDue, search, delivery, jobs, faults>>

\* The next search attempt: the update's outcome is not looked at.
ExtendSearch(c) ==
    /\ pc[c] = "extend"
    /\ \/ /\ ws = "DELIVERY_SEARCH"
          /\ searchDue' = FALSE
          /\ attempt' = seen[c] + 1
          /\ windows' = windows \cup {seen[c] + 1}
       \/ /\ ws # "DELIVERY_SEARCH"
          /\ UNCHANGED <<searchDue, attempt, windows>>
    /\ Goto(c, "reschedule")
    /\ UNCHANGED <<mode, ws, cancelReason, payment, compensation, sellerDue,
                   reservationDue, skippedBy, delivery, jobs, faults>>

Reschedule(c) ==
    /\ pc[c] = "reschedule"
    /\ AddJob(DeliveryJob(seen[c] + 1))
    /\ Done(c)
    /\ UNCHANGED <<mode, ws, cancelReason, payment, compensation, deadlines,
                   search, delivery, faults>>

GiveUpSearch_Unguarded(c) ==
    /\ pc[c] = "give_up"
    /\ CancelIf(c, TRUE, "No delivery partner", "load")
    /\ UNCHANGED <<mode, payment, compensation, deadlines, search, delivery,
                   jobs, faults>>

GiveUpSearch(c) ==
    /\ pc[c] = "give_up"
    /\ CancelIf(c, ws = "DELIVERY_SEARCH", "No delivery partner", "load")
    /\ UNCHANGED <<mode, payment, compensation, deadlines, search, delivery,
                   jobs, faults>>

AutoCancelPaymentExpired_CommittedOnly(c) ==
    /\ Idle(c) /\ c \in Schedulers
    /\ ws = "CREATED" /\ mode = "ONLINE"
    /\ paymentStatus # "PAID"
    /\ reservation = "COMMITTED"
    /\ reservationDue
    /\ Goto(c, "payment_timeout")
    /\ UNCHANGED <<mode, ws, cancelReason, payment, compensation, deadlines,
                   search, delivery, jobs, faults>>

\* The cron job's query for unpaid orders, and its guarded update.
AutoCancelPaymentExpired(c) ==
    /\ Idle(c) /\ c \in Schedulers
    /\ ws = "CREATED" /\ mode = "ONLINE"
    /\ paymentStatus # "PAID"
    /\ reservation # "RELEASED"
    /\ reservationDue
    /\ Goto(c, "payment_timeout")
    /\ UNCHANGED <<mode, ws, cancelReason, payment, compensation, deadlines,
                   search, delivery, jobs, faults>>

PaymentTimeoutUpdate(c) ==
    /\ pc[c] = "payment_timeout"
    /\ CancelIf(c, ws = "CREATED" /\ paymentStatus # "PAID", "Payment timeout", "load")
    /\ UNCHANGED <<mode, payment, compensation, deadlines, search, delivery,
                   jobs, faults>>

-----------------------------------------------------------------------------
\* The rest of a suspended handler.
Resume(c) ==
    \/ MirrorPending(c) \/ MoveOrderToSellerPendingAfterPayment(c)
    \/ AfterPlaceOrderV2(c)
    \/ LoadReservation(c) \/ Restock(c) \/ SaveReleased(c)
    \/ ReverseOrderFinanceOnCancellation(c)
    \/ CustomerCancelUpdate(c) \/ UnscheduleCancelled(c)
    \/ UnscheduleAccepted(c) \/ SchedulePacked(c) \/ PublishOffer(c)
    \/ UnscheduleAssigned(c) \/ RecordWinner(c) \/ SaveSkip(c)
    \/ AdvanceRiderUiUpdate(c)
    \/ SellerTimeoutUpdate(c) \/ ExtendSearch(c) \/ Reschedule(c)
    \/ GiveUpSearch(c) \/ PaymentTimeoutUpdate(c)

Request(c) ==
    \/ CheckPending(c) \/ Capture(c)
    \/ CustomerCancel(c)
    \/ SellerAccept(c) \/ SellerReject(c) \/ SellerPack(c)
    \/ \E r \in Riders : RiderAccept(c, r) \/ SkipOrder(c, r)
    \/ AdvanceRiderUi(c)

BullJob(c) == SellerTimeoutJob(c) \/ \E n \in 1..MaxAttempts : DeliveryTimeoutJob(c, n)

AutoCancel(c) ==
    \/ AutoCancelSellerExpired(c)
    \/ AutoCancelDeliveryExpired(c)
    \/ AutoCancelPaymentExpired(c)

Clock == SellerDeadline \/ SearchDeadline \/ ReservationDeadline

Next ==
    \/ Clock
    \/ GatewaySettles
    \/ PaymentFailed \/ MarkArrivedAtStore \/ ConfirmPickup \/ Deliver
    \/ \E c \in Contexts :
          Request(c) \/ BullJob(c) \/ AutoCancel(c) \/ Resume(c)
             \/ ReversalFails(c) \/ Crash(c)

Spec == Init /\ [][Next]_vars

\* Time passes, a handler that has started goes on (a process that dies is a
\* Crash), and the cron job keeps running.  Nobody has to send a request,
\* the gateway need not answer, and Bull need not deliver.
Fairness ==
    /\ WF_vars(Clock)
    /\ \A c \in Contexts : WF_vars(Resume(c))
    /\ \A c \in Schedulers : WF_vars(AutoCancel(c))

FairSpec == Spec /\ Fairness
-----------------------------------------------------------------------------
(* Invariants.                                                             *)

DocumentsTypeOK ==
    /\ mode \in {"COD", "ONLINE"}
    /\ ws \in Statuses
    /\ cancelReason \in CancelReasons \cup {"none"}
    /\ paymentStatus \in PaymentStatuses
    /\ captured \in BOOLEAN /\ reversed \in BOOLEAN
    /\ reservation \in {"RESERVED", "COMMITTED", "RELEASED"}
    /\ sellerDue \in BOOLEAN /\ searchDue \in BOOLEAN /\ reservationDue \in BOOLEAN
    /\ attempt \in 1..MaxAttempts
    /\ windows \in SUBSET (1..MaxAttempts)
    /\ rider \in Riders \cup {NoRider}
    /\ skippedBy \in SUBSET Riders
    /\ step \in 0..4
    /\ version \in Nat
    /\ offer \in [status : {"none", "broadcasting", "assigned"},
                  winner : Riders \cup {NoRider}]
    /\ restocked \in Nat /\ refunded \in Nat /\ walletBack \in Nat
    /\ gateway \in {"none", "pending", "captured", "failed"}
    /\ jobs \in SUBSET Jobs

HandlersTypeOK ==
    /\ pc \in [Contexts -> Resumptions \cup {"idle"}]
    /\ seen \in [Contexts -> 0..MaxAttempts]
    /\ who \in [Contexts -> Riders \cup {NoRider}]

FaultsTypeOK ==
    /\ crashes \in 0..MaxCrashes
    /\ refundFailures \in 0..MaxRefundFailures

\* Every variable keeps its type: in particular the search attempt and the
\* delivery job ids never pass DELIVERY_SEARCH_MAX_ATTEMPTS
\* (processDeliveryTimeoutJob compares before it adds one).
TypeOK ==
    /\ DocumentsTypeOK
    /\ HandlersTypeOK
    /\ FaultsTypeOK

\* The goods of an order go back on the shelf at most once, only for a
\* cancelled order, and a reservation is marked RELEASED only after that:
\* however the seller, the customer, a failed payment, two kinds of Bull jobs
\* and the cron job race to cancel it, and wherever their compensation dies.
StockReturnedOnce ==
    /\ restocked <= 1
    /\ restocked = 1 => ws = "CANCELLED"
    /\ reservation = "RELEASED" => restocked = 1

\* The captured payment and the redeemed wallet amount are given back at most
\* once, the payment only if it was captured, and only for an order that is
\* still cancelled: nothing brings an order back after its money left.
MoneyReturnedOnce ==
    /\ refunded <= 1 /\ walletBack <= 1
    /\ refunded = 1 => captured
    /\ refunded + walletBack > 0 => reversed /\ ws = "CANCELLED"

\* No online order reaches its seller, a rider or the customer's door unless
\* its payment was captured and is still ours, although capturing it, moving
\* it on and cancelling it are separate steps of separate handlers.
PaidBeforeSeller ==
    mode = "ONLINE" /\ ws \notin {"CREATED", "CANCELLED"} => captured /\ refunded = 0

\* The rider, the version and the rider's progress agree with the status
\* although advanceDeliveryRiderUi writes the progress without a status guard:
\* exactly the statuses after the assignment have a rider, assigned once.
RiderMatchesStatus ==
    /\ ws \in Carrying \cup {"DELIVERED"} <=> rider # NoRider
    /\ version = IF rider = NoRider THEN 0 ELSE 1
    /\ step \in CASE ws = "DELIVERY_ASSIGNED"               -> {1}
                  [] ws = "PICKUP_READY"                    -> {2}
                  [] ws \in {"OUT_FOR_DELIVERY", "DELIVERED"} -> {3, 4}
                  [] OTHER                                  -> {0}

\* The winner that the DeliveryAssignment names is the order's rider, although
\* it is written three awaits after the order was assigned.
WinnerIsTheRider == offer.status = "assigned" => offer.winner = rider /\ rider # NoRider

\* An order is given up for lack of a rider only after an accept window was
\* opened for every attempt 1..MaxAttempts, even when a stale handler has
\* meanwhile written an older attempt number back.
GivenUpAfterAllAttempts ==
    cancelReason = "No delivery partner" => windows = 1..MaxAttempts

\* A timeout cancels an order only after the deadline it enforces has passed,
\* and only an order that nobody accepted: the handlers decide on one read of
\* the order and write on a later one that does not test the deadline again.
TimeoutsHonourDeadlines ==
    /\ cancelReason = "Seller timeout" => sellerDue /\ windows = {}
    /\ cancelReason = "Payment timeout" => reservationDue /\ mode = "ONLINE"

-----------------------------------------------------------------------------
(* The abstract specification this one implements.                         *)

phase == CASE ws = "CREATED"         -> "unpaid"
           [] ws = "SELLER_PENDING"  -> "offered"
           [] ws = "SELLER_ACCEPTED" -> "preparing"
           [] ws = "DELIVERY_SEARCH" -> "searching"
           [] ws \in Carrying        -> "carried"
           [] ws = "DELIVERED"       -> "delivered"
           [] OTHER                  -> "cancelled"

Lifecycle == INSTANCE OrderLifecycle
                 WITH carrier <- rider, goodsBack <- restocked,
                      moneyTaken <- captured, moneyBack <- refunded

\* Every step of the handlers is a step of the order's life cycle or changes
\* nothing of it: a carried order is never cancelled or given to another rider,
\* a cancelled or delivered one never moves, goods and money return once.
ImplementsLifecycle == Lifecycle!Spec

-----------------------------------------------------------------------------
(* Liveness, under FairSpec.                                               *)

\* No order waits for ever, whatever becomes of the Bull jobs: one that is offered to a
\* seller is accepted or cancelled; the search for a rider ends, although stale handlers
\* rewrite the attempt number; an online order that was never paid gives its stock back.
OpenOrderResolved ==
    /\ ws = "SELLER_PENDING" ~> ws # "SELLER_PENDING"
    /\ ws = "DELIVERY_SEARCH" ~> ws # "DELIVERY_SEARCH"
    /\ (ws = "CREATED" /\ gateway = "pending") ~> (ws # "CREATED" \/ gateway # "pending")

\* As long as no process dies, the goods of every cancelled order come back
\* to the shelf, whichever path cancelled it.
CancelledOrderRestocked == (ws = "CANCELLED" /\ crashes = 0) ~> (restocked = 1 \/ crashes > 0)

-----------------------------------------------------------------------------
(* Finding: what a comment of the code says of it.  It is violated.        *)

\* "v2 cancellations stop silently keeping the customer's money"
\* (services/orderCompensation.js): once the cancellation was reversed, no
\* captured payment stays with the platform.
CancellationKeepsNoMoney == reversed /\ captured => refunded = 1
=============================================================================
