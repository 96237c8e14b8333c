------------------------ MODULE OrderWorkflowProofs ------------------------
(***************************************************************************)
(* Theorems about OrderWorkflow, for any riders, any number of workers and *)
(* schedulers, any number of search attempts, crashes and failed           *)
(* reversals: its types, its safety invariants, and that it implements     *)
(* OrderLifecycle.                                                         *)
(*                                                                         *)
(* Each invariant is strengthened with what the suspended handlers already *)
(* know (StockInv, PaymentInv, RiderInv, DeadlineInv, SearchInv), and most *)
(* actions are disposed of by a lemma that names the few variables and     *)
(* statements its invariant depends on.                                    *)
(***************************************************************************)
EXTENDS OrderWorkflow, TLAPS

-----------------------------------------------------------------------------
(* The members of the enumerations, so that no other proof expands them.   *)

LEMMA StatusValues ==
    /\ "CREATED" \in Statuses
    /\ "SELLER_PENDING" \in Statuses
    /\ "SELLER_ACCEPTED" \in Statuses
    /\ "DELIVERY_SEARCH" \in Statuses
    /\ "DELIVERY_ASSIGNED" \in Statuses
    /\ "PICKUP_READY" \in Statuses
    /\ "OUT_FOR_DELIVERY" \in Statuses
    /\ "DELIVERED" \in Statuses
    /\ "CANCELLED" \in Statuses
  BY DEF Statuses

LEMMA PaymentStatusValues ==
    /\ "PENDING_CASH_COLLECTION" \in PaymentStatuses
    /\ "CREATED" \in PaymentStatuses
    /\ "PAID" \in PaymentStatuses
    /\ "FAILED" \in PaymentStatuses
    /\ "REFUNDED" \in PaymentStatuses
  BY DEF PaymentStatuses

LEMMA ReasonValues ==
    /\ "Rejected by seller" \in CancelReasons
    /\ "Seller timeout" \in CancelReasons
    /\ "No delivery partner" \in CancelReasons
    /\ "Cancelled by customer" \in CancelReasons
    /\ "Payment timeout" \in CancelReasons
    /\ "Payment failed" \in CancelReasons
  BY DEF CancelReasons

LEMMA ResumptionValues ==
    /\ "seller_timeout" \in Resumptions
    /\ "extend" \in Resumptions
    /\ "reschedule" \in Resumptions
    /\ "give_up" \in Resumptions
    /\ "customer_cancel" \in Resumptions
    /\ "payment_timeout" \in Resumptions
    /\ "accepted" \in Resumptions
    /\ "cancelled" \in Resumptions
    /\ "packed" \in Resumptions
    /\ "publish" \in Resumptions
    /\ "assigned" \in Resumptions
    /\ "record_winner" \in Resumptions
    /\ "skip" \in Resumptions
    /\ "advance" \in Resumptions
    /\ "mirror_pending" \in Resumptions
    /\ "move" \in Resumptions
    /\ "notify_seller" \in Resumptions
    /\ "load" \in Resumptions
    /\ "restock" \in Resumptions
    /\ "release" \in Resumptions
    /\ "refund" \in Resumptions
  BY DEF Resumptions

LEMMA JobValues ==
    /\ SellerJob \in Jobs
    /\ \A n \in 1..MaxAttempts : DeliveryJob(n) \in Jobs
  BY DEF Jobs

-----------------------------------------------------------------------------
(* Type correctness.  A handler that will write attempt seen[c] + 1 must   *)
(* have read an attempt below the maximum, and one that will write the     *)
(* rider who[c] must act for a rider.                                      *)

LocalsReady ==
    \A c \in Contexts :
        /\ pc[c] \in {"extend", "reschedule"} => seen[c] < MaxAttempts
        /\ pc[c] = "skip" => who[c] \in Riders

HandlersInv == HandlersTypeOK /\ LocalsReady

TypeInv == TypeOK /\ LocalsReady

\* What the three ways of moving a handler do to the handlers' types.
LEMMA GotoType ==
  ASSUME HandlersInv, NEW c \in Contexts, NEW label \in Resumptions, Goto(c, label),
         label \notin {"extend", "skip"}, label = "reschedule" => pc[c] = "extend"
  PROVE  HandlersInv'
  BY DEF HandlersInv, HandlersTypeOK, LocalsReady, Goto

LEMMA GotoWithType ==
  ASSUME HandlersInv, NEW c \in Contexts, NEW label \in Resumptions \cup {"idle"},
         NEW n \in 0..MaxAttempts, NEW r \in Riders \cup {NoRider},
         GotoWith(c, label, n, r),
         label \in {"extend", "reschedule"} => n < MaxAttempts,
         label = "skip" => r \in Riders
  PROVE  HandlersInv'
  BY DEF HandlersInv, HandlersTypeOK, LocalsReady, GotoWith

LEMMA DoneType ==
  ASSUME HandlersInv, NEW c \in Contexts, Done(c)
  PROVE  HandlersInv'
  <1>1. 0 \in 0..MaxAttempts BY AttemptsAssumption
  <1>2. GotoWith(c, "idle", 0, NoRider) BY DEF Done
  <1> QED BY <1>1, <1>2, GotoWithType

LEMMA HandlersSameType ==
  ASSUME HandlersInv, UNCHANGED handlers
  PROVE  HandlersInv'
  BY DEF HandlersInv, HandlersTypeOK, LocalsReady, handlers

\* The guarded cancelling update keeps the types of what it writes.
LEMMA CancelIfType ==
  ASSUME HandlersInv, ws \in Statuses, cancelReason \in CancelReasons \cup {"none"},
         NEW c \in Contexts, NEW open \in BOOLEAN, NEW reason \in CancelReasons,
         NEW next \in {"load", "cancelled"}, CancelIf(c, open, reason, next)
  PROVE  /\ HandlersInv'
         /\ ws' \in Statuses
         /\ cancelReason' \in CancelReasons \cup {"none"}
  <1>1. CASE open
    <2>1. Goto(c, next) /\ ws' = "CANCELLED" /\ cancelReason' = reason
      BY <1>1 DEF CancelIf
    <2> QED BY <2>1, GotoType, ResumptionValues, StatusValues
  <1>2. CASE ~open
    <2>1. Done(c) /\ UNCHANGED <<ws, cancelReason>>
      BY <1>2 DEF CancelIf
    <2> QED BY <2>1, DoneType
  <1> QED BY <1>1, <1>2

LEMMA TypeInit == Init => TypeInv
  <1> SUFFICES ASSUME Init PROVE TypeInv
    OBVIOUS
  <1>1. HandlersTypeOK /\ LocalsReady
    BY AttemptsAssumption DEF Init, HandlersTypeOK, LocalsReady
  <1>2. /\ mode \in {"COD", "ONLINE"} /\ ws \in Statuses
        /\ paymentStatus \in PaymentStatuses
        /\ reservation \in {"RESERVED", "COMMITTED", "RELEASED"}
        /\ gateway \in {"none", "pending", "captured", "failed"}
        /\ jobs \in SUBSET Jobs
    BY StatusValues, PaymentStatusValues, JobValues DEF Init
  <1>3. attempt \in 1..MaxAttempts /\ FaultsTypeOK
    BY AttemptsAssumption, FaultBoundAssumption DEF Init, FaultsTypeOK
  <1>4. /\ cancelReason \in CancelReasons \cup {"none"}
        /\ captured \in BOOLEAN /\ reversed \in BOOLEAN
        /\ sellerDue \in BOOLEAN /\ searchDue \in BOOLEAN /\ reservationDue \in BOOLEAN
        /\ windows \in SUBSET (1..MaxAttempts) /\ skippedBy \in SUBSET Riders
        /\ rider \in Riders \cup {NoRider}
    BY DEF Init
  <1>5. offer \in [status : {"none", "broadcasting", "assigned"},
                   winner : Riders \cup {NoRider}]
    BY DEF Init
  <1>6. /\ step \in 0..4 /\ version \in Nat
        /\ restocked \in Nat /\ refunded \in Nat /\ walletBack \in Nat
    BY DEF Init
  <1>7. DocumentsTypeOK
    BY <1>2, <1>3, <1>4, <1>5, <1>6 DEF DocumentsTypeOK
  <1> QED BY <1>1, <1>3, <1>7 DEF TypeInv, TypeOK

LEMMA TypeStep == TypeInv /\ [Next]_vars => TypeInv'
  <1> SUFFICES ASSUME TypeInv, [Next]_vars PROVE TypeInv'
    OBVIOUS
  <1>0. /\ HandlersInv /\ DocumentsTypeOK /\ FaultsTypeOK
        /\ HandlersInv' /\ DocumentsTypeOK' /\ FaultsTypeOK' => TypeInv'
    BY DEF TypeInv, TypeOK, HandlersInv
  <1> USE DEF payment, compensation, deadlines, search, delivery, faults
  <1>1. ASSUME Clock PROVE TypeInv'
    <2>1. CASE SellerDeadline
      <3>1. HandlersInv' BY <1>0, <2>1, HandlersSameType DEF SellerDeadline, handlers, DocumentsTypeOK
      <3>2. DocumentsTypeOK' /\ FaultsTypeOK'
        BY <1>0, <2>1 DEF DocumentsTypeOK, FaultsTypeOK, SellerDeadline, handlers
      <3> QED BY <1>0, <3>1, <3>2
    <2>2. CASE SearchDeadline
      <3>1. HandlersInv' BY <1>0, <2>2, HandlersSameType DEF SearchDeadline, handlers, DocumentsTypeOK
      <3>2. DocumentsTypeOK' /\ FaultsTypeOK'
        BY <1>0, <2>2 DEF DocumentsTypeOK, FaultsTypeOK, SearchDeadline, handlers
      <3> QED BY <1>0, <3>1, <3>2
    <2>3. CASE ReservationDeadline
      <3>1. HandlersInv' BY <1>0, <2>3, HandlersSameType DEF ReservationDeadline, handlers, DocumentsTypeOK
      <3>2. DocumentsTypeOK' /\ FaultsTypeOK'
        BY <1>0, <2>3 DEF DocumentsTypeOK, FaultsTypeOK, ReservationDeadline, handlers
      <3> QED BY <1>0, <3>1, <3>2
    <2> QED
      BY <1>1, <2>1, <2>2, <2>3
      DEF Clock
  <1>2. CASE GatewaySettles
    <2>1. HandlersInv' BY <1>0, <1>2, HandlersSameType DEF GatewaySettles, handlers, DocumentsTypeOK
    <2>2. DocumentsTypeOK' /\ FaultsTypeOK'
      BY <1>0, <1>2 DEF DocumentsTypeOK, FaultsTypeOK, GatewaySettles, handlers
    <2> QED BY <1>0, <2>1, <2>2
  <1>3. CASE PaymentFailed
    <2>1. HandlersInv' BY <1>0, <1>3, HandlersSameType DEF PaymentFailed
    <2>2. /\ ws' \in Statuses /\ cancelReason' \in CancelReasons
          /\ paymentStatus' \in PaymentStatuses
      BY <1>3, StatusValues, ReasonValues, PaymentStatusValues DEF PaymentFailed
    <2>3. restocked' \in Nat
      <3>1. restocked' = restocked \/ restocked' = restocked + 1
        BY <1>3 DEF PaymentFailed
      <3>2. restocked \in Nat
        BY <1>0 DEF DocumentsTypeOK
      <3> QED BY <3>1, <3>2
    <2>4. reservation' \in {"RESERVED", "COMMITTED", "RELEASED"}
      BY <1>0, <1>3 DEF DocumentsTypeOK, PaymentFailed
    <2>5. UNCHANGED <<mode, captured, gateway, reversed, refunded, walletBack, deadlines,
                      search, delivery, jobs, faults>>
      BY <1>3 DEF PaymentFailed
    <2>6. DocumentsTypeOK' /\ FaultsTypeOK'
      BY <1>0, <2>2, <2>3, <2>4, <2>5 DEF DocumentsTypeOK, FaultsTypeOK
    <2> QED BY <1>0, <2>1, <2>6
  <1>4. CASE MarkArrivedAtStore
    <2>1. HandlersInv' BY <1>0, <1>4, HandlersSameType DEF MarkArrivedAtStore, handlers, DocumentsTypeOK
    <2>2. DocumentsTypeOK' /\ FaultsTypeOK'
      BY <1>0, <1>4, StatusValues DEF DocumentsTypeOK, FaultsTypeOK, MarkArrivedAtStore, handlers
    <2> QED BY <1>0, <2>1, <2>2
  <1>5. CASE ConfirmPickup
    <2>1. HandlersInv' BY <1>0, <1>5, HandlersSameType DEF ConfirmPickup, handlers, DocumentsTypeOK
    <2>2. DocumentsTypeOK' /\ FaultsTypeOK'
      BY <1>0, <1>5, StatusValues DEF DocumentsTypeOK, FaultsTypeOK, ConfirmPickup, handlers
    <2> QED BY <1>0, <2>1, <2>2
  <1>6. CASE Deliver
    <2>1. HandlersInv' BY <1>0, <1>6, HandlersSameType DEF Deliver, handlers, DocumentsTypeOK
    <2>2. DocumentsTypeOK' /\ FaultsTypeOK'
      BY <1>0, <1>6, StatusValues DEF DocumentsTypeOK, FaultsTypeOK, Deliver, handlers
    <2> QED BY <1>0, <2>1, <2>2
  <1>7. ASSUME NEW c \in Contexts, Request(c) PROVE TypeInv'
    <2>1. CASE CheckPending(c)
      <3>1. HandlersInv'
        BY <1>0, <2>1, GotoType, ResumptionValues DEF CheckPending, DocumentsTypeOK
      <3>2. DocumentsTypeOK' /\ FaultsTypeOK'
        BY <1>0, <2>1 DEF DocumentsTypeOK, FaultsTypeOK, CheckPending
      <3> QED BY <1>0, <3>1, <3>2
    <2>2. CASE Capture(c)
      <3>1. HandlersInv'
        BY <1>0, <2>2, GotoType, ResumptionValues DEF Capture, DocumentsTypeOK
      <3>2. DocumentsTypeOK' /\ FaultsTypeOK'
        BY <1>0, <2>2, PaymentStatusValues DEF DocumentsTypeOK, FaultsTypeOK, Capture
      <3> QED BY <1>0, <3>1, <3>2
    <2>3. CASE CustomerCancel(c)
      <3>1. HandlersInv'
        BY <1>0, <2>3, GotoType, ResumptionValues DEF CustomerCancel, DocumentsTypeOK
      <3>2. DocumentsTypeOK' /\ FaultsTypeOK'
        BY <1>0, <2>3 DEF DocumentsTypeOK, FaultsTypeOK, CustomerCancel
      <3> QED BY <1>0, <3>1, <3>2
    <2>4. CASE SellerAccept(c)
      <3>1. HandlersInv'
        BY <1>0, <2>4, GotoType, ResumptionValues DEF SellerAccept, DocumentsTypeOK
      <3>2. DocumentsTypeOK' /\ FaultsTypeOK'
        BY <1>0, <2>4, StatusValues, AttemptsAssumption DEF DocumentsTypeOK, FaultsTypeOK, SellerAccept
      <3> QED BY <1>0, <3>1, <3>2
    <2>5. CASE SellerReject(c)
      <3>1. /\ HandlersInv' /\ ws' \in Statuses
            /\ cancelReason' \in CancelReasons \cup {"none"}
        BY <1>0, <2>5, CancelIfType, ReasonValues DEF SellerReject, DocumentsTypeOK
      <3>2. UNCHANGED <<mode, payment, compensation, deadlines, search, delivery, jobs, faults>>
        BY <2>5 DEF SellerReject
      <3>3. DocumentsTypeOK' /\ FaultsTypeOK'
        BY <1>0, <3>1, <3>2 DEF DocumentsTypeOK, FaultsTypeOK
      <3> QED BY <1>0, <3>1, <3>3
    <2>6. CASE SellerPack(c)
      <3>1. HandlersInv' BY <1>0, <2>6, GotoType, ResumptionValues DEF SellerPack
      <3>2. ws' \in Statuses /\ searchDue' \in BOOLEAN
        BY <2>6, StatusValues DEF SellerPack
      <3>3. attempt' \in 1..MaxAttempts
        BY <2>6, AttemptsAssumption DEF SellerPack
      <3>4. windows' \in SUBSET (1..MaxAttempts)
        BY <1>0, <2>6, AttemptsAssumption DEF DocumentsTypeOK, SellerPack
      <3>5. UNCHANGED <<mode, cancelReason, payment, compensation, sellerDue, reservationDue,
                        skippedBy, delivery, jobs, faults>>
        BY <2>6 DEF SellerPack
      <3>6. DocumentsTypeOK' /\ FaultsTypeOK'
        BY <1>0, <3>2, <3>3, <3>4, <3>5 DEF DocumentsTypeOK, FaultsTypeOK
      <3> QED BY <1>0, <3>1, <3>6
    <2>7. ASSUME NEW r \in Riders, RiderAccept(c, r) PROVE TypeInv'
      <3>1. HandlersInv'
        BY <1>0, <2>7, GotoWithType, ResumptionValues DEF RiderAccept, DocumentsTypeOK
      <3>2. DocumentsTypeOK' /\ FaultsTypeOK'
        BY <1>0, <2>7, StatusValues DEF DocumentsTypeOK, FaultsTypeOK, RiderAccept
      <3> QED BY <1>0, <3>1, <3>2
    <2>8. ASSUME NEW r \in Riders, SkipOrder(c, r) PROVE TypeInv'
      <3>1. HandlersInv'
        BY <1>0, <2>8, GotoWithType, ResumptionValues, AttemptsAssumption DEF SkipOrder, DocumentsTypeOK
      <3>2. DocumentsTypeOK' /\ FaultsTypeOK'
        BY <1>0, <2>8 DEF DocumentsTypeOK, FaultsTypeOK, SkipOrder
      <3> QED BY <1>0, <3>1, <3>2
    <2>9. CASE AdvanceRiderUi(c)
      <3>1. HandlersInv'
        BY <1>0, <2>9, GotoWithType, ResumptionValues, AttemptsAssumption DEF AdvanceRiderUi, DocumentsTypeOK
      <3>2. DocumentsTypeOK' /\ FaultsTypeOK'
        BY <1>0, <2>9 DEF DocumentsTypeOK, FaultsTypeOK, AdvanceRiderUi
      <3> QED BY <1>0, <3>1, <3>2
    <2> QED
      BY <1>7, <2>1, <2>2, <2>3, <2>4, <2>5, <2>6, <2>7, <2>8, <2>9
      DEF Request
  <1>8. ASSUME NEW c \in Contexts, BullJob(c) PROVE TypeInv'
    <2>1. CASE SellerTimeoutJob(c)
      <3>1. HandlersInv'
        BY <1>0, <2>1, GotoType, HandlersSameType, ResumptionValues
        DEF SellerTimeoutJob, ReadSellerTimeout
      <3>2. DocumentsTypeOK' /\ FaultsTypeOK'
        BY <1>0, <2>1 DEF DocumentsTypeOK, FaultsTypeOK, SellerTimeoutJob, RemoveJob
      <3> QED BY <1>0, <3>1, <3>2
    <2>2. ASSUME NEW n \in 1..MaxAttempts, DeliveryTimeoutJob(c, n) PROVE TypeInv'
      <3>1. HandlersInv'
        BY <1>0, <2>2, GotoWithType, HandlersSameType, ResumptionValues, AttemptsAssumption
        DEF DeliveryTimeoutJob, ReadDeliveryTimeout, DeliveryTimeoutDecision, DocumentsTypeOK
      <3>2. DocumentsTypeOK' /\ FaultsTypeOK'
        BY <1>0, <2>2 DEF DocumentsTypeOK, FaultsTypeOK, DeliveryTimeoutJob, RemoveJob
      <3> QED BY <1>0, <3>1, <3>2
    <2> QED
      BY <1>8, <2>1, <2>2
      DEF BullJob
  <1>9. ASSUME NEW c \in Contexts, AutoCancel(c) PROVE TypeInv'
    <2>1. CASE AutoCancelSellerExpired(c)
      <3>1. HandlersInv'
        BY <1>0, <2>1, GotoType, HandlersSameType, ResumptionValues
        DEF AutoCancelSellerExpired, ReadSellerTimeout
      <3>2. DocumentsTypeOK' /\ FaultsTypeOK'
        BY <1>0, <2>1 DEF DocumentsTypeOK, FaultsTypeOK, AutoCancelSellerExpired
      <3> QED BY <1>0, <3>1, <3>2
    <2>2. CASE AutoCancelDeliveryExpired(c)
      <3>1. HandlersInv'
        BY <1>0, <2>2, GotoWithType, HandlersSameType, ResumptionValues, AttemptsAssumption
        DEF AutoCancelDeliveryExpired, ReadDeliveryTimeout, DeliveryTimeoutDecision, DocumentsTypeOK
      <3>2. DocumentsTypeOK' /\ FaultsTypeOK'
        BY <1>0, <2>2 DEF DocumentsTypeOK, FaultsTypeOK, AutoCancelDeliveryExpired
      <3> QED BY <1>0, <3>1, <3>2
    <2>3. CASE AutoCancelPaymentExpired(c)
      <3>1. HandlersInv'
        BY <1>0, <2>3, GotoType, ResumptionValues DEF AutoCancelPaymentExpired, DocumentsTypeOK
      <3>2. DocumentsTypeOK' /\ FaultsTypeOK'
        BY <1>0, <2>3 DEF DocumentsTypeOK, FaultsTypeOK, AutoCancelPaymentExpired
      <3> QED BY <1>0, <3>1, <3>2
    <2> QED
      BY <1>9, <2>1, <2>2, <2>3
      DEF AutoCancel
  <1>10. ASSUME NEW c \in Contexts, Resume(c) PROVE TypeInv'
    <2>1. CASE MirrorPending(c)
      <3>1. HandlersInv'
        BY <1>0, <2>1, DoneType DEF MirrorPending, DocumentsTypeOK
      <3>2. DocumentsTypeOK' /\ FaultsTypeOK'
        BY <1>0, <2>1, PaymentStatusValues DEF DocumentsTypeOK, FaultsTypeOK, MirrorPending
      <3> QED BY <1>0, <3>1, <3>2
    <2>2. CASE MoveOrderToSellerPendingAfterPayment(c)
      <3>1. HandlersInv'
        BY <1>0, <2>2, GotoType, DoneType, ResumptionValues DEF MoveOrderToSellerPendingAfterPayment
      <3>2. ws' \in Statuses /\ sellerDue' \in BOOLEAN
        BY <1>0, <2>2, StatusValues DEF DocumentsTypeOK, HandlersInv, HandlersTypeOK, LocalsReady, MoveOrderToSellerPendingAfterPayment
      <3>3. UNCHANGED <<mode, cancelReason, payment, compensation, searchDue, reservationDue,
                      search, delivery, jobs, faults>>
        BY <2>2 DEF MoveOrderToSellerPendingAfterPayment
      <3>4. DocumentsTypeOK' /\ FaultsTypeOK'
        BY <1>0, <3>2, <3>3 DEF DocumentsTypeOK, FaultsTypeOK
      <3> QED BY <1>0, <3>1, <3>4
    <2>3. CASE AfterPlaceOrderV2(c)
      <3>1. HandlersInv'
        BY <1>0, <2>3, DoneType DEF AfterPlaceOrderV2, DocumentsTypeOK
      <3>2. DocumentsTypeOK' /\ FaultsTypeOK'
        BY <1>0, <2>3, JobValues DEF DocumentsTypeOK, FaultsTypeOK, AfterPlaceOrderV2, AddJob
      <3> QED BY <1>0, <3>1, <3>2
    <2>4. CASE LoadReservation(c)
      <3>1. HandlersInv'
        BY <1>0, <2>4, GotoType, ResumptionValues DEF LoadReservation, DocumentsTypeOK
      <3>2. DocumentsTypeOK' /\ FaultsTypeOK'
        BY <1>0, <2>4 DEF DocumentsTypeOK, FaultsTypeOK, LoadReservation
      <3> QED BY <1>0, <3>1, <3>2
    <2>5. CASE Restock(c)
      <3>1. HandlersInv'
        BY <1>0, <2>5, GotoType, ResumptionValues DEF Restock, DocumentsTypeOK
      <3>2. DocumentsTypeOK' /\ FaultsTypeOK'
        BY <1>0, <2>5 DEF DocumentsTypeOK, FaultsTypeOK, Restock
      <3> QED BY <1>0, <3>1, <3>2
    <2>6. CASE SaveReleased(c)
      <3>1. HandlersInv'
        BY <1>0, <2>6, GotoType, ResumptionValues DEF SaveReleased, DocumentsTypeOK
      <3>2. DocumentsTypeOK' /\ FaultsTypeOK'
        BY <1>0, <2>6 DEF DocumentsTypeOK, FaultsTypeOK, SaveReleased
      <3> QED BY <1>0, <3>1, <3>2
    <2>7. CASE ReverseOrderFinanceOnCancellation(c)
      <3>1. HandlersInv'
        BY <1>0, <2>7, DoneType DEF ReverseOrderFinanceOnCancellation
      <3>2. reversed' \in BOOLEAN /\ walletBack' \in Nat
        <4>1. /\ reversed' = reversed \/ reversed' = TRUE
              /\ walletBack' = walletBack \/ walletBack' = walletBack + 1
          BY <2>7 DEF ReverseOrderFinanceOnCancellation
        <4>2. reversed \in BOOLEAN /\ walletBack \in Nat
          BY <1>0 DEF DocumentsTypeOK
        <4>3. reversed' \in BOOLEAN BY ONLY <4>1, <4>2
        <4>4. walletBack' \in Nat BY ONLY <4>1, <4>2
        <4> QED BY <4>3, <4>4
      <3>3. refunded' \in Nat
        BY <1>0, <2>7 DEF DocumentsTypeOK, ReverseOrderFinanceOnCancellation
      <3>4. paymentStatus' \in PaymentStatuses
        BY <1>0, <2>7, PaymentStatusValues DEF DocumentsTypeOK, ReverseOrderFinanceOnCancellation
      <3>5. UNCHANGED <<mode, ws, cancelReason, captured, gateway, reservation, restocked,
                        deadlines, search, delivery, jobs, faults>>
        BY <2>7 DEF ReverseOrderFinanceOnCancellation
      <3>6. DocumentsTypeOK' /\ FaultsTypeOK'
        BY <1>0, <3>2, <3>3, <3>4, <3>5 DEF DocumentsTypeOK, FaultsTypeOK
      <3> QED BY <1>0, <3>1, <3>6
    <2>8. CASE CustomerCancelUpdate(c)
      <3>1. /\ HandlersInv' /\ ws' \in Statuses
            /\ cancelReason' \in CancelReasons \cup {"none"}
        BY <1>0, <2>8, CancelIfType, ReasonValues DEF CustomerCancelUpdate, DocumentsTypeOK
      <3>2. UNCHANGED <<mode, payment, compensation, deadlines, search, delivery, jobs, faults>>
        BY <2>8 DEF CustomerCancelUpdate
      <3>3. DocumentsTypeOK' /\ FaultsTypeOK'
        BY <1>0, <3>1, <3>2 DEF DocumentsTypeOK, FaultsTypeOK
      <3> QED BY <1>0, <3>1, <3>3
    <2>9. CASE UnscheduleCancelled(c)
      <3>1. HandlersInv'
        BY <1>0, <2>9, GotoType, ResumptionValues DEF UnscheduleCancelled, DocumentsTypeOK
      <3>2. DocumentsTypeOK' /\ FaultsTypeOK'
        BY <1>0, <2>9, JobValues, AttemptsAssumption DEF DocumentsTypeOK, FaultsTypeOK, UnscheduleCancelled, AddJob, RemoveJob
      <3> QED BY <1>0, <3>1, <3>2
    <2>10. CASE UnscheduleAccepted(c)
      <3>1. HandlersInv'
        BY <1>0, <2>10, DoneType DEF UnscheduleAccepted, DocumentsTypeOK
      <3>2. DocumentsTypeOK' /\ FaultsTypeOK'
        BY <1>0, <2>10 DEF DocumentsTypeOK, FaultsTypeOK, UnscheduleAccepted, RemoveJob
      <3> QED BY <1>0, <3>1, <3>2
    <2>11. CASE SchedulePacked(c)
      <3>1. HandlersInv'
        BY <1>0, <2>11, GotoType, ResumptionValues DEF SchedulePacked, DocumentsTypeOK
      <3>2. DocumentsTypeOK' /\ FaultsTypeOK'
        BY <1>0, <2>11, JobValues, AttemptsAssumption DEF DocumentsTypeOK, FaultsTypeOK, SchedulePacked, AddJob, RemoveJob
      <3> QED BY <1>0, <3>1, <3>2
    <2>12. CASE PublishOffer(c)
      <3>1. HandlersInv'
        BY <1>0, <2>12, DoneType DEF PublishOffer, DocumentsTypeOK
      <3>2. DocumentsTypeOK' /\ FaultsTypeOK'
        BY <1>0, <2>12 DEF DocumentsTypeOK, FaultsTypeOK, PublishOffer
      <3> QED BY <1>0, <3>1, <3>2
    <2>13. CASE UnscheduleAssigned(c)
      <3>1. HandlersInv'
        BY <1>0, <2>13, GotoType, ResumptionValues DEF UnscheduleAssigned, DocumentsTypeOK
      <3>2. DocumentsTypeOK' /\ FaultsTypeOK'
        BY <1>0, <2>13, JobValues, AttemptsAssumption DEF DocumentsTypeOK, FaultsTypeOK, UnscheduleAssigned, AddJob, RemoveJob
      <3> QED BY <1>0, <3>1, <3>2
    <2>14. CASE RecordWinner(c)
      <3>1. HandlersInv' BY <1>0, <2>14, DoneType DEF RecordWinner
      <3>2. offer' \in [status : {"none", "broadcasting", "assigned"},
                        winner : Riders \cup {NoRider}]
        BY <1>0, <2>14 DEF DocumentsTypeOK, HandlersInv, HandlersTypeOK, LocalsReady, RecordWinner
      <3>3. UNCHANGED <<mode, ws, cancelReason, payment, compensation, deadlines, search, rider,
                      step, version, jobs, faults>>
        BY <2>14 DEF RecordWinner
      <3>4. DocumentsTypeOK' /\ FaultsTypeOK'
        BY <1>0, <3>2, <3>3 DEF DocumentsTypeOK, FaultsTypeOK
      <3> QED BY <1>0, <3>1, <3>4
    <2>15. CASE SaveSkip(c)
      <3>1. HandlersInv' BY <1>0, <2>15, DoneType DEF SaveSkip
      <3>2. skippedBy' \in SUBSET Riders
        BY <1>0, <2>15 DEF DocumentsTypeOK, HandlersInv, HandlersTypeOK, LocalsReady, SaveSkip
      <3>3. UNCHANGED <<mode, ws, cancelReason, payment, compensation, deadlines, attempt, windows,
                      delivery, jobs, faults>>
        BY <2>15 DEF SaveSkip
      <3>4. DocumentsTypeOK' /\ FaultsTypeOK'
        BY <1>0, <3>2, <3>3 DEF DocumentsTypeOK, FaultsTypeOK
      <3> QED BY <1>0, <3>1, <3>4
    <2>16. CASE AdvanceRiderUiUpdate(c)
      <3>1. HandlersInv'
        BY <1>0, <2>16, DoneType DEF AdvanceRiderUiUpdate, DocumentsTypeOK
      <3>2. DocumentsTypeOK' /\ FaultsTypeOK'
        BY <1>0, <2>16 DEF DocumentsTypeOK, FaultsTypeOK, AdvanceRiderUiUpdate
      <3> QED BY <1>0, <3>1, <3>2
    <2>17. CASE SellerTimeoutUpdate(c)
      <3>1. /\ HandlersInv' /\ ws' \in Statuses
            /\ cancelReason' \in CancelReasons \cup {"none"}
        BY <1>0, <2>17, CancelIfType, ReasonValues DEF SellerTimeoutUpdate, DocumentsTypeOK
      <3>2. UNCHANGED <<mode, payment, compensation, deadlines, search, delivery, jobs, faults>>
        BY <2>17 DEF SellerTimeoutUpdate
      <3>3. DocumentsTypeOK' /\ FaultsTypeOK'
        BY <1>0, <3>1, <3>2 DEF DocumentsTypeOK, FaultsTypeOK
      <3> QED BY <1>0, <3>1, <3>3
    <2>18. CASE ExtendSearch(c)
      <3>1. HandlersInv' BY <1>0, <2>18, GotoType, ResumptionValues DEF ExtendSearch
      <3>2. seen[c] + 1 \in 1..MaxAttempts
        BY <1>0, <2>18, AttemptsAssumption
        DEF HandlersInv, HandlersTypeOK, LocalsReady, ExtendSearch
      <3>3. searchDue' \in BOOLEAN /\ attempt' \in 1..MaxAttempts
        <4>1. /\ searchDue' = searchDue \/ searchDue' = FALSE
              /\ attempt' = attempt \/ attempt' = seen[c] + 1
          BY <2>18 DEF ExtendSearch
        <4>2. searchDue \in BOOLEAN /\ attempt \in 1..MaxAttempts
          BY <1>0 DEF DocumentsTypeOK
        <4>3. searchDue' \in BOOLEAN BY ONLY <4>1, <4>2
        <4>4. attempt' \in 1..MaxAttempts BY ONLY <3>2, <4>1, <4>2, AttemptsAssumption
        <4> QED BY <4>3, <4>4
      <3>4. windows' \in SUBSET (1..MaxAttempts)
        <4>1. windows' = windows \/ windows' = windows \cup {seen[c] + 1}
          BY <2>18 DEF ExtendSearch
        <4> QED BY <1>0, <3>2, <4>1 DEF DocumentsTypeOK
      <3>5. UNCHANGED <<mode, ws, cancelReason, payment, compensation, sellerDue,
                        reservationDue, skippedBy, delivery, jobs, faults>>
        BY <2>18 DEF ExtendSearch
      <3>6. DocumentsTypeOK' /\ FaultsTypeOK'
        BY <1>0, <3>3, <3>4, <3>5 DEF DocumentsTypeOK, FaultsTypeOK
      <3> QED BY <1>0, <3>1, <3>6
    <2>19. CASE Reschedule(c)
      <3>1. HandlersInv'
        BY <1>0, <2>19, DoneType DEF Reschedule
      <3>2. DeliveryJob(seen[c] + 1) \in Jobs
        <4>1. seen[c] + 1 \in 1..MaxAttempts
          BY <1>0, <2>19, AttemptsAssumption
          DEF HandlersInv, HandlersTypeOK, LocalsReady, Reschedule
        <4> QED BY <4>1, JobValues
      <3>3. DocumentsTypeOK' /\ FaultsTypeOK'
        BY <1>0, <2>19, <3>2 DEF DocumentsTypeOK, FaultsTypeOK, Reschedule, AddJob
      <3> QED BY <1>0, <3>1, <3>3
    <2>20. CASE GiveUpSearch(c)
      <3>1. /\ HandlersInv' /\ ws' \in Statuses
            /\ cancelReason' \in CancelReasons \cup {"none"}
        BY <1>0, <2>20, CancelIfType, ReasonValues DEF GiveUpSearch, DocumentsTypeOK
      <3>2. UNCHANGED <<mode, payment, compensation, deadlines, search, delivery, jobs, faults>>
        BY <2>20 DEF GiveUpSearch
      <3>3. DocumentsTypeOK' /\ FaultsTypeOK'
        BY <1>0, <3>1, <3>2 DEF DocumentsTypeOK, FaultsTypeOK
      <3> QED BY <1>0, <3>1, <3>3
    <2>21. CASE PaymentTimeoutUpdate(c)
      <3>1. /\ HandlersInv' /\ ws' \in Statuses
            /\ cancelReason' \in CancelReasons \cup {"none"}
        BY <1>0, <2>21, CancelIfType, ReasonValues DEF PaymentTimeoutUpdate, DocumentsTypeOK
      <3>2. UNCHANGED <<mode, payment, compensation, deadlines, search, delivery, jobs, faults>>
        BY <2>21 DEF PaymentTimeoutUpdate
      <3>3. DocumentsTypeOK' /\ FaultsTypeOK'
        BY <1>0, <3>1, <3>2 DEF DocumentsTypeOK, FaultsTypeOK
      <3> QED BY <1>0, <3>1, <3>3
    <2> QED
      BY <1>10, <2>1, <2>2, <2>3, <2>4, <2>5, <2>6, <2>7, <2>8, <2>9, <2>10, <2>11, <2>12, <2>13, <2>14, <2>15, <2>16, <2>17, <2>18, <2>19, <2>20, <2>21
      DEF Resume
  <1>11. ASSUME NEW c \in Contexts, ReversalFails(c) PROVE TypeInv'
    <2>1. HandlersInv'
      BY <1>0, <1>11, DoneType DEF ReversalFails, DocumentsTypeOK
    <2>2. DocumentsTypeOK' /\ FaultsTypeOK'
      BY <1>0, <1>11, FaultBoundAssumption DEF DocumentsTypeOK, FaultsTypeOK, ReversalFails
    <2> QED BY <1>0, <2>1, <2>2
  <1>12. ASSUME NEW c \in Contexts, Crash(c) PROVE TypeInv'
    <2>1. HandlersInv'
      BY <1>0, <1>12, DoneType DEF Crash, DocumentsTypeOK
    <2>2. DocumentsTypeOK' /\ FaultsTypeOK'
      BY <1>0, <1>12, FaultBoundAssumption DEF DocumentsTypeOK, FaultsTypeOK, Crash
    <2> QED BY <1>0, <2>1, <2>2
  <1>13. CASE UNCHANGED vars
    <2>1. HandlersInv' BY <1>0, <1>13, HandlersSameType DEF vars, handlers
    <2>2. DocumentsTypeOK' /\ FaultsTypeOK' BY <1>0, <1>13 DEF DocumentsTypeOK, FaultsTypeOK, vars
    <2> QED BY <1>0, <2>1, <2>2
  <1> QED
    BY <1>1, <1>2, <1>3, <1>4, <1>5, <1>6, <1>7, <1>8, <1>9, <1>10, <1>11, <1>12, <1>13
    DEF Next

\* Every variable keeps its type in every execution, for every value of the
\* constants: the attempt number and the delivery job ids never pass
\* DELIVERY_SEARCH_MAX_ATTEMPTS.
THEOREM TypeCorrect == Spec => []TypeOK
  <1>1. Init => TypeInv BY TypeInit
  <1>2. TypeInv /\ [Next]_vars => TypeInv' BY TypeStep
  <1>3. TypeInv => TypeOK BY DEF TypeInv
  <1> QED BY <1>1, <1>2, <1>3, PTL DEF Spec

-----------------------------------------------------------------------------
(* A step keeps S if no context reaches one of the statements S by it, and *)
(* those already there keep their locals.                                  *)

Keeps(S) ==
    \A d \in Contexts :
        \/ pc'[d] = pc[d] /\ seen'[d] = seen[d] /\ who'[d] = who[d]
        \/ pc'[d] \notin S

LEMMA GotoKeeps ==
  ASSUME HandlersTypeOK, NEW S, NEW c \in Contexts, NEW label, label \notin S,
         Goto(c, label)
  PROVE  Keeps(S)
  BY DEF HandlersTypeOK, Goto, Keeps

LEMMA GotoWithKeeps ==
  ASSUME HandlersTypeOK, NEW S, NEW c \in Contexts, NEW label, label \notin S,
         NEW n, NEW r, GotoWith(c, label, n, r)
  PROVE  Keeps(S)
  BY DEF HandlersTypeOK, GotoWith, Keeps

LEMMA DoneKeeps ==
  ASSUME HandlersTypeOK, NEW S, "idle" \notin S, NEW c \in Contexts, Done(c)
  PROVE  Keeps(S)
  BY GotoWithKeeps DEF Done

LEMMA SameKeeps ==
  ASSUME NEW S, UNCHANGED handlers
  PROVE  Keeps(S)
  BY DEF Keeps, handlers

-----------------------------------------------------------------------------
(* Stock.  Only the handler that cancelled the order compensates it, so at *)
(* most one context is between the cancelling update and the release, and  *)
(* what it has not done yet nobody else has done.                          *)

Restocking == {"cancelled", "load", "restock", "release"}
Compensating == Restocking \cup {"refund"}

StockInv ==
    /\ StockReturnedOnce
    /\ \A c \in Contexts :
         /\ pc[c] \in Compensating => ws = "CANCELLED"
         /\ pc[c] \in {"cancelled", "load", "restock"} => restocked = 0
         /\ pc[c] = "release" => restocked = 1
         /\ pc[c] \in Restocking => reservation # "RELEASED"
    /\ \A c, d \in Contexts : pc[c] \in Restocking /\ pc[d] \in Restocking => c = d

\* A step that cancels nothing, restocks nothing and sends no context into the
\* compensation.
LEMMA StockQuiet ==
  ASSUME StockInv, Keeps(Compensating), UNCHANGED <<restocked, reservation>>,
         ws' = ws \/ (ws # "CANCELLED" /\ ws' # "CANCELLED")
  PROVE  StockInv'
  BY DEF StockInv, StockReturnedOnce, Keeps, Compensating, Restocking

LEMMA StockCancel ==
  ASSUME HandlersTypeOK, restocked \in Nat, StockInv, NEW c \in Contexts,
         NEW open \in BOOLEAN, open => ws # "CANCELLED", NEW reason,
         NEW next \in {"load", "cancelled"}, CancelIf(c, open, reason, next),
         UNCHANGED <<restocked, reservation>>
  PROVE  StockInv'
  <1>1. CASE open
    <2>1. /\ ws' = "CANCELLED" /\ pc' = [pc EXCEPT ![c] = next]
          /\ restocked = 0 /\ reservation # "RELEASED"
          /\ \A d \in Contexts : pc[d] \notin Compensating
      BY <1>1 DEF CancelIf, Goto, StockInv, StockReturnedOnce
    <2>2. \A d \in Contexts : d # c => pc'[d] \notin Compensating
      BY <2>1 DEF HandlersTypeOK
    <2>3. pc'[c] \in {"load", "cancelled"}
      BY <2>1 DEF HandlersTypeOK
    <2> QED
      BY <2>1, <2>2, <2>3 DEF StockInv, StockReturnedOnce, Compensating, Restocking
  <1>2. CASE ~open
    <2>1. Done(c) /\ UNCHANGED ws
      BY <1>2 DEF CancelIf
    <2>2. Keeps(Compensating)
      BY <2>1, DoneKeeps DEF Compensating, Restocking
    <2> QED BY <2>1, <2>2, StockQuiet
  <1> QED BY <1>1, <1>2

LEMMA StockStep == TypeInv /\ StockInv /\ [Next]_vars => StockInv'
  <1> SUFFICES ASSUME TypeInv, StockInv, [Next]_vars PROVE StockInv'
    OBVIOUS
  <1>0. HandlersTypeOK /\ restocked \in Nat
    BY DEF TypeInv, TypeOK, DocumentsTypeOK
  <1> USE DEF payment, compensation, deadlines, search, delivery, faults
  <1>1. CASE Clock \/ GatewaySettles
    BY <1>0, <1>1, SameKeeps, StockQuiet
    DEF Clock, SellerDeadline, SearchDeadline, ReservationDeadline, GatewaySettles,
        handlers
  <1>2. CASE PaymentFailed
    <2>1. /\ ws = "CREATED" /\ ws' = "CANCELLED" /\ UNCHANGED handlers
          /\ \/ restocked' = restocked + 1 /\ reservation' = "RELEASED"
             \/ UNCHANGED <<restocked, reservation>>
      BY <1>2 DEF PaymentFailed
    <2>2. restocked = 0 /\ reservation # "RELEASED"
      BY <1>0, <2>1 DEF StockInv, StockReturnedOnce
    <2>3. \A d \in Contexts : pc'[d] \notin Compensating
      BY <2>1 DEF StockInv, handlers
    <2>4. StockReturnedOnce'
      BY <2>1, <2>2 DEF StockReturnedOnce
    <2> QED BY <2>3, <2>4 DEF StockInv, Compensating, Restocking
  <1>3. CASE MarkArrivedAtStore \/ ConfirmPickup
    BY <1>0, <1>3, SameKeeps, StockQuiet
    DEF MarkArrivedAtStore, ConfirmPickup, handlers, Compensating, Restocking
  <1>4. CASE Deliver
    BY <1>0, <1>4, SameKeeps, StockQuiet
    DEF Deliver, handlers, Compensating, Restocking
  <1>5. ASSUME NEW c \in Contexts, Request(c) PROVE StockInv'
    <2>1. CASE CheckPending(c)
      BY <1>0, <2>1, GotoKeeps, StockQuiet
      DEF CheckPending, Compensating, Restocking
    <2>2. CASE Capture(c)
      BY <1>0, <2>2, GotoKeeps, StockQuiet
      DEF Capture, Compensating, Restocking
    <2>3. CASE CustomerCancel(c)
      BY <1>0, <2>3, GotoKeeps, StockQuiet
      DEF CustomerCancel, Compensating, Restocking
    <2>4. CASE SellerAccept(c)
      BY <1>0, <2>4, GotoKeeps, StockQuiet
      DEF SellerAccept, Compensating, Restocking
    <2>5. CASE SellerReject(c)
      BY <1>0, <2>5, StockCancel DEF SellerReject
    <2>6. CASE SellerPack(c)
      BY <1>0, <2>6, GotoKeeps, StockQuiet
      DEF SellerPack, Compensating, Restocking
    <2>7. ASSUME NEW r \in Riders, RiderAccept(c, r) PROVE StockInv'
      BY <1>0, <2>7, GotoWithKeeps, StockQuiet
      DEF RiderAccept, Compensating, Restocking
    <2>8. ASSUME NEW r \in Riders, SkipOrder(c, r) PROVE StockInv'
      BY <1>0, <2>8, GotoWithKeeps, StockQuiet
      DEF SkipOrder, Compensating, Restocking
    <2>9. CASE AdvanceRiderUi(c)
      BY <1>0, <2>9, GotoWithKeeps, StockQuiet
      DEF AdvanceRiderUi, Compensating, Restocking
    <2> QED BY <1>5, <2>1, <2>2, <2>3, <2>4, <2>5, <2>6, <2>7, <2>8, <2>9 DEF Request
  <1>6. ASSUME NEW c \in Contexts, BullJob(c) PROVE StockInv'
    <2>1. CASE SellerTimeoutJob(c)
      BY <1>0, <2>1, GotoKeeps, SameKeeps, StockQuiet
      DEF SellerTimeoutJob, ReadSellerTimeout, Compensating, Restocking
    <2>2. ASSUME NEW n \in 1..MaxAttempts, DeliveryTimeoutJob(c, n) PROVE StockInv'
      BY <1>0, <2>2, GotoWithKeeps, SameKeeps, StockQuiet
      DEF DeliveryTimeoutJob, ReadDeliveryTimeout, DeliveryTimeoutDecision,
          Compensating, Restocking
    <2> QED BY <1>6, <2>1, <2>2 DEF BullJob
  <1>7. ASSUME NEW c \in Contexts, AutoCancel(c) PROVE StockInv'
    <2>1. CASE AutoCancelSellerExpired(c)
      BY <1>0, <2>1, GotoKeeps, SameKeeps, StockQuiet
      DEF AutoCancelSellerExpired, ReadSellerTimeout, Compensating, Restocking
    <2>2. CASE AutoCancelDeliveryExpired(c)
      BY <1>0, <2>2, GotoWithKeeps, SameKeeps, StockQuiet
      DEF AutoCancelDeliveryExpired, ReadDeliveryTimeout, DeliveryTimeoutDecision,
          Compensating, Restocking
    <2>3. CASE AutoCancelPaymentExpired(c)
      BY <1>0, <2>3, GotoKeeps, StockQuiet
      DEF AutoCancelPaymentExpired, Compensating, Restocking
    <2> QED BY <1>7, <2>1, <2>2, <2>3 DEF AutoCancel
  <1>8. ASSUME NEW c \in Contexts, Resume(c) PROVE StockInv'
    <2>1. CASE MirrorPending(c)
      BY <1>0, <2>1, DoneKeeps, StockQuiet
      DEF MirrorPending, Compensating, Restocking
    <2>2. CASE MoveOrderToSellerPendingAfterPayment(c)
      BY <1>0, <2>2, GotoKeeps, DoneKeeps, StockQuiet
      DEF MoveOrderToSellerPendingAfterPayment, Compensating, Restocking
    <2>3. CASE AfterPlaceOrderV2(c)
      BY <1>0, <2>3, DoneKeeps, StockQuiet
      DEF AfterPlaceOrderV2, Compensating, Restocking
    <2>4. CASE LoadReservation(c)
      BY <1>0, <2>4 DEF LoadReservation, Goto, HandlersTypeOK, StockInv,
          StockReturnedOnce, Compensating, Restocking
    <2>5. CASE Restock(c)
      BY <1>0, <2>5 DEF Restock, Goto, HandlersTypeOK, StockInv, StockReturnedOnce,
          Compensating, Restocking
    <2>6. CASE SaveReleased(c)
      BY <1>0, <2>6 DEF SaveReleased, Goto, HandlersTypeOK, StockInv,
          StockReturnedOnce, Compensating, Restocking
    <2>7. CASE ReverseOrderFinanceOnCancellation(c)
      BY <1>0, <2>7, DoneKeeps, StockQuiet
      DEF ReverseOrderFinanceOnCancellation, Compensating, Restocking
    <2>8. CASE CustomerCancelUpdate(c)
      BY <1>0, <2>8, StockCancel DEF CustomerCancelUpdate
    <2>9. CASE UnscheduleCancelled(c)
      BY <1>0, <2>9 DEF UnscheduleCancelled, Goto, HandlersTypeOK, StockInv,
          StockReturnedOnce, Compensating, Restocking
    <2>10. CASE UnscheduleAccepted(c)
      BY <1>0, <2>10, DoneKeeps, StockQuiet
      DEF UnscheduleAccepted, Compensating, Restocking
    <2>11. CASE SchedulePacked(c)
      BY <1>0, <2>11, GotoKeeps, StockQuiet
      DEF SchedulePacked, Compensating, Restocking
    <2>12. CASE PublishOffer(c)
      BY <1>0, <2>12, DoneKeeps, StockQuiet
      DEF PublishOffer, Compensating, Restocking
    <2>13. CASE UnscheduleAssigned(c)
      BY <1>0, <2>13, GotoKeeps, StockQuiet
      DEF UnscheduleAssigned, Compensating, Restocking
    <2>14. CASE RecordWinner(c)
      BY <1>0, <2>14, DoneKeeps, StockQuiet
      DEF RecordWinner, Compensating, Restocking
    <2>15. CASE SaveSkip(c)
      BY <1>0, <2>15, DoneKeeps, StockQuiet
      DEF SaveSkip, Compensating, Restocking
    <2>16. CASE AdvanceRiderUiUpdate(c)
      BY <1>0, <2>16, DoneKeeps, StockQuiet
      DEF AdvanceRiderUiUpdate, Compensating, Restocking
    <2>17. CASE SellerTimeoutUpdate(c)
      BY <1>0, <2>17, StockCancel DEF SellerTimeoutUpdate
    <2>18. CASE ExtendSearch(c)
      BY <1>0, <2>18, GotoKeeps, StockQuiet
      DEF ExtendSearch, Compensating, Restocking
    <2>19. CASE Reschedule(c)
      BY <1>0, <2>19, DoneKeeps, StockQuiet
      DEF Reschedule, Compensating, Restocking
    <2>20. CASE GiveUpSearch(c)
      BY <1>0, <2>20, StockCancel DEF GiveUpSearch
    <2>21. CASE PaymentTimeoutUpdate(c)
      BY <1>0, <2>21, StockCancel DEF PaymentTimeoutUpdate
    <2> QED BY <1>8, <2>1, <2>2, <2>3, <2>4, <2>5, <2>6, <2>7, <2>8, <2>9, <2>10, <2>11,
         <2>12, <2>13, <2>14, <2>15, <2>16, <2>17, <2>18, <2>19, <2>20, <2>21 DEF Resume
  <1>9. ASSUME NEW c \in Contexts, ReversalFails(c) \/ Crash(c) PROVE StockInv'
    BY <1>0, <1>9, DoneKeeps, StockQuiet
    DEF ReversalFails, Crash, Compensating, Restocking
  <1>10. CASE UNCHANGED vars
    BY <1>0, <1>10, SameKeeps, StockQuiet DEF vars, handlers
  <1> QED BY <1>1, <1>2, <1>3, <1>4, <1>5, <1>6, <1>7, <1>8, <1>9, <1>10 DEF Next

LEMMA SafeStock == Spec => [](TypeInv /\ StockInv)
  <1>1. Init => StockInv
    BY DEF Init, StockInv, StockReturnedOnce, Compensating, Restocking
  <1>2. TypeInv /\ StockInv /\ [Next]_vars => StockInv' BY StockStep
  <1>3. Init => TypeInv BY TypeInit
  <1>4. TypeInv /\ [Next]_vars => TypeInv' BY TypeStep
  <1> QED BY <1>1, <1>2, <1>3, <1>4, PTL DEF Spec

\* The goods of an order return to the shelf at most once, only for a cancelled
\* order, and its reservation is marked released only after that, for any
\* number of racing handlers and crashes (orderCompensation.js).
THEOREM StockCorrect == Spec => []StockReturnedOnce
  <1>1. StockInv => StockReturnedOnce BY DEF StockInv
  <1> QED BY <1>1, SafeStock, PTL

-----------------------------------------------------------------------------
(* Payment.  The captured payment moves the order on after it was captured; *)
(* the reversal runs only in a cancelled order (StockInv) and only once.   *)

PaymentInv ==
    /\ PaidBeforeSeller
    /\ MoneyReturnedOnce
    /\ ws # "CANCELLED" => ~reversed
    /\ ~reversed => refunded = 0 /\ walletBack = 0
    /\ \A c \in Contexts : pc[c] = "move" => captured

\* A step that moves no money, sends no context to "move" and leaves the
\* status, cancels the order, or takes it on from where it was already paid.
LEMMA PaymentQuiet ==
  ASSUME PaymentInv, Keeps({"move"}),
         UNCHANGED <<mode, captured, reversed, refunded, walletBack>>,
         \/ ws' = ws
         \/ ws' = "CANCELLED"
         \/ ws \notin {"CREATED", "CANCELLED"} /\ ws' # "CANCELLED"
  PROVE  PaymentInv'
  <1>1. PaidBeforeSeller'
    BY DEF PaymentInv, PaidBeforeSeller
  <1>2. MoneyReturnedOnce'
    BY DEF PaymentInv, MoneyReturnedOnce
  <1>3. \A c \in Contexts : pc'[c] = "move" => captured'
    BY DEF PaymentInv, Keeps
  <1> QED BY <1>1, <1>2, <1>3 DEF PaymentInv

LEMMA PaymentCancel ==
  ASSUME HandlersTypeOK, PaymentInv, NEW c \in Contexts, NEW open, NEW reason,
         NEW next \in {"load", "cancelled"}, CancelIf(c, open, reason, next),
         UNCHANGED <<mode, captured, reversed, refunded, walletBack>>
  PROVE  PaymentInv'
  <1>1. ws' \in {ws, "CANCELLED"} /\ (Goto(c, next) \/ Done(c))
    BY DEF CancelIf
  <1>2. Keeps({"move"})
    BY <1>1, GotoKeeps, DoneKeeps
  <1> QED BY <1>1, <1>2, PaymentQuiet

LEMMA PaymentStep == TypeInv /\ StockInv /\ PaymentInv /\ [Next]_vars => PaymentInv'
  <1> SUFFICES ASSUME TypeInv, StockInv, PaymentInv, [Next]_vars PROVE PaymentInv'
    OBVIOUS
  <1>0. HandlersTypeOK
    BY DEF TypeInv, TypeOK, DocumentsTypeOK
  <1> USE DEF payment, compensation, deadlines, search, delivery, faults
  <1>1. CASE Clock \/ GatewaySettles
    BY <1>0, <1>1, SameKeeps, PaymentQuiet
    DEF Clock, SellerDeadline, SearchDeadline, ReservationDeadline, GatewaySettles,
        handlers
  <1>2. CASE PaymentFailed
    BY <1>0, <1>2, SameKeeps, PaymentQuiet
    DEF PaymentFailed
  <1>3. CASE MarkArrivedAtStore \/ ConfirmPickup
    BY <1>0, <1>3, SameKeeps, PaymentQuiet
    DEF MarkArrivedAtStore, ConfirmPickup, handlers
  <1>4. CASE Deliver
    BY <1>0, <1>4, SameKeeps, PaymentQuiet
    DEF Deliver, handlers
  <1>5. ASSUME NEW c \in Contexts, Request(c) PROVE PaymentInv'
    <2>1. CASE CheckPending(c)
      BY <1>0, <2>1, GotoKeeps, PaymentQuiet
      DEF CheckPending
    <2>2. CASE Capture(c)
      <3>1. /\ captured' = TRUE /\ Goto(c, "move")
            /\ UNCHANGED <<mode, ws, reversed, refunded, walletBack>>
        BY <2>2 DEF Capture
      <3> QED
        BY <3>1 DEF PaymentInv, PaidBeforeSeller, MoneyReturnedOnce
    <2>3. CASE CustomerCancel(c)
      BY <1>0, <2>3, GotoKeeps, PaymentQuiet
      DEF CustomerCancel
    <2>4. CASE SellerAccept(c)
      BY <1>0, <2>4, GotoKeeps, PaymentQuiet
      DEF SellerAccept
    <2>5. CASE SellerReject(c)
      BY <1>0, <2>5, PaymentCancel DEF SellerReject
    <2>6. CASE SellerPack(c)
      BY <1>0, <2>6, GotoKeeps, PaymentQuiet
      DEF SellerPack
    <2>7. ASSUME NEW r \in Riders, RiderAccept(c, r) PROVE PaymentInv'
      BY <1>0, <2>7, GotoWithKeeps, PaymentQuiet
      DEF RiderAccept
    <2>8. ASSUME NEW r \in Riders, SkipOrder(c, r) PROVE PaymentInv'
      BY <1>0, <2>8, GotoWithKeeps, PaymentQuiet
      DEF SkipOrder
    <2>9. CASE AdvanceRiderUi(c)
      BY <1>0, <2>9, GotoWithKeeps, PaymentQuiet
      DEF AdvanceRiderUi
    <2> QED BY <1>5, <2>1, <2>2, <2>3, <2>4, <2>5, <2>6, <2>7, <2>8, <2>9 DEF Request
  <1>6. ASSUME NEW c \in Contexts, BullJob(c) PROVE PaymentInv'
    <2>1. CASE SellerTimeoutJob(c)
      BY <1>0, <2>1, GotoKeeps, SameKeeps, PaymentQuiet
      DEF SellerTimeoutJob, ReadSellerTimeout
    <2>2. ASSUME NEW n \in 1..MaxAttempts, DeliveryTimeoutJob(c, n) PROVE PaymentInv'
      BY <1>0, <2>2, GotoWithKeeps, SameKeeps, PaymentQuiet
      DEF DeliveryTimeoutJob, ReadDeliveryTimeout, DeliveryTimeoutDecision
    <2> QED BY <1>6, <2>1, <2>2 DEF BullJob
  <1>7. ASSUME NEW c \in Contexts, AutoCancel(c) PROVE PaymentInv'
    <2>1. CASE AutoCancelSellerExpired(c)
      BY <1>0, <2>1, GotoKeeps, SameKeeps, PaymentQuiet
      DEF AutoCancelSellerExpired, ReadSellerTimeout
    <2>2. CASE AutoCancelDeliveryExpired(c)
      BY <1>0, <2>2, GotoWithKeeps, SameKeeps, PaymentQuiet
      DEF AutoCancelDeliveryExpired, ReadDeliveryTimeout, DeliveryTimeoutDecision
    <2>3. CASE AutoCancelPaymentExpired(c)
      BY <1>0, <2>3, GotoKeeps, PaymentQuiet
      DEF AutoCancelPaymentExpired
    <2> QED BY <1>7, <2>1, <2>2, <2>3 DEF AutoCancel
  <1>8. ASSUME NEW c \in Contexts, Resume(c) PROVE PaymentInv'
    <2>1. CASE MirrorPending(c)
      BY <1>0, <2>1, DoneKeeps, PaymentQuiet
      DEF MirrorPending
    <2>2. CASE MoveOrderToSellerPendingAfterPayment(c)
      <3>1. /\ captured /\ Keeps({"move"})
            /\ UNCHANGED <<mode, captured, reversed, refunded, walletBack>>
        BY <1>0, <2>2, GotoKeeps, DoneKeeps
        DEF MoveOrderToSellerPendingAfterPayment, PaymentInv
      <3>2. CASE ws = "CREATED" /\ ws' = "SELLER_PENDING"
        BY <3>1, <3>2 DEF PaymentInv, PaidBeforeSeller, MoneyReturnedOnce, Keeps
      <3>3. CASE UNCHANGED ws
        BY <3>1, <3>3, PaymentQuiet
      <3> QED BY <2>2, <3>2, <3>3 DEF MoveOrderToSellerPendingAfterPayment
    <2>3. CASE AfterPlaceOrderV2(c)
      BY <1>0, <2>3, DoneKeeps, PaymentQuiet
      DEF AfterPlaceOrderV2
    <2>4. CASE LoadReservation(c)
      BY <1>0, <2>4, GotoKeeps, PaymentQuiet
      DEF LoadReservation
    <2>5. CASE Restock(c)
      BY <1>0, <2>5, GotoKeeps, PaymentQuiet
      DEF Restock
    <2>6. CASE SaveReleased(c)
      BY <1>0, <2>6, GotoKeeps, PaymentQuiet
      DEF SaveReleased
    <2>7. CASE ReverseOrderFinanceOnCancellation(c)
      <3>1. /\ ws = "CANCELLED" /\ Keeps({"move"})
            /\ UNCHANGED <<mode, ws, captured>>
        BY <1>0, <2>7, DoneKeeps
        DEF ReverseOrderFinanceOnCancellation, StockInv, Compensating
      <3>2. CASE UNCHANGED <<reversed, refunded, walletBack>>
        BY <3>1, <3>2, PaymentQuiet
      <3>3. CASE /\ ~reversed /\ reversed' = TRUE /\ walletBack' = walletBack + 1
                 /\ \/ captured /\ refunded' = refunded + 1
                    \/ UNCHANGED refunded
        <4>1. refunded = 0 /\ walletBack = 0 BY <3>3 DEF PaymentInv
        <4>2. MoneyReturnedOnce' BY <3>1, <3>3, <4>1 DEF MoneyReturnedOnce
        <4> QED
          BY <3>1, <3>3, <4>2 DEF PaymentInv, PaidBeforeSeller, Keeps
      <3> QED BY <2>7, <3>2, <3>3 DEF ReverseOrderFinanceOnCancellation
    <2>8. CASE CustomerCancelUpdate(c)
      BY <1>0, <2>8, PaymentCancel DEF CustomerCancelUpdate
    <2>9. CASE UnscheduleCancelled(c)
      BY <1>0, <2>9, GotoKeeps, PaymentQuiet
      DEF UnscheduleCancelled
    <2>10. CASE UnscheduleAccepted(c)
      BY <1>0, <2>10, DoneKeeps, PaymentQuiet
      DEF UnscheduleAccepted
    <2>11. CASE SchedulePacked(c)
      BY <1>0, <2>11, GotoKeeps, PaymentQuiet
      DEF SchedulePacked
    <2>12. CASE PublishOffer(c)
      BY <1>0, <2>12, DoneKeeps, PaymentQuiet
      DEF PublishOffer
    <2>13. CASE UnscheduleAssigned(c)
      BY <1>0, <2>13, GotoKeeps, PaymentQuiet
      DEF UnscheduleAssigned
    <2>14. CASE RecordWinner(c)
      BY <1>0, <2>14, DoneKeeps, PaymentQuiet
      DEF RecordWinner
    <2>15. CASE SaveSkip(c)
      BY <1>0, <2>15, DoneKeeps, PaymentQuiet
      DEF SaveSkip
    <2>16. CASE AdvanceRiderUiUpdate(c)
      BY <1>0, <2>16, DoneKeeps, PaymentQuiet
      DEF AdvanceRiderUiUpdate
    <2>17. CASE SellerTimeoutUpdate(c)
      BY <1>0, <2>17, PaymentCancel DEF SellerTimeoutUpdate
    <2>18. CASE ExtendSearch(c)
      BY <1>0, <2>18, GotoKeeps, PaymentQuiet
      DEF ExtendSearch
    <2>19. CASE Reschedule(c)
      BY <1>0, <2>19, DoneKeeps, PaymentQuiet
      DEF Reschedule
    <2>20. CASE GiveUpSearch(c)
      BY <1>0, <2>20, PaymentCancel DEF GiveUpSearch
    <2>21. CASE PaymentTimeoutUpdate(c)
      BY <1>0, <2>21, PaymentCancel DEF PaymentTimeoutUpdate
    <2> QED BY <1>8, <2>1, <2>2, <2>3, <2>4, <2>5, <2>6, <2>7, <2>8, <2>9, <2>10, <2>11,
         <2>12, <2>13, <2>14, <2>15, <2>16, <2>17, <2>18, <2>19, <2>20, <2>21 DEF Resume
  <1>9. ASSUME NEW c \in Contexts, ReversalFails(c) \/ Crash(c) PROVE PaymentInv'
    BY <1>0, <1>9, DoneKeeps, PaymentQuiet
    DEF ReversalFails, Crash
  <1>10. CASE UNCHANGED vars
    BY <1>0, <1>10, SameKeeps, PaymentQuiet DEF vars, handlers
  <1> QED BY <1>1, <1>2, <1>3, <1>4, <1>5, <1>6, <1>7, <1>8, <1>9, <1>10 DEF Next

LEMMA PaymentInvariant == Spec => []PaymentInv
  <1>1. Init => PaymentInv
    BY DEF Init, PaymentInv, PaidBeforeSeller, MoneyReturnedOnce
  <1>2. TypeInv /\ StockInv /\ PaymentInv /\ [Next]_vars => PaymentInv'
    BY PaymentStep
  <1>3. Spec => [](TypeInv /\ StockInv) BY SafeStock
  <1> QED BY <1>1, <1>2, <1>3, PTL DEF Spec

\* An online order is with its seller, a rider or its customer only if its
\* payment was captured and not given back, for any number of handlers
\* (paymentService.js, moveOrderToSellerPendingAfterPayment).
THEOREM PaidBeforeSellerCorrect == Spec => []PaidBeforeSeller
  <1>1. PaymentInv => PaidBeforeSeller BY DEF PaymentInv
  <1> QED BY <1>1, PaymentInvariant, PTL

\* The payment and the redeemed wallet amount return at most once, and only in
\* a cancelled order (orderFinanceService.js, reverseOrderFinanceOnCancellation).
THEOREM MoneyReturnCorrect == Spec => []MoneyReturnedOnce
  <1>1. PaymentInv => MoneyReturnedOnce BY DEF PaymentInv
  <1> QED BY <1>1, PaymentInvariant, PTL

-----------------------------------------------------------------------------
(* Riders.  Only one accept can match, because it sets the status and the  *)
(* rider that the next one tests; what it does later concerns that rider.  *)

RiderInv ==
    /\ RiderMatchesStatus
    /\ WinnerIsTheRider
    /\ \A c \in Contexts :
         /\ pc[c] = "advance" => ws \in {"OUT_FOR_DELIVERY", "DELIVERED"}
         /\ pc[c] \in {"assigned", "record_winner"} => who[c] = rider /\ rider # NoRider

RiderStatements == {"advance", "assigned", "record_winner"}

\* A step that leaves the delivery alone, sends no context to one of the
\* rider's statements, and moves the status only outside Carrying.
LEMMA RiderQuiet ==
  ASSUME RiderInv, Keeps(RiderStatements), UNCHANGED <<rider, step, version, offer>>,
         \/ ws' = ws
         \/ {ws, ws'} \cap (Carrying \cup {"DELIVERED"}) = {}
  PROVE  RiderInv'
  <1>1. CASE ws' = ws
    BY <1>1 DEF RiderInv, RiderMatchesStatus, WinnerIsTheRider, Keeps, RiderStatements
  <1>2. CASE {ws, ws'} \cap (Carrying \cup {"DELIVERED"}) = {}
    <2>1. /\ RiderMatchesStatus' /\ rider = NoRider
      BY <1>2 DEF RiderInv, RiderMatchesStatus, Carrying
    <2>2. \A c \in Contexts : pc[c] \notin RiderStatements
      BY <1>2, <2>1 DEF RiderInv, RiderStatements, Carrying
    <2> QED BY <2>1, <2>2 DEF RiderInv, WinnerIsTheRider, Keeps, RiderStatements
  <1> QED BY <1>1, <1>2

LEMMA RiderCancel ==
  ASSUME HandlersTypeOK, RiderInv, NEW c \in Contexts, NEW open, NEW reason,
         open => ws \notin Carrying \cup {"DELIVERED"},
         NEW next \in {"load", "cancelled"}, CancelIf(c, open, reason, next),
         UNCHANGED <<rider, step, version, offer>>
  PROVE  RiderInv'
  <1>1. /\ Goto(c, next) \/ Done(c)
        /\ ws' = ws \/ (open /\ ws' = "CANCELLED")
    BY DEF CancelIf
  <1>2. Keeps(RiderStatements)
    BY <1>1, GotoKeeps, DoneKeeps DEF RiderStatements
  <1>3. ws' = ws \/ {ws, ws'} \cap (Carrying \cup {"DELIVERED"}) = {}
    BY <1>1 DEF Carrying
  <1> QED BY <1>2, <1>3, RiderQuiet

LEMMA RiderStep == TypeInv /\ RiderInv /\ [Next]_vars => RiderInv'
  <1> SUFFICES ASSUME TypeInv, RiderInv, [Next]_vars PROVE RiderInv'
    OBVIOUS
  <1>0. HandlersTypeOK
    BY DEF TypeInv, TypeOK, DocumentsTypeOK
  <1> USE DEF payment, compensation, deadlines, search, delivery, faults
  <1>1. CASE Clock \/ GatewaySettles
    BY <1>0, <1>1, SameKeeps, RiderQuiet
    DEF Clock, SellerDeadline, SearchDeadline, ReservationDeadline, GatewaySettles,
        handlers
  <1>2. CASE PaymentFailed
    BY <1>0, <1>2, SameKeeps, RiderQuiet
    DEF PaymentFailed, Carrying, RiderStatements
  <1>3. CASE MarkArrivedAtStore \/ ConfirmPickup
    <2>1. /\ ws \in {"DELIVERY_ASSIGNED", "PICKUP_READY"}
          /\ \/ ws' = "PICKUP_READY" /\ step' = 2
             \/ ws' = "OUT_FOR_DELIVERY" /\ step' = 3
          /\ UNCHANGED <<rider, version, offer, handlers>>
      BY <1>3 DEF MarkArrivedAtStore, ConfirmPickup
    <2>2. \A c \in Contexts : pc[c] # "advance"
      BY <2>1 DEF RiderInv
    <2>3. RiderMatchesStatus' /\ WinnerIsTheRider'
      BY <2>1 DEF RiderInv, RiderMatchesStatus, WinnerIsTheRider, Carrying
    <2> QED BY <2>1, <2>2, <2>3 DEF RiderInv, handlers
  <1>4. CASE Deliver
    <2>1. /\ ws = "OUT_FOR_DELIVERY" /\ ws' = "DELIVERED"
          /\ UNCHANGED <<rider, step, version, offer, handlers>>
      BY <1>4 DEF Deliver
    <2>2. RiderMatchesStatus' /\ WinnerIsTheRider'
      BY <2>1 DEF RiderInv, RiderMatchesStatus, WinnerIsTheRider, Carrying
    <2> QED BY <2>1, <2>2 DEF RiderInv, handlers
  <1>5. ASSUME NEW c \in Contexts, Request(c) PROVE RiderInv'
    <2>1. CASE CheckPending(c)
      BY <1>0, <2>1, GotoKeeps, RiderQuiet
      DEF CheckPending, RiderStatements, Carrying
    <2>2. CASE Capture(c)
      BY <1>0, <2>2, GotoKeeps, RiderQuiet
      DEF Capture, RiderStatements, Carrying
    <2>3. CASE CustomerCancel(c)
      BY <1>0, <2>3, GotoKeeps, RiderQuiet
      DEF CustomerCancel, RiderStatements, Carrying
    <2>4. CASE SellerAccept(c)
      BY <1>0, <2>4, GotoKeeps, RiderQuiet DEF SellerAccept, Carrying, RiderStatements
    <2>5. CASE SellerReject(c)
      BY <1>0, <2>5, RiderCancel DEF Carrying, SellerReject
    <2>6. CASE SellerPack(c)
      BY <1>0, <2>6, GotoKeeps, RiderQuiet
      DEF SellerPack, RiderStatements, Carrying
    <2>7. ASSUME NEW r \in Riders, RiderAccept(c, r) PROVE RiderInv'
      <3>1. /\ ws = "DELIVERY_SEARCH" /\ rider = NoRider
            /\ ws' = "DELIVERY_ASSIGNED" /\ rider' = r /\ step' = 1
            /\ version' = version + 1 /\ offer' = offer
            /\ GotoWith(c, "assigned", attempt, r)
        BY <2>7 DEF RiderAccept
      <3>2. /\ r # NoRider /\ version = 0 /\ offer.status # "assigned"
            /\ \A d \in Contexts : pc[d] \notin RiderStatements
        BY <3>1, NoRiderAssumption
        DEF RiderInv, RiderMatchesStatus, WinnerIsTheRider, RiderStatements
      <3>3. RiderMatchesStatus' /\ WinnerIsTheRider'
        BY <3>1, <3>2 DEF RiderMatchesStatus, WinnerIsTheRider, Carrying
      <3>4. /\ pc'[c] = "assigned" /\ who'[c] = rider'
            /\ \A d \in Contexts : d # c => pc'[d] \notin RiderStatements
        BY <1>0, <3>1, <3>2 DEF GotoWith, HandlersTypeOK
      <3> QED BY <3>1, <3>2, <3>3, <3>4 DEF RiderInv, RiderStatements
    <2>8. ASSUME NEW r \in Riders, SkipOrder(c, r) PROVE RiderInv'
      BY <1>0, <2>8, GotoWithKeeps, RiderQuiet
      DEF SkipOrder, RiderStatements, Carrying
    <2>9. CASE AdvanceRiderUi(c)
      <3>1. /\ ws = "OUT_FOR_DELIVERY" /\ GotoWith(c, "advance", 0, rider)
            /\ UNCHANGED <<ws, rider, step, version, offer>>
        BY <2>9 DEF AdvanceRiderUi
      <3>2. Keeps({"assigned", "record_winner"})
        BY <1>0, <3>1, GotoWithKeeps
      <3> QED
        BY <3>1, <3>2 DEF RiderInv, RiderMatchesStatus, WinnerIsTheRider, Keeps
    <2> QED BY <1>5, <2>1, <2>2, <2>3, <2>4, <2>5, <2>6, <2>7, <2>8, <2>9 DEF Request
  <1>6. ASSUME NEW c \in Contexts, BullJob(c) PROVE RiderInv'
    <2>1. CASE SellerTimeoutJob(c)
      BY <1>0, <2>1, GotoKeeps, SameKeeps, RiderQuiet
      DEF SellerTimeoutJob, ReadSellerTimeout, RiderStatements, Carrying
    <2>2. ASSUME NEW n \in 1..MaxAttempts, DeliveryTimeoutJob(c, n) PROVE RiderInv'
      BY <1>0, <2>2, GotoWithKeeps, SameKeeps, RiderQuiet
      DEF DeliveryTimeoutJob, ReadDeliveryTimeout, DeliveryTimeoutDecision,
          RiderStatements, Carrying
    <2> QED BY <1>6, <2>1, <2>2 DEF BullJob
  <1>7. ASSUME NEW c \in Contexts, AutoCancel(c) PROVE RiderInv'
    <2>1. CASE AutoCancelSellerExpired(c)
      BY <1>0, <2>1, GotoKeeps, SameKeeps, RiderQuiet
      DEF AutoCancelSellerExpired, ReadSellerTimeout, RiderStatements, Carrying
    <2>2. CASE AutoCancelDeliveryExpired(c)
      BY <1>0, <2>2, GotoWithKeeps, SameKeeps, RiderQuiet
      DEF AutoCancelDeliveryExpired, ReadDeliveryTimeout, DeliveryTimeoutDecision,
          RiderStatements, Carrying
    <2>3. CASE AutoCancelPaymentExpired(c)
      BY <1>0, <2>3, GotoKeeps, RiderQuiet
      DEF AutoCancelPaymentExpired, RiderStatements, Carrying
    <2> QED BY <1>7, <2>1, <2>2, <2>3 DEF AutoCancel
  <1>8. ASSUME NEW c \in Contexts, Resume(c) PROVE RiderInv'
    <2>1. CASE MirrorPending(c)
      BY <1>0, <2>1, DoneKeeps, RiderQuiet
      DEF MirrorPending, RiderStatements, Carrying
    <2>2. CASE MoveOrderToSellerPendingAfterPayment(c)
      BY <1>0, <2>2, GotoKeeps, DoneKeeps, RiderQuiet
      DEF MoveOrderToSellerPendingAfterPayment, RiderStatements, Carrying
    <2>3. CASE AfterPlaceOrderV2(c)
      BY <1>0, <2>3, DoneKeeps, RiderQuiet
      DEF AfterPlaceOrderV2, RiderStatements, Carrying
    <2>4. CASE LoadReservation(c)
      BY <1>0, <2>4, GotoKeeps, RiderQuiet
      DEF LoadReservation, RiderStatements, Carrying
    <2>5. CASE Restock(c)
      BY <1>0, <2>5, GotoKeeps, RiderQuiet
      DEF Restock, RiderStatements, Carrying
    <2>6. CASE SaveReleased(c)
      BY <1>0, <2>6, GotoKeeps, RiderQuiet
      DEF SaveReleased, RiderStatements, Carrying
    <2>7. CASE ReverseOrderFinanceOnCancellation(c)
      BY <1>0, <2>7, DoneKeeps, RiderQuiet
      DEF ReverseOrderFinanceOnCancellation, RiderStatements, Carrying
    <2>8. CASE CustomerCancelUpdate(c)
      BY <1>0, <2>8, RiderCancel DEF Carrying, CustomerCancelUpdate
    <2>9. CASE UnscheduleCancelled(c)
      BY <1>0, <2>9, GotoKeeps, RiderQuiet
      DEF UnscheduleCancelled, RiderStatements, Carrying
    <2>10. CASE UnscheduleAccepted(c)
      BY <1>0, <2>10, DoneKeeps, RiderQuiet
      DEF UnscheduleAccepted, RiderStatements, Carrying
    <2>11. CASE SchedulePacked(c)
      BY <1>0, <2>11, GotoKeeps, RiderQuiet
      DEF SchedulePacked, RiderStatements, Carrying
    <2>12. CASE PublishOffer(c)
      <3>1. /\ offer'.status = "broadcasting" /\ Keeps(RiderStatements)
            /\ UNCHANGED <<ws, rider, step, version>>
        BY <1>0, <2>12, DoneKeeps DEF PublishOffer, RiderStatements
      <3> QED
        BY <3>1 DEF RiderInv, RiderMatchesStatus, WinnerIsTheRider, Keeps, RiderStatements
    <2>13. CASE UnscheduleAssigned(c)
      <3>1. /\ pc[c] = "assigned" /\ pc' = [pc EXCEPT ![c] = "record_winner"]
            /\ UNCHANGED <<ws, rider, step, version, offer, who>>
        BY <2>13 DEF UnscheduleAssigned, Goto
      <3> QED
        BY <1>0, <3>1 DEF RiderInv, RiderMatchesStatus, WinnerIsTheRider, HandlersTypeOK
    <2>14. CASE RecordWinner(c)
      <3>1. /\ pc[c] = "record_winner" /\ Keeps(RiderStatements)
            /\ UNCHANGED <<ws, rider, step, version>>
            /\ \/ offer' = [status |-> "assigned", winner |-> who[c]]
               \/ UNCHANGED offer
        BY <1>0, <2>14, DoneKeeps DEF RecordWinner, RiderStatements
      <3>2. who[c] = rider /\ rider # NoRider
        BY <3>1 DEF RiderInv
      <3>3. RiderMatchesStatus' /\ WinnerIsTheRider'
        BY <3>1, <3>2 DEF RiderInv, RiderMatchesStatus, WinnerIsTheRider
      <3> QED BY <3>1, <3>3 DEF RiderInv, Keeps, RiderStatements
    <2>15. CASE SaveSkip(c)
      BY <1>0, <2>15, DoneKeeps, RiderQuiet
      DEF SaveSkip, RiderStatements, Carrying
    <2>16. CASE AdvanceRiderUiUpdate(c)
      <3>1. /\ pc[c] = "advance" /\ step' \in {step, 4}
            /\ Keeps(RiderStatements) /\ UNCHANGED <<ws, rider, version, offer>>
        BY <1>0, <2>16, DoneKeeps DEF AdvanceRiderUiUpdate, RiderStatements
      <3>2. ws \in {"OUT_FOR_DELIVERY", "DELIVERED"}
        BY <3>1 DEF RiderInv
      <3>3. RiderMatchesStatus' /\ WinnerIsTheRider'
        BY <3>1, <3>2 DEF RiderInv, RiderMatchesStatus, WinnerIsTheRider, Carrying
      <3> QED BY <3>1, <3>3 DEF RiderInv, Keeps, RiderStatements
    <2>17. CASE SellerTimeoutUpdate(c)
      BY <1>0, <2>17, RiderCancel DEF Carrying, SellerTimeoutUpdate
    <2>18. CASE ExtendSearch(c)
      BY <1>0, <2>18, GotoKeeps, RiderQuiet
      DEF ExtendSearch, RiderStatements, Carrying
    <2>19. CASE Reschedule(c)
      BY <1>0, <2>19, DoneKeeps, RiderQuiet
      DEF Reschedule, RiderStatements, Carrying
    <2>20. CASE GiveUpSearch(c)
      BY <1>0, <2>20, RiderCancel DEF Carrying, GiveUpSearch
    <2>21. CASE PaymentTimeoutUpdate(c)
      BY <1>0, <2>21, RiderCancel DEF Carrying, PaymentTimeoutUpdate
    <2> QED BY <1>8, <2>1, <2>2, <2>3, <2>4, <2>5, <2>6, <2>7, <2>8, <2>9, <2>10, <2>11,
         <2>12, <2>13, <2>14, <2>15, <2>16, <2>17, <2>18, <2>19, <2>20, <2>21 DEF Resume
  <1>9. ASSUME NEW c \in Contexts, ReversalFails(c) \/ Crash(c) PROVE RiderInv'
    BY <1>0, <1>9, DoneKeeps, RiderQuiet
    DEF ReversalFails, Crash, RiderStatements, Carrying
  <1>10. CASE UNCHANGED vars
    BY <1>0, <1>10, SameKeeps, RiderQuiet DEF RiderStatements, vars, handlers
  <1> QED BY <1>1, <1>2, <1>3, <1>4, <1>5, <1>6, <1>7, <1>8, <1>9, <1>10 DEF Next

LEMMA RiderInvariant == Spec => []RiderInv
  <1>1. Init => RiderInv
    BY DEF Init, RiderInv, RiderMatchesStatus, WinnerIsTheRider, Carrying
  <1>2. TypeInv /\ RiderInv /\ [Next]_vars => RiderInv' BY RiderStep
  <1>3. Spec => [](TypeInv /\ StockInv) BY SafeStock
  <1> QED BY <1>1, <1>2, <1>3, PTL DEF Spec

\* The rider, the assignment version and the rider's progress agree with the
\* status, for any number of riders accepting, skipping and advancing at once
\* (deliveryAcceptAtomic, advanceDeliveryRiderUi).
THEOREM RiderCorrect == Spec => []RiderMatchesStatus
  <1>1. RiderInv => RiderMatchesStatus BY DEF RiderInv
  <1> QED BY <1>1, RiderInvariant, PTL

\* The DeliveryAssignment never names another winner than the order's rider
\* (deliveryAcceptAtomic).
THEOREM WinnerCorrect == Spec => []WinnerIsTheRider
  <1>1. RiderInv => WinnerIsTheRider BY DEF RiderInv
  <1> QED BY <1>1, RiderInvariant, PTL

-----------------------------------------------------------------------------
(* Deadlines.  Between its read and its update a timeout handler knows that *)
(* the deadline has passed; only the payment starts the seller's deadline  *)
(* anew, at a status that handler never reads.                             *)

Early == {"CREATED", "SELLER_PENDING", "SELLER_ACCEPTED"}

DeadlineInv ==
    /\ TimeoutsHonourDeadlines
    /\ ws \in Early => windows = {}
    /\ ws # "CANCELLED" => cancelReason = "none"
    /\ \A c \in Contexts :
         /\ pc[c] = "seller_timeout" => sellerDue /\ ws # "CREATED"
         /\ pc[c] = "payment_timeout" => reservationDue /\ mode = "ONLINE"

TimeoutStatements == {"seller_timeout", "payment_timeout"}

\* A step that starts no deadline anew, cancels nothing and does not bring the
\* order back to an early status.
LEMMA DeadlineQuiet ==
  ASSUME DeadlineInv, Keeps(TimeoutStatements), UNCHANGED <<mode, windows, cancelReason>>,
         sellerDue => sellerDue', reservationDue => reservationDue',
         \/ ws' = ws
         \/ /\ ws # "CANCELLED" /\ ws' \notin {"CANCELLED", "CREATED"}
            /\ ws' \in Early => ws \in Early
  PROVE  DeadlineInv'
  BY DEF DeadlineInv, TimeoutsHonourDeadlines, Keeps, TimeoutStatements

LEMMA DeadlineCancel ==
  ASSUME HandlersTypeOK, DeadlineInv, NEW c \in Contexts, NEW open \in BOOLEAN, NEW reason,
         /\ open /\ reason = "Seller timeout" => sellerDue /\ windows = {}
         /\ open /\ reason = "Payment timeout" => reservationDue /\ mode = "ONLINE",
         NEW next \in {"load", "cancelled"}, CancelIf(c, open, reason, next),
         UNCHANGED <<mode, windows, sellerDue, reservationDue>>
  PROVE  DeadlineInv'
  <1>1. Keeps(TimeoutStatements)
    BY GotoKeeps, DoneKeeps DEF CancelIf, TimeoutStatements
  <1>2. CASE open
    <2>1. ws' = "CANCELLED" /\ cancelReason' = reason
      BY <1>2 DEF CancelIf
    <2>2. TimeoutsHonourDeadlines'
      BY <1>2, <2>1 DEF TimeoutsHonourDeadlines
    <2> QED BY <1>1, <2>1, <2>2 DEF DeadlineInv, Keeps, TimeoutStatements, Early
  <1>3. CASE ~open
    <2>1. UNCHANGED <<ws, cancelReason>> BY <1>3 DEF CancelIf
    <2> QED BY <1>1, <2>1, DeadlineQuiet
  <1> QED BY <1>2, <1>3

LEMMA DeadlineRead ==
  ASSUME HandlersTypeOK, DeadlineInv, NEW c \in Contexts, ReadSellerTimeout(c),
         UNCHANGED <<mode, ws, cancelReason, sellerDue, reservationDue, windows>>
  PROVE  DeadlineInv'
  <1>1. CASE SellerTimeoutExpired /\ Goto(c, "seller_timeout")
    <2>1. /\ Keeps({"payment_timeout"}) /\ sellerDue /\ ws = "SELLER_PENDING"
      BY <1>1, GotoKeeps DEF SellerTimeoutExpired
    <2> QED BY <2>1 DEF DeadlineInv, TimeoutsHonourDeadlines, Keeps, Early
  <1>2. CASE UNCHANGED handlers
    BY <1>2, SameKeeps, DeadlineQuiet
  <1> QED BY <1>1, <1>2 DEF ReadSellerTimeout

LEMMA DeadlineStep == TypeInv /\ DeadlineInv /\ [Next]_vars => DeadlineInv'
  <1> SUFFICES ASSUME TypeInv, DeadlineInv, [Next]_vars PROVE DeadlineInv'
    OBVIOUS
  <1>0. HandlersTypeOK
    BY DEF TypeInv, TypeOK, DocumentsTypeOK
  <1> USE DEF payment, compensation, deadlines, search, delivery, faults
  <1>1. CASE Clock \/ GatewaySettles
    <2>1. /\ UNCHANGED <<mode, ws, windows, cancelReason, handlers>>
          /\ sellerDue => sellerDue'
          /\ reservationDue => reservationDue'
      BY <1>1 DEF Clock, SellerDeadline, SearchDeadline, ReservationDeadline,
                 GatewaySettles, handlers
    <2> QED BY <2>1, SameKeeps, DeadlineQuiet
  <1>2. CASE PaymentFailed
    <2>1. /\ ws' = "CANCELLED" /\ cancelReason' = "Payment failed" /\ UNCHANGED handlers
          /\ UNCHANGED <<mode, windows, sellerDue, reservationDue>> /\ ws = "CREATED"
      BY <1>2 DEF PaymentFailed
    <2> QED
      BY <2>1, SameKeeps DEF DeadlineInv, TimeoutsHonourDeadlines, handlers, Early
  <1>3. CASE MarkArrivedAtStore \/ ConfirmPickup
    BY <1>0, <1>3, SameKeeps, DeadlineQuiet
    DEF MarkArrivedAtStore, ConfirmPickup, handlers, TimeoutStatements, Early
  <1>4. CASE Deliver
    BY <1>0, <1>4, SameKeeps, DeadlineQuiet
    DEF Deliver, handlers, TimeoutStatements, Early
  <1>5. ASSUME NEW c \in Contexts, Request(c) PROVE DeadlineInv'
    <2>1. CASE CheckPending(c)
      BY <1>0, <2>1, GotoKeeps, DeadlineQuiet
      DEF CheckPending, TimeoutStatements, Early
    <2>2. CASE Capture(c)
      BY <1>0, <2>2, GotoKeeps, DeadlineQuiet
      DEF Capture, TimeoutStatements, Early
    <2>3. CASE CustomerCancel(c)
      BY <1>0, <2>3, GotoKeeps, DeadlineQuiet
      DEF CustomerCancel, TimeoutStatements, Early
    <2>4. CASE SellerAccept(c)
      BY <1>0, <2>4, GotoKeeps, DeadlineQuiet
      DEF SellerAccept, TimeoutStatements, Early
    <2>5. CASE SellerReject(c)
      BY <1>0, <2>5, DeadlineCancel DEF SellerReject
    <2>6. CASE SellerPack(c)
      <3>1. /\ ws = "SELLER_ACCEPTED" /\ ws' = "DELIVERY_SEARCH"
            /\ Keeps(TimeoutStatements)
            /\ UNCHANGED <<mode, cancelReason, sellerDue, reservationDue>>
        BY <1>0, <2>6, GotoKeeps DEF SellerPack, TimeoutStatements
      <3> QED
        BY <3>1 DEF DeadlineInv, TimeoutsHonourDeadlines, Keeps, TimeoutStatements, Early
    <2>7. ASSUME NEW r \in Riders, RiderAccept(c, r) PROVE DeadlineInv'
      BY <1>0, <2>7, GotoWithKeeps, DeadlineQuiet
      DEF RiderAccept, TimeoutStatements, Early
    <2>8. ASSUME NEW r \in Riders, SkipOrder(c, r) PROVE DeadlineInv'
      BY <1>0, <2>8, GotoWithKeeps, DeadlineQuiet
      DEF SkipOrder, TimeoutStatements, Early
    <2>9. CASE AdvanceRiderUi(c)
      BY <1>0, <2>9, GotoWithKeeps, DeadlineQuiet
      DEF AdvanceRiderUi, TimeoutStatements, Early
    <2> QED BY <1>5, <2>1, <2>2, <2>3, <2>4, <2>5, <2>6, <2>7, <2>8, <2>9 DEF Request
  <1>6. ASSUME NEW c \in Contexts, BullJob(c) PROVE DeadlineInv'
    <2>1. CASE SellerTimeoutJob(c)
      <3>1. /\ UNCHANGED <<mode, ws, cancelReason, sellerDue, reservationDue, windows>>
            /\ ReadSellerTimeout(c)
        BY <2>1 DEF SellerTimeoutJob
      <3> QED BY <1>0, <3>1, DeadlineRead
    <2>2. ASSUME NEW n \in 1..MaxAttempts, DeliveryTimeoutJob(c, n) PROVE DeadlineInv'
      BY <1>0, <2>2, GotoWithKeeps, SameKeeps, DeadlineQuiet
      DEF DeliveryTimeoutJob, ReadDeliveryTimeout, DeliveryTimeoutDecision,
          TimeoutStatements, Early
    <2> QED BY <1>6, <2>1, <2>2 DEF BullJob
  <1>7. ASSUME NEW c \in Contexts, AutoCancel(c) PROVE DeadlineInv'
    <2>1. CASE AutoCancelSellerExpired(c)
      <3>1. /\ UNCHANGED <<mode, ws, cancelReason, sellerDue, reservationDue, windows>>
            /\ ReadSellerTimeout(c)
        BY <2>1 DEF AutoCancelSellerExpired
      <3> QED BY <1>0, <3>1, DeadlineRead
    <2>2. CASE AutoCancelDeliveryExpired(c)
      BY <1>0, <2>2, GotoWithKeeps, SameKeeps, DeadlineQuiet
      DEF AutoCancelDeliveryExpired, ReadDeliveryTimeout, DeliveryTimeoutDecision,
          TimeoutStatements, Early
    <2>3. CASE AutoCancelPaymentExpired(c)
      <3>1. /\ Keeps({"seller_timeout"}) /\ reservationDue /\ mode = "ONLINE"
            /\ UNCHANGED <<mode, ws, cancelReason, sellerDue, reservationDue, windows>>
        BY <1>0, <2>3, GotoKeeps DEF AutoCancelPaymentExpired
      <3> QED BY <3>1 DEF DeadlineInv, TimeoutsHonourDeadlines, Keeps
    <2> QED BY <1>7, <2>1, <2>2, <2>3 DEF AutoCancel
  <1>8. ASSUME NEW c \in Contexts, Resume(c) PROVE DeadlineInv'
    <2>1. CASE MirrorPending(c)
      BY <1>0, <2>1, DoneKeeps, DeadlineQuiet
      DEF MirrorPending, TimeoutStatements, Early
    <2>2. CASE MoveOrderToSellerPendingAfterPayment(c)
      <3>1. /\ Keeps(TimeoutStatements)
            /\ UNCHANGED <<mode, cancelReason, reservationDue, windows>>
        BY <1>0, <2>2, GotoKeeps, DoneKeeps
        DEF MoveOrderToSellerPendingAfterPayment, TimeoutStatements
      <3>2. CASE ws = "CREATED" /\ ws' = "SELLER_PENDING"
        <4>1. cancelReason = "none" /\ windows = {}
          BY <3>2 DEF DeadlineInv, Early
        <4>2. \A d \in Contexts : pc[d] # "seller_timeout"
          BY <3>2 DEF DeadlineInv
        <4> QED
          BY <3>1, <3>2, <4>1, <4>2
          DEF DeadlineInv, TimeoutsHonourDeadlines, Keeps, TimeoutStatements
      <3>3. CASE UNCHANGED <<ws, sellerDue>>
        BY <3>1, <3>3, DeadlineQuiet
      <3> QED BY <2>2, <3>2, <3>3 DEF MoveOrderToSellerPendingAfterPayment
    <2>3. CASE AfterPlaceOrderV2(c)
      BY <1>0, <2>3, DoneKeeps, DeadlineQuiet
      DEF AfterPlaceOrderV2, TimeoutStatements, Early
    <2>4. CASE LoadReservation(c)
      BY <1>0, <2>4, GotoKeeps, DeadlineQuiet
      DEF LoadReservation, TimeoutStatements, Early
    <2>5. CASE Restock(c)
      BY <1>0, <2>5, GotoKeeps, DeadlineQuiet
      DEF Restock, TimeoutStatements, Early
    <2>6. CASE SaveReleased(c)
      BY <1>0, <2>6, GotoKeeps, DeadlineQuiet
      DEF SaveReleased, TimeoutStatements, Early
    <2>7. CASE ReverseOrderFinanceOnCancellation(c)
      BY <1>0, <2>7, DoneKeeps, DeadlineQuiet
      DEF ReverseOrderFinanceOnCancellation, TimeoutStatements, Early
    <2>8. CASE CustomerCancelUpdate(c)
      BY <1>0, <2>8, DeadlineCancel DEF CustomerCancelUpdate
    <2>9. CASE UnscheduleCancelled(c)
      BY <1>0, <2>9, GotoKeeps, DeadlineQuiet
      DEF UnscheduleCancelled, TimeoutStatements, Early
    <2>10. CASE UnscheduleAccepted(c)
      BY <1>0, <2>10, DoneKeeps, DeadlineQuiet
      DEF UnscheduleAccepted, TimeoutStatements, Early
    <2>11. CASE SchedulePacked(c)
      BY <1>0, <2>11, GotoKeeps, DeadlineQuiet
      DEF SchedulePacked, TimeoutStatements, Early
    <2>12. CASE PublishOffer(c)
      BY <1>0, <2>12, DoneKeeps, DeadlineQuiet
      DEF PublishOffer, TimeoutStatements, Early
    <2>13. CASE UnscheduleAssigned(c)
      BY <1>0, <2>13, GotoKeeps, DeadlineQuiet
      DEF UnscheduleAssigned, TimeoutStatements, Early
    <2>14. CASE RecordWinner(c)
      BY <1>0, <2>14, DoneKeeps, DeadlineQuiet
      DEF RecordWinner, TimeoutStatements, Early
    <2>15. CASE SaveSkip(c)
      BY <1>0, <2>15, DoneKeeps, DeadlineQuiet
      DEF SaveSkip, TimeoutStatements, Early
    <2>16. CASE AdvanceRiderUiUpdate(c)
      BY <1>0, <2>16, DoneKeeps, DeadlineQuiet
      DEF AdvanceRiderUiUpdate, TimeoutStatements, Early
    <2>17. CASE SellerTimeoutUpdate(c)
      <3>1. /\ CancelIf(c, ws = "SELLER_PENDING", "Seller timeout", "load")
            /\ pc[c] = "seller_timeout"
            /\ UNCHANGED <<mode, windows, sellerDue, reservationDue>>
        BY <2>17 DEF SellerTimeoutUpdate
      <3>2. sellerDue /\ (ws = "SELLER_PENDING" => windows = {})
        BY <3>1 DEF DeadlineInv, Early
      <3> QED BY <1>0, <3>1, <3>2, DeadlineCancel
    <2>18. CASE ExtendSearch(c)
      <3>1. /\ Keeps(TimeoutStatements)
            /\ UNCHANGED <<mode, ws, cancelReason, sellerDue, reservationDue>>
            /\ ws = "DELIVERY_SEARCH" \/ UNCHANGED windows
        BY <1>0, <2>18, GotoKeeps DEF ExtendSearch, TimeoutStatements
      <3> QED
        BY <3>1 DEF DeadlineInv, TimeoutsHonourDeadlines, Keeps, TimeoutStatements, Early
    <2>19. CASE Reschedule(c)
      BY <1>0, <2>19, DoneKeeps, DeadlineQuiet
      DEF Reschedule, TimeoutStatements, Early
    <2>20. CASE GiveUpSearch(c)
      BY <1>0, <2>20, DeadlineCancel DEF GiveUpSearch
    <2>21. CASE PaymentTimeoutUpdate(c)
      <3>1. reservationDue /\ mode = "ONLINE"
        BY <2>21 DEF PaymentTimeoutUpdate, DeadlineInv
      <3> QED BY <1>0, <2>21, <3>1, DeadlineCancel DEF PaymentTimeoutUpdate
    <2> QED BY <1>8, <2>1, <2>2, <2>3, <2>4, <2>5, <2>6, <2>7, <2>8, <2>9, <2>10, <2>11,
         <2>12, <2>13, <2>14, <2>15, <2>16, <2>17, <2>18, <2>19, <2>20, <2>21 DEF Resume
  <1>9. ASSUME NEW c \in Contexts, ReversalFails(c) \/ Crash(c) PROVE DeadlineInv'
    BY <1>0, <1>9, DoneKeeps, DeadlineQuiet
    DEF ReversalFails, Crash, TimeoutStatements, Early
  <1>10. CASE UNCHANGED vars
    BY <1>0, <1>10, SameKeeps, DeadlineQuiet DEF TimeoutStatements, vars, handlers
  <1> QED BY <1>1, <1>2, <1>3, <1>4, <1>5, <1>6, <1>7, <1>8, <1>9, <1>10 DEF Next

LEMMA DeadlineInvariant == Spec => []DeadlineInv
  <1>1. Init => DeadlineInv
    BY DEF Init, DeadlineInv, TimeoutsHonourDeadlines, Early
  <1>2. TypeInv /\ DeadlineInv /\ [Next]_vars => DeadlineInv' BY DeadlineStep
  <1>3. Spec => [](TypeInv /\ StockInv) BY SafeStock
  <1> QED BY <1>1, <1>2, <1>3, PTL DEF Spec

\* A timeout cancels an order only after the deadline it enforces, and only an
\* order that nobody accepted, although it decides on one read and writes on a
\* later one (processSellerTimeoutJob, orderAutoCancelJob.js).
THEOREM DeadlinesHonoured == Spec => []TimeoutsHonourDeadlines
  <1>1. DeadlineInv => TimeoutsHonourDeadlines BY DEF DeadlineInv
  <1> QED BY <1>1, DeadlineInvariant, PTL

-----------------------------------------------------------------------------
(* The rider search.  A stale handler may write an older attempt number     *)
(* back, but only one whose windows were all opened before.                *)

SearchInv ==
    /\ GivenUpAfterAllAttempts
    /\ ws = "DELIVERY_SEARCH" => attempt >= 1 /\ 1..attempt \subseteq windows
    /\ \A c \in Contexts :
         /\ pc[c] = "extend" => seen[c] >= 1 /\ 1..seen[c] \subseteq windows
         /\ pc[c] = "give_up" => windows = 1..MaxAttempts

SearchStatements == {"extend", "give_up"}

\* A step that leaves the search alone.
LEMMA SearchQuiet ==
  ASSUME SearchInv, Keeps(SearchStatements), UNCHANGED <<attempt, windows>>,
         cancelReason' = cancelReason \/ cancelReason' # "No delivery partner",
         ws' = ws \/ ws' # "DELIVERY_SEARCH"
  PROVE  SearchInv'
  BY DEF SearchInv, GivenUpAfterAllAttempts, Keeps, SearchStatements

LEMMA SearchCancel ==
  ASSUME HandlersTypeOK, SearchInv, NEW c \in Contexts, NEW open \in BOOLEAN, NEW reason,
         reason = "No delivery partner" => windows = 1..MaxAttempts,
         NEW next \in {"load", "cancelled"}, CancelIf(c, open, reason, next),
         UNCHANGED <<attempt, windows>>
  PROVE  SearchInv'
  <1>1. Keeps(SearchStatements)
    BY GotoKeeps, DoneKeeps DEF CancelIf, SearchStatements
  <1>2. \/ ws' = "CANCELLED" /\ cancelReason' = reason
        \/ UNCHANGED <<ws, cancelReason>>
    BY DEF CancelIf
  <1> QED
    BY <1>1, <1>2 DEF SearchInv, GivenUpAfterAllAttempts, Keeps, SearchStatements

\* What processDeliveryTimeoutJob decides on, it decides on an attempt whose
\* windows were all opened.
LEMMA SearchRead ==
  ASSUME TypeInv, SearchInv, NEW c \in Contexts, ReadDeliveryTimeout(c),
         UNCHANGED <<ws, cancelReason, attempt, windows>>
  PROVE  SearchInv'
  <1>0. /\ HandlersTypeOK /\ attempt \in 1..MaxAttempts
        /\ windows \in SUBSET (1..MaxAttempts)
    BY DEF TypeInv, TypeOK, DocumentsTypeOK
  <1>1. CASE /\ DeliveryTimeoutExpired
             /\ GotoWith(c, DeliveryTimeoutDecision, attempt, NoRider)
    <2>1. attempt >= 1 /\ 1..attempt \subseteq windows
      BY <1>1 DEF DeliveryTimeoutExpired, SearchInv
    <2>2. DeliveryTimeoutDecision = "give_up" => windows = 1..MaxAttempts
      <3>1. DeliveryTimeoutDecision = "give_up" => attempt = MaxAttempts
        BY <1>0, AttemptsAssumption DEF DeliveryTimeoutDecision
      <3> QED BY <1>0, <2>1, <3>1
    <2>3. /\ pc'[c] = DeliveryTimeoutDecision /\ seen'[c] = attempt
          /\ \A d \in Contexts : d # c => pc'[d] = pc[d] /\ seen'[d] = seen[d]
      BY <1>0, <1>1 DEF GotoWith, HandlersTypeOK
    <2> QED
      BY <2>1, <2>2, <2>3 DEF SearchInv, GivenUpAfterAllAttempts
  <1>2. CASE UNCHANGED handlers
    BY <1>2, SameKeeps, SearchQuiet
  <1> QED BY <1>1, <1>2 DEF ReadDeliveryTimeout

LEMMA SearchStep == TypeInv /\ DeadlineInv /\ SearchInv /\ [Next]_vars => SearchInv'
  <1> SUFFICES ASSUME TypeInv, DeadlineInv, SearchInv, [Next]_vars PROVE SearchInv'
    OBVIOUS
  <1>0. /\ HandlersTypeOK /\ LocalsReady
        /\ TypeInv
    BY DEF TypeInv, TypeOK, DocumentsTypeOK
  <1> USE DEF payment, compensation, deadlines, search, delivery, faults
  <1>1. CASE Clock \/ GatewaySettles
    BY <1>0, <1>1, SameKeeps, SearchQuiet
    DEF Clock, SellerDeadline, SearchDeadline, ReservationDeadline, GatewaySettles,
        handlers
  <1>2. CASE PaymentFailed
    BY <1>0, <1>2, SameKeeps, SearchQuiet
    DEF PaymentFailed
  <1>3. CASE MarkArrivedAtStore \/ ConfirmPickup
    BY <1>0, <1>3, SameKeeps, SearchQuiet
    DEF MarkArrivedAtStore, ConfirmPickup, handlers, SearchStatements
  <1>4. CASE Deliver
    BY <1>0, <1>4, SameKeeps, SearchQuiet
    DEF Deliver, handlers, SearchStatements
  <1>5. ASSUME NEW c \in Contexts, Request(c) PROVE SearchInv'
    <2>1. CASE CheckPending(c)
      BY <1>0, <2>1, GotoKeeps, SearchQuiet
      DEF CheckPending, SearchStatements
    <2>2. CASE Capture(c)
      BY <1>0, <2>2, GotoKeeps, SearchQuiet
      DEF Capture, SearchStatements
    <2>3. CASE CustomerCancel(c)
      BY <1>0, <2>3, GotoKeeps, SearchQuiet
      DEF CustomerCancel, SearchStatements
    <2>4. CASE SellerAccept(c)
      BY <1>0, <2>4, GotoKeeps, SearchQuiet
      DEF SellerAccept, SearchStatements
    <2>5. CASE SellerReject(c)
      BY <1>0, <2>5, SearchCancel DEF SellerReject
    <2>6. CASE SellerPack(c)
      <3>1. /\ Keeps(SearchStatements) /\ UNCHANGED cancelReason
            /\ ws = "SELLER_ACCEPTED" /\ attempt' = 1 /\ windows' = windows \cup {1}
        BY <1>0, <2>6, GotoKeeps DEF SellerPack, SearchStatements
      <3>2. 1 \in 1..MaxAttempts /\ 1..1 = {1}
        BY AttemptsAssumption
      <3>3. cancelReason = "none"
        BY <3>1 DEF DeadlineInv
      <3>4. /\ windows = 1..MaxAttempts => windows' = windows
            /\ windows \subseteq windows'
        BY <3>1, <3>2
      <3>5. attempt' >= 1 /\ 1..attempt' \subseteq windows'
        BY <3>1, <3>2
      <3> QED
        BY <3>1, <3>3, <3>4, <3>5
        DEF SearchInv, GivenUpAfterAllAttempts, Keeps, SearchStatements
    <2>7. ASSUME NEW r \in Riders, RiderAccept(c, r) PROVE SearchInv'
      BY <1>0, <2>7, GotoWithKeeps, SearchQuiet
      DEF RiderAccept, SearchStatements
    <2>8. ASSUME NEW r \in Riders, SkipOrder(c, r) PROVE SearchInv'
      BY <1>0, <2>8, GotoWithKeeps, SearchQuiet
      DEF SkipOrder, SearchStatements
    <2>9. CASE AdvanceRiderUi(c)
      BY <1>0, <2>9, GotoWithKeeps, SearchQuiet
      DEF AdvanceRiderUi, SearchStatements
    <2> QED BY <1>5, <2>1, <2>2, <2>3, <2>4, <2>5, <2>6, <2>7, <2>8, <2>9 DEF Request
  <1>6. ASSUME NEW c \in Contexts, BullJob(c) PROVE SearchInv'
    <2>1. CASE SellerTimeoutJob(c)
      BY <1>0, <2>1, GotoKeeps, SameKeeps, SearchQuiet
      DEF SellerTimeoutJob, ReadSellerTimeout, SearchStatements
    <2>2. ASSUME NEW n \in 1..MaxAttempts, DeliveryTimeoutJob(c, n) PROVE SearchInv'
      BY <1>0, <2>2, SearchRead DEF DeliveryTimeoutJob
    <2> QED BY <1>6, <2>1, <2>2 DEF BullJob
  <1>7. ASSUME NEW c \in Contexts, AutoCancel(c) PROVE SearchInv'
    <2>1. CASE AutoCancelSellerExpired(c)
      BY <1>0, <2>1, GotoKeeps, SameKeeps, SearchQuiet
      DEF AutoCancelSellerExpired, ReadSellerTimeout, SearchStatements
    <2>2. CASE AutoCancelDeliveryExpired(c)
      BY <1>0, <2>2, SearchRead DEF AutoCancelDeliveryExpired
    <2>3. CASE AutoCancelPaymentExpired(c)
      BY <1>0, <2>3, GotoKeeps, SearchQuiet
      DEF AutoCancelPaymentExpired, SearchStatements
    <2> QED BY <1>7, <2>1, <2>2, <2>3 DEF AutoCancel
  <1>8. ASSUME NEW c \in Contexts, Resume(c) PROVE SearchInv'
    <2>1. CASE MirrorPending(c)
      BY <1>0, <2>1, DoneKeeps, SearchQuiet
      DEF MirrorPending, SearchStatements
    <2>2. CASE MoveOrderToSellerPendingAfterPayment(c)
      BY <1>0, <2>2, GotoKeeps, DoneKeeps, SearchQuiet
      DEF MoveOrderToSellerPendingAfterPayment, SearchStatements
    <2>3. CASE AfterPlaceOrderV2(c)
      BY <1>0, <2>3, DoneKeeps, SearchQuiet
      DEF AfterPlaceOrderV2, SearchStatements
    <2>4. CASE LoadReservation(c)
      BY <1>0, <2>4, GotoKeeps, SearchQuiet
      DEF LoadReservation, SearchStatements
    <2>5. CASE Restock(c)
      BY <1>0, <2>5, GotoKeeps, SearchQuiet
      DEF Restock, SearchStatements
    <2>6. CASE SaveReleased(c)
      BY <1>0, <2>6, GotoKeeps, SearchQuiet
      DEF SaveReleased, SearchStatements
    <2>7. CASE ReverseOrderFinanceOnCancellation(c)
      BY <1>0, <2>7, DoneKeeps, SearchQuiet
      DEF ReverseOrderFinanceOnCancellation, SearchStatements
    <2>8. CASE CustomerCancelUpdate(c)
      BY <1>0, <2>8, SearchCancel DEF CustomerCancelUpdate
    <2>9. CASE UnscheduleCancelled(c)
      BY <1>0, <2>9, GotoKeeps, SearchQuiet
      DEF UnscheduleCancelled, SearchStatements
    <2>10. CASE UnscheduleAccepted(c)
      BY <1>0, <2>10, DoneKeeps, SearchQuiet
      DEF UnscheduleAccepted, SearchStatements
    <2>11. CASE SchedulePacked(c)
      BY <1>0, <2>11, GotoKeeps, SearchQuiet
      DEF SchedulePacked, SearchStatements
    <2>12. CASE PublishOffer(c)
      BY <1>0, <2>12, DoneKeeps, SearchQuiet
      DEF PublishOffer, SearchStatements
    <2>13. CASE UnscheduleAssigned(c)
      BY <1>0, <2>13, GotoKeeps, SearchQuiet
      DEF UnscheduleAssigned, SearchStatements
    <2>14. CASE RecordWinner(c)
      BY <1>0, <2>14, DoneKeeps, SearchQuiet
      DEF RecordWinner, SearchStatements
    <2>15. CASE SaveSkip(c)
      BY <1>0, <2>15, DoneKeeps, SearchQuiet
      DEF SaveSkip, SearchStatements
    <2>16. CASE AdvanceRiderUiUpdate(c)
      BY <1>0, <2>16, DoneKeeps, SearchQuiet
      DEF AdvanceRiderUiUpdate, SearchStatements
    <2>17. CASE SellerTimeoutUpdate(c)
      BY <1>0, <2>17, SearchCancel DEF SellerTimeoutUpdate
    <2>18. CASE ExtendSearch(c)
      <3>1. pc[c] = "extend" /\ Keeps(SearchStatements) /\ UNCHANGED <<ws, cancelReason>>
        BY <1>0, <2>18, GotoKeeps DEF ExtendSearch, SearchStatements
      <3>2. CASE ws # "DELIVERY_SEARCH"
        BY <2>18, <3>1, <3>2, SearchQuiet DEF ExtendSearch
      <3>3. CASE ws = "DELIVERY_SEARCH"
        <4>1. attempt' = seen[c] + 1 /\ windows' = windows \cup {seen[c] + 1}
          BY <2>18, <3>3 DEF ExtendSearch
        <4>2. seen[c] >= 1 /\ 1..seen[c] \subseteq windows
          BY <3>1 DEF SearchInv
        <4>3. seen[c] \in 0..MaxAttempts /\ seen[c] < MaxAttempts
          BY <1>0, <3>1 DEF HandlersTypeOK, LocalsReady
        <4>4. attempt' >= 1 /\ 1..attempt' \subseteq windows'
          BY <4>1, <4>2, <4>3, AttemptsAssumption
        <4>5. windows = 1..MaxAttempts => windows' = windows
          BY <4>1, <4>3, AttemptsAssumption
        <4>6. cancelReason = "none"
          BY <3>3 DEF DeadlineInv
        <4> QED
          BY <3>1, <4>1, <4>4, <4>5, <4>6
          DEF SearchInv, GivenUpAfterAllAttempts, Keeps, SearchStatements
      <3> QED BY <3>2, <3>3
    <2>19. CASE Reschedule(c)
      BY <1>0, <2>19, DoneKeeps, SearchQuiet
      DEF Reschedule, SearchStatements
    <2>20. CASE GiveUpSearch(c)
      <3>1. windows = 1..MaxAttempts
        BY <2>20 DEF GiveUpSearch, SearchInv
      <3> QED BY <1>0, <2>20, <3>1, SearchCancel DEF GiveUpSearch
    <2>21. CASE PaymentTimeoutUpdate(c)
      BY <1>0, <2>21, SearchCancel DEF PaymentTimeoutUpdate
    <2> QED BY <1>8, <2>1, <2>2, <2>3, <2>4, <2>5, <2>6, <2>7, <2>8, <2>9, <2>10, <2>11,
         <2>12, <2>13, <2>14, <2>15, <2>16, <2>17, <2>18, <2>19, <2>20, <2>21 DEF Resume
  <1>9. ASSUME NEW c \in Contexts, ReversalFails(c) \/ Crash(c) PROVE SearchInv'
    BY <1>0, <1>9, DoneKeeps, SearchQuiet
    DEF ReversalFails, Crash, SearchStatements
  <1>10. CASE UNCHANGED vars
    BY <1>0, <1>10, SameKeeps, SearchQuiet DEF SearchStatements, vars, handlers
  <1> QED BY <1>1, <1>2, <1>3, <1>4, <1>5, <1>6, <1>7, <1>8, <1>9, <1>10 DEF Next

LEMMA SearchInvariant == Spec => []SearchInv
  <1>1. Init => SearchInv
    BY DEF Init, SearchInv, GivenUpAfterAllAttempts
  <1>2. TypeInv /\ DeadlineInv /\ SearchInv /\ [Next]_vars => SearchInv'
    BY SearchStep
  <1>3. Spec => [](TypeInv /\ StockInv) BY SafeStock
  <1>4. Spec => []DeadlineInv BY DeadlineInvariant
  <1> QED BY <1>1, <1>2, <1>3, <1>4, PTL DEF Spec

\* An order is given up for lack of a rider only after an accept window was
\* opened for every attempt, for any DELIVERY_SEARCH_MAX_ATTEMPTS and any
\* number of stale timeout handlers (processDeliveryTimeoutJob).
THEOREM GivenUpCorrect == Spec => []GivenUpAfterAllAttempts
  <1>1. SearchInv => GivenUpAfterAllAttempts BY DEF SearchInv
  <1> QED BY <1>1, SearchInvariant, PTL

-----------------------------------------------------------------------------
(* Refinement.  What the status, the goods and the money of the order do   *)
(* in one step of the handlers is a step of OrderLifecycle.  That an order *)
(* is paid before it is offered comes from PaymentInv; that goods and      *)
(* money come back only for a cancelled order and only once, from StockInv *)
(* and PaymentInv.                                                         *)

LifeStep == [Lifecycle!Next]_Lifecycle!vars

\* What changes none of these is a stutter of the life cycle.
LEMMA LifeQuiet ==
  ASSUME UNCHANGED <<ws, rider, restocked, captured, refunded>>
  PROVE  LifeStep
  BY DEF LifeStep, Lifecycle!vars, phase

\* An edge of the life cycle that takes and gives nothing.
LEMMA LifeMove ==
  ASSUME UNCHANGED <<rider, restocked, captured, refunded>>,
         \/ ws = "CREATED" /\ ws' = "SELLER_PENDING" /\ captured
         \/ ws = "SELLER_PENDING" /\ ws' = "SELLER_ACCEPTED"
         \/ ws = "SELLER_ACCEPTED" /\ ws' = "DELIVERY_SEARCH"
         \/ ws \in Carrying /\ ws' \in Carrying
         \/ ws = "OUT_FOR_DELIVERY" /\ ws' = "DELIVERED"
  PROVE  LifeStep
  <1> USE DEF phase, Carrying, Lifecycle!Advance
  <1>1. CASE ws = "CREATED" /\ ws' = "SELLER_PENDING" /\ captured
    BY <1>1 DEF Lifecycle!Offer, LifeStep, Lifecycle!Next
  <1>2. CASE ws = "SELLER_PENDING" /\ ws' = "SELLER_ACCEPTED"
    BY <1>2 DEF Lifecycle!Prepare, LifeStep, Lifecycle!Next
  <1>3. CASE ws = "SELLER_ACCEPTED" /\ ws' = "DELIVERY_SEARCH"
    BY <1>3 DEF Lifecycle!Search, LifeStep, Lifecycle!Next
  <1>4. CASE ws \in Carrying /\ ws' \in Carrying
    BY <1>4 DEF LifeStep, Lifecycle!vars
  <1>5. CASE ws = "OUT_FOR_DELIVERY" /\ ws' = "DELIVERED"
    BY <1>5 DEF Lifecycle!Deliver, LifeStep, Lifecycle!Next
  <1> QED BY <1>1, <1>2, <1>3, <1>4, <1>5

\* The guarded cancelling update cancels where cancelling is allowed, or nothing.
LEMMA LifeCancel ==
  ASSUME NEW c \in Contexts, NEW open \in BOOLEAN, NEW reason, NEW next,
         open => ws \in {"CREATED", "SELLER_PENDING", "DELIVERY_SEARCH"},
         CancelIf(c, open, reason, next),
         UNCHANGED <<rider, restocked, captured, refunded>>
  PROVE  LifeStep
  <1>1. CASE open
    <2>1. ws \in {"CREATED", "SELLER_PENDING", "DELIVERY_SEARCH"} /\ ws' = "CANCELLED"
      BY <1>1 DEF CancelIf
    <2>2. phase \in Lifecycle!Cancellable /\ phase' = "cancelled"
      BY <2>1 DEF phase, Carrying, Lifecycle!Cancellable
    <2>3. Lifecycle!Cancel
      BY <2>2 DEF Lifecycle!Cancel, Lifecycle!Advance
    <2> QED BY <2>3 DEF LifeStep, Lifecycle!Next
  <1>2. CASE ~open
    BY <1>2, LifeQuiet DEF CancelIf
  <1> QED BY <1>1, <1>2

\* Placement leaves the order unpaid, or offered to its seller.
LEMMA LifeInit == Init => Lifecycle!Init
  BY DEF Init, Lifecycle!Init, phase, Carrying

\* Each handler step is a step of the life cycle or leaves it alone.
LEMMA LifeSteps ==
  TypeInv /\ StockInv /\ PaymentInv /\ [Next]_vars => LifeStep
  <1> SUFFICES ASSUME TypeInv, StockInv, PaymentInv, [Next]_vars PROVE LifeStep
    OBVIOUS
  <1>0. captured \in BOOLEAN /\ restocked \in Nat /\ refunded \in Nat
    BY DEF TypeInv, TypeOK, DocumentsTypeOK
  <1> USE DEF payment, compensation, deadlines, search, delivery, faults
  <1>1. CASE Clock \/ GatewaySettles
    BY <1>1, LifeQuiet
    DEF Clock, SellerDeadline, SearchDeadline, ReservationDeadline, GatewaySettles
  <1>2. CASE PaymentFailed
    <2>1. /\ ws = "CREATED" /\ ws' = "CANCELLED" /\ restocked' = restocked + 1
          /\ UNCHANGED <<rider, captured, refunded>>
      BY <1>2 DEF PaymentFailed, StockInv, StockReturnedOnce
    <2>2. Lifecycle!Void
      BY <2>1 DEF Lifecycle!Void, phase, Carrying
    <2> QED BY <2>2 DEF LifeStep, Lifecycle!Next
  <1>3. CASE MarkArrivedAtStore \/ ConfirmPickup
    BY <1>3, LifeMove DEF MarkArrivedAtStore, ConfirmPickup, Carrying
  <1>4. CASE Deliver
    BY <1>4, LifeMove DEF Deliver
  <1>5. ASSUME NEW c \in Contexts, Request(c) PROVE LifeStep
    <2>1. CASE CheckPending(c) \/ CustomerCancel(c) \/ AdvanceRiderUi(c)
      BY <2>1, LifeQuiet DEF CheckPending, CustomerCancel, AdvanceRiderUi
    <2>2. CASE Capture(c)
      <3>1. captured' = TRUE /\ UNCHANGED <<ws, rider, restocked, refunded>>
        BY <2>2 DEF Capture
      <3>2. CASE captured
        BY <1>0, <3>1, <3>2, LifeQuiet
      <3>3. CASE ~captured
        <4>1. Lifecycle!TakeMoney
          BY <3>1, <3>3 DEF Lifecycle!TakeMoney, phase
        <4> QED BY <4>1 DEF LifeStep, Lifecycle!Next
      <3> QED BY <3>2, <3>3
    <2>3. CASE SellerAccept(c)
      BY <2>3, LifeMove DEF SellerAccept
    <2>4. CASE SellerReject(c)
      BY <2>4, LifeCancel DEF SellerReject
    <2>5. CASE SellerPack(c)
      BY <2>5, LifeMove DEF SellerPack
    <2>6. ASSUME NEW r \in Riders, RiderAccept(c, r) PROVE LifeStep
      <3>1. /\ ws = "DELIVERY_SEARCH" /\ ws' = "DELIVERY_ASSIGNED" /\ rider' = r
            /\ UNCHANGED <<restocked, captured, refunded>>
        BY <2>6 DEF RiderAccept
      <3>2. Lifecycle!Assign(r)
        BY <3>1 DEF Lifecycle!Assign, phase, Carrying
      <3> QED BY <3>2 DEF LifeStep, Lifecycle!Next
    <2>7. ASSUME NEW r \in Riders, SkipOrder(c, r) PROVE LifeStep
      BY <2>7, LifeQuiet DEF SkipOrder
    <2> QED BY <1>5, <2>1, <2>2, <2>3, <2>4, <2>5, <2>6, <2>7 DEF Request
  <1>6. ASSUME NEW c \in Contexts, BullJob(c) PROVE LifeStep
    BY <1>6, LifeQuiet DEF BullJob, SellerTimeoutJob, DeliveryTimeoutJob
  <1>7. ASSUME NEW c \in Contexts, AutoCancel(c) PROVE LifeStep
    BY <1>7, LifeQuiet
    DEF AutoCancel, AutoCancelSellerExpired, AutoCancelDeliveryExpired,
        AutoCancelPaymentExpired
  <1>8. ASSUME NEW c \in Contexts, Resume(c) PROVE LifeStep
    <2>1. CASE \/ MirrorPending(c) \/ AfterPlaceOrderV2(c) \/ LoadReservation(c)
               \/ SaveReleased(c) \/ UnscheduleCancelled(c) \/ UnscheduleAccepted(c)
               \/ SchedulePacked(c) \/ PublishOffer(c)
      BY <2>1, LifeQuiet
      DEF MirrorPending, AfterPlaceOrderV2, LoadReservation, SaveReleased,
          UnscheduleCancelled, UnscheduleAccepted, SchedulePacked, PublishOffer
    <2>2. CASE \/ UnscheduleAssigned(c) \/ RecordWinner(c) \/ SaveSkip(c)
               \/ AdvanceRiderUiUpdate(c) \/ ExtendSearch(c) \/ Reschedule(c)
      BY <2>2, LifeQuiet
      DEF UnscheduleAssigned, RecordWinner, SaveSkip, AdvanceRiderUiUpdate,
          ExtendSearch, Reschedule
    <2>3. CASE MoveOrderToSellerPendingAfterPayment(c)
      <3>1. captured /\ UNCHANGED <<rider, restocked, captured, refunded>>
        BY <2>3 DEF MoveOrderToSellerPendingAfterPayment, PaymentInv
      <3>2. (ws = "CREATED" /\ ws' = "SELLER_PENDING") \/ ws' = ws
        BY <2>3 DEF MoveOrderToSellerPendingAfterPayment
      <3> QED BY <3>1, <3>2, LifeMove, LifeQuiet
    <2>4. CASE Restock(c)
      <3>1. /\ ws = "CANCELLED" /\ restocked = 0 /\ restocked' = 1
            /\ UNCHANGED <<ws, rider, captured, refunded>>
        BY <2>4 DEF Restock, StockInv, Compensating, Restocking
      <3>2. Lifecycle!ReturnGoods
        BY <3>1 DEF Lifecycle!ReturnGoods, phase, Carrying
      <3> QED BY <3>2 DEF LifeStep, Lifecycle!Next
    <2>5. CASE ReverseOrderFinanceOnCancellation(c)
      <3>1. /\ ws = "CANCELLED"
            /\ UNCHANGED <<ws, rider, restocked, captured>>
        BY <2>5 DEF ReverseOrderFinanceOnCancellation, StockInv, Compensating
      <3>2. \/ UNCHANGED refunded
            \/ captured /\ refunded = 0 /\ refunded' = 1
        BY <2>5 DEF ReverseOrderFinanceOnCancellation, PaymentInv
      <3>3. CASE captured /\ refunded = 0 /\ refunded' = 1
        <4>1. Lifecycle!ReturnMoney
          BY <3>1, <3>3 DEF Lifecycle!ReturnMoney, phase, Carrying
        <4> QED BY <4>1 DEF LifeStep, Lifecycle!Next
      <3> QED BY <3>1, <3>2, <3>3, LifeQuiet
    <2>6. CASE CustomerCancelUpdate(c)
      BY <2>6, LifeCancel DEF CustomerCancelUpdate
    <2>7. CASE SellerTimeoutUpdate(c)
      BY <2>7, LifeCancel DEF SellerTimeoutUpdate
    <2>8. CASE GiveUpSearch(c)
      BY <2>8, LifeCancel DEF GiveUpSearch
    <2>9. CASE PaymentTimeoutUpdate(c)
      <3>1. CancelIf(c, ws = "CREATED" /\ paymentStatus # "PAID", "Payment timeout", "load")
            /\ UNCHANGED <<rider, restocked, captured, refunded>>
        BY <2>9 DEF PaymentTimeoutUpdate
      <3> QED BY <3>1, LifeCancel
    <2> QED BY <1>8, <2>1, <2>2, <2>3, <2>4, <2>5, <2>6, <2>7, <2>8, <2>9 DEF Resume
  <1>9. ASSUME NEW c \in Contexts, ReversalFails(c) \/ Crash(c) PROVE LifeStep
    BY <1>9, LifeQuiet DEF ReversalFails, Crash
  <1>10. CASE UNCHANGED vars
    BY <1>10, LifeQuiet DEF vars
  <1> QED
    BY <1>1, <1>2, <1>3, <1>4, <1>5, <1>6, <1>7, <1>8, <1>9, <1>10 DEF Next

\* The handlers of orderWorkflowService.js, orderCompensation.js and the finance
\* services, racing and dying, implement the life cycle of OrderLifecycle: every
\* step is one of its steps or a stutter, with any number of riders, contexts,
\* search attempts and faults.
THEOREM LifecycleImplemented == Spec => ImplementsLifecycle
  <1>1. Init => Lifecycle!Init BY LifeInit
  <1>2. TypeInv /\ StockInv /\ PaymentInv /\ [Next]_vars => [Lifecycle!Next]_Lifecycle!vars
    BY LifeSteps DEF LifeStep
  <1> QED
    BY <1>1, <1>2, SafeStock, PaymentInvariant, PTL
    DEF Spec, ImplementsLifecycle, Lifecycle!Spec
=============================================================================
