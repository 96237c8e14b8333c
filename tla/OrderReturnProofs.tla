-------------------------- MODULE OrderReturnProofs --------------------------
(***************************************************************************)
(* Theorems about OrderReturn, for any riders, any number of contexts and  *)
(* search attempts, both settings of the automatic release, any number of  *)
(* pickup codes and crashes.                                               *)
(***************************************************************************)
EXTENDS OrderReturn, TLAPS

\* A payout is cancelled only after the settlement, which therefore never
\* replaces a cancelled payout by a new one.
CancelledAfterSettlement == IsHeld \/ payout = "CANCELLED" => order.settled

MoneyInv ==
    /\ SellerPaidOnce
    /\ CustomerRefundedOnce
    /\ SellerChargedOnce
    /\ CancelledAfterSettlement

ReturnInv == TypeOK /\ MoneyInv

USE ReturnRidersAssumption, ReturnAttemptsAssumption, ReturnBoundAssumption

-----------------------------------------------------------------------------
(* What the handlers remember.                                             *)

\* No handler assigns "none", and the refund alone "refund_completed".
Assigned == (ReturnStatuses \ {"none", "refund_completed"}) \cup {Keep}

LEMMA IdleType == Idle \in Handlers
  BY DEF Idle, Handlers, Resumptions

\* The shapes of what a handler remembers.
LEMMA StatusNoteType ==
  ASSUME NEW p \in Resumptions, NEW r \in Assigned
  PROVE  [Idle EXCEPT !.pc = p, !.ret = r] \in Handlers
  BY IdleType DEF Idle, Handlers, Assigned

LEMMA RiderNoteType ==
  ASSUME NEW p \in Resumptions, NEW r \in Assigned,
         NEW b \in Riders \cup {NoRider, Keep}
  PROVE  [Idle EXCEPT !.pc = p, !.ret = r, !.boy = b] \in Handlers
  BY IdleType DEF Idle, Handlers, Assigned

LEMMA SearchNoteType ==
  ASSUME NEW p \in Resumptions, NEW r \in Assigned,
         NEW b \in Riders \cup {NoRider, Keep}, NEW u \in SUBSET {"expiry", "meta"}
  PROVE  [Idle EXCEPT !.pc = p, !.ret = r, !.boy = b, !.unset = u] \in Handlers
  BY IdleType DEF Idle, Handlers, Assigned

LEMMA PayeeNoteType ==
  ASSUME NEW p \in Resumptions, NEW r \in Assigned,
         NEW e \in Riders \cup {NoRider}
  PROVE  [Idle EXCEPT !.pc = p, !.ret = r, !.payee = e] \in Handlers
  BY IdleType DEF Idle, Handlers, Assigned

LEMMA CreditNoteType ==
  ASSUME NEW e \in Riders \cup {NoRider}
  PROVE  [Idle EXCEPT !.pc = "credit", !.payee = e] \in Handlers
  <1>1. "credit" \in Resumptions BY DEF Resumptions
  <1> QED BY <1>1, IdleType DEF Idle, Handlers

\* The statuses the handlers assign, none of which is "refund_completed".
LEMMA AssignedStatuses ==
  ASSUME NEW old,
         NEW s \in {"return_requested", "return_approved", "return_rejected",
                    "return_pickup_assigned", "return_in_transit", "returned",
                    "qc_passed", "qc_failed"}
  PROVE  /\ s \in Assigned
         /\ Assign(old, s) \in Assigned
  BY DEF ReturnStatuses, Assigned, Assign

LEMMA BeginType ==
  ASSUME TypeOK, NEW c \in Contexts, NEW h \in Handlers, Begin(c, h)
  PROVE  ctx' \in [Contexts -> Handlers]
  BY DEF TypeOK, Begin

LEMMA DoneType ==
  ASSUME TypeOK, NEW c \in Contexts, Done(c)
  PROVE  ctx' \in [Contexts -> Handlers]
  BY IdleType, BeginType DEF Done

LEMMA GotoType ==
  ASSUME TypeOK, NEW c \in Contexts, NEW label \in Resumptions, Goto(c, label)
  PROVE  ctx' \in [Contexts -> Handlers]
  BY DEF TypeOK, Goto, Handlers

\* A save without a version check keeps the order's type, completes no refund, takes
\* back no request and does not touch the settlement.
LEMMA SavedType ==
  ASSUME TypeOK, NEW c \in Contexts
  PROVE  /\ Saved(c) \in Orders
         /\ Saved(c).ret = order.ret \/ Saved(c).ret # "refund_completed"
         /\ Saved(c).sp = order.sp /\ Saved(c).held = order.held
         /\ Saved(c).settled = order.settled /\ Saved(c).queued = order.queued
         /\ order.ret # "none" => Saved(c).ret # "none"
  <1> DEFINE r == Written(ctx[c].ret, order.ret)
             b == Written(ctx[c].boy, order.boy)
             e == IF "expiry" \in ctx[c].unset THEN "unset" ELSE order.expiry
             a == IF "meta" \in ctx[c].unset THEN 1 ELSE order.attempt
  <1>1. order \in Orders /\ ctx[c] \in Handlers BY DEF TypeOK
  <1>2. r \in ReturnStatuses /\ (r = order.ret \/ r \notin {"none", "refund_completed"})
    BY <1>1, Zenon DEF Written, Orders, Handlers
  <1>3. b \in Riders \cup {NoRider}
    BY <1>1, Zenon DEF Written, Orders, Handlers
  <1>4. e \in {"unset", "open", "past"} /\ a \in 1..MaxAttempts
    BY <1>1 DEF Orders
  <1>5. Saved(c) = [order EXCEPT !.ret = r, !.boy = b, !.expiry = e, !.attempt = a]
    BY DEF Saved
  <1> HIDE DEF r, b, e, a
  <1>6. /\ Saved(c) \in Orders
        /\ Saved(c).ret = r /\ Saved(c).sp = order.sp /\ Saved(c).held = order.held
        /\ Saved(c).settled = order.settled /\ Saved(c).queued = order.queued
    BY <1>1, <1>2, <1>3, <1>4, <1>5 DEF Orders
  <1> QED BY <1>2, <1>6

-----------------------------------------------------------------------------
(* Steps that move no money.                                               *)

\* Money stays right if no refund is completed and no amount is moved.
LEMMA MoneyFrame ==
  ASSUME ReturnInv,
         order'.ret = order.ret \/ order'.ret # "refund_completed",
         order'.sp = order.sp, order'.held = order.held, order'.settled = order.settled,
         payout' = payout, wallet'.pending = wallet.pending,
         wallet'.available = wallet.available, wallet'.debits = wallet.debits,
         wallet'.refunds = wallet.refunds
  PROVE  MoneyInv'
  BY DEF ReturnInv, MoneyInv, SellerPaidOnce, CustomerRefundedOnce, SellerChargedOnce,
         CancelledAfterSettlement, IsHeld

\* A handler starts: it only takes note of what it read.
LEMMA StartFrame ==
  ASSUME ReturnInv, NEW c \in Contexts, NEW h \in Handlers, Begin(c, h),
         UNCHANGED <<order, money, offered, clock, stale, bounds>>,
         otp' \in [pickup : BOOLEAN, drop : BOOLEAN]
  PROVE  ReturnInv'
  <1>1. ctx' \in [Contexts -> Handlers] BY BeginType DEF ReturnInv
  <1>2. TypeOK' BY <1>1 DEF ReturnInv, TypeOK, money, clock, bounds
  <1>3. MoneyInv' BY MoneyFrame DEF money
  <1> QED BY <1>2, <1>3 DEF ReturnInv

\* A handler saves its document.
LEMMA SaveFrame ==
  ASSUME ReturnInv, NEW c \in Contexts, order' = Saved(c),
         ctx' \in [Contexts -> Handlers], stale' \in SUBSET Contexts,
         UNCHANGED <<money, clock, bounds>>, offered' \in BOOLEAN,
         otp' \in [pickup : BOOLEAN, drop : BOOLEAN]
  PROVE  ReturnInv'
  <1>1. /\ order' \in Orders
        /\ order'.ret = order.ret \/ order'.ret # "refund_completed"
        /\ order'.sp = order.sp /\ order'.held = order.held
        /\ order'.settled = order.settled
    BY SavedType DEF ReturnInv
  <1>2. TypeOK' BY <1>1 DEF ReturnInv, TypeOK, money, clock, bounds
  <1>3. MoneyInv' BY <1>1, MoneyFrame DEF money
  <1> QED BY <1>2, <1>3 DEF ReturnInv

\* A step leaves the order and the money alone.
LEMMA IdleFrame ==
  ASSUME ReturnInv, UNCHANGED <<order, money, bounds>>,
         ctx' \in [Contexts -> Handlers], stale' \in SUBSET Contexts,
         otp' \in [pickup : BOOLEAN, drop : BOOLEAN],
         offered' \in BOOLEAN, closed' \in BOOLEAN, returnable' \in BOOLEAN
  PROVE  ReturnInv'
  <1>1. TypeOK' BY DEF ReturnInv, TypeOK, money, bounds
  <1>2. MoneyInv' BY MoneyFrame DEF money
  <1> QED BY <1>1, <1>2 DEF ReturnInv

-----------------------------------------------------------------------------
LEMMA InitReturn == Init => ReturnInv
  <1> SUFFICES ASSUME Init PROVE ReturnInv OBVIOUS
  <1>1. order \in Orders BY DEF Init, Orders, ReturnStatuses
  <1>2. ctx \in [Contexts -> Handlers] BY IdleType DEF Init
  <1>3. wallet \in [pending : Nat, available : Nat, debits : Nat, refunds : Nat,
                     commissions : Nat]
    BY DEF Init
  <1>4. 0 \in 0..MaxPickupOtps /\ 0 \in 0..MaxCrashes OBVIOUS
  <1>5. TypeOK BY <1>1, <1>2, <1>3, <1>4, Zenon DEF Init, TypeOK
  <1>6. MoneyInv
    BY DEF Init, MoneyInv, SellerPaidOnce, CustomerRefundedOnce, SellerChargedOnce,
           CancelledAfterSettlement, IsHeld
  <1> QED BY <1>5, <1>6 DEF ReturnInv

-----------------------------------------------------------------------------
(* The handlers that start.                                                *)

\* What each of them takes note of.
LEMMA StartContext ==
  ASSUME ReturnInv, NEW c \in Contexts, Start(c) \/ CronRead(c)
  PROVE  \E h \in Handlers : Begin(c, h)
  <1>0. order \in Orders BY DEF ReturnInv, TypeOK
  <1>1. CASE RequestReturn(c)
    <2>1. [Idle EXCEPT !.pc = "request", !.ret = "return_requested"] \in Handlers
      BY StatusNoteType, AssignedStatuses DEF Resumptions
    <2> QED BY <1>1, <2>1 DEF RequestReturn
  <1>2. CASE ApproveReturn(c)
    <2>1. [Idle EXCEPT !.pc = "approve", !.ret = "return_approved",
                     !.boy = AssignRider(NoRider)] \in Handlers
      BY RiderNoteType, AssignedStatuses DEF Resumptions, AssignRider, Assign
    <2> QED BY <1>2, <2>1 DEF ApproveReturn
  <1>3. CASE RejectReturn(c)
    <2>1. [Idle EXCEPT !.pc = "save", !.ret = "return_rejected"] \in Handlers
      BY StatusNoteType, AssignedStatuses DEF Resumptions
    <2> QED BY <1>3, <2>1 DEF RejectReturn
  <1>4. CASE AssignReturnDelivery(c)
    <2>1. PICK r \in Riders \cup {NoRider} :
             Begin(c, [Idle EXCEPT !.pc = IF r = NoRider THEN "assign" ELSE "save",
                                   !.ret = "return_pickup_assigned",
                                   !.boy = AssignRider(r)])
      BY <1>4 DEF AssignReturnDelivery
    <2>2. [Idle EXCEPT !.pc = IF r = NoRider THEN "assign" ELSE "save",
                       !.ret = "return_pickup_assigned",
                       !.boy = AssignRider(r)] \in Handlers
      BY RiderNoteType, AssignedStatuses DEF Resumptions, AssignRider, Assign
    <2> QED BY <2>1, <2>2
  <1>5. CASE RejectReturnPickup(c)
    <2>1. [Idle EXCEPT !.pc = "refuse", !.ret = "return_approved",
                     !.boy = NoRider, !.unset = UnsetExpiry \cup {"meta"}] \in Handlers
      BY SearchNoteType, AssignedStatuses DEF Resumptions, UnsetExpiry
    <2> QED BY <1>5, <2>1 DEF RejectReturnPickup
  <1>6. CASE \E r \in Riders : AcceptReturnPickup(c, r)
    <2>1. PICK r \in Riders : AcceptReturnPickup(c, r) BY <1>6
    <2>2. UnsetExpiry \in SUBSET {"expiry", "meta"} BY DEF UnsetExpiry
    <2>3. [Idle EXCEPT !.pc = "accept", !.ret = Assign(order.ret, "return_pickup_assigned"),
                       !.boy = r, !.unset = UnsetExpiry] \in Handlers
      BY <2>2, SearchNoteType, AssignedStatuses DEF Resumptions
    <2> QED BY <2>1, <2>3 DEF AcceptReturnPickup
  <1>7. CASE BullTimeoutRead(c)
    <2>1. order.attempt \in 0..MaxAttempts BY <1>0 DEF Orders
    <2>2. [Idle EXCEPT !.pc = "timeout", !.attempt = order.attempt] \in Handlers
      BY <2>1 DEF Idle, Handlers, Resumptions
    <2> QED BY <1>7, <2>2 DEF BullTimeoutRead
  <1>8. CASE VerifyReturnPickupOtp(c)
    <2>1. [Idle EXCEPT !.pc = "pickup_otp"] \in Handlers
      BY DEF Idle, Handlers, Resumptions, ReturnStatuses
    <2> QED BY <1>8, <2>1 DEF VerifyReturnPickupOtp
  <1>9. CASE RequestReturnDropOtp(c)
    <2>1. [Idle EXCEPT !.pc = "drop_otp"] \in Handlers
      BY DEF Idle, Handlers, Resumptions, ReturnStatuses
    <2> QED BY <1>9, <2>1 DEF RequestReturnDropOtp
  <1>10. CASE VerifyReturnDropOtp(c)
    <2>1. [Idle EXCEPT !.pc = "drop", !.ret = Assign(order.ret, "returned")] \in Handlers
      BY StatusNoteType, AssignedStatuses DEF Resumptions
    <2> QED BY <1>10, <2>1 DEF VerifyReturnDropOtp
  <1>11. CASE UpdateReturnStatus(c)
    <2>1. PICK s \in {"return_pickup_assigned", "return_in_transit", "returned"} :
             Begin(c, [Idle EXCEPT !.pc = "save", !.ret = Assign(order.ret, s)])
      BY <1>11 DEF UpdateReturnStatus
    <2>2. [Idle EXCEPT !.pc = "save", !.ret = Assign(order.ret, s)] \in Handlers
      BY StatusNoteType, AssignedStatuses DEF Resumptions
    <2> QED BY <2>1, <2>2
  <1>12. CASE QualityCheck(c)
    <2>1. PICK verdict \in {"qc_passed", "qc_failed"} :
             Begin(c, [Idle EXCEPT !.pc = verdict, !.ret = verdict])
      BY <1>12 DEF QualityCheck
    <2>2. [Idle EXCEPT !.pc = verdict, !.ret = verdict] \in Handlers
      BY StatusNoteType, AssignedStatuses DEF Resumptions
    <2> QED BY <2>1, <2>2
  <1>13. CASE ReleaseRead(c)
    <2>1. [Idle EXCEPT !.pc = "release"] \in Handlers
      BY DEF Idle, Handlers, Resumptions, ReturnStatuses
    <2> QED BY <1>13, <2>1 DEF ReleaseRead
  <1>14. CASE TimeoutRead(c)
    <2>1. order.attempt \in 0..MaxAttempts BY <1>0 DEF Orders
    <2>2. [Idle EXCEPT !.pc = "timeout", !.attempt = order.attempt] \in Handlers
      BY <2>1 DEF Idle, Handlers, Resumptions
    <2> QED BY <1>14, <2>2 DEF TimeoutRead
  <1> QED
    BY <1>1, <1>2, <1>3, <1>4, <1>5, <1>6, <1>7, <1>8, <1>9,
       <1>10, <1>11, <1>12, <1>13, <1>14 DEF Start, CronRead

LEMMA StartStep ==
  ASSUME ReturnInv, NEW c \in Contexts, Start(c) \/ CronRead(c)
  PROVE  ReturnInv'
  <1>1. UNCHANGED <<order, money, offered, clock, stale, bounds>>
    BY DEF Start, CronRead, RequestReturn, ApproveReturn, RejectReturn,
           AssignReturnDelivery, RejectReturnPickup, AcceptReturnPickup, BullTimeoutRead,
           VerifyReturnPickupOtp, RequestReturnDropOtp, VerifyReturnDropOtp,
           UpdateReturnStatus, QualityCheck, ReleaseRead, TimeoutRead
  <1>2. otp' = otp \/ otp' = [otp EXCEPT !.drop = TRUE]
    BY DEF Start, CronRead, RequestReturn, ApproveReturn, RejectReturn,
           AssignReturnDelivery, RejectReturnPickup, AcceptReturnPickup, BullTimeoutRead,
           VerifyReturnPickupOtp, RequestReturnDropOtp, VerifyReturnDropOtp,
           UpdateReturnStatus, QualityCheck, ReleaseRead, TimeoutRead
  <1>3. otp' \in [pickup : BOOLEAN, drop : BOOLEAN] BY <1>2 DEF ReturnInv, TypeOK
  <1>4. PICK h \in Handlers : Begin(c, h) BY StartContext
  <1> QED BY <1>1, <1>3, <1>4, StartFrame

-----------------------------------------------------------------------------
(* The handlers that resume.                                               *)

\* A step writes paths of the return, or marks the commission as paid.
LEMMA PathFrame ==
  ASSUME ReturnInv, order' \in Orders,
         order'.ret = order.ret \/ order'.ret # "refund_completed",
         order'.sp = order.sp, order'.held = order.held, order'.settled = order.settled,
         ctx' \in [Contexts -> Handlers], offered' \in BOOLEAN,
         UNCHANGED <<money, clock, otp, stale, bounds>>
  PROVE  ReturnInv'
  <1>1. TypeOK' BY DEF ReturnInv, TypeOK, money, clock, bounds
  <1>2. MoneyInv' BY MoneyFrame DEF money
  <1> QED BY <1>1, <1>2 DEF ReturnInv

\* The pending payout is paid.
LEMMA ProcessFrame ==
  ASSUME ReturnInv, ProcessPayout, ctx' \in [Contexts -> Handlers],
         UNCHANGED <<receipt, otp, offered, clock, stale, bounds>>
  PROVE  ReturnInv'
  <1>1. /\ payout = "PENDING" /\ payout' = "COMPLETED"
        /\ order' \in Orders /\ order'.ret = order.ret /\ order'.sp = "COMPLETED"
        /\ order'.held = order.held /\ order'.settled = order.settled
    BY DEF ProcessPayout, ReturnInv, TypeOK, Orders
  <1>2. /\ wallet.pending = 1 /\ wallet.available = 0
        /\ wallet' \in [pending : Nat, available : Nat, debits : Nat, refunds : Nat,
                        commissions : Nat]
        /\ wallet'.pending = 0 /\ wallet'.available = 1
        /\ wallet'.debits = wallet.debits /\ wallet'.refunds = wallet.refunds
    <2>1. wallet.pending = 1 /\ wallet.available = 0
      BY <1>1 DEF ReturnInv, MoneyInv, SellerPaidOnce
    <2>2. wallet \in [pending : Nat, available : Nat, debits : Nat, refunds : Nat,
                      commissions : Nat]
      BY DEF ReturnInv, TypeOK
    <2>3. wallet' = [wallet EXCEPT !.pending = 0, !.available = 1]
      BY <2>1, <2>2 DEF ProcessPayout
    <2> QED BY <2>1, <2>2, <2>3
  <1>3. TypeOK' BY <1>1, <1>2 DEF ReturnInv, TypeOK, clock, bounds
  <1>4. MoneyInv'
    BY <1>1, <1>2 DEF ReturnInv, MoneyInv, SellerPaidOnce, CustomerRefundedOnce,
       SellerChargedOnce, CancelledAfterSettlement, IsHeld
  <1> QED BY <1>3, <1>4 DEF ReturnInv

\* The payout is put back for an admin to pay.
LEMMA UnholdFrame ==
  ASSUME ReturnInv, Unhold, ctx' \in [Contexts -> Handlers],
         UNCHANGED <<money, otp, offered, clock, stale, bounds>>
  PROVE  ReturnInv'
  <1>1. /\ order' \in Orders /\ order'.ret = order.ret /\ order'.sp = "PENDING"
        /\ order'.held = FALSE /\ order'.settled = order.settled
    BY DEF Unhold, ReturnInv, TypeOK, Orders
  <1>2. TypeOK' BY <1>1 DEF ReturnInv, TypeOK, money, clock, bounds
  <1>3. MoneyInv'
    BY <1>1 DEF ReturnInv, MoneyInv, SellerPaidOnce, CustomerRefundedOnce,
       SellerChargedOnce, CancelledAfterSettlement, IsHeld, money
  <1> QED BY <1>2, <1>3 DEF ReturnInv

\* The refund: the first one, of an order the seller was not charged for.
LEMMA RefundFrame ==
  ASSUME ReturnInv, Refunded, wallet.refunds = 0, ctx' \in [Contexts -> Handlers],
         UNCHANGED <<receipt, otp, offered, clock, stale, bounds>>
  PROVE  ReturnInv'
  <1>1. /\ order \in Orders
        /\ wallet \in [pending : Nat, available : Nat, debits : Nat, refunds : Nat,
                       commissions : Nat]
        /\ payout \in {"none", "PENDING", "COMPLETED", "CANCELLED"}
    BY DEF ReturnInv, TypeOK
  <1>2. wallet.debits = 0 /\ payout # "CANCELLED"
    BY <1>1 DEF ReturnInv, MoneyInv, SellerChargedOnce
  <1>3. /\ order' \in Orders /\ order'.ret = "refund_completed"
        /\ order'.settled = order.settled
    BY <1>1 DEF Refunded, Orders, ReturnStatuses
  <1>4. /\ payout' = IF Cancels THEN "CANCELLED" ELSE payout
        /\ wallet'.refunds = 1
        /\ wallet'.debits = IF Debits THEN 1 ELSE 0
        /\ wallet'.pending = IF Cancels THEN wallet.pending - 1 ELSE wallet.pending
        /\ wallet'.available = wallet.available
    BY <1>1, <1>2 DEF Refunded
  <1>5. Cancels => wallet.pending = 1 /\ wallet.available = 0 /\ ~Debits /\ order.settled
    BY DEF Cancels, Debits, ReturnInv, MoneyInv, SellerPaidOnce, CancelledAfterSettlement
  <1>6. wallet' \in [pending : Nat, available : Nat, debits : Nat, refunds : Nat,
                     commissions : Nat]
    <2> DEFINE p == IF Cancels THEN wallet.pending - 1 ELSE wallet.pending
               d == IF Debits THEN wallet.debits + 1 ELSE wallet.debits
               m == IF PaysRider THEN wallet.commissions + 1 ELSE wallet.commissions
               f == wallet.refunds + 1
    <2>1. p \in Nat /\ d \in Nat /\ m \in Nat /\ f \in Nat BY <1>1, <1>5
    <2>2. wallet' = [wallet EXCEPT !.refunds = f, !.pending = p, !.debits = d,
                                   !.commissions = m]
      BY DEF Refunded
    <2> HIDE DEF p, d, m, f
    <2> QED BY <1>1, <2>1, <2>2
  <1>7. TypeOK' BY <1>1, <1>3, <1>4, <1>6 DEF ReturnInv, TypeOK, clock, bounds
  <1>8. SellerPaidOnce' BY <1>1, <1>4, <1>5 DEF ReturnInv, MoneyInv, SellerPaidOnce, Cancels
  <1>9. CustomerRefundedOnce' BY <1>4 DEF CustomerRefundedOnce
  <1>10. SellerChargedOnce' BY <1>2, <1>4, <1>5 DEF SellerChargedOnce
  <1>11. CancelledAfterSettlement'
    <2>1. CASE Cancels BY <2>1, <1>3, <1>5 DEF CancelledAfterSettlement
    <2>2. CASE ~Cancels
      <3>1. order'.sp = order.sp /\ order'.held = order.held BY <2>2, <1>1 DEF Refunded, Orders
      <3> QED
        BY <2>2, <3>1, <1>3, <1>4 DEF ReturnInv, MoneyInv, CancelledAfterSettlement, IsHeld
    <2> QED BY <2>1, <2>2
  <1> QED BY <1>7, <1>8, <1>9, <1>10, <1>11 DEF ReturnInv, MoneyInv

LEMMA ResumeStep ==
  ASSUME ReturnInv, NEW c \in Contexts, Resume(c)
  PROVE  ReturnInv'
  <1>0. /\ TypeOK /\ order \in Orders /\ ctx[c] \in Handlers
        /\ otp \in [pickup : BOOLEAN, drop : BOOLEAN] /\ stale \in SUBSET Contexts
        /\ offered \in BOOLEAN
    BY DEF ReturnInv, TypeOK
  <1>a. ASSUME Done(c) PROVE ctx' \in [Contexts -> Handlers]
    BY <1>0, <1>a, DoneType
  <1>1. CASE Release(c)
    <2>1. ctx' \in [Contexts -> Handlers] BY <1>1, <1>a DEF Release
    <2>2. CASE ProcessPayout BY <1>1, <2>1, <2>2, ProcessFrame DEF Release
    <2>3. CASE Unhold /\ UNCHANGED <<payout, wallet>>
      BY <1>1, <2>1, <2>3, UnholdFrame DEF Release, money
    <2>4. CASE UNCHANGED <<order, payout, wallet>>
      BY <1>0, <1>1, <2>1, <2>4, PathFrame DEF Release, money
    <2> QED BY <1>1, <2>2, <2>3, <2>4 DEF Release
  <1>2. CASE SaveRequest(c)
    <2>1. ctx' \in [Contexts -> Handlers] BY <1>2, <1>a DEF SaveRequest, SaveVersioned
    <2>2. stale' \in SUBSET Contexts BY <1>0, <1>2 DEF SaveRequest, SaveVersioned, Bump
    <2>3. CASE order' = Saved(c) BY <1>0, <1>2, <2>1, <2>2, <2>3, SaveFrame DEF SaveRequest
    <2>4. CASE UNCHANGED order
      <3>1. closed' \in BOOLEAN /\ returnable' \in BOOLEAN
        BY <1>0, <1>2 DEF SaveRequest, clock, TypeOK
      <3> QED BY <1>0, <1>2, <2>1, <2>2, <2>4, <3>1, IdleFrame DEF SaveRequest
    <2> QED BY <1>2, <2>3, <2>4 DEF SaveRequest, SaveVersioned
  <1>3. CASE SaveApproval(c)
    <2>1. ctx' \in [Contexts -> Handlers] BY <1>3, <1>a DEF SaveApproval, SaveVersioned
    <2>2. stale' \in SUBSET Contexts BY <1>0, <1>3 DEF SaveApproval, SaveVersioned, Bump
    <2>3. offered' \in BOOLEAN BY <1>0, <1>3 DEF SaveApproval, Fresh
    <2>4. CASE order' = Saved(c)
      BY <1>0, <1>3, <2>1, <2>2, <2>3, <2>4, SaveFrame DEF SaveApproval
    <2>5. CASE UNCHANGED order
      <3>1. closed' \in BOOLEAN /\ returnable' \in BOOLEAN
        BY <1>0, <1>3 DEF SaveApproval, clock, TypeOK
      <3> QED BY <1>0, <1>3, <2>1, <2>2, <2>3, <2>5, <3>1, IdleFrame DEF SaveApproval
    <2> QED BY <1>3, <2>4, <2>5 DEF SaveApproval, SaveVersioned
  <1>4. CASE SaveOrder(c)
    <2>1. ctx' \in [Contexts -> Handlers] BY <1>4, <1>a DEF SaveOrder
    <2> QED BY <1>0, <1>4, <2>1, SaveFrame DEF SaveOrder
  <1>5. CASE SaveAssignment(c)
    <2>1. [Idle EXCEPT !.pc = "broadcast"] \in Handlers
      BY DEF Idle, Handlers, Resumptions
    <2>2. ctx' \in [Contexts -> Handlers] BY <1>0, <1>5, <2>1, BeginType DEF SaveAssignment
    <2> QED BY <1>0, <1>5, <2>2, SaveFrame DEF SaveAssignment
  <1>6. CASE SaveRefusal(c)
    <2>1. ctx' \in [Contexts -> Handlers] BY <1>6, <1>a DEF SaveRefusal
    <2>2. stale' \in SUBSET Contexts BY <1>0, <1>6 DEF SaveRefusal, Bump
    <2> QED BY <1>0, <1>6, <2>1, <2>2, SaveFrame DEF SaveRefusal
  <1>7. CASE StartReturnPickupBroadcast(c)
    <2>1. ctx' \in [Contexts -> Handlers] BY <1>7, <1>a DEF StartReturnPickupBroadcast
    <2>2. /\ order' \in Orders /\ order'.ret = order.ret /\ order'.sp = order.sp
          /\ order'.held = order.held /\ order'.settled = order.settled
          /\ offered' \in BOOLEAN
      <3>1. CASE UNCHANGED <<order, offered>> BY <1>0, <3>1
      <3>2. CASE order' = [order EXCEPT !.expiry = "open", !.attempt = 1] /\ offered' = TRUE
        <4>1. 1 \in 1..MaxAttempts OBVIOUS
        <4> QED BY <1>0, <3>2, <4>1 DEF Orders
      <3> QED BY <1>7, <3>1, <3>2 DEF StartReturnPickupBroadcast
    <2> QED BY <1>7, <2>1, <2>2, PathFrame DEF StartReturnPickupBroadcast
  <1>8. CASE PickupTimeout(c)
    <2>1. ctx' \in [Contexts -> Handlers] BY <1>8, <1>a DEF PickupTimeout
    <2>2. ctx[c].attempt < MaxAttempts => ctx[c].attempt + 1 \in 1..MaxAttempts
      BY <1>0 DEF Handlers
    <2>3. /\ order' \in Orders /\ order'.sp = order.sp
          /\ order'.held = order.held /\ order'.settled = order.settled
          /\ order'.ret = order.ret \/ order'.ret # "refund_completed"
      <3>1. CASE UNCHANGED order BY <1>0, <3>1
      <3>2. CASE /\ ctx[c].attempt < MaxAttempts
                 /\ order' = [order EXCEPT !.expiry = "open",
                                           !.attempt = ctx[c].attempt + 1]
        BY <1>0, <2>2, <3>2 DEF Orders
      <3>3. CASE order' = [order EXCEPT !.ret = "return_approved", !.expiry = "unset",
                                        !.attempt = 1]
        <4>1. 1 \in 1..MaxAttempts OBVIOUS
        <4> QED BY <1>0, <3>3, <4>1 DEF Orders, ReturnStatuses
      <3> QED BY <1>8, <3>1, <3>2, <3>3 DEF PickupTimeout
    <2>4. offered' \in BOOLEAN BY <1>0, <1>8 DEF PickupTimeout
    <2> QED BY <1>8, <2>1, <2>3, <2>4, PathFrame DEF PickupTimeout
  <1>9. CASE ConsumePickupOtp(c)
    <2>1. (IF order.paid THEN NoRider ELSE order.boy) \in Riders \cup {NoRider}
      BY <1>0 DEF Orders
    <2>2. [Idle EXCEPT !.pc = "picked", !.ret = Assign(order.ret, "return_in_transit"),
                       !.payee = IF order.paid THEN NoRider ELSE order.boy] \in Handlers
      BY <2>1, PayeeNoteType, AssignedStatuses DEF Resumptions
    <2>3. otp' \in [pickup : BOOLEAN, drop : BOOLEAN] BY <1>0, <1>9 DEF ConsumePickupOtp
    <2> QED BY <1>9, <2>2, <2>3, StartFrame DEF ConsumePickupOtp
  <1>10. CASE SavePickup(c)
    <2>1. [Idle EXCEPT !.pc = "credit", !.payee = ctx[c].payee] \in Handlers
      BY <1>0, CreditNoteType DEF Handlers
    <2>2. ctx' \in [Contexts -> Handlers]
      BY <1>0, <1>10, <1>a, <2>1, BeginType DEF SavePickup
    <2> QED BY <1>0, <1>10, <2>2, SaveFrame DEF SavePickup
  <1>11. CASE CreditCommission(c)
    <2>1. ctx' \in [Contexts -> Handlers]
      BY <1>0, <1>11, GotoType DEF CreditCommission, Resumptions
    <2>2. /\ wallet' \in [pending : Nat, available : Nat, debits : Nat, refunds : Nat,
                          commissions : Nat]
          /\ wallet'.pending = wallet.pending /\ wallet'.available = wallet.available
          /\ wallet'.debits = wallet.debits /\ wallet'.refunds = wallet.refunds
      BY <1>0, <1>11 DEF CreditCommission, TypeOK
    <2>3. TypeOK' BY <1>0, <1>11, <2>1, <2>2 DEF CreditCommission, TypeOK, clock, bounds
    <2>4. MoneyInv' BY <1>11, <2>2, MoneyFrame DEF CreditCommission
    <2> QED BY <2>3, <2>4 DEF ReturnInv
  <1>12. CASE RecordCommission(c)
    <2>1. ctx' \in [Contexts -> Handlers]
      BY <1>0, <1>12, <1>a, GotoType DEF RecordCommission, Resumptions
    <2>2. TypeOK' BY <1>0, <1>12, <2>1 DEF RecordCommission, TypeOK, clock, bounds
    <2>3. MoneyInv' BY <1>12, MoneyFrame DEF RecordCommission
    <2> QED BY <2>2, <2>3 DEF ReturnInv
  <1>13. CASE FlagCommission(c)
    <2>1. ctx' \in [Contexts -> Handlers] BY <1>13, <1>a DEF FlagCommission
    <2>2. /\ order' \in Orders /\ order'.ret = order.ret /\ order'.sp = order.sp
          /\ order'.held = order.held /\ order'.settled = order.settled
      BY <1>0, <1>13 DEF FlagCommission, Orders
    <2>3. offered' \in BOOLEAN BY <1>0, <1>13 DEF FlagCommission
    <2> QED BY <1>13, <2>1, <2>2, <2>3, PathFrame DEF FlagCommission
  <1>14. CASE SaveDropPending(c)
    <2>1. ctx' \in [Contexts -> Handlers] BY <1>14, <1>a DEF SaveDropPending
    <2>2. /\ order' \in Orders /\ order'.ret # "refund_completed" /\ order'.sp = order.sp
          /\ order'.held = order.held /\ order'.settled = order.settled
      BY <1>0, <1>14 DEF SaveDropPending, Orders, ReturnStatuses
    <2>3. offered' \in BOOLEAN BY <1>0, <1>14 DEF SaveDropPending
    <2> QED BY <1>14, <2>1, <2>2, <2>3, PathFrame DEF SaveDropPending
  <1>15. CASE SaveDrop(c)
    <2>1. ctx' \in [Contexts -> Handlers] BY <1>15, <1>a DEF SaveDrop
    <2>2. otp' \in [pickup : BOOLEAN, drop : BOOLEAN] BY <1>0, <1>15 DEF SaveDrop
    <2> QED BY <1>0, <1>15, <2>1, <2>2, SaveFrame DEF SaveDrop
  <1>16. CASE SaveVerdict(c)
    <2>1. [Idle EXCEPT !.pc = IF At(c, "qc_passed") THEN "refund" ELSE "free"] \in Handlers
      BY DEF Idle, Handlers, Resumptions
    <2>2. ctx' \in [Contexts -> Handlers] BY <1>0, <1>16, <2>1, BeginType DEF SaveVerdict
    <2> QED BY <1>0, <1>16, <2>2, SaveFrame DEF SaveVerdict
  <1>17. CASE CompleteReturnAndRefund(c)
    <2>1. ctx' \in [Contexts -> Handlers] BY <1>17, <1>a DEF CompleteReturnAndRefund
    <2>2. CASE wallet.refunds = 0 /\ Refunded
      BY <1>17, <2>1, <2>2, RefundFrame DEF CompleteReturnAndRefund
    <2>3. CASE UNCHANGED <<order, payout, wallet>>
      BY <1>0, <1>17, <2>1, <2>3, PathFrame DEF CompleteReturnAndRefund, money
    <2> QED BY <1>17, <2>2, <2>3 DEF CompleteReturnAndRefund
  <1>18. CASE FreePayout(c)
    <2>1. ctx' \in [Contexts -> Handlers] BY <1>18, <1>a DEF FreePayout
    <2>2. CASE ProcessPayout BY <1>18, <2>1, <2>2, ProcessFrame DEF FreePayout
    <2>3. CASE Unhold /\ UNCHANGED <<payout, wallet>>
      BY <1>18, <2>1, <2>3, UnholdFrame DEF FreePayout, money
    <2>4. CASE UNCHANGED <<order, payout, wallet>>
      BY <1>0, <1>18, <2>1, <2>4, PathFrame DEF FreePayout, money
    <2> QED BY <1>18, <2>2, <2>3, <2>4 DEF FreePayout
  <1> QED
    BY <1>1, <1>2, <1>3, <1>4, <1>5, <1>6, <1>7, <1>8, <1>9, <1>10, <1>11, <1>12,
       <1>13, <1>14, <1>15, <1>16, <1>17, <1>18 DEF Resume

-----------------------------------------------------------------------------
(* Settlement, time and faults.                                            *)

\* The payout is created only if it was not cancelled by a refund before.
LEMMA CreateFrame ==
  ASSUME ReturnInv, ~order.settled, CreatePendingPayoutForOrder
  PROVE  /\ payout' \in {"none", "PENDING", "COMPLETED", "CANCELLED"} \ {"CANCELLED"}
         /\ wallet' \in [pending : Nat, available : Nat, debits : Nat, refunds : Nat,
                         commissions : Nat]
         /\ SellerPaidOnce'
         /\ wallet'.debits = wallet.debits /\ wallet'.refunds = wallet.refunds
  <1>1. payout # "CANCELLED" BY DEF ReturnInv, MoneyInv, CancelledAfterSettlement
  <1>2. /\ payout \in {"none", "PENDING", "COMPLETED", "CANCELLED"}
        /\ wallet \in [pending : Nat, available : Nat, debits : Nat, refunds : Nat,
                       commissions : Nat]
        /\ SellerPaidOnce
    BY DEF ReturnInv, TypeOK, MoneyInv
  <1>3. CASE CreatesPayout
    <2>1. payout = "none" BY <1>1, <1>3 DEF CreatesPayout
    <2>2. wallet.pending = 0 /\ wallet.available = 0 BY <1>2, <2>1 DEF SellerPaidOnce
    <2>3. payout' = "PENDING" /\ wallet' = [wallet EXCEPT !.pending = 1]
      BY <1>3, <2>2 DEF CreatePendingPayoutForOrder
    <2> QED BY <1>2, <2>2, <2>3 DEF SellerPaidOnce
  <1>4. CASE ~CreatesPayout
    <2>1. UNCHANGED <<payout, wallet>> BY <1>4 DEF CreatePendingPayoutForOrder
    <2> QED BY <1>1, <1>2, <2>1 DEF SellerPaidOnce
  <1> QED BY <1>3, <1>4

LEMMA PayoutsStep ==
  ASSUME ReturnInv, Payouts
  PROVE  ReturnInv'
  <1>0. TypeOK /\ order \in Orders BY DEF ReturnInv, TypeOK
  <1>1. CASE SettleDeliveredOrder
    <2>1. /\ ~order.settled /\ CreatePendingPayoutForOrder
          /\ UNCHANGED <<receipt, otp, offered, clock, ctx, stale, bounds>>
      BY <1>1 DEF SettleDeliveredOrder
    <2>2. order' \in Orders /\ order'.ret = order.ret /\ order'.settled = TRUE
      BY <1>0, <1>1 DEF SettleDeliveredOrder, Orders
    <2>3. TypeOK' BY <1>0, <2>1, <2>2, CreateFrame DEF TypeOK, clock, bounds
    <2>4. MoneyInv'
      BY <2>1, <2>2, CreateFrame DEF ReturnInv, MoneyInv, CustomerRefundedOnce,
         SellerChargedOnce, CancelledAfterSettlement
    <2> QED BY <2>3, <2>4 DEF ReturnInv
  <1>2. CASE SettlementAborts
    <2>1. /\ ~order.settled /\ CreatePendingPayoutForOrder
          /\ UNCHANGED <<order, receipt, otp, offered, clock, ctx, stale, bounds>>
      BY <1>2 DEF SettlementAborts
    <2>2. TypeOK' BY <1>0, <2>1, CreateFrame DEF TypeOK, clock, bounds
    <2>3. MoneyInv'
      BY <2>1, CreateFrame DEF ReturnInv, MoneyInv, CustomerRefundedOnce,
         SellerChargedOnce, CancelledAfterSettlement, IsHeld
    <2> QED BY <2>2, <2>3 DEF ReturnInv
  <1>3. CASE BulkProcessPayouts
    BY <1>0, <1>3, ProcessFrame DEF BulkProcessPayouts, TypeOK
  <1> QED BY <1>1, <1>2, <1>3 DEF Payouts

LEMMA ClockStep ==
  ASSUME ReturnInv, Clock
  PROVE  ReturnInv'
  <1>0. TypeOK /\ order \in Orders BY DEF ReturnInv, TypeOK
  <1>1. CASE WindowCloses BY <1>0, <1>1, IdleFrame DEF WindowCloses, TypeOK
  <1>2. CASE ProductWindowCloses BY <1>0, <1>2, IdleFrame DEF ProductWindowCloses, TypeOK
  <1>3. CASE SearchLapses
    <2>1. /\ order' \in Orders /\ order'.ret = order.ret /\ order'.sp = order.sp
          /\ order'.held = order.held /\ order'.settled = order.settled
      BY <1>0, <1>3 DEF SearchLapses, Orders
    <2> QED BY <1>0, <1>3, <2>1, PathFrame DEF SearchLapses, TypeOK
  <1> QED BY <1>1, <1>2, <1>3 DEF Clock

LEMMA RequestsStep ==
  ASSUME ReturnInv, Requests
  PROVE  ReturnInv'
  <1>0. TypeOK /\ otp \in [pickup : BOOLEAN, drop : BOOLEAN] BY DEF ReturnInv, TypeOK
  <1>1. CASE RequestReturnPickupOtp
    <2>0. otps' \in 0..MaxPickupOtps BY <1>0, <1>1 DEF RequestReturnPickupOtp, TypeOK
    <2>1. otp' \in [pickup : BOOLEAN, drop : BOOLEAN]
      BY <1>0, <1>1 DEF RequestReturnPickupOtp
    <2>2. TypeOK' BY <1>0, <1>1, <2>0, <2>1 DEF RequestReturnPickupOtp, TypeOK, money, clock
    <2>3. MoneyInv' BY <1>1, MoneyFrame DEF RequestReturnPickupOtp, money
    <2> QED BY <2>2, <2>3 DEF ReturnInv
  <1>2. CASE OtpDies
    <2>1. otp' \in [pickup : BOOLEAN, drop : BOOLEAN] BY <1>0, <1>2 DEF OtpDies
    <2> QED BY <1>0, <1>2, <2>1, IdleFrame DEF OtpDies, TypeOK, clock
  <1>3. CASE SkipReturnPickup
    <2>1. stale' \in SUBSET Contexts BY <1>3 DEF SkipReturnPickup, Bump
    <2> QED BY <1>0, <1>3, <2>1, IdleFrame DEF SkipReturnPickup, TypeOK, clock
  <1> QED BY <1>1, <1>2, <1>3 DEF Requests

LEMMA CrashStep ==
  ASSUME ReturnInv, NEW c \in Contexts, Crash(c)
  PROVE  ReturnInv'
  <1>0. TypeOK BY DEF ReturnInv
  <1>1. ctx' \in [Contexts -> Handlers] BY <1>0, DoneType DEF Crash
  <1>2. stale' \in SUBSET Contexts /\ crashes' \in 0..MaxCrashes
    BY <1>0 DEF Crash, TypeOK
  <1>3. TypeOK' BY <1>0, <1>1, <1>2 DEF Crash, TypeOK, money, clock
  <1>4. MoneyInv' BY MoneyFrame DEF Crash, money
  <1> QED BY <1>3, <1>4 DEF ReturnInv

LEMMA NextReturn == ReturnInv /\ [Next]_vars => ReturnInv'
  <1> SUFFICES ASSUME ReturnInv, [Next]_vars PROVE ReturnInv' OBVIOUS
  <1>1. CASE Payouts BY <1>1, PayoutsStep
  <1>2. CASE Clock BY <1>2, ClockStep
  <1>3. CASE Requests BY <1>3, RequestsStep
  <1>4. CASE \E c \in Schedulers : CronRead(c) BY <1>4, StartStep DEF Contexts
  <1>5. CASE \E c \in Workers : Start(c) BY <1>5, StartStep DEF Contexts
  <1>6. CASE \E c \in Contexts : Resume(c) BY <1>6, ResumeStep
  <1>7. CASE \E c \in Contexts : Crash(c) BY <1>7, CrashStep
  <1>8. CASE UNCHANGED vars
    BY <1>8, IdleFrame DEF ReturnInv, TypeOK, vars, clock
  <1> QED BY <1>1, <1>2, <1>3, <1>4, <1>5, <1>6, <1>7, <1>8 DEF Next

LEMMA ReturnInvariant == Spec => []ReturnInv
  BY InitReturn, NextReturn, PTL DEF Spec

-----------------------------------------------------------------------------
(* Every variable keeps its type: the number of a search window never      *)
(* passes MaxAttempts, although a late Bull job, the cron job and a rider  *)
(* who accepts write returnSearchMeta from what they read before.          *)
THEOREM ReturnTypeCorrect == Spec => []TypeOK
  BY ReturnInvariant, PTL DEF ReturnInv

(* Settlement, the batch job, the hold-release job and the quality check   *)
(* together credit the seller's share once, whatever their interleaving.   *)
THEOREM SellerPaidCorrect == Spec => []SellerPaidOnce
  BY ReturnInvariant, PTL DEF ReturnInv, MoneyInv

(* However often a return passes its quality check, completeReturnAndRefund *)
(* refunds the customer once.                                              *)
THEOREM RefundCorrect == Spec => []CustomerRefundedOnce
  BY ReturnInvariant, PTL DEF ReturnInv, MoneyInv

(* completeReturnAndRefund takes the payout or debits the wallet, never    *)
(* both, and nothing without a refund.                                     *)
THEOREM SellerChargedCorrect == Spec => []SellerChargedOnce
  BY ReturnInvariant, PTL DEF ReturnInv, MoneyInv

-----------------------------------------------------------------------------
(* OrderReturn implements ReturnMoney.                                     *)

\* A settled order has a payout, so that a refund that takes nothing finds the share
\* with the seller.
PayoutExists == order.settled \/ order.queued => payout # "none"

\* A step that moves no money keeps still, or is the customer's request.
LEMMA AskImplements ==
  ASSUME PayoutExists, payout' = payout, wallet'.pending = wallet.pending,
         wallet'.available = wallet.available, wallet'.debits = wallet.debits,
         wallet'.refunds = wallet.refunds,
         order.ret # "none" => order'.ret # "none",
         order'.settled = order.settled, order'.queued = order.queued
  PROVE  [Money!Next]_Money!vars /\ PayoutExists'
  <1>1. CASE order.ret = "none" /\ order'.ret # "none"
    BY <1>1 DEF Money!Next, Money!Ask, Money!share, PayoutExists
  <1>2. CASE (order.ret # "none") = (order'.ret # "none")
    BY <1>2 DEF Money!vars, Money!share, PayoutExists
  <1> QED BY <1>1, <1>2

\* The settlement creates the first payout or finds one.
LEMMA GrantImplements ==
  ASSUME ReturnInv, PayoutExists, ~order.settled, CreatePendingPayoutForOrder,
         order'.ret = order.ret
  PROVE  [Money!Next]_Money!vars /\ payout' # "none"
  <1>1. /\ payout \in {"none", "PENDING", "COMPLETED", "CANCELLED"} \ {"CANCELLED"}
        /\ wallet \in [pending : Nat, available : Nat, debits : Nat, refunds : Nat,
                       commissions : Nat]
        /\ SellerPaidOnce
    BY DEF ReturnInv, TypeOK, MoneyInv, CancelledAfterSettlement
  <1>2. CASE CreatesPayout
    <2>1. payout = "none" /\ wallet.pending = 0 /\ wallet.available = 0
      BY <1>1, <1>2 DEF CreatesPayout, SellerPaidOnce
    <2>2. payout' = "PENDING" /\ wallet' = [wallet EXCEPT !.pending = 1]
      BY <1>2, <2>1 DEF CreatePendingPayoutForOrder
    <2>3. Money!Grant
      BY <1>1, <2>1, <2>2 DEF Money!Grant
    <2> QED BY <2>2, <2>3 DEF Money!Next
  <1>3. CASE ~CreatesPayout
    <2>1. UNCHANGED <<payout, wallet>> BY <1>3 DEF CreatePendingPayoutForOrder
    <2>2. payout # "none" BY <1>1, <1>3 DEF CreatesPayout, PayoutExists
    <2> QED BY <2>1, <2>2 DEF Money!vars, Money!share
  <1> QED BY <1>2, <1>3

LEMMA PayOutImplements ==
  ASSUME ReturnInv, ProcessPayout
  PROVE  [Money!Next]_Money!vars /\ PayoutExists'
  <1>1. /\ wallet \in [pending : Nat, available : Nat, debits : Nat, refunds : Nat,
                       commissions : Nat]
        /\ wallet.pending = 1 /\ wallet.available = 0 /\ order \in Orders
    BY DEF ReturnInv, TypeOK, MoneyInv, SellerPaidOnce, ProcessPayout
  <1>2. payout = "PENDING" /\ payout' = "COMPLETED" /\ order'.ret = order.ret
    BY <1>1 DEF ProcessPayout, Orders
  <1>3. /\ wallet'.pending = 0 /\ wallet'.available = 1
        /\ wallet'.debits = wallet.debits /\ wallet'.refunds = wallet.refunds
    BY <1>1 DEF ProcessPayout
  <1>4. Money!PayOut BY <1>1, <1>2, <1>3 DEF Money!PayOut
  <1> QED BY <1>2, <1>4 DEF Money!Next, PayoutExists

\* The refund takes exactly one thing, or finds the share paid out.
LEMMA RefundImplements ==
  ASSUME ReturnInv, PayoutExists, Refunded, wallet.refunds = 0, order.ret = "qc_passed"
  PROVE  [Money!Next]_Money!vars /\ PayoutExists'
  <1>1. /\ order \in Orders
        /\ wallet \in [pending : Nat, available : Nat, debits : Nat, refunds : Nat,
                       commissions : Nat]
        /\ payout \in {"none", "PENDING", "COMPLETED", "CANCELLED"}
    BY DEF ReturnInv, TypeOK
  <1>2. wallet.debits = 0 /\ payout # "CANCELLED"
    BY <1>1 DEF ReturnInv, MoneyInv, SellerChargedOnce
  <1>3. /\ order'.ret = "refund_completed" /\ order'.settled = order.settled
        /\ order'.queued = order.queued
    BY <1>1 DEF Refunded, Orders
  <1>4. /\ payout' = IF Cancels THEN "CANCELLED" ELSE payout
        /\ wallet'.refunds = 1
        /\ wallet'.debits = IF Debits THEN wallet.debits + 1 ELSE wallet.debits
        /\ wallet'.pending = IF Cancels THEN wallet.pending - 1 ELSE wallet.pending
        /\ wallet'.available = wallet.available
    BY <1>1, <1>2 DEF Refunded
  <1>5. CASE Cancels
    <2>1. payout = "PENDING" /\ ~Debits BY <1>5 DEF Cancels, Debits
    <2>2. wallet.pending = 1 BY <2>1 DEF ReturnInv, MoneyInv, SellerPaidOnce
    <2>3. Money!Forfeit BY <1>4, <1>5, <2>1, <2>2 DEF Money!Forfeit
    <2>4. Money!Refund BY <1>3, <1>4, <2>3 DEF Money!Refund
    <2> QED BY <1>4, <1>5, <2>4 DEF Money!Next, PayoutExists
  <1>6. CASE Debits
    <2>1. ~Cancels BY <1>6 DEF Cancels, Debits
    <2>2. Money!Debit BY <1>4, <1>6, <2>1 DEF Money!Debit, Money!share
    <2>3. Money!Refund BY <1>3, <1>4, <2>2 DEF Money!Refund
    <2> QED BY <1>3, <1>4, <2>1, <2>3 DEF Money!Next, PayoutExists
  <1>7. CASE ~Cancels /\ ~Debits
    <2>1. payout = "COMPLETED"
      BY <1>1, <1>2, <1>7
      DEF Cancels, Debits, PayoutExists, ReturnInv, MoneyInv, CancelledAfterSettlement
    <2>2. wallet.available = 1 BY <2>1 DEF ReturnInv, MoneyInv, SellerPaidOnce
    <2>3. Money!LeaveShare BY <1>4, <1>7, <2>2 DEF Money!LeaveShare, Money!share
    <2>4. Money!Refund BY <1>3, <1>4, <2>3 DEF Money!Refund
    <2> QED BY <1>3, <1>4, <1>7, <2>4 DEF Money!Next, PayoutExists
  <1> QED BY <1>5, <1>6, <1>7

LEMMA ResumeImplements ==
  ASSUME ReturnInv, PayoutExists, NEW c \in Contexts, Resume(c)
  PROVE  [Money!Next]_Money!vars /\ PayoutExists'
  <1>0. /\ TypeOK /\ order \in Orders
        /\ wallet \in [pending : Nat, available : Nat, debits : Nat, refunds : Nat,
                       commissions : Nat]
    BY DEF ReturnInv, TypeOK
  <1>1. ASSUME UNCHANGED money, order' = Saved(c) \/ UNCHANGED order
        PROVE  [Money!Next]_Money!vars /\ PayoutExists'
    BY <1>0, <1>1, SavedType, AskImplements DEF money
  <1>2. ASSUME UNCHANGED money, order' \in Orders, order.ret # "none" => order'.ret # "none",
               order'.settled = order.settled, order'.queued = order.queued
        PROVE  [Money!Next]_Money!vars /\ PayoutExists'
    BY <1>2, AskImplements DEF money
  <1>3. ASSUME Unhold, UNCHANGED <<payout, wallet>>
        PROVE  [Money!Next]_Money!vars /\ PayoutExists'
    <2>1. /\ order'.ret = order.ret /\ order'.settled = order.settled
          /\ order'.queued = order.queued
      BY <1>0, <1>3 DEF Unhold, Orders
    <2> QED BY <1>3, <2>1, AskImplements
  <1>4. ASSUME UNCHANGED <<order, payout, wallet>>
        PROVE  [Money!Next]_Money!vars /\ PayoutExists'
    BY <1>4, AskImplements
  <1>5. CASE Release(c)
    BY <1>3, <1>4, <1>5, PayOutImplements DEF Release
  <1>6. CASE FreePayout(c)
    BY <1>3, <1>4, <1>6, PayOutImplements DEF FreePayout
  <1>7. CASE CompleteReturnAndRefund(c)
    BY <1>4, <1>7, RefundImplements DEF CompleteReturnAndRefund
  <1>8. CASE SaveRequest(c) \/ SaveApproval(c)
    BY <1>1, <1>8 DEF SaveRequest, SaveApproval, SaveVersioned
  <1>9. CASE SaveOrder(c) \/ SaveAssignment(c) \/ SaveRefusal(c) \/ SavePickup(c)
             \/ SaveDrop(c) \/ SaveVerdict(c)
    BY <1>1, <1>9 DEF SaveOrder, SaveAssignment, SaveRefusal, SavePickup, SaveDrop, SaveVerdict
  <1>10. CASE ConsumePickupOtp(c)
    BY <1>1, <1>10 DEF ConsumePickupOtp
  <1>11. CASE CreditCommission(c) \/ RecordCommission(c)
    <2>1. /\ order' = order /\ payout' = payout
          /\ wallet'.pending = wallet.pending /\ wallet'.available = wallet.available
          /\ wallet'.debits = wallet.debits /\ wallet'.refunds = wallet.refunds
      BY <1>0, <1>11 DEF CreditCommission, RecordCommission
    <2> QED BY <2>1, AskImplements
  <1>12. CASE StartReturnPickupBroadcast(c) \/ PickupTimeout(c) \/ FlagCommission(c)
              \/ SaveDropPending(c)
    <2>1. /\ UNCHANGED money /\ (order.ret # "none" => order'.ret # "none")
          /\ order'.settled = order.settled /\ order'.queued = order.queued
      BY <1>0, <1>12 DEF StartReturnPickupBroadcast, PickupTimeout, FlagCommission,
         SaveDropPending, Orders
    <2> QED BY <2>1, AskImplements DEF money
  <1> QED
    BY <1>5, <1>6, <1>7, <1>8, <1>9, <1>10, <1>11, <1>12 DEF Resume

LEMMA StepImplements ==
  ASSUME ReturnInv, PayoutExists, [Next]_vars
  PROVE  [Money!Next]_Money!vars /\ PayoutExists'
  <1>0. order \in Orders BY DEF ReturnInv, TypeOK
  <1>1. ASSUME UNCHANGED <<order, money>> PROVE [Money!Next]_Money!vars /\ PayoutExists'
    BY <1>1, AskImplements DEF money
  <1>2. CASE SettleDeliveredOrder
    <2>1. /\ ~order.settled /\ CreatePendingPayoutForOrder /\ order'.ret = order.ret
      BY <1>0, <1>2 DEF SettleDeliveredOrder, Orders
    <2> QED BY <2>1, GrantImplements DEF PayoutExists
  <1>3. CASE SettlementAborts
    BY <1>3, GrantImplements DEF SettlementAborts, PayoutExists
  <1>4. CASE BulkProcessPayouts
    BY <1>4, PayOutImplements DEF BulkProcessPayouts
  <1>5. CASE WindowCloses \/ ProductWindowCloses
    BY <1>1, <1>5 DEF WindowCloses, ProductWindowCloses
  <1>6. CASE SearchLapses
    <2>1. /\ UNCHANGED money /\ order'.ret = order.ret
          /\ order'.settled = order.settled /\ order'.queued = order.queued
      BY <1>0, <1>6 DEF SearchLapses, Orders
    <2> QED BY <2>1, AskImplements DEF money
  <1>7. CASE Requests
    BY <1>1, <1>7 DEF Requests, RequestReturnPickupOtp, OtpDies, SkipReturnPickup
  <1>8. ASSUME NEW c, Start(c) \/ CronRead(c) PROVE [Money!Next]_Money!vars /\ PayoutExists'
    BY <1>1, <1>8
    DEF Start, CronRead, RequestReturn, ApproveReturn, RejectReturn,
        AssignReturnDelivery, RejectReturnPickup, AcceptReturnPickup, BullTimeoutRead,
        VerifyReturnPickupOtp, RequestReturnDropOtp, VerifyReturnDropOtp,
        UpdateReturnStatus, QualityCheck, ReleaseRead, TimeoutRead
  <1>9. ASSUME NEW c \in Contexts, Crash(c) PROVE [Money!Next]_Money!vars /\ PayoutExists'
    BY <1>1, <1>9 DEF Crash
  <1>10. CASE UNCHANGED vars
    BY <1>1, <1>10 DEF vars
  <1> QED
    BY <1>2, <1>3, <1>4, <1>5, <1>6, <1>7, <1>8, <1>9, <1>10, ResumeImplements
    DEF Next, Payouts, Clock

(* The wallets move only as ReturnMoney promises: the share is granted, paid *)
(* and forfeited once, and the one refund is of a return that was asked for *)
(* and costs the seller one thing at most (settleDeliveredOrder,            *)
(* processPayout, completeReturnAndRefund).                                 *)
THEOREM ReturnImplementsMoney == Spec => ImplementsReturnMoney
  <1>1. Init => Money!Init /\ PayoutExists
    BY DEF Init, Money!Init, PayoutExists
  <1>2. ReturnInv /\ PayoutExists /\ [Next]_vars => [Money!Next]_Money!vars /\ PayoutExists'
    BY StepImplements
  <1> QED BY <1>1, <1>2, ReturnInvariant, PTL DEF Spec, ImplementsReturnMoney, Money!Spec
=============================================================================
