---------------------------- MODULE CashOnDelivery ----------------------------
(***************************************************************************)
(* The end of a rider's cash orders: the code the customer reads out, the  *)
(* settlement of the delivered order, the cash the rider then holds, and   *)
(* how it reaches the platform.                                            *)
(*                                                                         *)
(* Three records follow the cash: each order's paymentBreakdown; the       *)
(* wallets, the riders' (cashInHand) and the admin's; and the legacy       *)
(* Transaction rows, which hold the gross amounts.  Orders and wallets are *)
(* written in transactions, one action each; a handler has one step per    *)
(* transaction, and per call outside one.                                  *)
(*                                                                         *)
(* Operators named <definition>_<fault> are variants of the definition that *)
(* follows them with a plausible bug; no specification uses them.          *)
(***************************************************************************)
EXTENDS Naturals, FiniteSetsExt

CONSTANTS
    NumOrders,
    Riders,
    Contexts,        \* handlers that can be in progress at once
    Gross,           \* grandTotal of an order
    Commission,      \* riderPayoutTotal, which the rider keeps
    Amounts,         \* what the rider may report to have collected, an admin to have got
    MaxTries,        \* OrderOtp.maxAttempts
    MaxCodes,        \* codes that may be requested for an order
    MaxRequests,     \* bound: codes requested for all orders
    MaxSettlements,  \* bound: settlements entered by an admin
    MaxFaults        \* bound: handlers that die, cash bookings that fail

ASSUME CashAmountAssumption ==
    NumOrders \in Nat \ {0} /\ Gross \in Nat /\ Commission \in Nat /\ Amounts \subseteq Nat \ {0}
ASSUME CashBoundAssumption ==
    /\ IsFiniteSet(Contexts) /\ IsFiniteSet(Riders)
    /\ MaxTries \in Nat /\ MaxCodes \in Nat
    /\ MaxRequests \in Nat /\ MaxSettlements \in Nat /\ MaxFaults \in Nat

VARIABLES
    otp,         \* the latest OrderOtp document of each order
    order,
    cashInHand,  \* of each rider's wallet
    adminCash,   \* credited to the admin's wallet for remitted cash
    txns,        \* "Cash Collection" rows by order, each rider's sum of "Cash Settlement" rows
    history,     \* per order: settlements, times its cash was booked; riders mixed up
    ctx,
    settlements, faults

bounds == <<settlements, faults>>
vars   == <<otp, order, cashInHand, adminCash, txns, history, ctx, bounds>>

-----------------------------------------------------------------------------
Orders == 1..NumOrders

\* asked: the requests counted in Redis, which refuses more than MaxCodes.
OtpRows   == [asked : 0..MaxCodes, no : 0..MaxCodes, open : BOOLEAN, attempts : 0..MaxTries]
OrderRows == [rider : Riders,        \* deliveryBoy
              ws : {"OUT_FOR_DELIVERY", "DELIVERED"},
              settled : BOOLEAN,     \* financeFlags.deliveredSettlementApplied
              collected : BOOLEAN,   \* financeFlags.codMarkedCollected
              codCollected : Nat, codRemitted : Nat]

\* by: the entry point; tries: attempts as loaded; plan: what to remit per order;
\* rider: whose cash it is about; amount: of cash, or the number of the code read.
Handlers == [pc : {"idle", "code", "miss", "consume", "deliver", "settle", "cash", "records",
                   "remit", "record", "enter"},
             by : {"otp", "status", "endpoint"}, o : Orders, tries : Nat,
             plan : [Orders -> Nat], rider : Riders \cup {"none"}, amount : Nat]

Idle == [pc |-> "idle", by |-> "otp", o |-> 1, tries |-> 0, plan |-> [p \in Orders |-> 0],
         rider |-> "none", amount |-> 0]

Free(c)        == ctx[c].pc = "idle"
At(c, label)   == ctx[c].pc = label
Goto(c, label) == ctx' = [ctx EXCEPT ![c].pc = label]
Done(c)        == ctx' = [ctx EXCEPT ![c] = Idle]
Begin(c, handler) == Free(c) /\ ctx' = [ctx EXCEPT ![c] = handler]

Total(f)   == MapThenSumSet(LAMBDA o : f[o], Orders)
Pending(o) == order[o].codCollected - order[o].codRemitted
Owed(r)    == Total([o \in Orders |-> IF order[o].rider = r THEN Pending(o) ELSE 0])
Delivered(o) == order[o].ws = "DELIVERED"

Init ==
    /\ otp = [o \in Orders |-> [asked |-> 0, no |-> 0, open |-> FALSE, attempts |-> 0]]
    /\ \E riderOf \in [Orders -> Riders] :
          order = [o \in Orders |-> [rider |-> riderOf[o], ws |-> "OUT_FOR_DELIVERY",
                                    settled |-> FALSE, collected |-> FALSE,
                                    codCollected |-> 0, codRemitted |-> 0]]
    /\ cashInHand = [r \in Riders |-> 0] /\ adminCash = 0
    /\ txns = [collected |-> {}, handed |-> [r \in Riders |-> 0]]
    /\ history = [settled |-> [o \in Orders |-> 0], booked |-> [o \in Orders |-> 0], mixed |-> {}]
    /\ ctx = [c \in Contexts |-> Idle]
    /\ settlements = 0 /\ faults = 0

money == <<cashInHand, adminCash, txns, history>>

-----------------------------------------------------------------------------
(* The code.  requestHandoffOtpAtomic consumes the codes there are and     *)
(* creates one, in two calls.  Only the latest document is ever read.      *)

RequestCode(c, o) ==
    /\ ~Delivered(o) /\ otp[o].asked < MaxCodes
    /\ Total([p \in Orders |-> otp[p].asked]) < MaxRequests
    /\ Begin(c, [Idle EXCEPT !.pc = "code", !.o = o])
    /\ otp' = [otp EXCEPT ![o].asked = @ + 1, ![o].open = FALSE]
    /\ UNCHANGED <<order, money, bounds>>

CreateCode(c) ==
    /\ At(c, "code")
    /\ LET o == ctx[c].o IN
       otp' = [otp EXCEPT ![o].no = @ + 1, ![o].open = TRUE, ![o].attempts = 0]
    /\ Done(c)
    /\ UNCHANGED <<order, money, bounds>>

\* verifyHandoffOtpAndDeliver: the order and its latest code are read and judged.
\* A code that has expired ends the handler without effect.
VerifyCode_TooManyTries(c, o, right) ==
    /\ ~Delivered(o) /\ otp[o].open /\ otp[o].attempts <= MaxTries
    /\ Begin(c, [Idle EXCEPT !.pc = IF right THEN "consume" ELSE "miss", !.o = o,
                             !.amount = otp[o].no, !.tries = otp[o].attempts])
    /\ UNCHANGED <<otp, order, money, bounds>>
VerifyCode(c, o, right) ==
    /\ ~Delivered(o) /\ otp[o].open /\ otp[o].attempts < MaxTries
    /\ Begin(c, [Idle EXCEPT !.pc = IF right THEN "consume" ELSE "miss", !.o = o,
                             !.amount = otp[o].no, !.tries = otp[o].attempts])
    /\ UNCHANGED <<otp, order, money, bounds>>

\* The document that was read may no longer be the latest.
SaveMiss(c) ==
    /\ At(c, "miss")
    /\ LET o == ctx[c].o IN
       otp' = IF otp[o].no = ctx[c].amount
              THEN [otp EXCEPT ![o].attempts = ctx[c].tries + 1] ELSE otp
    /\ Done(c)
    /\ UNCHANGED <<order, money, bounds>>

ConsumeCode(c) ==
    /\ At(c, "consume")
    /\ LET o == ctx[c].o IN
       otp' = IF otp[o].no = ctx[c].amount THEN [otp EXCEPT ![o].open = FALSE] ELSE otp
    /\ Goto(c, "deliver")
    /\ UNCHANGED <<order, money, bounds>>

\* Two right codes may get here; one of them finds the order still out.
Deliver(c) ==
    /\ At(c, "deliver") /\ ctx[c].by = "otp"
    /\ LET o == ctx[c].o IN
       IF Delivered(o)
       THEN Done(c) /\ UNCHANGED order
       ELSE Goto(c, "settle") /\ order' = [order EXCEPT ![o].ws = "DELIVERED"]
    /\ UNCHANGED <<otp, money, bounds>>

-----------------------------------------------------------------------------
(* Other ways to deliver.                                                  *)

\* updateOrderStatus("delivered") by admin, seller or rider: it settles unless the
\* order it read was delivered.
StatusDelivered(c, o) ==
    /\ ~Delivered(o)
    /\ Begin(c, [Idle EXCEPT !.pc = "deliver", !.by = "status", !.o = o])
    /\ UNCHANGED <<otp, order, money, bounds>>

SaveDelivered(c) ==
    /\ At(c, "deliver") /\ ctx[c].by = "status"
    /\ order' = [order EXCEPT ![ctx[c].o].ws = "DELIVERED"]
    /\ Goto(c, "settle")
    /\ UNCHANGED <<otp, money, bounds>>

\* markOrderDeliveredAndSettle, in whatever state the order is.
EndpointDelivered(c, o) ==
    /\ Begin(c, [Idle EXCEPT !.pc = "settle", !.by = "endpoint", !.o = o])
    /\ UNCHANGED <<otp, order, money, bounds>>

-----------------------------------------------------------------------------
(* Settlement.                                                             *)

\* settleDeliveredOrder: payouts and admin's earning, once per order.  The flag
\* of the cash is looked at in the document that it returns.
SettleDelivered_Reported(c) ==
    /\ At(c, "settle")
    /\ LET o == ctx[c].o IN
       IF Delivered(o) THEN UNCHANGED <<order, history>>
       ELSE /\ order' = [order EXCEPT ![o].ws = "DELIVERED", ![o].settled = TRUE]
            /\ history' = [history EXCEPT !.settled[o] = @ + 1]
    /\ Goto(c, "cash")
    /\ UNCHANGED <<otp, cashInHand, adminCash, txns, bounds>>
SettleDelivered(c) ==
    /\ At(c, "settle")
    /\ LET o == ctx[c].o IN
       IF order[o].settled THEN UNCHANGED <<order, history>>
       ELSE /\ order' = [order EXCEPT ![o].ws = "DELIVERED", ![o].settled = TRUE]
            /\ history' = [history EXCEPT !.settled[o] = @ + 1]
    /\ IF ~order[ctx[c].o].collected  THEN Goto(c, "cash")
       ELSE IF ctx[c].by = "endpoint" THEN Done(c) ELSE Goto(c, "records")
    /\ UNCHANGED <<otp, cashInHand, adminCash, txns, bounds>>

\* handleCodOrderFinance, one transaction.
Net(amount) == IF amount > Commission THEN amount - Commission ELSE 0

BookCash(o, amount) ==
    IF order[o].collected THEN UNCHANGED <<order, cashInHand, history>>
    ELSE /\ order' = [order EXCEPT ![o].collected = TRUE, ![o].codCollected = @ + Net(amount)]
         /\ cashInHand' = [cashInHand EXCEPT ![order[o].rider] = @ + Net(amount)]
         /\ history' = [history EXCEPT !.booked[o] = @ + 1]

CollectCash(c) ==
    /\ At(c, "cash")
    /\ BookCash(ctx[c].o, Gross)
    /\ IF ctx[c].by = "endpoint" THEN Done(c) ELSE Goto(c, "records")
    /\ UNCHANGED <<otp, adminCash, txns, bounds>>

\* applyDeliveredSettlement goes on without the cash; the endpoint does not.
CashFails(c) ==
    /\ At(c, "cash") /\ faults < MaxFaults
    /\ faults' = faults + 1
    /\ IF ctx[c].by = "endpoint" THEN Done(c) ELSE Goto(c, "records")
    /\ UNCHANGED <<otp, order, money, settlements>>

\* The legacy rows, upserted by their reference.
WriteRecords(c) ==
    /\ At(c, "records")
    /\ txns' = [txns EXCEPT !.collected = @ \cup {ctx[c].o}]
    /\ Done(c)
    /\ UNCHANGED <<otp, order, cashInHand, adminCash, history, bounds>>

\* markCodCollectedAfterDelivery: the rider reports the cash himself.
MarkCollected(o, amount) ==
    /\ Delivered(o) /\ ~order[o].collected
    /\ BookCash(o, amount)
    /\ UNCHANGED <<otp, adminCash, txns, ctx, bounds>>

-----------------------------------------------------------------------------
(* The cash on its way to the platform.                                    *)

\* updateCashInHand with a negative amount: not below zero.
TakeFromHand(r, amount) ==
    cashInHand' = [cashInHand EXCEPT ![r] = IF @ > amount THEN @ - amount ELSE 0]

\* reconcileCodCash, one transaction, on the wallet of the rider that is named to it.
Reconcile_StaleCheck(o, r, amount) ==
    /\ order' = [order EXCEPT ![o].codRemitted = @ + amount]
    /\ TakeFromHand(r, amount)
    /\ adminCash' = adminCash + amount
Reconcile(o, r, amount) ==
    /\ amount <= Pending(o)
    /\ order' = [order EXCEPT ![o].codRemitted = @ + amount]
    /\ TakeFromHand(r, amount)
    /\ adminCash' = adminCash + amount

\* reconcileCodCashSubmission: the payload's deliveryPartnerId, when there is one,
\* comes before the order's rider.  Nothing compares the two.
ReconcileOrder(o, r, amount) ==
    /\ amount > 0 /\ Reconcile(o, r, amount)
    /\ history' = IF r = order[o].rider THEN history
                  ELSE [history EXCEPT !.mixed = @ \cup {r, order[o].rider}]
    /\ UNCHANGED <<otp, txns, ctx, bounds>>

\* submitDeliveryCodCashToAdmin plans on the pending amounts of the rider's orders
\* that it reads, the oldest order first, ...
Least(a, b) == IF a < b THEN a ELSE b
Plan(r, amount) ==
    LET due == [o \in Orders |-> IF order[o].rider = r /\ order[o].collected
                                THEN Pending(o) ELSE 0]
        before(o) == MapThenSumSet(LAMBDA p : due[p], 1..(o - 1)) IN
    [o \in Orders |-> IF amount > before(o) THEN Least(due[o], amount - before(o)) ELSE 0]

SubmitCash(c, r, amount) ==
    /\ Free(c) /\ amount > 0 /\ amount = Total(Plan(r, amount))
    /\ Begin(c, [Idle EXCEPT !.pc = "remit", !.plan = Plan(r, amount), !.rider = r,
                             !.amount = amount])
    /\ UNCHANGED <<otp, order, money, bounds>>

\* ... remits them one by one, and gives up at the first that changed too much, ...
RemitNext(c) ==
    /\ At(c, "remit")
    /\ LET left == {o \in Orders : ctx[c].plan[o] > 0}
           o == Min(left)
           amount == ctx[c].plan[o] IN
       IF amount > Pending(o)
       THEN Done(c) /\ UNCHANGED <<order, cashInHand, adminCash>>
       ELSE /\ Reconcile(o, ctx[c].rider, amount)
            /\ ctx' = [ctx EXCEPT ![c].plan[o] = 0,
                                  ![c].pc = IF left = {o} THEN "record" ELSE "remit"]
    /\ UNCHANGED <<otp, txns, history, bounds>>

\* ... and records the whole as one Cash Settlement.
RecordSubmission(c) ==
    /\ At(c, "record")
    /\ txns' = [txns EXCEPT !.handed[ctx[c].rider] = @ + ctx[c].amount]
    /\ Done(c)
    /\ UNCHANGED <<otp, order, cashInHand, adminCash, history, bounds>>

\* settleRiderCashEntry: an admin enters what he got from a rider, at most what his
\* Transaction rows add up to; no order and no wallet is written.
CheckSettlement(c, r, amount) ==
    /\ Free(c) /\ settlements < MaxSettlements /\ amount > 0
    /\ amount + txns.handed[r]
          <= Gross * Cardinality({o \in txns.collected : order[o].rider = r})
    /\ settlements' = settlements + 1
    /\ Begin(c, [Idle EXCEPT !.pc = "enter", !.rider = r, !.amount = amount])
    /\ UNCHANGED <<otp, order, money, faults>>

EnterSettlement(c) ==
    /\ At(c, "enter")
    /\ txns' = [txns EXCEPT !.handed[ctx[c].rider] = @ + ctx[c].amount]
    /\ Done(c)
    /\ UNCHANGED <<otp, order, cashInHand, adminCash, history, bounds>>

Crash(c) ==
    /\ ~Free(c) /\ faults < MaxFaults
    /\ faults' = faults + 1
    /\ Done(c)
    /\ UNCHANGED <<otp, order, money, settlements>>

-----------------------------------------------------------------------------
Handler(c) ==
    \/ CreateCode(c) \/ SaveMiss(c) \/ ConsumeCode(c) \/ Deliver(c) \/ SaveDelivered(c)
    \/ SettleDelivered(c) \/ CollectCash(c) \/ WriteRecords(c)
    \/ RemitNext(c) \/ RecordSubmission(c) \/ EnterSettlement(c)

Next ==
    \/ \E c \in Contexts : Handler(c) \/ CashFails(c) \/ Crash(c)
    \/ \E c \in Contexts, o \in Orders :
          \/ RequestCode(c, o) \/ StatusDelivered(c, o) \/ EndpointDelivered(c, o)
          \/ \E right \in BOOLEAN : VerifyCode(c, o, right)
    \/ \E o \in Orders, amount \in Amounts : MarkCollected(o, amount)
    \/ \E c \in Contexts, r \in Riders, amount \in Amounts : CheckSettlement(c, r, amount)
    \/ \E o \in Orders, r \in Riders, amount \in 1..Gross : ReconcileOrder(o, r, amount)
    \/ \E c \in Contexts, r \in Riders, amount \in 1..(NumOrders * Gross) :
          SubmitCash(c, r, amount)

Spec == Init /\ [][Next]_vars

-----------------------------------------------------------------------------
TypeOK ==
    /\ otp \in [Orders -> OtpRows]
    /\ order \in [Orders -> OrderRows]
    /\ cashInHand \in [Riders -> Nat] /\ adminCash \in Nat
    /\ txns \in [collected : SUBSET Orders, handed : [Riders -> Nat]]
    /\ history \in [settled : [Orders -> Nat], booked : [Orders -> Nat], mixed : SUBSET Riders]
    /\ ctx \in [Contexts -> Handlers]
    /\ settlements \in 0..MaxSettlements /\ faults \in 0..MaxFaults

\* However many handlers deliver an order at once, by code, by status or by the
\* endpoint, its payouts are made once and only for a delivered order; and an order
\* that is delivered is settled or about to be, whichever of them turned it to
\* delivered, unless one died (settleDeliveredOrder, deliveredSettlementApplied).
DeliveredOrderSettled ==
    \A o \in Orders :
        /\ history.settled[o] = (IF order[o].settled THEN 1 ELSE 0)
        /\ order[o].settled => Delivered(o)
        /\ Delivered(o) /\ ~order[o].settled =>
              faults > 0 \/ \E c \in Contexts : At(c, "settle") /\ ctx[c].o = o

\* The cash of an order is booked once, by whichever of the four callers comes
\* first, and no more of it remitted than was collected; what the orders no longer
\* owe is in the admin's wallet: concurrent submissions and reconciliations that
\* planned on the same pending amounts remit them once.  A rider's wallet holds what
\* his orders still owe, unless a reconciliation named one rider for an order of
\* another: the two are mixed up from then on, and only all the riders together
\* still hold at least what all the orders owe (handleCodOrderFinance,
\* reconcileCodCash).
CashInHandIsPending ==
    /\ \A o \in Orders : history.booked[o] = (IF order[o].collected THEN 1 ELSE 0)
    /\ \A o \in Orders : order[o].codRemitted <= order[o].codCollected
    /\ adminCash = Total([o \in Orders |-> order[o].codRemitted])
    /\ \A r \in Riders \ history.mixed : cashInHand[r] = Owed(r)
    /\ MapThenSumSet(LAMBDA r : cashInHand[r], Riders)
          >= Total([o \in Orders |-> Pending(o)])
=============================================================================
