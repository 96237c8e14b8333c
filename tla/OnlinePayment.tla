---------------------------- MODULE OnlinePayment ----------------------------
(***************************************************************************)
(* The payment attempts for the orders of one checkout group: the API that *)
(* starts an attempt, the customer at the gateway, the gateway's webhook   *)
(* with its redeliveries, and the status checks of the payment page.       *)
(*                                                                         *)
(* OrderWorkflow follows a single order and takes the gateway's answer as  *)
(* given; here the answer itself races: several attempts, several orders,  *)
(* handlers that load a Payment row, wait for the gateway and save later.  *)
(* A handler has one step per awaited call.  save() writes the status only *)
(* if the handler changed it from what it had loaded.                      *)
(*                                                                         *)
(* Operators named <definition>_<fault> are variants of the definition that *)
(* follows them with a plausible bug; no specification uses them.          *)
(***************************************************************************)
EXTENDS Naturals, FiniteSets

CONSTANTS
    GroupSize,    \* the orders of the group, one per seller
    Contexts,     \* handlers that can be in progress at once
    MaxAttempts,  \* bound: gateway orders <ref>-A1, <ref>-A2, ...
    MaxCreates,   \* bound: requests to start a payment
    MaxChecks,    \* bound: status checks
    MaxCrashes    \* bound: handlers that die

ASSUME PaymentGroupAssumption == GroupSize \in Nat \ {0}
ASSUME PaymentBoundAssumption ==
    MaxAttempts \in Nat /\ MaxCreates \in Nat /\ MaxChecks \in Nat /\ MaxCrashes \in Nat

VARIABLES
    gateway,  \* the gateway's order of each attempt
    payable,  \* attempts whose redirectUrl the customer was given
    rows,     \* status of each attempt's Payment document
    hooks,    \* attempts whose webhook the gateway still has to deliver
    events,   \* PaymentWebhookEvent documents, by attempt
    order,    \* the orders' workflow status, payment status and reservation
    credits,  \* times each order's payment was credited to the platform
    group,    \* status of the CheckoutGroup
    ctx,
    creates, checks, crashes

external == <<gateway, payable, hooks>>
bounds   == <<creates, checks, crashes>>
vars     == <<external, rows, events, order, credits, group, ctx, bounds>>

-----------------------------------------------------------------------------
Orders   == 1..GroupSize
Attempts == 1..MaxAttempts
Statuses == {"PENDING", "CAPTURED", "FAILED"}

OrderRows == [ws : {"CREATED", "SELLER_PENDING", "CANCELLED"},
              paymentStatus : {"CREATED", "PAID", "FAILED", "REFUNDED"},
              captured : BOOLEAN,   \* financeFlags.onlinePaymentCaptured
              releases : Nat]       \* times its reserved stock was released

\* status: what was loaded; next: what the gateway said; turn: the order it is at.
Handlers ==
    [pc : {"idle", "open", "count", "initiate", "create", "ask", "event", "load", "save",
           "capture", "move", "cancel", "repend", "group"},
     att : 0..MaxAttempts, hook : BOOLEAN, status : Statuses, next : Statuses,
     turn : 1..GroupSize]

Idle == [pc |-> "idle", att |-> 0, hook |-> FALSE, status |-> "PENDING", next |-> "PENDING",
         turn |-> 1]

Free(c)        == ctx[c].pc = "idle"
At(c, label)   == ctx[c].pc = label
Goto(c, label) == ctx' = [ctx EXCEPT ![c].pc = label]
Done(c)        == ctx' = [ctx EXCEPT ![c] = Idle]

\* canTransitionPaymentStatus, for the states that PhonePe's answers map to.
CanMove(from, to) == from = to \/ from = "PENDING"

\* mapStatusToInternal
Answer_UnknownFailed(a) == IF gateway[a] = "paid" THEN "CAPTURED" ELSE "FAILED"
Answer(a) == CASE gateway[a] = "paid"   -> "CAPTURED"
               [] gateway[a] = "failed" -> "FAILED"
               [] OTHER                 -> "PENDING"

Init ==
    /\ gateway = [a \in Attempts |-> "none"] /\ payable = {} /\ hooks = {}
    /\ rows = [a \in Attempts |-> "none"] /\ events = {}
    /\ order = [o \in Orders |-> [ws |-> "CREATED", paymentStatus |-> "CREATED",
                                  captured |-> FALSE, releases |-> 0]]
    /\ credits = [o \in Orders |-> 0]
    /\ group = "PAYMENT_PENDING"
    /\ ctx = [c \in Contexts |-> Idle]
    /\ creates = 0 /\ checks = 0 /\ crashes = 0

-----------------------------------------------------------------------------
(* createPaymentOrderForOrderRef.                                          *)

Eligible ==
    \A o \in Orders : order[o].ws # "CANCELLED" /\ order[o].paymentStatus \notin {"PAID", "REFUNDED"}

StartPayment(c) ==
    /\ Free(c) /\ creates < MaxCreates
    /\ creates' = creates + 1
    /\ Eligible
    /\ Goto(c, "open")
    /\ UNCHANGED <<external, rows, events, order, credits, group, checks, crashes>>

\* An open payment is handed out again.
FindOpenPayment(c) ==
    /\ At(c, "open")
    /\ IF \E a \in Attempts : rows[a] = "PENDING" THEN Done(c) ELSE Goto(c, "count")
    /\ UNCHANGED <<external, rows, events, order, credits, group, bounds>>

CountAttempts(c) ==
    /\ At(c, "count")
    /\ LET n == Cardinality({a \in Attempts : rows[a] # "none"}) + 1 IN
       /\ n <= MaxAttempts
       /\ ctx' = [ctx EXCEPT ![c].pc = "initiate", ![c].att = n]
    /\ UNCHANGED <<external, rows, events, order, credits, group, bounds>>

\* The gateway opens an order of that id; it may refuse an id that it knows.
InitiatePayment(c) ==
    /\ At(c, "initiate")
    /\ LET a == ctx[c].att IN
       \/ /\ gateway' = [gateway EXCEPT ![a] = IF @ = "none" THEN "open" ELSE @]
          /\ Goto(c, "create")
       \/ gateway[a] # "none" /\ Done(c) /\ UNCHANGED gateway
    /\ UNCHANGED <<payable, hooks, rows, events, order, credits, group, bounds>>

\* The Payment document, whose gatewayOrderId is unique; then the redirect.
CreatePaymentRow(c) ==
    /\ At(c, "create")
    /\ IF rows[ctx[c].att] = "none"
       THEN /\ rows' = [rows EXCEPT ![ctx[c].att] = "PENDING"]
            /\ payable' = payable \cup {ctx[c].att}
       ELSE UNCHANGED <<rows, payable>>
    /\ Done(c)
    /\ UNCHANGED <<gateway, hooks, events, order, credits, group, bounds>>

-----------------------------------------------------------------------------
(* The gateway.                                                            *)

\* The customer pays, or fails to; an order nobody pays fails too.
GatewaySettles(a) ==
    /\ gateway[a] = "open"
    /\ \/ a \in payable /\ gateway' = [gateway EXCEPT ![a] = "paid"]
       \/ gateway' = [gateway EXCEPT ![a] = "failed"]
    /\ hooks' = hooks \cup {a}
    /\ UNCHANGED <<payable, rows, events, order, credits, group, ctx, bounds>>

-----------------------------------------------------------------------------
(* verifyPhonePePaymentStatus and processPhonePeWebhook.                   *)

\* A status check loads the Payment document, then asks the gateway.
CheckStatus(c, a) ==
    /\ Free(c) /\ checks < MaxChecks /\ rows[a] # "none"
    /\ checks' = checks + 1
    /\ ctx' = [ctx EXCEPT ![c] = [Idle EXCEPT !.pc = "ask", !.att = a, !.status = rows[a]]]
    /\ UNCHANGED <<external, rows, events, order, credits, group, creates, crashes>>

AskGateway(c) ==
    /\ At(c, "ask")
    /\ ctx' = [ctx EXCEPT ![c].pc = "save", ![c].next = Answer(ctx[c].att)]
    /\ UNCHANGED <<external, rows, events, order, credits, group, bounds>>

\* A delivery of the webhook; an event that was recorded before is accepted and
\* not processed again.
Webhook(c, a) ==
    /\ Free(c) /\ a \in hooks
    /\ events' = events \cup {a}
    /\ IF a \in events
       THEN hooks' = hooks \ {a} /\ UNCHANGED ctx
       ELSE /\ ctx' = [ctx EXCEPT ![c] = [Idle EXCEPT !.pc = "load", !.att = a, !.hook = TRUE]]
            /\ UNCHANGED hooks
    /\ UNCHANGED <<gateway, payable, rows, order, credits, group, bounds>>

\* The webhook's own read of the Payment document; without one it is ignored.
LoadPayment(c) ==
    /\ At(c, "load")
    /\ LET a == ctx[c].att IN
       IF rows[a] = "none"
       THEN Done(c) /\ hooks' = hooks \ {a}
       ELSE /\ ctx' = [ctx EXCEPT ![c].pc = "save", ![c].status = rows[a], ![c].next = Answer(a)]
            /\ UNCHANGED hooks
    /\ UNCHANGED <<gateway, payable, rows, events, order, credits, group, bounds>>

\* transitionPaymentState, judged by the status that was loaded, and its save();
\* then the orders the status has consequences for.
FirstEffect(next) == CASE next = "CAPTURED" -> "capture"
                       [] next = "FAILED"   -> "cancel"
                       [] OTHER             -> "repend"

TransitionPayment(c) ==
    /\ At(c, "save")
    /\ LET a == ctx[c].att   next == ctx[c].next IN
       IF CanMove(ctx[c].status, next)
       THEN /\ rows' = [rows EXCEPT ![a] = IF ctx[c].status = next THEN @ ELSE next]
            /\ ctx' = [ctx EXCEPT ![c].pc = FirstEffect(next)]
       ELSE Done(c) /\ UNCHANGED rows
    /\ UNCHANGED <<external, events, order, credits, group, bounds>>

\* The handler has its result; a webhook is acknowledged with it.
Finish(c) ==
    /\ Done(c)
    /\ hooks' = IF ctx[c].hook THEN hooks \ {ctx[c].att} ELSE hooks

-----------------------------------------------------------------------------
(* handleOrderSideEffectsFromPaymentStatus.                                *)

\* handleOnlineOrderFinance: one transaction, once per order.
CaptureOrder_NoFlag(c) ==
    /\ At(c, "capture")
    /\ LET o == ctx[c].turn IN
       /\ order' = [order EXCEPT ![o].captured = TRUE, ![o].paymentStatus = "PAID"]
       /\ credits' = [credits EXCEPT ![o] = @ + 1]
    /\ Goto(c, "move")
    /\ UNCHANGED <<external, rows, events, group, bounds>>
CaptureOrder(c) ==
    /\ At(c, "capture")
    /\ LET o == ctx[c].turn IN
       IF order[o].captured THEN UNCHANGED <<order, credits>>
       ELSE /\ order' = [order EXCEPT ![o].captured = TRUE, ![o].paymentStatus = "PAID"]
            /\ credits' = [credits EXCEPT ![o] = @ + 1]
    /\ Goto(c, "move")
    /\ UNCHANGED <<external, rows, events, group, bounds>>

\* moveOrderToSellerPendingAfterPayment, then the next order.
MoveOrder_PrimaryOnly(c) ==
    /\ At(c, "move")
    /\ order' = [order EXCEPT ![1].ws = IF @ = "CREATED" THEN "SELLER_PENDING" ELSE @]
    /\ ctx' = [ctx EXCEPT ![c].pc = "group"]
    /\ UNCHANGED <<external, rows, events, credits, group, bounds>>
MoveOrder(c) ==
    /\ At(c, "move")
    /\ LET o == ctx[c].turn IN
       /\ order' = [order EXCEPT ![o].ws = IF @ = "CREATED" THEN "SELLER_PENDING" ELSE @]
       /\ ctx' = IF o < GroupSize THEN [ctx EXCEPT ![c].pc = "capture", ![c].turn = o + 1]
                                  ELSE [ctx EXCEPT ![c].pc = "group"]
    /\ UNCHANGED <<external, rows, events, credits, group, bounds>>

\* A failed payment: one transaction restocks and cancels what is still waiting
\* for its payment.
Released(o) == [order[o] EXCEPT !.ws = "CANCELLED", !.paymentStatus = "FAILED", !.releases = @ + 1]

CancelUnpaidOrders_AnyStatus(c) ==
    /\ At(c, "cancel")
    /\ order' = [o \in Orders |-> Released(o)]
    /\ Goto(c, "group")
    /\ UNCHANGED <<external, rows, events, credits, group, bounds>>
CancelUnpaidOrders(c) ==
    /\ At(c, "cancel")
    /\ order' = [o \in Orders |-> IF order[o].ws = "CREATED" THEN Released(o) ELSE order[o]]
    /\ Goto(c, "group")
    /\ UNCHANGED <<external, rows, events, credits, group, bounds>>

\* Any other answer writes CREATED over the orders' payment status.
RepeatPending(c) ==
    /\ At(c, "repend")
    /\ order' = [o \in Orders |-> [order[o] EXCEPT !.paymentStatus = "CREATED"]]
    /\ Finish(c)
    /\ UNCHANGED <<gateway, payable, rows, events, credits, group, bounds>>

\* updateCheckoutGroupPaymentStatus.
UpdateGroup(c) ==
    /\ At(c, "group")
    /\ group' = IF ctx[c].next = "CAPTURED" THEN "PAID" ELSE "CANCELLED"
    /\ Finish(c)
    /\ UNCHANGED <<gateway, payable, rows, events, order, credits, bounds>>

-----------------------------------------------------------------------------
(* The rest of the system.                                                 *)

\* Customer or cron job cancel an order that waits for its payment, and what was
\* captured is refunded (in several steps: see OrderWorkflow).
CancelOrder(o) ==
    /\ order[o].ws = "CREATED"
    /\ order' = [order EXCEPT ![o].ws = "CANCELLED", ![o].releases = @ + 1,
                              ![o].paymentStatus = IF order[o].captured THEN "REFUNDED" ELSE @]
    /\ UNCHANGED <<external, rows, events, credits, group, ctx, bounds>>

\* The process dies; a webhook that was not acknowledged is delivered again.
Crash(c) ==
    /\ ~Free(c) /\ crashes < MaxCrashes
    /\ crashes' = crashes + 1
    /\ Done(c)
    /\ UNCHANGED <<external, rows, events, order, credits, group, creates, checks>>

-----------------------------------------------------------------------------
Handler(c) ==
    \/ FindOpenPayment(c) \/ CountAttempts(c) \/ InitiatePayment(c) \/ CreatePaymentRow(c)
    \/ AskGateway(c) \/ LoadPayment(c) \/ TransitionPayment(c) \/ CaptureOrder(c) \/ MoveOrder(c)
    \/ CancelUnpaidOrders(c) \/ RepeatPending(c) \/ UpdateGroup(c)

Next ==
    \/ \E c \in Contexts : StartPayment(c) \/ Handler(c) \/ Crash(c)
    \/ \E c \in Contexts, a \in Attempts : CheckStatus(c, a) \/ Webhook(c, a)
    \/ \E a \in Attempts : GatewaySettles(a)
    \/ \E o \in Orders : CancelOrder(o)

Spec == Init /\ [][Next]_vars

\* Handlers go on, and the gateway delivers a webhook until it is accepted.
FairSpec ==
    /\ Spec
    /\ \A c \in Contexts : WF_vars(Handler(c))
    /\ \A a \in Attempts : SF_vars(\E c \in Contexts : Webhook(c, a))

-----------------------------------------------------------------------------
TypeOK ==
    /\ gateway \in [Attempts -> {"none", "open", "paid", "failed"}]
    /\ payable \subseteq Attempts /\ hooks \subseteq Attempts /\ events \subseteq Attempts
    /\ rows \in [Attempts -> Statuses \cup {"none"}]
    /\ order \in [Orders -> OrderRows]
    /\ credits \in [Orders -> Nat]
    /\ group \in {"PAYMENT_PENDING", "PAID", "CANCELLED"}
    /\ ctx \in [Contexts -> Handlers]
    /\ creates \in 0..MaxCreates /\ checks \in 0..MaxChecks /\ crashes \in 0..MaxCrashes

\* Webhooks, their redeliveries, status checks and several attempts together
\* credit the platform once per order, and only if the gateway has the money
\* (handleOnlineOrderFinance, onlinePaymentCaptured).
CaptureCreditedOnce ==
    \A o \in Orders :
        /\ credits[o] = (IF order[o].captured THEN 1 ELSE 0)
        /\ order[o].captured => \E a \in Attempts : gateway[a] = "paid"

\* Each record rests on an answer of the gateway, although a row is saved from a copy
\* that was loaded before the gateway was asked: a row on the answer for its attempt,
\* an order marked paid on its capture, a PAID group on the capture of all its orders,
\* what is marked failed on an attempt that failed.  When one attempt is paid and
\* another fails, the handler that writes last decides: a group can read CANCELLED
\* although the gateway was paid, but either way none of its orders is left waiting
\* (canTransitionPaymentStatus, mapStatusToInternal, updateCheckoutGroupPaymentStatus).
RecordsAgreeWithGateway ==
    /\ \A a \in Attempts :
        /\ rows[a] = "CAPTURED" => gateway[a] = "paid"
        /\ rows[a] = "FAILED"   => gateway[a] = "failed"
        /\ gateway[a] = "paid"  => rows[a] # "none"
    /\ group = "PAID"      => \A o \in Orders : order[o].captured
    /\ group = "CANCELLED" => \E a \in Attempts : gateway[a] = "failed"
    /\ \A o \in Orders :
        /\ group # "PAYMENT_PENDING" => order[o].ws # "CREATED"
        /\ order[o].paymentStatus \in {"PAID", "REFUNDED"} => order[o].captured
        /\ order[o].paymentStatus = "FAILED" =>
               order[o].ws = "CANCELLED" /\ \E a \in Attempts : gateway[a] = "failed"

\* The stock of an order is released once, whether an attempt fails, several do, or
\* the customer cancels first, and never once the order was paid and brought to its
\* seller.  A failing attempt does cancel and restock an order that another attempt
\* has paid, if it comes between that order's capture and its move: it looks at the
\* workflow status alone.  The window is open only while the capturing handler is at
\* that order, or when it died there (the CAPTURED and FAILED branches of
\* handleOrderSideEffectsFromPaymentStatus).
FailureReleasesOnce ==
    \A o \in Orders :
        /\ order[o].releases = (IF order[o].ws = "CANCELLED" THEN 1 ELSE 0)
        /\ order[o].ws = "SELLER_PENDING" => order[o].captured
        /\ order[o].captured /\ order[o].ws = "CREATED" =>
               crashes > 0 \/ \E c \in Contexts : At(c, "move") /\ ctx[c].turn = o

\* Money that the gateway has taken is recorded on every order of the group and
\* leaves none waiting for a payment, unless a handler died (the webhook's dedupe
\* row is written first, so the redelivery does nothing).
CaptureReachesOrders ==
    \A a \in Attempts :
        gateway[a] = "paid" ~>
            \/ crashes > 0
            \/ \A o \in Orders : order[o].captured /\ order[o].ws # "CREATED"
=============================================================================
