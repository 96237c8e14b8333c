------------------------- MODULE OnlinePaymentProofs -------------------------
(***************************************************************************)
(* Online payment, for any number of orders, attempts, handlers and deaths: *)
(* the types, a capture that is credited once, records that rest on the    *)
(* gateway's answers, and stock that is released once.                     *)
(*                                                                         *)
(* The argument: what the gateway has settled and what an order has        *)
(* captured are final, and no order goes back to waiting for its payment,  *)
(* so a handler that has its answer may be suspended for as long as it     *)
(* likes; whatever the others do, the answer stays true and the orders it  *)
(* has passed stay captured and out of the queue.                          *)
(***************************************************************************)
EXTENDS OnlinePayment, FiniteSetTheorems, TLAPS

-----------------------------------------------------------------------------
(* The handlers.                                                           *)

\* What the handler h believes of the gateway and of the orders it has passed.
Truthful(h) ==
    /\ h.pc \notin {"idle", "open", "count"} => h.att \in Attempts
    /\ h.pc \in {"save", "capture", "move", "cancel", "repend", "group"} =>
           /\ h.next = "CAPTURED" => gateway[h.att] = "paid"
           /\ h.next = "FAILED" => gateway[h.att] = "failed"

Progress(h) ==
    /\ h.pc \in {"ask", "load", "save"} => h.turn = 1
    /\ h.pc \in {"capture", "move"} =>
           /\ h.next = "CAPTURED"
           /\ \A o \in Orders : o < h.turn => order[o].captured /\ order[o].ws # "CREATED"
    /\ h.pc = "move" => order[h.turn].captured
    /\ h.pc = "cancel" => h.next = "FAILED"
    /\ h.pc = "group" =>
           /\ \A o \in Orders : order[o].ws # "CREATED"
           /\ \/ h.next = "CAPTURED" /\ \A o \in Orders : order[o].captured
              \/ h.next = "FAILED"

HandlersInv == \A c \in Contexts : Truthful(ctx[c]) /\ Progress(ctx[c])

\* Only an attempt whose Payment document exists can be paid.
PayableHasRow == \A a \in payable : rows[a] # "none"

\* The parts of RecordsAgreeWithGateway and FailureReleasesOnce.
RowsAgree ==
    \A a \in Attempts :
        /\ rows[a] = "CAPTURED" => gateway[a] = "paid"
        /\ rows[a] = "FAILED"   => gateway[a] = "failed"
        /\ gateway[a] = "paid"  => rows[a] # "none"

SomeFailed == \E a \in Attempts : gateway[a] = "failed"

GroupAgrees ==
    /\ group = "PAID" => \A o \in Orders : order[o].captured
    /\ group = "CANCELLED" => SomeFailed
    /\ group # "PAYMENT_PENDING" => \A o \in Orders : order[o].ws # "CREATED"

\* What an order says of its payment has its reason.
Backed(row) ==
    /\ row.paymentStatus \in {"PAID", "REFUNDED"} => row.captured
    /\ row.paymentStatus = "FAILED" => row.ws = "CANCELLED" /\ SomeFailed
    /\ row.ws = "SELLER_PENDING" => row.captured

OrdersBacked == \A o \in Orders : Backed(order[o])

ReleasedOnce == \A o \in Orders : order[o].releases = (IF order[o].ws = "CANCELLED" THEN 1 ELSE 0)

RecordsInv ==
    /\ PayableHasRow
    /\ CaptureCreditedOnce
    /\ RowsAgree
    /\ GroupAgrees
    /\ OrdersBacked
    /\ ReleasedOnce

\* Somebody is at an order that is captured and still waits, or died there.
Attended ==
    \A o \in Orders :
        order[o].captured /\ order[o].ws = "CREATED" =>
            crashes > 0 \/ \E c \in Contexts : At(c, "move") /\ ctx[c].turn = o

PaymentInv == TypeOK /\ HandlersInv /\ RecordsInv

-----------------------------------------------------------------------------
(* Level one: a handler that moves, and the ones that wait.                *)

Becomes(c, h) == ctx' = [ctx EXCEPT ![c] = h]

\* What is settled stays settled, and no order waits again.
Final ==
    /\ \A a \in Attempts : gateway[a] \in {"paid", "failed"} => gateway'[a] = gateway[a]
    /\ \A o \in Orders : /\ order[o].captured => order'[o].captured
                         /\ order[o].ws # "CREATED" => order'[o].ws # "CREATED"

CtxType  == ctx \in [Contexts -> Handlers]
DocsType ==
    /\ gateway \in [Attempts -> {"none", "open", "paid", "failed"}]
    /\ payable \subseteq Attempts /\ hooks \subseteq Attempts /\ events \subseteq Attempts
    /\ rows \in [Attempts -> Statuses \cup {"none"}]
    /\ order \in [Orders -> OrderRows]
    /\ credits \in [Orders -> Nat]
    /\ group \in {"PAYMENT_PENDING", "PAID", "CANCELLED"}
BoundsType == creates \in 0..MaxCreates /\ checks \in 0..MaxChecks /\ crashes \in 0..MaxCrashes

LEMMA TypeParts ==
  /\ TypeOK <=> CtxType /\ DocsType /\ BoundsType
  /\ TypeOK' <=> CtxType' /\ DocsType' /\ BoundsType'
  BY DEF TypeOK, CtxType, DocsType, BoundsType

LEMMA OrdersInRange == \A o : o \in Orders <=> o \in Nat /\ 1 <= o /\ o <= GroupSize
  BY PaymentGroupAssumption DEF Orders

LEMMA HandlerFields ==
  ASSUME NEW h \in Handlers
  PROVE  h.turn \in Orders /\ h.next \in Statuses /\ h.status \in Statuses /\ h.att \in 0..MaxAttempts
  BY DEF Handlers, Orders

LEMMA IdleType == Idle \in Handlers /\ Idle.pc = "idle"
  BY PaymentGroupAssumption, PaymentBoundAssumption DEF Idle, Handlers, Statuses

LEMMA IdleSound == Truthful(Idle)' /\ Progress(Idle)'
  BY DEF Idle, Truthful, Progress

LEMMA Persists ==
  ASSUME NEW h \in Handlers, Final, Truthful(h), Progress(h)
  PROVE  Truthful(h)' /\ Progress(h)'
  <1>1. Truthful(h)' BY DEF Truthful, Final
  <1>2. Progress(h)' BY HandlerFields DEF Progress, Final
  <1> QED BY <1>1, <1>2

LEMMA Moves ==
  ASSUME CtxType, HandlersInv, Final,
         NEW c \in Contexts, NEW h \in Handlers, Becomes(c, h), Truthful(h)', Progress(h)'
  PROVE  CtxType' /\ HandlersInv'
  <1>1. CtxType' BY DEF CtxType, Becomes
  <1>2. ASSUME NEW d \in Contexts PROVE Truthful(ctx[d])' /\ Progress(ctx[d])'
    <2>1. CASE d = c
      <3>1. ctx'[d] = h BY <2>1 DEF CtxType, Becomes
      <3> QED BY <3>1 DEF Truthful, Progress
    <2>2. CASE d # c
      <3> DEFINE k == ctx[d]
      <3>1. ctx'[d] = k BY <2>2 DEF CtxType, Becomes
      <3>2. k \in Handlers BY DEF CtxType
      <3>3. PICK x \in Handlers : x = k BY <3>2
      <3>4. Truthful(x) /\ Progress(x) BY <3>3 DEF HandlersInv
      <3>5. Truthful(x)' /\ Progress(x)' BY <3>4, Persists
      <3> QED BY <3>1, <3>3, <3>5 DEF Truthful, Progress
    <2> QED BY <2>1, <2>2
  <1> QED BY <1>1, <1>2 DEF HandlersInv

LEMMA Waits ==
  ASSUME CtxType, HandlersInv, Final, ctx' = ctx
  PROVE  CtxType' /\ HandlersInv'
  <1>1. CtxType' BY DEF CtxType
  <1>2. ASSUME NEW d \in Contexts PROVE Truthful(ctx[d])' /\ Progress(ctx[d])'
    <2>1. PICK x \in Handlers : x = ctx[d] BY DEF CtxType
    <2>2. Truthful(x) /\ Progress(x) BY <2>1 DEF HandlersInv
    <2>3. Truthful(x)' /\ Progress(x)' BY <2>2, Persists
    <2> QED BY <2>1, <2>3 DEF Truthful, Progress
  <1> QED BY <1>1, <1>2 DEF HandlersInv

LEMMA GotoBecomes ==
  ASSUME CtxType, NEW c \in Contexts, NEW label,
         label \in {"open", "create", "move", "group"}, Goto(c, label)
  PROVE  \E h \in Handlers : /\ Becomes(c, h) /\ h.pc = label
                             /\ h.att = ctx[c].att /\ h.next = ctx[c].next
                             /\ h.turn = ctx[c].turn
  <1> DEFINE h == [ctx[c] EXCEPT !.pc = label]
  <1>1. ctx[c] \in Handlers BY DEF CtxType
  <1>2. h \in Handlers BY <1>1 DEF Handlers
  <1>3. h.pc = label /\ h.att = ctx[c].att /\ h.next = ctx[c].next /\ h.turn = ctx[c].turn
    BY <1>1 DEF Handlers
  <1>4. Becomes(c, h) BY DEF Goto, Becomes
  <1> QED BY <1>2, <1>3, <1>4

LEMMA DoneBecomes ==
  ASSUME NEW c, Done(c)
  PROVE  Becomes(c, Idle)
  BY DEF Done, Becomes

-----------------------------------------------------------------------------
(* Level two: the steps, by what they change.                              *)

\* A step of a handler that touches no order, no row and not the gateway.
LEMMA RecordsRest ==
  ASSUME RecordsInv, UNCHANGED <<gateway, payable, rows, order, credits, group>>
  PROVE  RecordsInv' /\ Final
  BY DEF RecordsInv, PayableHasRow, CaptureCreditedOnce, RowsAgree, GroupAgrees, OrdersBacked,
         Backed, SomeFailed, ReleasedOnce, Final

\* A step of the gateway or on the Payment rows, which leaves orders and group alone.
LEMMA OrdersSame ==
  ASSUME RecordsInv, Final, UNCHANGED <<order, credits, group>>
  PROVE  CaptureCreditedOnce' /\ GroupAgrees' /\ OrdersBacked' /\ ReleasedOnce'
  <1>1. \A a \in Attempts : /\ gateway[a] = "paid" => gateway'[a] = "paid"
                            /\ gateway[a] = "failed" => gateway'[a] = "failed"
    BY DEF Final
  <1>2. SomeFailed => SomeFailed' BY <1>1 DEF SomeFailed
  <1>3. CaptureCreditedOnce' BY <1>1 DEF RecordsInv, CaptureCreditedOnce
  <1>4. GroupAgrees' BY <1>2 DEF RecordsInv, GroupAgrees
  <1>5. OrdersBacked' BY <1>2 DEF RecordsInv, OrdersBacked, Backed
  <1>6. ReleasedOnce' BY DEF RecordsInv, ReleasedOnce
  <1> QED BY <1>3, <1>4, <1>5, <1>6

LEMMA RecordsSame ==
  ASSUME PaymentInv, UNCHANGED <<gateway, payable, rows, order, credits, group>>,
         hooks' \subseteq Attempts, events' \subseteq Attempts, BoundsType',
         CtxType /\ HandlersInv /\ Final => CtxType' /\ HandlersInv'
  PROVE  PaymentInv'
  <1>1. RecordsInv' /\ Final BY RecordsRest DEF PaymentInv
  <1>2. CtxType' /\ HandlersInv' BY <1>1, TypeParts DEF PaymentInv
  <1>3. DocsType' BY TypeParts DEF PaymentInv, DocsType
  <1> QED BY <1>1, <1>2, <1>3, TypeParts DEF PaymentInv

LEMMA ToIdle ==
  ASSUME CtxType, HandlersInv, NEW c \in Contexts, Done(c), Final
  PROVE  CtxType' /\ HandlersInv'
  BY DoneBecomes, IdleType, IdleSound, Moves

LEMMA StepStart ==
  ASSUME PaymentInv, NEW c \in Contexts, StartPayment(c)
  PROVE  PaymentInv'
  <1>0. CtxType /\ BoundsType /\ hooks' \subseteq Attempts /\ events' \subseteq Attempts
    BY TypeParts DEF PaymentInv, DocsType, StartPayment, external
  <1>1. BoundsType'
    BY <1>0, PaymentBoundAssumption DEF BoundsType, StartPayment
  <1>2. PICK h \in Handlers : Becomes(c, h) /\ h.pc = "open"
    BY <1>0, GotoBecomes DEF StartPayment
  <1>3. Truthful(h)' /\ Progress(h)' BY <1>2 DEF Truthful, Progress
  <1>4. CtxType /\ HandlersInv /\ Final => CtxType' /\ HandlersInv' BY <1>2, <1>3, Moves
  <1> QED BY <1>0, <1>1, <1>4, RecordsSame DEF StartPayment, external

LEMMA StepFindOpen ==
  ASSUME PaymentInv, NEW c \in Contexts, FindOpenPayment(c)
  PROVE  PaymentInv'
  <1>0. CtxType /\ BoundsType' /\ hooks' \subseteq Attempts /\ events' \subseteq Attempts
    BY TypeParts DEF PaymentInv, DocsType, FindOpenPayment, external, BoundsType, bounds
  <1>1. CASE Done(c)
    BY <1>0, <1>1, ToIdle, RecordsSame DEF FindOpenPayment, external
  <1>2. CASE Goto(c, "count")
    <2> DEFINE h == [ctx[c] EXCEPT !.pc = "count"]
    <2>1. ctx[c] \in Handlers BY <1>0 DEF CtxType
    <2>2. h \in Handlers /\ h.pc = "count" BY <2>1 DEF Handlers
    <2>3. Becomes(c, h) BY <1>2 DEF Goto, Becomes
    <2>4. PICK k \in Handlers : Becomes(c, k) /\ k.pc = "count" BY <2>2, <2>3
    <2>5. Truthful(k)' /\ Progress(k)' BY <2>4 DEF Truthful, Progress
    <2>6. CtxType /\ HandlersInv /\ Final => CtxType' /\ HandlersInv' BY <2>4, <2>5, Moves
    <2> QED BY <1>0, <2>6, RecordsSame DEF FindOpenPayment, external
  <1> QED BY <1>1, <1>2 DEF FindOpenPayment

LEMMA StepCount ==
  ASSUME PaymentInv, NEW c \in Contexts, CountAttempts(c)
  PROVE  PaymentInv'
  <1>0. CtxType /\ BoundsType' /\ hooks' \subseteq Attempts /\ events' \subseteq Attempts
    BY TypeParts DEF PaymentInv, DocsType, CountAttempts, external, BoundsType, bounds
  <1> DEFINE S == {a \in Attempts : rows[a] # "none"}
             n == Cardinality(S) + 1
  <1>1. IsFiniteSet(S)
    <2>1. IsFiniteSet(Attempts) BY FS_Interval, PaymentBoundAssumption DEF Attempts
    <2>2. S \subseteq Attempts OBVIOUS
    <2> HIDE DEF S
    <2> QED BY <2>1, <2>2, FS_Subset
  <1>2. Cardinality(S) \in Nat BY <1>1, FS_CardinalityType
  <1>3. n \in Attempts
    <2>1. n <= MaxAttempts BY DEF CountAttempts
    <2> HIDE DEF S
    <2> QED BY <1>2, <2>1, PaymentBoundAssumption DEF Attempts
  <1>4. ctx' = [ctx EXCEPT ![c].pc = "initiate", ![c].att = n] BY DEF CountAttempts
  <1> HIDE DEF n
  <1>5. PICK m \in Attempts : ctx' = [ctx EXCEPT ![c].pc = "initiate", ![c].att = m]
    BY <1>3, <1>4
  <1> DEFINE h == [ctx[c] EXCEPT !.pc = "initiate", !.att = m]
  <1>6. ctx[c] \in Handlers BY <1>0 DEF CtxType
  <1>7. h \in Handlers /\ h.pc = "initiate" /\ h.att = m
    <2>1. m \in 0..MaxAttempts BY PaymentBoundAssumption DEF Attempts
    <2> QED BY <1>6, <2>1 DEF Handlers
  <1>8. Becomes(c, h) BY <1>5 DEF Becomes
  <1> HIDE DEF h
  <1>9. PICK k \in Handlers : Becomes(c, k) /\ k.pc = "initiate" /\ k.att \in Attempts
    BY <1>7, <1>8
  <1>10. Truthful(k)' /\ Progress(k)' BY <1>9 DEF Truthful, Progress
  <1>11. CtxType /\ HandlersInv /\ Final => CtxType' /\ HandlersInv' BY <1>9, <1>10, Moves
  <1> QED BY <1>0, <1>11, RecordsSame DEF CountAttempts, external

LEMMA StepInitiate ==
  ASSUME PaymentInv, NEW c \in Contexts, InitiatePayment(c)
  PROVE  PaymentInv'
  <1>0. /\ CtxType /\ BoundsType' /\ hooks' \subseteq Attempts /\ events' \subseteq Attempts
        /\ DocsType
    BY TypeParts DEF PaymentInv, DocsType, InitiatePayment, BoundsType, bounds
  <1>1. CASE Done(c) /\ UNCHANGED gateway
    BY <1>0, <1>1, ToIdle, RecordsSame DEF InitiatePayment
  <1>2. CASE /\ gateway' = [gateway EXCEPT ![ctx[c].att] = IF @ = "none" THEN "open" ELSE @]
             /\ Goto(c, "create")
    <2>1. ctx[c].att \in Attempts BY DEF PaymentInv, HandlersInv, Truthful, InitiatePayment, At
    <2>2. \A a \in Attempts : gateway[a] # "none" => gateway'[a] = gateway[a]
      BY <1>0, <1>2, <2>1 DEF DocsType
    <2>3. \A a \in Attempts : gateway[a] = "none" => gateway'[a] \in {"none", "open"}
      BY <1>0, <1>2, <2>1 DEF DocsType
    <2>4. gateway' \in [Attempts -> {"none", "open", "paid", "failed"}]
      BY <1>0, <1>2, <2>1 DEF DocsType
    <2>5. DocsType' BY <1>0, <2>4 DEF DocsType, InitiatePayment
    <2>6. Final BY <2>2 DEF Final, InitiatePayment
    <2>7. PICK h \in Handlers : Becomes(c, h) /\ h.pc = "create" /\ h.att = ctx[c].att
      BY <1>0, <1>2, GotoBecomes
    <2>8. Truthful(h)' /\ Progress(h)' BY <2>1, <2>7 DEF Truthful, Progress
    <2>9. CtxType' /\ HandlersInv' BY <1>0, <2>6, <2>7, <2>8, Moves DEF PaymentInv
    <2>10. RecordsInv'
      <3>1. CaptureCreditedOnce' /\ GroupAgrees' /\ OrdersBacked' /\ ReleasedOnce'
        BY <2>6, OrdersSame DEF PaymentInv, InitiatePayment
      <3>2. PayableHasRow' /\ RowsAgree'
        BY <2>2, <2>3 DEF PaymentInv, RecordsInv, PayableHasRow, RowsAgree, InitiatePayment
      <3> QED BY <3>1, <3>2 DEF RecordsInv
    <2> QED BY <1>0, <2>5, <2>9, <2>10, TypeParts DEF PaymentInv
  <1> QED BY <1>1, <1>2 DEF InitiatePayment

LEMMA StepCreate ==
  ASSUME PaymentInv, NEW c \in Contexts, CreatePaymentRow(c)
  PROVE  PaymentInv'
  <1>0. /\ CtxType /\ BoundsType' /\ DocsType
    BY TypeParts DEF PaymentInv, DocsType, CreatePaymentRow, BoundsType, bounds
  <1>1. ctx[c].att \in Attempts BY DEF PaymentInv, HandlersInv, Truthful, CreatePaymentRow, At
  <1>2. Final BY DEF Final, CreatePaymentRow
  <1>3. CtxType' /\ HandlersInv' BY <1>0, <1>2, ToIdle DEF PaymentInv, CreatePaymentRow
  <1>4. /\ rows' \in [Attempts -> Statuses \cup {"none"}] /\ payable' \subseteq Attempts
        /\ \A a \in Attempts : /\ rows'[a] = rows[a] \/ rows'[a] = "PENDING"
                               /\ rows[a] # "none" => rows'[a] # "none"
        /\ \A a \in payable' : rows'[a] # "none"
    <2>1. CASE rows[ctx[c].att] = "none"
      <3>1. /\ rows' = [rows EXCEPT ![ctx[c].att] = "PENDING"]
            /\ payable' = payable \cup {ctx[c].att}
        BY <2>1 DEF CreatePaymentRow
      <3> QED BY <1>0, <1>1, <3>1 DEF DocsType, Statuses, PaymentInv, RecordsInv, PayableHasRow
    <2>2. CASE rows[ctx[c].att] # "none"
      BY <1>0, <1>1, <2>2 DEF DocsType, CreatePaymentRow, PaymentInv, RecordsInv, PayableHasRow
    <2> QED BY <2>1, <2>2
  <1>5. DocsType' BY <1>0, <1>4 DEF DocsType, CreatePaymentRow
  <1>6. RecordsInv'
    <2>1. CaptureCreditedOnce' /\ GroupAgrees' /\ OrdersBacked' /\ ReleasedOnce'
      BY <1>2, OrdersSame DEF PaymentInv, CreatePaymentRow
    <2>2. PayableHasRow' /\ RowsAgree'
      BY <1>4 DEF PaymentInv, RecordsInv, PayableHasRow, RowsAgree, CreatePaymentRow
    <2> QED BY <2>1, <2>2 DEF RecordsInv
  <1> QED BY <1>0, <1>3, <1>5, <1>6, TypeParts DEF PaymentInv

LEMMA StepSettle ==
  ASSUME PaymentInv, NEW a \in Attempts, GatewaySettles(a)
  PROVE  PaymentInv'
  <1>0. /\ CtxType /\ BoundsType' /\ DocsType
    BY TypeParts DEF PaymentInv, DocsType, GatewaySettles, BoundsType, bounds
  <1>1. PICK w \in {"paid", "failed"} : /\ gateway' = [gateway EXCEPT ![a] = w]
                                        /\ w = "paid" => a \in payable
    BY DEF GatewaySettles
  <1>2. /\ \A b \in Attempts : b # a => gateway'[b] = gateway[b]
        /\ gateway'[a] = w /\ gateway[a] = "open"
        /\ gateway' \in [Attempts -> {"none", "open", "paid", "failed"}]
    BY <1>0, <1>1 DEF DocsType, GatewaySettles
  <1>3. Final BY <1>2 DEF Final, GatewaySettles
  <1>4. CtxType' /\ HandlersInv' BY <1>0, <1>3, Waits DEF PaymentInv, GatewaySettles
  <1>5. DocsType' BY <1>0, <1>2 DEF DocsType, GatewaySettles
  <1>6. RecordsInv'
    <2>1. CaptureCreditedOnce' /\ GroupAgrees' /\ OrdersBacked' /\ ReleasedOnce'
      BY <1>3, OrdersSame DEF PaymentInv, GatewaySettles
    <2>2. PayableHasRow' BY DEF PaymentInv, RecordsInv, PayableHasRow, GatewaySettles
    <2>3. RowsAgree'
      BY <1>1, <1>2 DEF PaymentInv, RecordsInv, RowsAgree, PayableHasRow, GatewaySettles
    <2> QED BY <2>1, <2>2, <2>3 DEF RecordsInv
  <1> QED BY <1>0, <1>4, <1>5, <1>6, TypeParts DEF PaymentInv

LEMMA StepCheck ==
  ASSUME PaymentInv, NEW c \in Contexts, NEW a \in Attempts, CheckStatus(c, a)
  PROVE  PaymentInv'
  <1>0. CtxType /\ DocsType /\ BoundsType /\ hooks' \subseteq Attempts /\ events' \subseteq Attempts
    BY TypeParts DEF PaymentInv, DocsType, CheckStatus, external
  <1>1. BoundsType' BY <1>0, PaymentBoundAssumption DEF BoundsType, CheckStatus
  <1>2. rows[a] \in Statuses BY <1>0 DEF DocsType, CheckStatus
  <1> DEFINE h == [Idle EXCEPT !.pc = "ask", !.att = a, !.status = rows[a]]
  <1>3. a \in 0..MaxAttempts BY PaymentBoundAssumption DEF Attempts
  <1>4. h \in Handlers BY IdleType, <1>2, <1>3 DEF Handlers
  <1>5. h.pc = "ask" /\ h.att = a /\ h.turn = 1 BY DEF Idle
  <1>6. Becomes(c, h) BY DEF CheckStatus, Becomes
  <1> HIDE DEF h
  <1>7. PICK k \in Handlers : Becomes(c, k) /\ k.pc = "ask" /\ k.att = a /\ k.turn = 1
    BY <1>4, <1>5, <1>6
  <1>8. Truthful(k)' /\ Progress(k)' BY <1>7 DEF Truthful, Progress
  <1>9. CtxType /\ HandlersInv /\ Final => CtxType' /\ HandlersInv' BY <1>7, <1>8, Moves
  <1> QED BY <1>0, <1>1, <1>9, RecordsSame DEF CheckStatus, external

LEMMA AnswerTrue ==
  ASSUME NEW a
  PROVE  /\ Answer(a) \in Statuses
         /\ Answer(a) = "CAPTURED" => gateway[a] = "paid"
         /\ Answer(a) = "FAILED" => gateway[a] = "failed"
  BY DEF Answer, Statuses

LEMMA StepAsk ==
  ASSUME PaymentInv, NEW c \in Contexts, AskGateway(c)
  PROVE  PaymentInv'
  <1>0. CtxType /\ BoundsType' /\ hooks' \subseteq Attempts /\ events' \subseteq Attempts
    BY TypeParts DEF PaymentInv, DocsType, AskGateway, external, BoundsType, bounds
  <1>1. ctx[c] \in Handlers BY <1>0 DEF CtxType
  <1>2. ctx[c].att \in Attempts /\ ctx[c].turn = 1
    BY DEF PaymentInv, HandlersInv, Truthful, Progress, AskGateway, At
  <1>3. PICK n \in Statuses : /\ ctx' = [ctx EXCEPT ![c].pc = "save", ![c].next = n]
                              /\ n = "CAPTURED" => gateway[ctx[c].att] = "paid"
                              /\ n = "FAILED" => gateway[ctx[c].att] = "failed"
    BY AnswerTrue DEF AskGateway
  <1> DEFINE h == [ctx[c] EXCEPT !.pc = "save", !.next = n]
  <1>4. /\ h \in Handlers /\ h.pc = "save" /\ h.next = n
        /\ h.att = ctx[c].att /\ h.turn = 1
    BY <1>1, <1>2 DEF Handlers
  <1>5. Becomes(c, h) BY <1>3 DEF Becomes
  <1> HIDE DEF h
  <1>6. PICK k \in Handlers : /\ Becomes(c, k) /\ k.pc = "save" /\ k.next = n
                              /\ k.att = ctx[c].att /\ k.turn = 1
    BY <1>4, <1>5
  <1>7. gateway' = gateway BY DEF AskGateway, external
  <1>8. Truthful(k)' /\ Progress(k)' BY <1>2, <1>3, <1>6, <1>7 DEF Truthful, Progress
  <1>9. CtxType /\ HandlersInv /\ Final => CtxType' /\ HandlersInv' BY <1>6, <1>8, Moves
  <1> QED BY <1>0, <1>9, RecordsSame DEF AskGateway, external

LEMMA StepWebhook ==
  ASSUME PaymentInv, NEW c \in Contexts, NEW a \in Attempts, Webhook(c, a)
  PROVE  PaymentInv'
  <1>0. CtxType /\ BoundsType' /\ hooks' \subseteq Attempts /\ events' \subseteq Attempts
    BY TypeParts DEF PaymentInv, DocsType, Webhook, BoundsType, bounds
  <1>1. CASE a \in events
    <2>1. CtxType /\ HandlersInv /\ Final => CtxType' /\ HandlersInv'
      BY <1>1, Waits DEF Webhook
    <2> QED BY <1>0, <2>1, RecordsSame DEF Webhook
  <1>2. CASE a \notin events
    <2> DEFINE h == [Idle EXCEPT !.pc = "load", !.att = a, !.hook = TRUE]
    <2>1. a \in 0..MaxAttempts BY PaymentBoundAssumption DEF Attempts
    <2>2. h \in Handlers BY IdleType, <2>1 DEF Handlers
    <2>3. h.pc = "load" /\ h.att = a /\ h.turn = 1 BY DEF Idle
    <2>4. Becomes(c, h) BY <1>2 DEF Webhook, Becomes
    <2> HIDE DEF h
    <2>5. PICK k \in Handlers : Becomes(c, k) /\ k.pc = "load" /\ k.att = a /\ k.turn = 1
      BY <2>2, <2>3, <2>4
    <2>6. Truthful(k)' /\ Progress(k)' BY <2>5 DEF Truthful, Progress
    <2>7. CtxType /\ HandlersInv /\ Final => CtxType' /\ HandlersInv' BY <2>5, <2>6, Moves
    <2> QED BY <1>0, <2>7, RecordsSame DEF Webhook
  <1> QED BY <1>1, <1>2

LEMMA StepLoad ==
  ASSUME PaymentInv, NEW c \in Contexts, LoadPayment(c)
  PROVE  PaymentInv'
  <1>0. /\ CtxType /\ DocsType /\ BoundsType' /\ hooks' \subseteq Attempts
        /\ events' \subseteq Attempts
    BY TypeParts DEF PaymentInv, DocsType, LoadPayment, BoundsType, bounds
  <1>1. CASE rows[ctx[c].att] = "none"
    BY <1>0, <1>1, ToIdle, RecordsSame DEF LoadPayment
  <1>2. CASE rows[ctx[c].att] # "none"
    <2>1. ctx[c] \in Handlers BY <1>0 DEF CtxType
    <2>2. ctx[c].att \in Attempts /\ ctx[c].turn = 1
      BY DEF PaymentInv, HandlersInv, Truthful, Progress, LoadPayment, At
    <2>3. rows[ctx[c].att] \in Statuses BY <1>0, <1>2, <2>2 DEF DocsType
    <2>4. PICK s \in Statuses, n \in Statuses :
             /\ ctx' = [ctx EXCEPT ![c].pc = "save", ![c].status = s, ![c].next = n]
             /\ n = "CAPTURED" => gateway[ctx[c].att] = "paid"
             /\ n = "FAILED" => gateway[ctx[c].att] = "failed"
      BY <1>2, <2>3, AnswerTrue DEF LoadPayment
    <2> DEFINE h == [ctx[c] EXCEPT !.pc = "save", !.status = s, !.next = n]
    <2>5. /\ h \in Handlers /\ h.pc = "save" /\ h.next = n
          /\ h.att = ctx[c].att /\ h.turn = 1
      BY <2>1, <2>2 DEF Handlers
    <2>6. Becomes(c, h) BY <2>4 DEF Becomes
    <2> HIDE DEF h
    <2>7. PICK k \in Handlers : /\ Becomes(c, k) /\ k.pc = "save" /\ k.next = n
                                /\ k.att = ctx[c].att /\ k.turn = 1
      BY <2>5, <2>6
    <2>8. gateway' = gateway BY DEF LoadPayment
    <2>9. Truthful(k)' /\ Progress(k)' BY <2>2, <2>4, <2>7, <2>8 DEF Truthful, Progress
    <2>10. CtxType /\ HandlersInv /\ Final => CtxType' /\ HandlersInv' BY <2>7, <2>9, Moves
    <2> QED BY <1>0, <2>10, RecordsSame DEF LoadPayment
  <1> QED BY <1>1, <1>2

LEMMA StepTransition ==
  ASSUME PaymentInv, NEW c \in Contexts, TransitionPayment(c)
  PROVE  PaymentInv'
  <1>0. /\ CtxType /\ DocsType /\ BoundsType' /\ hooks' \subseteq Attempts
        /\ events' \subseteq Attempts
    BY TypeParts DEF PaymentInv, DocsType, TransitionPayment, external, BoundsType, bounds
  <1>1. CASE ~CanMove(ctx[c].status, ctx[c].next)
    BY <1>0, <1>1, ToIdle, RecordsSame DEF TransitionPayment, external
  <1>2. CASE CanMove(ctx[c].status, ctx[c].next)
    <2> DEFINE n == ctx[c].next
    <2>1. ctx[c] \in Handlers /\ n \in Statuses BY <1>0, HandlerFields DEF CtxType
    <2>2. /\ ctx[c].att \in Attempts /\ ctx[c].turn = 1
          /\ n = "CAPTURED" => gateway[ctx[c].att] = "paid"
          /\ n = "FAILED" => gateway[ctx[c].att] = "failed"
      BY DEF PaymentInv, HandlersInv, Truthful, Progress, TransitionPayment, At
    <2>3. PICK label \in {"capture", "cancel", "repend"} :
             /\ ctx' = [ctx EXCEPT ![c].pc = label]
             /\ label = "capture" => n = "CAPTURED"
             /\ label = "cancel" => n = "FAILED"
      BY <1>2 DEF TransitionPayment, FirstEffect
    <2> DEFINE h == [ctx[c] EXCEPT !.pc = label]
    <2>4. h \in Handlers /\ h.pc = label /\ h.next = n /\ h.att = ctx[c].att /\ h.turn = 1
      BY <2>1, <2>2 DEF Handlers
    <2>5. Becomes(c, h) BY <2>3 DEF Becomes
    <2> HIDE DEF h
    <2>6. PICK k \in Handlers : /\ Becomes(c, k) /\ k.pc = label /\ k.next = n
                                /\ k.att = ctx[c].att /\ k.turn = 1
      BY <2>4, <2>5
    <2>7. gateway' = gateway /\ Final BY DEF TransitionPayment, external, Final
    <2>8. Truthful(k)' BY <2>2, <2>6, <2>7 DEF Truthful
    <2>9. Progress(k)'
      <3>1. \A o \in Orders : ~(o < 1) BY OrdersInRange
      <3> QED BY <2>3, <2>6, <3>1 DEF Progress
    <2>10. CtxType' /\ HandlersInv' BY <1>0, <2>6, <2>7, <2>8, <2>9, Moves DEF PaymentInv
    <2>11. /\ \A a \in Attempts : a # ctx[c].att => rows'[a] = rows[a]
           /\ \/ rows'[ctx[c].att] = rows[ctx[c].att]
              \/ rows'[ctx[c].att] = n
           /\ rows' \in [Attempts -> Statuses \cup {"none"}]
      <3>1. rows' = [rows EXCEPT ![ctx[c].att] = IF ctx[c].status = n THEN @ ELSE n]
        BY <1>2 DEF TransitionPayment
      <3>2. CASE ctx[c].status = n
        <4>1. rows' = [rows EXCEPT ![ctx[c].att] = @] BY <3>1, <3>2
        <4> HIDE DEF n
        <4> QED BY <1>0, <2>2, <4>1 DEF DocsType
      <3>3. CASE ctx[c].status # n
        <4>1. rows' = [rows EXCEPT ![ctx[c].att] = n] BY <3>1, <3>3
        <4> HIDE DEF n
        <4> QED BY <1>0, <2>1, <2>2, <4>1 DEF DocsType
      <3> QED BY <3>2, <3>3
    <2>12. DocsType' BY <1>0, <2>11 DEF DocsType, TransitionPayment, external
    <2>13. n # "none" BY <2>1 DEF Statuses
    <2> HIDE DEF n
    <2>14. UNCHANGED <<gateway, payable, order, credits, group>>
      BY DEF TransitionPayment, external
    <2>15. PayableHasRow'
      BY <1>0, <2>11, <2>13, <2>14 DEF DocsType, PaymentInv, RecordsInv, PayableHasRow
    <2>16. CaptureCreditedOnce' /\ GroupAgrees' /\ OrdersBacked' /\ ReleasedOnce'
      BY <2>7, <2>14, OrdersSame DEF PaymentInv
    <2>17. RowsAgree'
      BY <2>2, <2>11, <2>13, <2>14 DEF PaymentInv, RecordsInv, RowsAgree
    <2>18. RecordsInv' BY <2>15, <2>16, <2>17 DEF RecordsInv
    <2> QED BY <1>0, <2>10, <2>12, <2>18, TypeParts DEF PaymentInv
  <1> QED BY <1>1, <1>2

\* A step that writes orders, keeps what they captured, and releases the stock of
\* those that it cancels.
LEMMA OrdersWritten ==
  ASSUME PaymentInv, UNCHANGED <<gateway, payable, rows, credits, group>>,
         \A o \in Orders :
            /\ order'[o].captured = order[o].captured
            /\ order[o].ws # "CREATED" => order'[o].ws # "CREATED"
            /\ Backed(order'[o])
            /\ \/ order'[o].releases = order[o].releases
                  /\ (order'[o].ws = "CANCELLED" <=> order[o].ws = "CANCELLED")
               \/ /\ order[o].ws # "CANCELLED" /\ order'[o].ws = "CANCELLED"
                  /\ order'[o].releases = order[o].releases + 1
  PROVE  Final /\ RecordsInv'
  <1>1. Final BY DEF Final
  <1>2. PayableHasRow' /\ CaptureCreditedOnce' /\ RowsAgree'
    BY DEF PaymentInv, RecordsInv, PayableHasRow, CaptureCreditedOnce, RowsAgree
  <1>3. GroupAgrees' BY DEF PaymentInv, RecordsInv, GroupAgrees, SomeFailed
  <1>4. OrdersBacked' BY DEF OrdersBacked, Backed, SomeFailed
  <1>5. ReleasedOnce' BY DEF PaymentInv, RecordsInv, ReleasedOnce
  <1> QED BY <1>1, <1>2, <1>3, <1>4, <1>5 DEF RecordsInv

LEMMA StepCapture ==
  ASSUME PaymentInv, NEW c \in Contexts, CaptureOrder(c)
  PROVE  PaymentInv'
  <1>0. CtxType /\ DocsType /\ BoundsType'
    BY TypeParts DEF PaymentInv, CaptureOrder, BoundsType, bounds
  <1> DEFINE o == ctx[c].turn
  <1>1. o \in Orders BY <1>0, HandlerFields DEF CtxType
  <1>2. /\ ctx[c].next = "CAPTURED" /\ ctx[c].att \in Attempts
        /\ gateway[ctx[c].att] = "paid"
        /\ \A p \in Orders : p < o => order[p].captured
    BY DEF PaymentInv, HandlersInv, Truthful, Progress, CaptureOrder, At
  <1>a. \A p \in Orders : p < o => order[p].ws # "CREATED"
    BY DEF PaymentInv, HandlersInv, Progress, CaptureOrder, At
  <1>3. /\ \A p \in Orders : p # o => order'[p] = order[p] /\ credits'[p] = credits[p]
        /\ order'[o].captured
        /\ order'[o].paymentStatus \in {order[o].paymentStatus, "PAID"}
        /\ order'[o].ws = order[o].ws /\ order'[o].releases = order[o].releases
        /\ credits'[o] = (IF order[o].captured THEN credits[o] ELSE credits[o] + 1)
        /\ order' \in [Orders -> OrderRows] /\ credits' \in [Orders -> Nat]
    <2>1. CASE order[o].captured
      BY <1>0, <1>1, <2>1 DEF CaptureOrder, DocsType
    <2>2. CASE ~order[o].captured
      <3>1. /\ order' = [order EXCEPT ![o].captured = TRUE, ![o].paymentStatus = "PAID"]
            /\ credits' = [credits EXCEPT ![o] = credits[o] + 1]
        BY <2>2 DEF CaptureOrder
      <3>2. credits[o] + 1 \in Nat BY <1>0, <1>1 DEF DocsType
      <3> HIDE DEF o
      <3>3. credits' \in [Orders -> Nat] /\ credits'[o] = credits[o] + 1
            /\ \A p \in Orders : p # o => credits'[p] = credits[p]
        BY <1>0, <1>1, <3>1, <3>2 DEF DocsType
      <3>4. order[o] \in OrderRows BY <1>0, <1>1 DEF DocsType
      <3>5. PICK w : w = [order[o] EXCEPT !.captured = TRUE, !.paymentStatus = "PAID"] OBVIOUS
      <3>6. /\ w \in OrderRows /\ w.captured /\ w.ws = order[o].ws
            /\ w.releases = order[o].releases /\ w.paymentStatus = "PAID"
        BY <3>4, <3>5 DEF OrderRows
      <3>7. order' = [order EXCEPT ![o] = w] BY <3>1, <3>5
      <3>8. /\ order' \in [Orders -> OrderRows] /\ order'[o] = w
            /\ \A p \in Orders : p # o => order'[p] = order[p]
        BY <1>0, <1>1, <3>6, <3>7 DEF DocsType
      <3> QED BY <2>2, <3>3, <3>6, <3>8
    <2> QED BY <2>1, <2>2
  <1>4. UNCHANGED <<gateway, payable, hooks, rows, events, group>>
    BY DEF CaptureOrder, external
  <1>5. PICK h \in Handlers : /\ Becomes(c, h) /\ h.pc = "move" /\ h.att = ctx[c].att
                              /\ h.next = ctx[c].next /\ h.turn = o
    BY <1>0, GotoBecomes DEF CaptureOrder
  <1> HIDE DEF o
  <1>6. Final BY <1>3, <1>4 DEF Final
  <1>7. \A p \in Orders : p < o => order'[p].captured /\ order'[p].ws # "CREATED"
    BY <1>2, <1>a, <1>6 DEF Final
  <1>8. Truthful(h)' /\ Progress(h)'
    BY <1>2, <1>3, <1>4, <1>5, <1>7 DEF Truthful, Progress
  <1>9. CtxType' /\ HandlersInv' BY <1>0, <1>5, <1>6, <1>8, Moves DEF PaymentInv
  <1>10. DocsType' BY <1>0, <1>3, <1>4 DEF DocsType
  <1>11. CaptureCreditedOnce'
    <2>1. CaptureCreditedOnce BY DEF PaymentInv, RecordsInv
    <2>2. ASSUME NEW p \in Orders
          PROVE  /\ credits'[p] = IF order'[p].captured THEN 1 ELSE 0
                 /\ order'[p].captured => \E a \in Attempts : gateway'[a] = "paid"
      <3>1. CASE p = o BY <2>1, <1>1, <1>2, <1>3, <1>4, <3>1 DEF CaptureCreditedOnce
      <3>2. CASE p # o BY <2>1, <1>3, <1>4, <3>2 DEF CaptureCreditedOnce
      <3> QED BY <3>1, <3>2
    <2> QED BY <2>2 DEF CaptureCreditedOnce
  <1>12. PayableHasRow' /\ RowsAgree'
    BY <1>4 DEF PaymentInv, RecordsInv, PayableHasRow, RowsAgree
  <1>13. GroupAgrees'
    BY <1>4, <1>6 DEF PaymentInv, RecordsInv, GroupAgrees, SomeFailed, Final
  <1>14. OrdersBacked' BY <1>3, <1>4 DEF PaymentInv, RecordsInv, OrdersBacked, Backed, SomeFailed
  <1>15. ReleasedOnce' BY <1>3 DEF PaymentInv, RecordsInv, ReleasedOnce
  <1>16. RecordsInv' BY <1>11, <1>12, <1>13, <1>14, <1>15 DEF RecordsInv
  <1> QED BY <1>0, <1>9, <1>10, <1>16, TypeParts DEF PaymentInv

LEMMA StepMove ==
  ASSUME PaymentInv, NEW c \in Contexts, MoveOrder(c)
  PROVE  PaymentInv'
  <1>0. CtxType /\ DocsType /\ BoundsType'
    BY TypeParts DEF PaymentInv, MoveOrder, BoundsType, bounds
  <1> DEFINE o == ctx[c].turn
  <1>1. o \in Orders /\ ctx[c] \in Handlers BY <1>0, HandlerFields DEF CtxType
  <1>2. /\ ctx[c].next = "CAPTURED" /\ ctx[c].att \in Attempts
        /\ gateway[ctx[c].att] = "paid" /\ order[o].captured
        /\ \A p \in Orders : p < o => order[p].captured
    BY DEF PaymentInv, HandlersInv, Truthful, Progress, MoveOrder, At
  <1>a. \A p \in Orders : p < o => order[p].ws # "CREATED"
    BY DEF PaymentInv, HandlersInv, Progress, MoveOrder, At
  <1>3. /\ \A p \in Orders : p # o => order'[p] = order[p]
        /\ order'[o].paymentStatus = order[o].paymentStatus
        /\ order'[o].ws # "CREATED"
        /\ order'[o].captured = order[o].captured /\ order'[o].releases = order[o].releases
        /\ order'[o].ws = "CANCELLED" <=> order[o].ws = "CANCELLED"
        /\ order' \in [Orders -> OrderRows]
    <2>1. PICK w \in {"CREATED", "SELLER_PENDING", "CANCELLED"} :
             /\ w = IF order[o].ws = "CREATED" THEN "SELLER_PENDING" ELSE order[o].ws
             /\ order' = [order EXCEPT ![o].ws = w]
      <3>1. order[o] \in OrderRows BY <1>0, <1>1 DEF DocsType
      <3>2. order' = [order EXCEPT ![o].ws = IF order[o].ws = "CREATED" THEN "SELLER_PENDING"
                                             ELSE order[o].ws]
        BY DEF MoveOrder
      <3> QED BY <3>1, <3>2 DEF OrderRows
    <2> HIDE DEF o
    <2>2. order[o] \in OrderRows BY <1>0, <1>1 DEF DocsType
    <2>3. PICK v : v = [order[o] EXCEPT !.ws = w] OBVIOUS
    <2>4. /\ v \in OrderRows /\ v.captured = order[o].captured
          /\ v.paymentStatus = order[o].paymentStatus
          /\ v.releases = order[o].releases /\ v.ws = w
      BY <2>2, <2>3 DEF OrderRows
    <2>5. order' = [order EXCEPT ![o] = v] BY <2>1, <2>3
    <2>6. /\ order' \in [Orders -> OrderRows] /\ order'[o] = v
          /\ \A p \in Orders : p # o => order'[p] = order[p]
      BY <1>0, <1>1, <2>4, <2>5 DEF DocsType
    <2> QED BY <2>1, <2>4, <2>6
  <1>4. UNCHANGED <<gateway, payable, hooks, rows, events, credits, group>>
    BY DEF MoveOrder, external
  <1>5. Final /\ RecordsInv'
    <2> HIDE DEF o
    <2>1. \A p \in Orders : Backed(order[p]) BY DEF PaymentInv, RecordsInv, OrdersBacked
    <2>2. Backed(order'[o]) BY <1>1, <1>2, <1>3, <2>1 DEF Backed
    <2>3. \A p \in Orders : Backed(order'[p]) BY <1>3, <2>1, <2>2
    <2>4. \A p \in Orders : order[p].ws # "CREATED" => order'[p].ws # "CREATED" BY <1>3
    <2> QED BY <1>3, <1>4, <2>3, <2>4, OrdersWritten
  <1>6. \E h \in Handlers : Becomes(c, h) /\ Truthful(h)' /\ Progress(h)'
    <2>1. CASE o < GroupSize
      <3> DEFINE h == [ctx[c] EXCEPT !.pc = "capture", !.turn = o + 1]
      <3>1. o + 1 \in 1..GroupSize BY <1>1, <2>1, OrdersInRange, PaymentGroupAssumption
      <3>2. \A p \in Orders : p < o + 1 => order'[p].captured /\ order'[p].ws # "CREATED"
        <4>1. \A p \in Orders : p < o + 1 => p = o \/ p < o BY <1>1, OrdersInRange
        <4> HIDE DEF o
        <4> QED BY <1>2, <1>a, <1>3, <1>5, <4>1 DEF Final
      <3>3. ctx' = [ctx EXCEPT ![c].pc = "capture", ![c].turn = o + 1]
        BY <2>1 DEF MoveOrder
      <3> HIDE DEF o
      <3>4. PICK t : t = o + 1 OBVIOUS
      <3>5. /\ h \in Handlers /\ h.pc = "capture" /\ h.turn = t
            /\ h.next = ctx[c].next /\ h.att = ctx[c].att
        BY <1>1, <3>1, <3>4 DEF Handlers
      <3>6. Becomes(c, h) BY <3>3 DEF Becomes
      <3> HIDE DEF h
      <3>7. PICK k \in Handlers : /\ Becomes(c, k) /\ k.pc = "capture" /\ k.turn = t
                                  /\ k.next = ctx[c].next /\ k.att = ctx[c].att
        BY <3>5, <3>6
      <3>8. Truthful(k)' BY <1>2, <1>4, <3>7 DEF Truthful
      <3>9. Progress(k)' BY <1>2, <3>2, <3>4, <3>7 DEF Progress
      <3> QED BY <3>7, <3>8, <3>9
    <2>2. CASE ~(o < GroupSize)
      <3>1. Goto(c, "group") BY <2>2 DEF MoveOrder, Goto
      <3>2. PICK h \in Handlers : /\ Becomes(c, h) /\ h.pc = "group"
                                  /\ h.att = ctx[c].att /\ h.next = ctx[c].next
        BY <1>0, <3>1, GotoBecomes
      <3>3. \A p \in Orders : order'[p].captured /\ order'[p].ws # "CREATED"
        <4>1. \A p \in Orders : p = o \/ p < o
          BY <1>1, <2>2, OrdersInRange, PaymentGroupAssumption
        <4> HIDE DEF o
        <4> QED BY <1>2, <1>a, <1>3, <1>5, <4>1 DEF Final
      <3>4. Truthful(h)' BY <1>2, <1>4, <3>2 DEF Truthful
      <3>5. Progress(h)' BY <1>2, <3>2, <3>3 DEF Progress
      <3> QED BY <3>2, <3>4, <3>5
    <2> QED BY <2>1, <2>2
  <1>7. CtxType' /\ HandlersInv' BY <1>0, <1>5, <1>6, Moves DEF PaymentInv
  <1>8. DocsType' BY <1>0, <1>3, <1>4 DEF DocsType
  <1> QED BY <1>0, <1>5, <1>7, <1>8, TypeParts DEF PaymentInv

\* What cancelling does to an order.
LEMMA ReleasedRow ==
  ASSUME NEW o \in Orders, order[o] \in OrderRows
  PROVE  /\ Released(o) \in OrderRows
         /\ Released(o).captured = order[o].captured
         /\ Released(o).ws = "CANCELLED" /\ Released(o).paymentStatus = "FAILED"
         /\ Released(o).releases = order[o].releases + 1
  <1>1. PICK n \in Nat : n = order[o].releases + 1 BY DEF OrderRows
  <1>2. Released(o) = [order[o] EXCEPT !.ws = "CANCELLED", !.paymentStatus = "FAILED",
                                       !.releases = n]
    BY <1>1 DEF Released
  <1> QED BY <1>1, <1>2 DEF OrderRows

LEMMA StepCancelUnpaid ==
  ASSUME PaymentInv, NEW c \in Contexts, CancelUnpaidOrders(c)
  PROVE  PaymentInv'
  <1>0. CtxType /\ DocsType /\ BoundsType'
    BY TypeParts DEF PaymentInv, CancelUnpaidOrders, BoundsType, bounds
  <1>1. \A o \in Orders : order[o] \in OrderRows BY <1>0 DEF DocsType
  <1>2. \A o \in Orders : order'[o] = IF order[o].ws = "CREATED" THEN Released(o) ELSE order[o]
    BY DEF CancelUnpaidOrders
  <1>3. order' \in [Orders -> OrderRows]
    <2>1. \A o \in Orders : (IF order[o].ws = "CREATED" THEN Released(o) ELSE order[o]) \in OrderRows
      BY <1>1, ReleasedRow
    <2> QED BY <2>1 DEF CancelUnpaidOrders
  <1>4. UNCHANGED <<gateway, payable, hooks, rows, events, credits, group>>
    BY DEF CancelUnpaidOrders, external
  <1>a. SomeFailed
    BY DEF PaymentInv, HandlersInv, Truthful, Progress, CancelUnpaidOrders, At, SomeFailed
  <1>5. Final /\ RecordsInv'
    <2>1. \A p \in Orders : Backed(order[p]) BY DEF PaymentInv, RecordsInv, OrdersBacked
    <2>2. \A p \in Orders : Backed(Released(p)) BY <1>1, <1>a, ReleasedRow DEF Backed
    <2>3. \A p \in Orders : Backed(order'[p]) BY <1>2, <2>1, <2>2
    <2> QED BY <1>1, <1>2, <1>4, <2>3, ReleasedRow, OrdersWritten
  <1>6. PICK h \in Handlers : /\ Becomes(c, h) /\ h.pc = "group"
                              /\ h.att = ctx[c].att /\ h.next = ctx[c].next
    BY <1>0, GotoBecomes DEF CancelUnpaidOrders
  <1>7. /\ ctx[c].next = "FAILED" /\ ctx[c].att \in Attempts
        /\ gateway[ctx[c].att] = "failed"
    BY DEF PaymentInv, HandlersInv, Truthful, Progress, CancelUnpaidOrders, At
  <1>b. \A o \in Orders : order'[o].ws # "CREATED" BY <1>1, <1>2, ReleasedRow
  <1>8. Truthful(h)' /\ Progress(h)' BY <1>4, <1>6, <1>7, <1>b DEF Truthful, Progress
  <1>9. CtxType' /\ HandlersInv' BY <1>0, <1>5, <1>6, <1>8, Moves DEF PaymentInv
  <1>10. DocsType' BY <1>0, <1>3, <1>4 DEF DocsType
  <1> QED BY <1>0, <1>5, <1>9, <1>10, TypeParts DEF PaymentInv

LEMMA FinishDone ==
  ASSUME DocsType, NEW c, Finish(c)
  PROVE  Done(c) /\ hooks' \subseteq Attempts
  BY DEF DocsType, Finish

LEMMA StepRepeat ==
  ASSUME PaymentInv, NEW c \in Contexts, RepeatPending(c)
  PROVE  PaymentInv'
  <1>0. CtxType /\ DocsType /\ BoundsType'
    BY TypeParts DEF PaymentInv, RepeatPending, BoundsType, bounds
  <1>1. \A o \in Orders :
           LET w == [order[o] EXCEPT !.paymentStatus = "CREATED"] IN
           /\ w \in OrderRows /\ w.captured = order[o].captured
           /\ w.ws = order[o].ws /\ w.releases = order[o].releases
           /\ w.paymentStatus = "CREATED"
    BY <1>0 DEF DocsType, OrderRows
  <1>2. order' \in [Orders -> OrderRows] BY <1>1 DEF RepeatPending
  <1>3. \A o \in Orders : order'[o] = [order[o] EXCEPT !.paymentStatus = "CREATED"]
    BY DEF RepeatPending
  <1>4. Final /\ RecordsInv'
    <2>1. \A o \in Orders : /\ order'[o].captured = order[o].captured
                            /\ order'[o].ws = order[o].ws
                            /\ order'[o].releases = order[o].releases
                            /\ order'[o].paymentStatus = "CREATED"
      BY <1>1, <1>3
    <2>2. \A o \in Orders : Backed(order'[o])
      BY <2>1 DEF PaymentInv, RecordsInv, OrdersBacked, Backed
    <2> QED BY <2>1, <2>2, OrdersWritten DEF RepeatPending
  <1>5. Done(c) /\ hooks' \subseteq Attempts BY <1>0, FinishDone DEF RepeatPending
  <1>6. CtxType' /\ HandlersInv' BY <1>0, <1>4, <1>5, ToIdle DEF PaymentInv
  <1>7. DocsType' BY <1>0, <1>2, <1>5 DEF DocsType, RepeatPending
  <1> QED BY <1>0, <1>4, <1>6, <1>7, TypeParts DEF PaymentInv

LEMMA StepGroup ==
  ASSUME PaymentInv, NEW c \in Contexts, UpdateGroup(c)
  PROVE  PaymentInv'
  <1>0. CtxType /\ DocsType /\ BoundsType'
    BY TypeParts DEF PaymentInv, UpdateGroup, BoundsType, bounds
  <1>1. UNCHANGED <<gateway, payable, rows, events, order, credits>> BY DEF UpdateGroup
  <1>2. Final BY <1>1 DEF Final
  <1>3. Done(c) /\ hooks' \subseteq Attempts BY <1>0, FinishDone DEF UpdateGroup
  <1>4. CtxType' /\ HandlersInv' BY <1>0, <1>2, <1>3, ToIdle DEF PaymentInv
  <1>5. group' = (IF ctx[c].next = "CAPTURED" THEN "PAID" ELSE "CANCELLED") BY DEF UpdateGroup
  <1>6. DocsType' BY <1>0, <1>1, <1>3, <1>5 DEF DocsType
  <1>7. ctx[c].next = "CAPTURED" => \A o \in Orders : order[o].captured
    BY DEF PaymentInv, HandlersInv, Progress, UpdateGroup, At
  <1>a. /\ \A o \in Orders : order[o].ws # "CREATED"
        /\ ctx[c].next # "CAPTURED" => SomeFailed
    BY DEF PaymentInv, HandlersInv, Truthful, Progress, UpdateGroup, At, SomeFailed
  <1>8. RecordsInv'
    <2>1. PayableHasRow' /\ CaptureCreditedOnce' /\ RowsAgree'
      BY <1>1 DEF PaymentInv, RecordsInv, PayableHasRow, CaptureCreditedOnce, RowsAgree
    <2>2. GroupAgrees' BY <1>1, <1>5, <1>7, <1>a DEF GroupAgrees, SomeFailed
    <2>3. OrdersBacked' /\ ReleasedOnce'
      BY <1>1 DEF PaymentInv, RecordsInv, OrdersBacked, Backed, SomeFailed, ReleasedOnce
    <2> QED BY <2>1, <2>2, <2>3 DEF RecordsInv
  <1> QED BY <1>0, <1>4, <1>6, <1>8, TypeParts DEF PaymentInv

LEMMA StepCancel ==
  ASSUME PaymentInv, NEW o \in Orders, CancelOrder(o)
  PROVE  PaymentInv'
  <1>0. CtxType /\ DocsType /\ BoundsType'
    BY TypeParts DEF PaymentInv, CancelOrder, BoundsType, bounds
  <1>1. order[o] \in OrderRows BY <1>0 DEF DocsType
  <1>2. PICK n \in Nat : n = order[o].releases + 1 BY <1>1 DEF OrderRows
  <1>3. PICK p \in {"CREATED", "PAID", "FAILED", "REFUNDED"} :
           p = IF order[o].captured THEN "REFUNDED" ELSE order[o].paymentStatus
    BY <1>1 DEF OrderRows
  <1>4. PICK w : w = [order[o] EXCEPT !.ws = "CANCELLED", !.releases = n, !.paymentStatus = p]
    OBVIOUS
  <1>5. /\ w \in OrderRows /\ w.captured = order[o].captured /\ w.ws = "CANCELLED"
        /\ w.releases = n /\ w.paymentStatus = p
    BY <1>1, <1>4 DEF OrderRows
  <1>6. order' = [order EXCEPT ![o] = w] BY <1>2, <1>3, <1>4 DEF CancelOrder
  <1>7. /\ order' \in [Orders -> OrderRows] /\ order'[o] = w
        /\ \A q \in Orders : q # o => order'[q] = order[q]
    BY <1>0, <1>5, <1>6 DEF DocsType
  <1>8. UNCHANGED <<gateway, payable, hooks, rows, events, credits, group, ctx>>
    BY DEF CancelOrder, external
  <1>9. Final /\ RecordsInv'
    <2>1. order[o].ws # "CANCELLED" BY DEF CancelOrder
    <2>2. \A q \in Orders :
             /\ order'[q].captured = order[q].captured
             /\ \/ order'[q].releases = order[q].releases
                   /\ (order'[q].ws = "CANCELLED" <=> order[q].ws = "CANCELLED")
                \/ /\ order[q].ws # "CANCELLED" /\ order'[q].ws = "CANCELLED"
                   /\ order'[q].releases = order[q].releases + 1
      BY <1>2, <1>5, <1>7, <2>1
    <2>3. Backed(w)
      BY <1>3, <1>5 DEF PaymentInv, RecordsInv, OrdersBacked, Backed, CancelOrder
    <2>4. \A q \in Orders : Backed(order'[q])
      BY <1>7, <2>3 DEF PaymentInv, RecordsInv, OrdersBacked
    <2>5. \A q \in Orders : order[q].ws # "CREATED" => order'[q].ws # "CREATED" BY <1>5, <1>7
    <2> QED BY <1>8, <2>2, <2>4, <2>5, OrdersWritten
  <1>10. CtxType' /\ HandlersInv' BY <1>0, <1>8, <1>9, Waits DEF PaymentInv
  <1>11. DocsType' BY <1>0, <1>7, <1>8 DEF DocsType
  <1> QED BY <1>0, <1>9, <1>10, <1>11, TypeParts DEF PaymentInv

LEMMA StepCrash ==
  ASSUME PaymentInv, NEW c \in Contexts, Crash(c)
  PROVE  PaymentInv'
  <1>0. /\ CtxType /\ DocsType /\ BoundsType /\ hooks' \subseteq Attempts
        /\ events' \subseteq Attempts
    BY TypeParts DEF PaymentInv, DocsType, Crash, external
  <1>1. BoundsType' BY <1>0, PaymentBoundAssumption DEF BoundsType, Crash
  <1> QED BY <1>0, <1>1, ToIdle, RecordsSame DEF Crash, external

-----------------------------------------------------------------------------
(* The invariant, and what it says.                                        *)

LEMMA PaymentInit == Init => PaymentInv
  <1> SUFFICES ASSUME Init PROVE PaymentInv OBVIOUS
  <1> USE PaymentBoundAssumption, PaymentGroupAssumption
  <1>1. BoundsType BY DEF Init, BoundsType
  <1>2. CtxType BY IdleType DEF Init, CtxType
  <1>3. order \in [Orders -> OrderRows] BY DEF Init, OrderRows
  <1>4. credits \in [Orders -> Nat] BY DEF Init
  <1>5. DocsType BY <1>3, <1>4 DEF Init, DocsType, Statuses
  <1>6. HandlersInv BY DEF Init, HandlersInv, Truthful, Progress, Idle
  <1>7. RecordsInv
    BY DEF Init, RecordsInv, PayableHasRow, CaptureCreditedOnce, RowsAgree, GroupAgrees,
       OrdersBacked, Backed, ReleasedOnce
  <1> QED BY <1>1, <1>2, <1>5, <1>6, <1>7, TypeParts DEF PaymentInv

LEMMA PaymentStep == PaymentInv /\ [Next]_vars => PaymentInv'
  <1> SUFFICES ASSUME PaymentInv, [Next]_vars PROVE PaymentInv' OBVIOUS
  <1>1. ASSUME NEW c \in Contexts, StartPayment(c) \/ Crash(c) PROVE PaymentInv'
    BY <1>1, StepStart, StepCrash
  <1>2. ASSUME NEW c \in Contexts, Handler(c) PROVE PaymentInv'
    BY <1>2, StepFindOpen, StepCount, StepInitiate, StepCreate, StepAsk, StepLoad,
       StepTransition, StepCapture, StepMove, StepCancelUnpaid, StepRepeat, StepGroup
    DEF Handler
  <1>3. ASSUME NEW c \in Contexts, NEW a \in Attempts, CheckStatus(c, a) \/ Webhook(c, a)
        PROVE PaymentInv'
    BY <1>3, StepCheck, StepWebhook
  <1>4. ASSUME NEW a \in Attempts, GatewaySettles(a) PROVE PaymentInv'
    BY <1>4, StepSettle
  <1>5. ASSUME NEW o \in Orders, CancelOrder(o) PROVE PaymentInv'
    BY <1>5, StepCancel
  <1>6. CASE UNCHANGED vars
    <2>1. UNCHANGED <<gateway, payable, hooks, rows, events, order, credits, group, ctx>>
          /\ UNCHANGED <<creates, checks, crashes>>
      BY <1>6 DEF vars, external, bounds
    <2>2. CtxType /\ DocsType /\ BoundsType BY TypeParts DEF PaymentInv
    <2>3. BoundsType' BY <2>1, <2>2 DEF BoundsType
    <2>4. hooks' \subseteq Attempts /\ events' \subseteq Attempts
      BY <2>1, <2>2 DEF DocsType
    <2> QED BY <2>1, <2>3, <2>4, Waits, RecordsSame
  <1> QED BY <1>1, <1>2, <1>3, <1>4, <1>5, <1>6 DEF Next

LEMMA PaymentInvariant == Spec => []PaymentInv
  <1>1. Init => PaymentInv BY PaymentInit
  <1>2. PaymentInv /\ [Next]_vars => PaymentInv' BY PaymentStep
  <1> QED BY <1>1, <1>2, PTL DEF Spec

-----------------------------------------------------------------------------
(* The captured order that waits, and the handler that is at it.           *)

\* Nothing new waits, and whoever stood at an order that still waits stays there.
LEMMA StaysAttended ==
  ASSUME Attended,
         \A o \in Orders : order'[o].captured /\ order'[o].ws = "CREATED" =>
                             order[o].captured /\ order[o].ws = "CREATED",
         crashes > 0 => crashes' > 0,
         \A d \in Contexts : At(d, "move") /\ order'[ctx[d].turn].ws = "CREATED" =>
                                crashes' > 0 \/ ctx'[d] = ctx[d]
  PROVE  Attended'
  BY DEF Attended, At

LEMMA PaymentLegsAttended ==
  ASSUME PaymentInv, Attended, NEW c \in Contexts,
         \/ StartPayment(c) \/ FindOpenPayment(c) \/ CountAttempts(c) \/ InitiatePayment(c)
         \/ CreatePaymentRow(c) \/ AskGateway(c) \/ LoadPayment(c) \/ TransitionPayment(c)
         \/ RepeatPending(c) \/ UpdateGroup(c) \/ CancelUnpaidOrders(c)
  PROVE  Attended'
  <1>1. CtxType /\ DocsType BY TypeParts DEF PaymentInv
  <1>2. ctx[c].pc # "move" /\ crashes' = crashes
    BY DEF StartPayment, FindOpenPayment, CountAttempts, InitiatePayment, CreatePaymentRow,
       AskGateway, LoadPayment, TransitionPayment, RepeatPending, UpdateGroup,
       CancelUnpaidOrders, At, Free, bounds
  <1>3. \A d \in Contexts : d # c => ctx'[d] = ctx[d]
    BY <1>1 DEF CtxType, StartPayment, FindOpenPayment, CountAttempts, InitiatePayment,
       CreatePaymentRow, AskGateway, LoadPayment, TransitionPayment, RepeatPending, UpdateGroup,
       CancelUnpaidOrders, Goto, Done, Finish
  <1>4. \A o \in Orders : order'[o].captured /\ order'[o].ws = "CREATED" =>
                             order[o].captured /\ order[o].ws = "CREATED"
    <2>1. CASE order' = order BY <2>1
    <2>2. CASE RepeatPending(c)
      <3>1. \A o \in Orders : LET w == [order[o] EXCEPT !.paymentStatus = "CREATED"] IN
                               w.captured = order[o].captured /\ w.ws = order[o].ws
        BY <1>1 DEF DocsType, OrderRows
      <3> QED BY <2>2, <3>1 DEF RepeatPending
    <2>3. CASE CancelUnpaidOrders(c)
      <3>1. \A o \in Orders : order[o] \in OrderRows BY <1>1 DEF DocsType
      <3> QED BY <2>3, <3>1, ReleasedRow DEF CancelUnpaidOrders
    <2> QED BY <2>1, <2>2, <2>3 DEF StartPayment, FindOpenPayment, CountAttempts,
        InitiatePayment, CreatePaymentRow, AskGateway, LoadPayment, TransitionPayment, UpdateGroup
  <1>5. \A d \in Contexts : At(d, "move") => ctx'[d] = ctx[d] BY <1>2, <1>3 DEF At
  <1> QED BY <1>2, <1>4, <1>5, StaysAttended

\* The capture opens the window with its own handler standing at the order.
LEMMA CaptureAttended ==
  ASSUME PaymentInv, Attended, NEW c \in Contexts, CaptureOrder(c)
  PROVE  Attended'
  <1>1. CtxType /\ DocsType BY TypeParts DEF PaymentInv
  <1>2. PICK h \in Handlers : Becomes(c, h) /\ h.pc = "move" /\ h.turn = ctx[c].turn
    BY <1>1, GotoBecomes DEF CaptureOrder
  <1>3. ctx'[c] = h /\ \A d \in Contexts : d # c => ctx'[d] = ctx[d]
    BY <1>1, <1>2 DEF CtxType, Becomes
  <1>4. ctx[c].turn \in Orders BY <1>1, HandlerFields DEF CtxType
  <1>5. \A o \in Orders : o # ctx[c].turn => order'[o] = order[o]
    BY <1>1, <1>4 DEF DocsType, CaptureOrder
  <1>6. crashes' = crashes /\ ctx[c].pc # "move" BY DEF CaptureOrder, At, bounds
  <1>7. ASSUME NEW o \in Orders, order'[o].captured, order'[o].ws = "CREATED", ~(crashes' > 0)
        PROVE  \E d \in Contexts : ctx'[d].pc = "move" /\ ctx'[d].turn = o
    <2>1. CASE o = ctx[c].turn BY <1>2, <1>3, <2>1
    <2>2. CASE o # ctx[c].turn
      <3>1. PICK d \in Contexts : ctx[d].pc = "move" /\ ctx[d].turn = o
        BY <1>5, <1>6, <1>7, <2>2 DEF Attended, At
      <3> QED BY <1>3, <1>6, <3>1
    <2> QED BY <2>1, <2>2
  <1> QED BY <1>7 DEF Attended, At

\* The move closes it.
LEMMA MoveAttended ==
  ASSUME PaymentInv, Attended, NEW c \in Contexts, MoveOrder(c)
  PROVE  Attended'
  <1>1. CtxType /\ DocsType BY TypeParts DEF PaymentInv
  <1> DEFINE t == ctx[c].turn
  <1>2. t \in Orders BY <1>1, HandlerFields DEF CtxType
  <1>3. PICK w \in {"SELLER_PENDING", "CANCELLED"} : order' = [order EXCEPT ![t].ws = w]
    <2>1. order[t].ws \in {"CREATED", "SELLER_PENDING", "CANCELLED"}
      BY <1>1, <1>2 DEF DocsType, OrderRows
    <2> QED BY <2>1 DEF MoveOrder
  <1>4. \A d \in Contexts : d # c => ctx'[d] = ctx[d] BY <1>1 DEF CtxType, MoveOrder
  <1>5. crashes' = crashes BY DEF MoveOrder, bounds
  <1> HIDE DEF t
  <1>6. order'[t].ws # "CREATED" /\ \A o \in Orders : o # t => order'[o] = order[o]
    BY <1>1, <1>2, <1>3 DEF DocsType, OrderRows
  <1>7. \A d \in Contexts : At(d, "move") /\ order'[ctx[d].turn].ws = "CREATED" =>
                               ctx'[d] = ctx[d]
    BY <1>4, <1>6 DEF t
  <1> QED BY <1>5, <1>6, <1>7, StaysAttended

LEMMA AttendedStep ==
  ASSUME PaymentInv, Attended, [Next]_vars
  PROVE  Attended'
  <1>0. CtxType /\ DocsType /\ BoundsType BY TypeParts DEF PaymentInv
  <1>1. ASSUME NEW c \in Contexts, StartPayment(c) \/ Handler(c) PROVE Attended'
    BY <1>1, PaymentLegsAttended, CaptureAttended, MoveAttended DEF Handler
  <1>2. ASSUME NEW c \in Contexts, Crash(c) PROVE Attended'
    <2>1. crashes' > 0 BY <1>0, <1>2, PaymentBoundAssumption DEF Crash, BoundsType
    <2>2. order' = order BY <1>2 DEF Crash
    <2> QED BY <2>1, <2>2 DEF Attended
  <1>3. ASSUME NEW c \in Contexts, NEW a \in Attempts, CheckStatus(c, a) \/ Webhook(c, a)
        PROVE  Attended'
    <2>1. order' = order /\ crashes' = crashes /\ ctx[c].pc = "idle"
      BY <1>3 DEF CheckStatus, Webhook, Free, bounds
    <2>2. \A d \in Contexts : d # c => ctx'[d] = ctx[d]
      BY <1>0, <1>3 DEF CtxType, CheckStatus, Webhook
    <2>3. \A d \in Contexts : At(d, "move") => ctx'[d] = ctx[d] BY <2>1, <2>2 DEF At
    <2> QED BY <2>1, <2>3, StaysAttended
  <1>4. ASSUME NEW a \in Attempts, GatewaySettles(a) PROVE Attended'
    BY <1>4, StaysAttended DEF GatewaySettles, bounds
  <1>5. ASSUME NEW o \in Orders, CancelOrder(o) PROVE Attended'
    <2>1. ctx' = ctx /\ crashes' = crashes BY <1>5 DEF CancelOrder, bounds
    <2>2. \A q \in Orders : order'[q].ws = "CREATED" => order'[q] = order[q]
      BY <1>0, <1>5 DEF CancelOrder, DocsType, OrderRows
    <2> QED BY <2>1, <2>2, StaysAttended
  <1>6. CASE UNCHANGED vars BY <1>6 DEF Attended, At, vars, bounds
  <1> QED BY <1>1, <1>2, <1>3, <1>4, <1>5, <1>6 DEF Next

LEMMA AttendedInvariant == Spec => []Attended
  <1>1. Init => Attended BY DEF Init, Attended
  <1>2. PaymentInv /\ Attended /\ [Next]_vars => Attended' BY AttendedStep
  <1> QED BY <1>1, <1>2, PaymentInvariant, PTL DEF Spec

-----------------------------------------------------------------------------
(* What the invariants say.                                                *)

\* Every variable of the payment of a group keeps its type, the handlers' included.
THEOREM PaymentTypeCorrect == Spec => []TypeOK
  <1>1. PaymentInv => TypeOK BY DEF PaymentInv
  <1> QED BY <1>1, PaymentInvariant, PTL

\* However many webhooks, redeliveries and status checks race, and whichever of
\* them die, the platform is credited once per order and only for money that the
\* gateway has (handleOnlineOrderFinance, onlinePaymentCaptured).
THEOREM CaptureCreditedOnceCorrect == Spec => []CaptureCreditedOnce
  <1>1. PaymentInv => CaptureCreditedOnce BY DEF PaymentInv, RecordsInv
  <1> QED BY <1>1, PaymentInvariant, PTL

\* A Payment row that is saved from a stale copy tells what the gateway told; an
\* order or a group that reads as paid was captured, one that reads as failed has a
\* failed attempt behind it, and a settled group leaves no order waiting.  Of a paid
\* and a failed attempt the last writer decides what the group reads
\* (canTransitionPaymentStatus, mapStatusToInternal, updateCheckoutGroupPaymentStatus).
THEOREM RecordsAgreeCorrect == Spec => []RecordsAgreeWithGateway
  <1>1. PaymentInv => RecordsAgreeWithGateway
    BY DEF PaymentInv, RecordsInv, RowsAgree, GroupAgrees, OrdersBacked, Backed, SomeFailed,
       RecordsAgreeWithGateway
  <1> QED BY <1>1, PaymentInvariant, PTL

\* Whether attempts fail or the customer cancels, an order's stock is released
\* once, when the order is cancelled; what a seller was given is paid and keeps its
\* stock; and a captured order can be caught by another attempt's failure only while
\* the capturing handler is at it or died there (the CAPTURED and FAILED branches of
\* handleOrderSideEffectsFromPaymentStatus).
THEOREM FailureReleasesOnceCorrect == Spec => []FailureReleasesOnce
  <1>1. PaymentInv /\ Attended => FailureReleasesOnce
    BY DEF PaymentInv, RecordsInv, OrdersBacked, Backed, ReleasedOnce, Attended,
       FailureReleasesOnce
  <1> QED BY <1>1, PaymentInvariant, AttendedInvariant, PTL
=============================================================================
