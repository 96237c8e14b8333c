--------------------------- MODULE CheckoutProofs ---------------------------
(***************************************************************************)
(* Placement, for any number of requests, keys, units and faults: the      *)
(* types, one checkout group per idempotency key, and nothing overdrawn.   *)
(*                                                                         *)
(* The argument is that of snapshot isolation: what a transaction checked  *)
(* on its snapshot still holds when it commits, because whoever changed it *)
(* wrote a document that this transaction writes too and made it dirty.    *)
(***************************************************************************)
EXTENDS Checkout, TLAPS

-----------------------------------------------------------------------------
(* The handlers.                                                           *)

KeyedLabels == {"check", "lock", "find", "fail_unlock", "release", "store", "unlock"}
Told == {"placed", "duplicate"}

\* What a handler in its transaction writes, if it writes what it will change.
WritesWhatItTakes(r) ==
    /\ Keyed(r) => Key(r) \in ctx[r].docs
    /\ ~Uses(r, "other") => "stock" \in ctx[r].docs
    /\ Uses(r, "cart") => "cart" \in ctx[r].docs
    /\ Uses(r, "coupon") => "coupon" \in ctx[r].docs
    /\ Uses(r, "wallet") => "user" \in ctx[r].docs /\ (Canonical => "wallet" \in ctx[r].docs)

\* Only requests with a key deal with Redis, a result is stored only of an order
\* the client will be told of, and a transaction writes what it takes.
HandlerOK(r) ==
    /\ ctx[r].pc \in KeyedLabels => Keyed(r)
    /\ At(r, "store") => ctx[r].reply \in Told
    /\ ctx[r].reply \in Told => ctx[r].pc \in {"store", "unlock", "done"}
    /\ At(r, "tx") => WritesWhatItTakes(r)

HandlersInv == TypeOK /\ \A r \in Requests : HandlerOK(r)

-----------------------------------------------------------------------------
(* The snapshots.                                                          *)

\* What the transaction of r saw is still so.
SnapshotHolds(r) ==
    /\ stock >= FromStock(r)
    /\ "cart" \in ctx[r].docs => cart > 0
    /\ Uses(r, "coupon") => coupon < CouponLimit
    /\ Canonical /\ Uses(r, "wallet") => Balance >= 1

SnapshotInv == \A r \in Requests : At(r, "tx") /\ r \notin dirty => SnapshotHolds(r)

\* The two records of the customer's money.  The mirror stays behind the purse by
\* what it lagged at the start, and there is nothing in a Wallet row that is not there.
FundInv ==
    /\ fund.wallet >= 0
    /\ fund.user = InitialFunds - tally.lag + tally.credited - tally.spent
    /\ ~fund.row => fund.wallet = 0 /\ ~fund.seeded
    /\ Canonical => Purse = fund.user + tally.lag /\ (~fund.row => fund.user >= 0)

SuppliesInv ==
    /\ StockNeverOversold
    /\ CouponWithinLimit
    /\ CartOrderedOnce
    /\ FundInv
    /\ \A o \in orders : o.qty >= 0

-----------------------------------------------------------------------------
(* Level one: the handlers.                                                *)

RedisType == lock \subseteq Keys /\ result \subseteq Keys /\ failure \subseteq Keys

Funds   == [row : BOOLEAN, wallet : Int, user : Int, seeded : BOOLEAN]
Orders  == [no : Int, key : Keys \cup {NoKey}, qty : Int, cancelled : BOOLEAN]
Tallies == [{"orders", "sold", "restocked", "spent", "credited", "redeemed", "added", "carted", "lag"} -> Int]

DbType ==
    /\ stock \in Int /\ cart \in Int /\ coupon \in Nat
    /\ fund \in Funds
    /\ \A o \in orders : o \in Orders
    /\ tally \in Tallies

BoundsType == expiries \in 0..MaxExpiries /\ faults \in 0..MaxFaults

LEMMA LabelValues ==
  Labels = {"idle", "check", "lock", "find", "begin", "tx", "fail", "fail_unlock",
            "release", "refind", "store", "unlock", "done"}
  BY DEF Labels

\* r's handler becomes h, and nobody else's changes.
Becomes(r, h) == ctx' = [ctx EXCEPT ![r] = h]

LEMMA GotoBecomes ==
  ASSUME TypeOK, NEW r \in Requests, NEW label \in Labels, Goto(r, label)
  PROVE  \E h \in Handlers : /\ Becomes(r, h)
                             /\ h.pc = label /\ h.docs = ctx[r].docs
                             /\ h.reply = ctx[r].reply /\ h.cause = ctx[r].cause
  <1> DEFINE h == [ctx[r] EXCEPT !.pc = label]
  <1>1. ctx[r] \in Handlers BY DEF TypeOK
  <1>2. h \in Handlers BY <1>1 DEF Handlers
  <1>3. h.pc = label /\ h.docs = ctx[r].docs /\ h.reply = ctx[r].reply /\ h.cause = ctx[r].cause
    BY <1>1 DEF Handlers
  <1>4. Becomes(r, h) BY DEF Goto, Becomes
  <1> QED BY <1>2, <1>3, <1>4

Causes == {"none", "final", "duplicate", "collision"}

LEMMA FreshType == Fresh \in Handlers /\ Fresh.pc = "idle" /\ Fresh.reply = "none"
  BY DEF Fresh, Handlers, Labels, Replies

LEMMA AnswerBecomes ==
  ASSUME NEW r, NEW reply \in Replies, Answer(r, reply)
  PROVE  \E h \in Handlers : Becomes(r, h) /\ h.pc = "done" /\ h.reply = reply
  <1> DEFINE h == [Fresh EXCEPT !.pc = "done", !.reply = reply]
  <1>1. h \in Handlers /\ h.pc = "done" /\ h.reply = reply
    BY FreshType, LabelValues DEF Handlers
  <1>2. Becomes(r, h) BY DEF Answer, Becomes
  <1> QED BY <1>1, <1>2

LEMMA AbortBecomes ==
  ASSUME NEW r, NEW label \in Labels, NEW cause \in Causes, Abort(r, label, cause)
  PROVE  \E h \in Handlers : Becomes(r, h) /\ h.pc = label /\ h.reply = "none"
  <1> DEFINE h == [Fresh EXCEPT !.pc = label, !.cause = cause]
  <1>1. h \in Handlers /\ h.pc = label /\ h.reply = "none"
    BY FreshType DEF Handlers, Causes
  <1>2. Becomes(r, h) BY DEF Abort, Becomes
  <1> QED BY <1>1, <1>2

LEMMA RestartBecomes ==
  ASSUME NEW r, NEW label \in Labels, ctx' = [ctx EXCEPT ![r] = [Fresh EXCEPT !.pc = label]]
  PROVE  \E h \in Handlers : Becomes(r, h) /\ h.pc = label /\ h.reply = "none"
  <1> DEFINE h == [Fresh EXCEPT !.pc = label]
  <1>1. h \in Handlers /\ h.pc = label /\ h.reply = "none"
    BY FreshType DEF Handlers
  <1>2. Becomes(r, h) BY DEF Becomes
  <1> QED BY <1>1, <1>2

LEMMA ReportBecomes ==
  ASSUME NEW r, NEW reply \in Told, Report(r, reply)
  PROVE  \E h \in Handlers : /\ Becomes(r, h)
                             /\ h.pc \in {"store", "done"} /\ h.reply = reply
                             /\ h.pc = "store" => Keyed(r)
  <1>1. reply \in Replies BY DEF Told, Replies
  <1>2. CASE Keyed(r)
    <2> DEFINE h == [Fresh EXCEPT !.pc = "store", !.reply = reply]
    <2>1. h \in Handlers /\ h.pc = "store" /\ h.reply = reply
      BY <1>1, FreshType, LabelValues DEF Handlers
    <2>2. Becomes(r, h) BY <1>2 DEF Report, Becomes
    <2> QED BY <1>2, <2>1, <2>2
  <1>3. CASE ~Keyed(r)
    <2>1. Answer(r, reply) BY <1>3 DEF Report
    <2> QED BY <1>1, <2>1, AnswerBecomes
  <1> QED BY <1>2, <1>3

\* A step of one handler that keeps the requests.
LEMMA HandlerStep ==
  ASSUME HandlersInv, NEW r \in Requests, NEW h \in Handlers, Becomes(r, h),
         UNCHANGED req,
         h.pc \in KeyedLabels => Keyed(r),
         h.pc = "store" => h.reply \in Told,
         h.reply \in Told => h.pc \in {"store", "unlock", "done"},
         h.pc # "tx"
  PROVE  /\ ctx' \in [Requests -> Handlers]
         /\ \A q \in Requests : HandlerOK(q)'
  <1>1. ctx' \in [Requests -> Handlers] /\ ctx'[r] = h
    BY DEF HandlersInv, TypeOK, Becomes
  <1>2. \A q \in Requests \ {r} : ctx'[q] = ctx[q]
    BY DEF HandlersInv, TypeOK, Becomes
  <1>3. ASSUME NEW q \in Requests PROVE HandlerOK(q)'
    <2>1. CASE q = r
      BY <1>1, <2>1 DEF HandlerOK, At, Keyed, Key
    <2>2. CASE q # r
      BY <1>2, <2>2 DEF HandlersInv, HandlerOK, At, Keyed, Key, WritesWhatItTakes, Uses
    <2> QED BY <2>1, <2>2
  <1> QED BY <1>1, <1>3

LEMMA TypeParts ==
  /\ TypeOK <=> /\ RedisType /\ DbType /\ BoundsType
                /\ req \in [Requests -> Inputs] /\ ctx \in [Requests -> Handlers]
                /\ dirty \subseteq {r \in Requests : At(r, "tx")}
  /\ TypeOK' <=> /\ RedisType' /\ DbType' /\ BoundsType'
                 /\ req' \in [Requests -> Inputs] /\ ctx' \in [Requests -> Handlers]
                 /\ dirty' \subseteq {r \in Requests : At(r, "tx")'}
  BY DEF TypeOK, RedisType, DbType, BoundsType, Funds, Orders, Tallies

\* A step that leaves the database alone, lets no transaction begin and makes no
\* snapshot current again.
Quiet ==
    /\ UNCHANGED db
    /\ \A q \in Requests : At(q, "tx")' =>
          /\ At(q, "tx") /\ ctx'[q].docs = ctx[q].docs /\ req'[q] = req[q]
          /\ q \in dirty => q \in dirty'

\* Whoever is newly told that the order is there is told so by Redis or by the
\* database, and a result is stored in Redis only by one who was told so.
Truthful ==
    /\ \A k \in result' \ result :
          \E q \in Requests : Keyed(q) /\ Key(q) = k /\ ctx[q].reply \in Told
    /\ \A q \in Requests : ctx'[q].reply \in Told =>
          \/ PlacedUnder(Key(q))'
          \/ ~Keyed(q)'
          \/ req'[q] = req[q] /\ (ctx[q].reply \in Told \/ Key(q) \in result)

Kind ==
    /\ Truthful
    /\ \/ Quiet
       \/ \E r \in Requests : Begin(r) \/ Commit(r)
       \/ AddToCart \/ WalletCredited
       \/ \E o \in orders : RestockCancelled(o)

\* r stores no result but its own.
StoresOwn(r) == \A k \in result' \ result : k = Key(r) /\ At(r, "store")

\* A step of a handler outside its transaction.
LEMMA LocalStep ==
  ASSUME HandlersInv, NEW r \in Requests, ~At(r, "tx"), NEW h \in Handlers, Becomes(r, h),
         Local, RedisType', StoresOwn(r),
         h.pc \in KeyedLabels => Keyed(r),
         h.pc = "store" => h.reply \in Told,
         h.reply \in Told => /\ h.pc \in {"store", "unlock", "done"}
                            /\ \/ ctx[r].reply \in Told
                               \/ Key(r) \in result
                               \/ PlacedUnder(Key(r)),
         h.pc # "tx"
  PROVE  HandlersInv' /\ Kind
  <1>1. UNCHANGED req BY DEF Local
  <1>2. ctx' \in [Requests -> Handlers] /\ \A q \in Requests : HandlerOK(q)'
    BY <1>1, HandlerStep
  <1>3. dirty' \subseteq {q \in Requests : At(q, "tx")'}
    BY DEF HandlersInv, TypeOK, Becomes, At, Local
  <1>4. DbType' /\ BoundsType' /\ req' \in [Requests -> Inputs]
    BY TypeParts DEF HandlersInv, Local, db, bounds, DbType, BoundsType
  <1>5. ctx'[r] = h /\ \A q \in Requests \ {r} : ctx'[q] = ctx[q]
    BY DEF HandlersInv, TypeOK, Becomes
  <1>6. Quiet
    BY <1>5 DEF Quiet, Local, At
  <1>7. Truthful
    BY <1>5 DEF Truthful, StoresOwn, HandlersInv, HandlerOK, KeyedLabels, At,
       Local, db, PlacedUnder, Key, Keyed
  <1> QED BY <1>2, <1>3, <1>4, <1>6, <1>7, TypeParts DEF HandlersInv, Kind

\* A step that ends a transaction or loses a handler.
LEMMA EndStep ==
  ASSUME HandlersInv, NEW r \in Requests, NEW h \in Handlers, Becomes(r, h),
         UNCHANGED <<redis, db, req>>, BoundsType', Touch({}),
         h.pc \in KeyedLabels => Keyed(r),
         h.pc # "store", h.reply \notin Told, h.pc # "tx"
  PROVE  HandlersInv' /\ Kind
  <1>1. UNCHANGED req OBVIOUS
  <1>2. ctx' \in [Requests -> Handlers] /\ \A q \in Requests : HandlerOK(q)'
    BY <1>1, HandlerStep
  <1>3. dirty' \subseteq {q \in Requests : At(q, "tx")'}
    BY DEF Touch, At
  <1>4. RedisType' /\ DbType' /\ req' \in [Requests -> Inputs]
    BY TypeParts DEF HandlersInv, redis, db, DbType, RedisType
  <1>5. ctx'[r] = h /\ \A q \in Requests \ {r} : ctx'[q] = ctx[q]
    BY DEF HandlersInv, TypeOK, Becomes
  <1>6. Quiet
    BY <1>5 DEF Quiet, Touch, At
  <1>7. Truthful
    BY <1>5 DEF Truthful, redis
  <1> QED BY <1>2, <1>3, <1>4, <1>6, <1>7, TypeParts DEF HandlersInv, Kind

\* A step of another writer.
LEMMA OtherStep ==
  ASSUME HandlersInv, UNCHANGED <<req, ctx>>, RedisType', DbType', BoundsType',
         UNCHANGED result, NEW docs, Touch(docs) \/ UNCHANGED dirty
  PROVE  HandlersInv' /\ Truthful
  <1>1. \A q \in Requests : HandlerOK(q)'
    BY DEF HandlersInv, HandlerOK, At, Keyed, Key, WritesWhatItTakes, Uses
  <1>2. dirty' \subseteq {q \in Requests : At(q, "tx")'}
    BY TypeParts DEF HandlersInv, Touch, At
  <1>3. Truthful BY DEF Truthful
  <1> QED BY <1>1, <1>2, <1>3, TypeParts DEF HandlersInv

LEMMA KeyType == HandlersInv => \A r \in Requests : Key(r) \in Keys \cup {NoKey} /\ (Keyed(r) => Key(r) \in Keys)
  BY DEF HandlersInv, TypeOK, Inputs, Key, Keyed

LEMMA SubmitStep ==
  ASSUME HandlersInv, NEW r \in Requests, Submit(r)
  PROVE  HandlersInv' /\ Kind
  <1>1. PICK input \in Inputs :
            /\ req' = [req EXCEPT ![r] = input]
            /\ Goto(r, IF input.key = NoKey THEN "begin" ELSE "check")
    BY DEF Submit
  <1>2. PICK h \in Handlers : /\ Becomes(r, h)
                              /\ h.pc = IF input.key = NoKey THEN "begin" ELSE "check"
                              /\ h.reply = ctx[r].reply
    BY <1>1, GotoBecomes, LabelValues DEF HandlersInv
  <1>3. h.reply \notin Told
    BY <1>2 DEF Submit, HandlersInv, HandlerOK, At
  <1>4. req' \in [Requests -> Inputs] /\ ctx' \in [Requests -> Handlers] /\ ctx'[r] = h /\ req'[r] = input
    BY <1>1, <1>2, TypeParts DEF HandlersInv, Becomes
  <1>5. \A q \in Requests \ {r} : ctx'[q] = ctx[q] /\ req'[q] = req[q]
    BY <1>1, <1>2, TypeParts DEF HandlersInv, Becomes
  <1>6. HandlerOK(r)'
    BY <1>2, <1>3, <1>4 DEF HandlerOK, At, Keyed, Key, KeyedLabels
  <1>7. \A q \in Requests : HandlerOK(q)'
    BY <1>5, <1>6 DEF HandlersInv, HandlerOK, At, Keyed, Key, WritesWhatItTakes, Uses
  <1>8. dirty' \subseteq {q \in Requests : At(q, "tx")'}
    BY <1>4, <1>5, TypeParts DEF HandlersInv, Submit, At
  <1>9. RedisType' /\ DbType' /\ BoundsType'
    BY TypeParts DEF HandlersInv, Submit, redis, db, bounds, RedisType, DbType, BoundsType
  <1>10. Quiet
    BY <1>2, <1>4, <1>5 DEF Quiet, Submit, At
  <1>11. Truthful
    BY <1>3, <1>4, <1>5 DEF Truthful, Submit, redis
  <1> QED BY <1>4, <1>7, <1>8, <1>9, <1>10, <1>11, TypeParts DEF HandlersInv, Kind

\* The transaction that begins writes what the order takes.
LEMMA BeginStep ==
  ASSUME HandlersInv, NEW r \in Requests, Begin(r)
  PROVE  HandlersInv' /\ Kind
  <1>1. CASE Acceptable(r) /\ ~PlacedUnder(Key(r)) /\ stock >= FromStock(r)
    <2> DEFINE h == [ctx[r] EXCEPT !.pc = "tx", !.docs = TxDocs(r)]
    <2>1. ctx' = [ctx EXCEPT ![r].pc = "tx", ![r].docs = TxDocs(r)]
      BY <1>1 DEF Begin
    <2>2. ctx[r] \in Handlers /\ req[r] \in Inputs
      BY TypeParts DEF HandlersInv
    <2>3. TxDocs(r) \in SUBSET Documents
      BY DEF TxDocs, Documents
    <2>4. h \in Handlers /\ h.pc = "tx" /\ h.docs = TxDocs(r) /\ h.reply = ctx[r].reply
      BY <2>2, <2>3, LabelValues DEF Handlers
    <2>5. ctx' \in [Requests -> Handlers] /\ ctx'[r] = h /\ \A q \in Requests \ {r} : ctx'[q] = ctx[q]
      BY <2>1, <2>4, TypeParts DEF HandlersInv
    <2>6. UNCHANGED <<redis, db, req, dirty, bounds>> BY DEF Begin
    <2>7. WritesWhatItTakes(r)'
      BY <1>1, <2>4, <2>5, <2>6, KeyType
      DEF WritesWhatItTakes, TxDocs, Acceptable, Uses, Keyed, Key
    <2>8. HandlerOK(r)'
      BY <2>4, <2>5, <2>7 DEF HandlerOK, At, KeyedLabels, HandlersInv, Begin, Told
    <2>9. \A q \in Requests : HandlerOK(q)'
      BY <2>5, <2>6, <2>8 DEF HandlersInv, HandlerOK, At, Keyed, Key, WritesWhatItTakes, Uses
    <2>10. dirty' \subseteq {q \in Requests : At(q, "tx")'}
      BY <2>4, <2>5, <2>6, TypeParts DEF HandlersInv, At
    <2>11. RedisType' /\ DbType' /\ BoundsType' /\ req' \in [Requests -> Inputs]
      BY <2>6, TypeParts DEF HandlersInv, redis, db, bounds, RedisType, DbType, BoundsType
    <2>12. Truthful
      BY <2>4, <2>5, <2>6 DEF Truthful, redis
    <2> QED BY <2>5, <2>9, <2>10, <2>11, <2>12, TypeParts DEF HandlersInv, Kind
  <1>2. CASE ~(Acceptable(r) /\ ~PlacedUnder(Key(r)) /\ stock >= FromStock(r))
    <2>1. PICK cause \in Causes : Abort(r, "fail", cause)
      BY <1>2 DEF Begin, Causes
    <2>2. PICK h \in Handlers : Becomes(r, h) /\ h.pc = "fail" /\ h.reply = "none"
      BY <2>1, AbortBecomes, LabelValues
    <2>3. UNCHANGED redis /\ Local /\ ~At(r, "tx")
      BY DEF Begin, Local, At
    <2>4. RedisType' /\ StoresOwn(r)
      BY <2>3, TypeParts DEF HandlersInv, redis, RedisType, StoresOwn
    <2> QED BY <2>2, <2>3, <2>4, LocalStep DEF KeyedLabels, Told
  <1> QED BY <1>1, <1>2

-----------------------------------------------------------------------------
\* What an order takes has a size, and what it leaves keeps its type.
LEMMA QuantityType ==
  ASSUME DbType, NEW r \in Requests
  PROVE  Quantity(r) \in Int /\ FromStock(r) \in Int
  BY DEF DbType, Quantity, FromStock

LEMMA FundType ==
  ASSUME DbType
  PROVE  PayFromWallet \in Funds
  BY DEF DbType, PayFromWallet, Seed, Funds

LEMMA TallyInts ==
  ASSUME NEW f \in Tallies
  PROVE  /\ f.orders \in Int /\ f.sold \in Int /\ f.restocked \in Int /\ f.spent \in Int
         /\ f.credited \in Int /\ f.redeemed \in Int /\ f.added \in Int /\ f.carted \in Int
         /\ f.lag \in Int
  BY DEF Tallies

\* The history after r's order was placed.
LEMMA TallyOfOrder ==
  ASSUME DbType, NEW r \in Requests, TakeEverything(r)
  PROVE  /\ tally' \in Tallies
         /\ tally'.orders = tally.orders + 1
         /\ tally'.sold = tally.sold + FromStock(r)
         /\ tally'.restocked = tally.restocked
         /\ tally'.credited = tally.credited
         /\ tally'.spent = tally.spent + (IF Uses(r, "wallet") THEN 1 ELSE 0)
         /\ tally'.redeemed = tally.redeemed + (IF Uses(r, "coupon") THEN 1 ELSE 0)
         /\ tally'.added = tally.added /\ tally'.lag = tally.lag
         /\ tally'.carted = tally.carted + (IF Uses(r, "cart") THEN Quantity(r) ELSE 0)
  <1> DEFINE a == tally.orders + 1
             b == tally.sold + FromStock(r)
             c == tally.spent + (IF Uses(r, "wallet") THEN 1 ELSE 0)
             d == tally.redeemed + (IF Uses(r, "coupon") THEN 1 ELSE 0)
             e == tally.carted + (IF Uses(r, "cart") THEN Quantity(r) ELSE 0)
  <1>1. Quantity(r) \in Int /\ FromStock(r) \in Int BY QuantityType
  <1>2. tally \in Tallies BY DEF DbType
  <1>3. a \in Int /\ b \in Int /\ c \in Int /\ d \in Int /\ e \in Int
    BY <1>1, <1>2, TallyInts
  <1>4. tally' = [tally EXCEPT !.orders = a, !.sold = b, !.spent = c, !.redeemed = d, !.carted = e]
    BY DEF TakeEverything
  <1> HIDE DEF a, b, c, d, e
  <1>5. tally' \in Tallies
    BY <1>2, <1>3, <1>4 DEF Tallies
  <1>6. /\ tally'.orders = a /\ tally'.sold = b /\ tally'.spent = c
        /\ tally'.redeemed = d /\ tally'.carted = e
    BY <1>2, <1>4 DEF Tallies
  <1>7. /\ tally'.restocked = tally.restocked /\ tally'.added = tally.added
        /\ tally'.credited = tally.credited /\ tally'.lag = tally.lag
    BY <1>2, <1>4 DEF Tallies
  <1> QED BY <1>5, <1>6, <1>7, Zenon DEF a, b, c, d, e

LEMMA TakeType ==
  ASSUME HandlersInv, NEW r \in Requests, TakeEverything(r)
  PROVE  DbType'
  <1>1. DbType /\ req[r] \in Inputs BY TypeParts DEF HandlersInv
  <1>2. Quantity(r) \in Int /\ FromStock(r) \in Int BY <1>1, QuantityType
  <1>3. stock' \in Int /\ cart' \in Int /\ coupon' \in Nat
    BY <1>1, <1>2 DEF DbType, TakeEverything, CartAfter, CouponAfter
  <1>4. fund' \in Funds
    BY <1>1, FundType DEF DbType, TakeEverything
  <1>5. Placement(r) \in Orders
    <2>1. Key(r) \in Keys \cup {NoKey} BY KeyType
    <2>2. tally.orders \in Int BY <1>1, TallyInts DEF DbType
    <2> QED BY <1>2, <2>1, <2>2 DEF Placement, Orders
  <1>6. \A o \in orders' : o \in Orders
    BY <1>1, <1>5 DEF DbType, TakeEverything
  <1>7. tally' \in Tallies
    BY <1>1, TallyOfOrder
  <1> QED BY <1>3, <1>4, <1>6, <1>7 DEF DbType

LEMMA CommitStep ==
  ASSUME HandlersInv, NEW r \in Requests, Commit(r)
  PROVE  HandlersInv' /\ Kind
  <1>1. PICK h \in Handlers : /\ Becomes(r, h)
                              /\ h.pc \in {"store", "done"} /\ h.reply = "placed"
                              /\ h.pc = "store" => Keyed(r)
    BY ReportBecomes DEF Commit, Told
  <1>2. UNCHANGED <<req, redis, bounds>> BY DEF Commit
  <1>3. ctx' \in [Requests -> Handlers] /\ \A q \in Requests : HandlerOK(q)'
    BY <1>1, <1>2, HandlerStep DEF KeyedLabels, Told
  <1>4. dirty' \subseteq {q \in Requests : At(q, "tx")'}
    BY DEF Commit, Touch, At
  <1>5. DbType' BY TakeType DEF Commit
  <1>6. RedisType' /\ BoundsType' /\ req' \in [Requests -> Inputs]
    BY <1>2, TypeParts DEF HandlersInv, redis, bounds, RedisType, BoundsType
  <1>7. Keyed(r)' => PlacedUnder(Key(r))'
    <2>1. Placement(r).key = Key(r) BY DEF Placement
    <2>2. Placement(r) \in orders' BY DEF Commit, TakeEverything
    <2>3. Key(r)' = Key(r) BY <1>2 DEF Key
    <2> QED BY <2>1, <2>2, <2>3 DEF PlacedUnder, Keyed
  <1>8. Truthful
    BY <1>1, <1>2, <1>7 DEF Truthful, redis, Becomes, HandlersInv, TypeOK
  <1> QED BY <1>3, <1>4, <1>5, <1>6, <1>8, TypeParts DEF HandlersInv, Kind

LEMMA AddType ==
  ASSUME DbType, AddToCart
  PROVE  DbType'
  <1>1. tally' \in Tallies BY DEF DbType, AddToCart, Tallies
  <1> QED BY <1>1 DEF DbType, AddToCart

LEMMA CreditParts ==
  ASSUME DbType, WalletCredited
  PROVE  /\ fund' \in Funds /\ tally' \in Tallies
         /\ fund'.row /\ fund'.seeded = fund.seeded
         /\ fund'.wallet = fund.wallet + 1 /\ fund'.user = fund.user + 1
         /\ tally'.credited = tally.credited + 1 /\ tally'.spent = tally.spent
         /\ tally'.sold = tally.sold /\ tally'.restocked = tally.restocked
         /\ tally'.redeemed = tally.redeemed
         /\ tally'.added = tally.added /\ tally'.carted = tally.carted
         /\ tally'.lag = tally.lag
  <1>1. fund \in Funds /\ tally \in Tallies BY DEF DbType
  <1>2. PICK w \in Int : w = fund.wallet + 1 BY <1>1 DEF Funds
  <1>3. PICK u \in Int : u = fund.user + 1 BY <1>1 DEF Funds
  <1>4. /\ fund' \in Funds /\ fund'.row /\ fund'.seeded = fund.seeded
        /\ fund'.wallet = fund.wallet + 1 /\ fund'.user = fund.user + 1
    <2>1. fund' = [fund EXCEPT !.row = TRUE, !.wallet = w, !.user = u]
      BY <1>2, <1>3 DEF WalletCredited
    <2>2. /\ fund' \in Funds /\ fund'.row = TRUE /\ fund'.seeded = fund.seeded
          /\ fund'.wallet = w /\ fund'.user = u
      BY <1>1, <2>1 DEF Funds
    <2> QED BY <1>2, <1>3, <2>2
  <1>5. /\ tally' \in Tallies /\ tally'.credited = tally.credited + 1
        /\ tally'.spent = tally.spent
        /\ tally'.sold = tally.sold /\ tally'.restocked = tally.restocked
        /\ tally'.redeemed = tally.redeemed
        /\ tally'.added = tally.added /\ tally'.carted = tally.carted
        /\ tally'.lag = tally.lag
    BY <1>1 DEF WalletCredited, Tallies
  <1> QED BY <1>4, <1>5

LEMMA CreditType ==
  ASSUME DbType, WalletCredited
  PROVE  DbType'
  BY CreditParts DEF DbType, WalletCredited

LEMMA RestockType ==
  ASSUME DbType, NEW o \in orders, RestockCancelled(o)
  PROVE  DbType'
  <1>1. o \in Orders
    BY DEF DbType
  <1>2. [o EXCEPT !.cancelled = TRUE] \in Orders
    BY <1>1 DEF Orders
  <1>3. \A p \in orders' : p \in Orders
    BY <1>2 DEF DbType, RestockCancelled
  <1>4. stock' \in Int /\ UNCHANGED <<cart, coupon, fund>>
    BY <1>1 DEF DbType, RestockCancelled, Orders
  <1>5. tally' \in Tallies
    <2>1. o.qty \in Int /\ tally \in Tallies BY <1>1 DEF DbType, Orders
    <2>2. tally.restocked + o.qty \in Int BY <2>1, TallyInts
    <2> QED BY <2>1, <2>2 DEF RestockCancelled, Tallies
  <1> QED BY <1>3, <1>4, <1>5 DEF DbType

\* What the customer starts with.
LEMMA LedgerOfInit ==
  ASSUME Init
  PROVE  /\ fund = [row |-> fund.row, wallet |-> fund.wallet, user |-> fund.user, seeded |-> FALSE]
         /\ fund.row \in BOOLEAN /\ fund.wallet \in 0..InitialFunds /\ fund.user \in 0..InitialFunds
         /\ fund.seeded = FALSE
         /\ InitialFunds = fund.wallet \/ InitialFunds = fund.user
         /\ fund.wallet # 0 => fund.row
         /\ tally.lag = InitialFunds - fund.user
  <1>1. PICK l \in Ledgers :
           fund = [row |-> l.row, wallet |-> l.wallet, user |-> l.user, seeded |-> FALSE]
    BY DEF Init
  <1>2. /\ l.row \in BOOLEAN /\ l.wallet \in 0..InitialFunds /\ l.user \in 0..InitialFunds
        /\ InitialFunds = l.wallet \/ InitialFunds = l.user
        /\ l.wallet # 0 => l.row
    BY CheckoutLedgersAssumption
  <1>3. tally.lag = InitialFunds - fund.user BY DEF Init
  <1> QED BY <1>1, <1>2, <1>3

LEMMA HandlersInit == Init => HandlersInv
  <1> SUFFICES ASSUME Init PROVE HandlersInv
    OBVIOUS
  <1>1. \A r \in Requests : ctx[r] = Fresh /\ req[r] = [key |-> NoKey, uses |-> {}]
    BY DEF Init
  <1>2. TypeOK
    <2>1. RedisType /\ BoundsType
      BY CheckoutBoundAssumption DEF Init, RedisType, BoundsType
    <2>2. fund \in Funds /\ InitialFunds - fund.user \in Int
      <3>1. PICK l \in Ledgers :
               fund = [row |-> l.row, wallet |-> l.wallet, user |-> l.user, seeded |-> FALSE]
        BY DEF Init
      <3>2. l.row \in BOOLEAN /\ l.wallet \in 0..InitialFunds /\ l.user \in 0..InitialFunds
        BY CheckoutLedgersAssumption
      <3>3. l.wallet \in Int /\ l.user \in Int /\ InitialFunds - l.user \in Int
        BY <3>2, CheckoutFundsAssumption
      <3>4. [row |-> l.row, wallet |-> l.wallet, user |-> l.user, seeded |-> FALSE] \in Funds
        BY <3>2, <3>3 DEF Funds
      <3> QED BY <3>1, <3>3, <3>4
    <2>3. tally \in Tallies
      BY <2>2 DEF Init, Tallies
    <2>4. stock \in Int /\ cart \in Int /\ coupon \in Nat /\ orders = {}
      BY CheckoutFundsAssumption DEF Init
    <2>5. DbType
      BY <2>2, <2>3, <2>4 DEF DbType
    <2>6. req \in [Requests -> Inputs]
      BY CheckoutWantsAssumption DEF Init, Inputs
    <2>7. ctx \in [Requests -> Handlers]
      BY FreshType DEF Init
    <2>8. dirty = {} BY DEF Init
    <2> QED BY <2>1, <2>5, <2>6, <2>7, <2>8, TypeParts
  <1>3. \A r \in Requests : HandlerOK(r)
    BY <1>1, FreshType DEF HandlerOK, At, KeyedLabels, Told
  <1> QED BY <1>2, <1>3 DEF HandlersInv

LEMMA HandlersStep == HandlersInv /\ [Next]_vars => HandlersInv' /\ Kind
  <1> SUFFICES ASSUME HandlersInv, [Next]_vars PROVE HandlersInv' /\ Kind
    OBVIOUS
  <1> USE LabelValues
  <1>0. /\ RedisType /\ DbType /\ BoundsType
        /\ ctx \in [Requests -> Handlers]
    BY TypeParts DEF HandlersInv
  <1>1. ASSUME NEW r \in Requests, Submit(r) PROVE HandlersInv' /\ Kind
    BY <1>1, SubmitStep
  <1>2. ASSUME NEW r \in Requests, Retry(r) PROVE HandlersInv' /\ Kind
    <2>1. PICK h \in Handlers : Becomes(r, h) /\ h.pc = "check" /\ h.reply = "none"
      BY <1>2, RestartBecomes DEF Retry
    <2>2. Keyed(r) /\ ~At(r, "tx") /\ Local /\ RedisType' /\ StoresOwn(r)
      BY <1>0, <1>2 DEF Retry, At, redis, RedisType, StoresOwn
    <2> QED BY <2>1, <2>2, LocalStep DEF Told
  <1>3. ASSUME NEW r \in Requests, Check(r) PROVE HandlersInv' /\ Kind
    <2>1. Keyed(r) /\ ~At(r, "tx") /\ Local /\ RedisType' /\ StoresOwn(r)
      BY <1>0, <1>3 DEF Check, At, redis, RedisType, HandlersInv, HandlerOK, KeyedLabels, StoresOwn
    <2>2. \/ \E reply \in Replies : Answer(r, reply) /\ (reply \in Told => Key(r) \in result)
          \/ Goto(r, "lock")
      BY <1>3 DEF Check, Replies, Told
    <2>3. CASE Goto(r, "lock")
      <3>1. PICK h \in Handlers : Becomes(r, h) /\ h.pc = "lock" /\ h.reply = ctx[r].reply
        BY <2>3, GotoBecomes DEF HandlersInv
      <3>2. h.reply \notin Told
        BY <1>3, <3>1 DEF Check, HandlersInv, HandlerOK, At
      <3> QED BY <2>1, <3>1, <3>2, LocalStep
    <2>4. ASSUME NEW reply \in Replies, Answer(r, reply), reply \in Told => Key(r) \in result
          PROVE  HandlersInv' /\ Kind
      <3>1. PICK h \in Handlers : Becomes(r, h) /\ h.pc = "done" /\ h.reply = reply
        BY <2>4, AnswerBecomes
      <3> QED BY <2>1, <2>4, <3>1, LocalStep DEF KeyedLabels
    <2> QED BY <2>2, <2>3, <2>4
  <1>4. ASSUME NEW r \in Requests, Lock(r) PROVE HandlersInv' /\ Kind
    <2>1. Keyed(r) /\ ~At(r, "tx") /\ Local
      BY <1>4 DEF Lock, At, HandlersInv, HandlerOK, KeyedLabels
    <2>2. RedisType' /\ StoresOwn(r)
      BY <1>0, <1>4, <2>1, KeyType DEF Lock, RedisType, StoresOwn
    <2>3. Answer(r, "busy") \/ Goto(r, "find")
      BY <1>4 DEF Lock
    <2>4. CASE Goto(r, "find")
      <3>1. PICK h \in Handlers : Becomes(r, h) /\ h.pc = "find" /\ h.reply = ctx[r].reply
        BY <2>4, GotoBecomes DEF HandlersInv
      <3>2. h.reply \notin Told
        BY <1>4, <3>1 DEF Lock, HandlersInv, HandlerOK, At
      <3> QED BY <2>1, <2>2, <3>1, <3>2, LocalStep
    <2>5. CASE Answer(r, "busy")
      <3>1. PICK h \in Handlers : Becomes(r, h) /\ h.pc = "done" /\ h.reply = "busy"
        BY <2>5, AnswerBecomes DEF Replies
      <3> QED BY <2>1, <2>2, <3>1, LocalStep DEF KeyedLabels, Told
    <2> QED BY <2>3, <2>4, <2>5
  <1>5. ASSUME NEW r \in Requests, FindExisting(r) PROVE HandlersInv' /\ Kind
    <2>1. ~At(r, "tx") /\ Local /\ RedisType' /\ StoresOwn(r)
      BY <1>0, <1>5 DEF FindExisting, At, redis, RedisType, StoresOwn
    <2>2. (PlacedUnder(Key(r)) /\ Report(r, "duplicate")) \/ Goto(r, "begin")
      BY <1>5 DEF FindExisting
    <2>3. CASE PlacedUnder(Key(r)) /\ Report(r, "duplicate")
      <3>1. PICK h \in Handlers : /\ Becomes(r, h) /\ h.reply = "duplicate"
                                  /\ h.pc \in {"store", "done"} /\ (h.pc = "store" => Keyed(r))
        BY <2>3, ReportBecomes DEF Told
      <3> QED BY <2>1, <2>3, <3>1, LocalStep DEF Told, KeyedLabels
    <2>4. CASE Goto(r, "begin")
      <3>1. PICK h \in Handlers : Becomes(r, h) /\ h.pc = "begin" /\ h.reply = ctx[r].reply
        BY <2>4, GotoBecomes DEF HandlersInv
      <3>2. h.reply \notin Told
        BY <1>5, <3>1 DEF FindExisting, HandlersInv, HandlerOK, At
      <3> QED BY <2>1, <3>1, <3>2, LocalStep DEF KeyedLabels
    <2> QED BY <2>2, <2>3, <2>4
  <1>6. ASSUME NEW r \in Requests, Begin(r) PROVE HandlersInv' /\ Kind
    BY <1>6, BeginStep
  <1>7. ASSUME NEW r \in Requests, Commit(r) PROVE HandlersInv' /\ Kind
    BY <1>7, CommitStep
  <1>8. ASSUME NEW r \in Requests, WriteConflict(r) PROVE HandlersInv' /\ Kind
    <2>1. PICK h \in Handlers : Becomes(r, h) /\ h.pc = "fail" /\ h.reply = "none"
      BY <1>8, AbortBecomes DEF WriteConflict, Causes
    <2>2. UNCHANGED <<redis, db, req>> /\ BoundsType' /\ Touch({})
      BY <1>0, <1>8 DEF WriteConflict, bounds, BoundsType
    <2> QED BY <2>1, <2>2, EndStep DEF KeyedLabels, Told
  <1>9. ASSUME NEW r \in Requests, StoreResult(r) \/ Unlock(r) \/ StoreError(r) PROVE HandlersInv' /\ Kind
    <2>1. ~At(r, "tx") /\ Local
      BY <1>9 DEF StoreResult, Unlock, StoreError, At
    <2>2. RedisType' /\ StoresOwn(r)
      BY <1>0, <1>9, KeyType
      DEF StoreResult, Unlock, StoreError, At, RedisType, HandlersInv, HandlerOK, KeyedLabels,
          StoresOwn
    <2>3. \/ At(r, "store") /\ Goto(r, "unlock")
          \/ Answer(r, ctx[r].reply)
          \/ At(r, "fail") /\ ((Keyed(r) /\ Goto(r, "fail_unlock")) \/ Goto(r, "refind"))
      BY <1>9 DEF StoreResult, Unlock, StoreError
    <2>4. CASE At(r, "store") /\ Goto(r, "unlock")
      <3>1. PICK h \in Handlers : Becomes(r, h) /\ h.pc = "unlock" /\ h.reply = ctx[r].reply
        BY <2>4, GotoBecomes DEF HandlersInv
      <3>2. Keyed(r) BY <2>4 DEF HandlersInv, HandlerOK, KeyedLabels, At
      <3> QED BY <2>1, <2>2, <3>1, <3>2, LocalStep
    <2>5. CASE Answer(r, ctx[r].reply)
      <3>1. ctx[r].reply \in Replies BY <1>0 DEF Handlers
      <3>2. PICK h \in Handlers : Becomes(r, h) /\ h.pc = "done" /\ h.reply = ctx[r].reply
        BY <2>5, <3>1, AnswerBecomes
      <3> QED BY <2>1, <2>2, <3>2, LocalStep DEF KeyedLabels
    <2>6. CASE At(r, "fail") /\ ((Keyed(r) /\ Goto(r, "fail_unlock")) \/ Goto(r, "refind"))
      <3>1. PICK h \in Handlers : /\ Becomes(r, h) /\ h.reply = ctx[r].reply
                                  /\ \/ h.pc = "fail_unlock" /\ Keyed(r)
                                     \/ h.pc = "refind"
        BY <2>6, GotoBecomes DEF HandlersInv
      <3>2. h.reply \notin Told
        BY <2>6, <3>1 DEF HandlersInv, HandlerOK, At
      <3> QED BY <2>1, <2>2, <3>1, <3>2, LocalStep DEF KeyedLabels
    <2> QED BY <2>3, <2>4, <2>5, <2>6
  <1>10. ASSUME NEW r \in Requests, UnlockFailed(r) \/ Release(r) PROVE HandlersInv' /\ Kind
    <2>1. ~At(r, "tx") /\ Local /\ RedisType' /\ StoresOwn(r)
      BY <1>0, <1>10 DEF UnlockFailed, Release, At, RedisType, StoresOwn
    <2>2. \/ At(r, "fail_unlock") /\ Goto(r, "refind")
          \/ Answer(r, "error")
      BY <1>10 DEF UnlockFailed, Release
    <2>3. CASE At(r, "fail_unlock") /\ Goto(r, "refind")
      <3>1. PICK h \in Handlers : Becomes(r, h) /\ h.reply = ctx[r].reply /\ h.pc = "refind"
        BY <2>3, GotoBecomes DEF HandlersInv
      <3>2. h.reply \notin Told
        BY <2>3, <3>1 DEF HandlersInv, HandlerOK, At
      <3> QED BY <2>1, <3>1, <3>2, LocalStep DEF KeyedLabels
    <2>4. CASE Answer(r, "error")
      <3>1. PICK h \in Handlers : Becomes(r, h) /\ h.pc = "done" /\ h.reply = "error"
        BY <2>4, AnswerBecomes DEF Replies
      <3> QED BY <2>1, <3>1, LocalStep DEF KeyedLabels, Told
    <2> QED BY <2>2, <2>3, <2>4
  <1>11. ASSUME NEW r \in Requests, FindDuplicate(r) PROVE HandlersInv' /\ Kind
    <2>1. ~At(r, "tx") /\ Local /\ RedisType' /\ StoresOwn(r)
      BY <1>0, <1>11 DEF FindDuplicate, At, redis, RedisType, StoresOwn
    <2>2. \/ Answer(r, "error")
          \/ PlacedUnder(Key(r)) /\ Report(r, "duplicate")
          \/ ctx' = [ctx EXCEPT ![r] = [Fresh EXCEPT !.pc = IF Keyed(r) THEN "check" ELSE "begin"]]
      BY <1>11 DEF FindDuplicate
    <2>3. CASE Answer(r, "error")
      <3>1. PICK h \in Handlers : Becomes(r, h) /\ h.pc = "done" /\ h.reply = "error"
        BY <2>3, AnswerBecomes DEF Replies
      <3> QED BY <2>1, <3>1, LocalStep DEF KeyedLabels, Told
    <2>4. CASE PlacedUnder(Key(r)) /\ Report(r, "duplicate")
      <3>1. PICK h \in Handlers : /\ Becomes(r, h) /\ h.reply = "duplicate"
                                  /\ h.pc \in {"store", "done"} /\ (h.pc = "store" => Keyed(r))
        BY <2>4, ReportBecomes DEF Told
      <3> QED BY <2>1, <2>4, <3>1, LocalStep DEF Told, KeyedLabels
    <2>5. CASE ctx' = [ctx EXCEPT ![r] = [Fresh EXCEPT !.pc = IF Keyed(r) THEN "check" ELSE "begin"]]
      <3>1. PICK h \in Handlers : /\ Becomes(r, h) /\ h.reply = "none"
                                  /\ \/ h.pc = "check" /\ Keyed(r)
                                     \/ h.pc = "begin"
        <4>1. CASE Keyed(r)
          <5>1. ctx' = [ctx EXCEPT ![r] = [Fresh EXCEPT !.pc = "check"]]
            BY <2>5, <4>1
          <5>2. \E h \in Handlers : Becomes(r, h) /\ h.pc = "check" /\ h.reply = "none"
            BY <5>1, RestartBecomes
          <5> QED BY <4>1, <5>2
        <4>2. CASE ~Keyed(r)
          <5>1. ctx' = [ctx EXCEPT ![r] = [Fresh EXCEPT !.pc = "begin"]]
            BY <2>5, <4>2
          <5>2. \E h \in Handlers : Becomes(r, h) /\ h.pc = "begin" /\ h.reply = "none"
            BY <5>1, RestartBecomes
          <5> QED BY <5>2
        <4> QED BY <4>1, <4>2
      <3> QED BY <2>1, <3>1, LocalStep DEF Told, KeyedLabels
    <2> QED BY <2>2, <2>3, <2>4, <2>5
  <1>12. ASSUME NEW r \in Requests, TxFails(r) PROVE HandlersInv' /\ Kind
    <2>1. UNCHANGED <<redis, db, req>> /\ BoundsType' /\ Touch({})
      BY <1>0, <1>12, CheckoutBoundAssumption DEF TxFails, Fault, BoundsType
    <2>2. \E label \in {"release", "refind", "fail"}, cause \in Causes :
             Abort(r, label, cause) /\ (label = "release" => Keyed(r))
      BY <1>12 DEF TxFails, Causes
    <2>3. PICK h \in Handlers : /\ Becomes(r, h) /\ h.reply = "none"
                                /\ h.pc \in {"release", "refind", "fail"}
                                /\ h.pc = "release" => Keyed(r)
      BY <2>2, AbortBecomes
    <2> QED BY <2>1, <2>3, EndStep DEF KeyedLabels, Told
  <1>13. ASSUME NEW r \in Requests, Dies(r) PROVE HandlersInv' /\ Kind
    <2>1. UNCHANGED <<redis, db, req>> /\ BoundsType' /\ Touch({})
      BY <1>0, <1>13, CheckoutBoundAssumption DEF Dies, Fault, BoundsType
    <2>2. Answer(r, "lost") \/ Answer(r, "error")
      BY <1>13 DEF Dies
    <2>3. PICK h \in Handlers : Becomes(r, h) /\ h.reply \in {"lost", "error"} /\ h.pc = "done"
      BY <2>2, AnswerBecomes DEF Replies
    <2> QED BY <2>1, <2>3, EndStep DEF KeyedLabels, Told
  <1>14. ASSUME NEW k \in Keys, LockExpires(k) PROVE HandlersInv' /\ Kind
    <2>1. /\ UNCHANGED <<req, ctx, dirty, result, db>> /\ RedisType' /\ BoundsType'
      BY <1>0, <1>14, CheckoutBoundAssumption DEF LockExpires, RedisType, BoundsType
    <2>2. DbType' BY <1>0, <2>1 DEF db, DbType
    <2>3. Quiet BY <2>1 DEF Quiet, At
    <2> QED BY <2>1, <2>2, <2>3, OtherStep DEF Kind
  <1>15. CASE AddToCart
    <2>1. UNCHANGED <<req, ctx, result>> /\ RedisType' /\ BoundsType' /\ Touch({"cart"})
      BY <1>0, <1>15 DEF AddToCart, redis, bounds, RedisType, BoundsType
    <2> QED BY <1>0, <1>15, <2>1, AddType, OtherStep DEF Kind
  <1>16. CASE WalletCredited
    <2>1. UNCHANGED <<req, ctx, result>> /\ RedisType' /\ BoundsType' /\ Touch({"wallet", "user"})
      BY <1>0, <1>16 DEF WalletCredited, redis, bounds, RedisType, BoundsType
    <2> QED BY <1>0, <1>16, <2>1, CreditType, OtherStep DEF Kind
  <1>17. ASSUME NEW o \in orders, RestockCancelled(o) PROVE HandlersInv' /\ Kind
    <2>1. UNCHANGED <<req, ctx, result>> /\ RedisType' /\ BoundsType' /\ Touch({"stock"})
      BY <1>0, <1>17 DEF RestockCancelled, redis, bounds, RedisType, BoundsType
    <2> QED BY <1>0, <1>17, <2>1, RestockType, OtherStep DEF Kind
  <1>18. CASE UNCHANGED vars
    <2>1. UNCHANGED <<req, ctx, dirty, result, db>> /\ RedisType' /\ BoundsType' /\ DbType'
      BY <1>0, <1>18 DEF vars, redis, bounds, db, RedisType, BoundsType, DbType
    <2>2. Quiet BY <2>1 DEF Quiet, At
    <2> QED BY <2>1, <2>2, OtherStep DEF Kind
  <1> QED
    BY <1>1, <1>2, <1>3, <1>4, <1>5, <1>6, <1>7, <1>8, <1>9, <1>10, <1>11, <1>12,
       <1>13, <1>14, <1>15, <1>16, <1>17, <1>18
    DEF Next, Handler

-----------------------------------------------------------------------------
(* Level two: the keys.  A transaction that is not dirty knows that its key *)
(* is free, since a group is written under a key by a transaction that     *)
(* writes the key.                                                         *)

KeyInv ==
    /\ OneOrderPerKey
    /\ \A r \in Requests : At(r, "tx") /\ r \notin dirty => ~PlacedUnder(Key(r))

\* The keys of the orders that there are, and of those of which there is one.
LEMMA KeysKept ==
  ASSUME KeyInv, Truthful, \A k : PlacedUnder(k) => PlacedUnder(k)',
         \A o, p \in orders' : o.key = p.key /\ o.key # NoKey => o = p
  PROVE  OneOrderPerKey'
  <1>1. ASSUME NEW k \in result' PROVE PlacedUnder(k)'
    <2>1. CASE k \in result
      BY <2>1 DEF KeyInv, OneOrderPerKey
    <2>2. CASE k \notin result
      <3>1. PICK q \in Requests : Keyed(q) /\ Key(q) = k /\ ctx[q].reply \in Told
        BY <2>2 DEF Truthful
      <3>2. PlacedUnder(k)
        BY <3>1 DEF KeyInv, OneOrderPerKey, Told
      <3> QED BY <3>2
    <2> QED BY <2>1, <2>2
  <1>2. ASSUME NEW q \in Requests, Keyed(q)', ctx'[q].reply \in Told PROVE PlacedUnder(Key(q))'
    BY <1>2 DEF KeyInv, OneOrderPerKey, Truthful, Keyed, Key, Told
  <1> QED BY <1>1, <1>2 DEF OneOrderPerKey, Told

LEMMA KeyStep == HandlersInv /\ KeyInv /\ [Next]_vars => KeyInv'
  <1> SUFFICES ASSUME HandlersInv, KeyInv, [Next]_vars PROVE KeyInv'
    OBVIOUS
  <1>0. HandlersInv' /\ Kind BY HandlersStep
  <1>1. CASE Quiet
    <2>1. UNCHANGED orders BY <1>1 DEF Quiet, db
    <2>2. OneOrderPerKey'
      BY <1>0, <2>1, KeysKept DEF KeyInv, OneOrderPerKey, Kind, PlacedUnder
    <2>3. ASSUME NEW q \in Requests, At(q, "tx")', q \notin dirty' PROVE ~PlacedUnder(Key(q))'
      BY <1>1, <2>1, <2>3 DEF Quiet, KeyInv, PlacedUnder, Key
    <2> QED BY <2>2, <2>3 DEF KeyInv
  <1>2. ASSUME NEW r \in Requests, Begin(r) PROVE KeyInv'
    <2>1. UNCHANGED <<orders, req, dirty>> BY <1>2 DEF Begin, db
    <2>2. OneOrderPerKey'
      BY <1>0, <2>1, KeysKept DEF KeyInv, OneOrderPerKey, Kind, PlacedUnder
    <2>3. \A q \in Requests \ {r} : ctx'[q] = ctx[q]
      BY <1>2 DEF Begin, Abort, HandlersInv, TypeOK
    <2>4. At(r, "tx")' => ~PlacedUnder(Key(r))
      <3>1. CASE Acceptable(r) /\ ~PlacedUnder(Key(r)) /\ stock >= FromStock(r)
        BY <3>1
      <3>2. CASE ~(Acceptable(r) /\ ~PlacedUnder(Key(r)) /\ stock >= FromStock(r))
        <4>1. PICK cause \in Causes : Abort(r, "fail", cause)
          BY <1>2, <3>2 DEF Begin, Causes
        <4>2. PICK h \in Handlers : Becomes(r, h) /\ h.pc = "fail"
          BY <4>1, AbortBecomes, LabelValues
        <4> QED BY <4>2 DEF Becomes, At, HandlersInv, TypeOK
      <3> QED BY <3>1, <3>2
    <2> QED BY <2>1, <2>2, <2>3, <2>4 DEF KeyInv, At, PlacedUnder, Key
  <1>3. ASSUME NEW r \in Requests, Commit(r) PROVE KeyInv'
    <2>1. /\ At(r, "tx") /\ r \notin dirty /\ UNCHANGED req
          /\ orders' = orders \cup {Placement(r)} /\ Touch(ctx[r].docs)
      BY <1>3 DEF Commit, TakeEverything
    <2>2. Placement(r).key = Key(r) /\ ~PlacedUnder(Key(r))
      BY <2>1 DEF Placement, KeyInv
    <2>3. \A o, p \in orders' : o.key = p.key /\ o.key # NoKey => o = p
      BY <2>1, <2>2 DEF KeyInv, OneOrderPerKey, PlacedUnder
    <2>4. OneOrderPerKey'
      BY <1>0, <2>1, <2>3, KeysKept DEF Kind, PlacedUnder
    <2>5. ASSUME NEW q \in Requests, At(q, "tx")', q \notin dirty' PROVE ~PlacedUnder(Key(q))'
      <3>1. PICK h \in Handlers : Becomes(r, h) /\ h.pc \in {"store", "done"}
        BY <1>3, ReportBecomes DEF Commit, Told
      <3>2. q # r /\ ctx'[q] = ctx[q]
        BY <2>5, <3>1 DEF Becomes, At, HandlersInv, TypeOK
      <3>3. q \notin dirty /\ ctx[q].docs \cap ctx[r].docs = {}
        BY <2>1, <2>5, <3>2 DEF Touch, At
      <3>4. ~PlacedUnder(Key(q))
        BY <2>5, <3>2, <3>3 DEF KeyInv, At
      <3>5. Keyed(q) => Key(q) # Key(r)
        BY <2>1, <2>5, <3>2, <3>3
        DEF HandlersInv, HandlerOK, WritesWhatItTakes, At, Keyed
      <3> QED BY <2>1, <2>2, <3>4, <3>5 DEF PlacedUnder, Key, Keyed
    <2> QED BY <2>4, <2>5 DEF KeyInv
  <1>4. CASE AddToCart \/ WalletCredited
    <2>1. UNCHANGED <<orders, ctx, req>> /\ \E docs : Touch(docs)
      BY <1>4 DEF AddToCart, WalletCredited
    <2>2. OneOrderPerKey'
      BY <1>0, <2>1, KeysKept DEF KeyInv, OneOrderPerKey, Kind, PlacedUnder
    <2>3. ASSUME NEW q \in Requests, At(q, "tx")', q \notin dirty' PROVE ~PlacedUnder(Key(q))'
      BY <2>1, <2>3 DEF Touch, KeyInv, PlacedUnder, Key, At
    <2> QED BY <2>2, <2>3 DEF KeyInv
  <1>5. ASSUME NEW o \in orders, RestockCancelled(o) PROVE KeyInv'
    <2> DEFINE n == [o EXCEPT !.cancelled = TRUE]
    <2>1. /\ orders' = (orders \ {o}) \cup {n} /\ UNCHANGED <<ctx, req>>
          /\ Touch({"stock"})
      BY <1>5 DEF RestockCancelled
    <2>2. n.key = o.key
      BY TypeParts DEF HandlersInv, DbType, Orders
    <2> HIDE DEF n
    <2>3. \A k : PlacedUnder(k) <=> PlacedUnder(k)'
      BY <2>1, <2>2 DEF PlacedUnder
    <2>4. \A x, y \in orders' : x.key = y.key /\ x.key # NoKey => x = y
      BY <2>1, <2>2 DEF KeyInv, OneOrderPerKey
    <2>5. OneOrderPerKey'
      BY <1>0, <2>3, <2>4, KeysKept DEF Kind
    <2>6. ASSUME NEW q \in Requests, At(q, "tx")', q \notin dirty' PROVE ~PlacedUnder(Key(q))'
      <3>1. At(q, "tx") /\ q \notin dirty /\ Key(q)' = Key(q)
        BY <2>1, <2>6 DEF Touch, At, Key
      <3> QED BY <2>3, <3>1 DEF KeyInv
    <2> QED BY <2>5, <2>6 DEF KeyInv
  <1> QED BY <1>0, <1>1, <1>2, <1>3, <1>4, <1>5 DEF Kind

LEMMA KeyInit == Init => KeyInv
  BY FreshType DEF Init, KeyInv, OneOrderPerKey, PlacedUnder, At

LEMMA SafeKeys == Spec => [](HandlersInv /\ KeyInv)
  <1>1. Init => HandlersInv /\ KeyInv BY HandlersInit, KeyInit
  <1>2. HandlersInv /\ KeyInv /\ [Next]_vars => (HandlersInv /\ KeyInv)'
    BY HandlersStep, KeyStep
  <1> QED BY <1>1, <1>2, PTL DEF Spec

\* Every variable of a placement keeps its type (orderPlacementService.js,
\* idempotencyService.js).
THEOREM CheckoutTypeCorrect == Spec => []TypeOK
  <1>1. HandlersInv => TypeOK BY DEF HandlersInv
  <1> QED BY <1>1, SafeKeys, PTL

\* One checkout group per idempotency key, and nobody is told of one that is not
\* there, with any number of requests, keys, expiring locks and faults
\* (placeOrderAtomic).
THEOREM OneOrderPerKeyCorrect == Spec => []OneOrderPerKey
  <1>1. KeyInv => OneOrderPerKey BY DEF KeyInv
  <1> QED BY <1>1, SafeKeys, PTL

-----------------------------------------------------------------------------
(* Level three: the supplies.                                              *)

FundsInv == SuppliesInv /\ SnapshotInv

\* A step that keeps the database, or changes one document of it, keeps what the
\* transactions saw that it does not make dirty.
LEMMA SnapshotQuiet ==
  ASSUME SnapshotInv, Quiet
  PROVE  SnapshotInv'
  <1>1. ASSUME NEW q \in Requests, At(q, "tx")', q \notin dirty' PROVE SnapshotHolds(q)'
    <2>1. /\ At(q, "tx") /\ q \notin dirty /\ UNCHANGED <<stock, cart, coupon, fund>>
          /\ ctx'[q].docs = ctx[q].docs /\ req'[q] = req[q]
      BY <1>1 DEF Quiet, db
    <2>2. SnapshotHolds(q) BY <2>1 DEF SnapshotInv
    <2> QED BY <2>1, <2>2
         DEF SnapshotHolds, FromStock, Quantity, Uses, Balance
  <1> QED BY <1>1 DEF SnapshotInv

\* What q saw is not changed by a step that writes documents which q does not
\* write.
LEMMA SnapshotKept ==
  ASSUME HandlersInv, SnapshotInv, NEW q \in Requests, NEW docs, Touch(docs),
         At(q, "tx")', q \notin dirty', ctx'[q] = ctx[q], UNCHANGED req,
         "stock" \in docs \/ UNCHANGED stock,
         "cart" \in docs \/ UNCHANGED cart,
         "coupon" \in docs \/ UNCHANGED coupon,
         "user" \in docs \/ UNCHANGED fund,
         stock' >= 0
  PROVE  SnapshotHolds(q)'
  <1>1. At(q, "tx") /\ q \notin dirty /\ ctx[q].docs \cap docs = {}
    BY DEF Touch, At
  <1>2. SnapshotHolds(q) /\ WritesWhatItTakes(q)
    BY <1>1 DEF SnapshotInv, HandlersInv, HandlerOK
  <1>3. \A x : Uses(q, x)' = Uses(q, x) BY DEF Uses
  <1>5. Uses(q, "cart") => cart' = cart
    BY <1>1, <1>2 DEF WritesWhatItTakes
  <1>6. "cart" \in ctx[q].docs => cart' = cart
    BY <1>1
  <1>7. ~Uses(q, "other") => stock' = stock
    BY <1>1, <1>2 DEF WritesWhatItTakes
  <1>8. FromStock(q)' = FromStock(q)
    BY <1>3, <1>5 DEF FromStock, Quantity, Uses
  <1>9. stock' >= FromStock(q)'
    BY <1>2, <1>3, <1>7, <1>8 DEF SnapshotHolds, FromStock
  <1>10. Uses(q, "coupon") => coupon' = coupon
    BY <1>1, <1>2 DEF WritesWhatItTakes
  <1>11. Uses(q, "wallet") => fund' = fund
    BY <1>1, <1>2 DEF WritesWhatItTakes
  <1>12. Canonical /\ Uses(q, "wallet") => Balance' >= 1
    BY <1>2, <1>11 DEF SnapshotHolds, Balance
  <1>13. "cart" \in ctx'[q].docs => cart' > 0
    BY <1>2, <1>6 DEF SnapshotHolds
  <1>14. Uses(q, "coupon") => coupon' < CouponLimit
    BY <1>2, <1>10 DEF SnapshotHolds
  <1> QED BY <1>3, <1>9, <1>12, <1>13, <1>14 DEF SnapshotHolds

\* The order takes from the stock, the coupon and the cart what was there.
LEMMA CommitSupplies ==
  ASSUME HandlersInv, SuppliesInv, NEW r \in Requests, At(r, "tx"), SnapshotHolds(r),
         TakeEverything(r)
  PROVE  /\ StockNeverOversold' /\ CouponWithinLimit' /\ CartOrderedOnce'
         /\ \A o \in orders' : o.qty >= 0
  <1>1. DbType /\ WritesWhatItTakes(r)
    BY TypeParts DEF HandlersInv, HandlerOK
  <1>2. tally \in Tallies /\ stock \in Int /\ cart \in Int /\ coupon \in Nat
    BY <1>1 DEF DbType
  <1>3. /\ tally.sold \in Int /\ tally.restocked \in Int /\ tally.redeemed \in Int
        /\ tally.added \in Int /\ tally.carted \in Int
    BY <1>2, TallyInts
  <1>4. cart >= 0 /\ (Uses(r, "cart") => cart > 0)
    BY <1>1 DEF SuppliesInv, CartOrderedOnce, SnapshotHolds, WritesWhatItTakes
  <1>5. Quantity(r) \in Int /\ FromStock(r) \in Int /\ Quantity(r) >= 0 /\ FromStock(r) >= 0
    BY <1>2, <1>4 DEF Quantity, FromStock
  <1>6. StockNeverOversold'
    <2>1. stock' = stock - FromStock(r) BY DEF TakeEverything
    <2>2. tally'.sold = tally.sold + FromStock(r) /\ tally'.restocked = tally.restocked
      BY <1>1, TallyOfOrder
    <2>3. stock >= FromStock(r) BY DEF SnapshotHolds
    <2>4. stock = InitialStock - tally.sold + tally.restocked
      BY DEF SuppliesInv, StockNeverOversold
    <2>5. InitialStock \in Int BY CheckoutFundsAssumption
    <2> QED BY <1>2, <1>3, <1>5, <2>1, <2>2, <2>3, <2>4, <2>5 DEF StockNeverOversold
  <1>7. CouponWithinLimit'
    <2>1. coupon' = CouponAfter(r) BY DEF TakeEverything
    <2>2. tally'.redeemed = tally.redeemed + (IF Uses(r, "coupon") THEN 1 ELSE 0)
      BY <1>1, TallyOfOrder
    <2>3. Uses(r, "coupon") => coupon < CouponLimit BY DEF SnapshotHolds
    <2>4. tally.redeemed <= CouponLimit /\ coupon = tally.redeemed
      BY DEF SuppliesInv, CouponWithinLimit
    <2> QED BY <1>2, <1>3, <2>1, <2>2, <2>3, <2>4, CheckoutFundsAssumption
         DEF CouponWithinLimit, CouponAfter
  <1>8. CartOrderedOnce'
    <2>1. cart' = CartAfter(r) BY DEF TakeEverything
    <2>2. /\ tally'.added = tally.added
          /\ tally'.carted = tally.carted + (IF Uses(r, "cart") THEN Quantity(r) ELSE 0)
      BY <1>1, TallyOfOrder
    <2>3. tally.carted + cart <= tally.added BY DEF SuppliesInv, CartOrderedOnce
    <2>4. CASE Uses(r, "cart")
      <3>1. "cart" \in ctx[r].docs BY <1>1, <2>4 DEF WritesWhatItTakes
      <3>2. Quantity(r) = cart BY <2>4 DEF Quantity
      <3>3. cart' = 0 BY <1>2, <2>1, <3>1, <3>2 DEF CartAfter
      <3>4. tally'.carted = tally.carted + cart BY <2>2, <2>4, <3>2
      <3> QED BY <1>2, <1>3, <2>2, <2>3, <3>3, <3>4 DEF CartOrderedOnce
    <2>5. CASE ~Uses(r, "cart")
      <3>1. tally'.carted = tally.carted BY <1>3, <2>2, <2>5
      <3>2. Quantity(r) = 1 BY <2>5 DEF Quantity
      <3>3. cart' >= 0 /\ cart' <= cart /\ cart' \in Int
        BY <1>2, <1>4, <2>1, <3>2 DEF CartAfter, SnapshotHolds
      <3> QED BY <1>2, <1>3, <2>2, <2>3, <3>1, <3>3 DEF CartOrderedOnce
    <2> QED BY <2>4, <2>5
  <1>9. \A o \in orders' : o.qty >= 0
    <2>1. Placement(r).qty = FromStock(r) BY DEF Placement
    <2> QED BY <1>5, <2>1 DEF SuppliesInv, TakeEverything
  <1> QED BY <1>6, <1>7, <1>8, <1>9

\* It takes from the two records of the wallet what was in them.
LEMMA CommitFund ==
  ASSUME HandlersInv, SuppliesInv, NEW r \in Requests, SnapshotHolds(r), TakeEverything(r)
  PROVE  FundInv'
  <1>1. DbType BY TypeParts DEF HandlersInv
  <1>2. tally \in Tallies /\ fund \in Funds BY <1>1 DEF DbType
  <1>3. /\ tally.credited \in Int /\ tally.spent \in Int /\ tally.lag \in Int
        /\ fund.row \in BOOLEAN /\ fund.wallet \in Int /\ fund.user \in Int
        /\ fund.seeded \in BOOLEAN
    BY <1>2, TallyInts DEF Funds
  <1>4. /\ tally'.credited = tally.credited /\ tally'.lag = tally.lag
        /\ tally'.spent = tally.spent + (IF Uses(r, "wallet") THEN 1 ELSE 0)
    BY <1>1, TallyOfOrder
  <1>5. FundInv BY DEF SuppliesInv
  <1>6. InitialFunds \in Int /\ Canonical \in BOOLEAN BY CheckoutFundsAssumption
  <1>7. CASE ~Uses(r, "wallet")
    <2>1. fund' = fund BY <1>7 DEF TakeEverything
    <2>2. tally'.spent = tally.spent BY <1>3, <1>4, <1>7
    <2> QED BY <1>4, <1>5, <2>1, <2>2 DEF FundInv, Purse
  <1>8. CASE Uses(r, "wallet") /\ Canonical
    <2>1. /\ fund'.row = TRUE /\ fund'.user = fund.user - 1
          /\ fund'.wallet = (IF Seed THEN fund.user ELSE fund.wallet) - 1
      BY <1>8 DEF TakeEverything, PayFromWallet
    <2>2. tally'.spent = tally.spent + 1 BY <1>4, <1>8
    <2>3. Balance >= 1 BY <1>8 DEF SnapshotHolds
    <2>4. /\ Purse = fund.user + tally.lag /\ fund.wallet >= 0
          /\ ~fund.row => ~fund.seeded /\ fund.wallet = 0
      BY <1>5, <1>8 DEF FundInv
    <2>5. fund'.wallet >= 0 /\ Purse' = fund'.user + tally.lag
      <3>1. CASE Seed
        <4>1. fund.user > fund.wallet BY <3>1 DEF Seed
        <4>2. fund'.wallet = fund.user - 1 BY <2>1, <3>1
        <4>3. tally.lag = 0 BY <1>3, <2>4, <4>1 DEF Purse
        <4> QED BY <1>3, <1>8, <2>1, <2>4, <4>1, <4>2, <4>3 DEF Purse
      <3>2. CASE ~Seed
        <4>1. fund'.wallet = fund.wallet - 1 BY <2>1, <3>2
        <4>2. fund.wallet >= 1 BY <1>3, <2>3, <2>4, <3>2 DEF Seed, Balance
        <4> QED BY <1>3, <1>8, <2>1, <2>4, <4>1, <4>2 DEF Purse
      <3> QED BY <3>1, <3>2
    <2>6. fund'.user = InitialFunds - tally'.lag + tally'.credited - tally'.spent
      BY <1>3, <1>4, <1>5, <1>6, <2>1, <2>2 DEF FundInv
    <2> QED BY <1>4, <2>1, <2>5, <2>6 DEF FundInv
  <1>9. CASE Uses(r, "wallet") /\ ~Canonical
    <2>1. fund' = [fund EXCEPT !.user = @ - 1]
      BY <1>9 DEF TakeEverything, PayFromWallet
    <2>2. /\ fund'.row = fund.row /\ fund'.wallet = fund.wallet /\ fund'.seeded = fund.seeded
          /\ fund'.user = fund.user - 1
      BY <1>2, <2>1 DEF Funds
    <2>3. tally'.spent = tally.spent + 1 BY <1>4, <1>9
    <2> QED BY <1>3, <1>4, <1>5, <1>6, <1>9, <2>2, <2>3 DEF FundInv
  <1> QED BY <1>7, <1>8, <1>9, CheckoutFundsAssumption

\* A refund is written to both.
LEMMA CreditFund ==
  ASSUME DbType, SuppliesInv, WalletCredited
  PROVE  FundInv'
  <1>1. /\ tally.credited \in Int /\ tally.spent \in Int /\ tally.lag \in Int
        /\ fund.wallet \in Int /\ fund.user \in Int
    BY TallyInts DEF DbType, Funds
  <1>2. FundInv BY DEF SuppliesInv
  <1> QED BY <1>1, <1>2, CreditParts, CheckoutFundsAssumption DEF FundInv, Purse

LEMMA FundsStep == HandlersInv /\ FundsInv /\ [Next]_vars => FundsInv'
  <1> SUFFICES ASSUME HandlersInv, SuppliesInv, SnapshotInv, [Next]_vars PROVE FundsInv'
    BY DEF FundsInv
  <1>0. HandlersInv' /\ Kind /\ DbType /\ DbType'
    BY HandlersStep, TypeParts DEF HandlersInv
  <1>1. CASE Quiet
    <2>1. SuppliesInv'
      BY <1>1 DEF Quiet, db, SuppliesInv, StockNeverOversold, CouponWithinLimit,
         CartOrderedOnce, FundInv, Purse
    <2> QED BY <1>1, <2>1, SnapshotQuiet DEF FundsInv
  <1>2. ASSUME NEW r \in Requests, Begin(r) PROVE FundsInv'
    <2>1. UNCHANGED <<db, req, dirty>> BY <1>2 DEF Begin
    <2>2. SuppliesInv'
      BY <2>1 DEF db, SuppliesInv, StockNeverOversold, CouponWithinLimit,
         CartOrderedOnce, FundInv, Purse
    <2>3. \A q \in Requests \ {r} : ctx'[q] = ctx[q]
      BY <1>2 DEF Begin, Abort, HandlersInv, TypeOK
    <2>4. At(r, "tx")' => SnapshotHolds(r)'
      <3>1. CASE Acceptable(r) /\ ~PlacedUnder(Key(r)) /\ stock >= FromStock(r)
        <4>1. ctx' = [ctx EXCEPT ![r].pc = "tx", ![r].docs = TxDocs(r)]
          BY <1>2, <3>1 DEF Begin
        <4>2. ctx[r] \in Handlers BY TypeParts DEF HandlersInv
        <4>3. ctx'[r].docs = TxDocs(r)
          BY <4>1, <4>2, TypeParts DEF HandlersInv, Handlers
        <4>4. "cart" \in TxDocs(r) => cart > 0
          BY CheckoutKeysAssumption DEF TxDocs
        <4>5. stock >= FromStock(r) /\ stock' >= FromStock(r)'
          BY <2>1, <3>1 DEF db, FromStock, Quantity, Uses
        <4>6. Uses(r, "coupon")' => coupon' < CouponLimit
          BY <2>1, <3>1 DEF db, Acceptable, Uses
        <4>7. Uses(r, "wallet")' => Balance' >= 1
          BY <2>1, <3>1 DEF db, Acceptable, Uses, Balance
        <4> QED BY <2>1, <4>3, <4>4, <4>5, <4>6, <4>7 DEF SnapshotHolds, db
      <3>2. CASE ~(Acceptable(r) /\ ~PlacedUnder(Key(r)) /\ stock >= FromStock(r))
        <4>1. PICK cause \in Causes : Abort(r, "fail", cause)
          BY <1>2, <3>2 DEF Begin, Causes
        <4>2. PICK h \in Handlers : Becomes(r, h) /\ h.pc = "fail"
          BY <4>1, AbortBecomes, LabelValues
        <4> QED BY <4>2 DEF Becomes, At, HandlersInv, TypeOK
      <3> QED BY <3>1, <3>2
    <2>5. ASSUME NEW q \in Requests \ {r}, At(q, "tx")', q \notin dirty' PROVE SnapshotHolds(q)'
      <3>1. SnapshotHolds(q) /\ ctx'[q] = ctx[q]
        BY <2>1, <2>3, <2>5 DEF SnapshotInv, At
      <3> QED BY <2>1, <3>1 DEF SnapshotHolds, db, FromStock, Quantity, Uses, Balance
    <2> QED BY <2>2, <2>4, <2>5 DEF FundsInv, SnapshotInv
  <1>3. ASSUME NEW r \in Requests, Commit(r) PROVE FundsInv'
    <2>1. At(r, "tx") /\ TakeEverything(r) /\ UNCHANGED req /\ Touch(ctx[r].docs)
      BY <1>3 DEF Commit
    <2>2. SnapshotHolds(r) BY <1>3 DEF Commit, SnapshotInv
    <2>3. SuppliesInv' BY <2>1, <2>2, CommitSupplies, CommitFund DEF SuppliesInv
    <2>4. WritesWhatItTakes(r) BY <2>1 DEF HandlersInv, HandlerOK
    <2>5. PICK h \in Handlers : Becomes(r, h) /\ h.pc \in {"store", "done"}
      BY <1>3, ReportBecomes DEF Commit, Told
    <2>6. /\ "stock" \in ctx[r].docs \/ UNCHANGED stock
          /\ "cart" \in ctx[r].docs \/ UNCHANGED cart
          /\ "coupon" \in ctx[r].docs \/ UNCHANGED coupon
          /\ "user" \in ctx[r].docs \/ UNCHANGED fund
      BY <1>0, <2>1, <2>4
      DEF TakeEverything, WritesWhatItTakes, FromStock, CartAfter, CouponAfter, DbType
    <2>7. ASSUME NEW q \in Requests, At(q, "tx")', q \notin dirty' PROVE SnapshotHolds(q)'
      <3>1. ctx'[q] = ctx[q]
        BY <2>5, <2>7 DEF Becomes, At, HandlersInv, TypeOK
      <3>2. stock' >= 0 BY <2>3 DEF SuppliesInv, StockNeverOversold
      <3> QED BY <2>1, <2>6, <2>7, <3>1, <3>2, SnapshotKept
    <2> QED BY <2>3, <2>7 DEF FundsInv, SnapshotInv
  <1>4. CASE AddToCart
    <2>1. /\ cart' = cart + 1 /\ UNCHANGED <<stock, coupon, fund, orders, ctx, req>>
          /\ Touch({"cart"})
      BY <1>4 DEF AddToCart
    <2>2. /\ tally'.added = tally.added + 1 /\ tally'.carted = tally.carted
          /\ tally'.sold = tally.sold /\ tally'.restocked = tally.restocked
          /\ tally'.redeemed = tally.redeemed /\ tally'.lag = tally.lag
          /\ tally'.credited = tally.credited /\ tally'.spent = tally.spent
      BY <1>0, <1>4 DEF AddToCart, DbType, Tallies
    <2>3. tally \in Tallies /\ cart \in Int BY <1>0 DEF DbType
    <2>4. CartOrderedOnce'
      BY <2>1, <2>2, <2>3, TallyInts DEF SuppliesInv, CartOrderedOnce
    <2>5. SuppliesInv'
      BY <2>1, <2>2, <2>4 DEF SuppliesInv, StockNeverOversold, CouponWithinLimit, FundInv, Purse
    <2>6. stock' >= 0 BY <2>5 DEF SuppliesInv, StockNeverOversold
    <2>7. ASSUME NEW q \in Requests, At(q, "tx")', q \notin dirty' PROVE SnapshotHolds(q)'
      BY <2>1, <2>6, <2>7, SnapshotKept
    <2> QED BY <2>5, <2>7 DEF FundsInv, SnapshotInv
  <1>5. CASE WalletCredited
    <2>1. UNCHANGED <<stock, cart, coupon, orders, ctx, req>> /\ Touch({"wallet", "user"})
      BY <1>5 DEF WalletCredited
    <2>3. FundInv' BY <1>0, <1>5, CreditFund
    <2>4. SuppliesInv'
      BY <1>0, <1>5, <2>1, <2>3, CreditParts
      DEF SuppliesInv, StockNeverOversold, CouponWithinLimit, CartOrderedOnce
    <2>5. stock' >= 0 BY <2>4 DEF SuppliesInv, StockNeverOversold
    <2>6. ASSUME NEW q \in Requests, At(q, "tx")', q \notin dirty' PROVE SnapshotHolds(q)'
      BY <2>1, <2>5, <2>6, SnapshotKept
    <2> QED BY <2>4, <2>6 DEF FundsInv, SnapshotInv
  <1>6. ASSUME NEW o \in orders, RestockCancelled(o) PROVE FundsInv'
    <2> DEFINE n == [o EXCEPT !.cancelled = TRUE]
    <2>1. /\ orders' = (orders \ {o}) \cup {n} /\ stock' = stock + o.qty
          /\ UNCHANGED <<cart, coupon, fund, ctx, req>> /\ Touch({"stock"})
      BY <1>6 DEF RestockCancelled
    <2>2. o \in Orders /\ tally \in Tallies /\ stock \in Int BY <1>0 DEF DbType
    <2>3. n.qty = o.qty /\ o.qty \in Int /\ o.qty >= 0
      BY <2>2 DEF Orders, SuppliesInv
    <2> HIDE DEF n
    <2>4. /\ tally'.restocked = tally.restocked + o.qty /\ tally'.sold = tally.sold
          /\ tally'.added = tally.added /\ tally'.carted = tally.carted
          /\ tally'.redeemed = tally.redeemed /\ tally'.lag = tally.lag
          /\ tally'.credited = tally.credited /\ tally'.spent = tally.spent
      BY <1>6, <2>2 DEF RestockCancelled, Tallies
    <2>5. StockNeverOversold'
      <3>1. tally.sold \in Int /\ tally.restocked \in Int BY <2>2, TallyInts
      <3>2. stock >= 0 /\ stock = InitialStock - tally.sold + tally.restocked
        BY DEF SuppliesInv, StockNeverOversold
      <3>3. InitialStock \in Int BY CheckoutFundsAssumption
      <3> QED BY <2>1, <2>2, <2>3, <2>4, <3>1, <3>2, <3>3 DEF StockNeverOversold
    <2>6. SuppliesInv'
      BY <2>1, <2>3, <2>4, <2>5
      DEF SuppliesInv, CouponWithinLimit, CartOrderedOnce, FundInv, Purse
    <2>7. stock' >= 0 BY <2>5 DEF StockNeverOversold
    <2>8. ASSUME NEW q \in Requests, At(q, "tx")', q \notin dirty' PROVE SnapshotHolds(q)'
      BY <2>1, <2>7, <2>8, SnapshotKept
    <2> QED BY <2>6, <2>8 DEF FundsInv, SnapshotInv
  <1> QED BY <1>0, <1>1, <1>2, <1>3, <1>4, <1>5, <1>6 DEF Kind

LEMMA FundsInit == Init => FundsInv
  <1> SUFFICES ASSUME Init PROVE FundsInv
    OBVIOUS
  <1>1. /\ tally.sold = 0 /\ tally.restocked = 0 /\ tally.spent = 0 /\ tally.credited = 0
        /\ tally.redeemed = 0 /\ tally.added = 0 /\ tally.carted = 0
    BY DEF Init
  <1>2. StockNeverOversold /\ CouponWithinLimit /\ CartOrderedOnce /\ orders = {}
    BY <1>1, CheckoutFundsAssumption
    DEF Init, StockNeverOversold, CouponWithinLimit, CartOrderedOnce
  <1>4. FundInv
    BY <1>1, LedgerOfInit, CheckoutFundsAssumption DEF FundInv, Purse
  <1>5. SnapshotInv
    BY FreshType DEF Init, SnapshotInv, At
  <1> QED BY <1>2, <1>4, <1>5 DEF FundsInv, SuppliesInv

LEMMA SafeFunds == Spec => [](HandlersInv /\ FundsInv)
  <1>1. Init => HandlersInv /\ FundsInv BY HandlersInit, FundsInit
  <1>2. HandlersInv /\ FundsInv /\ [Next]_vars => (HandlersInv /\ FundsInv)'
    BY HandlersStep, FundsStep
  <1> QED BY <1>1, <1>2, PTL DEF Spec

\* Concurrent orders oversell neither the stock nor the coupon nor the cart
\* (placeOrderAtomic), whichever ledger pays for them.
SuppliesSuffice == StockNeverOversold /\ CouponWithinLimit /\ CartOrderedOnce

THEOREM SuppliesSufficeCorrect == Spec => []SuppliesSuffice
  <1>1. FundsInv => SuppliesSuffice BY DEF FundsInv, SuppliesInv, SuppliesSuffice
  <1> QED BY <1>1, SafeFunds, PTL

\* With WALLET_REDEMPTION_REDUCES_PAYABLE on, they overdraw the wallet as little:
\* the ledger that the check reads is never below zero, however the two records
\* differed at the start, and User.walletBalance stays behind by just that much.
\* With the switch off, which is its default, the debit writes only
\* User.walletBalance, which the check does not read of a customer who has a Wallet
\* row, so that nothing stops him from paying twice with the same money.
THEOREM NothingOverdrawnCorrect == Spec => [](Canonical => NothingOverdrawn)
  <1>1. HandlersInv /\ FundsInv => (Canonical => NothingOverdrawn)
    <2> SUFFICES ASSUME HandlersInv, FundsInv, Canonical PROVE NothingOverdrawn
      OBVIOUS
    <2>1. fund.wallet \in Int /\ fund.user \in Int
      BY TypeParts DEF HandlersInv, DbType, Funds
    <2>2. FundInv BY DEF FundsInv, SuppliesInv
    <2>3. Purse \in Int /\ tally.lag \in Int /\ tally.credited \in Int /\ tally.spent \in Int
      BY <2>1, TypeParts, TallyInts DEF HandlersInv, DbType, Purse
    <2>4. WalletCoversOrders
      BY <2>1, <2>2, <2>3, CheckoutFundsAssumption DEF FundInv, WalletCoversOrders, Balance
    <2> QED BY <2>4 DEF FundsInv, SuppliesInv, NothingOverdrawn
  <1> QED BY <1>1, SafeFunds, PTL

-----------------------------------------------------------------------------
(* Placement is atomic.  A transaction that is not dirty could have begun   *)
(* when it commits: its snapshot still holds (level three) and its key is   *)
(* still free (level two).                                                  *)

\* Only storeIdempotencyResult writes a result.
LEMMA ResultWriters ==
  ASSUME [Next]_vars
  PROVE  UNCHANGED result \/ \E r \in Requests : StoreResult(r)
  <1>1. ASSUME NEW r \in Requests, Submit(r) \/ Retry(r) \/ TxFails(r) \/ Dies(r)
        PROVE  UNCHANGED result
    BY <1>1 DEF Submit, Retry, TxFails, Dies, redis
  <1>2. ASSUME NEW r \in Requests, Handler(r), ~StoreResult(r) PROVE UNCHANGED result
    BY <1>2
    DEF Handler, Check, Lock, FindExisting, Begin, Commit, WriteConflict, Unlock, StoreError,
        UnlockFailed, Release, FindDuplicate, redis
  <1>3. CASE (\E k \in Keys : LockExpires(k)) \/ AddToCart \/ WalletCredited
             \/ \E o \in orders : RestockCancelled(o)
    BY <1>3 DEF LockExpires, AddToCart, WalletCredited, RestockCancelled, redis
  <1>4. CASE UNCHANGED vars
    BY <1>4 DEF vars, redis
  <1> QED BY <1>1, <1>2, <1>3, <1>4 DEF Next

\* What is not ordered and not confirmed does not show.
LEMMA NothingShows ==
  ASSUME UNCHANGED <<db, result>>
  PROVE  UNCHANGED Atomic!vars
  BY DEF db, Atomic!vars, Purse

LEMMA StoreImplements ==
  ASSUME HandlersInv, KeyInv, NEW r \in Requests, StoreResult(r)
  PROVE  Atomic!Next
  <1>1. Keyed(r) /\ ctx[r].reply \in Told
    BY DEF HandlersInv, HandlerOK, StoreResult, At, KeyedLabels
  <1>2. Key(r) \in Keys BY <1>1, KeyType
  <1>3. \E o \in orders : o.key = Key(r)
    BY <1>1 DEF KeyInv, OneOrderPerKey, Told, PlacedUnder
  <1>4. result' = result \cup {Key(r)} /\ UNCHANGED db
    BY DEF StoreResult, Local
  <1>5. Atomic!Confirm(Key(r))
    BY <1>3, <1>4 DEF Atomic!Confirm, db, Purse
  <1> QED BY <1>2, <1>5 DEF Atomic!Next

LEMMA CommitImplements ==
  ASSUME HandlersInv, KeyInv, FundsInv, NEW r \in Requests, Commit(r)
  PROVE  Atomic!Next
  <1> DEFINE wants == req[r].uses
  <1>0. /\ DbType /\ WritesWhatItTakes(r)
        /\ TakeEverything(r) /\ UNCHANGED result
    BY TypeParts DEF HandlersInv, HandlerOK, Commit, redis
  <1>1. SnapshotHolds(r) /\ ~PlacedUnder(Key(r))
    BY DEF Commit, FundsInv, SnapshotInv, KeyInv
  <1>2. Key(r) \in Keys \cup {NoKey} /\ wants \in Wants
    BY KeyType, TypeParts DEF HandlersInv, Inputs
  <1>3. \A x : Uses(r, x) <=> x \in wants
    BY DEF Uses
  <1>4. Atomic!Asked(wants) = Quantity(r) /\ Atomic!Taken(wants) = FromStock(r)
    BY <1>3 DEF Atomic!Asked, Atomic!Taken, Quantity, FromStock
  <1>5. /\ stock \in Int /\ cart \in Int /\ coupon \in Nat
        /\ fund \in Funds /\ tally \in Tallies
        /\ Quantity(r) \in Int /\ FromStock(r) \in Int
    BY <1>0, QuantityType DEF DbType
  <1>6. \A o \in orders : Key(r) # NoKey => o.key # Key(r)
    BY <1>1 DEF PlacedUnder
  <1>7. "cart" \in wants => cart > 0
    BY <1>0, <1>1, <1>3 DEF SnapshotHolds, WritesWhatItTakes
  <1>8. FromStock(r) <= stock /\ stock' = stock - FromStock(r)
    BY <1>0, <1>1, <1>5 DEF SnapshotHolds, TakeEverything
  <1>9. Atomic!TakeFromBasket(wants)
    <2>1. cart' = CartAfter(r) BY <1>0 DEF TakeEverything
    <2>2. CASE "cart" \in ctx[r].docs
      <3>1. cart > 0 /\ cart' = cart - Quantity(r)
        BY <1>1, <2>1, <2>2 DEF SnapshotHolds, CartAfter
      <3>2. cart >= Quantity(r)
        BY <1>5, <3>1 DEF Quantity
      <3> QED BY <1>4, <3>1, <3>2 DEF Atomic!TakeFromBasket
    <2>3. CASE "cart" \notin ctx[r].docs
      <3>1. "cart" \notin wants /\ cart' = cart
        BY <1>0, <1>3, <2>1, <2>3 DEF WritesWhatItTakes, CartAfter
      <3> QED BY <3>1 DEF Atomic!TakeFromBasket
    <2> QED BY <2>2, <2>3
  <1>10. IF "coupon" \in wants THEN coupon < CouponLimit /\ coupon' = coupon + 1
                               ELSE UNCHANGED coupon
    BY <1>0, <1>1, <1>3 DEF SnapshotHolds, TakeEverything, CouponAfter
  <1>11. IF "wallet" \in wants THEN (Canonical => Purse >= 1) /\ Purse' = Purse - 1
                               ELSE Purse' = Purse
    <2>1. CASE "wallet" \in wants
      <3>1. fund' = PayFromWallet BY <1>0, <1>3, <2>1 DEF TakeEverything
      <3>2. fund'.user = fund.user - 1
        BY <1>5, <3>1, CheckoutFundsAssumption DEF PayFromWallet, Funds
      <3>3. ASSUME Canonical PROVE Purse >= 1 /\ Purse' = Purse - 1
        <4>1. Balance >= 1 BY <1>1, <1>3, <2>1, <3>3 DEF SnapshotHolds
        <4>2. FundInv /\ FundInv' BY <1>0, <1>1, CommitFund DEF FundsInv, SuppliesInv
        <4>3. tally'.lag = tally.lag /\ tally.lag \in Int BY <1>0, <1>5, TallyOfOrder, TallyInts
        <4>4. fund.wallet \in Int /\ fund.user \in Int BY <1>5 DEF Funds
        <4>5. Purse >= 1 BY <3>3, <4>1, <4>4 DEF Balance, Purse
        <4> QED BY <3>2, <3>3, <4>2, <4>3, <4>4, <4>5 DEF FundInv
      <3>4. ASSUME ~Canonical PROVE Purse' = Purse - 1 BY <3>2, <3>4 DEF Purse
      <3> QED BY <2>1, <3>3, <3>4
    <2>2. CASE "wallet" \notin wants
      BY <1>0, <1>3, <2>2 DEF TakeEverything, Purse
    <2> QED BY <2>1, <2>2
  <1>12. orders' = orders \cup {[no |-> tally.orders, key |-> Key(r), qty |-> FromStock(r),
                                 cancelled |-> FALSE]}
    BY <1>0 DEF TakeEverything, Placement
  <1>13. tally'.orders = tally.orders + 1
    BY <1>0, TallyOfOrder
  <1> HIDE DEF wants
  <1>14. Atomic!Place(Key(r), wants)
    BY <1>0, <1>4, <1>6, <1>7, <1>8, <1>9, <1>10, <1>11, <1>12, <1>13 DEF Atomic!Place
  <1> QED BY <1>2, <1>14 DEF Atomic!Next

LEMMA OthersImplement ==
  ASSUME HandlersInv,
         AddToCart \/ WalletCredited \/ \E o \in orders : RestockCancelled(o)
  PROVE  Atomic!Next
  <1>1. DbType /\ tally \in Tallies /\ fund \in Funds
    BY TypeParts DEF HandlersInv, DbType
  <1>2. CASE AddToCart
    <2>1. /\ cart' = cart + 1 /\ UNCHANGED <<stock, coupon, orders, fund, result>>
          /\ tally'.orders = tally.orders
      BY <1>1, <1>2 DEF AddToCart, Tallies, redis
    <2>2. Atomic!Fill BY <2>1 DEF Atomic!Fill, Purse
    <2> QED BY <2>2 DEF Atomic!Next
  <1>3. CASE WalletCredited
    <2>1. /\ UNCHANGED <<stock, cart, coupon, orders, result>>
          /\ tally'.orders = tally.orders
      BY <1>1, <1>3 DEF WalletCredited, Tallies, redis
    <2>2. Purse' = Purse + 1
      <3>1. fund.wallet \in Int /\ fund.user \in Int BY <1>1 DEF Funds
      <3> QED BY <1>1, <1>3, <3>1, CreditParts DEF Purse
    <2>3. Atomic!Refund BY <2>1, <2>2 DEF Atomic!Refund
    <2> QED BY <2>3 DEF Atomic!Next
  <1>4. ASSUME NEW o \in orders, RestockCancelled(o) PROVE Atomic!Next
    <2>1. /\ ~o.cancelled /\ stock' = stock + o.qty
          /\ orders' = (orders \ {o}) \cup {[o EXCEPT !.cancelled = TRUE]}
          /\ UNCHANGED <<cart, coupon, fund, result>>
      BY <1>4 DEF RestockCancelled, redis
    <2>2. tally'.orders = tally.orders
      <3>1. tally' = [tally EXCEPT !.restocked = @ + o.qty] BY <1>4 DEF RestockCancelled
      <3> QED BY <1>1, <3>1 DEF Tallies
    <2>3. Atomic!Cancel(o) BY <2>1, <2>2 DEF Atomic!Cancel, Purse
    <2> QED BY <2>3 DEF Atomic!Next
  <1> QED BY <1>2, <1>3, <1>4

LEMMA StepImplements ==
  ASSUME HandlersInv, KeyInv, FundsInv, [Next]_vars
  PROVE  [Atomic!Next]_Atomic!vars
  <1>1. Kind BY HandlersStep
  <1>2. CASE \E r \in Requests : StoreResult(r)
    BY <1>2, StoreImplements
  <1>3. CASE \E r \in Requests : Commit(r)
    BY <1>3, CommitImplements
  <1>4. CASE AddToCart \/ WalletCredited \/ \E o \in orders : RestockCancelled(o)
    BY <1>4, OthersImplement
  <1>5. CASE UNCHANGED result /\ (Quiet \/ \E r \in Requests : Begin(r))
    <2>1. UNCHANGED db BY <1>5 DEF Quiet, Begin
    <2> QED BY <1>5, <2>1, NothingShows
  <1> QED BY <1>1, <1>2, <1>3, <1>4, <1>5, ResultWriters DEF Kind

\* Every behaviour of checkout, however its requests, retries, conflicts, expiring
\* locks and crashes interleave, shows to the shop and its customer what placing
\* each order in a single step could have shown (placeOrderAtomic).
THEOREM CheckoutIsAtomic == Spec => ImplementsAtomicCheckout
  <1>1. Init => Atomic!Init
    <2> SUFFICES ASSUME Init PROVE Atomic!Init
      OBVIOUS
    <2>1. /\ fund.wallet \in 0..InitialFunds /\ fund.user \in 0..InitialFunds
          /\ InitialFunds = fund.wallet \/ InitialFunds = fund.user
      BY LedgerOfInit
    <2>2. Purse \in 0..InitialFunds /\ (Canonical => Purse = InitialFunds)
      BY <2>1, CheckoutFundsAssumption DEF Purse
    <2> QED BY <2>2 DEF Init, Atomic!Init
  <1>2. HandlersInv /\ KeyInv /\ FundsInv /\ [Next]_vars => [Atomic!Next]_Atomic!vars
    BY StepImplements
  <1> QED BY <1>1, <1>2, SafeKeys, SafeFunds, PTL
       DEF Spec, ImplementsAtomicCheckout, Atomic!Spec
=============================================================================
