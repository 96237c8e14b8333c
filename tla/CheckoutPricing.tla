---------------------------- MODULE CheckoutPricing ----------------------------
(***************************************************************************)
(* buildCheckoutPricingSnapshot: the money of one checkout, from the cart  *)
(* to what each seller's order says the customer pays, the seller and the  *)
(* rider receive and the platform keeps.  Amounts are whole paise.         *)
(*                                                                         *)
(* The breakdowns are records that six passes rewrite in turn, each pass a *)
(* loop over the sellers: pricing line by line, the checkout's handling    *)
(* fee, the rebate of a free-delivery coupon, the tip, the wallet, and the *)
(* payable amount.  A loop whose iterations depend on each other has one   *)
(* step per iteration.  What it reads does not change meanwhile: products  *)
(* and categories are read in one placement transaction; the settings are  *)
(* read anew, outside it, for each seller, and taken to be the same.       *)
(*                                                                         *)
(* A share of an amount is the amount times a floating-point ratio, then   *)
(* toFixed(2): the nearest paisa, and either of the two on a tie.          *)
(*                                                                         *)
(* Operators named <definition>_<fault> are variants of the definition that *)
(* follows them with a plausible bug; no specification uses them.          *)
(***************************************************************************)
EXTENDS Integers, Sequences, FiniteSets, Functions

CONSTANTS
    Category,      \* header categories
    NoCoupon,      \* no coupon code in the request
    Radius,        \* seller.serviceRadius, in metres
    Requests,      \* the checkouts to price
    RuleSets,      \* the categories' commission and handling rules to try
    SettingSets    \* the finance settings and flags to try

Line == [category : Category, price : Nat, quantity : Nat \ {0}, onSale : BOOLEAN]

\* usable: active, within its dates and below its usage limits, for this customer.
\* A most of 0 is no maxDiscount; no categories is no restriction.
Coupon == [kind : {"percentage", "fixed", "free_delivery"}, value : Nat, most : Nat,
           leastOrder : Nat, leastItems : Nat, categories : SUBSET Category, usable : BOOLEAN]

\* cart[s]: the lines of the s-th seller in the order of the sellers' ids.
\* discount is what the client says; distance[s] is 0 without a location.
Request == [cart : Seq(Seq(Line) \ {<<>>}) \ {<<>>}, distance : Seq(Nat), discount : Nat,
            coupon : Coupon \cup {NoCoupon}, tip : Nat, wallet : Nat]

\* The legacy fields are read where the new ones are 0.  A product without a
\* category has the rule that asks for nothing.
Rule == [commissionKind : {"percentage", "per_item", "per_qty"}, commission : Nat,
         legacyCommission : Nat,
         feeKind : {"none", "fixed", "percentage"}, fee : Nat, legacyFee : Nat]

\* couponEngine and walletReduces are SERVER_SIDE_COUPON_ENGINE and
\* WALLET_REDEMPTION_REDUCES_PAYABLE; capacity is in metres.
Settings == [mode : {"fixed_price", "distance_based"}, fixedFee : Nat, baseFee : Nat,
             capacity : Nat, surcharge : Nat, riderBase : Nat, riderPerKm : Nat,
             strategy : {"highest_category_fee", "sum_of_category_fees", "max_single_fee",
                         "per_item_fee"},
             couponEngine : BOOLEAN, walletReduces : BOOLEAN]

ASSUME PricingAssumption ==
    /\ \A r \in Requests : r \in Request /\ Len(r.distance) = Len(r.cart)
    /\ RuleSets \subseteq [Category -> Rule]
    /\ SettingSets \subseteq Settings
    /\ Radius \in Nat

VARIABLES
    request, rules, settings,
    pc,          \* the pass that runs
    at,          \* the seller its loop is at
    rest,        \* that seller's lines not yet priced
    discount,    \* effectiveDiscount
    rebate,      \* applyFreeDelivery
    base, given, \* totalBase and allocatedSoFar of the running allocation
    quote        \* sellerBreakdownEntries[s].breakdown

vars == <<request, rules, settings, pc, at, rest, discount, rebate, base, given, quote>>
inputs == <<request, rules, settings>>

-----------------------------------------------------------------------------
\* The whole numbers nearest to n / d.
Nearest(n, d) ==
    {q \in {n \div d, n \div d + 1} : 2 * n - d <= 2 * q * d /\ 2 * q * d <= 2 * n + d}

\* percentOf: Math.round takes a half up.
PercentOf(amount, rate) == (2 * amount * rate + 100) \div 200

Least(a, b)    == IF a <= b THEN a ELSE b
CeilKm(metres) == IF metres <= 0 THEN 0 ELSE (metres + 999) \div 1000

Seller     == DOMAIN request.cart
LastSeller == Len(request.cart)

LineTotal(line)      == line.price * line.quantity
SumOver(lines, F(_)) == SumFunction([i \in DOMAIN lines |-> F(lines[i])])
Subtotal(s)          == SumOver(request.cart[s], LineTotal)
CartSubtotal         == SumFunction([s \in Seller |-> Subtotal(s)])
ItemCount            == SumFunction([s \in Seller |->
                            SumOver(request.cart[s], LAMBDA line : line.quantity)])
CategoriesOf(s)      == {request.cart[s][i].category : i \in DOMAIN request.cart[s]}
Bought               == UNION {CategoriesOf(s) : s \in Seller}

\* What a line contributes to a category's subtotal.
Spend(s, c) == SumOver(request.cart[s],
                       LAMBDA line : IF line.category = c THEN LineTotal(line) ELSE 0)
CartSpend(c) == SumFunction([s \in Seller |-> Spend(s, c)])
Total(field) == SumFunction([s \in Seller |-> quote[s][field]])

-----------------------------------------------------------------------------
OrLegacy(value, legacy) == IF value = 0 THEN legacy ELSE value

\* calculateCategoryCommission, clamped to the line.
Commission(line) ==
    LET rule  == rules[line.category]
        value == OrLegacy(rule.commission, rule.legacyCommission)
        asked == IF rule.commissionKind = "percentage" THEN PercentOf(LineTotal(line), value)
                 ELSE IF rule.commissionKind = "per_item" THEN value
                 ELSE value * line.quantity
    IN Least(asked, LineTotal(line))

\* calculateHandlingForCategory
FeeOn(c, spend) ==
    LET rule == rules[c]
        value == OrLegacy(rule.fee, rule.legacyFee)
    IN CASE rule.feeKind = "none"       -> 0
         [] rule.feeKind = "percentage" -> PercentOf(spend, value)
         [] rule.feeKind = "fixed"      -> value

LineFee(line) ==
    LET rule == rules[line.category]
    IN IF rule.feeKind = "fixed"
       THEN OrLegacy(rule.fee, rule.legacyFee) * line.quantity
       ELSE FeeOn(line.category, LineTotal(line))

\* The categories whose fee, on what spend(c) is, no other category's exceeds.
Dearest(categories, SpendOn(_)) ==
    {c \in categories : \A d \in categories : FeeOn(d, SpendOn(d)) <= FeeOn(c, SpendOn(c))}

\* calculateHandlingFee for one seller's items, by the configured strategy.
SellerHandling(s) ==
    CASE settings.strategy = "sum_of_category_fees" ->
            {SumFunction([c \in CategoriesOf(s) |-> FeeOn(c, Spend(s, c))])}
      [] settings.strategy = "per_item_fee" -> {SumOver(request.cart[s], LineFee)}
      [] OTHER -> {FeeOn(c, Spend(s, c)) : c \in Dearest(CategoriesOf(s), LAMBDA d : Spend(s, d))}

ExtraKm(s) == CeilKm(request.distance[s] - settings.capacity)

CustomerDeliveryFee(s) ==
    IF settings.mode = "fixed_price" THEN settings.fixedFee
    ELSE settings.baseFee + ExtraKm(s) * settings.surcharge

RiderPayout(s) ==
    IF settings.mode = "fixed_price" THEN settings.riderBase
    ELSE settings.riderBase + ExtraKm(s) * settings.riderPerKm

-----------------------------------------------------------------------------
\* computeOrderDiscount
EngineApplies == settings.couponEngine /\ request.coupon # NoCoupon

Eligible(coupon) ==
    /\ coupon.usable
    /\ CartSubtotal >= coupon.leastOrder
    /\ ItemCount >= coupon.leastItems
    /\ coupon.categories = {} \/ coupon.categories \cap Bought # {}

CouponAmounts_Uncapped(coupon) ==
    LET asked == CASE coupon.kind = "free_delivery" -> {0}
                   [] coupon.kind = "fixed"         -> {coupon.value}
                   [] coupon.kind = "percentage"    -> Nearest(CartSubtotal * coupon.value, 100)
    IN {IF coupon.most > 0 THEN Least(a, coupon.most) ELSE a : a \in asked}

CouponAmounts(coupon) ==
    LET asked == CASE coupon.kind = "free_delivery" -> {0}
                   [] coupon.kind = "fixed"         -> {coupon.value}
                   [] coupon.kind = "percentage"    -> Nearest(CartSubtotal * coupon.value, 100)
    IN {Least(IF coupon.most > 0 THEN Least(a, coupon.most) ELSE a, CartSubtotal) : a \in asked}

Grants(coupon, amount) == amount > 0 \/ coupon.kind = "free_delivery"

\* hydrateOrderItems accepts every line, and the coupon engine the coupon.
AllOnSale == \A s \in Seller : \A i \in DOMAIN request.cart[s] : request.cart[s][i].onSale

EmptyBreakdown ==
    [subtotal |-> 0, payout |-> 0, commission |-> 0, delivery |-> 0, handling |-> 0,
     discount |-> 0, tip |-> 0, wallet |-> 0, gross |-> 0, grand |-> 0, payable |-> 0,
     rider |-> 0, margin |-> 0, earning |-> 0]

Init ==
    /\ request \in Requests /\ rules \in RuleSets /\ settings \in SettingSets
    /\ pc = "hydrate" /\ at = 1 /\ rest = <<>>
    /\ discount = 0 /\ rebate = FALSE /\ base = 0 /\ given = 0
    /\ quote = [s \in Seller |-> EmptyBreakdown]

HydrateWithoutCoupon ==
    /\ pc = "hydrate" /\ AllOnSale /\ ~EngineApplies
    /\ pc' = "range" /\ discount' = request.discount
    /\ UNCHANGED <<inputs, at, rest, rebate, base, given, quote>>

HydrateWithCoupon ==
    /\ pc = "hydrate" /\ AllOnSale /\ EngineApplies /\ Eligible(request.coupon)
    /\ \E amount \in CouponAmounts(request.coupon) :
        Grants(request.coupon, amount) /\ discount' = amount
    /\ pc' = "range" /\ rebate' = (request.coupon.kind = "free_delivery")
    /\ UNCHANGED <<inputs, at, rest, base, given, quote>>

Refuse ==
    /\ pc = "hydrate"
    /\ \/ ~AllOnSale
       \/ EngineApplies /\ ~Eligible(request.coupon)
       \/ EngineApplies /\ \E amount \in CouponAmounts(request.coupon) :
                                ~Grants(request.coupon, amount)
    /\ pc' = "refused"
    /\ UNCHANGED <<inputs, at, rest, discount, rebate, base, given, quote>>

-----------------------------------------------------------------------------
\* computeDistanceKmForSeller: a seller that does not deliver there refuses.
InRange ==
    /\ pc = "range"
    /\ IF request.distance[at] <= Radius
       THEN pc' = "lines" /\ rest' = request.cart[at]
       ELSE pc' = "refused" /\ UNCHANGED rest
    /\ UNCHANGED <<inputs, at, discount, rebate, base, given, quote>>

\* One iteration of generateOrderPaymentBreakdown's loop over the items.
WithLine(b, line) ==
    [b EXCEPT !.subtotal   = @ + LineTotal(line),
              !.payout     = @ + (LineTotal(line) - Commission(line)),
              !.commission = @ + Commission(line)]

PriceLine ==
    /\ pc = "lines" /\ rest # <<>>
    /\ quote' = [quote EXCEPT ![at] = WithLine(@, Head(rest))]
    /\ rest' = Tail(rest)
    /\ UNCHANGED <<inputs, pc, at, discount, rebate, base, given>>

\* The seller's part of the discount: no seller takes the remainder.
DiscountShares(s) ==
    IF CartSubtotal > 0 THEN Nearest(discount * Subtotal(s), CartSubtotal)
    ELSE Nearest(discount, LastSeller)

Priced(b, s, share, fee) ==
    LET delivery == CustomerDeliveryFee(s)
        gross    == b.subtotal + delivery + fee - share
        margin   == delivery + fee - RiderPayout(s)
    IN [b EXCEPT !.delivery = delivery, !.handling = fee, !.discount = share,
                 !.gross = gross, !.grand = gross, !.payable = gross,
                 !.rider = RiderPayout(s), !.margin = margin,
                 !.earning = b.commission + margin]

\* The rest of generateOrderPaymentBreakdown, and on to the next seller.
PriceSeller ==
    /\ pc = "lines" /\ rest = <<>>
    /\ \E share \in DiscountShares(at), fee \in SellerHandling(at) :
        quote' = [quote EXCEPT ![at] = Priced(@, at, share, fee)]
    /\ IF at < LastSeller THEN pc' = "range" /\ at' = at + 1 ELSE pc' = "handling" /\ at' = 1
    /\ UNCHANGED <<inputs, rest, discount, rebate, base, given>>

-----------------------------------------------------------------------------
\* applyGlobalHandlingFeeToSellerBreakdowns
Recharged(b, fee) ==
    LET gross  == b.subtotal + b.delivery + fee - b.discount
        margin == b.delivery + fee - b.rider
    IN [b EXCEPT !.handling = fee, !.gross = gross, !.grand = gross, !.payable = gross,
                 !.wallet = 0, !.margin = margin, !.earning = b.commission + margin]

\* The first seller that sells the dearest category.
ChargedSellers_All(c) == {s \in Seller : c \in CategoriesOf(s)}
ChargedSellers(c) ==
    {s \in Seller : c \in CategoriesOf(s) /\ \A t \in Seller : c \in CategoriesOf(t) => s <= t}

ChargeHandling ==
    /\ pc = "handling"
    /\ \E c \in Dearest(Bought, CartSpend) :
        LET fee == FeeOn(c, CartSpend(c))
        IN quote' = IF fee = 0 THEN quote
                    ELSE [s \in Seller |->
                            Recharged(quote[s], IF s \in ChargedSellers(c) THEN fee ELSE 0)]
    /\ pc' = "rebate"
    /\ UNCHANGED <<inputs, at, rest, discount, rebate, base, given>>

\* applyFreeDeliveryToSellerBreakdowns
Rebated_KeepsMargin(b) ==
    [b EXCEPT !.delivery = 0, !.gross = @ - b.delivery, !.grand = @ - b.delivery,
              !.payable = b.grand - b.delivery]
Rebated(b) ==
    LET margin == b.handling - b.rider
    IN [b EXCEPT !.delivery = 0, !.gross = @ - b.delivery, !.grand = @ - b.delivery,
                 !.payable = b.grand - b.delivery,
                 !.margin = margin, !.earning = b.commission + margin]

RebateDelivery ==
    /\ pc = "rebate"
    /\ quote' = IF rebate
                THEN [s \in Seller |-> IF quote[s].delivery <= 0 THEN quote[s]
                                       ELSE Rebated(quote[s])]
                ELSE quote
    /\ pc' = "open_tip"
    /\ UNCHANGED <<inputs, at, rest, discount, rebate, base, given>>

-----------------------------------------------------------------------------
\* The shares of an amount over the sellers by grandTotal: the last seller
\* takes what is left.
Shares_NoRemainder(amount) ==
    IF base > 0 THEN Nearest(quote[at].grand * amount, base) ELSE {0}
Shares(amount) ==
    IF at = LastSeller THEN {amount - given}
    ELSE IF base > 0 THEN Nearest(quote[at].grand * amount, base)
    ELSE {0}

\* allocateCheckoutTipToSellerBreakdowns
Tipped(b, share) ==
    [b EXCEPT !.tip = @ + share, !.rider = @ + share, !.grand = @ + share]

OpenTip ==
    /\ pc = "open_tip"
    /\ at' = 1 /\ given' = 0 /\ base' = Total("grand")
    /\ pc' = IF request.tip > 0 THEN "tip" ELSE "open_wallet"
    /\ UNCHANGED <<inputs, rest, discount, rebate, quote>>

TipSeller ==
    /\ pc = "tip"
    /\ \E share \in Shares(request.tip) :
        /\ quote' = [quote EXCEPT ![at] = Tipped(@, share)]
        /\ given' = given + share
    /\ IF at < LastSeller THEN pc' = pc /\ at' = at + 1 ELSE pc' = "open_wallet" /\ at' = 1
    /\ UNCHANGED <<inputs, rest, discount, rebate, base>>

\* applyWalletAllocationToSellerBreakdowns
CappedWallet(total) == Least(request.wallet, total)

OpenWallet ==
    /\ pc = "open_wallet"
    /\ at' = 1 /\ given' = 0 /\ base' = Total("grand")
    /\ pc' = IF settings.walletReduces /\ CappedWallet(Total("grand")) > 0
             THEN "wallet" ELSE "payable"
    /\ UNCHANGED <<inputs, rest, discount, rebate, quote>>

\* At least 0 and at most the seller's total.
Clamped(share, b) == IF Least(share, b.grand) < 0 THEN 0 ELSE Least(share, b.grand)

Redeemed(b, part) ==
    [b EXCEPT !.wallet = @ + part, !.grand = @ - part, !.payable = b.grand - part]

RedeemSeller ==
    /\ pc = "wallet"
    /\ \E share \in Shares(CappedWallet(base)) :
        /\ quote' = [quote EXCEPT ![at] = Redeemed(@, Clamped(share, @))]
        /\ given' = given + share
    /\ IF at < LastSeller THEN pc' = pc /\ at' = at + 1 ELSE pc' = "payable" /\ at' = 1
    /\ UNCHANGED <<inputs, rest, discount, rebate, base>>

\* The final consistency pass.
SetPayable ==
    /\ pc = "payable"
    /\ quote' = [s \in Seller |-> [quote[s] EXCEPT !.payable = quote[s].grand]]
    /\ pc' = "done"
    /\ UNCHANGED <<inputs, at, rest, discount, rebate, base, given>>

\* The snapshot is returned, or an error thrown.
Ended == pc \in {"done", "refused"} /\ UNCHANGED vars

Next ==
    \/ HydrateWithoutCoupon \/ HydrateWithCoupon \/ Refuse
    \/ InRange \/ PriceLine \/ PriceSeller
    \/ ChargeHandling \/ RebateDelivery
    \/ OpenTip \/ TipSeller \/ OpenWallet \/ RedeemSeller \/ SetPayable
    \/ Ended

Spec == Init /\ [][Next]_vars

-----------------------------------------------------------------------------
Breakdown ==
    [subtotal : Int, payout : Int, commission : Int, delivery : Int, handling : Int,
     discount : Int, tip : Int, wallet : Int, gross : Int, grand : Int, payable : Int,
     rider : Int, margin : Int, earning : Int]

TypeOK ==
    /\ request \in Request /\ Len(request.distance) = Len(request.cart)
    /\ rules \in [Category -> Rule] /\ settings \in Settings
    /\ pc \in {"hydrate", "range", "lines", "handling", "rebate", "open_tip", "tip",
               "open_wallet", "wallet", "payable", "done", "refused"}
    /\ at \in Seller /\ rest \in Seq(Line) /\ discount \in Nat /\ rebate \in BOOLEAN
    /\ base \in Int /\ given \in Int
    /\ quote \in [Seller -> Breakdown]

\* The sellers whose breakdown generateOrderPaymentBreakdown has returned.
Quoted(s) == pc \notin {"hydrate", "range", "lines", "refused"} \/ s < at

(* No pass loses or makes money: after every step of every pass, what the  *)
(* customer pays for a seller's order, in cash and from the wallet, with   *)
(* the discount, is what the seller, the rider and the platform get.  The  *)
(* gross amount leaves out the tip only.  This is about every function of  *)
(* checkoutPricingService.js that rewrites some of the fields.             *)
Accounted(b) ==
    /\ b.grand + b.wallet + b.discount = b.payout + b.rider + b.earning
    /\ b.gross + b.tip = b.grand + b.wallet
MoneyAccountedFor == \A s \in Seller : Quoted(s) => Accounted(quote[s])

(* A checkout pays one handling fee, the highest its categories ask for on *)
(* the whole cart, whatever the strategy charged each seller before: also  *)
(* when that fee is zero and applyGlobalHandlingFeeToSellerBreakdowns      *)
(* returns early and leaves what the sellers were charged.                 *)
HandlingChargedOnce ==
    pc \notin {"hydrate", "range", "lines", "handling", "refused"} =>
        \A c \in Dearest(Bought, CartSpend) : Total("handling") = FeeOn(c, CartSpend(c))

Deviation(a, b) == IF a < b THEN b - a ELSE a - b
Below(amount)   == IF amount < 0 THEN -amount ELSE 0

(* The sellers' parts add up to what was divided: the tip exactly; the     *)
(* discount to half a paisa per seller, as nobody takes the remainder; the *)
(* wallet money to half a paisa per seller but the last, whose part is     *)
(* clamped, and to what the rounding of the tip left the last seller's     *)
(* total below zero, which the others' parts carry; unless a client's      *)
(* discount has made a seller's total negative.                            *)
SharesAddUp ==
    pc = "done" =>
        /\ Total("tip") = request.tip
        /\ 2 * Deviation(Total("discount"), discount) <= LastSeller
        /\ settings.walletReduces /\ discount <= CartSubtotal =>
              LET offered == Least(request.wallet, Total("grand") + Total("wallet"))
                  owed    == quote[LastSeller].grand + quote[LastSeller].wallet
              IN  2 * Deviation(Total("wallet"), offered) <= LastSeller - 1 + 2 * Below(owed)

(* No order is left with a negative amount to collect, by one paisa per    *)
(* two further sellers (the last seller's tip is what the others' rounding *)
(* left): the engine's own discount, the clamps and the order of the       *)
(* passes see to it.  This fails where the client's discountTotal is used  *)
(* and is above the price of the goods: with the coupon engine off, and    *)
(* with the engine on when no coupon is named, as only a coupon makes the  *)
(* engine replace discountTotal, although the comment there says that      *)
(* customers cannot credit themselves a discount.                          *)
PayableNotNegative ==
    pc = "done" /\ (EngineApplies \/ request.discount <= CartSubtotal) =>
        \A s \in Seller : quote[s].payable >= -((LastSeller - 1) \div 2)
=============================================================================
