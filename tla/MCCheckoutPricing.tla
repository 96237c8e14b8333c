--------------------------- MODULE MCCheckoutPricing ---------------------------
(***************************************************************************)
(* Model checking of CheckoutPricing: carts of one to five sellers, with   *)
(* amounts of a few paise, where every rounding and every clamp bites.     *)
(***************************************************************************)
EXTENDS CheckoutPricing, TLC

CONSTANTS veg, seed

MCCategory == {veg, seed}

Goods(category, price, quantity) ==
    [category |-> category, price |-> price, quantity |-> quantity, onSale |-> TRUE]

Carts ==
    {<<<<Goods(veg, 10, 1)>>>>,
     <<<<Goods(veg, 3, 2), Goods(seed, 5, 1)>>, <<Goods(seed, 7, 1)>>>>,
     <<<<Goods(seed, 4, 1)>>, <<Goods(veg, 0, 1)>>>>,
     <<<<Goods(veg, 5, 1)>>, <<Goods(seed, 5, 2)>>, <<Goods(veg, 1, 1)>>>>,
     <<<<Goods(veg, 1, 1)>>, <<Goods(veg, 1, 1)>>, <<Goods(veg, 0, 1)>>, <<Goods(seed, 2, 1)>>>>,
     <<<<Goods(veg, 1, 1)>>, <<Goods(veg, 1, 1)>>, <<Goods(veg, 1, 1)>>, <<Goods(veg, 1, 1)>>,
       <<Goods(veg, 0, 1)>>>>,
     <<<<[Goods(veg, 6, 1) EXCEPT !.onSale = FALSE]>>>>}

Distances(n) == {[s \in 1..n |-> 0], [s \in 1..n |-> 1000 * s], [s \in 1..n |-> 5001]}

Percent == [kind |-> "percentage", value |-> 50, most |-> 4, leastOrder |-> 4,
            leastItems |-> 2, categories |-> {}, usable |-> TRUE]
Fixed   == [kind |-> "fixed", value |-> 30, most |-> 0, leastOrder |-> 0,
            leastItems |-> 0, categories |-> {seed}, usable |-> TRUE]
Free    == [kind |-> "free_delivery", value |-> 0, most |-> 0, leastOrder |-> 0,
            leastItems |-> 0, categories |-> {}, usable |-> TRUE]

MCRequests ==
    UNION {{[cart |-> cart, distance |-> d, discount |-> off, coupon |-> c,
             tip |-> t, wallet |-> w] :
                d \in Distances(Len(cart)), off \in {0, 5, 30},
                c \in {NoCoupon, Percent, Fixed, Free, [Free EXCEPT !.usable = FALSE]},
                t \in {0, 2, 5}, w \in {0, 1, 5, 100}} : cart \in Carts}

Charges(kind, commission, legacy, feeKind, fee, legacyFee) ==
    [commissionKind |-> kind, commission |-> commission, legacyCommission |-> legacy,
     feeKind |-> feeKind, fee |-> fee, legacyFee |-> legacyFee]

MCRuleSets ==
    {(veg :> Charges("percentage", 25, 10, "fixed", 2, 0)) @@
     (seed :> Charges("per_qty", 3, 0, "percentage", 30, 0)),
     (veg :> Charges("per_item", 0, 2, "fixed", 0, 3)) @@
     (seed :> Charges("percentage", 0, 0, "fixed", 3, 1)),
     [c \in {veg, seed} |-> Charges("percentage", 10, 0, "none", 9, 9)]}

Tariff == [mode |-> "distance_based", fixedFee |-> 3, baseFee |-> 2, capacity |-> 500,
           surcharge |-> 2, riderBase |-> 3, riderPerKm |-> 1,
           strategy |-> "highest_category_fee", couponEngine |-> TRUE, walletReduces |-> TRUE]

MCSettingSets ==
    {Tariff,
     [Tariff EXCEPT !.mode = "fixed_price", !.strategy = "sum_of_category_fees",
                    !.couponEngine = FALSE],
     [Tariff EXCEPT !.baseFee = 0, !.riderBase = 0, !.strategy = "per_item_fee",
                    !.walletReduces = FALSE]}
=============================================================================
