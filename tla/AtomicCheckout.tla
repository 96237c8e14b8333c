---------------------------- MODULE AtomicCheckout ----------------------------
(***************************************************************************)
(* What placing an order promises, with no requests, no Redis locks, no    *)
(* transactions and no faults: an order is placed in one step, which looks *)
(* at the shop and takes all that the order asks for, or nothing.  One     *)
(* order at most is placed under a key, and a key is confirmed only of an  *)
(* order that is there.  Checkout is shown to implement this specification. *)
(***************************************************************************)
EXTENDS Integers

CONSTANTS Keys, NoKey, Wants, InitialStock, InitialFunds, CouponLimit,
          Canonical     \* orders are paid with money that is in the purse

VARIABLES shelf,        \* units for sale
          basket,       \* units in the customer's cart
          redeemed,     \* uses of the coupon
          purse,        \* the customer's wallet money
          placed,       \* the orders
          number,       \* the next order's number
          confirmed     \* keys whose order is known to be there

vars == <<shelf, basket, redeemed, purse, placed, number, confirmed>>

Init ==
    /\ shelf = InitialStock /\ basket = 0 /\ redeemed = 0
    /\ purse \in 0..InitialFunds /\ (Canonical => purse = InitialFunds)
    /\ placed = {} /\ number = 0 /\ confirmed = {}

-----------------------------------------------------------------------------
Asked(wants) == IF "cart" \in wants THEN basket ELSE 1
Taken(wants) == IF "other" \in wants THEN 0 ELSE Asked(wants)

\* The cart is emptied by an order of what is in it; an order of something else
\* takes it out of the cart, or leaves a cart alone that was filled meanwhile.
TakeFromBasket(wants) ==
    \/ basket >= Asked(wants) /\ basket' = basket - Asked(wants)
    \/ "cart" \notin wants /\ basket' = basket

Place(key, wants) ==
    /\ key # NoKey => \A o \in placed : o.key # key
    /\ "cart" \in wants => basket > 0
    /\ Taken(wants) <= shelf /\ shelf' = shelf - Taken(wants)
    /\ TakeFromBasket(wants)
    /\ IF "coupon" \in wants THEN redeemed < CouponLimit /\ redeemed' = redeemed + 1
                             ELSE UNCHANGED redeemed
    /\ IF "wallet" \in wants THEN (Canonical => purse >= 1) /\ purse' = purse - 1
                             ELSE UNCHANGED purse
    /\ placed' = placed \cup
          {[no |-> number, key |-> key, qty |-> Taken(wants), cancelled |-> FALSE]}
    /\ number' = number + 1
    /\ UNCHANGED confirmed

Confirm(key) ==
    /\ \E o \in placed : o.key = key
    /\ confirmed' = confirmed \cup {key}
    /\ UNCHANGED <<shelf, basket, redeemed, purse, placed, number>>

Cancel(o) ==
    /\ ~o.cancelled
    /\ placed' = (placed \ {o}) \cup {[o EXCEPT !.cancelled = TRUE]}
    /\ shelf' = shelf + o.qty
    /\ UNCHANGED <<basket, redeemed, purse, number, confirmed>>

Fill ==
    /\ basket' = basket + 1
    /\ UNCHANGED <<shelf, redeemed, purse, placed, number, confirmed>>

Refund ==
    /\ purse' = purse + 1
    /\ UNCHANGED <<shelf, basket, redeemed, placed, number, confirmed>>

Next ==
    \/ \E key \in Keys \cup {NoKey}, wants \in Wants : Place(key, wants)
    \/ \E key \in Keys : Confirm(key)
    \/ \E o \in placed : Cancel(o)
    \/ Fill \/ Refund

Spec == Init /\ [][Next]_vars
=============================================================================
