--------------------------- MODULE OrderLifecycle ---------------------------
(***************************************************************************)
(* What the order engine promises about one order, with no databases, no   *)
(* timers and no processes: an order is offered to its seller, prepared,   *)
(* offered to riders, carried by one rider and delivered, or it is         *)
(* cancelled at a point where cancelling is allowed.  The goods go back on *)
(* the shelf at most once and only for a cancelled order; the money of the *)
(* customer is taken at most once and given back at most once.             *)
(* OrderWorkflow is shown to implement this specification.                 *)
(***************************************************************************)
EXTENDS Naturals

CONSTANTS Riders,   \* the delivery partners
          NoRider   \* "no delivery partner yet"

VARIABLES phase,       \* where the order stands
          carrier,     \* the rider carrying it
          goodsBack,   \* how often its goods were put back on the shelf
          moneyTaken,  \* whether the gateway captured the payment
          moneyBack    \* how often that payment was given back

vars == <<phase, carrier, goodsBack, moneyTaken, moneyBack>>

Phases == {"unpaid", "offered", "preparing", "searching", "carried",
           "delivered", "cancelled"}

\* Riders decline, payments fail and sellers time out only in these phases.
Cancellable == {"unpaid", "offered", "searching"}

Init == /\ phase \in {"unpaid", "offered"}
        /\ carrier = NoRider
        /\ goodsBack = 0
        /\ moneyTaken = FALSE
        /\ moneyBack = 0

-----------------------------------------------------------------------------
Advance(from, to) ==
    /\ phase = from
    /\ phase' = to
    /\ UNCHANGED <<carrier, goodsBack, moneyTaken, moneyBack>>

Offer   == moneyTaken /\ Advance("unpaid", "offered")
Prepare == Advance("offered", "preparing")
Search  == Advance("preparing", "searching")
Deliver == Advance("carried", "delivered")
Cancel  == \E from \in Cancellable : Advance(from, "cancelled")

Assign(r) ==
    /\ phase = "searching"
    /\ phase' = "carried"
    /\ carrier' = r
    /\ UNCHANGED <<goodsBack, moneyTaken, moneyBack>>

\* A failed payment voids the order: cancelled and restocked in one step.
Void ==
    /\ phase = "unpaid"
    /\ phase' = "cancelled"
    /\ goodsBack' = goodsBack + 1
    /\ UNCHANGED <<carrier, moneyTaken, moneyBack>>

ReturnGoods ==
    /\ phase = "cancelled"
    /\ goodsBack = 0
    /\ goodsBack' = 1
    /\ UNCHANGED <<phase, carrier, moneyTaken, moneyBack>>

\* The gateway's answer may arrive in any phase.
TakeMoney ==
    /\ ~moneyTaken
    /\ moneyTaken' = TRUE
    /\ UNCHANGED <<phase, carrier, goodsBack, moneyBack>>

ReturnMoney ==
    /\ phase = "cancelled"
    /\ moneyTaken
    /\ moneyBack = 0
    /\ moneyBack' = 1
    /\ UNCHANGED <<phase, carrier, goodsBack, moneyTaken>>

Next ==
    \/ Offer \/ Prepare \/ Search \/ Deliver \/ Cancel \/ Void
    \/ \E r \in Riders : Assign(r)
    \/ ReturnGoods \/ TakeMoney \/ ReturnMoney

Spec == Init /\ [][Next]_vars
=============================================================================
