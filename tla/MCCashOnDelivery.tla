--------------------------- MODULE MCCashOnDelivery ---------------------------
(* Model checking of CashOnDelivery: the handlers are interchangeable, and so are *)
(* the riders.                                                                    *)
EXTENDS CashOnDelivery, TLC

CashSymmetry == Permutations(Contexts) \cup Permutations(Riders)
=============================================================================
