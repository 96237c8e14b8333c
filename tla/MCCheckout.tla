------------------------------ MODULE MCCheckout ------------------------------
(***************************************************************************)
(* Checkout for TLC: the customers a run looks at.                         *)
(***************************************************************************)
EXTENDS Checkout

\* No Wallet row yet; a row that holds less than User.walletBalance; and one that
\* holds more, whose mirror is stale.
MCLedgers == {[row |-> FALSE, wallet |-> 0, user |-> InitialFunds],
              [row |-> TRUE,  wallet |-> 0, user |-> InitialFunds],
              [row |-> TRUE,  wallet |-> InitialFunds, user |-> 0]}
=============================================================================
