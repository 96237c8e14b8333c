----------------------------- MODULE ReturnMoney -----------------------------
(***************************************************************************)
(* What the return of a delivered order promises about money, with no      *)
(* documents, no riders, no handlers and no crashes.  The seller's share is *)
(* granted once and paid out once.  The customer is refunded once, of a    *)
(* return he asked for, and the refund takes from the seller either the    *)
(* share that is still pending or the same amount of what he has - or      *)
(* nothing, if a held share was paid out all the same.                     *)
(* OrderReturn is shown to implement this specification.                   *)
(***************************************************************************)
EXTENDS Naturals

VARIABLES pending,    \* shares that wait to be paid out
          available,  \* shares that were paid out
          forfeited,  \* the pending share was taken back
          debits,     \* debits of the seller
          asked,      \* the customer asked for a return
          refunds     \* refunds of the customer

share == <<pending, available, forfeited>>
vars  == <<share, debits, asked, refunds>>

Init ==
    /\ pending = 0 /\ available = 0 /\ forfeited = FALSE
    /\ debits = 0 /\ asked = FALSE /\ refunds = 0

-----------------------------------------------------------------------------
Grant ==
    /\ pending = 0 /\ available = 0 /\ ~forfeited
    /\ pending' = 1
    /\ UNCHANGED <<available, forfeited, debits, asked, refunds>>

PayOut ==
    /\ pending = 1
    /\ pending' = 0 /\ available' = available + 1
    /\ UNCHANGED <<forfeited, debits, asked, refunds>>

Ask ==
    /\ ~asked
    /\ asked' = TRUE
    /\ UNCHANGED <<share, debits, refunds>>

Forfeit ==
    /\ pending = 1
    /\ pending' = 0 /\ forfeited' = TRUE
    /\ UNCHANGED <<available, debits>>

Debit == debits' = debits + 1 /\ UNCHANGED share

LeaveShare == available = 1 /\ UNCHANGED <<share, debits>>

Refund ==
    /\ asked /\ refunds = 0
    /\ refunds' = 1
    /\ Forfeit \/ Debit \/ LeaveShare
    /\ UNCHANGED asked

Next == Grant \/ PayOut \/ Ask \/ Refund

Spec == Init /\ [][Next]_vars
=============================================================================
