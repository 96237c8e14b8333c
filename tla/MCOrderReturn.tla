---------------------------- MODULE MCOrderReturn ----------------------------
(***************************************************************************)
(* OrderReturn for TLC: no handler tells riders or contexts apart.         *)
(***************************************************************************)
EXTENDS OrderReturn, TLC

ReturnSymmetry == Permutations(Riders) \cup Permutations(Workers)
=============================================================================
