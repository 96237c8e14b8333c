--------------------------- MODULE MCOrderWorkflow ---------------------------
(***************************************************************************)
(* OrderWorkflow for TLC: the riders, the workers and the schedulers are   *)
(* model values that no handler tells apart.                               *)
(***************************************************************************)
EXTENDS OrderWorkflow, TLC

Symmetry == Permutations(Riders) \cup Permutations(Workers)
=============================================================================
