---------------------------- MODULE MCOrderStatus ----------------------------
(* Small instance of OrderStatus: one call more than an order has steps.   *)
EXTENDS OrderStatus, TLC

Symmetry == Permutations(Calls)
==============================================================================
