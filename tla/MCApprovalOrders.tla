-------------------------- MODULE MCApprovalOrders --------------------------
(* Instance of ApprovalOrders for TLC.  The ids of the orders are alike, and *)
(* only invariants are checked under the symmetry.                           *)
EXTENDS ApprovalOrders, TLC

OrderSymmetry == Permutations(Order)
=============================================================================
