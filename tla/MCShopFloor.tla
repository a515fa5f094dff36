----------------------------- MODULE MCShopFloor -----------------------------
(***************************************************************************)
(* A work order with two operations, two reports of one unit each, and    *)
(* two requests in flight.                                                 *)
(***************************************************************************)
EXTENDS ShopFloor, TLC

Symmetric == Permutations(Requests) \cup Permutations(Ops) \cup Permutations(Reports)
=============================================================================
