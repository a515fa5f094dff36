----------------------------- MODULE MCReceiving -----------------------------
(***************************************************************************)
(* A GRN with up to three lines, one of which may have no quantity, three  *)
(* tasks and two requests in flight.                                       *)
(***************************************************************************)
EXTENDS Receiving, TLC

MCQty == [l \in LineIds |-> IF l = 3 THEN 0 ELSE l]

Symmetric == Permutations(Requests) \cup Permutations(TaskIds)
=============================================================================
