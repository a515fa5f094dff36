----------------------------- MODULE MCTransfers -----------------------------
(***************************************************************************)
(* Two transfers, three lines, two requests in flight.  The forms take one *)
(* unit or two of b1, and one of them names no destination.                *)
(***************************************************************************)
EXTENDS Transfers, TLC

CONSTANTS b1, b2

MCForms == { [qty |-> 1, source |-> b1, dest |-> b2],
             [qty |-> 2, source |-> b1, dest |-> b2],
             [qty |-> 1, source |-> b1, dest |-> NoBin] }

Symmetric == Permutations(Requests) \cup Permutations(Transfers) \cup Permutations(LineIds)
=============================================================================
