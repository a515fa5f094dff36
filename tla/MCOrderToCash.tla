---- MODULE MCOrderToCash ----
(***************************************************************************)
(* Two requests at a time on one order and its customer's credit, on two   *)
(* invoices, and on two shipments.                                         *)
(***************************************************************************)
EXTENDS OrderToCash, TLC

CONSTANTS r1, r2, i1, i2, s1, s2

MCRequests == {r1, r2}
MCInvoices == {i1, i2}
MCShipments == {s1, s2}
MCGiven == {2}

Symmetric ==
  Permutations({r1, r2}) \cup Permutations({i1, i2}) \cup Permutations({s1, s2})

====
