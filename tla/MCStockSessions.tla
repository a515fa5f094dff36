--------------------------- MODULE MCStockSessions ---------------------------
(***************************************************************************)
(* Three requests and three bins: b1 has a StockItem row, b2 and b3 have   *)
(* none yet, and b3 stands for a key with both a lot and a serial.         *)
(* The jobs put two writers on each bin, take more than there is, correct  *)
(* a balance below zero, cross b1 and b2 in both directions (a deadlock),  *)
(* break one argument check, and give a receipt a source bin.              *)
(***************************************************************************)
EXTENDS StockSessions

CONSTANTS b1, b2, b3

MCOpening == [b \in Bins |-> IF b = b1 THEN 2 ELSE 0]

Move(type, qty, from, to) == [type |-> type, qty |-> qty, from |-> from, to |-> to]

MCJobs == { Move("receipt", 1, NoBin, b2),
            Move("issue", 1, b1, NoBin),
            Move("transfer", 2, b1, b2),
            Move("transfer", 1, b2, b1),
            Move("adjustment", 3, b1, NoBin),
            Move("receipt", 2, NoBin, b3),
            Move("receipt", 1, b1, b3),
            Move("transfer", 1, b1, b1) }

\* Only receipts into the bin that already has its StockItem row.
MCReceipts == { Move("receipt", 1, NoBin, b1) }
=============================================================================
