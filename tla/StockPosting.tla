---------------------------- MODULE StockPosting ----------------------------
(***************************************************************************)
(* What one stock movement does to the on-hand balances: the pure part of  *)
(* post_movement() and reverse_movement() in                               *)
(* src/apps/inventory/services/movements.py.                               *)
(*                                                                         *)
(* An element of Bins stands for one StockItem key, that is a storage bin  *)
(* together with a fixed product, lot and serial; the code never moves     *)
(* stock between products, so nothing is lost by naming only the bin.      *)
(***************************************************************************)
EXTENDS Integers

CONSTANTS Bins,     \* the StockItem keys
          NoBin     \* the None of from_bin and to_bin

ASSUME NoBinAssumption == NoBin \notin Bins

MovementTypes == {"receipt", "issue", "transfer", "adjustment", "production_in",
                  "production_out", "scrap", "cycle_count", "shipment_out"}

Movement == [type : MovementTypes, qty : Int,
             from : Bins \cup {NoBin}, to : Bins \cup {NoBin}]

\* The two types that are never refused for want of stock.
Corrections == {"adjustment", "cycle_count"}

(***************************************************************************)
(* The argument checks at the head of post_movement.  A type that needs    *)
(* only one end may still be given the other one, and both are then        *)
(* applied: a "receipt" with a from_bin also takes stock out.              *)
(***************************************************************************)
Admissible(m) ==
    /\ m.qty > 0
    /\ m.type \in {"receipt", "production_in", "transfer"} => m.to # NoBin
    /\ m.type \in {"issue", "production_out", "scrap", "shipment_out", "transfer"}
          => m.from # NoBin
    /\ m.type = "transfer" => m.from # m.to
    /\ m.type \in Corrections => (m.from = NoBin) # (m.to = NoBin)

\* max(new_qty, 0), whatever the type of the movement.
Floor(n) == IF n < 0 THEN 0 ELSE n

\* The "insufficient stock" test, passed.
Covers(m, onHand) == onHand >= m.qty \/ m.type \in Corrections

\* What the from_bin row holds after the movement, had it held onHand before.
TakenFrom(m, onHand) == Floor(onHand - m.qty)

\* What the ledger says the movement changes at bin b.
Delta(m, b) == (IF b = m.to THEN m.qty ELSE 0) - (IF b = m.from THEN m.qty ELSE 0)

-----------------------------------------------------------------------------
(***************************************************************************)
(* The whole of post_movement run with no other request in between: whether*)
(* it returns rather than raises, and the balances it leaves.  The from_bin*)
(* row is saved before the to_bin row is read.                             *)
(***************************************************************************)
CanPost(stock, m) ==
    /\ Admissible(m)
    /\ m.from # NoBin => Covers(m, stock[m.from])

Taken(stock, m) ==
    [b \in Bins |-> IF b = m.from THEN TakenFrom(m, stock[b]) ELSE stock[b]]

Posted(stock, m) ==
    [b \in Bins |-> IF b = m.to THEN Taken(stock, m)[b] + m.qty ELSE Taken(stock, m)[b]]

\* The type map of reverse_movement.
Swap == [t \in MovementTypes |->
           CASE t \in {"receipt"}                          -> "issue"
             [] t \in {"issue", "scrap", "shipment_out"}   -> "receipt"
             [] t = "production_in"                        -> "production_out"
             [] t = "production_out"                       -> "production_in"
             [] OTHER                                      -> t]

Reversal(m) == [type |-> Swap[m.type], qty |-> m.qty, from |-> m.to, to |-> m.from]
=============================================================================
