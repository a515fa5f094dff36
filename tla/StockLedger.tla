---------------------------- MODULE StockLedger ----------------------------
(***************************************************************************)
(* What the inventory module promises of post_movement(): an append-only   *)
(* ledger of movements, each posted at most once and applied to both of    *)
(* its bins in one step, and balances that follow it.  A bin leaves the    *)
(* domain of balance for good when a movement that touches it is floored   *)
(* or races with another one; in every other bin the promise is exact.     *)
(***************************************************************************)
EXTENDS StockPosting

CONSTANTS Ids,        \* the identities of StockMovement rows
          Opening     \* the quantity each bin opens with

VARIABLES ledger,     \* the committed movements, by identity
          balance     \* the on-hand quantity of the bins that follow the ledger

Init ==
    /\ ledger = [i \in {} |-> 0]
    /\ balance = [b \in Bins |-> Opening[b]]

(***************************************************************************)
(* One post_movement: the row is new, the older rows stay, the balances    *)
(* move by what the row says and none goes below zero.                     *)
(***************************************************************************)
Post(id) ==
    LET m == ledger'[id] IN
    /\ id \notin DOMAIN ledger
    /\ DOMAIN ledger' = DOMAIN ledger \cup {id}
    /\ \A i \in DOMAIN ledger : ledger'[i] = ledger[i]
    /\ m \in Movement /\ Admissible(m)
    /\ \E lost \in SUBSET {b \in DOMAIN balance : b \in {m.from, m.to}} :
         balance' = [b \in DOMAIN balance \ lost |-> balance[b] + Delta(m, b)]
    /\ \A b \in DOMAIN balance' : balance'[b] >= 0

Next == \E id \in Ids : Post(id)

Spec == Init /\ [][Next]_<<ledger, balance>>
=============================================================================
