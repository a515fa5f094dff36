---- MODULE Shipping ----
(***************************************************************************)
(* The shipments of one line of an order, the quantity the line says was   *)
(* shipped, and the stock movements that follow: the shipment views of     *)
(* sales/views.py, services/shipping.py and signals.py.  The moves are     *)
(* conditional UPDATEs; the forms save whole rows, that of the order line  *)
(* with qty_shipped among its columns, and only a save of the shipment     *)
(* reaches the signal that posts the movements.                            *)
(*                                                                         *)
(* The status of the order is left out.  hold_sales_order looks at no      *)
(* shipment and an order on hold may be resumed and confirmed again, so at *)
(* any time the order can become editable, as the form of its line wants   *)
(* it, or confirmed, as the form of a shipment does.                       *)
(***************************************************************************)
EXTENDS Integers, Sums

CONSTANTS
  Shipments,  \* the shipments of the order
  Requests,   \* the requests that may be under way at the same time
  MaxOrdered, \* bound: the largest qty_ordered of the order line
  Given,      \* what a form may enter as the qty_shipped of a shipment line
  MaxShipped  \* bound: how far qty_shipped is followed

\* What the constants have to be.
ShippingAssumption ==
  /\ IsFiniteSet(Shipments)
  /\ MaxOrdered \in Nat \ {0} /\ Given \subseteq Int \ {0} /\ MaxShipped \in Nat

VARIABLES
  ships,     \* the row and the line of each; "none" is no row, qty 0 no line
  ordered,   \* the order line's qty_ordered
  shipped,   \* the order line's qty_shipped
  pending,   \* pending[r]: the operation of r, its shipment, what it has loaded
  forms      \* forms[r]: the order line as r loaded it, with the new qty_ordered

vars == <<ships, ordered, shipped, pending, forms>>

orderLine == <<ordered, shipped>>

Statuses == {"none", "planned", "picked", "packed", "in_transit", "delivered", "cancelled"}

\* qty is the line's qty_to_ship, leaves its "qty_shipped or qty_to_ship", and moved
\* what the signal has made of it.
Ship == [status : Statuses, qty : 0..MaxOrdered, leaves : Int,
         moved : {"unseen", "skipped", "left"}]

NoRow == [status |-> "none", qty |-> 0, leaves |-> 0, moved |-> "unseen"]

Operations ==
  {"pick", "pack", "dispatch", "deliver", "cancel", "edit", "delete",
   "add_line", "edit_line", "delete_line"}

Init ==
  /\ ships = [s \in Shipments |-> NoRow]
  /\ ordered \in 1..MaxOrdered
  /\ shipped = 0
  /\ pending = [r \in Requests |-> {}]
  /\ forms = [r \in Requests |-> {}]

\* qty_to_ship of each shipment, which is what ShipmentLineForm adds up.
Quantity == [s \in Shipments |-> ships[s].qty]

\* Mutant for OrderNotExceeded: only what was delivered counts as committed.
CommittedDelivered(s) ==
  SumOver(Quantity,
          {t \in Shipments \ {s} : ships[t].status = "delivered"})

\* qty_to_ship of the line's other shipments that are not cancelled.
Committed(s) ==
  SumOver(Quantity,
          {t \in Shipments \ {s} : ships[t].status # "cancelled"})

\* What each view asks of the row, and ShipmentLineForm.clean of qty_to_ship; nothing
\* asks anything of qty_shipped.
Passes(op, s, qty) ==
  LET status == ships[s].status IN
  CASE op = "pick" -> status = "planned"
    [] op = "pack" -> status = "picked"
    [] op = "dispatch" -> status = "packed"
    [] op = "deliver" -> status = "in_transit"
    [] op = "cancel" -> status \in {"planned", "picked", "packed", "in_transit"}
    [] op = "edit" -> status \in {"planned", "picked"}
    [] op = "delete" -> status \in {"planned", "cancelled"}
    [] op = "add_line" -> /\ status \in {"planned", "picked"}
                          /\ qty + Committed(s) <= ordered
    [] op = "edit_line" -> ships[s].qty > 0 /\ qty + Committed(s) <= ordered
    [] op = "delete_line" -> ships[s].qty > 0

\* The quantities a form of the line may enter; its qty_shipped may stay empty.
Quantities(op) ==
  IF op \in {"add_line", "edit_line"}
  THEN UNION { {[qty |-> q, leaves |-> n] : n \in Given \cup {q}} : q \in 1..MaxOrdered }
  ELSE {[qty |-> 0, leaves |-> 0]}

Create(s) ==
  /\ ships[s].status = "none"
  /\ ships' = [ships EXCEPT ![s] = [NoRow EXCEPT !.status = "planned"]]
  /\ UNCHANGED <<orderLine, pending, forms>>

\* The operations whose write relies on a test that it does not repeat.
Unrepeated == {"edit", "add_line", "edit_line"}

\* The operations whose write takes the status from the row that was loaded.
UsesStatus == Operations \ {"delete", "add_line", "edit_line", "delete_line"}

\* fresh: the shipments are as they were when r tested them.
Load(r) ==
  /\ pending[r] = {} /\ forms[r] = {}
  /\ \E op \in Operations, s \in Shipments : \E line \in Quantities(op) :
       /\ Passes(op, s, line.qty)
       /\ pending' = [pending EXCEPT ![r] =
            {[op |-> op, id |-> s,
              status |-> IF op \in UsesStatus THEN ships[s].status ELSE "none",
              qty |-> line.qty, leaves |-> line.leaves, fresh |-> TRUE]}]
  /\ UNCHANGED <<ships, orderLine, forms>>

\* The write of r has landed: what the others have tested is out of date.
Landed(r) ==
  pending' = [q \in Requests |->
                IF q = r THEN {}
                ELSE {[p EXCEPT !.fresh = p.op \notin Unrepeated] : p \in pending[q]}]

\* _conditional_update: UPDATE ... WHERE status = from.
Moves(r, op, to) ==
  \E p \in pending[r] :
    /\ p.op = op
    /\ ships[p.id].status = p.status
    /\ ships' = [ships EXCEPT ![p.id].status = to]
    /\ Landed(r)
    /\ UNCHANGED <<orderLine, forms>>

Pick(r) == Moves(r, "pick", "picked")
Pack(r) == Moves(r, "pack", "packed")
Dispatch(r) == Moves(r, "dispatch", "in_transit")
Cancel(r) == Moves(r, "cancel", "cancelled")

\* Mutant for DeliveriesCountedOnce: the UPDATE does not ask for the status.
ConfirmDeliveryUnconditional(r) ==
  \E p \in pending[r] :
    /\ p.op = "deliver"
    /\ shipped + ships[p.id].leaves \in -MaxShipped..MaxShipped
    /\ ships' = [ships EXCEPT ![p.id].status = "delivered"]
    /\ shipped' = shipped + ships[p.id].leaves
    /\ Landed(r)
    /\ UNCHANGED <<ordered, forms>>

\* confirm_delivery: the same, and qty_shipped = F(qty_shipped) + the line's.
ConfirmDelivery(r) ==
  \E p \in pending[r] :
    /\ p.op = "deliver"
    /\ ships[p.id].status = p.status
    /\ shipped + ships[p.id].leaves \in -MaxShipped..MaxShipped
    /\ ships' = [ships EXCEPT ![p.id].status = "delivered"]
    /\ shipped' = shipped + ships[p.id].leaves
    /\ Landed(r)
    /\ UNCHANGED <<ordered, forms>>

\* The post_save signal: for a delivered shipment whose line has no movement yet it
\* posts one, or skips the line for want of a bin, of stock or of a quantity.
AfterSave(row) ==
  IF row.status = "delivered" /\ row.qty > 0 /\ row.moved # "left"
  THEN {[row EXCEPT !.moved = m] : m \in {"skipped"} \cup {n \in {"left"} : row.leaves > 0}}
  ELSE {row}

\* ShipmentForm.save(): every column as it was loaded, then the signal.
Edit(r) ==
  \E p \in pending[r] :
    /\ p.op = "edit"
    /\ \E new \in AfterSave([ships[p.id] EXCEPT !.status = p.status]) :
         ships' = [ships EXCEPT ![p.id] = new]
    /\ Landed(r)
    /\ UNCHANGED <<orderLine, forms>>

\* Deletion takes the line along, and pre_delete reverses its movements.
Delete(r) ==
  \E p \in pending[r] :
    /\ p.op = "delete"
    /\ ships' = [ships EXCEPT ![p.id] = NoRow]
    /\ Landed(r)
    /\ UNCHANGED <<orderLine, forms>>

\* The line is saved, or deleted, without another look at its shipment; a movement
\* stays with the line it was posted for.
\* Bound: a shipment has one line.
WriteLine(r) ==
  \E p \in pending[r] :
    /\ p.op \in {"add_line", "edit_line", "delete_line"}
    /\ ships[p.id].status # "none"
    /\ p.op = "add_line" => ships[p.id].qty = 0
    /\ ships' = [ships EXCEPT ![p.id] =
         [@ EXCEPT !.qty = p.qty, !.leaves = p.leaves,
                   !.moved = IF p.op = "edit_line" THEN ships[p.id].moved ELSE "unseen"]]
    /\ Landed(r)
    /\ UNCHANGED <<orderLine, forms>>

\* The head of order_line_edit_view, with a valid form.
LoadForm(r) ==
  /\ pending[r] = {} /\ forms[r] = {}
  /\ \E n \in 1..MaxOrdered :
       forms' = [forms EXCEPT ![r] = {[ordered |-> n, shipped |-> shipped]}]
  /\ UNCHANGED <<ships, orderLine, pending>>

\* SalesOrderLineForm.save(): every column as it was loaded but those of the form,
\* whatever was shipped in the meantime or is still to be shipped.
SaveForm(r) ==
  \E f \in forms[r] :
    /\ ordered' = f.ordered
    /\ shipped' = f.shipped
    /\ forms' = [forms EXCEPT ![r] = {}]
    /\ Landed(r)
    /\ UNCHANGED ships

\* The write finds another status or nothing at all: nothing is written.
GiveUp(r) ==
  /\ pending[r] # {} \/ forms[r] # {}
  /\ pending' = [pending EXCEPT ![r] = {}]
  /\ forms' = [forms EXCEPT ![r] = {}]
  /\ UNCHANGED <<ships, orderLine>>

Next ==
  \/ \E s \in Shipments : Create(s)
  \/ \E r \in Requests :
       \/ Load(r) \/ Pick(r) \/ Pack(r) \/ Dispatch(r) \/ ConfirmDelivery(r)
       \/ Cancel(r) \/ Edit(r) \/ Delete(r) \/ WriteLine(r)
       \/ LoadForm(r) \/ SaveForm(r) \/ GiveUp(r)

Spec == Init /\ [][Next]_vars

----------------------------------------------------------------------------

\* What each shipment adds to qty_shipped when it is delivered.
Leaving == [s \in Shipments |-> ships[s].leaves]

Delivered ==
  SumOver(Leaving, {s \in Shipments : ships[s].status = "delivered"})

InForce ==
  SumOver(Quantity, {s \in Shipments : ships[s].status # "cancelled"})

Held == UNION {pending[r] : r \in Requests}
HeldForms == UNION {forms[r] : r \in Requests}

\* The request that writes in this step, with what it holds.
Writing(p) == \E r \in Requests : p \in pending[r] /\ pending'[r] = {}
Saving(f) == \E r \in Requests : f \in forms[r] /\ forms'[r] = {}

\* qty_shipped of the order line counts each delivery once, whatever requests race to
\* confirm it; the two part company only when a line of a delivered shipment is edited
\* or deleted, when a form or a deletion that had loaded the shipment before lands on
\* it, or when a form of the order line writes back the qty_shipped of before.
DeliveriesCountedOnce ==
  [][shipped' - shipped # Delivered' - Delivered =>
       \/ \E p \in Held :
            /\ Writing(p)
            /\ p.op \in {"edit", "delete", "add_line", "edit_line", "delete_line"}
            /\ ships[p.id].status = "delivered"
       \/ \E f \in HeldForms : Saving(f) /\ f.shipped # shipped]_vars

\* The qty_to_ship of the shipments in force comes to exceed the order only by a line
\* that was tested before another write, by a form that brings a cancelled shipment
\* back, or by a form of the order line that lowers qty_ordered, which looks at no
\* shipment.  It says nothing of the qty_shipped of a shipment line, which the forms
\* do not test and the delivery adds up.
OrderNotExceeded ==
  [][InForce <= ordered /\ InForce' > ordered' =>
       \/ \E p \in Held :
            Writing(p) /\ ~p.fresh /\ p.op \in {"edit", "add_line", "edit_line"}
       \/ \E f \in HeldForms : Saving(f) /\ f.ordered < ordered]_vars

\* What the services, the signal and the delivery message say of a delivered shipment:
\* its lines have left stock, or the signal has found that they could not.
DeliveredLeavesStock ==
  \A s \in Shipments : ships[s].status = "delivered" /\ ships[s].qty > 0 =>
                        ships[s].moved # "unseen"

====
