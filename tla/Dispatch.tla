---- MODULE Dispatch ----
(***************************************************************************)
(* A production order and the work orders it is dispatched as:             *)
(* mes/services/dispatcher.py, with the order views of apps/pps and the    *)
(* work order views of apps/mes.  A dispatch looks for a work order that   *)
(* is not cancelled, outside any transaction, and inserts one if there is  *)
(* none.  What goes on inside a work order is in ShopFloor.                *)
(***************************************************************************)

CONSTANTS
  WorkOrders,  \* the work orders of one production order
  Requests     \* the requests that may be under way at the same time

VARIABLES
  order,       \* the status of the production order; "none" when it is deleted
  workOrders,  \* the status of each work order; "none" is no row yet
  requests     \* requests[r]: what r does next, to which work order, the status
               \* it has loaded, and whether no work order has come or gone since

vars == <<order, workOrders, requests>>

Existing == {w \in WorkOrders : workOrders[w] \notin {"none", "deleted"}}

Live == {w \in Existing : workOrders[w] # "cancelled"}

Init ==
  /\ order = "planned"
  /\ workOrders = [w \in WorkOrders |-> "none"]
  /\ requests = [r \in Requests |-> {}]

Goes(r, holding) == requests' = [requests EXCEPT ![r] = holding]

Keeps(op, id, status) == [op |-> op, id |-> id, status |-> status, fresh |-> TRUE]

\* DispatchView: the order it has loaded is released and has a routing.
Load(r) ==
  /\ requests[r] = {}
  /\ order = "released"
  /\ Goes(r, {Keeps("look", "none", "none")})
  /\ UNCHANGED <<order, workOrders>>

\* Mutant for OneWorkOrder: only a work order that waits for its start counts.
FoundWaiting == \E w \in Live : workOrders[w] = "dispatched"

\* There is a work order that the dispatch returns instead of making another.
Found == Live # {}

Look(r) ==
  /\ \E d \in requests[r] : d.op = "look"
  /\ Goes(r, IF Found THEN {} ELSE {Keeps("insert", "none", "none")})
  /\ UNCHANGED <<order, workOrders>>

\* A work order has been written: what the others know is out of date.
Written(r, w, status) ==
  /\ workOrders' = [workOrders EXCEPT ![w] = status]
  /\ requests' = [q \in Requests |->
                    IF q = r THEN {} ELSE {[d EXCEPT !.fresh = FALSE] : d \in requests[q]}]
  /\ UNCHANGED order

\* The work order and its operations, in one transaction.
Insert(r) ==
  \E d \in requests[r] :
    /\ d.op = "insert"
    /\ order # "none"
    /\ \E w \in WorkOrders : workOrders[w] = "none" /\ Written(r, w, "dispatched")

\* WorkOrderEditView and WorkOrderDeleteView test the work order they load.
LoadWorkOrder(r) ==
  /\ requests[r] = {}
  /\ \E w \in Existing :
       \/ workOrders[w] \in {"dispatched", "on_hold"} /\ Goes(r, {Keeps("edit", w, workOrders[w])})
       \/ workOrders[w] # "in_progress" /\ Goes(r, {Keeps("delete", w, "deleted")})
  /\ UNCHANGED <<order, workOrders>>

\* form.save(): every column, the status that was loaded among them, in a row
\* that is inserted again if it is gone.
SaveWorkOrder(r) ==
  \E d \in requests[r] : d.op = "edit" /\ order # "none" /\ Written(r, d.id, d.status)

DeleteWorkOrder(r) ==
  \E d \in requests[r] : d.op = "delete" /\ Written(r, d.id, "deleted")

\* The work order number is taken, the order is gone, a row is referenced, or
\* the process dies: nothing is written.
GiveUp(r) ==
  /\ requests[r] # {}
  /\ Goes(r, {})
  /\ UNCHANGED <<order, workOrders>>

\* WorkOrderStartView, WorkOrderHoldView, WorkOrderCompleteView and
\* WorkOrderCancelView: conditional UPDATEs.
WorkOrderMoves ==
  ({"dispatched", "on_hold"} \X {"in_progress"})
    \cup ({"in_progress"} \X {"on_hold", "completed"})
    \cup ({"dispatched", "in_progress", "on_hold"} \X {"cancelled"})

MoveWorkOrder(w) ==
  /\ \E move \in WorkOrderMoves :
       /\ workOrders[w] = move[1]
       /\ workOrders' = [workOrders EXCEPT ![w] = move[2]]
  /\ UNCHANGED <<order, requests>>

\* The order views of apps/pps.
OrderMoves ==
  {<<"planned", "released">>, <<"released", "in_progress">>, <<"in_progress", "completed">>}
    \cup ({"planned", "released", "in_progress"} \X {"cancelled"})

MoveOrder ==
  /\ \E move \in OrderMoves : order = move[1] /\ order' = move[2]
  /\ UNCHANGED <<workOrders, requests>>

\* ProductionOrderEditView and ProductionOrderDeleteView test what they load.
LoadOrder(r) ==
  /\ requests[r] = {}
  /\ \/ order = "planned" /\ Goes(r, {Keeps("edit order", "none", "planned")})
     \/ order \in {"planned", "cancelled"} /\ Goes(r, {Keeps("delete order", "none", "none")})
  /\ UNCHANGED <<order, workOrders>>

\* Every column is written back; a work order protects its order from deletion.
WriteOrder(r) ==
  \E d \in requests[r] :
    /\ \/ d.op = "edit order"
       \/ d.op = "delete order" /\ Existing = {}
    /\ order' = d.status
    /\ Goes(r, {})
    /\ UNCHANGED workOrders

Next ==
  \/ MoveOrder
  \/ \E w \in WorkOrders : MoveWorkOrder(w)
  \/ \E r \in Requests :
       \/ Load(r) \/ Look(r) \/ Insert(r) \/ GiveUp(r)
       \/ LoadWorkOrder(r) \/ SaveWorkOrder(r) \/ DeleteWorkOrder(r)
       \/ LoadOrder(r) \/ WriteOrder(r)

Spec == Init /\ [][Next]_vars

----------------------------------------------------------------------------

\* The dispatcher calls itself idempotent for a production order, "so a
\* double-click in the UI never produces duplicate work orders".  A second live
\* work order comes only from a dispatch that had looked before the first one
\* was there, or from the form of a work order that was cancelled or deleted
\* after the form had loaded it.
OneWorkOrder ==
  [][Live # {} /\ ~(Live' \subseteq Live) =>
       \E r \in Requests : \E d \in requests[r] :
         /\ requests'[r] = {}
         /\ \/ d.op = "insert" /\ ~d.fresh
            \/ d.op = "edit" /\ d.id \notin Live]_vars

====
