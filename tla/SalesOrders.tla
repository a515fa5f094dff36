---- MODULE SalesOrders ----
(***************************************************************************)
(* A sales order of one customer and the credit it is tested against:      *)
(* sales/services/workflow.py, credit.py and the order views.  A view      *)
(* loads the order, tests what it loaded and then writes; most writes are  *)
(* conditional on the status that was loaded, the edit form saves the      *)
(* whole row.  The customer's credit_used is moved by SalesInvoices.       *)
(***************************************************************************)
EXTENDS Integers

CONSTANTS
  Requests,  \* the requests that may be under way at the same time
  Limit,     \* the customer's credit_limit; 0 is no limit
  MaxTotal   \* bound: the largest grand_total of an order

ASSUME CreditAssumption == Limit \in Nat /\ MaxTotal \in Nat \ {0}

VARIABLES
  order,     \* [status, hold, total] and the total last tested for credit
  customer,  \* [active, used]
  held,      \* held[r]: the operation of r and the row it has loaded
  rewritten  \* since the last credit test lines were written to an order past draft

vars == <<order, customer, held, rewritten>>

Statuses == {"draft", "submitted", "credit_check", "confirmed", "on_hold", "cancelled"}

Totals == 0..MaxTotal

Loaded == [status : Statuses, hold : BOOLEAN, total : Totals]

Operations ==
  {"submit", "confirm", "release", "cancel", "hold", "resume", "edit", "lines"}

\* fresh: no credit hold was set since the row was loaded.
Holding == [op : Operations, row : Loaded, fresh : BOOLEAN]

Init ==
  /\ order = [status |-> "draft", hold |-> FALSE, total |-> 0, tested |-> 0]
  /\ customer = [active |-> TRUE, used |-> 0]
  /\ held = [r \in Requests |-> {}]
  /\ rewritten = FALSE

\* Mutant for HeldOrderNotConfirmed: the credit hold is not asked about.
MayConfirmHeld(row) == row.status \in {"submitted", "credit_check"}

\* What each view asks of the row it has loaded.
MayConfirm(row) == row.status \in {"submitted", "credit_check"} /\ ~row.hold

Passes(op, row) ==
  CASE op = "submit" -> row.status = "draft"
    [] op = "confirm" -> MayConfirm(row)
    [] op = "release" -> TRUE
    [] op = "cancel" -> row.status # "cancelled"
    [] op = "hold" -> row.status \notin {"on_hold", "cancelled"}
    [] op = "resume" -> row.status = "on_hold"
    [] OTHER -> row.status \in {"draft", "on_hold"}

Load(r) ==
  /\ held[r] = {}
  /\ LET row == [status |-> order.status, hold |-> order.hold, total |-> order.total]
     IN \E op \in Operations :
          /\ Passes(op, row)
          /\ held' = [held EXCEPT ![r] = {[op |-> op, row |-> row, fresh |-> TRUE]}]
  /\ UNCHANGED <<order, customer, rewritten>>

\* The request of r is answered; a hold it has set is news to the others.
Answered(r) ==
  held' = [q \in Requests |->
             IF q = r THEN {}
             ELSE {[h EXCEPT !.fresh = @ /\ (order'.hold => order.hold)] : h \in held[q]}]

\* check_credit: the customer is not active, or the order does not fit.
Refused(total) ==
  ~customer.active \/ (Limit > 0 /\ customer.used + total > Limit)

\* submit_sales_order: one transaction, the hold included.
Submit(r) ==
  \E h \in held[r] :
    /\ h.op = "submit"
    /\ order.total > 0
    /\ order.status = "draft"
    /\ order' = IF Refused(order.total)
                 THEN [order EXCEPT !.status = "credit_check", !.hold = TRUE,
                                    !.tested = order.total]
                 ELSE [order EXCEPT !.status = "submitted", !.tested = order.total]
    /\ Answered(r)
    /\ rewritten' = FALSE
    /\ UNCHANGED customer

\* UPDATE ... WHERE status = the status that was loaded.
Moves(r, op, to) ==
  \E h \in held[r] :
    /\ h.op = op
    /\ order.status = h.row.status
    /\ order' = [order EXCEPT !.status = to]
    /\ Answered(r)
    /\ UNCHANGED <<customer, rewritten>>

Confirm(r) == Moves(r, "confirm", "confirmed")
Cancel(r) == Moves(r, "cancel", "cancelled")
PutOnHold(r) == Moves(r, "hold", "on_hold")

\* Mutant for PastDraftWasTested: an order resumed goes past its credit test.
ResumeSubmitted(r) == Moves(r, "resume", "submitted")

Resume(r) == Moves(r, "resume", "draft")

\* release_credit_hold: UPDATE ... WHERE credit_hold.
ReleaseCreditHold(r) ==
  /\ \E h \in held[r] : h.op = "release"
  /\ order.hold
  /\ order' = [order EXCEPT !.hold = FALSE]
  /\ Answered(r)
  /\ UNCHANGED <<customer, rewritten>>

\* SalesOrderForm.save(): every column as it was loaded.
Edit(r) ==
  \E h \in held[r] :
    /\ h.op = "edit"
    /\ order' = [order EXCEPT !.status = h.row.status, !.hold = h.row.hold,
                              !.total = h.row.total]
    /\ Answered(r)
    /\ UNCHANGED <<customer, rewritten>>

\* A line is added, edited or removed, and recompute_totals saves the totals.
WriteLines(r) ==
  \E h \in held[r] :
    /\ h.op = "lines"
    /\ \E t \in Totals \ {order.total} : order' = [order EXCEPT !.total = t]
    /\ rewritten' = (rewritten \/ order.status \notin {"draft", "on_hold"})
    /\ Answered(r)
    /\ UNCHANGED customer

\* The write finds another status or the form is invalid: nothing is written.
GiveUp(r) ==
  /\ held[r] # {}
  /\ held' = [held EXCEPT ![r] = {}]
  /\ UNCHANGED <<order, customer, rewritten>>

\* customer_toggle_active_view, and what invoices do to credit_used.
CustomerChanges ==
  /\ customer' \in [active : BOOLEAN, used : 0..Limit]
  /\ UNCHANGED <<order, held, rewritten>>

Next ==
  \/ \E r \in Requests :
       \/ Load(r) \/ Submit(r) \/ Confirm(r) \/ Cancel(r) \/ PutOnHold(r)
       \/ Resume(r) \/ ReleaseCreditHold(r) \/ Edit(r) \/ WriteLines(r) \/ GiveUp(r)
  \/ CustomerChanges

Spec == Init /\ [][Next]_vars

----------------------------------------------------------------------------

TypeOK ==
  /\ order \in [status : Statuses, hold : BOOLEAN, total : Totals, tested : Totals]
  /\ customer \in [active : BOOLEAN, used : 0..Limit]
  /\ held \in [Requests -> SUBSET Holding]
  /\ rewritten \in BOOLEAN

\* The services call a confirmation race-safe because it is conditional on the
\* status it has loaded.  The status can come back, so a confirmation does land
\* on an order with a credit hold, but only when the hold was set between its
\* load and its write: an order that was on hold when the view loaded it, or
\* was put on hold and never resubmitted, is not confirmed.
HeldOrderNotConfirmed ==
  [][order'.status = "confirmed" /\ order.status # "confirmed" /\ order.hold =>
       \E r \in Requests : \E h \in held[r] :
         h.op = "confirm" /\ ~h.fresh /\ held'[r] = {}]_vars

\* Past draft the credit test and the order agree: a total that changed on
\* hold is tested again before the order is confirmed.  The exception is a
\* line request that loaded the order while it was still a draft.
PastDraftWasTested ==
  order.status \in {"submitted", "credit_check", "confirmed"} =>
    order.tested = order.total \/ rewritten

====
