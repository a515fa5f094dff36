---- MODULE SalesInvoices ----
(***************************************************************************)
(* The invoices of one customer and the receivables they leave in          *)
(* Customer.credit_used: sales/services/invoicing.py, the invoice views    *)
(* and the customer form.  Issuing and paying are conditional UPDATEs that *)
(* move credit_used by the grand_total of the object they have loaded.     *)
(***************************************************************************)
EXTENDS Integers, Sums

CONSTANTS
  Invoices,  \* the invoices
  Requests,  \* the requests that may be under way at the same time
  MaxTotal   \* bound: the largest grand_total of an invoice

\* What the constants have to be.
InvoicesAssumption == IsFiniteSet(Invoices) /\ MaxTotal \in Nat

VARIABLES
  invoices,  \* [status, total, billed] of each; "none" is no row, and billed
             \* that it is an invoice of the one shipment
  used,      \* the customer's credit_used
  asked      \* asked[r]: the operation of r, its invoice, what it has loaded

vars == <<invoices, used, asked>>

Statuses == {"none", "draft", "issued", "paid"}

Invoice == [status : Statuses, total : 0..MaxTotal, billed : BOOLEAN]

NoRow == [status |-> "none", total |-> 0, billed |-> FALSE]

Operations ==
  {"generate", "issue", "pay", "edit", "add_line", "delete_line", "delete", "customer"}

Init ==
  /\ invoices = [i \in Invoices |-> NoRow]
  /\ used = 0
  /\ asked = [r \in Requests |-> {}]

\* The shipment has an invoice.
Billed == \E i \in Invoices : invoices[i].billed

\* Mutant for BilledOnce: no look for an invoice of the shipment.
PassesUnlooked(op, row) ==
  CASE op = "generate" -> row.status = "none"
    [] op = "pay" -> row.status = "issued"
    [] op = "delete_line" -> row.status # "none" /\ row.total > 0
    [] op = "customer" -> TRUE
    [] OTHER -> row.status = "draft"

\* What each view asks of the row it has loaded.
Passes(op, row) ==
  CASE op = "generate" -> row.status = "none" /\ ~Billed
    [] op = "pay" -> row.status = "issued"
    [] op = "delete_line" -> row.status # "none" /\ row.total > 0
    [] op = "customer" -> TRUE
    [] OTHER -> row.status = "draft"

\* A new draft, and what the others have found of the shipment is out of date.
Insert(i, total, billed) ==
  /\ invoices[i].status = "none"
  /\ invoices' = [invoices EXCEPT ![i] =
                   [status |-> "draft", total |-> total, billed |-> billed]]
  /\ UNCHANGED used

\* Only the look for an invoice is relied on without being repeated.
Outdated(r) == {[a EXCEPT !.fresh = a.op # "generate"] : a \in asked[r]}

\* invoice_create_view: no lines yet, and any shipment.
Create(i) ==
  /\ \E billed \in BOOLEAN : Insert(i, 0, billed)
  /\ asked' = [r \in Requests |-> Outdated(r)]

Load(r) ==
  /\ asked[r] = {}
  /\ \E op \in Operations, i \in Invoices :
       /\ Passes(op, invoices[i])
       /\ asked' = [asked EXCEPT ![r] =
            {[op |-> op, id |-> i, row |-> invoices[i],
              used |-> IF op = "customer" THEN used ELSE 0, fresh |-> TRUE]}]
  /\ UNCHANGED <<invoices, used>>

Answered(r) == asked' = [asked EXCEPT ![r] = {}]

\* generate_invoice_from_shipment: it found no invoice, and creates one with
\* the lines of the shipment.
Generate(r) ==
  /\ \E a \in asked[r] : a.op = "generate"
  /\ \E i \in Invoices, n \in 0..MaxTotal : Insert(i, n, TRUE)
  /\ asked' = [q \in Requests |-> IF q = r THEN {} ELSE Outdated(q)]

\* Bound: how far lost updates may carry credit_used from the receivables.
UsedBound == -MaxTotal..(2 * MaxTotal)

\* Mutant for CreditFollowsInvoices: the UPDATE does not ask for a draft.
IssueUnconditional(r) ==
  \E a \in asked[r] :
    /\ a.op = "issue"
    /\ invoices[a.id].status # "none"
    /\ used + a.row.total \in UsedBound
    /\ invoices' = [invoices EXCEPT ![a.id].status = "issued"]
    /\ used' = used + a.row.total
    /\ Answered(r)

\* issue_invoice: UPDATE ... WHERE draft, and credit_used grows.
Issue(r) ==
  \E a \in asked[r] :
    /\ a.op = "issue"
    /\ invoices[a.id].status = "draft"
    /\ invoices' = [invoices EXCEPT ![a.id].status = "issued"]
    /\ used + a.row.total \in UsedBound
    /\ used' = used + a.row.total
    /\ Answered(r)

\* mark_invoice_paid: UPDATE ... WHERE issued, and credit_used shrinks.
Pay(r) ==
  \E a \in asked[r] :
    /\ a.op = "pay"
    /\ invoices[a.id].status = "issued"
    /\ invoices' = [invoices EXCEPT ![a.id].status = "paid"]
    /\ used - a.row.total \in UsedBound
    /\ used' = used - a.row.total
    /\ Answered(r)

\* SalesInvoiceForm.save(): every column as it was loaded, in a row that is
\* inserted again if it is gone.
Edit(r) ==
  \E a \in asked[r] :
    /\ a.op = "edit"
    /\ invoices' = [invoices EXCEPT ![a.id] = a.row]
    /\ asked' = [q \in Requests |-> IF q = r THEN {} ELSE Outdated(q)]
    /\ UNCHANGED used

\* A line is added or deleted, and recompute_totals saves the totals.
WriteLine(r) ==
  \E a \in asked[r] :
    /\ a.op \in {"add_line", "delete_line"}
    /\ invoices[a.id].status # "none"
    /\ LET total == invoices[a.id].total + (IF a.op = "add_line" THEN 1 ELSE -1)
       IN /\ total \in 0..MaxTotal
          /\ invoices' = [invoices EXCEPT ![a.id].total = total]
    /\ Answered(r)
    /\ UNCHANGED used

Delete(r) ==
  \E a \in asked[r] :
    /\ a.op = "delete"
    /\ invoices' = [invoices EXCEPT ![a.id] = NoRow]
    /\ Answered(r)
    /\ UNCHANGED used

\* customer_edit_view: CustomerForm.save() writes credit_used as it was loaded.
SaveCustomer(r) ==
  \E a \in asked[r] :
    /\ a.op = "customer"
    /\ used' = a.used
    /\ Answered(r)
    /\ UNCHANGED invoices

\* The write finds another status or the form is invalid: nothing is written.
GiveUp(r) ==
  /\ asked[r] # {}
  /\ Answered(r)
  /\ UNCHANGED <<invoices, used>>

Next ==
  \/ \E i \in Invoices : Create(i)
  \/ \E r \in Requests :
       \/ Load(r) \/ Generate(r) \/ Issue(r) \/ Pay(r) \/ Edit(r) \/ WriteLine(r) \/ Delete(r)
       \/ SaveCustomer(r) \/ GiveUp(r)

Spec == Init /\ [][Next]_vars

----------------------------------------------------------------------------

\* What the customer owes: the invoices issued and not paid.
Receivables ==
  SumOver([i \in Invoices |-> invoices[i].total],
          {i \in Invoices : invoices[i].status = "issued"})

Drift == used - Receivables

\* The ways the code has of losing track of an issued invoice: a form saved
\* over it, or a deletion, by a request that had loaded a draft; lines written
\* to it; a total that changed under the request that issues or pays it; and a
\* customer form that had loaded an older credit_used.
LosesTrack(a) ==
  \/ a.op \in {"edit", "delete"} /\ invoices[a.id].status = "issued"
  \/ a.op \in {"add_line", "delete_line"} /\ invoices[a.id].status = "issued"
  \/ a.op \in {"issue", "pay"} /\ a.row.total # invoices[a.id].total
  \/ a.op = "customer" /\ a.used # used

\* The invoicing service promises that credit_used moves at most once for each
\* real transition.  It does, whatever requests race: credit_used and the open
\* invoices part company only in the steps named above.
CreditFollowsInvoices ==
  [][Drift' # Drift =>
       \E r \in Requests : \E a \in asked[r] : asked'[r] = {} /\ LosesTrack(a)]_vars

\* The service calls itself idempotent on the shipment: it creates a second
\* invoice only for a request that had looked before the first one was there.
BilledOnce ==
  [][\A r \in Requests : \A a \in asked[r] :
       a.op = "generate" /\ asked'[r] = {} /\ invoices' # invoices /\ Billed => ~a.fresh]_vars

====
