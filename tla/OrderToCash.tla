---- MODULE OrderToCash ----
(***************************************************************************)
(* From the order to the cash of one customer: a sales order with its      *)
(* credit test, the invoices, and the shipments of one order line.  A      *)
(* behaviour follows one of the three; their only shared state, the        *)
(* customer's credit_used, is moved by SalesOrders in every way            *)
(* SalesInvoices can.                                                      *)
(***************************************************************************)
EXTENDS SalesOrders, FiniteSets

CONSTANTS
  Invoices,      \* the invoices of the customer
  InvoiceTotal,  \* bound: the largest grand_total of an invoice
  Shipments,     \* the shipments of the order
  MaxOrdered,    \* bound: the largest qty_ordered of the order line
  Given,         \* what a form may enter as the qty_shipped of a shipment line
  MaxShipped     \* bound: how far qty_shipped is followed

VARIABLES
  scene,                    \* which of the three the behaviour follows
  invoices, used, asked,    \* of SalesInvoices
  ships, ordered, shipped, pending, forms   \* of Shipping

invoiceVars == <<invoices, used, asked>>
shipVars == <<ships, ordered, shipped, pending, forms>>
sceneVars == <<scene, vars, invoiceVars, shipVars>>

Billing == INSTANCE SalesInvoices WITH MaxTotal <- InvoiceTotal

Deliveries == INSTANCE Shipping

ASSUME OrderToCashAssumption ==
  Billing!InvoicesAssumption /\ Deliveries!ShippingAssumption

ScenesInit ==
  /\ scene \in {"orders", "invoices", "shipping"}
  /\ Init
  /\ Billing!Init
  /\ Deliveries!Init

ScenesNext ==
  \/ scene = "orders" /\ Next /\ UNCHANGED <<scene, invoiceVars, shipVars>>
  \/ scene = "invoices" /\ Billing!Next /\ UNCHANGED <<scene, vars, shipVars>>
  \/ scene = "shipping" /\ Deliveries!Next /\ UNCHANGED <<scene, vars, invoiceVars>>

ScenesSpec == ScenesInit /\ [][ScenesNext]_sceneVars

----------------------------------------------------------------------------

\* See SalesInvoices: credit_used follows the open invoices.
CreditFollowsInvoices == Billing!CreditFollowsInvoices

\* See Shipping: qty_shipped counts each delivery once.
DeliveriesCountedOnce == Deliveries!DeliveriesCountedOnce

\* See Shipping: the shipments in force do not exceed the order.
OrderNotExceeded == Deliveries!OrderNotExceeded

\* See SalesInvoices: a shipment is invoiced once.
BilledOnce == Billing!BilledOnce

\* See Shipping: a delivered shipment has left stock.
DeliveredLeavesStock == Deliveries!DeliveredLeavesStock

====
