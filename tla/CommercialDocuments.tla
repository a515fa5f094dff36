---- MODULE CommercialDocuments ----
(***************************************************************************)
(* The documents of apps/sales, apps/procurement, apps/rma and apps/cost:  *)
(* customers, orders, shipments and invoices; purchase orders, requests    *)
(* for quotation, quotations, shipping notices, blanket orders and their   *)
(* releases; returns, repairs, warranties and chargebacks; cost versions,  *)
(* jobs and accounting periods.  And those of apps/wfa, apps/bi, apps/mes, *)
(* apps/inventory, apps/tenants and apps/accounts: process definitions and *)
(* instances, suggestions, prediction runs, report schedules, andon        *)
(* alerts, work instructions, stock adjustments and counts, subscriptions, *)
(* invites.                                                                *)
(***************************************************************************)
EXTENDS DocumentKinds

CustomerStatuses == {"active", "inactive", "on_hold", "blacklisted"}

Customer ==
  Form(CustomerStatuses,
       {SaveFields({"active"}, "inactive"), SaveFields({"inactive"}, "active"),
        Lines(Anywhere)})

CommunicationLogStatuses == {"open", "done", "cancelled"}

\* A day after it was written the log takes no more changes.
CommunicationLog == Form(CommunicationLogStatuses, {})

DeliveryRouteStatuses == {"planned", "dispatched", "completed", "cancelled"}

DeliveryRoute == Form(DeliveryRouteStatuses, {})

OrderStatuses ==
  {"draft", "submitted", "credit_check", "confirmed", "in_production", "fulfilled",
   "invoiced", "closed", "on_hold", "cancelled"}

\* Submission ends in credit_check when the customer's credit does not cover it.
OrderMoves ==
  {Op({"draft"}, {"draft"}, {"submitted", "credit_check"}, "update"),
   CheckedUpdate({"on_hold"}, {"on_hold"}, "draft")}
    \cup FromLoaded({"submitted", "credit_check"}, "confirmed")
    \cup FromLoaded(OrderStatuses \ {"fulfilled", "invoiced", "closed", "cancelled"},
                    "cancelled")
    \cup FromLoaded(OrderStatuses \ {"on_hold", "closed", "cancelled"}, "on_hold")

SalesOrder ==
  [statuses |-> OrderStatuses, initial |-> {"draft"},
   ops |-> OrderMoves \cup
           {Edit({"draft", "on_hold"}), Lines({"draft", "on_hold"}), Delete({"draft"})}]

ShipmentStatuses ==
  {"planned", "picked", "packed", "in_transit", "delivered", "returned", "cancelled"}

ShipmentMoves ==
  {CheckedUpdate({"planned"}, {"planned"}, "picked"),
   CheckedUpdate({"picked"}, {"picked"}, "packed"),
   CheckedUpdate({"packed"}, {"packed"}, "in_transit"),
   CheckedUpdate({"in_transit"}, {"in_transit"}, "delivered")}
    \cup FromLoaded({"planned", "picked", "packed", "in_transit"}, "cancelled")

\* A line is added under a test of the shipment, edited and deleted without one.
Shipment ==
  [statuses |-> ShipmentStatuses, initial |-> {"planned"},
   ops |-> ShipmentMoves \cup
           {Edit({"planned", "picked"}), Lines({"planned", "picked"}),
            Lines(Anywhere), Delete({"planned", "cancelled"})}]

SalesInvoiceStatuses == {"draft", "issued", "paid", "overdue", "cancelled"}

\* An invoice line is deleted in any status; nothing sets "overdue".
SalesInvoice ==
  [statuses |-> SalesInvoiceStatuses, initial |-> {"draft"},
   ops |-> {CheckedUpdate({"draft"}, {"draft"}, "issued"),
            CheckedUpdate({"issued", "overdue"}, {"issued", "overdue"}, "paid"),
            Edit({"draft", "overdue"}), Lines({"draft", "overdue"}), Lines(Anywhere),
            Delete({"draft"})}]

RMAMoves ==
  {SaveFields({"draft"}, "submitted"), SaveFields({"submitted"}, "approved"),
   SaveFields({"submitted"}, "rejected"),
   SaveFields({"draft", "submitted", "approved"}, "cancelled")}

RMARequestStatuses == {"draft", "submitted", "approved", "rejected", "cancelled"}

RMARequest ==
  [statuses |-> RMARequestStatuses, initial |-> {"draft"},
   ops |-> RMAMoves \cup {Edit({"draft"}), Lines({"draft"}), Delete({"draft"})}]

ReturnReceiptStatuses == {"draft", "inspecting", "completed", "cancelled"}

ReceiptLines == Lines({"draft", "inspecting"})

ReturnReceipt ==
  [statuses |-> ReturnReceiptStatuses, initial |-> {"draft"},
   ops |-> {SaveFields({"draft"}, "inspecting"),
            SaveFields({"inspecting"}, "completed"),
            SaveFields({"draft", "inspecting"}, "cancelled"),
            Edit({"draft", "inspecting"}), ReceiptLines,
            Delete({"draft", "cancelled"})}]

OpenRepair == {"draft", "in_progress", "on_hold"}

RepairMoves ==
  {SaveFields({"draft"}, "in_progress"), SaveFields({"in_progress"}, "on_hold"),
   SaveFields({"on_hold"}, "in_progress"),
   SaveFields({"in_progress", "on_hold"}, "completed"),
   SaveFields(OpenRepair, "cancelled")}

\* Parts used and labour spent; either gives the order its costs again.
RepairWork == Lines(OpenRepair)

RepairOrder ==
  [statuses |-> OpenRepair \cup {"completed", "cancelled"}, initial |-> {"draft"},
   ops |-> RepairMoves \cup
           {Edit(OpenRepair), RepairWork, Delete({"draft", "cancelled"})}]

WarrantyRegistrationStatuses == {"active", "expired", "void", "claimed"}

\* expire_warranties expires it; the fulfilment of a claim marks it claimed.
WarrantyRegistration ==
  Form(WarrantyRegistrationStatuses,
       {Update({"active"}, "expired"), SaveFields({"active"}, "claimed")})

WarrantyClaimMoves ==
  {SaveFields({"submitted"}, "validated"), SaveFields({"validated"}, "approved"),
   SaveFields({"submitted", "validated"}, "rejected"),
   SaveFields({"approved"}, "fulfilled")}

WarrantyClaimStatuses ==
  {"submitted", "validated", "approved", "rejected", "fulfilled"}

WarrantyClaim ==
  [statuses |-> WarrantyClaimStatuses, initial |-> {"submitted"},
   ops |-> WarrantyClaimMoves \cup
           {Edit({"submitted", "validated"}), Delete({"submitted"})}]

ChargebackTransitions ==
  {SaveFields({"draft"}, "pending"), SaveFields({"pending"}, "issued"),
   SaveFields({"issued"}, "disputed"),
   SaveFields({"issued", "disputed"}, "recovered"),
   SaveFields({"issued", "disputed"}, "written_off")}

SupplierChargebackStatuses ==
  {"draft", "pending", "issued", "disputed", "recovered", "written_off"}

SupplierChargeback ==
  [statuses |-> SupplierChargebackStatuses, initial |-> {"draft"},
   ops |-> ChargebackTransitions \cup {Edit({"draft", "pending"}), Delete({"draft"})}]

StandardCostVersionStatuses == {"draft", "approved", "active", "archived"}

\* Activation archives whatever is active, this version included, and then
\* updates where approved: a double click archives what the first activated.
StandardCostVersion ==
  [statuses |-> StandardCostVersionStatuses, initial |-> {"draft"},
   ops |-> {CheckedUpdate({"draft"}, {"draft"}, "approved"),
            CheckedUpdate({"approved"}, {"approved"}, "active"),
            Update({"active"}, "archived"),
            Edit({"draft"}), Delete({"draft"}), Lines({"draft", "approved", "active"})}]

\* A cost row is edited in a version of any status.
StandardCost == Catalogue

JobCostStatuses == {"open", "closed"}

JobCost ==
  [statuses |-> JobCostStatuses, initial |-> {"open"},
   ops |-> {CheckedUpdate({"open"}, {"open"}, "closed"), Lines(Anywhere),
            Delete(Anywhere)}]

AccountingPeriodStatuses == {"open", "locked", "closed"}

AccountingPeriod ==
  [statuses |-> AccountingPeriodStatuses, initial |-> {"open"},
   ops |-> {CheckedUpdate({"open"}, {"open"}, "locked"),
            CheckedUpdate({"locked"}, {"locked"}, "closed"),
            Edit({"open", "locked"}), Delete({"open"})}]

\* Applying the overhead of a period again deletes what is not reversed.
OverheadMoves == {Delete({"applied"}), SaveFields({"applied"}, "reversed")}

OverheadAllocation ==
  [statuses |-> {"applied", "reversed"}, initial |-> {"applied"}, ops |-> OverheadMoves]

\* What the costs of an order and of a period come to.
ActualCost == Recomputed
COGMReport == Recomputed
GrossMarginReport == Recomputed
PlantPnLReport == Recomputed

PurchaseOrderStatuses ==
  {"draft", "submitted", "approved", "acknowledged", "in_progress", "received",
   "closed", "rejected", "cancelled"}

\* A revision tests the loaded status and sets "draft" without a condition;
\* the submission of a shipping notice starts an acknowledged order.
PurchaseOrderMoves ==
  {Update({"draft"}, "submitted"),
   Update({"submitted"}, "approved"),
   Update({"submitted"}, "rejected"),
   Update({"approved"}, "acknowledged"),
   Update({"acknowledged"}, "in_progress"),
   Update({"received"}, "closed"),
   Update({"draft", "submitted", "approved", "acknowledged", "in_progress"}, "cancelled"),
   CheckedUpdate({"draft", "submitted", "approved", "rejected"}, Anywhere, "draft")}

PurchaseOrder ==
  [statuses |-> PurchaseOrderStatuses, initial |-> {"draft"},
   ops |-> PurchaseOrderMoves \cup
           {Edit({"draft", "rejected"}), Lines({"draft", "rejected"}),
            Delete({"draft", "rejected", "cancelled"})}]

RequestForQuotationStatuses == {"draft", "issued", "closed", "awarded", "cancelled"}

RequestForQuotationMoves ==
  {Update({"draft"}, "issued"), Update({"issued"}, "closed"),
   Update({"closed"}, "awarded"),
   Update({"draft", "issued", "closed"}, "cancelled")}

\* Lines in draft; suppliers are invited in draft or issued.
RequestForQuotation ==
  [statuses |-> RequestForQuotationStatuses, initial |-> {"draft"},
   ops |-> RequestForQuotationMoves \cup
           {Edit({"draft"}), Lines({"draft"}), Lines({"draft", "issued"}),
            Delete({"draft", "cancelled"})}]

SupplierQuotationStatuses == {"submitted", "under_review", "accepted", "rejected"}

\* The award of the request for quotation writes every quotation without a
\* condition; no view starts a review.
SupplierQuotation ==
  [statuses |-> SupplierQuotationStatuses, initial |-> {"submitted"},
   ops |-> {Update(Anywhere, "rejected"), Update(Anywhere, "accepted"),
            Lines({"submitted", "under_review"}),
            Delete({"submitted", "under_review", "rejected"})}]

SupplierASNStatuses == {"draft", "submitted", "in_transit", "received", "cancelled"}

SupplierASN ==
  [statuses |-> SupplierASNStatuses, initial |-> {"draft"},
   ops |-> {Update({"draft"}, "in_transit"),
            Update({"in_transit", "submitted"}, "received"),
            Update({"draft", "submitted", "in_transit"}, "cancelled"),
            Lines({"draft"})}]

SupplierInvoiceStatuses ==
  {"submitted", "under_review", "approved", "paid", "rejected", "disputed"}

SupplierInvoiceMoves ==
  {Update({"submitted"}, "under_review"),
   Update({"submitted", "under_review"}, "approved"),
   Update({"approved"}, "paid"),
   Update({"submitted", "under_review"}, "rejected"),
   Update({"under_review", "approved"}, "disputed")}

\* No view leads out of "disputed".
SupplierInvoice ==
  [statuses |-> SupplierInvoiceStatuses, initial |-> {"submitted"},
   ops |-> SupplierInvoiceMoves \cup {Delete({"submitted", "rejected"})}]

BlanketOrderStatuses == {"draft", "active", "closed", "expired", "cancelled"}

BlanketOrder ==
  [statuses |-> BlanketOrderStatuses, initial |-> {"draft"},
   ops |-> {Update({"draft"}, "active"), Update({"active"}, "closed"),
            Update({"draft", "active"}, "cancelled"),
            Edit({"draft"}), Lines({"draft"}), Delete({"draft", "cancelled"})}]

ScheduleReleaseStatuses == {"draft", "released", "received", "cancelled"}

\* What a release does to the consumption of the blanket order is in BlanketRelease.
ScheduleRelease ==
  [statuses |-> ScheduleReleaseStatuses, initial |-> {"draft"},
   ops |-> {Update({"draft"}, "released"), Update({"released"}, "received"),
            Update({"draft", "released"}, "cancelled"), Lines({"draft"})}]

\* A supplier with its contacts; approval is a field of its form.
Supplier == Folder

\* One row for each supplier and month, computed from its events.
SupplierScorecard == Recomputed

\* Master data, child rows and analyses.
CustomerCategory == Catalogue
CustomerContact == Catalogue
CustomerDocument == Entry
PriceList == Folder
RMAReason == Catalogue
WarrantyPolicy == Catalogue
FailureMode == Catalogue
RootCauseCategory == Catalogue
ReturnAnalysis == Catalogue
CostVariance == Catalogue
CostDriver == Catalogue
OverheadPool == Catalogue
OverheadRate == Catalogue
DriverActuals == Catalogue

CommercialKinds ==
  {Customer, CommunicationLog, DeliveryRoute, SalesOrder, Shipment, SalesInvoice,
   RMARequest, ReturnReceipt, RepairOrder, WarrantyRegistration, WarrantyClaim,
   SupplierChargeback, StandardCostVersion, StandardCost, JobCost, AccountingPeriod,
   CustomerCategory, CustomerContact, CustomerDocument, PriceList, RMAReason,
   WarrantyPolicy, FailureMode, RootCauseCategory, ReturnAnalysis, CostVariance,
   CostDriver, OverheadPool, OverheadRate, DriverActuals, OverheadAllocation,
   ActualCost, COGMReport, GrossMarginReport, PlantPnLReport, PurchaseOrder,
   RequestForQuotation, SupplierQuotation, SupplierASN, SupplierInvoice, BlanketOrder,
   ScheduleRelease, Supplier, SupplierScorecard}

----------------------------------------------------------------------------
\* The platform and the shop floor.

ProcessDefinitionStatuses == {"draft", "active", "archived"}

\* The edit form offers the status, and nodes change under any of them.
ProcessDefinition ==
  [statuses |-> ProcessDefinitionStatuses, initial |-> ProcessDefinitionStatuses,
   ops |-> {Update({"draft"}, "active"), Update({"active"}, "archived"),
            EditStatus(Anywhere, ProcessDefinitionStatuses), Lines(Anywhere),
            Delete({"draft"})}]

ActiveInstance == {"pending", "running"}

\* The test is on the loaded instance and the update has none: a late
\* completion overwrites a cancellation.
ProcessInstance ==
  [statuses |-> ActiveInstance \cup {"completed", "cancelled", "error"},
   initial |-> ActiveInstance,
   ops |-> {CheckedUpdate(ActiveInstance, Anywhere, "completed"),
            CheckedUpdate(ActiveInstance, Anywhere, "cancelled"),
            Lines(ActiveInstance), Delete({"completed", "cancelled", "error"})}]

ProcessOptimizationSuggestionStatuses ==
  {"new", "acknowledged", "applied", "dismissed"}

ProcessOptimizationSuggestion ==
  [statuses |-> ProcessOptimizationSuggestionStatuses, initial |-> {"new"},
   ops |-> {Update({"new"}, "acknowledged"),
            Update({"new", "acknowledged"}, "dismissed"),
            Update(Anywhere, "applied"), Delete(Anywhere)}]

PredictionRunStatuses == {"queued", "running", "completed", "failed", "cancelled"}

\* The run is computed in the transaction that creates it, so a cancellation
\* never finds one queued or running.
PredictionRun ==
  [statuses |-> PredictionRunStatuses, initial |-> {"completed", "failed"},
   ops |-> {SaveFields({"queued", "running"}, "cancelled")}]

ReportScheduleStatuses == {"active", "paused", "disabled"}

ReportSchedule ==
  [statuses |-> ReportScheduleStatuses, initial |-> {"active"},
   ops |-> {SaveFields(Anywhere, "disabled"), SaveFields({"active"}, "paused"),
            SaveFields({"paused"}, "active"),
            Edit(Anywhere), Lines(Anywhere), Delete(Anywhere)}]

AndonMoves ==
  {Update({"open"}, "acknowledged"), SaveRow({"open", "acknowledged"}, "resolved"),
   Update({"open", "acknowledged"}, "cancelled")}

AndonAlertStatuses == {"open", "acknowledged", "resolved", "cancelled"}

AndonAlert ==
  [statuses |-> AndonAlertStatuses, initial |-> {"open"},
   ops |-> AndonMoves \cup {Edit({"open", "acknowledged"}), Delete(Anywhere)}]

WorkInstructionStatuses == {"draft", "released", "obsolete"}

\* An operator signs the current version, which an obsolete one is not.
InstructionAcknowledgement == Lines({"released"})

\* Released with its version, made obsolete with its current version.
WorkInstruction ==
  [statuses |-> WorkInstructionStatuses, initial |-> {"draft"},
   ops |-> {SaveRow(Anywhere, "released"), SaveRow(Anywhere, "obsolete"),
            Edit(Anywhere), Lines(Anywhere), InstructionAcknowledgement,
            Delete(Anywhere)}]

WorkInstructionVersionStatuses == {"draft", "released", "obsolete"}

\* The release of one version makes the other released ones obsolete.
WorkInstructionVersion ==
  [statuses |-> WorkInstructionVersionStatuses, initial |-> {"draft"},
   ops |-> {SaveRow(Anywhere, "released"), Update({"released"}, "obsolete"),
            SaveRow(Anywhere, "obsolete")}]

StockAdjustmentStatuses == {"draft", "posted", "cancelled"}

StockAdjustment ==
  [statuses |-> StockAdjustmentStatuses, initial |-> {"draft"},
   ops |-> {CheckedUpdate({"draft"}, {"draft"}, "posted"), Lines({"draft"}),
            Delete({"draft"})}]

CycleCountSheetStatuses == {"draft", "counting", "reconciled", "cancelled"}

CycleCountSheet ==
  [statuses |-> CycleCountSheetStatuses, initial |-> {"draft"},
   ops |-> {Update({"draft"}, "counting"),
            CheckedUpdate({"counting"}, {"counting"}, "reconciled"),
            Lines({"draft", "counting"}), Delete({"draft", "cancelled"})}]

SubscriptionStatuses == {"trial", "active", "past_due", "cancelled", "paused"}

\* Cancelling marks the row; a resumption that finds it cancelled revives it.
Subscription ==
  [statuses |-> SubscriptionStatuses, initial |-> {"trial"},
   ops |-> {SaveRow(Anywhere, "active"), Edit(Anywhere),
            SaveRow({"cancelled"}, "active")}]

TenantInvoiceStatuses == {"draft", "open", "paid", "void", "uncollectible"}

\* Only a paid invoice is turned away.
TenantInvoice ==
  [statuses |-> TenantInvoiceStatuses, initial |-> {"open"},
   ops |-> {SaveFields({"draft", "open", "void", "uncollectible"}, "paid")}]

UserInviteStatuses == {"pending", "accepted", "expired", "cancelled"}

\* Sending again makes an invitation of any status pending.
UserInvite ==
  [statuses |-> UserInviteStatuses, initial |-> {"pending"},
   ops |-> {SaveRow(Anywhere, "cancelled"), SaveRow(Anywhere, "pending"),
            SaveRow({"pending"}, "expired"), SaveRow({"pending"}, "accepted")}]

\* The edit forms offer is_active; ResetPasswordView and UserToggleActiveView
\* save the whole row that they have loaded.
ResetPassword == Edit(Anywhere)

UserAccount ==
  [statuses |-> {"active", "inactive"}, initial |-> {"active", "inactive"},
   ops |-> {SaveRow({"active"}, "inactive"), SaveRow({"inactive"}, "active"),
            EditStatus(Anywhere, {"active", "inactive"}), ResetPassword,
            Delete(Anywhere)}]

\* The settings of a tenant: created with it, never deleted.
TenantOrganisation == Filed({Edit(Anywhere)})
BrandingSettings == Filed({Edit(Anywhere)})
EmailTemplate == Filed({Edit(Anywhere)})

\* Master data, child rows and reports.
ProcessCategory == Catalogue
ProcessNode == Catalogue
ProcessTransition == Entry
ApprovalPolicy == Folder
ApprovalLevel == Catalogue
EscalationRule == Entry
ApprovalDelegation == Catalogue
NotificationChannel == Catalogue
NotificationTemplate == Catalogue
NotificationRule == Catalogue
IntegrationConnector == Catalogue
ConnectorEndpoint == Catalogue
IntegrationFlow == Folder
IntegrationStep == Catalogue
BottleneckAnalysis == Entry
CycleTimeReport == Entry
KPIDefinition == Catalogue
KPIDashboard == Folder
ReportDataSource == Catalogue
ReportDefinition == Folder
PredictiveModel == Catalogue
DataMart == Folder
ShopFloorOperator == Catalogue
Warehouse == Catalogue
WarehouseZone == Catalogue
StorageBin == Catalogue
Lot == Catalogue
SerialNumber == Catalogue
CycleCountPlan == Catalogue

PlatformKinds ==
  {ProcessDefinition, ProcessInstance, ProcessOptimizationSuggestion, PredictionRun,
   ReportSchedule, AndonAlert, WorkInstruction, WorkInstructionVersion,
   StockAdjustment, CycleCountSheet, Subscription, TenantInvoice, UserInvite,
   ProcessCategory, ProcessNode, ProcessTransition, ApprovalPolicy, ApprovalLevel,
   EscalationRule, ApprovalDelegation, NotificationChannel, NotificationTemplate,
   NotificationRule, IntegrationConnector, ConnectorEndpoint, IntegrationFlow,
   IntegrationStep, BottleneckAnalysis, CycleTimeReport, KPIDefinition, KPIDashboard,
   ReportDataSource, ReportDefinition, PredictiveModel, DataMart, ShopFloorOperator,
   Warehouse, WarehouseZone, StorageBin, Lot, SerialNumber, CycleCountPlan,
   UserAccount, TenantOrganisation, BrandingSettings, EmailTemplate}

====
