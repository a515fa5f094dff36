---- MODULE SignalHandlers ----
(***************************************************************************)
(* The signal handlers of the applications, in two tables.                 *)
(*                                                                         *)
(* First the handlers that derive a row of one application from a row of   *)
(* another: a work-in-progress entry from a labour booking, an incident    *)
(* from an andon alert, a receipt from an approved return.  A handler runs *)
(* after the source row has been saved, in the same request but in a       *)
(* statement of its own, and keeps from deriving twice in one or more of   *)
(* three ways:                                                             *)
(*                                                                         *)
(*   looks   it looks for the derived row first                            *)
(*   latch   it reads a mark on the source object that it holds, and sets  *)
(*           the mark on the source row with the derived row               *)
(*   unique  the database has a unique key for the derived rows of one     *)
(*           source                                                        *)
(*                                                                         *)
(*   fires   "created": the save inserted the source row; "saved": the     *)
(*           source row calls for it; "changed": it did not do so before   *)
(*   linked  the derived row holds a foreign key to the source             *)
(*   undo    what deleting the source does first: "delete" the derived     *)
(*           rows, "reverse" the first that no reversal names, "reverse    *)
(*           all" without a look for a reversal, or "none"                 *)
(***************************************************************************)

Handler(fires, ways, undo) ==
  [fires |-> fires, ways |-> ways, linked |-> TRUE, undo |-> undo]

\* The derived row names its source without a foreign key.
Unlinked(handler) == [handler EXCEPT !.linked = FALSE]

----------------------------------------------------------------------------

\* OperatorTimeLog: the attendance of the day is one row for all its logs.
AttendanceOfDay == Unlinked(Handler("saved", {"looks", "unique"}, "none"))
BookingOfJob == Handler("created", {"looks"}, "none")
BookingOfMaintenance == Handler("created", {"looks"}, "none")
PieceworkOfReport == Handler("created", {"looks", "unique"}, "none")

\* WIPEntry, and its reversal when the booking or the report is deleted.
LaborApplied == Handler("created", {"looks", "unique"}, "reverse")
LaborAppliedUndone == LaborApplied
Completion == Handler("created", {"looks", "unique"}, "reverse")
CompletionUndone == Completion

\* AssetMeterReading -> UtilityConsumption -> CarbonEmission.
ConsumptionOfReading == Handler("created", {"looks", "unique"}, "reverse")
ConsumptionUndone == ConsumptionOfReading
EmissionOfConsumption == Handler("created", {"looks", "unique"}, "reverse")
EmissionUndone == EmissionOfConsumption

\* IoTReading: its metric, its condition reading, the anomalies it shows.
MetricOfTag == Unlinked(Handler("saved", {"looks", "unique"}, "none"))
ConditionOfReading == Handler("created", {"looks", "unique"}, "delete")
ConditionUndone == ConditionOfReading
AnomalyOfReading == Handler("created", {"looks", "unique"}, "none")

\* AnomalyDetection: notifications, an andon alert, a failure prediction.
NoticesOfAnomaly == Handler("created", {"looks", "unique"}, "none")
AlertOfAnomaly == Handler("created", {"looks", "unique"}, "delete")
AlertUndone == AlertOfAnomaly

StateOfDowntime == Handler("created", {"looks", "unique"}, "delete")

IncidentOfAndon == Handler("created", {"looks", "unique"}, "none")
IncidentOfNCR == Handler("saved", {"looks", "unique"}, "none")

\* A prediction is open for an asset, whichever of its readings called for it.
PredictionOfAsset == Unlinked(Handler("saved", {"looks"}, "none"))
RepairOfAndon == Handler("created", {"looks"}, "none")
UsageOfReport == Unlinked(Handler("created", {"looks"}, "none"))

\* No look and no key: a metric each time the receipt, or the inspection, has
\* reached its final status.
MetricOfReceipt == Unlinked(Handler("changed", {}, "none"))
MetricOfInspection == Unlinked(Handler("changed", {}, "none"))

ReceiptOfReturn == Handler("saved", {"looks"}, "none")
RestockOfLine == Handler("saved", {"latch"}, "none")
RepairOfLine == Handler("saved", {"latch", "looks"}, "none")
BookingOfRepair == Handler("saved", {"latch"}, "none")
ReplacementOfClaim == Handler("saved", {"latch"}, "none")

ActivityOfInstance == Handler("saved", {"looks"}, "none")
CycleTimeOfInstance == Handler("saved", {"looks"}, "none")

\* Every save of a decided request is notified again.
NoticeOfDecision == Unlinked(Handler("saved", {}, "none"))
NoticeOfFailedRun == Unlinked(Handler("saved", {"looks"}, "none"))
ApprovalOfPurchase == Unlinked(Handler("saved", {"looks"}, "none"))

\* ProductionReport and Shipment -> StockMovement.
MovementOfReport == Handler("created", {"looks"}, "reverse all")
MovementOfReportUndone == MovementOfReport
MovementOfShipment == Handler("saved", {"looks"}, "reverse all")
MovementOfShipmentUndone == MovementOfShipment

OrderOfLine == Handler("saved", {"looks"}, "none")

DerivingHandlers ==
  {AttendanceOfDay, BookingOfJob, BookingOfMaintenance, PieceworkOfReport,
   LaborAppliedUndone, CompletionUndone, ConsumptionUndone, EmissionUndone,
   MetricOfTag, ConditionUndone, AnomalyOfReading, NoticesOfAnomaly, AlertUndone,
   StateOfDowntime, IncidentOfAndon, IncidentOfNCR,
   PredictionOfAsset, RepairOfAndon, UsageOfReport, MetricOfReceipt,
   MetricOfInspection, ReceiptOfReturn, RestockOfLine, RepairOfLine,
   BookingOfRepair, ReplacementOfClaim, ActivityOfInstance, CycleTimeOfInstance,
   NoticeOfDecision, NoticeOfFailedRun, ApprovalOfPurchase, MovementOfReportUndone,
   MovementOfShipmentUndone, OrderOfLine}

----------------------------------------------------------------------------

(***************************************************************************)
(* Then the models whose saves leave entries in tenants.TenantAuditLog, by *)
(* the handlers of each application.  A handler hears of a save twice,     *)
(* before and after the UPDATE; to know that the status has changed it     *)
(* must remember what the status was, and the applications do it in four   *)
(* ways:                                                                   *)
(*                                                                         *)
(*   "instance"  on the object that is being saved                         *)
(*   "process"   in a dictionary of the process, popped after the save     *)
(*   "cache"     in a dictionary of the process, never read from the row   *)
(*   "nowhere"   every save is an entry                                    *)
(*                                                                         *)
(* Of the statuses of a model it matters which ones are loud: an entry is  *)
(* written when the row takes one of them.                                 *)
(***************************************************************************)

Memories == {"instance", "process", "cache", "nowhere"}

\* Two statuses stand for all the loud ones of a model.
Loud == {"one", "other"}

\* Creation and every change of the status.
Tracked(memory) ==
  [memory |-> memory, statuses |-> Loud, initial |-> Loud, loud |-> Loud,
   creation |-> TRUE, deletion |-> FALSE, written |-> TRUE]

\* A change to some of the statuses only.
Partly(trail) ==
  [trail EXCEPT !.statuses = @ \cup {"quiet"}, !.initial = {"quiet"}]

CreationLeftOut(trail) == [trail EXCEPT !.creation = FALSE]

\* Creation and nothing else.
CreationOnly == [Tracked("instance") EXCEPT !.loud = {}]

\* A flag of which only the raising is an entry.
RaisedOnly == [Tracked("instance") EXCEPT !.statuses = {"one", "quiet"},
                                      !.initial = {"one", "quiet"}, !.loud = {"one"}]

WithDeletion(trail) == [trail EXCEPT !.deletion = TRUE]

\* The entry is built with a field the log does not have, and the handler
\* swallows the error.
NeverWritten(trail) == [trail EXCEPT !.written = FALSE]

----------------------------------------------------------------------------

\* Warehouse (is_active), receipts, transfers, adjustments, counts.
WarehouseTrail == Tracked("instance")
GoodsReceiptTrail == Tracked("instance")
StockTransferTrail == Tracked("instance")
StockAdjustmentTrail == CreationOnly
CycleCountTrail == Tracked("instance")

\* Asset, PMSchedule, FailurePrediction, MaintenanceWorkOrder, Tool.
AssetTrail == Tracked("instance")
MaintenancePlanTrail == Tracked("instance")

\* Supplier (is_approved); orders, RFQs, quotations, ASNs, invoices, blankets.
SupplierTrail == Tracked("instance")
PurchasingTrail == Tracked("instance")
AwardTrail == CreationOnly

\* Loud: running, paused, completed, skipped; released, obsolete.
WorkOrderTrail == Tracked("instance")
OperationTrail == CreationLeftOut(Partly(Tracked("instance")))
AndonTrail == Tracked("instance")
InstructionTrail == Tracked("instance")
InstructionVersionTrail == CreationLeftOut(Partly(Tracked("instance")))

\* Loud: approved, cancelled, converted; acknowledged, resolved, ignored.
MRPRunChanges == Tracked("instance")
MRPCalculationChanges == Tracked("instance")
RequisitionChanges == CreationLeftOut(Partly(Tracked("instance")))
MRPExceptionChanges == CreationLeftOut(Partly(Tracked("instance")))

MRPRunTrail == WithDeletion(MRPRunChanges)
MRPCalculationTrail == WithDeletion(MRPCalculationChanges)
RequisitionTrail == WithDeletion(RequisitionChanges)
MRPExceptionTrail == WithDeletion(MRPExceptionChanges)

\* Loud of a scenario: applied, discarded, completed.
MasterScheduleTrail == Tracked("instance")
ProductionOrderTrail == Tracked("instance")
ScenarioTrail == Partly(Tracked("instance"))
OptimizationTrail == Tracked("instance")

\* Routing, RoutingOperation, WorkCenter, CapacityCalendar.
PlanningConfigTrail == WithDeletion(Tracked("nowhere"))

\* The result of an in-process inspection; corrective and preventive actions
\* are loud when completed or cancelled.
IncomingTrail == Tracked("instance")
InProcessTrail == Tracked("instance")
FinalTrail == Tracked("instance")
CertificateTrail == RaisedOnly
NonConformanceTrail == Tracked("instance")
CorrectiveTrail == CreationLeftOut(Partly(Tracked("instance")))
PreventiveTrail == CreationLeftOut(Partly(Tracked("instance")))

BOMTrail == Tracked("instance")
AlternateTrail == Tracked("instance")
EcoTrail == Tracked("instance")
ProductComplianceTrail == Tracked("instance")

\* payload is no field of TenantAuditLog.
LaborTrail == NeverWritten(Tracked("process"))
CostTrail == NeverWritten(Tracked("process"))

ComplianceTrail == Tracked("process")
SignatureTrail == CreationOnly
UtilityTrail == Tracked("process")
UtilityFlagTrail == Tracked("process")

WorkflowTrail == Tracked("cache")

ReportingTrail == Tracked("nowhere")

\* metadata is no field of TenantAuditLog.
DeviceTrail == NeverWritten(Tracked("nowhere"))

SubscriptionTrail == WithDeletion(Tracked("nowhere"))
BrandingTrail == Tracked("nowhere")

AuditTrails ==
  {WarehouseTrail, GoodsReceiptTrail, StockTransferTrail, StockAdjustmentTrail,
   CycleCountTrail, AssetTrail, MaintenancePlanTrail, SupplierTrail, PurchasingTrail,
   AwardTrail, WorkOrderTrail, OperationTrail, AndonTrail, InstructionTrail,
   InstructionVersionTrail, MRPRunTrail, MRPCalculationTrail, RequisitionTrail,
   MRPExceptionTrail, MasterScheduleTrail, ProductionOrderTrail, ScenarioTrail,
   OptimizationTrail, PlanningConfigTrail, IncomingTrail, InProcessTrail, FinalTrail,
   CertificateTrail, NonConformanceTrail, CorrectiveTrail, PreventiveTrail, BOMTrail,
   AlternateTrail, EcoTrail, ProductComplianceTrail, LaborTrail, CostTrail,
   ComplianceTrail, SignatureTrail, UtilityTrail, UtilityFlagTrail, WorkflowTrail,
   ReportingTrail, DeviceTrail, SubscriptionTrail, BrandingTrail}

====
