---- MODULE EngineeringDocuments ----
(***************************************************************************)
(* The documents of apps/plm, apps/bom and apps/dms: products and their    *)
(* revisions, engineering changes, drawings, launch projects, bills of     *)
(* materials, managed documents and their approval, archive and holds;     *)
(* and those of apps/eam, apps/iot and apps/utility: assets, preventive    *)
(* maintenance, maintenance orders, tools, brokers, devices, twins,        *)
(* anomalies, demand response and peak shaving.                            *)
(***************************************************************************)
EXTENDS DocumentKinds

ProductStatuses == {"draft", "active", "obsolete", "phased_out"}

Product == Form(ProductStatuses, {})

ProductRevisionStatuses == {"draft", "active", "superseded"}

\* A revision created active supersedes the active ones.
ProductRevision ==
  [statuses |-> ProductRevisionStatuses, initial |-> ProductRevisionStatuses,
   ops |-> {Update({"active"}, "superseded"), Delete(Anywhere)}]

ProductVariantStatuses == {"active", "inactive"}

ProductVariant == Form(ProductVariantStatuses, {})

ECOStatuses ==
  {"draft", "submitted", "under_review", "approved", "rejected", "implemented", "cancelled"}

ECOMoves ==
  {Update({"draft"}, "submitted"),
   Update({"submitted", "under_review"}, "approved"),
   Update({"submitted", "under_review"}, "rejected"),
   Update({"approved"}, "implemented")}

\* Impacted items and attachments change in any status.
ECOLines == Lines(Anywhere)

EngineeringChangeOrder ==
  [statuses |-> ECOStatuses, initial |-> {"draft"},
   ops |-> ECOMoves \cup {Edit({"draft"}), Delete({"draft"}), ECOLines}]

CADVersionStatuses == {"draft", "under_review", "released", "obsolete"}

\* The upload form offers the status; a release obsoletes the released version.
CADDocumentVersion ==
  [statuses |-> CADVersionStatuses, initial |-> CADVersionStatuses,
   ops |-> {SaveFields(Anywhere, "released"), Update({"released"}, "obsolete"),
            Delete(Anywhere)}]

ProductComplianceStatuses ==
  {"pending", "in_progress", "compliant", "non_compliant", "expired"}

\* The nightly command expires a certificate with a conditional UPDATE.
ProductCompliance ==
  Form(ProductComplianceStatuses,
       {Update({"compliant"}, "expired")})

NPIProjectStatuses == {"planning", "in_progress", "on_hold", "completed", "cancelled"}

NPIProject ==
  Form(NPIProjectStatuses, {})

NPIStageStatuses == {"pending", "in_progress", "passed", "failed", "skipped"}

\* Stages are created with their project and deleted with it.
NPIStage ==
  [statuses |-> NPIStageStatuses, initial |-> {"pending"},
   ops |-> {EditStatus(Anywhere, NPIStageStatuses)}]

NPIDeliverableStatuses == {"pending", "in_progress", "done", "blocked"}

NPIDeliverable ==
  Form(NPIDeliverableStatuses, {SaveFields(Anywhere, "done")})

BOMStatuses == {"draft", "under_review", "approved", "released", "obsolete"}

\* A release obsoletes the other released bills of the product, after its own UPDATE.
BOMMoves ==
  {Update({"draft"}, "under_review"), Update({"under_review"}, "approved"),
   Update({"under_review"}, "draft"), Update({"approved"}, "released"),
   Update({"released"}, "obsolete"), Update({"released", "approved"}, "obsolete")}

BOMLines == Lines({"draft", "under_review"})

\* A revision is recorded in any status.
BOMRevisions == Lines(Anywhere)

\* A rollback replaces the lines under the same test as their edit.
BOMRollback == Lines({"draft", "under_review"})

BillOfMaterials ==
  [statuses |-> BOMStatuses, initial |-> {"draft"},
   ops |-> BOMMoves \cup
           {Edit({"draft", "under_review"}), BOMLines, BOMRevisions, BOMRollback,
            Delete({"draft", "under_review"})}]

AlternateMaterialStatuses == {"pending", "approved", "rejected"}

AlternateMaterial ==
  [statuses |-> AlternateMaterialStatuses, initial |-> {"pending"},
   ops |-> {SaveFields(Anywhere, "approved"), SaveFields(Anywhere, "rejected"),
            Edit(Anywhere), Delete(Anywhere)}]

BOMSyncMapStatuses == {"pending", "in_sync", "drift_detected", "manual_override"}

\* The comparison of the two bills writes what it found.
BOMSyncMap ==
  [statuses |-> BOMSyncMapStatuses, initial |-> {"pending"},
   ops |-> {SaveFields(Anywhere, "in_sync"), SaveFields(Anywhere, "drift_detected"),
            Edit(Anywhere), Delete(Anywhere)}]

DocumentStatuses ==
  {"draft", "in_review", "approved", "effective", "superseded", "archived"}

\* The approval views and the archive views write the document's status after a
\* test on their own row; the lock of a legal hold is in LegalHold.
DocumentMoves ==
  {SaveFields({"draft"}, "in_review"),
   SaveFields(DocumentStatuses \ {"archived"}, "archived"),
   SaveFields(Anywhere, "draft"), SaveFields(Anywhere, "effective"),
   CheckedUpdate(DocumentStatuses \ {"effective"}, Anywhere, "effective"),
   CheckedUpdate(DocumentStatuses \ {"archived"}, Anywhere, "archived")}

\* document_edit_view asks for the lock only, never for the status.
Document ==
  [statuses |-> DocumentStatuses, initial |-> {"draft"},
   ops |-> DocumentMoves \cup {Edit(Anywhere), Lines(Anywhere), Delete(Anywhere)}]

DocumentVersionStatuses == {"draft", "under_review", "released", "superseded"}

\* A release supersedes the released versions of the document; a released
\* version can still be edited, and its save releases it again.
DocumentVersion ==
  [statuses |-> DocumentVersionStatuses, initial |-> {"draft"},
   ops |-> {SaveFields({"draft", "under_review"}, "released"),
            Update({"released"}, "superseded"), Edit(Anywhere), Lines(Anywhere),
            Delete(Anywhere)}]

OpenRequest == {"pending", "in_progress"}

DocumentApprovalRequestStatuses ==
  {"pending", "in_progress", "approved", "rejected", "cancelled"}

\* Created in progress by the view; an action may advance the stage.
DocumentApprovalRequest ==
  [statuses |-> DocumentApprovalRequestStatuses, initial |-> {"in_progress"},
   ops |-> {SaveFields(OpenRequest, "approved"), SaveFields(OpenRequest, "rejected"),
            SaveFields(OpenRequest, "cancelled"), Lines(OpenRequest),
            Delete({"approved", "rejected", "cancelled"})}]

DocumentAssignmentStatuses == {"active", "completed", "cancelled"}

DocumentAssignment ==
  [statuses |-> DocumentAssignmentStatuses, initial |-> {"active"},
   ops |-> {SaveFields(Anywhere, "completed"), SaveFields(Anywhere, "cancelled"),
            Edit(Anywhere), Lines({"active"}), Lines(Anywhere), Delete(Anywhere)}]

DocumentArchiveStatuses == {"archived", "restored", "purged"}

DocumentArchive ==
  [statuses |-> DocumentArchiveStatuses, initial |-> {"archived"},
   ops |-> {SaveFields({"archived"}, "restored")}]

HoldRowStatuses == {"active", "released"}

HoldRow ==
  [statuses |-> HoldRowStatuses, initial |-> {"active"},
   ops |-> {SaveFields({"active"}, "released"), Edit({"active"}), Delete({"released"})}]

\* Master data and rows without a status.
ProductCategory == Catalogue
ProductSpecification == Entry
CADDocument == Folder
SubstitutionRule == Catalogue
CostElement == Catalogue
DocumentCategory == Catalogue
DocumentAccessRule == Entry
DocumentTemplate == Folder
MediaAttachment == Entry
ApprovalWorkflow == Folder
RetentionPolicy == Catalogue

EngineeringKinds ==
  {Product, ProductRevision, ProductVariant, EngineeringChangeOrder,
   CADDocumentVersion, ProductCompliance, NPIProject, NPIStage, NPIDeliverable,
   BillOfMaterials, AlternateMaterial, Document, DocumentVersion,
   DocumentApprovalRequest, DocumentAssignment, DocumentArchive, HoldRow,
   ProductCategory, ProductSpecification, CADDocument, SubstitutionRule,
   CostElement, BOMSyncMap, DocumentCategory, DocumentAccessRule,
   DocumentTemplate, MediaAttachment, ApprovalWorkflow, RetentionPolicy}

----------------------------------------------------------------------------
\* Assets, devices and energy.

AssetStatuses == {"operational", "down", "maintenance", "retired"}

\* Meter readings and documents.
AssetReadings == Lines(Anywhere)
AssetPapers == Lines(Anywhere)

Asset ==
  Form(AssetStatuses,
       {CheckedUpdate(AssetStatuses \ {"retired"}, Anywhere, "retired"),
        Update(Anywhere, "operational"), AssetReadings, AssetPapers})

PMScheduleStatuses == {"scheduled", "in_progress", "completed", "skipped", "overdue"}

PMScheduleMoves ==
  {Update({"scheduled", "overdue"}, "in_progress"),
   Update({"scheduled", "in_progress", "overdue"}, "completed"),
   Update({"scheduled", "overdue"}, "skipped")}

\* The nightly command marks what is late.
MarkOverdue == Update({"scheduled"}, "overdue")

\* Task completions are recorded in any status.
PMSchedule ==
  [statuses |-> PMScheduleStatuses, initial |-> {"scheduled"},
   ops |-> PMScheduleMoves \cup {MarkOverdue, Lines(Anywhere)}]

FailurePredictionStatuses == {"open", "investigating", "resolved", "false_positive"}

FailurePrediction ==
  [statuses |-> FailurePredictionStatuses, initial |-> {"open"},
   ops |-> {Update({"open"}, "investigating"),
            Update({"open", "investigating"}, "resolved"),
            Update({"open", "investigating"}, "false_positive")}]

MaintenanceOrderStatuses ==
  {"draft", "scheduled", "in_progress", "on_hold", "completed", "cancelled"}

MaintenanceOrderMoves ==
  {Update({"draft"}, "scheduled"),
   Update({"draft", "scheduled", "on_hold"}, "in_progress"),
   Update({"in_progress"}, "on_hold"), Update({"on_hold"}, "in_progress"),
   Update({"in_progress"}, "completed"),
   Update({"draft", "scheduled", "in_progress", "on_hold"}, "cancelled")}

\* Labour and material are logged in any status.
MaintenanceLogs == Lines(Anywhere)

MaintenanceWorkOrder ==
  [statuses |-> MaintenanceOrderStatuses, initial |-> {"draft"},
   ops |-> MaintenanceOrderMoves \cup
           {Edit({"draft", "scheduled", "on_hold"}), MaintenanceLogs,
            Delete({"draft", "cancelled"})}]

ToolStatuses == {"available", "in_use", "maintenance", "retired"}

MoldCavityHistory == Lines(Anywhere)

Tool ==
  Form(ToolStatuses,
       {Update(Anywhere, "retired"), Update(Anywhere, "available"), MoldCavityHistory})

DeviceBrokerStatuses == {"active", "inactive", "error"}

\* A heartbeat saves the status it reports.
DeviceBroker ==
  [statuses |-> DeviceBrokerStatuses, initial |-> {"inactive"},
   ops |-> {SaveFields(Anywhere, "active"), SaveFields(Anywhere, "error"),
            Edit(Anywhere), Delete(Anywhere)}]

DeviceStatuses == {"active", "inactive", "decommissioned"}

Device ==
  [statuses |-> DeviceStatuses, initial |-> {"active"},
   ops |-> {SaveFields({"active", "inactive"}, "decommissioned"),
            SaveFields({"inactive", "decommissioned"}, "active"),
            Edit(Anywhere), Delete(Anywhere)}]

DigitalTwinStatuses == {"draft", "active", "archived"}

\* Attributes and snapshots change in any status.
DigitalTwin ==
  [statuses |-> DigitalTwinStatuses, initial |-> {"draft"},
   ops |-> {Update({"draft"}, "active"), Update({"draft", "active"}, "archived"),
            Edit({"draft", "active"}), Lines(Anywhere), Delete({"draft"})}]

TwinSimulationScenarioStatuses == {"draft", "running", "completed", "failed"}

\* A run that dies leaves "running", which no view accepts.
TwinSimulationScenario ==
  [statuses |-> TwinSimulationScenarioStatuses, initial |-> {"draft"},
   ops |-> {Run(SaveFields({"draft", "completed", "failed"}, "running"),
                {SaveRow(Anywhere, "completed"), SaveRow(Anywhere, "failed")}),
            Delete({"draft", "completed", "failed"})}]

AnomalyDetectionStatuses == {"new", "acknowledged", "resolved", "false_positive"}

AnomalyDetection ==
  [statuses |-> AnomalyDetectionStatuses, initial |-> {"new"},
   ops |-> {SaveFields({"new"}, "acknowledged"),
            SaveFields({"new", "acknowledged"}, "resolved"),
            SaveFields({"new", "acknowledged"}, "false_positive")}]

DemandResponseMoves ==
  {CheckedUpdate({"scheduled"}, {"scheduled"}, "active"),
   CheckedUpdate({"active"}, {"active"}, "completed"),
   CheckedUpdate({"scheduled", "active"}, {"scheduled", "active"}, "cancelled")}

DemandResponseEventStatuses == {"scheduled", "active", "completed", "cancelled"}

DemandResponseEvent ==
  [statuses |-> DemandResponseEventStatuses, initial |-> {"scheduled"},
   ops |-> DemandResponseMoves \cup {Edit({"scheduled"}), Delete({"scheduled"})}]

PeakShavingSuggestionStatuses == {"new", "acknowledged", "dismissed"}

PeakShavingSuggestion ==
  [statuses |-> PeakShavingSuggestionStatuses, initial |-> {"new"},
   ops |-> {SaveFields({"new"}, "acknowledged"),
            SaveFields({"new", "acknowledged"}, "dismissed")}]

UtilityConsumptionStatuses == {"entry", "reversal"}

\* A reversal is history: it has no edit.
UtilityConsumption ==
  [statuses |-> UtilityConsumptionStatuses, initial |-> UtilityConsumptionStatuses,
   ops |-> {Edit({"entry"}), Delete(Anywhere)}]

\* Posting the allocations of a meter and a period again deletes those that
\* are not reversed and inserts new ones.
PostAgain == Delete({"open", "posted"})

ReverseAllocation == SaveFields({"open", "posted"}, "reversed")

UtilityAllocation ==
  [statuses |-> {"open", "posted", "reversed"}, initial |-> {"open", "posted"},
   ops |-> {PostAgain, ReverseAllocation, Delete({"open", "reversed"})}]

\* Recomputing a period deletes the emissions of its consumption; a reversal
\* is a row of its own, and stays.
RecomputeEmissions == Delete({"entry"})

CarbonEmission ==
  [statuses |-> {"entry", "reversal"}, initial |-> {"entry", "reversal"},
   ops |-> {RecomputeEmissions}]

SustainabilityKPI == Recomputed
BenchmarkSnapshot == Recomputed

\* Master data, readings and logs.
AssetCategory == Catalogue
MaintenancePlan == Folder
ConditionMonitoringPoint == Folder
DowntimeEvent == Entry
DeviceProtocol == Catalogue
DeviceTag == Catalogue
IoTReading == Entry
EdgeProcessor == Catalogue
OEEPeriod == Catalogue
LossReason == Catalogue
MachineStateLog == Entry
AlertRule == Catalogue
UtilityType == Catalogue
UtilityMeter == Catalogue
UtilityTariff == Folder
EmissionFactor == Catalogue
BenchmarkComparison == Entry

MaintenanceKinds ==
  {Asset, PMSchedule, FailurePrediction, MaintenanceWorkOrder, Tool, DeviceBroker,
   Device, DigitalTwin, TwinSimulationScenario, AnomalyDetection,
   DemandResponseEvent, PeakShavingSuggestion, AssetCategory, MaintenancePlan,
   ConditionMonitoringPoint, DowntimeEvent, DeviceProtocol, DeviceTag, IoTReading,
   EdgeProcessor, OEEPeriod, LossReason, MachineStateLog, AlertRule, UtilityType,
   UtilityMeter, UtilityConsumption, UtilityTariff, EmissionFactor,
   BenchmarkComparison, UtilityAllocation, CarbonEmission, SustainabilityKPI,
   BenchmarkSnapshot}

====
