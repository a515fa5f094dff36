---- MODULE QualityDocuments ----
(***************************************************************************)
(* The documents of apps/qms, inspections, non-conformances, corrective    *)
(* and preventive actions and measurement equipment; and of                *)
(* apps/compliance: incidents, risk assessments, safety audits, controlled *)
(* documents, waste manifests, recalls and notices.                        *)
(***************************************************************************)
EXTENDS DocumentKinds

IncomingInspectionStatuses ==
  {"pending", "in_inspection", "accepted", "rejected", "accepted_with_deviation"}

IncomingInspectionMoves ==
  {Update({"pending"}, "in_inspection"),
   Update({"in_inspection"}, "accepted"),
   Update({"in_inspection"}, "rejected"),
   Update({"in_inspection"}, "accepted_with_deviation")}

\* Measurements are stored in any status.
InspectionMeasurements == Lines(Anywhere)

IncomingInspection ==
  [statuses |-> IncomingInspectionStatuses, initial |-> {"pending"},
   ops |-> IncomingInspectionMoves \cup
           {Edit({"pending", "in_inspection"}), InspectionMeasurements,
            Delete({"pending", "in_inspection"})}]

FinalInspectionStatuses ==
  {"pending", "in_inspection", "passed", "failed", "released_with_deviation"}

FinalInspectionMoves ==
  {Update({"pending"}, "in_inspection"),
   Update({"in_inspection"}, "passed"),
   Update({"in_inspection"}, "failed"),
   Update({"in_inspection"}, "released_with_deviation")}

\* So are the results of the tests.
FinalTestResults == Lines(Anywhere)

FinalInspection ==
  [statuses |-> FinalInspectionStatuses, initial |-> {"pending"},
   ops |-> FinalInspectionMoves \cup
           {Edit({"pending", "in_inspection"}), FinalTestResults,
            Delete({"pending", "in_inspection"})}]

NonConformanceStatuses ==
  {"open", "investigating", "awaiting_capa", "resolved", "closed", "cancelled"}

\* NCRCloseView alone tests the loaded row and saves all of it.
NonConformanceMoves ==
  {Update({"open"}, "investigating"),
   Update({"investigating"}, "awaiting_capa"),
   Update({"investigating", "awaiting_capa"}, "resolved"),
   SaveRow({"resolved"}, "closed"),
   Update({"open", "investigating", "awaiting_capa", "resolved"}, "cancelled")}

\* The root cause analysis, the actions and the attachments take changes in any status.
RootCauseAnalysis == Lines(Anywhere)
NCRAttachments == Lines(Anywhere)

NonConformanceReport ==
  [statuses |-> NonConformanceStatuses, initial |-> {"open"},
   ops |-> NonConformanceMoves \cup
           {Edit({"open", "investigating"}), RootCauseAnalysis, NCRAttachments,
            Delete({"open", "cancelled"})}]

ActionStatuses == {"open", "in_progress", "completed", "cancelled"}

\* CorrectiveAction and PreventiveAction share their fields and their views.
QualityAction ==
  [statuses |-> ActionStatuses, initial |-> {"open"},
   ops |-> {Edit(Anywhere), Delete(Anywhere),
            SaveRow({"open", "in_progress"}, "completed")}]

EquipmentStatuses == {"active", "out_of_service", "retired"}

\* EquipmentEditView does not ask is_editable, and the form offers the status.
MeasurementEquipment ==
  [statuses |-> EquipmentStatuses, initial |-> EquipmentStatuses,
   ops |-> {EditStatus(Anywhere, EquipmentStatuses), Delete(Anywhere),
            Update({"active", "out_of_service"}, "retired")}]

CertificateOfAnalysisStatuses == {"issued", "released"}

\* Issued when it is first shown; the customer's details change after its release.
CertificateOfAnalysis ==
  [statuses |-> CertificateOfAnalysisStatuses, initial |-> {"issued"},
   ops |-> {SaveRow(Anywhere, "released"), Edit(Anywhere)}]

\* The control limits are computed again from the last inspections.
SPCChart == Filed({Edit(Anywhere)})

\* Plans, records and standards without a status.
IncomingInspectionPlan == Folder
ProcessInspectionPlan == Catalogue
ProcessInspection == Catalogue
FinalInspectionPlan == Folder

\* Tolerance checks are added to a record and never changed.
ToleranceChecks == Lines(Anywhere)

CalibrationRecord == Filed({Edit(Anywhere), ToleranceChecks, Delete(Anywhere)})
CalibrationStandard == Catalogue

QualityKinds ==
  {IncomingInspection, FinalInspection, NonConformanceReport, QualityAction,
   MeasurementEquipment, CertificateOfAnalysis, SPCChart, IncomingInspectionPlan, ProcessInspectionPlan,
   ProcessInspection, FinalInspectionPlan, CalibrationRecord, CalibrationStandard}

----------------------------------------------------------------------------

IncidentStatuses ==
  {"reported", "investigating", "corrective_action", "closed", "cancelled"}

\* The services in services/incident.py save the fields they name.
IncidentMoves ==
  {SaveFields({"reported"}, "investigating"),
   SaveFields({"investigating"}, "corrective_action"),
   SaveFields({"corrective_action"}, "closed"),
   SaveFields({"reported", "investigating", "corrective_action"}, "cancelled")}

IncidentReport ==
  [statuses |-> IncidentStatuses, initial |-> {"reported"},
   ops |-> IncidentMoves \cup
           {Edit(IncidentStatuses \ {"closed", "cancelled"}), Delete({"reported"})}]

RiskAssessmentMoves ==
  {CheckedUpdate({"draft"}, {"draft"}, "in_review"),
   CheckedUpdate({"in_review"}, {"in_review"}, "approved"),
   CheckedUpdate({"approved"}, {"approved"}, "archived")}

RiskAssessmentStatuses == {"draft", "in_review", "approved", "archived"}

DeleteRisk == Delete({"draft"})

RiskAssessment ==
  [statuses |-> RiskAssessmentStatuses, initial |-> {"draft"},
   ops |-> RiskAssessmentMoves \cup {Edit({"draft", "in_review"}), DeleteRisk}]

SafetyAuditMoves ==
  {CheckedUpdate({"scheduled"}, {"scheduled"}, "in_progress"),
   CheckedUpdate({"in_progress"}, {"in_progress"}, "completed"),
   CheckedUpdate({"scheduled", "in_progress"}, {"scheduled", "in_progress"}, "cancelled")}

SafetyAuditStatuses == {"scheduled", "in_progress", "completed", "cancelled"}

\* An audit has no edit view; its items are recorded while it is in progress.
SafetyAudit ==
  [statuses |-> SafetyAuditStatuses, initial |-> {"scheduled"},
   ops |-> SafetyAuditMoves \cup {Lines({"in_progress"}), Delete({"scheduled"})}]

ComplianceDocumentStatuses ==
  {"draft", "in_review", "approved", "effective", "superseded", "retired"}

\* The services in services/document.py also append a DocumentApproval row.
ComplianceDocumentMoves ==
  {SaveFields({"draft"}, "in_review"), SaveFields({"in_review"}, "approved"),
   SaveFields({"in_review"}, "draft"), SaveFields({"approved"}, "effective"),
   SaveFields({"effective"}, "superseded")}

\* A signature is appended in any status.
ElectronicSignatures == Lines(Anywhere)

ComplianceDocument ==
  [statuses |-> ComplianceDocumentStatuses, initial |-> {"draft"},
   ops |-> ComplianceDocumentMoves \cup
           {Edit({"draft", "in_review"}), ElectronicSignatures, Delete({"draft"})}]

WasteManifestMoves ==
  {CheckedUpdate({"draft"}, {"draft"}, "in_transit"),
   CheckedUpdate({"in_transit"}, {"in_transit"}, "disposed"),
   CheckedUpdate({"disposed"}, {"disposed"}, "reconciled"),
   CheckedUpdate({"draft", "in_transit"}, {"draft", "in_transit"}, "cancelled")}

WasteManifestStatuses ==
  {"draft", "in_transit", "disposed", "reconciled", "cancelled"}

DisposalRecords == Lines({"draft"})

WasteManifest ==
  [statuses |-> WasteManifestStatuses, initial |-> {"draft"},
   ops |-> WasteManifestMoves \cup {Edit({"draft"}), DisposalRecords, Delete({"draft"})}]

RecallStatuses == {"initiated", "in_progress", "completed", "closed", "cancelled"}

RecallMoves ==
  {SaveFields({"initiated"}, "in_progress"), SaveFields({"in_progress"}, "completed"),
   SaveFields({"completed"}, "closed"),
   SaveFields({"initiated", "in_progress"}, "cancelled")}

AffectedLots == Lines(RecallStatuses \ {"closed", "cancelled"})

ProductRecall ==
  [statuses |-> RecallStatuses, initial |-> {"initiated"},
   ops |-> RecallMoves \cup
           {Edit(RecallStatuses \ {"closed", "cancelled"}),
            AffectedLots, Delete({"initiated"})}]

\* send_notice saves "sent" and then sends the mail, in one transaction.
SendNotice == SaveFields({"draft"}, "sent")

RecallNoticeStatuses == {"draft", "sent", "acknowledged"}

RecallNotice ==
  [statuses |-> RecallNoticeStatuses, initial |-> {"draft"},
   ops |-> {SendNotice, SaveFields({"sent"}, "acknowledged"), Delete({"draft"})}]

\* Master data.
IncidentType == Catalogue
AuditChecklist == Folder
WasteCategory == Catalogue

ComplianceKinds ==
  {IncidentReport, RiskAssessment, SafetyAudit, ComplianceDocument, WasteManifest,
   ProductRecall, RecallNotice, IncidentType, AuditChecklist, WasteCategory}

====
