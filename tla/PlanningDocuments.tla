---- MODULE PlanningDocuments ----
(***************************************************************************)
(* The documents of apps/pps and apps/mrp, schedules, production orders,   *)
(* what-if scenarios, optimisation, forecasting and requirements runs; and *)
(* of apps/labor: employees, leave, training, competency assessments and   *)
(* incentive runs.                                                         *)
(***************************************************************************)
EXTENDS DocumentKinds

ScheduleStatuses == {"draft", "under_review", "approved", "released", "obsolete"}

ScheduleMoves ==
  {Update({"draft"}, "under_review"), Update({"under_review"}, "approved"),
   Update({"approved"}, "released"),
   Update({"released", "approved", "draft", "under_review"}, "obsolete")}

MPSLines == Lines({"draft", "under_review"})

MasterProductionSchedule ==
  [statuses |-> ScheduleStatuses, initial |-> {"draft"},
   ops |-> ScheduleMoves \cup
           {Edit({"draft", "under_review"}), MPSLines,
            Delete(ScheduleStatuses \ {"released"})}]

RoutingStatuses == {"draft", "active", "obsolete"}

\* No view moves a routing, and its operations change in any status.
Routing ==
  [statuses |-> RoutingStatuses, initial |-> {"draft"},
   ops |-> {Edit(Anywhere), Lines(Anywhere), Delete(Anywhere)}]

ProductionOrderStatuses ==
  {"planned", "released", "in_progress", "completed", "cancelled"}

ProductionOrderMoves ==
  {Update({"planned"}, "released"), Update({"released"}, "in_progress"),
   Update({"in_progress"}, "completed"),
   Update({"planned", "released", "in_progress"}, "cancelled")}

\* The scheduler replaces the scheduled operations in any status, and with
\* them the scheduled dates.
ScheduledOperations == Lines(Anywhere)

ProductionOrder ==
  [statuses |-> ProductionOrderStatuses, initial |-> {"planned"},
   ops |-> ProductionOrderMoves \cup
           {Edit({"planned"}), ScheduledOperations, Delete({"planned", "cancelled"})}]

ScenarioStatuses == {"draft", "running", "completed", "applied", "discarded"}

\* The simulation commits "running" first and its outcome when it is done.
ScenarioMoves ==
  {Run(CheckedUpdate({"draft", "completed"}, Anywhere, "running"),
       {Update(Anywhere, "completed"), Update(Anywhere, "draft")}),
   Update({"completed"}, "applied"),
   Update({"draft", "completed", "running"}, "discarded")}

\* A change is added in draft or completed, and edited or removed in any status.
ScenarioChanges == {Lines({"draft", "completed"}), Lines(Anywhere)}

Scenario ==
  [statuses |-> ScenarioStatuses, initial |-> {"draft"},
   ops |-> ScenarioMoves \cup ScenarioChanges \cup
           {Edit({"draft", "completed"}), Delete(ScenarioStatuses \ {"applied"})}]

OptimizationRunStatuses == {"queued", "running", "completed", "failed"}

OptimizationRunMoves ==
  {Run(CheckedUpdate({"queued", "failed"}, Anywhere, "running"),
       {Update(Anywhere, "completed"), Update(Anywhere, "failed")})}

\* Applying a run marks its result; discarding one deletes a queued run.
OptimizationRun ==
  [statuses |-> OptimizationRunStatuses, initial |-> {"queued"},
   ops |-> OptimizationRunMoves \cup
           {Lines({"completed"}), Delete(Anywhere), Delete({"queued"})}]

ForecastRunStatuses == {"queued", "running", "completed", "failed"}

\* A forecast run is deleted in any status it can have.
DeleteForecastRun == Delete({"running", "completed", "failed"})

\* The run is created when it starts: "queued" stands for the row not yet there.
ForecastRun ==
  [statuses |-> ForecastRunStatuses, initial |-> {"queued"},
   ops |-> {Run(Update({"queued"}, "running"),
                {SaveRow(Anywhere, "completed"), SaveRow(Anywhere, "failed")}),
            DeleteForecastRun}]

MRPRunStatuses == {"queued", "running", "completed", "failed", "applied", "discarded"}

\* RunStartView saves the whole row at its start and at its end.
MRPRunMoves ==
  {Run(SaveRow({"queued"}, "running"),
       {SaveRow(Anywhere, "completed"), SaveRow(Anywhere, "failed")}),
   CheckedUpdate({"completed"}, {"completed"}, "applied"),
   CheckedUpdate({"completed", "failed"}, {"completed", "failed"}, "discarded")}

DeleteMRPRun == Delete(MRPRunStatuses \ {"applied"})

MRPRun ==
  [statuses |-> MRPRunStatuses, initial |-> {"queued"},
   ops |-> MRPRunMoves \cup {DeleteMRPRun}]

MRPCalculationStatuses ==
  {"draft", "running", "completed", "failed", "committed", "discarded"}

\* The calculation follows its run, whose views write it without a condition.
MRPCalculation ==
  [statuses |-> MRPCalculationStatuses, initial |-> {"draft"},
   ops |-> {Run(SaveRow(Anywhere, "running"),
                {SaveRow(Anywhere, "completed"), SaveRow(Anywhere, "failed")}),
            Update(Anywhere, "committed"), Update(Anywhere, "discarded"),
            Delete(MRPCalculationStatuses \ {"committed"})}]

MRPPurchaseRequisitionStatuses == {"draft", "approved", "converted", "cancelled"}

\* convert_pr_to_po of apps/procurement writes "converted" without a condition.
MRPPurchaseRequisition ==
  [statuses |-> MRPPurchaseRequisitionStatuses, initial |-> {"draft"},
   ops |-> {Update({"draft"}, "approved"), Update({"draft", "approved"}, "cancelled"),
            Update(Anywhere, "converted"),
            Edit({"draft"}), Delete({"draft", "cancelled"})}]

MRPExceptionStatuses == {"open", "acknowledged", "resolved", "ignored"}

MRPException ==
  [statuses |-> MRPExceptionStatuses, initial |-> {"open"},
   ops |-> {Update({"open"}, "acknowledged"),
            SaveRow({"open", "acknowledged"}, "resolved"),
            Update({"open", "acknowledged"}, "ignored"),
            Delete({"resolved", "ignored"})}]

\* Master data of the two applications.
DemandForecast == Catalogue
WorkCenter == Catalogue
CapacityCalendar == Catalogue
OptimizationObjective == Catalogue
ForecastModel == Catalogue
SeasonalityProfile == Catalogue
InventorySnapshot == Catalogue
ScheduledReceipt == Catalogue

\* The load of a work center on a day.
CapacityLoad == Recomputed

PlanningKinds ==
  {MasterProductionSchedule, Routing, ProductionOrder, Scenario, OptimizationRun,
   ForecastRun, MRPRun, MRPCalculation, MRPPurchaseRequisition, MRPException,
   DemandForecast, WorkCenter, CapacityCalendar, OptimizationObjective,
   ForecastModel, SeasonalityProfile, InventorySnapshot, ScheduledReceipt,
   CapacityLoad}

----------------------------------------------------------------------------

EmployeeStatuses == {"active", "on_leave", "suspended", "terminated"}

\* EmployeeForm offers every status, at creation and at any edit.
Employee ==
  Form(EmployeeStatuses,
       {Update({"active", "on_leave", "suspended"}, "terminated"),
        Update({"on_leave", "suspended", "terminated"}, "active")})

LeaveRequestStatuses == {"draft", "submitted", "approved", "rejected", "cancelled"}

LeaveRequestMoves ==
  {Update({"draft"}, "submitted"),
   Update({"submitted"}, "approved"),
   Update({"submitted"}, "rejected"),
   Update({"draft", "submitted", "approved"}, "cancelled")}

LeaveRequest ==
  [statuses |-> LeaveRequestStatuses, initial |-> {"draft"},
   ops |-> LeaveRequestMoves \cup
           {Edit({"draft"}), Delete({"draft", "cancelled", "rejected"})}]

TrainingPlanStatuses == {"assigned", "in_progress", "completed", "waived", "overdue"}

\* TrainingPlanForm offers every status, at creation and at any edit.
TrainingPlan ==
  Form(TrainingPlanStatuses,
       {Update({"assigned"}, "in_progress"),
        Update({"assigned", "in_progress"}, "completed"),
        Update({"assigned", "in_progress", "overdue"}, "waived")})

TrainingSessionStatuses == {"scheduled", "in_progress", "completed", "cancelled"}

\* No view moves a session out of "scheduled".
TrainingSession ==
  [statuses |-> TrainingSessionStatuses, initial |-> {"scheduled"},
   ops |-> {Edit(Anywhere), Lines(Anywhere), Delete(Anywhere)}]

CompetencyAssessmentStatuses == {"draft", "completed"}

CompetencyAssessment ==
  [statuses |-> CompetencyAssessmentStatuses, initial |-> {"draft"},
   ops |-> {Edit(Anywhere), Delete(Anywhere), Lines({"draft"}),
            Update({"draft"}, "completed")}]

IncentivePeriodStatuses == {"open", "locked", "paid"}

IncentivePeriod ==
  [statuses |-> IncentivePeriodStatuses, initial |-> {"open"},
   ops |-> {Edit({"open"}), Delete({"open"}),
            Update({"open"}, "locked"), Update({"locked"}, "paid")}]

IncentiveRunStatuses == {"draft", "running", "completed", "discarded"}

\* RunRunView writes "running" and "completed" in one transaction, so no other
\* request sees the first; a production report adds lines to a draft run.
IncentiveRun ==
  [statuses |-> IncentiveRunStatuses, initial |-> {"draft"},
   ops |-> {SaveFields({"draft"}, "completed"),
            SaveFields({"draft", "completed"}, "discarded"),
            Lines({"draft"}), Delete({"draft", "discarded"})}]

\* Master data and rows without a status.
Department == Catalogue
Position == Catalogue
Skill == Catalogue
EmployeeSkill == Entry
Certification == Catalogue
EmployeeCertification == Entry
EmployeeDocument == Entry
Shift == Catalogue
ShiftRoster == Catalogue
AttendanceRecord == Catalogue
LeaveType == Catalogue
Holiday == Catalogue
CostCenter == Catalogue
LaborRate == Catalogue
LaborBooking == Entry
TrainingProgram == Catalogue
PieceRateScheme == Folder

LaborKinds ==
  {Employee, LeaveRequest, TrainingPlan, TrainingSession, CompetencyAssessment,
   IncentivePeriod, IncentiveRun, Department, Position, Skill, EmployeeSkill,
   Certification, EmployeeCertification, EmployeeDocument, Shift, ShiftRoster,
   AttendanceRecord, LeaveType, Holiday, CostCenter, LaborRate, LaborBooking,
   TrainingProgram, PieceRateScheme}

====
