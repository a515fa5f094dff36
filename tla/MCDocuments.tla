---- MODULE MCDocuments ----
(***************************************************************************)
(* Documents over every kind of the application, with three requests.      *)
(***************************************************************************)
EXTENDS Documents, TLC, QualityDocuments, PlanningDocuments, EngineeringDocuments,
        CommercialDocuments

CONSTANTS r1, r2, r3

MCRequests == {r1, r2, r3}

MCKinds ==
  LaborKinds \cup QualityKinds \cup ComplianceKinds \cup PlanningKinds
    \cup EngineeringKinds \cup MaintenanceKinds \cup CommercialKinds
    \cup PlatformKinds

Symmetry == Permutations(MCRequests)

====
