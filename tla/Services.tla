---- MODULE Services ----
(***************************************************************************)
(* Services and signal handlers whose requests race on one document: the   *)
(* approval of a request through its levels, the releases of a blanket     *)
(* order, legal holds, the entries of a job, counts of a bin, the audit    *)
(* trail of a row, the row derived from another, the hash chain of the     *)
(* audit log, its archives, and the dispatch of a production order.        *)
(* They share no state; a behaviour follows one of them.                   *)
(***************************************************************************)
EXTENDS Approvals, SignalHandlers

CONSTANTS
  Releases,     \* the releases of the blanket order
  Committed,    \* total_quantity of the blanket line
  Holds,        \* the legal holds
  Documents,    \* the documents they lock
  Entries,      \* the entries of the job
  Amounts,      \* bound: the amounts posted to it
  Adjustments,  \* the StockAdjustment rows
  Sheets,       \* the CycleCountSheet rows
  MaxQty,       \* bound: the quantities on a line of either
  Opening,      \* the balance of the bin they correct
  WorkOrders,   \* the work orders of the production order
  Processes,    \* the worker processes of the audit trail
  MaxRows,      \* bound: the derived rows that are followed
  Users,        \* the users whom the audit log names
  MaxChain,     \* bound: the entries of the hash chain
  LastTick,     \* bound: its clock
  MaxLogged,    \* bound: the entries that are archived
  MaxArchives,  \* bound: the archives
  LastDay       \* bound: their days

VARIABLES
  scene,
  releases, consumed, working,
  holds, locked, busy,
  entries, job, acting,
  papers, balance, counter,
  order, workOrders, requests,
  trail, status, told, saving, remembered, missed,
  handler, source, marked, derived, reversed, deriving, crossed,
  now, users, chain, adding, raced, redacted,
  today, logged, archives, filing, untimely

releaseVars == <<releases, consumed, working>>
holdVars == <<holds, locked, busy>>
jobVars == <<entries, job, acting>>
countVars == <<papers, balance, counter>>
dispatchVars == <<order, workOrders, requests>>
trailVars == <<trail, status, told, saving, remembered, missed>>
derivedVars == <<handler, source, marked, derived, reversed, deriving, crossed>>
chainVars == <<now, users, chain, adding, raced, redacted>>
archiveVars == <<today, logged, archives, filing, untimely>>

documentVars == <<vars, releaseVars, holdVars, jobVars, countVars, dispatchVars>>
signalVars == <<trailVars, derivedVars, chainVars, archiveVars>>
sceneVars == <<scene, documentVars, signalVars>>

Releasing == INSTANCE BlanketRelease

Holding == INSTANCE LegalHold

Costing == INSTANCE WipLedger

Counting == INSTANCE Counting

Dispatching == INSTANCE Dispatch

Auditing == INSTANCE AuditTrail WITH Trails <- AuditTrails

Deriving == INSTANCE DerivedRows
              WITH Handlers <- DerivingHandlers, doing <- deriving

Chaining == INSTANCE AuditChain
              WITH MaxEntries <- MaxChain, entries <- chain

Archiving == INSTANCE AuditArchives
               WITH MaxEntries <- MaxLogged, entries <- logged, doing <- filing

ASSUME ServicesAssumption ==
  /\ Releasing!BlanketAssumption
  /\ Costing!JobAssumption
  /\ Counting!CountingAssumption
  /\ Auditing!TrailsAssumption
  /\ Deriving!HandlersAssumption

ScenesInit ==
  /\ scene \in {"approvals", "releases", "holds", "jobs", "counts", "dispatch",
                "trail", "derived", "chain", "archives"}
  /\ Init
  /\ scene = "approvals" \/ levels = {}
  /\ Releasing!Init
  /\ Holding!Init
  /\ Costing!Init
  /\ Counting!Init
  /\ Dispatching!Init
  /\ Auditing!Init
  /\ scene = "trail" \/ trail = WarehouseTrail
  /\ Deriving!Init
  /\ scene = "derived" \/ handler = BookingOfJob
  /\ Chaining!Init
  /\ Archiving!Init

DocumentNext ==
  \/ /\ scene = "approvals"
     /\ Next
     /\ UNCHANGED <<releaseVars, holdVars, jobVars, countVars, dispatchVars>>
  \/ /\ scene = "releases"
     /\ Releasing!Next
     /\ UNCHANGED <<vars, holdVars, jobVars, countVars, dispatchVars>>
  \/ /\ scene = "holds"
     /\ Holding!Next
     /\ UNCHANGED <<vars, releaseVars, jobVars, countVars, dispatchVars>>
  \/ /\ scene = "jobs"
     /\ Costing!Next
     /\ UNCHANGED <<vars, releaseVars, holdVars, countVars, dispatchVars>>
  \/ /\ scene = "counts"
     /\ Counting!Next
     /\ UNCHANGED <<vars, releaseVars, holdVars, jobVars, dispatchVars>>
  \/ /\ scene = "dispatch"
     /\ Dispatching!Next
     /\ UNCHANGED <<vars, releaseVars, holdVars, jobVars, countVars>>

SignalNext ==
  \/ /\ scene = "trail"
     /\ Auditing!Next
     /\ UNCHANGED <<derivedVars, chainVars, archiveVars>>
  \/ /\ scene = "derived"
     /\ Deriving!Next
     /\ UNCHANGED <<trailVars, chainVars, archiveVars>>
  \/ /\ scene = "chain"
     /\ Chaining!Next
     /\ UNCHANGED <<trailVars, derivedVars, archiveVars>>
  \/ /\ scene = "archives"
     /\ Archiving!Next
     /\ UNCHANGED <<trailVars, derivedVars, chainVars>>

ScenesNext ==
  \/ DocumentNext /\ UNCHANGED <<scene, signalVars>>
  \/ SignalNext /\ UNCHANGED <<scene, documentVars>>

ScenesSpec == ScenesInit /\ [][ScenesNext]_sceneVars

----------------------------------------------------------------------------

\* See BlanketRelease: consumption is what the releases in force have taken.
ConsumptionFollowsReleases == Releasing!ConsumptionFollowsReleases

\* See LegalHold: the documents of an active hold stay locked.
LockedWhileHeld == Holding!LockedWhileHeld

\* See WipLedger: the total of a job is the sum of its entries.
TotalFollowsEntries == Costing!TotalFollowsEntries

\* See Counting: the variance of a document reaches the bin once.
VariancePostedOnce == Counting!VariancePostedOnce

\* See Dispatch: a production order has one live work order.
OneWorkOrder == Dispatching!OneWorkOrder

\* See AuditTrail: the latest entry tells the status of the row.
TrailFollowsStatus == Auditing!TrailFollowsStatus

\* See DerivedRows: one derived row for one source row.
DerivedOnce == Deriving!DerivedOnce

\* See DerivedRows: a deleted source leaves no derived row in force.
UndoneWithSource == Deriving!UndoneWithSource

\* See AuditChain: an honest log verifies.
ChainVerifies == Chaining!ChainVerifies

\* See AuditArchives: timely archives verify.
ArchivesVerify == Archiving!ArchivesVerify

====
