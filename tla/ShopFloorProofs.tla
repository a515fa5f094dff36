--------------------------- MODULE ShopFloorProofs ---------------------------
(***************************************************************************)
(* Proofs about ShopFloor, for any number of operations, reports and       *)
(* requests: what the lock of the foreign key gives the operations, what   *)
(* the link of a report to its movement gives the stock, and what one      *)
(* request at a time gives the work order.                                 *)
(***************************************************************************)
EXTENDS ShopFloor, SumLemmas

ReportRow == [state : {"unused", "present", "deleted"}, op : Ops \cup {NoOne}, good : Nat]

InJob(r) == req[r].at \in {"checked", "read", "saved"}
InTransaction(r) == req[r].at \in {"read", "saved"}
Deleting(r) == req[r].at \in {"purge", "unlink", "reverse"}

Shapes == /\ req = [r \in Requests |-> req[r]]
          /\ op = [o \in Ops |-> op[o]]
          /\ due = [o \in Ops |-> due[o]]
          /\ report \in [Reports -> ReportRow]
          /\ \A r \in Requests : InJob(r) => req[r].job \in Job

\* A transaction that has read an operation is alone in being able to write it: what it
\* has read is still there, and once it has written, no other one holds the row.
RowsLocked ==
    \A r \in Requests :
      /\ At(r, "read") => req[r].row = op[req[r].job.op]
      /\ At(r, "saved") =>
           /\ req[r].row.status = StatusAfter(req[r].job.act, op[req[r].job.op].status)
           /\ \A s \in Requests \ {r} : InTransaction(s) => req[s].job.op # req[r].job.op

\* The id of a report that is being filed is not in the table yet.
IdsReserved ==
    \A r \in Requests :
      InTransaction(r) /\ req[r].job.act = "report" =>
        /\ report[req[r].job.id].state = "unused"
        /\ \A s \in Requests \ {r} :
             InTransaction(s) /\ req[s].job.act = "report" => req[s].job.id # req[r].job.id

\* A deletion works on a report of an operation that it has marked.
PurgesMarked ==
    /\ \A p \in Reports : report[p].state # "unused" => report[p].op \in Ops
    /\ \A r \in Requests :
         Deleting(r) => /\ req[r].id \in Reports
                        /\ report[req[r].id].state # "unused"
                        /\ report[req[r].id].op \in purged

\* The operation views only check for the four actions of a time log.
ChecksAreEvents == \A r \in Requests : At(r, "checked") => req[r].job.act \in EventActions

IInv == /\ Shapes /\ RowsLocked /\ IdsReserved /\ PurgesMarked /\ ChecksAreEvents
        /\ StatusFollowsLog

LEMMA InitIInv == Init => IInv
  BY ShopFloorAssumption
  DEF Init, IInv, Shapes, RowsLocked, IdsReserved, PurgesMarked, ChecksAreEvents, StatusFollowsLog, ReportRow,
      InJob, InTransaction, Deleting, At, Idle

\* The tables stay and the request lets go of what it held.
LEMMA ReleaseIInv ==
    ASSUME IInv, NEW r \in Requests, Goto(r, Idle), UNCHANGED <<op, due, report, purged>>
    PROVE  IInv'
  BY DEF IInv, Shapes, RowsLocked, IdsReserved, PurgesMarked, ChecksAreEvents, StatusFollowsLog, ReportRow,
         InJob, InTransaction, Deleting, At, Goto, Idle

\* The tables stay and the request goes on to a state that holds no row.
LEMMA MoveIInv ==
    ASSUME IInv, NEW r \in Requests, NEW q, Goto(r, q), UNCHANGED <<op, due, report, purged>>,
           q.at \notin {"checked", "read", "saved", "purge", "unlink", "reverse"}
    PROVE  IInv'
  BY DEF IInv, Shapes, RowsLocked, IdsReserved, PurgesMarked, ChecksAreEvents, StatusFollowsLog, ReportRow,
         InJob, InTransaction, Deleting, At, Goto

LEMMA CheckEventIInv ==
    ASSUME IInv, NEW r \in Requests, CheckEvent(r)
    PROVE  IInv'
  <1>1. PICK o \in Ops, act \in EventActions :
          Begin(r, [at |-> "checked", job |-> [act |-> act, op |-> o]])
    BY DEF CheckEvent
  <1>2. [act |-> act, op |-> o] \in Job
    BY DEF Job
  <1>3. UNCHANGED <<op, due, report, purged>>
    BY DEF CheckEvent, Begin, tables
  <1>4. req' = [req EXCEPT ![r] = [at |-> "checked", job |-> [act |-> act, op |-> o]]]
    BY <1>1 DEF Begin, Goto
  <1>5. QED
    BY <1>2, <1>3, <1>4
    DEF IInv, Shapes, RowsLocked, IdsReserved, PurgesMarked, ChecksAreEvents, StatusFollowsLog, ReportRow,
        InJob, InTransaction, Deleting, At

\* The INSERT waits for the transaction that has written the operation.
LEMMA InsertLogIInv ==
    ASSUME IInv, NEW r \in Requests, InsertLog(r)
    PROVE  IInv'
  <1> DEFINE o == req[r].job.op
  <1>1. CASE Refuse(r)
    BY <1>1, ReleaseIInv DEF Refuse, tables, history
  <1>2. CASE Remember(r, [at |-> "read", job |-> req[r].job, row |-> op[o], order |-> order])
    <2>1. UNCHANGED <<op, due, report, purged>>
      BY <1>2 DEF Remember, tables, history
    <2>2. req' = [req EXCEPT ![r] =
                    [at |-> "read", job |-> req[r].job, row |-> op[o], order |-> order]]
      BY <1>2 DEF Remember, Goto
    <2>3. At(r, "checked") /\ ~Exclusive(r, o)
      BY DEF InsertLog
    <2>4. req[r].job \in Job /\ req[r].job.act # "report"
      BY <2>3
      DEF IInv, Shapes, InJob, At, ChecksAreEvents, EventActions
    <2>5. QED
      BY <2>1, <2>2, <2>3, <2>4
      DEF IInv, Shapes, RowsLocked, IdsReserved, PurgesMarked, ChecksAreEvents, StatusFollowsLog, ReportRow,
          InJob, InTransaction, Deleting, At, Exclusive
  <1>3. QED
    BY <1>1, <1>2 DEF InsertLog

\* A step that writes the work order or the stock only.
LEMMA OtherTablesIInv ==
    ASSUME IInv, UNCHANGED <<op, due, report, req, purged>>
    PROVE  IInv'
  BY DEF IInv, Shapes, RowsLocked, IdsReserved, PurgesMarked, ChecksAreEvents, StatusFollowsLog,
         ReportRow, InJob, InTransaction, Deleting, At

LEMMA InsertReportIInv ==
    ASSUME IInv, NEW r \in Requests, InsertReport(r)
    PROVE  IInv'
  <1>1. PICK o \in Ops, p \in Reports, good \in Goods, emit \in Emits :
          /\ ~Exclusive(r, o)
          /\ report[p].state = "unused"
          /\ \A s \in Requests : req[s].at \in {"read", "saved"} /\ req[s].job.act = "report"
                                   => req[s].job.id # p
          /\ Begin(r, [at |-> "read", row |-> op[o], order |-> order,
                       job |-> [act |-> "report", op |-> o, id |-> p, good |-> good, emit |-> emit]])
    BY DEF InsertReport
  <1> DEFINE job == [act |-> "report", op |-> o, id |-> p, good |-> good, emit |-> emit]
  <1>2. job \in Job
    BY DEF Job
  <1>3. UNCHANGED <<op, due, report, purged>>
    BY DEF InsertReport, Begin, tables
  <1>4. req' = [req EXCEPT ![r] = [at |-> "read", row |-> op[o], order |-> order, job |-> job]]
    BY <1>1 DEF Begin, Goto
  <1>5. job.op = o /\ job.id = p /\ job.act = "report"
    OBVIOUS
  <1> HIDE DEF job
  <1>6. QED
    BY <1>1, <1>2, <1>3, <1>4, <1>5
    DEF IInv, Shapes, RowsLocked, IdsReserved, PurgesMarked, ChecksAreEvents, StatusFollowsLog,
        ReportRow, InJob, InTransaction, Deleting, At, Exclusive

\* The UPDATE waits for every other transaction that has read the operation.
LEMMA SaveOpIInv ==
    ASSUME IInv, NEW r \in Requests, SaveOp(r)
    PROVE  IInv'
  <1> DEFINE job == req[r].job
  <1>1. PICK row, sum, closed, seen :
          /\ row.status = StatusAfter(job.act, req[r].row.status)
          /\ req' = [req EXCEPT ![r] = [at |-> "saved", job |-> job, row |-> row, order |-> seen,
                                        sum |-> sum, closed |-> closed]]
    <2> DEFINE new == [status |-> StatusAfter(job.act, req[r].row.status),
                       total |-> req[r].row.total + (IF job.act = "report" THEN job.good ELSE 0)]
               added == SumOver([Totals EXCEPT ![job.op] = new.total], Ops)
               shut == \A o \in Ops \ {job.op} : op[o].status = "completed"
    <2>1. req' = [req EXCEPT ![r] = [at |-> "saved", job |-> job, row |-> new,
                                     order |-> req[r].order, sum |-> added, closed |-> shut]]
      BY Zenon DEF SaveOp, Remember, Goto
    <2>2. new.status = StatusAfter(job.act, req[r].row.status)
      OBVIOUS
    <2> HIDE DEF new, added, shut
    <2>3. QED
      BY <2>1, <2>2
  <1>2. UNCHANGED <<op, due, report, purged>>
    BY DEF SaveOp, Remember, tables, history
  <1>3. At(r, "read") /\ ~Shared(r, job.op) /\ ~Exclusive(r, job.op)
    BY DEF SaveOp
  <1>4. job \in Job /\ req[r].row = op[job.op]
    BY <1>3 DEF IInv, Shapes, RowsLocked, InJob, At
  <1>5. QED
    BY <1>1, <1>2, <1>3, <1>4
    DEF IInv, Shapes, RowsLocked, IdsReserved, PurgesMarked, ChecksAreEvents, StatusFollowsLog,
        ReportRow, InJob, InTransaction, Deleting, At, Exclusive, Shared

\* What a transaction commits to an operation does not touch what the others have read.
LEMMA CommitRowsLocked ==
    ASSUME IInv, NEW r \in Requests, At(r, "saved"), Goto(r, Idle),
           op' = [op EXCEPT ![req[r].job.op] = req[r].row]
    PROVE  RowsLocked'
  <1>1. \A s \in Requests \ {r} : InTransaction(s) => /\ req[s].job.op # req[r].job.op
                                                      /\ op'[req[s].job.op] = op[req[s].job.op]
    BY DEF IInv, Shapes, RowsLocked, At
  <1>2. \A s \in Requests \ {r} : req'[s] = req[s]
    BY DEF IInv, Shapes, Goto
  <1>3. req'[r] = Idle
    BY DEF IInv, Shapes, Goto
  <1>4. QED
    BY <1>1, <1>2, <1>3 DEF IInv, RowsLocked, InTransaction, At, Idle

LEMMA CommitEventIInv ==
    ASSUME IInv, NEW r \in Requests, CommitEvent(r)
    PROVE  IInv'
  <1> DEFINE o == req[r].job.op
             act == req[r].job.act
  <1>1. /\ At(r, "saved") /\ Goto(r, Idle)
        /\ op' = [op EXCEPT ![o] = req[r].row]
        /\ due' = [due EXCEPT ![o] = StatusAfter(act, @)]
        /\ UNCHANGED <<report, purged>>
    BY DEF CommitEvent, history
  <1>2. o \in Ops /\ req[r].row.status = StatusAfter(act, op[o].status)
    BY <1>1 DEF IInv, Shapes, RowsLocked, InJob, At, Job
  <1>3. StatusFollowsLog'
    BY <1>1, <1>2 DEF IInv, Shapes, StatusFollowsLog
  <1>4. RowsLocked'
    BY <1>1, CommitRowsLocked
  <1>5. QED
    BY <1>1, <1>3, <1>4
    DEF IInv, Shapes, IdsReserved, PurgesMarked, ChecksAreEvents, ReportRow, InJob,
        InTransaction, Deleting, At, Goto, Idle

\* A report leaves the status of the operation alone, and its id is in nobody's hands.
LEMMA CommitReportIInv ==
    ASSUME IInv, NEW r \in Requests, CommitReport(r)
    PROVE  IInv'
  <1> DEFINE job == req[r].job
  <1>1. /\ At(r, "saved") /\ job.act = "report" /\ Goto(r, Idle)
        /\ op' = [op EXCEPT ![job.op] = req[r].row]
        /\ report' = [report EXCEPT ![job.id] =
                        [state |-> "present", op |-> job.op, good |-> job.good]]
        /\ UNCHANGED <<due, purged>>
    BY DEF CommitReport, history
  <1>2. job \in Job
    BY <1>1 DEF IInv, Shapes, InJob, At
  <1>3. job.op \in Ops /\ job.id \in Reports /\ job.good \in Nat
    BY <1>1, <1>2, ShopFloorAssumption DEF Job, EventActions
  <1>4. StatusAfter("report", op[job.op].status) = op[job.op].status
    BY DEF StatusAfter
  <1>5. req[r].row.status = op[job.op].status
    BY <1>1, <1>4 DEF IInv, RowsLocked
  <1>6. StatusFollowsLog'
    BY <1>1, <1>3, <1>5 DEF IInv, Shapes, StatusFollowsLog
  <1>7. RowsLocked'
    BY <1>1, CommitRowsLocked
  <1>8. req' = [req EXCEPT ![r] = Idle]
    BY <1>1 DEF Goto
  <1>9. report[job.id].state = "unused"
    BY <1>1 DEF IInv, IdsReserved, InTransaction, At
  <1>10. Shapes' /\ ChecksAreEvents'
    BY <1>1, <1>3, <1>8 DEF IInv, Shapes, ReportRow, InJob, At, Idle, ChecksAreEvents
  <1>11. IdsReserved'
    BY <1>1, <1>3, <1>8 DEF IInv, Shapes, IdsReserved, ReportRow, InTransaction, At, Idle
  <1>12. PurgesMarked'
    BY <1>1, <1>3, <1>8, <1>9 DEF IInv, Shapes, PurgesMarked, ReportRow, Deleting, At, Idle
  <1>13. QED
    BY <1>6, <1>7, <1>10, <1>11, <1>12 DEF IInv

-----------------------------------------------------------------------------
LEMMA LoadPurgeIInv ==
    ASSUME IInv, NEW r \in Requests, LoadPurge(r)
    PROVE  IInv'
  <1>1. PICK p \in Reports :
          /\ report[p].state = "present"
          /\ Begin(r, [at |-> "purge", id |-> p, row |-> op[report[p].op]])
          /\ purged' = purged \cup {report[p].op}
    BY DEF LoadPurge
  <1>2. UNCHANGED <<op, due, report>>
    BY <1>1 DEF Begin, tables
  <1>3. req' = [req EXCEPT ![r] = [at |-> "purge", id |-> p, row |-> op[report[p].op]]]
    BY <1>1 DEF Begin, Goto
  <1>4. QED
    BY <1>1, <1>2, <1>3
    DEF IInv, Shapes, RowsLocked, IdsReserved, PurgesMarked, ChecksAreEvents, StatusFollowsLog,
        ReportRow, InJob, InTransaction, Deleting, At

\* A deletion writes an operation that no transaction has read, and that is marked.
LEMMA SavePurgedOpIInv ==
    ASSUME IInv, NEW r \in Requests, SavePurgedOp(r)
    PROVE  IInv'
  <1> DEFINE o == report[req[r].id].op
  <1>1. CASE Refuse(r)
    BY <1>1, ReleaseIInv DEF Refuse, tables, history
  <1>2. CASE ~Refuse(r)
    <2>1. PICK new :
            /\ op' = [op EXCEPT ![o] = new]
            /\ req' = [req EXCEPT ![r] = [at |-> "unlink", id |-> req[r].id]]
            /\ UNCHANGED <<due, report, purged>>
      BY <1>2 DEF SavePurgedOp, Goto, history
    <2>2. At(r, "purge") /\ ~Shared(r, o) /\ ~Exclusive(r, o)
      BY DEF SavePurgedOp
    <2>3. o \in purged /\ o \in Ops
      BY <2>2 DEF IInv, PurgesMarked, Deleting, At
    <2>4. \A s \in Requests : InTransaction(s) => req[s].job.op # o
      BY <2>2 DEF InTransaction, Shared, Exclusive, At
    <2>5. RowsLocked'
      BY <2>1, <2>3, <2>4 DEF IInv, Shapes, RowsLocked, InTransaction, At
    <2>6. StatusFollowsLog'
      BY <2>1, <2>3 DEF IInv, Shapes, StatusFollowsLog
    <2>7. QED
      BY <2>1, <2>2, <2>5, <2>6
      DEF IInv, Shapes, IdsReserved, PurgesMarked, ChecksAreEvents, ReportRow, InJob,
          InTransaction, Deleting, At
  <1>3. QED
    BY <1>1, <1>2

LEMMA FindMovementIInv ==
    ASSUME IInv, NEW r \in Requests, FindMovement(r)
    PROVE  IInv'
  <1>1. PICK found :
          req' = [req EXCEPT ![r] = [at |-> "reverse", id |-> req[r].id, found |-> found]]
    BY DEF FindMovement, Remember, Goto
  <1>2. At(r, "unlink") /\ UNCHANGED <<op, due, report, purged>>
    BY DEF FindMovement, Remember, tables, history
  <1>3. QED
    BY <1>1, <1>2
    DEF IInv, Shapes, RowsLocked, IdsReserved, PurgesMarked, ChecksAreEvents, StatusFollowsLog,
        ReportRow, InJob, InTransaction, Deleting, At

\* Deleting reports that are in the table leaves ids and marks as they are.
LEMMA DeletedReports ==
    ASSUME IInv, NEW gone \in SUBSET Reports, NEW back, NEW r \in Requests,
           \A p \in gone : report[p].state # "unused",
           Deleted(gone, back), req'[r].at \in {"idle", "reload"},
           \A s \in Requests \ {r} : req'[s] = req[s],
           req' = [s \in Requests |-> req'[s]], purged' = purged
    PROVE  /\ IdsReserved' /\ PurgesMarked' /\ ChecksAreEvents'
           /\ report' \in [Reports -> ReportRow]
           /\ \A s \in Requests : InJob(s)' => req'[s].job \in Job
  <1>1. \A p \in Reports : /\ report'[p].op = report[p].op
                           /\ report'[p].state = "unused" <=> report[p].state = "unused"
                           /\ report'[p] \in ReportRow
    BY DEF Deleted, IInv, Shapes, ReportRow
  <1>2. report' \in [Reports -> ReportRow]
    BY <1>1 DEF Deleted
  <1>3. IdsReserved'
    <2>1. \A s \in Requests : InTransaction(s)' => s # r /\ InTransaction(s) /\ req'[s] = req[s]
      BY DEF InTransaction
    <2>2. \A s \in Requests : InTransaction(s) /\ req[s].job.act = "report" => req[s].job.id \in Reports
      BY DEF IInv, Shapes, InJob, InTransaction, Job, EventActions
    <2>3. QED
      BY <1>1, <2>1, <2>2 DEF IInv, IdsReserved
  <1>4. PurgesMarked'
    BY <1>1 DEF IInv, PurgesMarked, Deleting
  <1>5. ChecksAreEvents' /\ \A s \in Requests : InJob(s)' => req'[s].job \in Job
    BY DEF IInv, Shapes, ChecksAreEvents, InJob, At
  <1>6. QED
    BY <1>2, <1>3, <1>4, <1>5

LEMMA DeleteReportIInv ==
    ASSUME IInv, NEW r \in Requests, DeleteReport(r)
    PROVE  IInv'
  <1> DEFINE p == req[r].id
  <1>1. /\ At(r, "reverse") /\ \E back : Deleted({p}, back)
        /\ req' = [req EXCEPT ![r] = [at |-> "reload"]]
        /\ UNCHANGED <<op, due, purged>>
    BY DEF DeleteReport, Goto
  <1>2. p \in Reports /\ report[p].state # "unused"
    BY <1>1 DEF IInv, PurgesMarked, Deleting, At
  <1>3. /\ req'[r].at = "reload" /\ req' = [s \in Requests |-> req'[s]]
        /\ \A s \in Requests \ {r} : req'[s] = req[s]
    BY <1>1 DEF IInv, Shapes
  <1>4. /\ IdsReserved' /\ PurgesMarked' /\ ChecksAreEvents'
        /\ report' \in [Reports -> ReportRow]
        /\ \A s \in Requests : InJob(s)' => req'[s].job \in Job
    BY <1>1, <1>2, <1>3, DeletedReports
  <1>5. RowsLocked' /\ StatusFollowsLog'
    BY <1>1, <1>3 DEF IInv, RowsLocked, StatusFollowsLog, InTransaction, At
  <1>6. QED
    BY <1>1, <1>3, <1>4, <1>5 DEF IInv, Shapes

\* The cascade waits for everyone who has read an operation.
LEMMA DropIInv ==
    ASSUME IInv, NEW r \in Requests, Drop(r)
    PROVE  IInv'
  <1> DEFINE gone == {p \in Reports : report[p].state = "present"
                                       /\ op[report[p].op].status # "none"}
  <1>1. /\ At(r, "drop") /\ \A o \in Ops : ~Shared(r, o) /\ ~Exclusive(r, o)
        /\ \E back : Deleted(gone, back)
        /\ req' = [req EXCEPT ![r] = Idle]
        /\ op' = [o \in Ops |-> NoOp]
        /\ due' = [o \in Ops |-> "none"]
        /\ UNCHANGED purged
    BY DEF Drop, Goto
  <1>2. gone \in SUBSET Reports /\ \A p \in gone : report[p].state # "unused"
    OBVIOUS
  <1> HIDE DEF gone
  <1>3. /\ req'[r] = Idle /\ req' = [s \in Requests |-> req'[s]]
        /\ \A s \in Requests \ {r} : req'[s] = req[s]
    BY <1>1 DEF IInv, Shapes
  <1>4. req'[r].at = "idle"
    BY <1>3 DEF Idle
  <1>5. /\ IdsReserved' /\ PurgesMarked' /\ ChecksAreEvents'
        /\ report' \in [Reports -> ReportRow]
        /\ \A s \in Requests : InJob(s)' => req'[s].job \in Job
    BY <1>1, <1>2, <1>3, <1>4, DeletedReports
  <1>6. \A s \in Requests : ~InTransaction(s)
    <2>1. \A s \in Requests : InTransaction(s) => req[s].job.op \in Ops
      BY DEF IInv, Shapes, InJob, InTransaction, Job
    <2>2. QED
      BY <1>1, <2>1 DEF InTransaction, Shared, Exclusive, At
  <1>7. RowsLocked' /\ StatusFollowsLog'
    BY <1>1, <1>3, <1>4, <1>6 DEF RowsLocked, StatusFollowsLog, InTransaction, At, NoOp
  <1>8. QED
    BY <1>1, <1>3, <1>5, <1>7 DEF IInv, Shapes

-----------------------------------------------------------------------------
LEMMA NextIInv ==
    ASSUME IInv, [Next]_vars
    PROVE  IInv'
  <1>1. ASSUME UNCHANGED vars PROVE IInv'
    BY <1>1, OtherTablesIInv DEF vars
  <1>2. ASSUME Start \/ Hold \/ Complete \/ Cancel \/ Consume PROVE IInv'
    BY <1>2, OtherTablesIInv DEF Start, Hold, Complete, Cancel, Transition, Consume, history
  <1>3. ASSUME NEW r \in Requests, Fail(r) \/ SaveEdit(r) \/ SaveOrder(r) PROVE IInv'
    BY <1>3, ReleaseIInv DEF Fail, SaveEdit, SaveOrder, tables, history
  <1>4. ASSUME NEW r \in Requests, LoadEdit(r) \/ LoadDrop(r) \/ SumOps(r) PROVE IInv'
    <2>1. PICK q : Goto(r, q) /\ q.at \in {"edit", "drop", "rollup"}
      BY <1>4 DEF LoadEdit, LoadDrop, SumOps, Begin, Remember
    <2>2. UNCHANGED <<op, due, report, purged>>
      BY <1>4 DEF LoadEdit, LoadDrop, SumOps, Begin, Remember, tables, history
    <2>3. QED
      BY <2>1, <2>2, MoveIInv
  <1>5. ASSUME NEW r \in Requests, LoadOrder(r) PROVE IInv'
    <2>1. CASE Refuse(r)
      BY <2>1, ReleaseIInv DEF Refuse, tables, history
    <2>2. CASE Remember(r, [at |-> "sum", order |-> order])
      BY <2>2, MoveIInv DEF Remember, tables, history
    <2>3. QED
      BY <1>5, <2>1, <2>2 DEF LoadOrder
  <1>6. ASSUME NEW r \in Requests,
               \/ CheckEvent(r) \/ InsertLog(r) \/ InsertReport(r) \/ SaveOp(r)
               \/ CommitEvent(r) \/ CommitReport(r)
               \/ LoadPurge(r) \/ SavePurgedOp(r) \/ FindMovement(r) \/ DeleteReport(r)
               \/ Drop(r)
        PROVE  IInv'
    BY <1>6, CheckEventIInv, InsertLogIInv, InsertReportIInv, SaveOpIInv, CommitEventIInv,
       CommitReportIInv, LoadPurgeIInv, SavePurgedOpIInv, FindMovementIInv, DeleteReportIInv,
       DropIInv
  <1>7. QED
    BY <1>1, <1>2, <1>3, <1>4, <1>5, <1>6 DEF Next

\* An operation that no deletion has touched is in the status its last time log calls
\* for, whatever reports, edits and deletions of the work order run meanwhile.
THEOREM StatusAgrees == Spec => []StatusFollowsLog
  <1>1. Init => IInv
    BY InitIInv
  <1>2. IInv /\ [Next]_vars => IInv'
    BY NextIInv
  <1>3. IInv => StatusFollowsLog
    BY DEF IInv
  <1>4. QED
    BY <1>1, <1>2, <1>3, PTL DEF Spec

-----------------------------------------------------------------------------
\* While nothing has been disturbed, at most one request is under way, and the work
\* order is still what it has read.
Alone == \A r, s \in Requests : ~At(r, "idle") /\ ~At(s, "idle") => r = s
Current == \A r \in Requests :
    req[r].at \in {"read", "saved", "sum", "rollup", "edit"} => req[r].order = order
OrderShape == order = [status |-> order.status, done |-> order.done]
Serial == ~disturbed => Alone /\ Current /\ OrderShape

StatusKept ==
    order.status \in {"completed", "cancelled"} => order'.status \in {order.status, "none"}

LEMMA InitSerial == Init => Serial
  BY DEF Init, Serial, Alone, Current, OrderShape, At, Idle

\* A request that begins alone has read the work order as it is.
LEMMA BeginSerial ==
    ASSUME Shapes, Serial, NEW r \in Requests, NEW q, Begin(r, q),
           q.at \in {"read", "saved", "sum", "rollup", "edit"} => q.order = order
    PROVE  Serial' /\ (~disturbed' => StatusKept)
  BY DEF Shapes, Serial, Alone, Current, OrderShape, StatusKept, Begin, Goto, At, tables

\* A request under way goes on without writing the work order.
LEMMA GoSerial ==
    ASSUME Shapes, Serial, NEW r \in Requests, NEW q, ~At(r, "idle"), Goto(r, q),
           UNCHANGED order, disturbed' = disturbed \/ disturbed' = TRUE,
           ~disturbed /\ q.at \in {"read", "saved", "sum", "rollup", "edit"} => q.order = order
    PROVE  Serial' /\ (~disturbed' => StatusKept)
  BY DEF Shapes, Serial, Alone, Current, OrderShape, StatusKept, Goto, At

\* A request ends and writes a work order.
LEMMA EndSerial ==
    ASSUME Shapes, Serial, NEW r \in Requests, ~At(r, "idle"), Goto(r, Idle),
           UNCHANGED disturbed,
           ~disturbed => OrderShape' /\ StatusKept
    PROVE  Serial' /\ (~disturbed' => StatusKept)
  BY DEF Shapes, Serial, Alone, Current, OrderShape, StatusKept, Goto, At, Idle

LEMMA CommitEventSerial ==
    ASSUME Shapes, Serial, NEW r \in Requests, CommitEvent(r)
    PROVE  Serial' /\ (~disturbed' => StatusKept)
  <1>1. ASSUME ~disturbed PROVE OrderShape' /\ StatusKept
    <2>1. req[r].order = order /\ OrderShape
      BY <1>1 DEF CommitEvent, Serial, Current, At
    <2>2. \/ order' = [order EXCEPT !.status = "in_progress"] /\ order.status = "dispatched"
          \/ order' = [order EXCEPT !.status = "completed"] /\ order.status = "in_progress"
          \/ order' = order
      BY <2>1 DEF CommitEvent
    <2>3. QED
      BY <2>1, <2>2 DEF OrderShape, StatusKept
  <1>2. QED
    BY <1>1, EndSerial DEF CommitEvent, history, At

\* The work order that was read is written back with another quantity.
LEMMA WriteBackSerial ==
    ASSUME Shapes, Serial, NEW r \in Requests,
           CommitReport(r) \/ SaveOrder(r) \/ SaveEdit(r)
    PROVE  Serial' /\ (~disturbed' => StatusKept)
  <1>1. ASSUME ~disturbed PROVE OrderShape' /\ StatusKept
    <2>1. req[r].order = order /\ OrderShape
      BY <1>1 DEF CommitReport, SaveOrder, SaveEdit, Serial, Current, At
    <2>2. order' = [order EXCEPT !.done = req[r].sum] \/ order' = order
      BY <2>1 DEF CommitReport, SaveOrder, SaveEdit
    <2>3. QED
      BY <2>1, <2>2 DEF OrderShape, StatusKept
  <1>2. QED
    BY <1>1, EndSerial DEF CommitReport, SaveOrder, SaveEdit, history, At

LEMMA NextSerial ==
    ASSUME Shapes, Serial, [Next]_vars
    PROVE  Serial' /\ (~disturbed' => StatusKept)
  <1> DEFINE Goal == Serial' /\ (~disturbed' => StatusKept)
  <1>1. ASSUME UNCHANGED vars \/ Consume PROVE Goal
    BY <1>1 DEF vars, Consume, Serial, Alone, Current, OrderShape, StatusKept, At
  <1>2. ASSUME NEW from, NEW to, Transition(from, to),
               "completed" \notin from, "cancelled" \notin from
        PROVE  Goal
    BY <1>2 DEF Transition, Serial, Alone, Current, OrderShape, StatusKept, At
  <1>3. ASSUME Start \/ Hold \/ Complete \/ Cancel PROVE Goal
    BY <1>2, <1>3 DEF Start, Hold, Complete, Cancel
  <1>4. ASSUME NEW r \in Requests,
               CheckEvent(r) \/ InsertReport(r) \/ LoadPurge(r) \/ LoadEdit(r) \/ LoadDrop(r)
        PROVE  Goal
    <2>1. PICK q : /\ Begin(r, q)
                   /\ q.at \in {"read", "saved", "sum", "rollup", "edit"} => q.order = order
      <3>1. CASE CheckEvent(r) \/ LoadPurge(r) \/ LoadDrop(r)
        <4>1. PICK q : Begin(r, q) /\ q.at \in {"checked", "purge", "drop"}
          <5>1. CASE CheckEvent(r)
            BY <5>1 DEF CheckEvent
          <5>2. CASE LoadPurge(r)
            BY <5>2 DEF LoadPurge
          <5>3. CASE LoadDrop(r)
            BY <5>3 DEF LoadDrop
          <5>4. QED
            BY <3>1, <5>1, <5>2, <5>3
        <4>2. QED
          BY <4>1
      <3>2. CASE LoadEdit(r)
        BY <3>2 DEF LoadEdit
      <3>3. CASE InsertReport(r)
        <4>1. PICK row, job : Begin(r, [at |-> "read", row |-> row, order |-> order, job |-> job])
          BY <3>3, Zenon DEF InsertReport
        <4>2. QED
          BY <4>1
      <3>4. QED
        BY <1>4, <3>1, <3>2, <3>3
    <2>2. QED
      BY <2>1, BeginSerial
  <1>5. ASSUME NEW r \in Requests, SaveOp(r) \/ SumOps(r) PROVE Goal
    <2>1. PICK q : /\ Goto(r, q) /\ q.order = req[r].order
                   /\ req[r].at \in {"read", "sum"} /\ UNCHANGED <<order, disturbed>>
      BY <1>5 DEF SaveOp, SumOps, Remember, At, tables
    <2>2. ~disturbed => q.order = order
      BY <2>1 DEF Serial, Current
    <2>3. ~At(r, "idle")
      BY <2>1 DEF At
    <2>4. QED
      BY <2>1, <2>2, <2>3, GoSerial
  <1>6. ASSUME NEW r \in Requests,
               \/ InsertLog(r) \/ SavePurgedOp(r) \/ FindMovement(r) \/ DeleteReport(r)
               \/ LoadOrder(r) \/ Fail(r)
        PROVE  Goal
    <2>1. PICK q : /\ Goto(r, q)
                   /\ q.at \in {"read", "saved", "sum", "rollup", "edit"} => q.order = order
      BY <1>6 DEF InsertLog, SavePurgedOp, FindMovement, DeleteReport, LoadOrder, Fail, Refuse,
                  Remember, Idle
    <2>2. ~At(r, "idle") /\ UNCHANGED order /\ (disturbed' = disturbed \/ disturbed' = TRUE)
      BY <1>6 DEF InsertLog, SavePurgedOp, FindMovement, DeleteReport, LoadOrder, Fail, Refuse,
                  Remember, At, tables
    <2>3. QED
      BY <2>1, <2>2, GoSerial
  <1>7. ASSUME NEW r \in Requests, Drop(r) PROVE Goal
    <2>1. OrderShape' /\ StatusKept
      BY <1>7 DEF Drop, OrderShape, StatusKept
    <2>2. QED
      BY <1>7, <2>1, EndSerial DEF Drop, At
  <1>8. QED
    BY <1>1, <1>3, <1>4, <1>5, <1>6, <1>7, CommitEventSerial, WriteBackSerial DEF Next

\* Requests that come one at a time never take a work order out of completed or
\* cancelled, whatever is started, stopped, reported, edited or deleted on it.
THEOREM EndedStays == Spec => EndedStaysEnded
  <1>1. Init => IInv /\ Serial
    BY InitIInv, InitSerial
  <1>2. IInv /\ Serial /\ [Next]_vars => IInv' /\ Serial'
    BY NextIInv, NextSerial DEF IInv
  <1>3. IInv /\ Serial /\ [Next]_vars =>
          [~disturbed' /\ order.status \in {"completed", "cancelled"}
             => order'.status \in {order.status, "none"}]_vars
    BY NextSerial DEF IInv, StatusKept
  <1>4. QED
    BY <1>1, <1>2, <1>3, PTL DEF Spec, EndedStaysEnded

-----------------------------------------------------------------------------
(***************************************************************************)
(* The totals.  What a transaction has added to the total it has read is   *)
(* what it commits, since the row it has read is still there.              *)
(***************************************************************************)
GoodOf(job) == IF job.act = "report" THEN job.good ELSE 0

\* An operation that is being written exists, and its new total is one report more.
SavesAddUp ==
    \A r \in Requests :
      InTransaction(r) =>
        /\ op[req[r].job.op].status # "none"
        /\ At(r, "saved") =>
             req[r].row.total = op[req[r].job.op].total + GoodOf(req[r].job)

CountIInv == SavesAddUp /\ ReportsCounted

LEMMA GoodIsNat ==
    ASSUME IInv
    PROVE  /\ \A p \in Reports : Good[p] \in Nat
           /\ \A S \in SUBSET Reports : IsFiniteSet(S) /\ IntOn(Good, S) /\ SumOver(Good, S) \in Nat
  <1>1. \A p \in Reports : Good[p] \in Nat
    BY DEF Good, IInv, Shapes, ReportRow
  <1>2. \A S \in SUBSET Reports : IsFiniteSet(S) /\ IntOn(Good, S)
    BY <1>1, ShopFloorAssumption, FS_Subset DEF IntOn
  <1>3. QED
    BY <1>1, <1>2, SumNat

\* A report that is filed adds its quantity to its own operation only.
LEMMA FiledReports ==
    ASSUME IInv, IInv', NEW p \in Reports, NEW o \in Ops, NEW g \in Nat,
           report[p].state = "unused",
           report' = [report EXCEPT ![p] = [state |-> "present", op |-> o, good |-> g]]
    PROVE  /\ Reported(o)' = Reported(o) \cup {p}
           /\ p \notin Reported(o)
           /\ \A q \in Ops \ {o} : Reported(q)' = Reported(q)
           /\ \A q \in Reports \ {p} : Good'[q] = Good[q]
           /\ SumOver(Good, Reported(o))' = SumOver(Good, Reported(o)) + g
           /\ \A q \in Ops \ {o} : SumOver(Good, Reported(q))' = SumOver(Good, Reported(q))
  <1>1. /\ report'[p] = [state |-> "present", op |-> o, good |-> g]
        /\ \A q \in Reports \ {p} : report'[q] = report[q]
    BY DEF IInv, Shapes
  <1>2. /\ Reported(o)' = Reported(o) \cup {p}
        /\ p \notin Reported(o)
        /\ \A q \in Ops \ {o} : Reported(q)' = Reported(q) /\ p \notin Reported(q)
    BY <1>1 DEF Reported
  <1>3. Good'[p] = g /\ \A q \in Reports \ {p} : Good'[q] = Good[q]
    BY <1>1 DEF Good
  <1>4. \A q : Reported(q) \in SUBSET Reports /\ Reported(q)' \in SUBSET Reports
    BY DEF Reported
  <1>5. \A S \in SUBSET Reports : /\ IsFiniteSet(S) /\ IntOn(Good, S) /\ IntOn(Good', S)
                                   /\ SumOver(Good, S) \in Nat /\ SumOver(Good', S) \in Nat
    <2>1. \A q \in Reports : Good'[q] \in Nat
      BY DEF Good, IInv, Shapes, ReportRow
    <2>2. QED
      BY <2>1, GoodIsNat, SumNat DEF IntOn
  <1>6. SumOver(Good', Reported(o) \cup {p}) = Good'[p] + SumOver(Good', Reported(o))
    <2>1. Reported(o) \cup {p} \in SUBSET Reports
      BY <1>4
    <2>2. QED
      BY <1>2, <1>4, <1>5, <2>1, SumAdd
  <1>7. \A q \in Ops : SumOver(Good', Reported(q)) = SumOver(Good, Reported(q))
    <2> SUFFICES ASSUME NEW q \in Ops
                 PROVE  SumOver(Good', Reported(q)) = SumOver(Good, Reported(q))
      OBVIOUS
    <2>1. \A x \in Reported(q) : Good'[x] = Good[x]
      BY <1>2, <1>3, <1>4
    <2>2. QED
      BY <1>4, <1>5, <2>1, SumSame
  <1>8. SumOver(Good, Reported(o))' = SumOver(Good', Reported(o)')
    OBVIOUS
  <1>9. SumOver(Good, Reported(o))' = SumOver(Good, Reported(o)) + g
    BY <1>2, <1>3, <1>4, <1>5, <1>6, <1>7, <1>8
  <1>10. \A q \in Ops \ {o} : SumOver(Good, Reported(q))' = SumOver(Good, Reported(q))
    BY <1>2, <1>7
  <1>11. QED
    BY <1>2, <1>3, <1>9, <1>10

\* A deletion of reports leaves the other operations alone.
LEMMA DeletedElsewhere ==
    ASSUME IInv, NEW gone \in SUBSET Reports, NEW back, Deleted(gone, back)
    PROVE  /\ Good' = Good
           /\ \A o : Reported(o)' = Reported(o) \ gone
  <1>1. \A p \in Reports : /\ report'[p].op = report[p].op
                           /\ report'[p].good = report[p].good
                           /\ report'[p].state = IF p \in gone THEN "deleted" ELSE report[p].state
    BY DEF Deleted, IInv, Shapes, ReportRow
  <1>2. Good' = Good
    BY <1>1 DEF Good
  <1>3. \A o : Reported(o)' = Reported(o) \ gone
    BY <1>1 DEF Reported
  <1>4. QED
    BY <1>2, <1>3

\* A step that keeps the totals and starts no transaction.
LEMMA KeepCounts ==
    ASSUME CountIInv, UNCHANGED <<op, report, purged>>,
           \A s \in Requests : InTransaction(s)' => req'[s] = req[s]
    PROVE  CountIInv'
  <1>1. SavesAddUp'
    BY DEF CountIInv, SavesAddUp, InTransaction, At
  <1>2. ReportsCounted'
    BY DEF CountIInv, ReportsCounted, Good, Reported
  <1>3. QED
    BY <1>1, <1>2 DEF CountIInv

\* A transaction reads an operation that is there, and writes it.
LEMMA ReadCounts ==
    ASSUME IInv, CountIInv, NEW r \in Requests, InsertLog(r) \/ InsertReport(r) \/ SaveOp(r)
    PROVE  CountIInv'
  <1>1. CASE Refuse(r)
    <2>1. req' = [req EXCEPT ![r] = Idle] /\ UNCHANGED <<op, report, purged>>
      BY <1>1 DEF Refuse, Goto, tables, history
    <2>2. QED
      BY <2>1, KeepCounts DEF IInv, Shapes, InTransaction, Idle
  <1>2. CASE ~Refuse(r)
    <2>1. UNCHANGED <<op, report, purged>>
      BY <1>2 DEF InsertLog, InsertReport, SaveOp, Begin, Remember, tables, history
    <2>2. PICK q : /\ Goto(r, q) /\ q.at \in {"read", "saved"}
                   /\ op[q.job.op].status # "none"
                   /\ q.at = "saved" => q.row.total = op[q.job.op].total + GoodOf(q.job)
      <3>1. CASE InsertLog(r)
        BY <1>2, <3>1 DEF InsertLog, Remember
      <3>2. CASE InsertReport(r)
        <4>1. PICK o \in Ops, p \in Reports, good \in Goods, emit \in Emits :
                /\ op[o].status # "none"
                /\ Begin(r, [at |-> "read", row |-> op[o], order |-> order,
                             job |-> [act |-> "report", op |-> o, id |-> p, good |-> good,
                                      emit |-> emit]])
          BY <3>2 DEF InsertReport
        <4> DEFINE job == [act |-> "report", op |-> o, id |-> p, good |-> good, emit |-> emit]
                   q == [at |-> "read", row |-> op[o], order |-> order, job |-> job]
        <4>2. Goto(r, q) /\ q.at = "read" /\ q.job.op = o
          BY <4>1 DEF Begin
        <4> HIDE DEF q
        <4>3. QED
          BY <4>1, <4>2
      <3>3. CASE SaveOp(r)
        <4> DEFINE job == req[r].job
                   new == [status |-> StatusAfter(job.act, req[r].row.status),
                           total |-> req[r].row.total + GoodOf(job)]
                   added == SumOver([Totals EXCEPT ![job.op] = new.total], Ops)
                   shut == \A o \in Ops \ {job.op} : op[o].status = "completed"
                   q == [at |-> "saved", job |-> job, row |-> new, order |-> req[r].order,
                         sum |-> added, closed |-> shut]
        <4>1. Goto(r, q)
          BY <3>3, Zenon DEF SaveOp, Remember, GoodOf
        <4>2. op[job.op].status # "none" /\ req[r].row = op[job.op]
          BY <3>3 DEF SaveOp, CountIInv, SavesAddUp, InTransaction, At, IInv, RowsLocked
        <4>3. q.at = "saved" /\ q.job = job /\ q.row.total = op[job.op].total + GoodOf(job)
          BY <4>2
        <4> HIDE DEF q
        <4>4. QED
          BY <4>1, <4>2, <4>3
      <3>4. QED
        BY <3>1, <3>2, <3>3
    <2>3. SavesAddUp'
      BY <2>1, <2>2 DEF CountIInv, SavesAddUp, InTransaction, At, IInv, Shapes, Goto
    <2>4. ReportsCounted'
      BY <2>1 DEF CountIInv, ReportsCounted, Good, Reported
    <2>5. QED
      BY <2>3, <2>4 DEF CountIInv
  <1>3. QED
    BY <1>1, <1>2

\* What is left of the other transactions when one commits an operation.
LEMMA CommitSaves ==
    ASSUME IInv, CountIInv, NEW r \in Requests, At(r, "saved"), Goto(r, Idle),
           op' = [op EXCEPT ![req[r].job.op] = req[r].row]
    PROVE  SavesAddUp'
  <1>1. \A s \in Requests \ {r} : InTransaction(s) => /\ req[s].job.op # req[r].job.op
                                                      /\ op'[req[s].job.op] = op[req[s].job.op]
    BY DEF IInv, Shapes, RowsLocked, At
  <1>2. \A s \in Requests \ {r} : req'[s] = req[s]
    BY DEF IInv, Shapes, Goto
  <1>3. req'[r] = Idle
    BY DEF IInv, Shapes, Goto
  <1>4. QED
    BY <1>1, <1>2, <1>3 DEF CountIInv, SavesAddUp, InTransaction, At, Idle

LEMMA CommitEventCounts ==
    ASSUME IInv, CountIInv, NEW r \in Requests, CommitEvent(r)
    PROVE  CountIInv'
  <1> DEFINE o == req[r].job.op
  <1>1. /\ At(r, "saved") /\ Goto(r, Idle) /\ req[r].job.act \in EventActions
        /\ op' = [op EXCEPT ![o] = req[r].row]
        /\ UNCHANGED <<report, purged>>
    BY DEF CommitEvent, history
  <1>2. o \in Ops
    BY <1>1 DEF IInv, Shapes, InJob, At, Job
  <1>3. op[o].status # "none" /\ req[r].row.total = op[o].total + 0
    BY <1>1 DEF CountIInv, SavesAddUp, InTransaction, At, GoodOf, EventActions
  <1>4. ASSUME NEW q \in Ops \ purged, op'[q].status # "none"
        PROVE  op'[q].total = SumOver(Good, Reported(q))
    <2>1. Reported(q) \in SUBSET Reports
      BY DEF Reported
    <2>2. SumOver(Good, Reported(q)) \in Nat
      BY <2>1, GoodIsNat
    <2>3. op[q].status # "none" => op[q].total = SumOver(Good, Reported(q))
      BY DEF CountIInv, ReportsCounted
    <2>4. q # o => op'[q] = op[q]
      BY <1>1 DEF IInv, Shapes
    <2>5. op'[o] = req[r].row
      BY <1>1, <1>2 DEF IInv, Shapes
    <2>6. QED
      BY <1>3, <1>4, <2>2, <2>3, <2>4, <2>5
  <1>5. ReportsCounted'
    BY <1>1, <1>4 DEF ReportsCounted, Good, Reported
  <1>6. SavesAddUp'
    BY <1>1, CommitSaves
  <1>7. QED
    BY <1>5, <1>6 DEF CountIInv

LEMMA CommitReportCounts ==
    ASSUME IInv, IInv', CountIInv, NEW r \in Requests, CommitReport(r)
    PROVE  CountIInv'
  <1> DEFINE job == req[r].job
  <1>1. /\ At(r, "saved") /\ Goto(r, Idle) /\ job.act = "report"
        /\ op' = [op EXCEPT ![job.op] = req[r].row]
        /\ report' = [report EXCEPT ![job.id] =
                        [state |-> "present", op |-> job.op, good |-> job.good]]
        /\ UNCHANGED purged
    BY DEF CommitReport, history
  <1>2. job \in Job
    BY <1>1 DEF IInv, Shapes, InJob, At
  <1>3. PICK o \in Ops, p \in Reports, g \in Nat : o = job.op /\ p = job.id /\ g = job.good
    BY <1>1, <1>2, ShopFloorAssumption DEF Job, EventActions
  <1>4. op[o].status # "none" /\ req[r].row.total = op[o].total + g
    BY <1>1, <1>3 DEF CountIInv, SavesAddUp, InTransaction, At, GoodOf
  <1>5. report[p].state = "unused"
    BY <1>1, <1>3 DEF IInv, IdsReserved, InTransaction, At
  <1>6. /\ SumOver(Good, Reported(o))' = SumOver(Good, Reported(o)) + g
        /\ \A q \in Ops \ {o} : SumOver(Good, Reported(q))' = SumOver(Good, Reported(q))
    BY <1>1, <1>3, <1>5, FiledReports
  <1>7. ASSUME NEW q \in Ops \ purged, op'[q].status # "none"
        PROVE  op'[q].total = SumOver(Good, Reported(q))'
    <2>1. op[q].status # "none" => op[q].total = SumOver(Good, Reported(q))
      BY DEF CountIInv, ReportsCounted
    <2>2. CASE q = o
      <3>1. op'[q].total = req[r].row.total
        BY <1>1, <1>3, <2>2 DEF IInv, Shapes
      <3>2. QED
        BY <1>4, <1>6, <2>1, <2>2, <3>1
    <2>3. CASE q # o
      <3>1. op'[q] = op[q]
        BY <1>1, <1>3, <2>3 DEF IInv, Shapes
      <3>2. QED
        BY <1>6, <1>7, <2>1, <2>3, <3>1
    <2>4. QED
      BY <2>2, <2>3
  <1>8. ReportsCounted'
    BY <1>1, <1>7 DEF ReportsCounted
  <1>9. SavesAddUp'
    BY <1>1, CommitSaves
  <1>10. QED
    BY <1>8, <1>9 DEF CountIInv

\* A deletion touches the total of an operation that it has marked, which no transaction
\* has read.
LEMMA SavePurgedOpCounts ==
    ASSUME IInv, CountIInv, NEW r \in Requests, SavePurgedOp(r), ~Refuse(r)
    PROVE  CountIInv'
  <1> DEFINE o == report[req[r].id].op
  <1>1. PICK new :
          /\ op' = [op EXCEPT ![o] = new]
          /\ req' = [req EXCEPT ![r] = [at |-> "unlink", id |-> req[r].id]]
          /\ UNCHANGED <<report, purged>>
    BY DEF SavePurgedOp, Goto, history
  <1>2. At(r, "purge") /\ ~Shared(r, o) /\ ~Exclusive(r, o)
    BY DEF SavePurgedOp
  <1>3. o \in purged
    BY <1>2 DEF IInv, PurgesMarked, Deleting, At
  <1>4. \A s \in Requests : InTransaction(s) => req[s].job.op # o
    BY <1>2 DEF InTransaction, Shared, Exclusive, At
  <1>5. SavesAddUp'
    BY <1>1, <1>4 DEF CountIInv, SavesAddUp, IInv, Shapes, InTransaction, At
  <1>6. \A q \in Ops \ purged : op'[q] = op[q]
    BY <1>1, <1>3 DEF IInv, Shapes
  <1>7. ReportsCounted'
    BY <1>1, <1>6 DEF CountIInv, ReportsCounted, Good, Reported
  <1>8. QED
    BY <1>5, <1>7 DEF CountIInv

LEMMA DeleteReportCounts ==
    ASSUME IInv, CountIInv, NEW r \in Requests, DeleteReport(r)
    PROVE  CountIInv'
  <1> DEFINE p == req[r].id
  <1>1. PICK back : Deleted({p}, back)
    BY DEF DeleteReport
  <1>2. /\ At(r, "reverse") /\ req' = [req EXCEPT ![r] = [at |-> "reload"]]
        /\ UNCHANGED <<op, purged>>
    BY DEF DeleteReport, Goto
  <1>3. p \in Reports /\ report[p].op \in purged
    BY <1>2 DEF IInv, PurgesMarked, Deleting, At
  <1>4. Good' = Good /\ \A o : Reported(o)' = Reported(o) \ {p}
    BY <1>1, <1>3, DeletedElsewhere
  <1>5. \A o \in Ops \ purged : p \notin Reported(o)
    BY <1>3 DEF Reported
  <1>6. \A o \in Ops \ purged : Reported(o)' = Reported(o)
    BY <1>4, <1>5
  <1>7. ReportsCounted'
    BY <1>2, <1>4, <1>6 DEF CountIInv, ReportsCounted
  <1>8. SavesAddUp'
    BY <1>2 DEF CountIInv, SavesAddUp, IInv, Shapes, InTransaction, At
  <1>9. QED
    BY <1>7, <1>8 DEF CountIInv

LEMMA DropCounts ==
    ASSUME IInv, NEW r \in Requests, Drop(r)
    PROVE  CountIInv'
  <1>1. /\ At(r, "drop") /\ \A o \in Ops : ~Shared(r, o) /\ ~Exclusive(r, o)
        /\ req' = [req EXCEPT ![r] = Idle] /\ op' = [o \in Ops |-> NoOp]
    BY DEF Drop, Goto
  <1>2. \A s \in Requests : InTransaction(s) => req[s].job.op \in Ops
    BY DEF IInv, Shapes, InJob, InTransaction, Job
  <1>3. \A s \in Requests : ~InTransaction(s)'
    BY <1>1, <1>2 DEF InTransaction, Shared, Exclusive, At, Idle, IInv, Shapes
  <1>4. QED
    BY <1>1, <1>3 DEF CountIInv, SavesAddUp, ReportsCounted, NoOp

\* Every other step keeps the totals.
LEMMA OtherCounts ==
    ASSUME IInv, CountIInv, NEW r \in Requests,
           \/ CheckEvent(r) \/ LoadPurge(r) \/ FindMovement(r) \/ LoadOrder(r) \/ SumOps(r)
           \/ SaveOrder(r) \/ LoadEdit(r) \/ SaveEdit(r) \/ LoadDrop(r) \/ Fail(r)
           \/ (SavePurgedOp(r) /\ Refuse(r))
    PROVE  CountIInv'
  <1>1. UNCHANGED <<op, report>> /\ purged \subseteq purged'
    BY DEF CheckEvent, LoadPurge, FindMovement, LoadOrder, SumOps, SaveOrder, LoadEdit, SaveEdit,
           LoadDrop, Fail, Refuse, Begin, Remember, tables, history
  <1>2. PICK q : Goto(r, q) /\ q.at \notin {"read", "saved"}
    <2>1. CASE CheckEvent(r)
      BY <2>1 DEF CheckEvent, Begin
    <2>2. CASE LoadPurge(r)
      BY <2>2 DEF LoadPurge, Begin
    <2>3. CASE FindMovement(r) \/ LoadOrder(r) \/ SumOps(r) \/ SaveOrder(r)
      BY <2>3 DEF FindMovement, LoadOrder, SumOps, SaveOrder, Remember, Refuse, Idle
    <2>4. CASE LoadEdit(r) \/ SaveEdit(r) \/ LoadDrop(r) \/ Fail(r) \/ Refuse(r)
      BY <2>4 DEF LoadEdit, SaveEdit, LoadDrop, Fail, Refuse, Begin, Idle
    <2>5. QED
      BY <2>1, <2>2, <2>3, <2>4
  <1>3. SavesAddUp'
    BY <1>1, <1>2 DEF CountIInv, SavesAddUp, InTransaction, At, IInv, Shapes, Goto
  <1>4. ReportsCounted'
    BY <1>1 DEF CountIInv, ReportsCounted, Good, Reported
  <1>5. QED
    BY <1>3, <1>4 DEF CountIInv

LEMMA NextCounts ==
    ASSUME IInv, IInv', CountIInv, [Next]_vars
    PROVE  CountIInv'
  <1>1. ASSUME UNCHANGED vars \/ Start \/ Hold \/ Complete \/ Cancel \/ Consume PROVE CountIInv'
    <2>1. UNCHANGED <<op, report, purged, req>>
      BY <1>1 DEF vars, Start, Hold, Complete, Cancel, Transition, Consume, history
    <2>2. QED
      BY <2>1, KeepCounts
  <1>2. ASSUME NEW r \in Requests, SavePurgedOp(r) PROVE CountIInv'
    BY <1>2, SavePurgedOpCounts, OtherCounts
  <1>3. ASSUME NEW r \in Requests,
               \/ CheckEvent(r) \/ LoadPurge(r) \/ FindMovement(r) \/ LoadOrder(r) \/ SumOps(r)
               \/ SaveOrder(r) \/ LoadEdit(r) \/ SaveEdit(r) \/ LoadDrop(r) \/ Fail(r)
        PROVE  CountIInv'
    BY <1>3, OtherCounts
  <1>4. ASSUME NEW r \in Requests,
               \/ InsertLog(r) \/ InsertReport(r) \/ SaveOp(r) \/ CommitEvent(r)
               \/ CommitReport(r) \/ DeleteReport(r) \/ Drop(r)
        PROVE  CountIInv'
    BY <1>4, ReadCounts, CommitEventCounts, CommitReportCounts, DeleteReportCounts, DropCounts
  <1>5. QED
    BY <1>1, <1>2, <1>3, <1>4 DEF Next

LEMMA InitCounts == Init => CountIInv
  <1> SUFFICES ASSUME Init PROVE CountIInv
    OBVIOUS
  <1>1. \A o \in Ops : Reported(o) = {} /\ op[o].total = 0
    BY DEF Init, Reported
  <1>2. ReportsCounted
    BY <1>1, SumEmpty DEF ReportsCounted
  <1>3. QED
    BY <1>2 DEF Init, CountIInv, SavesAddUp, InTransaction, At, Idle

\* However many requests report on an operation, its total counts every committed report
\* exactly once, unless a deletion has touched it: no update is lost.
THEOREM NoReportLost == Spec => []ReportsCounted
  <1>1. Init => IInv /\ CountIInv
    BY InitIInv, InitCounts
  <1>2. IInv /\ CountIInv /\ [Next]_vars => IInv' /\ CountIInv'
    BY NextIInv, NextCounts
  <1>3. CountIInv => ReportsCounted
    BY DEF CountIInv
  <1>4. QED
    BY <1>1, <1>2, <1>3, PTL DEF Spec

-----------------------------------------------------------------------------
(***************************************************************************)
(* The movements of a report.  The foreign key from the movement to the    *)
(* report is what a deletion goes by, and only a deletion clears it.       *)
(***************************************************************************)
MoveRow == [into : {0, 1}, out : Nat, linked : BOOLEAN]

StockIInv ==
    /\ moved \in [Reports -> MoveRow]
    /\ \A p \in Reports :
         /\ report[p].state # "deleted" =>
              moved[p].out = 0 /\ (moved[p].linked <=> moved[p].into = 1)
         /\ report[p].state = "deleted" => ~moved[p].linked
    /\ \A r \in Requests :
         At(r, "reverse") => /\ req[r].found \in BOOLEAN
                             /\ ~req[r].found => ~moved[req[r].id].linked
    /\ DeletionReversed

LEMMA InitStock == Init => StockIInv
  BY DEF Init, StockIInv, MoveRow, DeletionReversed, At, Idle

\* A step that writes neither reports nor movements, and finds no movement.
LEMMA KeepStock ==
    ASSUME IInv, StockIInv, UNCHANGED <<report, moved, refused>>,
           NEW r \in Requests, NEW q, Goto(r, q), q.at # "reverse"
    PROVE  StockIInv'
  BY DEF StockIInv, DeletionReversed, IInv, Shapes, Goto, At

\* The report that is filed is new, so no deletion is after it.
LEMMA CommitReportStock ==
    ASSUME IInv, StockIInv, NEW r \in Requests, CommitReport(r)
    PROVE  StockIInv'
  <1> DEFINE job == req[r].job
  <1>1. /\ At(r, "saved") /\ Goto(r, Idle) /\ job.act = "report"
        /\ report' = [report EXCEPT ![job.id] =
                        [state |-> "present", op |-> job.op, good |-> job.good]]
        /\ UNCHANGED refused
    BY DEF CommitReport, history
  <1>2. job \in Job
    BY <1>1 DEF IInv, Shapes, InJob, At
  <1>3. PICK p \in Reports, posts \in BOOLEAN :
          /\ p = job.id
          /\ moved' = [moved EXCEPT ![p].into = IF posts THEN 1 ELSE 0, ![p].linked = posts]
    <2>1. job.id \in Reports
      BY <1>1, <1>2 DEF Job, EventActions
    <2>2. Posts(job) \in BOOLEAN
      BY <1>1, <1>2, ShopFloorAssumption DEF Posts, Job, EventActions
    <2>3. QED
      BY <2>1, <2>2 DEF CommitReport
  <1>4. report[p].state = "unused"
    BY <1>1, <1>3 DEF IInv, IdsReserved, InTransaction, At
  <1>5. /\ moved' \in [Reports -> MoveRow]
        /\ moved'[p].out = moved[p].out /\ (moved'[p].linked <=> moved'[p].into = 1)
        /\ \A q \in Reports \ {p} : moved'[q] = moved[q]
    BY <1>3 DEF StockIInv, MoveRow
  <1>6. report'[p].state = "present" /\ \A q \in Reports \ {p} : report'[q] = report[q]
    BY <1>1, <1>3 DEF IInv, Shapes
  <1>7. req' = [req EXCEPT ![r] = Idle] /\ req = [s \in Requests |-> req[s]]
    BY <1>1 DEF Goto, IInv, Shapes
  <1>8. \A s \in Requests : At(s, "reverse")' =>
          req'[s] = req[s] /\ At(s, "reverse") /\ req[s].id \in Reports \ {p}
    BY <1>4, <1>7 DEF IInv, PurgesMarked, Deleting, At, Idle
  <1>9. QED
    BY <1>1, <1>4, <1>5, <1>6, <1>8 DEF StockIInv, DeletionReversed, At

\* What Deleted makes of the reports and their movements.
LEMMA DeletedMovements ==
    ASSUME IInv, StockIInv, NEW gone \in SUBSET Reports, NEW back \in SUBSET gone,
           Deleted(gone, back)
    PROVE  /\ moved' \in [Reports -> MoveRow]
           /\ \A p \in Reports :
                /\ report'[p].state = IF p \in gone THEN "deleted" ELSE report[p].state
                /\ moved'[p].into = moved[p].into
                /\ moved'[p].out = IF p \in back THEN moved[p].out + 1 ELSE moved[p].out
                /\ moved'[p].linked <=> moved[p].linked /\ p \notin gone
           /\ \A p \in Reports \ gone : moved'[p] = moved[p] /\ report'[p] = report[p]
  <1>1. \A p \in Reports :
          /\ report'[p].state = IF p \in gone THEN "deleted" ELSE report[p].state
          /\ p \notin gone => report'[p] = report[p]
    BY DEF Deleted, IInv, Shapes, ReportRow
  <1>2. ASSUME NEW p \in Reports
        PROVE  \E n \in Nat, l \in BOOLEAN :
                 /\ n = IF p \in back THEN moved[p].out + 1 ELSE moved[p].out
                 /\ l <=> moved[p].linked /\ p \notin gone
                 /\ moved'[p] = [into |-> moved[p].into, out |-> n, linked |-> l]
    <2> DEFINE n == IF p \in back THEN moved[p].out + 1 ELSE moved[p].out
               l == moved[p].linked /\ p \notin gone
    <2>1. moved[p] \in MoveRow
      BY DEF StockIInv
    <2>2. n \in Nat
      BY <2>1 DEF MoveRow
    <2>3. l \in BOOLEAN
      OBVIOUS
    <2>4. moved'[p] = [into |-> moved[p].into, out |-> n, linked |-> l]
      BY DEF Deleted
    <2>5. /\ n = IF p \in back THEN moved[p].out + 1 ELSE moved[p].out
          /\ l <=> moved[p].linked /\ p \notin gone
      OBVIOUS
    <2> HIDE DEF n, l
    <2>6. QED
      BY <2>2, <2>3, <2>4, <2>5
  <1>3. ASSUME NEW p \in Reports
        PROVE  moved[p] \in MoveRow /\ moved'[p] \in MoveRow
    <2>1. PICK n \in Nat, l \in BOOLEAN :
            moved'[p] = [into |-> moved[p].into, out |-> n, linked |-> l]
      BY <1>2
    <2>2. moved[p] \in MoveRow
      BY DEF StockIInv
    <2>3. QED
      BY <2>1, <2>2 DEF MoveRow
  <1>4. moved' \in [Reports -> MoveRow]
    BY <1>3 DEF Deleted
  <1>5. ASSUME NEW p \in Reports
        PROVE  /\ moved'[p].into = moved[p].into
               /\ moved'[p].out = IF p \in back THEN moved[p].out + 1 ELSE moved[p].out
               /\ moved'[p].linked <=> moved[p].linked /\ p \notin gone
    <2>1. PICK n \in Nat, l \in BOOLEAN :
            /\ n = IF p \in back THEN moved[p].out + 1 ELSE moved[p].out
            /\ l <=> moved[p].linked /\ p \notin gone
            /\ moved'[p] = [into |-> moved[p].into, out |-> n, linked |-> l]
      BY <1>2
    <2>2. moved'[p].into = moved[p].into /\ moved'[p].out = n /\ moved'[p].linked = l
      BY <2>1
    <2>3. QED
      BY <2>1, <2>2
  <1>6. ASSUME NEW p \in Reports \ gone
        PROVE  moved'[p] = moved[p]
    <2>1. moved'[p].linked = moved[p].linked
      BY <1>3, <1>5 DEF MoveRow
    <2>2. QED
      BY <1>3, <1>5, <2>1 DEF MoveRow
  <1>7. QED
    BY <1>1, <1>4, <1>5, <1>6

\* A movement that was found is reversed or its refusal noted; one that was not found
\* was never posted, or another deletion has taken care of it.
LEMMA DeleteReportStock ==
    ASSUME IInv, StockIInv, NEW r \in Requests, DeleteReport(r)
    PROVE  StockIInv'
  <1>1. PICK p, gone, back :
          /\ p = req[r].id /\ gone = {p}
          /\ back = {q \in {p} : req[r].found /\ stock >= Good[q]}
          /\ At(r, "reverse") /\ Deleted(gone, back)
          /\ refused' = IF req[r].found /\ back = {} THEN refused \cup {p} ELSE refused
          /\ Goto(r, [at |-> "reload"])
    BY DEF DeleteReport
  <1>2. p \in Reports /\ report[p].state # "unused"
    BY <1>1 DEF IInv, PurgesMarked, Deleting, At
  <1>3. gone \in SUBSET Reports /\ back \in SUBSET gone
    BY <1>1, <1>2
  <1>4. /\ moved' \in [Reports -> MoveRow]
        /\ report'[p].state = "deleted" /\ moved'[p].into = moved[p].into /\ ~moved'[p].linked
        /\ moved'[p].out = IF p \in back THEN moved[p].out + 1 ELSE moved[p].out
        /\ \A q \in Reports \ {p} : moved'[q] = moved[q] /\ report'[q] = report[q]
    <2>1. Deleted(gone, back) /\ gone = {p}
      BY <1>1
    <2>2. /\ moved' \in [Reports -> MoveRow]
          /\ \A q \in Reports :
               /\ report'[q].state = IF q \in gone THEN "deleted" ELSE report[q].state
               /\ moved'[q].into = moved[q].into
               /\ moved'[q].out = IF q \in back THEN moved[q].out + 1 ELSE moved[q].out
               /\ moved'[q].linked <=> moved[q].linked /\ q \notin gone
          /\ \A q \in Reports \ gone : moved'[q] = moved[q] /\ report'[q] = report[q]
      BY <1>3, <2>1, DeletedMovements
    <2>3. QED
      BY <1>2, <2>1, <2>2
  <1>5. moved[p] \in MoveRow /\ req[r].found \in BOOLEAN
    BY <1>1, <1>2 DEF StockIInv
  <1>6. p \notin refused' => moved'[p].out >= moved'[p].into
    <2>1. CASE req[r].found
      BY <1>1, <1>4, <1>5, <2>1 DEF MoveRow
    <2>2. CASE ~req[r].found
      <3>1. back = {} /\ refused' = refused /\ ~moved[p].linked
        BY <1>1, <2>2 DEF StockIInv
      <3>2. moved[p].into = 0 \/ report[p].state = "deleted"
        BY <1>2, <1>5, <3>1 DEF StockIInv, MoveRow
      <3>3. QED
        BY <1>2, <1>4, <1>5, <3>1, <3>2 DEF StockIInv, DeletionReversed, MoveRow
    <2>3. QED
      BY <1>5, <2>1, <2>2
  <1>7. req' = [req EXCEPT ![r] = [at |-> "reload"]] /\ req = [s \in Requests |-> req[s]]
    BY <1>1 DEF Goto, IInv, Shapes
  <1>8. \A s \in Requests : At(s, "reverse")' => req'[s] = req[s] /\ At(s, "reverse")
    BY <1>7 DEF At
  <1>9. \A s \in Requests : At(s, "reverse") => req[s].id \in Reports
    BY DEF IInv, PurgesMarked, Deleting, At
  <1>10. refused \subseteq refused'
    BY <1>1
  <1>11. QED
    BY <1>2, <1>4, <1>6, <1>8, <1>9, <1>10 DEF StockIInv, DeletionReversed

\* The cascade reverses the movements of its reports, or notes their refusal.
LEMMA DropStock ==
    ASSUME IInv, StockIInv, NEW r \in Requests, Drop(r)
    PROVE  StockIInv'
  <1>1. PICK gone, found, back :
          /\ gone = {p \in Reports : report[p].state = "present"
                                      /\ op[report[p].op].status # "none"}
          /\ found = {p \in gone : moved[p].linked}
          /\ back \in SUBSET found
          /\ Deleted(gone, back)
          /\ refused' = refused \cup (found \ back)
          /\ Goto(r, Idle)
    BY DEF Drop
  <1>2. gone \in SUBSET Reports /\ back \in SUBSET gone
    BY <1>1
  <1>3. /\ moved' \in [Reports -> MoveRow]
        /\ \A p \in Reports :
             /\ report'[p].state = IF p \in gone THEN "deleted" ELSE report[p].state
             /\ moved'[p].into = moved[p].into
             /\ moved'[p].out = IF p \in back THEN moved[p].out + 1 ELSE moved[p].out
             /\ moved'[p].linked <=> moved[p].linked /\ p \notin gone
        /\ \A p \in Reports \ gone : moved'[p] = moved[p] /\ report'[p] = report[p]
    BY <1>1, <1>2, DeletedMovements
  <1>4. ASSUME NEW p \in gone, p \notin refused'
        PROVE  moved'[p].out >= moved'[p].into
    <2>1. moved[p] \in MoveRow /\ report[p].state = "present"
      BY <1>1, <1>2, <1>4 DEF StockIInv
    <2>2. moved[p].out = 0 /\ (moved[p].linked <=> moved[p].into = 1)
      BY <1>2, <2>1 DEF StockIInv
    <2>3. p \in back \/ ~moved[p].linked
      BY <1>1, <1>4
    <2>4. QED
      BY <1>2, <1>3, <2>1, <2>2, <2>3 DEF MoveRow
  <1>5. req' = [req EXCEPT ![r] = Idle] /\ req = [s \in Requests |-> req[s]]
    BY <1>1 DEF Goto, IInv, Shapes
  <1>6. \A s \in Requests : At(s, "reverse")' => req'[s] = req[s] /\ At(s, "reverse")
    BY <1>5 DEF At, Idle
  <1>7. \A s \in Requests : At(s, "reverse") => req[s].id \in Reports
    BY DEF IInv, PurgesMarked, Deleting, At
  <1>8. \A p \in Reports \ gone : report'[p].state = "deleted" /\ p \notin refused'
                                     => moved'[p].out >= moved'[p].into
    BY <1>1, <1>3 DEF StockIInv, DeletionReversed
  <1>9. DeletionReversed'
    BY <1>4, <1>8 DEF DeletionReversed
  <1>10. \A p \in Reports :
           /\ report'[p].state # "deleted" =>
                moved'[p].out = 0 /\ (moved'[p].linked <=> moved'[p].into = 1)
           /\ report'[p].state = "deleted" => ~moved'[p].linked
    BY <1>2, <1>3 DEF StockIInv
  <1>11. QED
    BY <1>3, <1>6, <1>7, <1>9, <1>10 DEF StockIInv

LEMMA NextStock ==
    ASSUME IInv, StockIInv, [Next]_vars
    PROVE  StockIInv'
  <1>1. ASSUME UNCHANGED vars \/ Start \/ Hold \/ Complete \/ Cancel \/ Consume PROVE StockIInv'
    <2>1. UNCHANGED <<report, moved, refused, req>>
      BY <1>1 DEF vars, Start, Hold, Complete, Cancel, Transition, Consume, history
    <2>2. QED
      BY <2>1 DEF StockIInv, DeletionReversed, At
  <1>2. ASSUME NEW r \in Requests, FindMovement(r) PROVE StockIInv'
    <2>1. Goto(r, [at |-> "reverse", id |-> req[r].id, found |-> moved[req[r].id].linked])
          /\ UNCHANGED <<report, moved, refused>>
      BY <1>2 DEF FindMovement, Remember, tables, history
    <2>2. req[r].id \in Reports
      BY <1>2 DEF FindMovement, IInv, PurgesMarked, Deleting, At
    <2>3. QED
      BY <2>1, <2>2 DEF StockIInv, MoveRow, DeletionReversed, IInv, Shapes, Goto, At
  <1>3. ASSUME NEW r \in Requests,
               \/ CheckEvent(r) \/ InsertLog(r) \/ InsertReport(r) \/ SaveOp(r) \/ CommitEvent(r)
               \/ LoadPurge(r) \/ SavePurgedOp(r) \/ LoadOrder(r) \/ SumOps(r)
               \/ SaveOrder(r) \/ LoadEdit(r) \/ SaveEdit(r) \/ LoadDrop(r) \/ Fail(r)
        PROVE  StockIInv'
    <2>1. UNCHANGED <<report, moved, refused>>
      BY <1>3 DEF CheckEvent, InsertLog, InsertReport, SaveOp, CommitEvent, LoadPurge, SavePurgedOp,
           LoadOrder, SumOps, SaveOrder, LoadEdit, SaveEdit, LoadDrop, Fail, Refuse, Begin,
           Remember, tables, history
    <2>2. PICK q : Goto(r, q) /\ q.at # "reverse"
      <3>1. CASE CheckEvent(r)
        BY <3>1 DEF CheckEvent, Begin
      <3>2. CASE InsertReport(r)
        <4>1. PICK row, job : Begin(r, [at |-> "read", row |-> row, order |-> order, job |-> job])
          BY <3>2, Zenon DEF InsertReport
        <4>2. QED
          BY <4>1 DEF Begin
      <3>3. CASE LoadPurge(r)
        BY <3>3 DEF LoadPurge, Begin
      <3>4. CASE InsertLog(r) \/ SavePurgedOp(r) \/ LoadOrder(r)
        BY <3>4 DEF InsertLog, SavePurgedOp, LoadOrder, Refuse, Remember, Idle
      <3>5. CASE SaveOp(r) \/ SumOps(r)
        BY <3>5 DEF SaveOp, SumOps, Remember
      <3>6. CASE CommitEvent(r) \/ SaveOrder(r) \/ LoadEdit(r) \/ SaveEdit(r) \/ LoadDrop(r) \/ Fail(r)
        BY <3>6 DEF CommitEvent, SaveOrder, LoadEdit, SaveEdit, LoadDrop, Fail, Begin, Idle
      <3>7. QED
        BY <1>3, <3>1, <3>2, <3>3, <3>4, <3>5, <3>6
    <2>3. QED
      BY <2>1, <2>2, KeepStock
  <1>4. QED
    BY <1>1, <1>2, <1>3, CommitReportStock, DeleteReportStock, DropStock DEF Next

\* Whatever requests overlap or die, what a deleted report has put on hand is taken back,
\* unless its reversal was refused for want of stock.
THEOREM DeletionsReversed == Spec => []DeletionReversed
  <1>1. Init => IInv /\ StockIInv
    BY InitIInv, InitStock
  <1>2. IInv /\ StockIInv /\ [Next]_vars => IInv' /\ StockIInv'
    BY NextIInv, NextStock
  <1>3. StockIInv => DeletionReversed
    BY DEF StockIInv
  <1>4. QED
    BY <1>1, <1>2, <1>3, PTL DEF Spec

-----------------------------------------------------------------------------
(***************************************************************************)
(* One request at a time.  A deletion takes its report off the total       *)
(* before it deletes the row; meanwhile the report is pending.             *)
(***************************************************************************)
Pending == {req[r].id : r \in {s \in Requests : req[s].at \in {"unlink", "reverse"}}}

\* The work order has not been rolled up since a total was changed.
Unrolled == \E r \in Requests : req[r].at \in {"unlink", "reverse", "reload", "sum", "rollup"}

Row(row) == row = [status |-> row.status, total |-> row.total]

OpBooks == \A o \in Ops : /\ Row(op[o])
                          /\ op[o].status # "none"
                          /\ op[o].total = SumOver(Good, Reported(o) \ Pending)
OrderBooks == ~Unrolled => order.done = SumOver(Totals, Ops)
MoveBooks == \A p \in Reports :
    report[p].state = "deleted" /\ p \notin refused => moved[p].out = moved[p].into

\* Without a work order there is nothing left to work on.
Gone == /\ \A r \in Requests : At(r, "idle")
        /\ \A p \in Reports : report[p].state # "present"
        /\ \A o \in Ops : op[o].status = "none"

\* What the one request under way has read still holds.
ReadsHold ==
    \A r \in Requests :
      /\ Deleting(r) => report[req[r].id].state = "present"
      /\ At(r, "purge") => req[r].row = op[report[req[r].id].op]
      /\ At(r, "reverse") => req[r].found = moved[req[r].id].linked
      /\ At(r, "saved") => Row(req[r].row)
      /\ At(r, "saved") => req[r].sum = SumOver([Totals EXCEPT ![req[r].job.op] = req[r].row.total], Ops)
      /\ At(r, "rollup") => req[r].sum = SumOver(Totals, Ops)

SerialIInv ==
    ~disturbed => /\ order.status # "none" => OpBooks /\ OrderBooks /\ MoveBooks
                  /\ order.status = "none" => Gone
                  /\ ReadsHold

LEMMA InitBooks == Init => SerialIInv
  <1> SUFFICES ASSUME Init PROVE SerialIInv
    OBVIOUS
  <1>1. \A r \in Requests : req[r].at = "idle"
    BY DEF Init, Idle
  <1>2. \A o \in Ops : Reported(o) = {} /\ op[o].total = 0 /\ op[o].status = "pending"
    BY DEF Init, Reported
  <1>3. OpBooks
    <2>1. \A o \in Ops : Reported(o) \ Pending = {}
      BY <1>2
    <2>2. \A o \in Ops : Row(op[o])
      BY DEF Init, Row
    <2>3. QED
      BY <1>2, <2>1, <2>2, SumEmpty DEF OpBooks
  <1>4. OrderBooks
    <2>1. \A o \in Ops : Totals[o] = 0
      BY <1>2 DEF Totals
    <2>2. SumOver(Totals, Ops) = 0
      BY <2>1, SumZero, ShopFloorAssumption
    <2>3. QED
      BY <2>2 DEF Init, OrderBooks
  <1>5. MoveBooks /\ ReadsHold
    BY <1>1 DEF Init, MoveBooks, ReadsHold, Deleting, At
  <1>6. QED
    BY <1>3, <1>4, <1>5 DEF Init, SerialIInv

\* The others are idle.
Lone(r) == \A s \in Requests \ {r} : At(s, "idle")

\* What is pending and not rolled up is the business of the one request under way.
LEMMA LoneStep ==
    ASSUME IInv, NEW r \in Requests, NEW q, Lone(r), Goto(r, q)
    PROVE  /\ req'[r] = q /\ \A s \in Requests \ {r} : req'[s].at = "idle"
           /\ Pending = IF req[r].at \in {"unlink", "reverse"} THEN {req[r].id} ELSE {}
           /\ Pending' = IF q.at \in {"unlink", "reverse"} THEN {q.id} ELSE {}
           /\ Unrolled <=> req[r].at \in {"unlink", "reverse", "reload", "sum", "rollup"}
           /\ Unrolled' <=> q.at \in {"unlink", "reverse", "reload", "sum", "rollup"}
  <1>1. req'[r] = q /\ \A s \in Requests \ {r} : req'[s].at = "idle" /\ req[s].at = "idle"
    BY DEF IInv, Shapes, Goto, Lone, At
  <1>2. Pending = IF req[r].at \in {"unlink", "reverse"} THEN {req[r].id} ELSE {}
    BY <1>1 DEF Pending
  <1>3. Pending' = IF q.at \in {"unlink", "reverse"} THEN {q.id} ELSE {}
    BY <1>1 DEF Pending
  <1>4. Unrolled <=> req[r].at \in {"unlink", "reverse", "reload", "sum", "rollup"}
    BY <1>1 DEF Unrolled
  <1>5. Unrolled' <=> q.at \in {"unlink", "reverse", "reload", "sum", "rollup"}
    BY <1>1 DEF Unrolled
  <1>6. QED
    BY <1>1, <1>2, <1>3, <1>4, <1>5

\* What the request has to show for itself after a step that leaves the totals, the
\* reports and the movements alone.
LEMMA KeepBooks ==
    ASSUME IInv, SerialIInv, ~disturbed, order.status # "none",
           NEW r \in Requests, NEW q, Lone(r), Goto(r, q),
           UNCHANGED <<order, op, report, moved, refused>>,
           q.at \in {"unlink", "reverse"} <=> req[r].at \in {"unlink", "reverse"},
           q.at \in {"unlink", "reverse"} => q.id = req[r].id,
           q.at \in {"unlink", "reverse", "reload", "sum", "rollup"}
             <=> req[r].at \in {"unlink", "reverse", "reload", "sum", "rollup"},
           q.at \in {"purge", "unlink", "reverse"} => report[q.id].state = "present",
           q.at = "purge" => q.row = op[report[q.id].op],
           q.at = "reverse" => q.found = moved[q.id].linked,
           q.at = "saved" => Row(q.row),
           q.at = "saved" => q.sum = SumOver([Totals EXCEPT ![q.job.op] = q.row.total], Ops),
           q.at = "rollup" => q.sum = SumOver(Totals, Ops)
    PROVE  SerialIInv'
  <1>1. /\ req'[r] = q /\ \A s \in Requests \ {r} : req'[s].at = "idle"
        /\ Pending' = Pending /\ (Unrolled' <=> Unrolled)
    BY LoneStep
  <1>2. Totals' = Totals /\ Good' = Good /\ \A o : Reported(o)' = Reported(o)
    BY DEF Totals, Good, Reported
  <1>3. OpBooks /\ OrderBooks /\ MoveBooks
    BY DEF SerialIInv
  <1>4. OpBooks'
    BY <1>1, <1>2, <1>3 DEF OpBooks
  <1>5. OrderBooks'
    BY <1>1, <1>2, <1>3 DEF OrderBooks
  <1>6. MoveBooks'
    BY <1>3 DEF MoveBooks
  <1>7. ReadsHold'
    <2>1. /\ Deleting(r)' => report'[req'[r].id].state = "present"
          /\ At(r, "purge")' => req'[r].row = op'[report'[req'[r].id].op]
          /\ At(r, "reverse")' => req'[r].found = moved'[req'[r].id].linked
      BY <1>1 DEF Deleting, At
    <2>2. /\ At(r, "saved")' => Row(req'[r].row)
          /\ At(r, "saved")' =>
               req'[r].sum = SumOver([Totals' EXCEPT ![req'[r].job.op] = req'[r].row.total], Ops)
          /\ At(r, "rollup")' => req'[r].sum = SumOver(Totals', Ops)
      BY <1>1, <1>2 DEF At
    <2>3. QED
      BY <1>1, <2>1, <2>2 DEF ReadsHold, Deleting, At, Row
  <1>8. QED
    BY <1>4, <1>5, <1>6, <1>7 DEF SerialIInv

\* A step that only changes where the request is.
LEMMA ReadBooks ==
    ASSUME IInv, CountIInv, Serial, SerialIInv, ~disturbed, NEW r \in Requests, ~At(r, "idle"),
           InsertLog(r) \/ SaveOp(r) \/ FindMovement(r) \/ LoadOrder(r) \/ SumOps(r)
           \/ (SavePurgedOp(r) /\ Refuse(r))
    PROVE  SerialIInv'
  <1>1. Lone(r) /\ order.status # "none"
    BY DEF Lone, Serial, Alone, SerialIInv, Gone
  <1>2. UNCHANGED <<order, op, report, moved, refused>>
    BY DEF InsertLog, SaveOp, FindMovement, LoadOrder, SumOps, Refuse, Remember, tables, history
  <1>3. CASE InsertLog(r)
    <2>1. PICK q : Goto(r, q) /\ q.at \in {"read", "idle"}
      <3>1. CASE Refuse(r)
        BY <3>1 DEF Refuse, Idle
      <3>2. CASE ~Refuse(r)
        BY <1>3, <3>2 DEF InsertLog, Remember
      <3>3. QED
        BY <3>1, <3>2
    <2>2. req[r].at = "checked"
      BY <1>3 DEF InsertLog, At
    <2>3. QED
      BY <1>1, <1>2, <2>1, <2>2, KeepBooks
  <1>4. CASE SaveOp(r)
    <2> DEFINE job == req[r].job
               new == [status |-> StatusAfter(job.act, req[r].row.status),
                       total |-> req[r].row.total + GoodOf(job)]
               added == SumOver([Totals EXCEPT ![job.op] = new.total], Ops)
               shut == \A o \in Ops \ {job.op} : op[o].status = "completed"
               q == [at |-> "saved", job |-> job, row |-> new, order |-> req[r].order,
                     sum |-> added, closed |-> shut]
    <2>1. Goto(r, q)
      BY <1>4, Zenon DEF SaveOp, Remember, GoodOf
    <2>2. /\ q.at = "saved" /\ Row(q.row)
          /\ q.sum = SumOver([Totals EXCEPT ![q.job.op] = q.row.total], Ops)
      BY DEF Row
    <2>3. req[r].at = "read"
      BY <1>4 DEF SaveOp, At
    <2> HIDE DEF q
    <2>4. QED
      BY <1>1, <1>2, <2>1, <2>2, <2>3, KeepBooks
  <1>5. CASE FindMovement(r)
    <2> DEFINE q == [at |-> "reverse", id |-> req[r].id, found |-> moved[req[r].id].linked]
    <2>1. Goto(r, q) /\ req[r].at = "unlink"
      BY <1>5 DEF FindMovement, Remember, At
    <2>2. report[req[r].id].state = "present"
      BY <2>1 DEF SerialIInv, ReadsHold, Deleting
    <2>3. q.at = "reverse" /\ q.id = req[r].id /\ q.found = moved[q.id].linked
      OBVIOUS
    <2> HIDE DEF q
    <2>4. QED
      BY <1>1, <1>2, <2>1, <2>2, <2>3, KeepBooks
  <1>6. CASE LoadOrder(r)
    <2>1. Goto(r, [at |-> "sum", order |-> order]) /\ req[r].at = "reload"
      BY <1>1, <1>6 DEF LoadOrder, Remember, At
    <2>2. QED
      BY <1>1, <1>2, <2>1, KeepBooks
  <1>7. CASE SumOps(r)
    <2> DEFINE q == [at |-> "rollup", order |-> req[r].order, sum |-> SumOver(Totals, Ops)]
    <2>1. Goto(r, q) /\ req[r].at = "sum"
      BY <1>7 DEF SumOps, Remember, At
    <2>2. q.at = "rollup" /\ q.sum = SumOver(Totals, Ops)
      OBVIOUS
    <2> HIDE DEF q
    <2>3. QED
      BY <1>1, <1>2, <2>1, <2>2, KeepBooks
  <1>8. CASE SavePurgedOp(r) /\ Refuse(r)
    <2>1. Goto(r, Idle) /\ req[r].at = "purge"
      BY <1>8 DEF SavePurgedOp, Refuse, At
    <2>2. QED
      BY <1>1, <1>2, <2>1, KeepBooks DEF Idle
  <1>9. QED
    BY <1>3, <1>4, <1>5, <1>6, <1>7, <1>8

\* A request begins when none is under way, on a work order that is there.
LEMMA BeginBooks ==
    ASSUME IInv, SerialIInv, ~disturbed', NEW r \in Requests,
           CheckEvent(r) \/ InsertReport(r) \/ LoadPurge(r) \/ LoadEdit(r) \/ LoadDrop(r)
    PROVE  SerialIInv'
  <1>1. PICK q : /\ Begin(r, q)
                 /\ q.at \in {"checked", "read", "purge", "edit", "drop"}
                 /\ q.at = "purge" => /\ report[q.id].state = "present"
                                      /\ q.row = op[report[q.id].op]
    <2>1. CASE CheckEvent(r)
      BY <2>1 DEF CheckEvent
    <2>2. CASE InsertReport(r)
      <3>1. PICK row, job : Begin(r, [at |-> "read", row |-> row, order |-> order, job |-> job])
        BY <2>2, Zenon DEF InsertReport
      <3>2. QED
        BY <3>1
    <2>3. CASE LoadPurge(r)
      BY <2>3 DEF LoadPurge
    <2>4. CASE LoadEdit(r)
      BY <2>4 DEF LoadEdit
    <2>5. CASE LoadDrop(r)
      BY <2>5 DEF LoadDrop
    <2>6. QED
      BY <2>1, <2>2, <2>3, <2>4, <2>5
  <1>2. /\ Goto(r, q) /\ req[r].at = "idle" /\ Lone(r) /\ ~disturbed
        /\ UNCHANGED <<order, op, report, moved>>
    BY <1>1 DEF Begin, tables, Lone, At
  <1>3. refused' = refused
    BY DEF CheckEvent, InsertReport, LoadPurge, LoadEdit, LoadDrop
  <1>4. order.status # "none"
    <2> SUFFICES ASSUME order.status = "none" PROVE FALSE
      OBVIOUS
    <2>1. Gone
      BY <1>2 DEF SerialIInv
    <2>2. QED
      BY <2>1 DEF Gone, CheckEvent, InsertReport, LoadPurge, LoadEdit, LoadDrop, MayDo
  <1>5. QED
    BY <1>1, <1>2, <1>3, <1>4, KeepBooks

-----------------------------------------------------------------------------
LEMMA CommitEventBooks ==
    ASSUME IInv, CountIInv, Serial, SerialIInv, ~disturbed, NEW r \in Requests, CommitEvent(r)
    PROVE  SerialIInv'
  <1>1. PICK o, act :
          /\ o = req[r].job.op /\ act = req[r].job.act
          /\ At(r, "saved") /\ act \in EventActions /\ Goto(r, Idle)
          /\ op' = [op EXCEPT ![o] = req[r].row]
          /\ UNCHANGED <<report, moved, refused>>
    BY DEF CommitEvent, history
  <1>2. o \in Ops
    BY <1>1 DEF IInv, Shapes, InJob, At, Job
  <1>3. Lone(r) /\ order.status # "none" /\ OpBooks /\ OrderBooks /\ MoveBooks
    BY <1>1 DEF Lone, Serial, Alone, SerialIInv, Gone, At
  <1>4. /\ req'[r] = Idle /\ \A s \in Requests \ {r} : req'[s].at = "idle"
        /\ Pending = {} /\ Pending' = {} /\ ~Unrolled
    <2>1. req[r].at = "saved" /\ Idle.at = "idle"
      BY <1>1 DEF At, Idle
    <2>2. QED
      BY <1>1, <1>3, <2>1, LoneStep
  <1>5. /\ Row(op'[o]) /\ op'[o].status # "none" /\ op'[o].total = op[o].total + 0
        /\ \A x \in Ops \ {o} : op'[x] = op[x]
    <2>1. req[r].row.total = op[o].total + 0
      BY <1>1 DEF CountIInv, SavesAddUp, InTransaction, At, GoodOf, EventActions
    <2>2. req[r].row.status = StatusAfter(act, op[o].status)
      BY <1>1 DEF IInv, RowsLocked
    <2>3. req[r].row.status # "none"
      BY <1>1, <2>2 DEF StatusAfter, EventActions
    <2>4. Row(req[r].row)
      BY <1>1 DEF SerialIInv, ReadsHold
    <2>5. QED
      BY <1>1, <1>2, <2>1, <2>3, <2>4 DEF IInv, Shapes
  <1>6. Good' = Good /\ \A x : Reported(x)' = Reported(x)
    BY <1>1 DEF Good, Reported
  <1>7. \A x \in Ops : op[x].total \in Nat
    <2>1. \A x \in Ops : Reported(x) \ Pending \in SUBSET Reports
      BY DEF Reported
    <2>2. QED
      BY <1>3, <2>1, GoodIsNat DEF OpBooks
  <1>8. \A x \in Ops : op'[x].total = op[x].total
    BY <1>5, <1>7
  <1>9. Totals' = Totals
    BY <1>8 DEF Totals
  <1>10. OpBooks'
    BY <1>3, <1>4, <1>5, <1>6, <1>8 DEF OpBooks
  <1>11. order'.done = order.done
    <2>1. req[r].order = order /\ OrderShape
      BY <1>1 DEF Serial, Current, At
    <2>2. \/ order' = [order EXCEPT !.status = "in_progress"]
          \/ order' = [order EXCEPT !.status = "completed"]
          \/ order' = order
      BY <2>1 DEF CommitEvent
    <2>3. QED
      BY <2>1, <2>2 DEF OrderShape
  <1>12. OrderBooks'
    BY <1>3, <1>4, <1>9, <1>11 DEF OrderBooks
  <1>13. MoveBooks'
    BY <1>1, <1>3 DEF MoveBooks
  <1>14. order'.status # "none"
    <2>1. req[r].order = order /\ OrderShape
      BY <1>1 DEF Serial, Current, At
    <2>2. \/ order' = [order EXCEPT !.status = "in_progress"]
          \/ order' = [order EXCEPT !.status = "completed"]
          \/ order' = order
      BY <2>1 DEF CommitEvent
    <2>3. QED
      BY <1>3, <2>1, <2>2 DEF OrderShape
  <1>15. ReadsHold'
    BY <1>4 DEF ReadsHold, Deleting, At, Idle
  <1>16. QED
    BY <1>10, <1>12, <1>13, <1>14, <1>15 DEF SerialIInv

\* A report is filed: its operation and the work order go up by its quantity.
LEMMA CommitReportBooks ==
    ASSUME IInv, IInv', CountIInv, StockIInv, Serial, SerialIInv, ~disturbed,
           NEW r \in Requests, CommitReport(r)
    PROVE  SerialIInv'
  <1>1. /\ At(r, "saved") /\ req[r].job.act = "report" /\ Goto(r, Idle)
        /\ order' = [req[r].order EXCEPT !.done = req[r].sum]
        /\ UNCHANGED refused
    BY DEF CommitReport, history
  <1>2. req[r].job \in Job
    BY <1>1 DEF IInv, Shapes, InJob, At
  <1>3. PICK o \in Ops, p \in Reports, g \in Nat :
          o = req[r].job.op /\ p = req[r].job.id /\ g = req[r].job.good
    BY <1>1, <1>2, ShopFloorAssumption DEF Job, EventActions
  <1>4. /\ op' = [op EXCEPT ![o] = req[r].row]
        /\ report' = [report EXCEPT ![p] = [state |-> "present", op |-> o, good |-> g]]
        /\ \A q \in Reports \ {p} : moved'[q] = moved[q]
    BY <1>3 DEF CommitReport, StockIInv, MoveRow
  <1>5. Lone(r) /\ order.status # "none" /\ OpBooks /\ MoveBooks
    BY <1>1 DEF Lone, Serial, Alone, SerialIInv, Gone, At
  <1>6. /\ req'[r] = Idle /\ \A s \in Requests \ {r} : req'[s].at = "idle"
        /\ Pending = {} /\ Pending' = {}
    <2>1. req[r].at = "saved" /\ Idle.at = "idle"
      BY <1>1 DEF At, Idle
    <2>2. QED
      BY <1>1, <1>5, <2>1, LoneStep
  <1>7. /\ op'[o] = req[r].row /\ Row(op'[o]) /\ op'[o].total = op[o].total + g
        /\ op'[o].status = op[o].status
        /\ \A x \in Ops \ {o} : op'[x] = op[x]
    <2>1. req[r].row.total = op[o].total + g
      BY <1>1, <1>3 DEF CountIInv, SavesAddUp, InTransaction, At, GoodOf
    <2>2. req[r].row.status = op[o].status
      BY <1>1, <1>3 DEF IInv, RowsLocked, StatusAfter
    <2>3. Row(req[r].row)
      BY <1>1 DEF SerialIInv, ReadsHold
    <2>4. QED
      BY <1>3, <1>4, <2>1, <2>2, <2>3 DEF IInv, Shapes
  <1>8. /\ SumOver(Good, Reported(o))' = SumOver(Good, Reported(o)) + g
        /\ \A x \in Ops \ {o} : SumOver(Good, Reported(x))' = SumOver(Good, Reported(x))
    <2>1. report[p].state = "unused"
      BY <1>1, <1>3 DEF IInv, IdsReserved, InTransaction, At
    <2>2. QED
      BY <1>4, <2>1, FiledReports
  <1>9. OpBooks'
    <2>1. ASSUME NEW x \in Ops
          PROVE  /\ Row(op'[x]) /\ op'[x].status # "none"
                 /\ op'[x].total = SumOver(Good, Reported(x) \ Pending)'
      <3>1. Row(op[x]) /\ op[x].status # "none" /\ op[x].total = SumOver(Good, Reported(x))
        BY <1>5, <1>6 DEF OpBooks
      <3>2. (Reported(x) \ Pending)' = Reported(x)'
        BY <1>6
      <3>3. SumOver(Good, Reported(x) \ Pending)' = SumOver(Good, Reported(x))'
        BY <3>2
      <3>4. QED
        BY <1>7, <1>8, <3>1, <3>3
    <2>2. QED
      BY <2>1 DEF OpBooks
  <1>10. OrderBooks' /\ order'.status # "none"
    <2>1. req[r].order = order /\ OrderShape
      BY <1>1 DEF Serial, Current, At
    <2>2. order'.done = req[r].sum /\ order'.status = order.status
      BY <1>1, <2>1 DEF OrderShape
    <2>3. req[r].sum = SumOver([Totals EXCEPT ![o] = req[r].row.total], Ops)
      BY <1>1, <1>3 DEF SerialIInv, ReadsHold, At
    <2>4. [Totals EXCEPT ![o] = req[r].row.total] = Totals'
      BY <1>7 DEF Totals
    <2>5. QED
      BY <1>5, <2>2, <2>3, <2>4 DEF OrderBooks
  <1>11. MoveBooks'
    <2>1. report'[p].state = "present" /\ \A q \in Reports \ {p} : report'[q] = report[q]
      BY <1>4 DEF IInv, Shapes
    <2>2. QED
      BY <1>1, <1>4, <1>5, <2>1 DEF MoveBooks
  <1>12. ReadsHold'
    BY <1>6 DEF ReadsHold, Deleting, At, Idle
  <1>13. QED
    BY <1>9, <1>10, <1>11, <1>12 DEF SerialIInv

LEMMA SubtractedRow ==
    ASSUME NEW row, NEW good, Row(row)
    PROVE  /\ Row(Subtracted(row, good))
           /\ Subtracted(row, good).status = row.status
           /\ Subtracted(row, good).total = IF row.total > good THEN row.total - good ELSE 0
  <1>1. PICK status, total : row = [status |-> status, total |-> total]
    BY DEF Row
  <1> DEFINE left == IF row.total > good THEN row.total - good ELSE 0
  <1>2. Subtracted(row, good) = [row EXCEPT !.total = left]
    BY DEF Subtracted
  <1> HIDE DEF left
  <1>3. Subtracted(row, good) = [status |-> status, total |-> left]
    BY <1>1, <1>2
  <1>4. /\ Row(Subtracted(row, good))
        /\ Subtracted(row, good).status = row.status
        /\ Subtracted(row, good).total = left
    BY <1>1, <1>3 DEF Row
  <1>5. QED
    BY <1>4 DEF left

\* A deletion takes its report off the total, which is at least as high.
LEMMA SavePurgedOpBooks ==
    ASSUME IInv, Serial, SerialIInv, ~disturbed,
           NEW r \in Requests, SavePurgedOp(r), ~Refuse(r)
    PROVE  SerialIInv'
  <1>1. PICK p, o :
          /\ p = req[r].id /\ o = report[p].op /\ At(r, "purge")
          /\ op' = [op EXCEPT ![o] = Subtracted(req[r].row, Good[p])]
          /\ Goto(r, [at |-> "unlink", id |-> p])
          /\ UNCHANGED <<order, report, moved, refused>>
    BY DEF SavePurgedOp, history
  <1>2. /\ p \in Reports /\ o \in Ops /\ report[p].state = "present" /\ req[r].row = op[o]
    BY <1>1 DEF IInv, PurgesMarked, Deleting, At, SerialIInv, ReadsHold
  <1>3. Lone(r) /\ order.status # "none" /\ OpBooks /\ MoveBooks
    BY <1>1 DEF Lone, Serial, Alone, SerialIInv, Gone, At
  <1>4. /\ req'[r] = [at |-> "unlink", id |-> p]
        /\ \A s \in Requests \ {r} : req'[s].at = "idle"
        /\ Pending = {} /\ Pending' = {p} /\ Unrolled'
    <2>1. req[r].at = "purge"
      BY <1>1 DEF At
    <2>2. QED
      BY <1>1, <1>3, <2>1, LoneStep
  <1>5. Good' = Good /\ \A x : Reported(x)' = Reported(x)
    BY <1>1 DEF Good, Reported
  <1>6. \A x \in Ops : /\ Row(op[x]) /\ op[x].status # "none"
                       /\ op[x].total = SumOver(Good, Reported(x))
    BY <1>3, <1>4 DEF OpBooks
  <1>7. /\ Row(op'[o]) /\ op'[o].status = op[o].status
        /\ op'[o].total = SumOver(Good, Reported(o) \ {p})
    <2>1. p \in Reported(o)
      BY <1>1, <1>2 DEF Reported
    <2>2. Reported(o) \in SUBSET Reports /\ Reported(o) \ {p} \in SUBSET Reports
      BY DEF Reported
    <2>3. SumOver(Good, Reported(o)) = Good[p] + SumOver(Good, Reported(o) \ {p})
      BY <2>1, <2>2, GoodIsNat, SumRemove
    <2>4. Good[p] \in Nat /\ SumOver(Good, Reported(o) \ {p}) \in Nat
      BY <1>2, <2>2, GoodIsNat
    <2>5. /\ Row(Subtracted(op[o], Good[p]))
          /\ Subtracted(op[o], Good[p]).status = op[o].status
          /\ Subtracted(op[o], Good[p]).total =
               IF op[o].total > Good[p] THEN op[o].total - Good[p] ELSE 0
      BY <1>2, <1>6, SubtractedRow
    <2>6. op'[o] = Subtracted(op[o], Good[p])
      BY <1>1, <1>2 DEF IInv, Shapes
    <2>7. QED
      BY <1>2, <1>6, <2>3, <2>4, <2>5, <2>6
  <1>8. OpBooks'
    <2>1. ASSUME NEW x \in Ops
          PROVE  /\ Row(op'[x]) /\ op'[x].status # "none"
                 /\ op'[x].total = SumOver(Good, Reported(x) \ Pending)'
      <3>1. SumOver(Good, Reported(x) \ Pending)' = SumOver(Good, Reported(x) \ {p})
        BY <1>4, <1>5
      <3>2. CASE x = o
        BY <1>6, <1>7, <3>1, <3>2
      <3>3. CASE x # o
        <4>1. Reported(x) \ {p} = Reported(x) /\ op'[x] = op[x]
          BY <1>1, <3>3 DEF Reported, IInv, Shapes
        <4>2. QED
          BY <1>6, <3>1, <4>1
      <3>4. QED
        BY <3>2, <3>3
    <2>2. QED
      BY <2>1 DEF OpBooks
  <1>9. OrderBooks' /\ MoveBooks'
    BY <1>1, <1>3, <1>4 DEF OrderBooks, MoveBooks
  <1>10. ReadsHold'
    BY <1>1, <1>2, <1>4 DEF ReadsHold, Deleting, At
  <1>11. QED
    BY <1>1, <1>3, <1>8, <1>9, <1>10 DEF SerialIInv

\* The report goes with its movement, or its reversal is refused.
LEMMA DeleteReportBooks ==
    ASSUME IInv, StockIInv, Serial, SerialIInv, ~disturbed,
           NEW r \in Requests, DeleteReport(r)
    PROVE  SerialIInv'
  <1>1. PICK p, gone, back :
          /\ p = req[r].id /\ gone = {p}
          /\ back = {q \in {p} : req[r].found /\ stock >= Good[q]}
          /\ At(r, "reverse") /\ Deleted(gone, back)
          /\ refused' = IF req[r].found /\ back = {} THEN refused \cup {p} ELSE refused
          /\ Goto(r, [at |-> "reload"])
          /\ UNCHANGED <<order, op>>
    BY DEF DeleteReport
  <1>2. /\ p \in Reports /\ report[p].state = "present"
        /\ req[r].found = moved[p].linked
    BY <1>1 DEF IInv, PurgesMarked, Deleting, At, SerialIInv, ReadsHold
  <1>3. Lone(r) /\ order.status # "none" /\ OpBooks /\ MoveBooks
    BY <1>1 DEF Lone, Serial, Alone, SerialIInv, Gone, At
  <1>4. /\ req'[r] = [at |-> "reload"]
        /\ \A s \in Requests \ {r} : req'[s].at = "idle"
        /\ Pending = {p} /\ Pending' = {} /\ Unrolled'
    <2>1. req[r].at = "reverse"
      BY <1>1 DEF At
    <2>2. QED
      BY <1>1, <1>3, <2>1, LoneStep
  <1>5. gone \in SUBSET Reports /\ back \in SUBSET gone
    BY <1>1, <1>2
  <1>6. Good' = Good /\ \A x : Reported(x)' = Reported(x) \ {p}
    BY <1>1, <1>5, DeletedElsewhere
  <1>7. OpBooks'
    <2>1. \A x : (Reported(x) \ Pending)' = Reported(x) \ Pending
      BY <1>4, <1>6
    <2>2. QED
      BY <1>1, <1>3, <1>6, <2>1 DEF OpBooks
  <1>8. MoveBooks'
    <2>1. /\ report'[p].state = "deleted" /\ moved'[p].into = moved[p].into
          /\ moved'[p].out = IF p \in back THEN moved[p].out + 1 ELSE moved[p].out
          /\ \A x \in Reports \ {p} : moved'[x] = moved[x] /\ report'[x] = report[x]
      <3>1. Deleted(gone, back)
        BY <1>1
      <3>2. /\ \A x \in Reports :
                 /\ report'[x].state = IF x \in gone THEN "deleted" ELSE report[x].state
                 /\ moved'[x].into = moved[x].into
                 /\ moved'[x].out = IF x \in back THEN moved[x].out + 1 ELSE moved[x].out
            /\ \A x \in Reports \ gone : moved'[x] = moved[x] /\ report'[x] = report[x]
        BY <1>5, <3>1, DeletedMovements
      <3>3. QED
        BY <1>1, <1>2, <3>2
    <2>2. /\ moved[p].into \in {0, 1} /\ moved[p].linked \in BOOLEAN
          /\ moved[p].out = 0 /\ (moved[p].linked <=> moved[p].into = 1)
      BY <1>2 DEF StockIInv, MoveRow
    <2>3. p \notin refused' => moved'[p].out = moved'[p].into
      BY <1>1, <1>2, <2>1, <2>2
    <2>4. \A x \in Reports \ {p} : report'[x].state = "deleted" /\ x \notin refused'
                                      => moved'[x].out = moved'[x].into
      BY <1>1, <1>3, <2>1 DEF MoveBooks
    <2>5. QED
      BY <2>3, <2>4 DEF MoveBooks
  <1>9. OrderBooks' /\ ReadsHold'
    BY <1>4 DEF OrderBooks, ReadsHold, Deleting, At
  <1>10. QED
    BY <1>1, <1>3, <1>7, <1>8, <1>9 DEF SerialIInv

\* The work order is written back with what was read, and with the sum of the totals.
LEMMA SaveBooks ==
    ASSUME IInv, Serial, SerialIInv, ~disturbed, NEW r \in Requests, SaveOrder(r) \/ SaveEdit(r)
    PROVE  SerialIInv'
  <1>1. /\ req[r].at \in {"rollup", "edit"} /\ Goto(r, Idle)
        /\ UNCHANGED <<op, report, moved, refused>>
    BY DEF SaveOrder, SaveEdit, history, At
  <1>2. Lone(r) /\ order.status # "none" /\ OpBooks /\ OrderBooks /\ MoveBooks
    BY <1>1 DEF Lone, Serial, Alone, SerialIInv, Gone, At
  <1>3. /\ req'[r] = Idle /\ \A s \in Requests \ {r} : req'[s].at = "idle"
        /\ Pending = {} /\ Pending' = {} /\ (Unrolled => req[r].at = "rollup")
    <2>1. Idle.at = "idle"
      BY DEF Idle
    <2>2. QED
      BY <1>1, <1>2, <2>1, LoneStep
  <1>4. Totals' = Totals /\ Good' = Good /\ \A x : Reported(x)' = Reported(x)
    BY <1>1 DEF Totals, Good, Reported
  <1>5. req[r].order = order /\ OrderShape
    BY <1>1 DEF Serial, Current, At
  <1>6. order'.status = order.status /\ order'.done = SumOver(Totals, Ops)
    <2>1. CASE SaveOrder(r)
      BY <1>5, <2>1 DEF SaveOrder, OrderShape, SerialIInv, ReadsHold, At
    <2>2. CASE SaveEdit(r)
      BY <1>2, <1>3, <1>5, <2>2 DEF SaveEdit, OrderBooks, At
    <2>3. QED
      BY <2>1, <2>2
  <1>7. OpBooks'
    BY <1>1, <1>2, <1>3, <1>4 DEF OpBooks
  <1>8. OrderBooks' /\ MoveBooks'
    BY <1>1, <1>2, <1>4, <1>6 DEF OrderBooks, MoveBooks
  <1>9. ReadsHold'
    BY <1>3 DEF ReadsHold, Deleting, At, Idle
  <1>10. QED
    BY <1>2, <1>6, <1>7, <1>8, <1>9 DEF SerialIInv

\* The cascade takes all reports with it, for every operation is still there.
LEMMA DropBooks ==
    ASSUME IInv, Serial, SerialIInv, ~disturbed, NEW r \in Requests, Drop(r)
    PROVE  SerialIInv'
  <1>1. PICK gone, back :
          /\ gone = {p \in Reports : report[p].state = "present"
                                      /\ op[report[p].op].status # "none"}
          /\ At(r, "drop") /\ Deleted(gone, back) /\ Goto(r, Idle)
          /\ order' = [status |-> "none", done |-> 0]
          /\ op' = [o \in Ops |-> NoOp]
    BY DEF Drop
  <1>2. Lone(r) /\ OpBooks
    BY <1>1 DEF Lone, Serial, Alone, SerialIInv, Gone, At
  <1>3. req'[r] = Idle /\ \A s \in Requests \ {r} : req'[s].at = "idle"
    BY <1>1, <1>2, LoneStep
  <1>4. \A p \in Reports : report'[p].state # "present"
    <2>1. \A p \in Reports : report[p].state = "present" => p \in gone
      BY <1>1, <1>2 DEF OpBooks, IInv, PurgesMarked
    <2>2. \A p \in Reports :
            report'[p] = IF p \in gone THEN [report[p] EXCEPT !.state = "deleted"] ELSE report[p]
      BY <1>1 DEF Deleted
    <2>3. QED
      BY <2>1, <2>2 DEF IInv, Shapes, ReportRow
  <1>5. Gone'
    BY <1>1, <1>3, <1>4 DEF Gone, At, Idle, NoOp
  <1>6. ReadsHold'
    BY <1>3 DEF ReadsHold, Deleting, At, Idle
  <1>7. QED
    BY <1>1, <1>5, <1>6 DEF SerialIInv

\* A transition of the work order comes between requests, and leaves the quantity alone.
LEMMA TransitionBooks ==
    ASSUME IInv, Serial, SerialIInv, ~disturbed', NEW from, NEW to, Transition(from, to),
           "none" \notin from, to # "none"
    PROVE  SerialIInv'
  <1>1. ~disturbed /\ UNCHANGED <<op, report, moved, refused, req>> /\ order.status # "none"
    BY DEF Transition, history
  <1>2. order'.done = order.done /\ order'.status = to
    BY <1>1 DEF Transition, Serial, OrderShape
  <1>3. Totals' = Totals /\ Good' = Good /\ Pending' = Pending /\ (Unrolled' <=> Unrolled)
        /\ \A x : Reported(x)' = Reported(x)
    BY <1>1 DEF Totals, Good, Reported, Pending, Unrolled
  <1>4. OpBooks' /\ OrderBooks' /\ MoveBooks'
    BY <1>1, <1>2, <1>3 DEF SerialIInv, OpBooks, OrderBooks, MoveBooks
  <1>5. ReadsHold'
    BY <1>1, <1>3 DEF SerialIInv, ReadsHold, Deleting, At
  <1>6. QED
    BY <1>2, <1>4, <1>5 DEF SerialIInv

-----------------------------------------------------------------------------
LEMMA NextBooks ==
    ASSUME IInv, IInv', CountIInv, StockIInv, Serial, SerialIInv, [Next]_vars
    PROVE  SerialIInv'
  <1> SUFFICES ASSUME ~disturbed' PROVE SerialIInv'
    BY DEF SerialIInv
  <1>1. ASSUME UNCHANGED vars \/ Consume PROVE SerialIInv'
    <2>1. UNCHANGED <<order, op, report, moved, req, refused, disturbed>>
      BY <1>1 DEF vars, Consume, history
    <2>2. Totals' = Totals /\ Good' = Good /\ Pending' = Pending /\ (Unrolled' <=> Unrolled)
          /\ \A x : Reported(x)' = Reported(x)
      BY <2>1 DEF Totals, Good, Reported, Pending, Unrolled
    <2>3. QED
      BY <2>1, <2>2
      DEF SerialIInv, OpBooks, OrderBooks, MoveBooks, Gone, ReadsHold, Deleting, At
  <1>2. ASSUME Start \/ Hold \/ Complete \/ Cancel PROVE SerialIInv'
    BY <1>2, TransitionBooks DEF Start, Hold, Complete, Cancel
  <1>3. ASSUME NEW r \in Requests,
               CheckEvent(r) \/ InsertReport(r) \/ LoadPurge(r) \/ LoadEdit(r) \/ LoadDrop(r)
        PROVE  SerialIInv'
    BY <1>3, BeginBooks
  <1>4. ASSUME NEW r \in Requests,
               \/ InsertLog(r) \/ SaveOp(r) \/ FindMovement(r) \/ LoadOrder(r) \/ SumOps(r)
               \/ CommitEvent(r) \/ CommitReport(r) \/ SavePurgedOp(r) \/ DeleteReport(r)
               \/ SaveOrder(r) \/ SaveEdit(r) \/ Drop(r)
        PROVE  SerialIInv'
    <2>1. ~disturbed
      BY <1>4 DEF InsertLog, SaveOp, FindMovement, LoadOrder, SumOps, CommitEvent, CommitReport,
           SavePurgedOp, DeleteReport, SaveOrder, SaveEdit, Drop, Refuse, Remember, tables
    <2>2. ~At(r, "idle")
      BY <1>4 DEF InsertLog, SaveOp, FindMovement, LoadOrder, SumOps, CommitEvent, CommitReport,
           SavePurgedOp, DeleteReport, SaveOrder, SaveEdit, Drop, At
    <2>3. CASE SavePurgedOp(r) /\ ~Refuse(r)
      BY <2>1, <2>3, SavePurgedOpBooks
    <2>4. CASE \/ InsertLog(r) \/ SaveOp(r) \/ FindMovement(r) \/ LoadOrder(r) \/ SumOps(r)
               \/ (SavePurgedOp(r) /\ Refuse(r))
      BY <2>1, <2>2, <2>4, ReadBooks
    <2>5. CASE CommitEvent(r) \/ CommitReport(r) \/ DeleteReport(r) \/ SaveOrder(r) \/ SaveEdit(r)
               \/ Drop(r)
      BY <2>1, <2>5, CommitEventBooks, CommitReportBooks, DeleteReportBooks, SaveBooks, DropBooks
    <2>6. QED
      BY <1>4, <2>3, <2>4, <2>5
  <1>5. ASSUME NEW r \in Requests, Fail(r) PROVE SerialIInv'
    BY <1>5 DEF Fail
  <1>6. QED
    BY <1>1, <1>2, <1>3, <1>4, <1>5 DEF Next

\* As long as requests come one at a time and none dies half-way, whatever is started,
\* stopped, reported, edited and deleted: the totals of the operations, the roll-up of the
\* work order and the movements agree with the reports.
THEOREM SerialAgrees == Spec => []SerialBooks
  <1> DEFINE Whole == IInv /\ CountIInv /\ StockIInv /\ Serial /\ SerialIInv
  <1>1. Init => Whole
    BY InitIInv, InitCounts, InitStock, InitSerial, InitBooks
  <1>2. Whole /\ [Next]_vars => Whole'
    <2> SUFFICES ASSUME Whole, [Next]_vars PROVE Whole'
      OBVIOUS
    <2>1. IInv' /\ CountIInv' /\ StockIInv' /\ Serial'
      BY NextIInv, NextCounts, NextStock, NextSerial DEF IInv
    <2>2. SerialIInv'
      BY <2>1, NextBooks
    <2>3. QED
      BY <2>1, <2>2
  <1>3. Whole => SerialBooks
    <2> SUFFICES ASSUME Whole, ~disturbed, \A r \in Requests : At(r, "idle"),
                        order.status # "none"
                 PROVE  SerialBooks
      BY DEF SerialBooks
    <2>1. OpBooks /\ OrderBooks /\ MoveBooks
      BY DEF SerialIInv
    <2>2. Pending = {} /\ ~Unrolled
      BY DEF Pending, Unrolled, At
    <2>3. \A o \in Ops : op[o].total = SumOver(Good, Reported(o))
      BY <2>1, <2>2 DEF OpBooks
    <2>4. order.done = SumOver(Totals, Ops)
      BY <2>1, <2>2 DEF OrderBooks
    <2>5. QED
      BY <2>1, <2>3, <2>4 DEF SerialBooks, MoveBooks
  <1> HIDE DEF Whole
  <1>4. QED
    BY <1>1, <1>2, <1>3, PTL DEF Spec
=============================================================================
