------------------------------ MODULE ShopFloor ------------------------------
(***************************************************************************)
(* One dispatched work order on the shop floor: the work order, operation  *)
(* and report views of src/apps/mes/views.py, the services behind them     *)
(* (services/time_logging.py, services/reporting.py), and the stock        *)
(* movements that src/apps/inventory/signals.py posts for a report.        *)
(*                                                                         *)
(* Model.save() writes every column back, so each request carries the rows *)
(* it has read until it writes them.  What keeps two transactions on one   *)
(* operation apart is not in the code: the INSERT of a time log or report  *)
(* takes a shared lock on the operation row its foreign key names, and the *)
(* UPDATE that follows needs an exclusive one.  The work order row has no  *)
(* such protection, and deleting a report has no transaction at all.       *)
(***************************************************************************)
EXTENDS Integers, FiniteSets, Sums

CONSTANTS
    Ops,         \* the MESWorkOrderOperation rows of the work order
    Reports,     \* ProductionReport primary keys
    Goods,       \* the good quantities a report may have
    Emits,       \* whether the tenant has a default bin, so that stock is posted
    Requests,    \* the requests in flight at a time
    MaxBegun     \* bound on the requests made in all

ASSUME ShopFloorAssumption ==
    /\ IsFiniteSet(Ops) /\ IsFiniteSet(Reports)
    /\ Goods \subseteq Nat
    /\ Emits \subseteq BOOLEAN
    /\ MaxBegun \in Nat

VARIABLES
    order,       \* the work order row: status (dispatched, in_progress, on_hold, completed,
                 \* cancelled; "none" without a row) and quantity_completed
    op,          \* the operation rows: status (pending, running, paused, completed) and total_good_qty
    due,         \* the status that the last committed time log of each operation calls for
    report,      \* the report rows: state, operation, good quantity
    moved,       \* per report, the movements posted in and out, and its foreign key
    stock,       \* what the default bin holds of the product
    req,         \* where each request is and what it has read
    purged,      \* history: the operations a deletion of a report has loaded
    refused,     \* history: the reports whose reversal was short of stock
    begun,       \* history: how many requests have been made
    disturbed    \* history: two requests have overlapped, or one has died

vars == <<order, op, due, report, moved, stock, req, purged, refused, begun, disturbed>>
tables == <<order, op, due, report, moved, stock>>
history == <<purged, refused, begun>>

EventActions == {"start", "pause", "resume", "stop"}

NoOne == "none"
NoOp == [status |-> "none", total |-> 0]

Job == [act : EventActions, op : Ops]
       \cup [act : {"report"}, op : Ops, id : Reports, good : Goods, emit : Emits]
Idle == [at |-> "idle"]

-----------------------------------------------------------------------------
At(r, at) == req[r].at = at
Goto(r, q) == req' = [req EXCEPT ![r] = q]
Refuse(r) == Goto(r, Idle) /\ UNCHANGED <<tables, history, disturbed>>

\* The request goes on without having written anything.
Remember(r, q) == Goto(r, q) /\ UNCHANGED <<tables, history, disturbed>>

\* The request starts; from now on it may get into the way of the others.
Begin(r, q) ==
    /\ At(r, "idle") /\ begun < MaxBegun
    /\ begun' = begun + 1
    /\ Goto(r, q)
    /\ disturbed' = (disturbed \/ \E s \in Requests : ~At(s, "idle"))
    /\ UNCHANGED tables

Reported(o) == {p \in Reports : report[p].state = "present" /\ report[p].op = o}
Good == [p \in Reports |-> report[p].good]
Totals == [o \in Ops |-> op[o].total]

\* Mutant of Shared: the foreign key is not a database constraint.
SharedNever(r, o) == FALSE

\* Another transaction has read operation o after inserting a row that refers to it.
Shared(r, o) == \E s \in Requests \ {r} : At(s, "read") /\ req[s].job.op = o

\* Another transaction has written operation o.
Exclusive(r, o) == \E s \in Requests \ {r} : At(s, "saved") /\ req[s].job.op = o

-----------------------------------------------------------------------------
\* dispatch_production_order has made the work order and its operations.
Init ==
    /\ order = [status |-> "dispatched", done |-> 0]
    /\ op = [o \in Ops |-> [status |-> "pending", total |-> 0]]
    /\ due = [o \in Ops |-> "pending"]
    /\ report \in [Reports -> [state : {"unused"}, op : {NoOne}, good : {0}]]
    /\ moved = [p \in Reports |-> [into |-> 0, out |-> 0, linked |-> FALSE]]
    /\ stock = 0
    /\ req = [r \in Requests |-> Idle]
    /\ purged = {} /\ refused = {}
    /\ begun = 0 /\ disturbed = FALSE

\* can_start, can_pause, can_resume and can_stop.
MayDo(act, status) ==
    \/ act = "start" /\ status \in {"pending", "paused"}
    \/ act = "pause" /\ status = "running"
    \/ act = "resume" /\ status = "paused"
    \/ act = "stop" /\ status \in {"running", "paused"}

\* The check at the head of the four operation views.
CheckEvent(r) ==
    \E o \in Ops, act \in EventActions :
      /\ MayDo(act, op[o].status)
      /\ Begin(r, [at |-> "checked", job |-> [act |-> act, op |-> o]])
      /\ UNCHANGED <<purged, refused>>

\* The INSERT of the time log, and the SELECT of the operation with its work order.  The
\* INSERT fails if the operation is gone.
InsertLog(r) ==
    LET o == req[r].job.op IN
    /\ At(r, "checked")
    /\ ~Exclusive(r, o)
    /\ \/ /\ op[o].status # "none"
          /\ Remember(r, [at |-> "read", job |-> req[r].job, row |-> op[o], order |-> order])
       \/ op[o].status = "none" /\ Refuse(r)

\* ReportCreateView asks nothing of the operation but that it exists; the INSERT of the
\* report, and the same SELECT.
InsertReport(r) ==
    \E o \in Ops, p \in Reports, good \in Goods, emit \in Emits :
      /\ op[o].status # "none" /\ ~Exclusive(r, o)
      /\ report[p].state = "unused"
      /\ \A s \in Requests : req[s].at \in {"read", "saved"} /\ req[s].job.act = "report"
                               => req[s].job.id # p
      /\ Begin(r, [at |-> "read", row |-> op[o], order |-> order,
                   job |-> [act |-> "report", op |-> o, id |-> p, good |-> good, emit |-> emit]])
      /\ UNCHANGED <<purged, refused>>

\* The status record_event gives the operation.
StatusAfter(act, status) ==
    CASE act \in {"start", "resume"} -> "running"
      [] act = "pause" -> "paused"
      [] act = "stop" -> "completed"
      [] OTHER -> status

\* op.save(), with every column, and the query on all operations that follows it: the
\* sum of record_production, or whether record_event sees another one still open.
SaveOp(r) ==
    LET job == req[r].job
        good == IF job.act = "report" THEN job.good ELSE 0
        row == [status |-> StatusAfter(job.act, req[r].row.status),
                total |-> req[r].row.total + good]
    IN
    /\ At(r, "read")
    /\ ~Shared(r, job.op) /\ ~Exclusive(r, job.op)
    /\ Remember(r, [at |-> "saved", job |-> job, row |-> row, order |-> req[r].order,
                    sum |-> SumOver([Totals EXCEPT ![job.op] = row.total], Ops),
                    closed |-> \A o \in Ops \ {job.op} : op[o].status = "completed"])

\* Mutant of CommitEvent: op.save() is forgotten.
CommitEventUnsaved(r) ==
    LET act == req[r].job.act
        o == req[r].job.op
    IN
    /\ At(r, "saved") /\ act \in EventActions
    /\ due' = [due EXCEPT ![o] = StatusAfter(act, @)]
    /\ Goto(r, Idle)
    /\ UNCHANGED <<order, op, report, moved, stock, history, disturbed>>

\* The end of record_event: wo.save() with what was read of the work order, if the
\* first start or the last stop calls for it, and the COMMIT.
CommitEvent(r) ==
    LET act == req[r].job.act
        o == req[r].job.op
        seen == req[r].order
    IN
    /\ At(r, "saved") /\ act \in EventActions
    /\ op' = [op EXCEPT ![o] = req[r].row]
    /\ order' = IF act = "start" /\ seen.status = "dispatched"
                THEN [seen EXCEPT !.status = "in_progress"]
                ELSE IF act = "stop" /\ req[r].closed /\ seen.status = "in_progress"
                THEN [seen EXCEPT !.status = "completed"]
                ELSE order
    /\ due' = [due EXCEPT ![o] = StatusAfter(act, @)]
    /\ Goto(r, Idle)
    /\ UNCHANGED <<report, moved, stock, history, disturbed>>

\* What the post_save handler of the report asks for before it posts a movement.
Posts(job) == job.good > 0 /\ job.emit

\* The end of record_production: wo.save() with the sum and with the status that was
\* read, and the COMMIT, which also covers the movement the signal has posted.
CommitReport(r) ==
    LET job == req[r].job IN
    /\ At(r, "saved") /\ job.act = "report"
    /\ op' = [op EXCEPT ![job.op] = req[r].row]
    /\ order' = [req[r].order EXCEPT !.done = req[r].sum]
    /\ report' = [report EXCEPT ![job.id] = [state |-> "present", op |-> job.op, good |-> job.good]]
    /\ moved' = [moved EXCEPT ![job.id].into = IF Posts(job) THEN 1 ELSE 0,
                              ![job.id].linked = Posts(job)]
    /\ stock' = IF Posts(job) THEN stock + job.good ELSE stock
    /\ Goto(r, Idle)
    /\ UNCHANGED <<due, history, disturbed>>

-----------------------------------------------------------------------------
\* ReportDeleteView: the report and its operation are loaded ...
LoadPurge(r) ==
    \E p \in Reports :
      /\ report[p].state = "present"
      /\ Begin(r, [at |-> "purge", id |-> p, row |-> op[report[p].op]])
      /\ purged' = purged \cup {report[p].op}
      /\ UNCHANGED refused

\* Mutant of Subtracted: the quantity is not taken off.
SubtractedNothing(row, good) == row

\* What is left of the totals without a report: max(total - quantity, 0).
Subtracted(row, good) ==
    [row EXCEPT !.total = IF @ > good THEN @ - good ELSE 0]

\* ... the operation is saved, in a transaction of its own, which inserts the row again
\* if it is gone and fails if the work order is gone too ...
SavePurgedOp(r) ==
    LET o == report[req[r].id].op IN
    /\ At(r, "purge")
    /\ ~Shared(r, o) /\ ~Exclusive(r, o)
    /\ \/ /\ op[o].status # "none" \/ order.status # "none"
          /\ op' = [op EXCEPT ![o] = Subtracted(req[r].row, Good[req[r].id])]
          /\ Goto(r, [at |-> "unlink", id |-> req[r].id])
          /\ UNCHANGED <<order, due, report, moved, stock, history, disturbed>>
       \/ op[o].status = "none" /\ order.status = "none" /\ Refuse(r)

\* Mutant of FindMovement: the handler runs on post_delete, after SET_NULL.
FindMovementLate(r) ==
    /\ At(r, "unlink")
    /\ Remember(r, [at |-> "reverse", id |-> req[r].id, found |-> FALSE])

\* ... rpt.delete() sends pre_delete, whose handler looks for the movement ...
FindMovement(r) ==
    /\ At(r, "unlink")
    /\ Remember(r, [at |-> "reverse", id |-> req[r].id, found |-> moved[req[r].id].linked])

\* The rows once the reports in gone are deleted and those in back are reversed.
Deleted(gone, back) ==
    /\ report' = [p \in Reports |-> IF p \in gone THEN [report[p] EXCEPT !.state = "deleted"]
                                               ELSE report[p]]
    /\ moved' = [p \in Reports |->
                   [into |-> moved[p].into,
                    out |-> IF p \in back THEN moved[p].out + 1 ELSE moved[p].out,
                    linked |-> moved[p].linked /\ p \notin gone]]
    /\ stock' = stock - SumOver(Good, back)

\* ... reverses it, unless the stock has gone elsewhere (the ValueError is logged and
\* swallowed), and the report is deleted in the same transaction ...
DeleteReport(r) ==
    LET p == req[r].id
        back == {q \in {p} : req[r].found /\ stock >= Good[q]}
    IN
    /\ At(r, "reverse")
    /\ Deleted({p}, back)
    /\ refused' = IF req[r].found /\ back = {} THEN refused \cup {p} ELSE refused
    /\ Goto(r, [at |-> "reload"])
    /\ UNCHANGED <<order, op, due, purged, begun, disturbed>>

\* ... the work order is loaded ...
LoadOrder(r) ==
    /\ At(r, "reload")
    /\ \/ order.status # "none" /\ Remember(r, [at |-> "sum", order |-> order])
       \/ order.status = "none" /\ Refuse(r)

\* ... the operations are added up ...
SumOps(r) ==
    /\ At(r, "sum")
    /\ Remember(r, [at |-> "rollup", order |-> req[r].order, sum |-> SumOver(Totals, Ops)])

\* ... and the work order is saved, and inserted again if it is gone.
SaveOrder(r) ==
    /\ At(r, "rollup")
    /\ order' = [req[r].order EXCEPT !.done = req[r].sum]
    /\ Goto(r, Idle)
    /\ UNCHANGED <<op, due, report, moved, stock, history, disturbed>>

-----------------------------------------------------------------------------
\* WorkOrderEditView: a check, then form.save() with every column.
LoadEdit(r) ==
    /\ order.status \in {"dispatched", "on_hold"}
    /\ Begin(r, [at |-> "edit", order |-> order])
    /\ UNCHANGED <<purged, refused>>

SaveEdit(r) ==
    /\ At(r, "edit")
    /\ order' = req[r].order
    /\ Goto(r, Idle)
    /\ UNCHANGED <<op, due, report, moved, stock, history, disturbed>>

\* WorkOrderDeleteView: a check, then the cascade to the operations and reports.
LoadDrop(r) ==
    /\ order.status \notin {"none", "in_progress"}
    /\ Begin(r, [at |-> "drop"])
    /\ UNCHANGED <<purged, refused>>

\* The movements of the reports are reversed one by one, as far as the stock goes.
Drop(r) ==
    LET gone == {p \in Reports : report[p].state = "present" /\ op[report[p].op].status # "none"}
        found == {p \in gone : moved[p].linked}
    IN
    /\ At(r, "drop")
    /\ \A o \in Ops : ~Shared(r, o) /\ ~Exclusive(r, o)
    /\ \E back \in SUBSET found :
         /\ stock >= SumOver(Good, back)
         /\ \A p \in found \ back : Good[p] > stock - SumOver(Good, back)
         /\ Deleted(gone, back)
         /\ refused' = refused \cup (found \ back)
    /\ order' = [status |-> "none", done |-> 0]
    /\ op' = [o \in Ops |-> NoOp]
    /\ due' = [o \in Ops |-> "none"]
    /\ Goto(r, Idle)
    /\ UNCHANGED <<purged, begun, disturbed>>

\* The four work order views that are a single conditional UPDATE.
Transition(from, to) ==
    /\ order.status \in from
    /\ order' = [order EXCEPT !.status = to]
    /\ disturbed' = (disturbed \/ \E r \in Requests : ~At(r, "idle"))
    /\ UNCHANGED <<op, due, report, moved, stock, req, history>>

\* Mutant of Start: a work order that is over may be started again.
StartAgain == Transition({"dispatched", "on_hold", "completed"}, "in_progress")

Start == Transition({"dispatched", "on_hold"}, "in_progress")
Hold == Transition({"in_progress"}, "on_hold")
Complete == Transition({"in_progress"}, "completed")
Cancel == Transition({"dispatched", "in_progress", "on_hold"}, "cancelled")

\* Some other movement takes a unit of the product out of the default bin.
Consume ==
    /\ stock > 0
    /\ stock' = stock - 1
    /\ UNCHANGED <<order, op, due, report, moved, req, history, disturbed>>

\* The request dies: a deadlock victim, a lock wait timeout, or a worker that is gone.
\* Its transaction is rolled back; what a deletion has saved before stays.
Fail(r) ==
    /\ ~At(r, "idle")
    /\ Goto(r, Idle)
    /\ disturbed' = TRUE
    /\ UNCHANGED <<tables, history>>

Next ==
    \/ Start \/ Hold \/ Complete \/ Cancel \/ Consume
    \/ \E r \in Requests :
         \/ CheckEvent(r) \/ InsertLog(r) \/ InsertReport(r) \/ SaveOp(r)
         \/ CommitEvent(r) \/ CommitReport(r)
         \/ LoadPurge(r) \/ SavePurgedOp(r) \/ FindMovement(r) \/ DeleteReport(r)
         \/ LoadOrder(r) \/ SumOps(r) \/ SaveOrder(r)
         \/ LoadEdit(r) \/ SaveEdit(r) \/ LoadDrop(r) \/ Drop(r) \/ Fail(r)

Spec == Init /\ [][Next]_vars

-----------------------------------------------------------------------------
\* An operation that no deletion has touched counts every committed report exactly
\* once, however many requests report on it at the same time.
ReportsCounted ==
    \A o \in Ops \ purged :
      op[o].status # "none" => op[o].total = SumOver(Good, Reported(o))

\* An operation that no deletion has touched is in the status its last time log calls
\* for: reports filed meanwhile do not write an older status back.
StatusFollowsLog == \A o \in Ops \ purged : op[o].status = due[o]

\* The stock a deleted report has put on hand is taken back, at least once, unless it
\* was used meanwhile; what is on hand belongs to reports that still refer to it.
DeletionReversed ==
    \A p \in Reports :
      report[p].state = "deleted" /\ p \notin refused => moved[p].out >= moved[p].into

\* As long as requests come one at a time and none dies half-way, the totals of the
\* operations, the roll-up of the work order and the movements agree with the reports.
SerialBooks ==
    ~disturbed /\ (\A r \in Requests : At(r, "idle")) /\ order.status # "none" =>
      /\ \A o \in Ops : op[o].total = SumOver(Good, Reported(o))
      /\ order.done = SumOver(Totals, Ops)
      /\ \A p \in Reports :
           report[p].state = "deleted" /\ p \notin refused => moved[p].out = moved[p].into

\* As long as requests come one at a time, a work order that is completed or cancelled
\* stays so until it is deleted, whatever is still started or reported on it.
EndedStaysEnded ==
    [][~disturbed' /\ order.status \in {"completed", "cancelled"}
         => order'.status \in {order.status, "none"}]_vars

\* views.py, lines 3 to 5: "Workflow transitions use a conditional UPDATE so concurrent
\* reviewers cannot double-action"; an operation that was stopped stays completed.
StoppedStaysStopped ==
    [][\A o \in Ops \ purged :
         op[o].status = "completed" => op'[o].status \in {"completed", "none"}]_vars
=============================================================================
