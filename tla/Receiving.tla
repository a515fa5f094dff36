------------------------------ MODULE Receiving ------------------------------
(***************************************************************************)
(* One goods receipt note from draft to put away: the GRN and putaway      *)
(* views of src/apps/inventory/views.py and generate_putaway_tasks of      *)
(* src/apps/inventory/services/grn.py.                                     *)
(*                                                                         *)
(* Every statement or transaction that commits by itself is a step, so     *)
(* that two requests interleave as their commits do: receiving commits the *)
(* status before it generates the tasks, one INSERT each, and completing a *)
(* putaway looks at the other tasks after its own transaction has ended.   *)
(***************************************************************************)
EXTENDS Integers, FiniteSets, FiniteSetsExt

CONSTANTS
    LineIds,     \* GRNLine primary keys
    Qty,         \* received_qty or expected_qty or 0, per line
    TaskIds,     \* PutawayTask primary keys
    Requests     \* the requests in flight at a time

ASSUME ReceivingAssumption ==
    /\ LineIds \subseteq Nat /\ LineIds # {} /\ IsFiniteSet(LineIds)
    /\ Qty \in [LineIds -> Nat]
    /\ IsFiniteSet(Requests)

VARIABLES
    status,      \* of the GRN: draft, putaway_pending, completed, cancelled; "none" without a row
    line,        \* the state of each line row: unused, present, deleted
    task,        \* each putaway task row: unused, pending, completed or deleted, and its line
    posted,      \* how many receipt movements were posted for each task
    excused,     \* what kept the GRN from its plain course
    req          \* where each request is and what it has read

(***************************************************************************)
(* What excuses a GRN: "edit", a stale edit form has set the status back   *)
(* to draft; "late", a line came or went after it had left draft; "hasty", *)
(* its last task was completed while tasks were still being generated.     *)
(***************************************************************************)

vars == <<status, line, task, posted, excused, req>>

Idle == [op |-> "idle"]

-----------------------------------------------------------------------------
Lines == {l \in LineIds : line[l] = "present"}
Tasks == {k \in TaskIds : task[k].status \in {"pending", "completed"}}
TasksOf(l) == {k \in Tasks : task[k].line = l}

At(r, op) == req[r].op = op
Goto(r, q) == req' = [req EXCEPT ![r] = q]
Answer(r) == Goto(r, Idle)
Refuse(r) == Answer(r) /\ UNCHANGED <<status, line, task, posted, excused>>

\* A check that passes only changes what the request remembers.
Remember(r, q) == Goto(r, q) /\ UNCHANGED <<status, line, task, posted, excused>>

Excuse(why, when) == excused' = IF when THEN excused \cup {why} ELSE excused

Generating(r) == req[r].op \in {"list", "check", "insert"}

-----------------------------------------------------------------------------
\* GRNCreateView has made a draft.
Init ==
    /\ status = "draft"
    /\ line = [l \in LineIds |-> "unused"]
    /\ task \in [TaskIds -> [line : {CHOOSE l \in LineIds : TRUE}, status : {"unused"}]]
    /\ posted = [k \in TaskIds |-> 0]
    /\ excused = {}
    /\ req = [r \in Requests |-> Idle]

\* The head of PutawayCompleteView.
LoadPutaway(r) ==
    \E k \in Tasks : /\ task[k].status # "completed"
                     /\ Remember(r, [op |-> "putaway", task |-> k])

\* The heads of the other views.
Load(r) ==
    /\ At(r, "idle")
    /\ \/ status = "draft" /\ \E op \in {"add", "edit"} : Remember(r, [op |-> op])
       \/ status # "none" /\ Lines # {} /\ Remember(r, [op |-> "receive"])
       \/ status \in {"draft", "cancelled"} /\ Remember(r, [op |-> "delete"])
       \/ /\ status = "draft"
          /\ \E l \in Lines : Remember(r, [op |-> "remove", line |-> l])
       \/ LoadPutaway(r)

\* GRNLineCreateView, after its check; the foreign key needs the GRN.
AddLine(r) ==
    /\ At(r, "add")
    /\ \/ /\ status # "none"
          /\ \E l \in LineIds : /\ line[l] = "unused"
                                /\ line' = [line EXCEPT ![l] = "present"]
          /\ Excuse("late", status # "draft")
          /\ Answer(r)
          /\ UNCHANGED <<status, task, posted>>
       \/ status = "none" /\ Refuse(r)

\* The rows once the lines in gone are deleted: their tasks go with them.
Cascade(gone) ==
    /\ line' = [l \in LineIds |-> IF l \in gone THEN "deleted" ELSE line[l]]
    /\ task' = [k \in TaskIds |-> IF k \in Tasks /\ task[k].line \in gone
                                  THEN [task[k] EXCEPT !.status = "deleted"] ELSE task[k]]

\* GRNLineDeleteView, after its check.
RemoveLine(r) ==
    /\ At(r, "remove")
    /\ Cascade({req[r].line} \cap Lines)
    /\ Excuse("late", status # "draft")
    /\ Answer(r)
    /\ UNCHANGED <<status, posted>>

\* GRNEditView, after its check: form.save() writes back every column it has loaded,
\* the status among them, and inserts the row again if it is gone.
Edit(r) ==
    /\ At(r, "edit")
    /\ status' = "draft"
    /\ Excuse("edit", status # "draft")
    /\ Answer(r)
    /\ UNCHANGED <<line, task, posted>>

\* GRNDeleteView, after its check.
Delete(r) ==
    /\ At(r, "delete")
    /\ status' = "none"
    /\ Cascade(Lines)
    /\ Answer(r)
    /\ UNCHANGED <<posted, excused>>

\* GRNCancelView: a single conditional UPDATE.
Cancel ==
    /\ status \in {"draft", "putaway_pending"}
    /\ status' = "cancelled"
    /\ UNCHANGED <<line, task, posted, excused, req>>

\* Mutant of Receive: the UPDATE of the status is unconditional.
ReceiveAgain(r) ==
    /\ At(r, "receive")
    /\ status' = "putaway_pending"
    /\ Goto(r, [op |-> "list"])
    /\ UNCHANGED <<line, task, posted, excused>>

\* GRNReceiveView: the conditional UPDATE, committed before any task exists.
Receive(r) ==
    /\ At(r, "receive")
    /\ \/ /\ status = "draft"
          /\ status' = "putaway_pending"
          /\ Goto(r, [op |-> "list"])
          /\ UNCHANGED <<line, task, posted, excused>>
       \/ status # "draft" /\ Refuse(r)

\* generate_putaway_tasks reads the lines ...
ListLines(r) == At(r, "list") /\ Remember(r, [op |-> "check", todo |-> Lines])

\* ... and for each of them looks for a task ...
Next1(todo) == todo \ {Min(todo)}

CheckLine(r) ==
    /\ At(r, "check") /\ req[r].todo # {}
    /\ Remember(r, IF TasksOf(Min(req[r].todo)) = {}
                   THEN [op |-> "insert", todo |-> req[r].todo]
                   ELSE [op |-> "check", todo |-> Next1(req[r].todo)])

\* Mutant of InsertTask: the generator stops after its first task.
InsertFirstTask(r) ==
    \E k \in TaskIds :
      /\ At(r, "insert") /\ task[k].status = "unused"
      /\ task' = [task EXCEPT ![k] = [line |-> Min(req[r].todo), status |-> "pending"]]
      /\ Answer(r)
      /\ UNCHANGED <<status, line, posted, excused>>

\* ... and inserts one, unless the line is gone by now (IntegrityError).
InsertTask(r) ==
    LET l == Min(req[r].todo) IN
    /\ At(r, "insert")
    /\ \/ /\ l \in Lines
          /\ \E k \in TaskIds :
               /\ task[k].status = "unused"
               /\ task' = [task EXCEPT ![k] = [line |-> l, status |-> "pending"]]
          /\ Goto(r, [op |-> "check", todo |-> Next1(req[r].todo)])
          /\ UNCHANGED <<status, line, posted, excused>>
       \/ l \notin Lines /\ Refuse(r)

Generated(r) == At(r, "check") /\ req[r].todo = {} /\ Refuse(r)

\* Mutant of Complete: the task is saved in a transaction of its own.
CompleteFirst(r) ==
    LET k == req[r].task IN
    /\ At(r, "putaway")
    /\ k \in Tasks
    /\ task' = [task EXCEPT ![k].status = "completed"]
    /\ posted' = [posted EXCEPT ![k] = @ + (IF Qty[task[k].line] > 0 THEN 1 ELSE 0)]
    /\ Goto(r, [op |-> "review"])
    /\ UNCHANGED <<status, line, excused>>

(***************************************************************************)
(* The transaction of PutawayCompleteView: the task is saved as completed  *)
(* without looking at its row again, and the receipt is posted.  A         *)
(* quantity of zero makes post_movement raise, which undoes both.          *)
(***************************************************************************)
Complete(r) ==
    LET k == req[r].task
        ok == k \in Tasks /\ Qty[task[k].line] > 0
    IN
    /\ At(r, "putaway")
    /\ \/ /\ ok
          /\ task' = [task EXCEPT ![k].status = "completed"]
          /\ posted' = [posted EXCEPT ![k] = @ + 1]
          /\ Goto(r, [op |-> "review"])
          /\ UNCHANGED <<status, line, excused>>
       \/ ~ok /\ Refuse(r)

\* Then, outside the transaction: is any task of the GRN left?
Review(r) ==
    LET all_done == \A k \in Tasks : task[k].status = "completed" IN
    /\ At(r, "review")
    /\ Goto(r, IF all_done THEN [op |-> "flip"] ELSE Idle)
    /\ Excuse("hasty", all_done /\ \E q \in Requests : Generating(q))
    /\ UNCHANGED <<status, line, task, posted>>

\* If not, the GRN is completed, whatever its status is by now; without a row,
\* save(update_fields) raises DatabaseError.
Flip(r) ==
    /\ At(r, "flip")
    /\ status' = IF status = "none" THEN "none" ELSE "completed"
    /\ Answer(r)
    /\ UNCHANGED <<line, task, posted, excused>>

Next ==
    \/ Cancel
    \/ \E r \in Requests :
         \/ Load(r) \/ AddLine(r) \/ RemoveLine(r) \/ Edit(r) \/ Delete(r)
         \/ Receive(r) \/ ListLines(r) \/ CheckLine(r) \/ InsertTask(r) \/ Generated(r)
         \/ Complete(r) \/ Review(r) \/ Flip(r)

Spec == Init /\ [][Next]_vars

-----------------------------------------------------------------------------
\* A task is marked completed exactly when its receipt is in the ledger, although
\* the row is saved from an object loaded long before the transaction.
CompletionIsPosted ==
    \A k \in Tasks : task[k].status = "completed" <=> posted[k] > 0

\* Receiving generates one task per line, however often it is requested, unless a
\* stale edit has set the GRN back to draft.
OneTaskPerLine ==
    "edit" \notin excused =>
        \A j, k \in Tasks : task[j].line = task[k].line => j = k

\* A completed GRN has all its lines put away, unless it left its plain course.
CompletedIsPutAway ==
    status = "completed" /\ excused = {} =>
        \A l \in Lines : \E k \in TasksOf(l) : task[k].status = "completed"

\* README.md, line 2060: every transition "uses the conditional UPDATE ... race-safe
\* pattern so two operators racing on the floor cannot double-action", and the
\* completion of a putaway task is one of the transitions listed above it.
NoDoubleAction == \A k \in TaskIds : posted[k] <= 1
=============================================================================
