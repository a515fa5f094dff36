-------------------------- MODULE ReceivingProofs --------------------------
(***************************************************************************)
(* Proofs about Receiving, for any number of lines, putaway tasks and      *)
(* requests: completion and ledger agree, a line gets one task, and a      *)
(* completed GRN is put away.                                              *)
(***************************************************************************)
EXTENDS Receiving, FiniteSetTheorems, WellFoundedInduction, TLAPS

Task == [line : LineIds, status : {"unused", "pending", "completed", "deleted"}]

Request ==
  [op : {"idle", "add", "edit", "receive", "delete", "list", "review", "flip"}]
    \cup [op : {"remove"}, line : LineIds]
    \cup [op : {"check", "insert"}, todo : SUBSET LineIds]
    \cup [op : {"putaway"}, task : TaskIds]

Typed ==
  /\ status \in {"none", "draft", "putaway_pending", "completed", "cancelled"}
  /\ line \in [LineIds -> {"unused", "present", "deleted"}]
  /\ task \in [TaskIds -> Task]
  /\ posted \in [TaskIds -> Nat]
  /\ req \in [Requests -> Request]
  /\ \A r \in Requests : At(r, "insert") => req[r].todo # {}

\* A task has a receipt from its completion on, and none before.
Ledger ==
  \A k \in TaskIds :
    /\ task[k].status \in {"unused", "pending"} => posted[k] = 0
    /\ task[k].status = "completed" => posted[k] > 0

\* Nothing has come of a draft, and a GRN leaves draft only once.
DraftIsFresh ==
  status = "draft" =>
    /\ Tasks = {}
    /\ \A r \in Requests : ~Generating(r) /\ req[r].op \notin {"putaway", "review", "flip"}

\* One request generates, and the lines it has still to look at have no task.
OneGenerator ==
  /\ \A q, r \in Requests : Generating(q) /\ Generating(r) => q = r
  /\ \A r \in Requests : At(r, "list") => Tasks = {}
  /\ \A r \in Requests : req[r].op \in {"check", "insert"} =>
        \A l \in req[r].todo : TasksOf(l) = {}

PutAway == \A l \in Lines : \E k \in TasksOf(l) : task[k].status = "completed"

\* On its plain course, a GRN has a task for every line that its generator has passed,
\* and what a completion has read of the tasks stays true until it writes.
PlainCourse ==
  /\ \A r \in Requests : req[r].op \in {"check", "insert"} =>
        /\ req[r].todo \subseteq Lines \/ Lines = {}
        /\ \A l \in Lines \ req[r].todo : TasksOf(l) # {}
  /\ Tasks # {} /\ (\A r \in Requests : ~Generating(r)) =>
        \A l \in Lines : TasksOf(l) # {}
  /\ \A r \in Requests : At(r, "review") => Tasks # {} \/ Lines = {}
  /\ \A r \in Requests : At(r, "flip") => PutAway
  /\ status = "completed" => PutAway
  /\ status = "none" => Lines = {}

IInv ==
  /\ Typed
  /\ Ledger
  /\ "edit" \notin excused => DraftIsFresh /\ OneGenerator /\ OneTaskPerLine
  /\ excused = {} => PlainCourse

-----------------------------------------------------------------------------
LEMMA MinIn == ASSUME NEW S \in SUBSET Nat, S # {} PROVE Min(S) \in S
<1> DEFINE Less == {p \in Nat \X Nat : p[1] < p[2]}
<1>1. IsWellFoundedOn(Less, Nat)
  BY NatLessThanWellFounded DEF OpToRel
<1>2. S \subseteq Nat
  OBVIOUS
<1> HIDE DEF Less
<1>3. PICK m \in S : \A n \in S : ~(<<n, m>> \in Less)
  BY <1>1, <1>2, WFMin
<1>4. ASSUME NEW n \in S
      PROVE  m <= n
  <2>1. m \in Nat /\ n \in Nat
    BY <1>2
  <2>2. n < m => <<n, m>> \in Less
    BY <2>1 DEF Less
  <2>3. QED BY <1>3, <2>1, <2>2
<1>5. QED BY <1>4 DEF Min

LEMMA InitIInv == Init => IInv
<1> SUFFICES ASSUME Init PROVE IInv
  OBVIOUS
<1>1. Typed
  BY ReceivingAssumption DEF Init, Typed, Task, Request, Idle, At
<1>2. \A k \in TaskIds : task[k].status = "unused"
  BY DEF Init
<1>3. \A r \in Requests : req[r].op = "idle"
  BY DEF Init, Idle
<1>4. Tasks = {} /\ Lines = {}
  BY <1>2 DEF Tasks, Lines, Init
<1>5. Ledger
  BY <1>2 DEF Init, Ledger
<1>6. DraftIsFresh /\ OneGenerator /\ OneTaskPerLine
  BY <1>3, <1>4 DEF DraftIsFresh, OneGenerator, OneTaskPerLine, Generating, At
<1>7. PlainCourse
  BY <1>3, <1>4 DEF PlainCourse, At, PutAway, Init
<1>8. QED BY <1>1, <1>5, <1>6, <1>7 DEF IInv

\* A request that moves on takes only its own place.
LEMMA Moved ==
  ASSUME Typed, NEW r \in Requests, NEW q \in Request, Goto(r, q), q.op = "insert" => q.todo # {}
  PROVE  /\ req' \in [Requests -> Request]
         /\ req'[r] = q
         /\ \A p \in Requests \ {r} : req'[p] = req[p]
         /\ \A p \in Requests : req'[p].op = "insert" => req'[p].todo # {}
BY DEF Typed, Goto, At

LEMMA IdleIsRequest == Idle \in Request /\ Idle.op = "idle"
BY DEF Idle, Request

\* A step that only sends one request to a place where the invariant asks nothing.
LEMMA Harmless ==
  ASSUME IInv, NEW r \in Requests, NEW q \in Request, Goto(r, q),
         UNCHANGED <<status, line, task, posted, excused>>,
         q.op \in {"idle", "add", "edit", "receive", "delete", "remove"}
            \/ (q.op = "putaway" /\ Tasks # {}),
         Generating(r) => excused # {} \/ Lines = {} \/ (At(r, "check") /\ req[r].todo = {})
  PROVE  IInv'
<1>1. /\ req' \in [Requests -> Request]
      /\ req'[r] = q
      /\ \A p \in Requests \ {r} : req'[p] = req[p]
      /\ \A p \in Requests : req'[p].op = "insert" => req'[p].todo # {}
  BY Moved DEF IInv
<1>2. Lines' = Lines /\ Tasks' = Tasks /\ (\A l : TasksOf(l)' = TasksOf(l)) /\ PutAway' = PutAway
  BY DEF Lines, Tasks, TasksOf, PutAway
<1>3. q.op \notin {"list", "check", "insert", "review", "flip"}
  OBVIOUS
<1>4. Typed' /\ Ledger'
  BY <1>1 DEF IInv, Typed, Ledger, At
<1>5. \A p \in Requests : Generating(p)' <=> p # r /\ Generating(p)
  BY <1>1, <1>3 DEF Generating
<1>6. "edit" \notin excused' => DraftIsFresh' /\ OneGenerator' /\ OneTaskPerLine'
  BY <1>1, <1>2, <1>3, <1>5 DEF IInv, DraftIsFresh, OneGenerator, OneTaskPerLine, At
<1>7. ASSUME excused' = {}
      PROVE  PlainCourse'
  <2>1. PlainCourse /\ excused = {} /\ DraftIsFresh /\ OneGenerator
    BY <1>7 DEF IInv
  <2>2. /\ \A p \in Requests : req'[p].op \in {"check", "insert"} =>
              /\ req'[p].todo \subseteq Lines \/ Lines = {}
              /\ \A l \in Lines \ req'[p].todo : TasksOf(l) # {}
        /\ \A p \in Requests : req'[p].op = "review" => Tasks # {} \/ Lines = {}
        /\ \A p \in Requests : req'[p].op = "flip" => PutAway
    BY <2>1, <1>1, <1>3 DEF PlainCourse, At
  <2>3. Tasks # {} /\ (\A p \in Requests : ~Generating(p)') => \A l \in Lines : TasksOf(l) # {}
    BY <2>1, <1>5 DEF PlainCourse, OneGenerator, At, Generating
  <2>4. QED BY <2>1, <2>2, <2>3, <1>2 DEF PlainCourse, At
<1>8. QED BY <1>4, <1>6, <1>7 DEF IInv

LEMMA LoadIInv ==
  ASSUME IInv, NEW r \in Requests, Load(r)
  PROVE  IInv'
<1>1. ~Generating(r)
  BY DEF Load, At, Generating
<1>2. PICK q \in Request :
        /\ Remember(r, q)
        /\ \/ q.op \in {"idle", "add", "edit", "receive", "delete", "remove"}
           \/ (q.op = "putaway" /\ Tasks # {})
  <2>1. CASE status = "draft" /\ \E op \in {"add", "edit"} : Remember(r, [op |-> op])
    BY <2>1 DEF Request
  <2>2. CASE Remember(r, [op |-> "receive"]) \/ Remember(r, [op |-> "delete"])
    BY <2>2 DEF Request
  <2>3. CASE \E l \in Lines : Remember(r, [op |-> "remove", line |-> l])
    <3>1. PICK l \in Lines : Remember(r, [op |-> "remove", line |-> l])
      BY <2>3
    <3>2. [op |-> "remove", line |-> l] \in Request
      BY DEF Request, Lines
    <3>3. QED BY <3>1, <3>2
  <2>4. CASE LoadPutaway(r)
    <3>1. PICK k \in Tasks : Remember(r, [op |-> "putaway", task |-> k])
      BY <2>4 DEF LoadPutaway
    <3>2. [op |-> "putaway", task |-> k] \in Request
      BY DEF Request, Tasks
    <3>3. QED BY <3>1, <3>2
  <2>5. QED BY <2>1, <2>2, <2>3, <2>4 DEF Load
<1>3. Goto(r, q) /\ UNCHANGED <<status, line, task, posted, excused>>
  BY <1>2 DEF Remember
<1>4. QED BY <1>1, <1>2, <1>3, Harmless

\* A request that generates gives up only when its line is gone.
LEMMA RefuseIInv ==
  ASSUME IInv, NEW r \in Requests, Refuse(r),
         Generating(r) => excused # {} \/ Lines = {} \/ (At(r, "check") /\ req[r].todo = {})
  PROVE  IInv'
<1>1. Goto(r, Idle) /\ UNCHANGED <<status, line, task, posted, excused>>
  BY DEF Refuse, Answer
<1>2. QED BY <1>1, IdleIsRequest, Harmless

LEMMA AddLineIInv ==
  ASSUME IInv, NEW r \in Requests, AddLine(r)
  PROVE  IInv'
<1>1. CASE Refuse(r)
  BY <1>1, RefuseIInv DEF AddLine, At, Generating
<1>2. CASE ~Refuse(r)
  <2>1. PICK l \in LineIds : line[l] = "unused" /\ line' = [line EXCEPT ![l] = "present"]
    BY <1>2 DEF AddLine
  <2>2. /\ status # "none" /\ Excuse("late", status # "draft") /\ Goto(r, Idle)
        /\ UNCHANGED <<status, task, posted>> /\ At(r, "add")
    BY <1>2 DEF AddLine, Answer
  <2>3. /\ req' \in [Requests -> Request]
        /\ req'[r].op = "idle"
        /\ \A p \in Requests \ {r} : req'[p] = req[p]
        /\ \A p \in Requests : req'[p].op = "insert" => req'[p].todo # {}
    BY <2>2, IdleIsRequest, Moved DEF IInv
  <2>4. Tasks' = Tasks /\ (\A k : TasksOf(k)' = TasksOf(k))
    BY <2>2 DEF Tasks, TasksOf
  <2>5. Typed' /\ Ledger'
    BY <2>1, <2>2, <2>3 DEF IInv, Typed, Ledger, At
  <2>6. \A p \in Requests : Generating(p)' <=> Generating(p)
    BY <2>2, <2>3 DEF Generating, At
  <2>7. "edit" \notin excused' => "edit" \notin excused
    BY <2>2 DEF Excuse
  <2>8. "edit" \notin excused' => DraftIsFresh' /\ OneGenerator' /\ OneTaskPerLine'
    BY <2>2, <2>3, <2>4, <2>6, <2>7 DEF IInv, DraftIsFresh, OneGenerator, OneTaskPerLine, At
  <2>9. excused' = {} => PlainCourse'
    <3> SUFFICES ASSUME excused' = {} PROVE PlainCourse'
      OBVIOUS
    <3>1. excused = {} /\ status = "draft"
      BY <2>2 DEF Excuse
    <3>2. DraftIsFresh' /\ Tasks' = {}
      BY <3>1, <2>2, <2>8 DEF DraftIsFresh
    <3>3. QED BY <3>1, <3>2, <2>2 DEF PlainCourse, DraftIsFresh, At, Generating
  <2>10. QED BY <2>5, <2>8, <2>9 DEF IInv
<1>3. QED BY <1>1, <1>2

\* Deleted lines take their tasks with them and disturb no other row.
LEMMA CascadeTakes ==
  ASSUME Typed, NEW gone \in SUBSET LineIds, Cascade(gone)
  PROVE  /\ line' \in [LineIds -> {"unused", "present", "deleted"}]
         /\ task' \in [TaskIds -> Task]
         /\ Lines' = Lines \ gone
         /\ Tasks' = {k \in Tasks : task[k].line \notin gone}
         /\ \A k \in TaskIds : task'[k] = task[k] \/ task'[k].status = "deleted"
         /\ \A k \in Tasks' : task'[k] = task[k]
         /\ \A l : TasksOf(l)' = IF l \in gone THEN {} ELSE TasksOf(l)
<1>1. line' \in [LineIds -> {"unused", "present", "deleted"}] /\ Lines' = Lines \ gone
  BY DEF Typed, Cascade, Lines
<1>2. \A k \in TaskIds :
        task'[k] = IF k \in Tasks /\ task[k].line \in gone
                   THEN [task[k] EXCEPT !.status = "deleted"] ELSE task[k]
  BY DEF Cascade
<1>3. task' \in [TaskIds -> Task]
  BY DEF Typed, Cascade, Task
<1>4. \A k \in TaskIds : /\ k \in Tasks /\ task[k].line \in gone => task'[k].status = "deleted"
                         /\ ~(k \in Tasks /\ task[k].line \in gone) => task'[k] = task[k]
  BY <1>2 DEF Typed, Task
<1>5. Tasks' = {k \in Tasks : task[k].line \notin gone}
  BY <1>4 DEF Tasks
<1>6. \A k \in Tasks' : task'[k] = task[k]
  BY <1>4, <1>5 DEF Tasks
<1>7. ASSUME NEW l
      PROVE  TasksOf(l)' = IF l \in gone THEN {} ELSE TasksOf(l)
  BY <1>5, <1>6 DEF TasksOf
<1>8. QED BY <1>1, <1>3, <1>4, <1>5, <1>6, <1>7

LEMMA RemoveLineIInv ==
  ASSUME IInv, NEW r \in Requests, RemoveLine(r)
  PROVE  IInv'
<1> DEFINE gone == {req[r].line} \cap Lines
<1>1. /\ Cascade(gone) /\ gone \in SUBSET LineIds /\ At(r, "remove")
      /\ Excuse("late", status # "draft") /\ Goto(r, Idle)
      /\ UNCHANGED <<status, posted>>
  BY DEF RemoveLine, Answer, Lines
<1> HIDE DEF gone
<1>2. /\ req' \in [Requests -> Request]
      /\ req'[r].op = "idle"
      /\ \A p \in Requests \ {r} : req'[p] = req[p]
      /\ \A p \in Requests : req'[p].op = "insert" => req'[p].todo # {}
  BY <1>1, IdleIsRequest, Moved DEF IInv
<1>3. /\ line' \in [LineIds -> {"unused", "present", "deleted"}]
      /\ task' \in [TaskIds -> Task]
      /\ Tasks' = {k \in Tasks : task[k].line \notin gone}
      /\ \A k \in TaskIds : task'[k] = task[k] \/ task'[k].status = "deleted"
      /\ \A k \in Tasks' : task'[k] = task[k]
      /\ \A l : TasksOf(l)' = IF l \in gone THEN {} ELSE TasksOf(l)
  BY <1>1, CascadeTakes DEF IInv
<1>4. Typed' /\ Ledger'
  BY <1>1, <1>2, <1>3 DEF IInv, Typed, Ledger, At
<1>5. \A p \in Requests : Generating(p)' <=> Generating(p)
  BY <1>1, <1>2 DEF Generating, At
<1>6. "edit" \notin excused' => "edit" \notin excused
  BY <1>1 DEF Excuse
<1>7. "edit" \notin excused' => DraftIsFresh' /\ OneGenerator' /\ OneTaskPerLine'
  BY <1>1, <1>2, <1>3, <1>5, <1>6 DEF IInv, DraftIsFresh, OneGenerator, OneTaskPerLine, At
<1>8. excused' = {} => PlainCourse'
  <2> SUFFICES ASSUME excused' = {} PROVE PlainCourse'
    OBVIOUS
  <2>1. excused = {} /\ status = "draft"
    BY <1>1 DEF Excuse
  <2>2. DraftIsFresh' /\ Tasks' = {}
    BY <2>1, <1>1, <1>7 DEF DraftIsFresh
  <2>3. QED BY <2>1, <2>2, <1>1 DEF PlainCourse, DraftIsFresh, At, Generating
<1>9. QED BY <1>4, <1>7, <1>8 DEF IInv

\* Without an excuse, an edit writes back the status that the row has anyway.
LEMMA EditIInv ==
  ASSUME IInv, NEW r \in Requests, Edit(r)
  PROVE  IInv'
<1>1. /\ At(r, "edit") /\ status' = "draft" /\ Excuse("edit", status # "draft")
      /\ Goto(r, Idle) /\ UNCHANGED <<line, task, posted>>
  BY DEF Edit, Answer
<1>2. CASE status = "draft"
  <2>1. UNCHANGED <<status, line, task, posted, excused>> /\ ~Generating(r)
    BY <1>1, <1>2 DEF Excuse, At, Generating
  <2>2. QED BY <1>1, <2>1, IdleIsRequest, Harmless
<1>3. CASE status # "draft"
  <2>1. "edit" \in excused'
    BY <1>1, <1>3 DEF Excuse
  <2>2. /\ req' \in [Requests -> Request]
        /\ \A p \in Requests : req'[p].op = "insert" => req'[p].todo # {}
    BY <1>1, IdleIsRequest, Moved DEF IInv
  <2>3. Typed' /\ Ledger'
    BY <1>1, <2>2 DEF IInv, Typed, Ledger, At
  <2>4. QED BY <2>1, <2>3 DEF IInv
<1>4. QED BY <1>2, <1>3

\* A deleted GRN has no line and no task, so that nothing is asked of it.
LEMMA DeleteIInv ==
  ASSUME IInv, NEW r \in Requests, Delete(r)
  PROVE  IInv'
<1>1. /\ Cascade(Lines) /\ Lines \in SUBSET LineIds /\ At(r, "delete")
      /\ Goto(r, Idle) /\ status' = "none" /\ UNCHANGED <<posted, excused>>
  BY DEF Delete, Answer, Lines
<1>2. /\ req' \in [Requests -> Request]
      /\ req'[r].op = "idle"
      /\ \A p \in Requests \ {r} : req'[p] = req[p]
      /\ \A p \in Requests : req'[p].op = "insert" => req'[p].todo # {}
  BY <1>1, IdleIsRequest, Moved DEF IInv
<1>3. /\ line' \in [LineIds -> {"unused", "present", "deleted"}]
      /\ task' \in [TaskIds -> Task]
      /\ Lines' = {}
      /\ Tasks' \subseteq Tasks
      /\ \A k \in TaskIds : task'[k] = task[k] \/ task'[k].status = "deleted"
      /\ \A k \in Tasks' : task'[k] = task[k]
      /\ \A l : TasksOf(l)' \subseteq TasksOf(l)
  BY <1>1, CascadeTakes DEF IInv
<1>4. Typed' /\ Ledger'
  BY <1>1, <1>2, <1>3 DEF IInv, Typed, Ledger, At
<1>5. \A p \in Requests : Generating(p)' <=> Generating(p)
  BY <1>1, <1>2 DEF Generating, At
<1>6. "edit" \notin excused' => DraftIsFresh' /\ OneGenerator' /\ OneTaskPerLine'
  BY <1>1, <1>2, <1>3, <1>5 DEF IInv, DraftIsFresh, OneGenerator, OneTaskPerLine, At
<1>7. PlainCourse'
  BY <1>1, <1>3 DEF PlainCourse, PutAway
<1>8. QED BY <1>4, <1>6, <1>7 DEF IInv

LEMMA CancelIInv == ASSUME IInv, Cancel PROVE IInv'
<1>1. status' = "cancelled" /\ UNCHANGED <<line, task, posted, excused, req>>
  BY DEF Cancel
<1>2. Lines' = Lines /\ Tasks' = Tasks /\ (\A l : TasksOf(l)' = TasksOf(l)) /\ PutAway' = PutAway
  BY <1>1 DEF Lines, Tasks, TasksOf, PutAway
<1>3. Typed' /\ Ledger'
  BY <1>1 DEF IInv, Typed, Ledger, At
<1>4. "edit" \notin excused' => DraftIsFresh' /\ OneGenerator' /\ OneTaskPerLine'
  BY <1>1, <1>2 DEF IInv, DraftIsFresh, OneGenerator, OneTaskPerLine, At, Generating
<1>5. excused' = {} => PlainCourse'
  BY <1>1, <1>2 DEF IInv, PlainCourse, At, Generating
<1>6. QED BY <1>3, <1>4, <1>5 DEF IInv

-----------------------------------------------------------------------------
\* The generator starts from a draft, on which no other request is busy.
LEMMA ReceiveIInv ==
  ASSUME IInv, NEW r \in Requests, Receive(r)
  PROVE  IInv'
<1>1. CASE Refuse(r)
  BY <1>1, RefuseIInv DEF Receive, At, Generating
<1>2. CASE ~Refuse(r)
  <2> DEFINE q == [op |-> "list"]
  <2>1. /\ status = "draft" /\ status' = "putaway_pending" /\ Goto(r, q)
        /\ UNCHANGED <<line, task, posted, excused>>
    BY <1>2 DEF Receive
  <2>2. q \in Request /\ q.op = "list"
    BY DEF Request
  <2> HIDE DEF q
  <2>3. /\ req' \in [Requests -> Request]
        /\ req'[r].op = "list"
        /\ \A p \in Requests \ {r} : req'[p] = req[p]
        /\ \A p \in Requests : req'[p].op = "insert" => req'[p].todo # {}
    BY <2>1, <2>2, Moved DEF IInv
  <2>4. Tasks' = Tasks
    BY <2>1 DEF Tasks
  <2>5. Typed' /\ Ledger'
    BY <2>1, <2>3 DEF IInv, Typed, Ledger, At
  <2>6. ASSUME "edit" \notin excused
        PROVE  /\ Tasks' = {}
               /\ \A p \in Requests \ {r} :
                    req'[p].op \notin {"list", "check", "insert", "review", "flip"}
    BY <2>1, <2>3, <2>4, <2>6 DEF IInv, DraftIsFresh, Generating
  <2>7. "edit" \notin excused' => DraftIsFresh' /\ OneGenerator' /\ OneTaskPerLine'
    BY <2>1, <2>3, <2>6 DEF DraftIsFresh, OneGenerator, OneTaskPerLine, At, Generating
  <2>8. excused' = {} => PlainCourse'
    BY <2>1, <2>3, <2>6 DEF PlainCourse, At
  <2>9. QED BY <2>5, <2>7, <2>8 DEF IInv
<1>3. QED BY <1>1, <1>2

\* A generator that goes on, without a change to the rows.
LEMMA GoOn ==
  ASSUME IInv, NEW r \in Requests, NEW todo \in SUBSET LineIds,
         NEW op \in {"check", "insert"}, op = "insert" => todo # {},
         Remember(r, [op |-> op, todo |-> todo]), Generating(r),
         "edit" \notin excused => \A l \in todo : TasksOf(l) = {},
         excused = {} => /\ todo \subseteq Lines \/ Lines = {}
                         /\ \A l \in Lines \ todo : TasksOf(l) # {}
  PROVE  IInv'
<1> DEFINE q == [op |-> op, todo |-> todo]
<1>1. q \in Request /\ q.op = op /\ q.todo = todo
  BY DEF Request
<1>2. Goto(r, q) /\ UNCHANGED <<status, line, task, posted, excused>>
  BY DEF Remember
<1> HIDE DEF q
<1>3. /\ req' \in [Requests -> Request]
      /\ req'[r].op = op /\ req'[r].todo = todo
      /\ \A p \in Requests \ {r} : req'[p] = req[p]
      /\ \A p \in Requests : req'[p].op = "insert" => req'[p].todo # {}
  BY <1>1, <1>2, Moved DEF IInv
<1>4. Lines' = Lines /\ Tasks' = Tasks /\ (\A l : TasksOf(l)' = TasksOf(l)) /\ PutAway' = PutAway
  BY <1>2 DEF Lines, Tasks, TasksOf, PutAway
<1>5. Typed' /\ Ledger'
  BY <1>2, <1>3 DEF IInv, Typed, Ledger, At
<1>6. \A p \in Requests : Generating(p)' <=> Generating(p)
  BY <1>3 DEF Generating
<1>7. "edit" \notin excused' => DraftIsFresh' /\ OneGenerator' /\ OneTaskPerLine'
  BY <1>2, <1>3, <1>4, <1>6 DEF IInv, DraftIsFresh, OneGenerator, OneTaskPerLine, At
<1>8. excused' = {} => PlainCourse'
  BY <1>2, <1>3, <1>4, <1>6 DEF IInv, PlainCourse, At
<1>9. QED BY <1>5, <1>7, <1>8 DEF IInv

LEMMA ListLinesIInv ==
  ASSUME IInv, NEW r \in Requests, ListLines(r)
  PROVE  IInv'
<1>1. /\ Remember(r, [op |-> "check", todo |-> Lines]) /\ Generating(r) /\ At(r, "list")
      /\ Lines \in SUBSET LineIds
  BY DEF ListLines, At, Generating, Lines
<1>2. "edit" \notin excused => \A l \in Lines : TasksOf(l) = {}
  BY <1>1 DEF IInv, OneGenerator, TasksOf
<1>3. QED BY <1>1, <1>2, GoOn

LEMMA CheckLineIInv ==
  ASSUME IInv, NEW r \in Requests, CheckLine(r)
  PROVE  IInv'
<1> DEFINE todo == req[r].todo
<1>1. /\ At(r, "check") /\ todo # {} /\ Generating(r)
      /\ todo \in SUBSET LineIds
      /\ Remember(r, IF TasksOf(Min(todo)) = {} THEN [op |-> "insert", todo |-> todo]
                                               ELSE [op |-> "check", todo |-> Next1(todo)])
  BY DEF CheckLine, IInv, Typed, Request, At, Generating
<1>2. "edit" \notin excused => \A l \in todo : TasksOf(l) = {}
  BY <1>1 DEF IInv, OneGenerator, At
<1>3. excused = {} => /\ todo \subseteq Lines \/ Lines = {}
                      /\ \A l \in Lines \ todo : TasksOf(l) # {}
  BY <1>1 DEF IInv, PlainCourse, At
<1> HIDE DEF todo
<1>4. CASE TasksOf(Min(todo)) = {}
  <2>1. Remember(r, [op |-> "insert", todo |-> todo])
    BY <1>1, <1>4
  <2>2. QED BY <1>1, <1>2, <1>3, <2>1, GoOn
<1>5. CASE TasksOf(Min(todo)) # {}
  <2> DEFINE rest == Next1(todo)
  <2>1. Remember(r, [op |-> "check", todo |-> rest])
    BY <1>1, <1>5
  <2>2. rest = todo \ {Min(todo)}
    BY DEF Next1
  <2> HIDE DEF rest
  <2>3. rest \in SUBSET LineIds /\ ("edit" \notin excused => \A l \in rest : TasksOf(l) = {})
    BY <1>1, <1>2, <2>2
  <2>4. excused = {} => /\ rest \subseteq Lines \/ Lines = {}
                        /\ \A l \in Lines \ rest : TasksOf(l) # {}
    BY <1>3, <1>5, <2>2
  <2>5. QED BY <1>1, <2>1, <2>3, <2>4, GoOn
<1>6. QED BY <1>4, <1>5

\* The new task is the first one of its line: the generator has seen none, and there
\* is no other generator.
LEMMA InsertTaskIInv ==
  ASSUME IInv, NEW r \in Requests, InsertTask(r)
  PROVE  IInv'
<1> DEFINE todo == req[r].todo
           l == Min(todo)
           rest == Next1(todo)
<1>1. At(r, "insert") /\ todo \in SUBSET LineIds /\ todo # {} /\ Generating(r)
  BY DEF InsertTask, IInv, Typed, Request, At, Generating
<1>2. l \in todo
  BY <1>1, MinIn, ReceivingAssumption
<1>3. excused = {} => todo \subseteq Lines \/ Lines = {}
  BY <1>1 DEF IInv, PlainCourse, At
<1>4. CASE l \notin Lines /\ Refuse(r)
  BY <1>2, <1>3, <1>4, RefuseIInv
<1>5. CASE l \in Lines
  <2> DEFINE q == [op |-> "check", todo |-> rest]
  <2>1. PICK k \in TaskIds : /\ task[k].status = "unused"
                             /\ task' = [task EXCEPT ![k] = [line |-> l, status |-> "pending"]]
    BY <1>5 DEF InsertTask
  <2>2. Goto(r, q) /\ UNCHANGED <<status, line, posted, excused>>
    BY <1>5 DEF InsertTask
  <2>3. "edit" \notin excused => \A m \in todo : TasksOf(m) = {}
    BY <1>1 DEF IInv, OneGenerator, At
  <2>4. excused = {} => \A m \in Lines \ todo : TasksOf(m) # {}
    BY <1>1 DEF IInv, PlainCourse, At
  <2>5. l \in LineIds /\ rest = todo \ {l}
    BY <1>1, <1>2 DEF Next1
  <2> HIDE DEF todo, l, rest
  <2>6. q \in Request /\ q.op = "check" /\ q.todo = rest
    BY <1>1, <2>5 DEF Request
  <2> HIDE DEF q
  <2>7. /\ req' \in [Requests -> Request]
        /\ req'[r].op = "check" /\ req'[r].todo = rest
        /\ \A p \in Requests \ {r} : req'[p] = req[p]
        /\ \A p \in Requests : req'[p].op = "insert" => req'[p].todo # {}
    BY <2>2, <2>6, Moved DEF IInv
  <2>8. /\ task' \in [TaskIds -> Task]
        /\ task'[k] = [line |-> l, status |-> "pending"]
        /\ \A j \in TaskIds \ {k} : task'[j] = task[j]
    BY <2>1, <2>5 DEF IInv, Typed, Task
  <2>9. /\ Lines' = Lines
        /\ Tasks' = Tasks \cup {k} /\ k \notin Tasks
    BY <2>1, <2>2, <2>8 DEF Lines, Tasks
  <2>10. \A m : TasksOf(m)' = IF m = l THEN TasksOf(m) \cup {k} ELSE TasksOf(m)
    BY <2>8, <2>9 DEF TasksOf, Tasks
  <2>11. Typed' /\ Ledger'
    BY <2>1, <2>2, <2>7, <2>8 DEF IInv, Typed, Ledger, At
  <2>12. \A p \in Requests : Generating(p)' <=> Generating(p)
    BY <1>1, <2>7 DEF Generating
  <2>13. ASSUME "edit" \notin excused'
         PROVE  DraftIsFresh' /\ OneGenerator' /\ OneTaskPerLine'
    <3>1. "edit" \notin excused /\ DraftIsFresh /\ OneGenerator /\ OneTaskPerLine
      BY <2>2, <2>13 DEF IInv
    <3>2. status' # "draft" /\ \A p \in Requests \ {r} : ~Generating(p)
      BY <1>1, <2>2, <3>1 DEF DraftIsFresh, OneGenerator
    <3>3. DraftIsFresh'
      BY <3>2 DEF DraftIsFresh
    <3>4. OneGenerator'
      BY <3>1, <3>2, <2>3, <2>5, <2>7, <2>10, <2>12 DEF OneGenerator, At, Generating
    <3>5. TasksOf(l) = {}
      BY <1>2, <2>3, <3>1 DEF l, todo
    <3>6. OneTaskPerLine'
      BY <2>8, <2>9, <3>1, <3>5 DEF OneTaskPerLine, TasksOf, Tasks
    <3>7. QED BY <3>3, <3>4, <3>6
  <2>14. ASSUME excused' = {}
         PROVE  PlainCourse'
    <3>1. excused = {} /\ PlainCourse /\ OneGenerator
      BY <2>2, <2>14 DEF IInv
    <3>2. \A p \in Requests \ {r} : ~Generating(p)
      BY <1>1, <3>1 DEF OneGenerator
    <3>3. \A p \in Requests : req'[p].op \in {"check", "insert"} =>
            /\ req'[p].todo \subseteq Lines \/ Lines = {}
            /\ \A m \in Lines \ req'[p].todo : TasksOf(m)' # {}
      BY <1>3, <2>4, <2>5, <2>7, <2>10, <3>1, <3>2 DEF Generating, todo
    <3>4. PutAway => PutAway'
      <4>1. \A j \in Tasks : task'[j] = task[j]
        BY <2>8, <2>9 DEF Tasks
      <4>2. QED BY <2>9, <2>10, <4>1 DEF PutAway, TasksOf
    <3>5. QED
      BY <1>1, <2>2, <2>7, <2>9, <2>12, <3>1, <3>3, <3>4 DEF PlainCourse, At
  <2>15. QED BY <2>11, <2>13, <2>14 DEF IInv
<1>6. QED BY <1>4, <1>5 DEF InsertTask

LEMMA GeneratedIInv ==
  ASSUME IInv, NEW r \in Requests, Generated(r)
  PROVE  IInv'
BY RefuseIInv DEF Generated

\* The task is completed together with its receipt; which tasks there are does not change.
LEMMA CompleteIInv ==
  ASSUME IInv, NEW r \in Requests, Complete(r)
  PROVE  IInv'
<1> DEFINE k == req[r].task
           q == [op |-> "review"]
<1>1. CASE Refuse(r)
  BY <1>1, RefuseIInv DEF Complete, At, Generating
<1>2. CASE ~Refuse(r)
  <2>1. /\ At(r, "putaway") /\ k \in Tasks /\ Goto(r, q)
        /\ task' = [task EXCEPT ![k].status = "completed"]
        /\ posted' = [posted EXCEPT ![k] = @ + 1]
        /\ UNCHANGED <<status, line, excused>>
    BY <1>2 DEF Complete
  <2>2. q \in Request /\ q.op = "review"
    BY DEF Request
  <2> HIDE DEF k, q
  <2>3. /\ req' \in [Requests -> Request]
        /\ req'[r].op = "review"
        /\ \A p \in Requests \ {r} : req'[p] = req[p]
        /\ \A p \in Requests : req'[p].op = "insert" => req'[p].todo # {}
    BY <2>1, <2>2, Moved DEF IInv
  <2>4. /\ task' \in [TaskIds -> Task] /\ posted' \in [TaskIds -> Nat]
        /\ task'[k].line = task[k].line /\ task'[k].status = "completed" /\ posted'[k] > 0
        /\ \A j \in TaskIds \ {k} : task'[j] = task[j] /\ posted'[j] = posted[j]
    BY <2>1 DEF IInv, Typed, Task, Tasks
  <2>5. Lines' = Lines /\ Tasks' = Tasks
    BY <2>1, <2>4 DEF Lines, Tasks
  <2>6. \A l : TasksOf(l)' = TasksOf(l)
    BY <2>1, <2>4, <2>5 DEF TasksOf, Tasks
  <2>7. Typed' /\ Ledger'
    BY <2>1, <2>3, <2>4 DEF IInv, Typed, Ledger, At
  <2>8. \A p \in Requests : Generating(p)' <=> Generating(p)
    BY <2>1, <2>3 DEF Generating, At
  <2>9. "edit" \notin excused' => DraftIsFresh' /\ OneGenerator' /\ OneTaskPerLine'
    <3>1. \A j \in Tasks : task'[j].line = task[j].line
      BY <2>1, <2>4 DEF Tasks
    <3>2. "edit" \notin excused => status # "draft"
      BY <2>1 DEF IInv, DraftIsFresh, At
    <3>3. QED BY <2>1, <2>3, <2>5, <2>6, <2>8, <3>1, <3>2
              DEF IInv, DraftIsFresh, OneGenerator, OneTaskPerLine, At
  <2>10. excused' = {} => PlainCourse'
    <3>1. PutAway => PutAway'
      BY <2>1, <2>4, <2>5, <2>6 DEF PutAway, TasksOf, Tasks
    <3>2. QED BY <2>1, <2>3, <2>5, <2>6, <2>8, <3>1 DEF IInv, PlainCourse, At
  <2>11. QED BY <2>7, <2>9, <2>10 DEF IInv
<1>3. QED BY <1>1, <1>2

\* A review that finds all tasks completed, with none still to come, has seen a put
\* away GRN.
LEMMA ReviewIInv ==
  ASSUME IInv, NEW r \in Requests, Review(r)
  PROVE  IInv'
<1> DEFINE all_done == \A k \in Tasks : task[k].status = "completed"
           q == IF all_done THEN [op |-> "flip"] ELSE Idle
<1>1. /\ At(r, "review") /\ Goto(r, q) /\ UNCHANGED <<status, line, task, posted>>
      /\ Excuse("hasty", all_done /\ \E p \in Requests : Generating(p))
  BY DEF Review
<1>2. q \in Request /\ q.op = IF all_done THEN "flip" ELSE "idle"
  BY DEF Request, Idle
<1> HIDE DEF all_done, q
<1>3. /\ req' \in [Requests -> Request]
      /\ req'[r].op = IF all_done THEN "flip" ELSE "idle"
      /\ \A p \in Requests \ {r} : req'[p] = req[p]
      /\ \A p \in Requests : req'[p].op = "insert" => req'[p].todo # {}
  BY <1>1, <1>2, Moved DEF IInv
<1>4. Lines' = Lines /\ Tasks' = Tasks /\ (\A l : TasksOf(l)' = TasksOf(l)) /\ PutAway' = PutAway
  BY <1>1 DEF Lines, Tasks, TasksOf, PutAway
<1>5. Typed' /\ Ledger'
  BY <1>1, <1>3 DEF IInv, Typed, Ledger, At
<1>6. \A p \in Requests : Generating(p)' <=> Generating(p)
  BY <1>1, <1>3 DEF Generating, At
<1>7. excused \subseteq excused' /\ ("edit" \in excused' => "edit" \in excused)
  BY <1>1 DEF Excuse
<1>8. ASSUME "edit" \notin excused'
      PROVE  DraftIsFresh' /\ OneGenerator' /\ OneTaskPerLine'
  <2>1. DraftIsFresh /\ OneGenerator /\ OneTaskPerLine
    BY <1>7, <1>8 DEF IInv
  <2>2. status' # "draft"
    BY <1>1, <2>1 DEF DraftIsFresh, At
  <2>3. QED BY <1>1, <1>3, <1>4, <1>6, <1>7, <1>8, <2>1, <2>2
            DEF DraftIsFresh, OneGenerator, OneTaskPerLine, At
<1>9. ASSUME excused' = {}
      PROVE  PlainCourse'
  <2>1. excused = {} /\ PlainCourse
    BY <1>7, <1>9 DEF IInv
  <2>2. all_done => PutAway
    <3> SUFFICES ASSUME all_done PROVE PutAway
      OBVIOUS
    <3>1. \A p \in Requests : ~Generating(p)
      BY <1>1, <1>9 DEF Excuse
    <3>2. Tasks # {} \/ Lines = {}
      BY <1>1, <2>1 DEF PlainCourse
    <3>3. \A l \in Lines : TasksOf(l) # {}
      BY <2>1, <3>1, <3>2 DEF PlainCourse
    <3>4. QED BY <3>3 DEF PutAway, all_done, TasksOf
  <2>3. QED BY <1>1, <1>3, <1>4, <1>6, <2>1, <2>2 DEF PlainCourse, At
<1>10. QED BY <1>5, <1>8, <1>9 DEF IInv

LEMMA FlipIInv ==
  ASSUME IInv, NEW r \in Requests, Flip(r)
  PROVE  IInv'
<1>1. /\ At(r, "flip") /\ Goto(r, Idle) /\ UNCHANGED <<line, task, posted, excused>>
      /\ status' = IF status = "none" THEN "none" ELSE "completed"
  BY DEF Flip, Answer
<1>2. /\ req' \in [Requests -> Request]
      /\ req'[r].op = "idle"
      /\ \A p \in Requests \ {r} : req'[p] = req[p]
      /\ \A p \in Requests : req'[p].op = "insert" => req'[p].todo # {}
  BY <1>1, IdleIsRequest, Moved DEF IInv
<1>3. Lines' = Lines /\ Tasks' = Tasks /\ (\A l : TasksOf(l)' = TasksOf(l)) /\ PutAway' = PutAway
  BY <1>1 DEF Lines, Tasks, TasksOf, PutAway
<1>4. Typed' /\ Ledger'
  BY <1>1, <1>2 DEF IInv, Typed, Ledger, At
<1>5. \A p \in Requests : Generating(p)' <=> Generating(p)
  BY <1>1, <1>2 DEF Generating, At
<1>6. "edit" \notin excused' => DraftIsFresh' /\ OneGenerator' /\ OneTaskPerLine'
  BY <1>1, <1>2, <1>3, <1>5 DEF IInv, DraftIsFresh, OneGenerator, OneTaskPerLine, At
<1>7. ASSUME excused' = {}
      PROVE  PlainCourse'
  <2>1. PlainCourse /\ PutAway
    BY <1>1, <1>7 DEF IInv, PlainCourse
  <2>2. QED BY <1>1, <1>2, <1>3, <1>5, <2>1 DEF PlainCourse, At
<1>8. QED BY <1>4, <1>6, <1>7 DEF IInv

LEMMA StutterIInv == ASSUME IInv, UNCHANGED vars PROVE IInv'
<1>1. Lines' = Lines /\ Tasks' = Tasks /\ (\A l : TasksOf(l)' = TasksOf(l)) /\ PutAway' = PutAway
  BY DEF vars, Lines, Tasks, TasksOf, PutAway
<1>2. Typed' /\ Ledger'
  BY DEF vars, IInv, Typed, Ledger, At
<1>3. "edit" \notin excused' => DraftIsFresh' /\ OneGenerator' /\ OneTaskPerLine'
  BY <1>1 DEF vars, IInv, DraftIsFresh, OneGenerator, OneTaskPerLine, At, Generating
<1>4. excused' = {} => PlainCourse'
  BY <1>1 DEF vars, IInv, PlainCourse, At, Generating
<1>5. QED BY <1>2, <1>3, <1>4 DEF IInv

LEMMA Invariance == Spec => []IInv
<1>1. IInv /\ [Next]_vars => IInv'
  BY StutterIInv, CancelIInv, LoadIInv, AddLineIInv, RemoveLineIInv, EditIInv, DeleteIInv,
     ReceiveIInv, ListLinesIInv, CheckLineIInv, InsertTaskIInv, GeneratedIInv, CompleteIInv,
     ReviewIInv, FlipIInv DEF Next
<1>2. QED BY <1>1, InitIInv, PTL DEF Spec

\* Whatever the interleaving, a task is completed exactly when its receipt is posted.
THEOREM CompletionsArePosted == Spec => []CompletionIsPosted
<1>1. IInv => CompletionIsPosted
  <2>1. IInv => \A k \in TaskIds : posted[k] \in Nat
    BY DEF IInv, Typed
  <2>2. QED BY <2>1 DEF IInv, Ledger, CompletionIsPosted, Tasks
<1>2. QED BY <1>1, Invariance, PTL

\* However many requests receive the GRN, no line gets a second task unless a stale edit
\* makes it a draft again.
THEOREM LinesTaskedOnce == Spec => []OneTaskPerLine
<1>1. IInv => OneTaskPerLine
  BY DEF IInv, OneTaskPerLine
<1>2. QED BY <1>1, Invariance, PTL

\* A GRN that is completed and kept its plain course has all its lines put away: the
\* review outside the transaction cannot be outrun in any other way.
THEOREM CompletedPutAway == Spec => []CompletedIsPutAway
<1>1. IInv => CompletedIsPutAway
  BY DEF IInv, PlainCourse, PutAway, CompletedIsPutAway
<1>2. QED BY <1>1, Invariance, PTL
=============================================================================
