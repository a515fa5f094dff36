---- MODULE Approvals ----
(***************************************************************************)
(* An approval request and the levels of its policy:                       *)
(* wfa/services/approval.py and the request views.  A view loads the       *)
(* request and asks whether it is open; the service then acts on the level *)
(* that was loaded.  Escalation and recall ask for the status again in     *)
(* their UPDATE, approval and rejection do not.  A request that stands for *)
(* a dms.DocumentApprovalRequest is also approved by wfa/signals.py, at    *)
(* whatever level it is, when the document's own request is.               *)
(***************************************************************************)
EXTENDS Integers

CONSTANTS
  Requests,  \* the decisions that may be under way at the same time
  MaxLevel   \* bound: the highest level_no of a policy

ASSUME ApprovalsAssumption == MaxLevel \in Nat \ {0}

VARIABLES
  approval,  \* [status, level] of the ApprovalRequest
  levels,    \* the level numbers of its policy
  log,       \* the decisions logged, each with its level
  deciding,  \* deciding[r]: the operation of r and the level it has loaded
  edited,    \* the levels of the policy were edited after the submission
  closed     \* the signal of its document request has approved it

vars == <<approval, levels, log, deciding, edited, closed>>

LevelNos == 1..MaxLevel

Open == {"in_progress", "escalated"}

Decided == {"approved", "rejected", "cancelled"}

Operations == {"approve", "reject", "escalate", "recall", "delegate"}

\* request_create_view and submit, in one transaction.
Init ==
  /\ approval = [status |-> "in_progress", level |-> 1]
  /\ levels \in SUBSET LevelNos
  /\ log = {}
  /\ deciding = [r \in Requests |-> {}]
  /\ edited = FALSE
  /\ closed = FALSE

\* level_create_view, level_edit_view and level_delete_view.
EditLevels ==
  /\ levels' \in SUBSET LevelNos
  /\ edited' = TRUE
  /\ UNCHANGED <<approval, log, deciding, closed>>

Load(r) ==
  /\ deciding[r] = {}
  /\ approval.status \in Open
  /\ \E op \in Operations :
       deciding' = [deciding EXCEPT ![r] = {[op |-> op, level |-> approval.level]}]
  /\ UNCHANGED <<approval, levels, log, edited, closed>>

\* Every decision is logged at the level that was loaded, and answers r.
Logged(r, d) ==
  /\ log' = log \cup {<<d.level, d.op>>}
  /\ deciding' = [deciding EXCEPT ![r] = {}]
  /\ UNCHANGED <<levels, edited, closed>>

Later(d) == {l \in levels : l > d.level}

\* Mutant for ApprovedThroughEveryLevel: the level advances from where it is.
ApproveFromCurrent(r) ==
  \E d \in deciding[r] :
    /\ d.op = "approve"
    /\ Logged(r, d)
    /\ IF {l \in levels : l > approval.level} = {}
       THEN approval' = [approval EXCEPT !.status = "approved"]
       ELSE \E next \in {l \in levels : l > approval.level} :
              /\ \A l \in {k \in levels : k > approval.level} : next <= l
              /\ approval' = [approval EXCEPT !.level = next]

\* approve: the next level after the one loaded, or the end; unconditional.
Approve(r) ==
  \E d \in deciding[r] :
    /\ d.op = "approve"
    /\ Logged(r, d)
    /\ \/ /\ Later(d) = {}
          /\ approval' = [approval EXCEPT !.status = "approved"]
       \/ \E next \in Later(d) :
            /\ \A l \in Later(d) : next <= l
            /\ approval' = [approval EXCEPT !.level = next]

\* reject: unconditional as well.
Reject(r) ==
  \E d \in deciding[r] :
    /\ d.op = "reject"
    /\ Logged(r, d)
    /\ approval' = [approval EXCEPT !.status = "rejected"]

\* delegate: only the log.
Delegate(r) ==
  \E d \in deciding[r] : d.op = "delegate" /\ Logged(r, d) /\ UNCHANGED approval

\* escalate: UPDATE ... WHERE status IN (pending, in_progress).
Escalate(r) ==
  \E d \in deciding[r] :
    /\ d.op = "escalate"
    /\ Logged(r, d)
    /\ approval' = IF approval.status = "in_progress"
                   THEN [approval EXCEPT !.status = "escalated"] ELSE approval

\* recall: UPDATE ... WHERE status IN (pending, in_progress, escalated).
Recall(r) ==
  \E d \in deciding[r] :
    /\ d.op = "recall"
    /\ Logged(r, d)
    /\ approval' = IF approval.status \in Open
                   THEN [approval EXCEPT !.status = "cancelled"] ELSE approval

\* The form is invalid, or the process dies: nothing is written.
GiveUp(r) ==
  /\ deciding[r] # {}
  /\ deciding' = [deciding EXCEPT ![r] = {}]
  /\ UNCHANGED <<approval, levels, log, edited, closed>>

\* _close_linked_dms_request: UPDATE ... WHERE status IN (pending, in_progress,
\* escalated), and no decision is logged.
CloseLinked ==
  /\ approval.status \in Open
  /\ approval' = [approval EXCEPT !.status = "approved"]
  /\ closed' = TRUE
  /\ UNCHANGED <<levels, log, deciding, edited>>

Next ==
  \/ EditLevels
  \/ CloseLinked
  \/ \E r \in Requests :
       \/ Load(r) \/ Approve(r) \/ Reject(r) \/ Delegate(r) \/ Escalate(r)
       \/ Recall(r) \/ GiveUp(r)

Spec == Init /\ [][Next]_vars

----------------------------------------------------------------------------

TypeOK ==
  /\ approval \in [status : Open \cup Decided, level : LevelNos]
  /\ levels \subseteq LevelNos
  /\ log \subseteq LevelNos \X Operations
  /\ deciding \in [Requests -> SUBSET [op : Operations, level : LevelNos]]
  /\ edited \in BOOLEAN
  /\ closed \in BOOLEAN

\* Approvals that race are both counted, and a late one sets the level back;
\* yet no level is skipped: a request is approved only when an approval is
\* logged at every level of a policy that nobody edited in between, or when it
\* was open and the document request it stands for was approved.
ApprovedThroughEveryLevel ==
  approval.status = "approved" /\ ~edited /\ ~closed =>
    \A l \in levels : <<l, "approve">> \in log

====
