------------------------------ MODULE Transfers ------------------------------
(***************************************************************************)
(* Inter-warehouse transfers: the transfer views of                        *)
(* src/apps/inventory/views.py and the rows they write.                    *)
(*                                                                         *)
(* A request that edits or moves a transfer first loads it and checks its  *)
(* status, outside any transaction, and only then writes.  The two halves  *)
(* are separate steps here, so that any other request may come between     *)
(* them.  Shipping and receiving check the status again by a conditional   *)
(* UPDATE inside their transaction; editing and deleting do not.           *)
(*                                                                         *)
(* Shipping and receiving are one step each, for the conditional UPDATE    *)
(* keeps the transfer row locked up to the commit.  The balances are no    *)
(* part of this module, since nothing keeps them in step with the ledger:  *)
(* two transfers of one bin may lose an update as StockSessions shows.     *)
(* What is left of them is that post_movement may refuse.                  *)
(***************************************************************************)
EXTENDS StockPosting

CONSTANTS
    Transfers,    \* StockTransfer primary keys
    LineIds,      \* StockTransferLine primary keys
    NoLine,       \* the line of a request that names none
    Requests,     \* the requests in flight at a time
    Forms         \* what a valid StockTransferLineForm may contain

ASSUME TransfersAssumption ==
    /\ NoLine \notin LineIds
    /\ Forms \subseteq [qty : Nat \ {0}, source : Bins, dest : Bins \cup {NoBin}]

VARIABLES
    status,       \* the status of each transfer, "none" without a row
    lines,        \* the line rows
    used,         \* the line keys given out so far
    journal,      \* the movements posted, each with its line and its kind
    late,         \* the lines added or removed once their transfer had left draft
    again,        \* the lines moved a second time in the same direction
    req           \* what each request has loaded and checked

vars == <<status, lines, used, journal, late, again, req>>

Statuses == {"none", "draft", "in_transit", "received", "cancelled"}
Line == [id : LineIds, transfer : Transfers, qty : Nat \ {0},
         source : Bins, dest : Bins \cup {NoBin}]
Request == [op : {"add", "remove", "ship", "receive", "delete"},
            transfer : Transfers, line : LineIds \cup {NoLine}]
Idle == [op |-> "idle"]
Entry == [line : LineIds, transfer : Transfers, kind : {"issue", "receipt"},
          bin : Bins, qty : Nat \ {0}]

-----------------------------------------------------------------------------
LinesOf(t) == {l \in lines : l.transfer = t}

Issues(t) ==
    { [line |-> l.id, transfer |-> t, kind |-> "issue", bin |-> l.source, qty |-> l.qty]
        : l \in LinesOf(t) }

Receipts(t) ==
    { [line |-> l.id, transfer |-> t, kind |-> "receipt", bin |-> l.dest, qty |-> l.qty]
        : l \in LinesOf(t) }

\* post_movement for each of the goods; those the ledger has already move again.
Post(goods) ==
    /\ journal' = journal \cup goods
    /\ again' = again \cup {e.line : e \in goods \cap journal}

Answer(r) == req' = [req EXCEPT ![r] = Idle]

\* The request answers with an error and leaves the database alone.
Refuse(r) == Answer(r) /\ UNCHANGED <<status, lines, used, journal, late, again>>

-----------------------------------------------------------------------------
Init ==
    /\ status = [t \in Transfers |-> "none"]
    /\ lines = {} /\ used = {}
    /\ journal = {} /\ late = {} /\ again = {}
    /\ req = [r \in Requests |-> Idle]

\* TransferCreateView
Create(t) ==
    /\ status[t] = "none"
    /\ \A l \in lines : l.transfer # t
    /\ \A e \in journal : e.transfer # t
    /\ status' = [status EXCEPT ![t] = "draft"]
    /\ UNCHANGED <<lines, used, journal, late, again, req>>

\* get_object_or_404 and the status check at the head of each view.
Loaded(r, op, t, id) ==
    /\ req[r] = Idle
    /\ req' = [req EXCEPT ![r] = [op |-> op, transfer |-> t, line |-> id]]
    /\ UNCHANGED <<status, lines, used, journal, late, again>>

LoadForAdd(r, t) == status[t] = "draft" /\ Loaded(r, "add", t, NoLine)

LoadForRemove(r, l) ==
    /\ l \in lines
    /\ status[l.transfer] = "draft"
    /\ Loaded(r, "remove", l.transfer, l.id)

LoadForShip(r, t) ==
    status[t] = "draft" /\ LinesOf(t) # {} /\ Loaded(r, "ship", t, NoLine)

LoadForReceive(r, t) == status[t] = "in_transit" /\ Loaded(r, "receive", t, NoLine)

LoadForDelete(r, t) ==
    status[t] \in {"draft", "cancelled"} /\ Loaded(r, "delete", t, NoLine)

Load(r) ==
    \/ \E t \in Transfers : \/ LoadForAdd(r, t) \/ LoadForShip(r, t)
                            \/ LoadForReceive(r, t) \/ LoadForDelete(r, t)
    \/ \E l \in lines : LoadForRemove(r, l)

\* TransferLineCreateView, after its check; the foreign key needs the transfer row.
AddLine(r) ==
    LET t == req[r].transfer IN
    /\ req[r].op = "add"
    /\ \/ /\ status[t] # "none"
          /\ \E id \in LineIds \ used, f \in Forms :
               /\ lines' = lines \cup {[id |-> id, transfer |-> t, qty |-> f.qty,
                                        source |-> f.source, dest |-> f.dest]}
               /\ used' = used \cup {id}
               /\ late' = IF status[t] = "draft" THEN late ELSE late \cup {id}
          /\ Answer(r)
          /\ UNCHANGED <<status, journal, again>>
       \/ status[t] = "none" /\ Refuse(r)

\* TransferLineDeleteView, after its check.
RemoveLine(r) ==
    LET gone == {l \in lines : l.id = req[r].line} IN
    /\ req[r].op = "remove"
    /\ lines' = lines \ gone
    /\ late' = late \cup {l.id : l \in {k \in gone : status[k.transfer] # "draft"}}
    /\ Answer(r)
    /\ UNCHANGED <<status, used, journal, again>>

\* Mutant of Ship: the conditional UPDATE is an unconditional one.
ShipUnconditional(r) ==
    LET t == req[r].transfer IN
    /\ req[r].op = "ship" /\ status[t] # "none"
    /\ status' = [status EXCEPT ![t] = "in_transit"]
    /\ Post(Issues(t))
    /\ Answer(r)
    /\ UNCHANGED <<lines, used, late>>

(***************************************************************************)
(* The transaction of TransferShipView: the conditional UPDATE of the      *)
(* status, then one issue per line that the transfer has by now, all or    *)
(* none.  It answers with an error when the UPDATE finds no draft or when  *)
(* post_movement raises, for want of stock or for a second StockItem row;  *)
(* the balances are not modelled, so it may always raise.                  *)
(***************************************************************************)
Ship(r) ==
    LET t == req[r].transfer IN
    /\ req[r].op = "ship"
    /\ \/ /\ status[t] = "draft"
          /\ status' = [status EXCEPT ![t] = "in_transit"]
          /\ Post(Issues(t))
          /\ Answer(r)
          /\ UNCHANGED <<lines, used, late>>
       \/ Refuse(r)

\* Mutant of Receive: a line without a destination is skipped, not refused.
ReceiveSkipping(r) ==
    LET t == req[r].transfer IN
    /\ req[r].op = "receive" /\ status[t] = "in_transit"
    /\ status' = [status EXCEPT ![t] = "received"]
    /\ Post({e \in Receipts(t) : e.bin # NoBin})
    /\ Answer(r)
    /\ UNCHANGED <<lines, used, late>>

(***************************************************************************)
(* The transaction of TransferReceiveView.  A line without a destination   *)
(* raises ValueError and undoes everything, and so does post_movement.     *)
(***************************************************************************)
Receive(r) ==
    LET t == req[r].transfer IN
    /\ req[r].op = "receive"
    /\ \/ /\ status[t] = "in_transit"
          /\ \A l \in LinesOf(t) : l.dest # NoBin
          /\ status' = [status EXCEPT ![t] = "received"]
          /\ Post(Receipts(t))
          /\ Answer(r)
          /\ UNCHANGED <<lines, used, late>>
       \/ Refuse(r)

\* Mutant of Cancel: a transfer in transit may be cancelled too.
CancelShipped(t) ==
    /\ status[t] \in {"draft", "in_transit"}
    /\ status' = [status EXCEPT ![t] = "cancelled"]
    /\ UNCHANGED <<lines, used, journal, late, again, req>>

\* TransferCancelView: a single conditional UPDATE.
Cancel(t) ==
    /\ status[t] = "draft"
    /\ status' = [status EXCEPT ![t] = "cancelled"]
    /\ UNCHANGED <<lines, used, journal, late, again, req>>

\* TransferDeleteView, after its check: the lines go with the transfer.
Delete(r) ==
    LET t == req[r].transfer IN
    /\ req[r].op = "delete"
    /\ status' = [status EXCEPT ![t] = "none"]
    /\ lines' = lines \ LinesOf(t)
    /\ Answer(r)
    /\ UNCHANGED <<used, journal, late, again>>

Next ==
    \/ \E t \in Transfers : Create(t) \/ Cancel(t)
    \/ \E r \in Requests :
         Load(r) \/ AddLine(r) \/ RemoveLine(r) \/ Ship(r) \/ Receive(r) \/ Delete(r)

Spec == Init /\ [][Next]_vars

-----------------------------------------------------------------------------
\* The goods of a line leave once and arrive once, however many requests to ship or to
\* receive the transfer passed their check while another one was still to commit, and
\* whatever became of the transfer in the meantime.
NoLineMovesTwice == again = {}

\* A transfer that is still a draft, or was cancelled, has moved nothing.
NothingMovedUnshipped ==
    \A e \in journal : status[e.transfer] \notin {"draft", "cancelled"}

Moved(l, kind) ==
    \E e \in journal : /\ e.line = l.id /\ e.kind = kind /\ e.qty = l.qty
                       /\ e.bin = (IF kind = "issue" THEN l.source ELSE l.dest)

\* A line of a shipped transfer that was not edited late has left its source, and has
\* reached its destination exactly when the transfer is received.
MatchedUnlessLate ==
    \A l \in lines : l.id \notin late =>
        /\ status[l.transfer] \in {"in_transit", "received"} => Moved(l, "issue")
        /\ status[l.transfer] = "received" <=> Moved(l, "receipt")

\* README.md, line 1996: shipping posts an issue per line and receiving posts "a
\* matching receipt at the destination".
ReceiptsMatchIssues ==
    \A e \in journal : e.kind = "receipt" =>
        \E i \in journal : i.kind = "issue" /\ i.line = e.line /\ i.qty = e.qty
=============================================================================
