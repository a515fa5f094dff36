---- MODULE Documents ----
(***************************************************************************)
(* One document and the requests that work on it.  The application runs    *)
(* without ATOMIC_REQUESTS: a view loads the row in one statement, tests   *)
(* what it loaded, and writes in another, and anything may happen to the   *)
(* row in between.  The kind of the document, one of the records of the    *)
(* *Documents modules, says which writes a view may hold and what each of  *)
(* them tests; Django's QuerySet.update, save(update_fields), save and     *)
(* delete say what each of them does to the row.                           *)
(***************************************************************************)
EXTENDS DocumentKinds, FiniteSets

CONSTANTS
  Kinds,     \* the kinds of document
  Requests   \* the requests that may be under way at the same time

\* A kind starts in its own statuses and stores no others.  Only a conditional
\* UPDATE has a WHERE clause, and it asks for no status its view has not tested.
\* Only what begins a computation says it is under way, and what ends one
\* makes no test.
WellFormed(k) ==
  /\ k.initial \subseteq k.statuses \ Underway(k)
  /\ \A op \in Steps(k) :
       /\ op.write \in Writes
       /\ op.to \subseteq k.statuses
       /\ op.write \in {"update", "fields"} => op.to # {}
       /\ op.write \in {"lines", "delete"} => op.to = {} /\ op.then = {}
       /\ op.then = {} => op.to \cap Underway(k) = {}
       /\ op.write # "update" => op.where = Anywhere
       /\ op.where # Anywhere => \A s \in op.where : s \in k.statuses => Accepts(op.check, s)
  /\ \A op \in Endings(k) :
       op.check = Anywhere /\ op.where = Anywhere /\ op.to # {} /\ op.then = {}

ASSUME KindsAssumption == \A k \in Kinds : WellFormed(k)

\* The view that begins a computation does not ask whether one is under way.
Reentrant(k) ==
  \E op \in k.ops : op.then # {} /\ From(k, op) \cap Underway(k) # {}

\* Once a computation is under way, no view takes the document out of these
\* statuses but the one that ends it, and none begins another in them.
Sealed(k, some) ==
  /\ Underway(k) \subseteq some
  /\ k.ops \cap Endings(k) = {}
  /\ \A op \in k.ops :
       /\ op.then # {} => op.to # {}
       /\ From(k, op) \cap some # {} => op.then = {} /\ op.to \subseteq some

ASSUME ComputationsAssumption ==
  \A k \in Kinds : Reentrant(k) \/ \E some \in SUBSET k.statuses : Sealed(k, some)

VARIABLES
  kind,      \* the kind of this document
  doc,       \* its row: is it there, and its status
  held,      \* held[r]: the write request r is going to make, if any
  disturbed  \* a stale write without a condition landed, or a computation died

vars == <<kind, doc, held, disturbed>>

Row(k) == [exists : BOOLEAN, status : k.statuses]

\* stores: the statuses the write may leave; fresh: no one wrote since it loaded.
Holding(k) == [op : Steps(k), stores : SUBSET k.statuses, fresh : BOOLEAN]

Init ==
  /\ kind \in Kinds
  /\ doc \in {[exists |-> TRUE, status |-> s] : s \in kind.initial}
  /\ held = [r \in Requests |-> {}]
  /\ disturbed = FALSE

\* An edit without a status field writes back the status it has loaded.
Stores(op, status) == IF op.write = "row" /\ op.to = {} THEN {status} ELSE op.to

\* Mutant for OneComputation: no test of the status.
LoadUntested(r) ==
  /\ held[r] = {}
  /\ doc.exists
  /\ \E op \in kind.ops :
       held' = [held EXCEPT ![r] = {[op |-> op, stores |-> Stores(op, doc.status),
                                     fresh |-> TRUE]}]
  /\ UNCHANGED <<kind, doc, disturbed>>

\* A view loads the document and its test passes.
Load(r) ==
  /\ held[r] = {}
  /\ doc.exists
  /\ \E op \in kind.ops :
       /\ Accepts(op.check, doc.status)
       /\ held' = [held EXCEPT ![r] = {[op |-> op, stores |-> Stores(op, doc.status),
                                        fresh |-> TRUE]}]
  /\ UNCHANGED <<kind, doc, disturbed>>

\* Mutant for TypeOK: the request goes on to every ending.
GoesEverywhere(op) == {{[op |-> e, stores |-> e.to, fresh |-> TRUE] : e \in op.then}}

\* Mutant for UnderwayIsHeld: the request forgets the computation it has begun.
GoesNowhere(op) == {{}}

\* What a request holds after a write: one of the endings, or nothing.
Goes(op) ==
  IF op.then = {} THEN {{}}
  ELSE {{[op |-> e, stores |-> e.to, fresh |-> TRUE]} : e \in op.then}

Outdate(hs) == {[h EXCEPT !.fresh = FALSE] : h \in hs}

Stray(h) == ~h.fresh /\ h.op.where = Anywhere

\* The write of r has landed: what the others have loaded is out of date.
Land(r, h) ==
  /\ \E next \in Goes(h.op) :
       held' = [q \in Requests |-> IF q = r THEN next ELSE Outdate(held[q])]
  /\ disturbed' = (disturbed \/ Stray(h))
  /\ UNCHANGED kind

\* Mutant for StatusChangeJustified: the WHERE clause is left out.
UpdateUnconditional(r) ==
  \E h \in held[r] :
    /\ h.op.write = "update"
    /\ doc.exists
    /\ \E s \in h.stores : doc' = [doc EXCEPT !.status = s]
    /\ Land(r, h)

\* UPDATE ... WHERE status IN (where).
ConditionalUpdate(r) ==
  \E h \in held[r] :
    /\ h.op.write = "update"
    /\ doc.exists /\ Accepts(h.op.where, doc.status)
    /\ \E s \in h.stores : doc' = [doc EXCEPT !.status = s]
    /\ Land(r, h)

\* save(update_fields=["status", ...]): the row must be there.
FieldSave(r) ==
  \E h \in held[r] :
    /\ h.op.write = "fields"
    /\ doc.exists
    /\ \E s \in h.stores : doc' = [doc EXCEPT !.status = s]
    /\ Land(r, h)

\* save(): every column, in a row that is inserted again if it is gone; of the columns
\* only the status is followed.
RowSave(r) ==
  \E h \in held[r] :
    /\ h.op.write = "row"
    /\ \E s \in h.stores : doc' = [exists |-> TRUE, status |-> s]
    /\ Land(r, h)

\* A child row is added or removed; the document's own row stays as it is, but who has
\* loaded the document no longer knows it.
LinesWrite(r) ==
  \E h \in held[r] :
    /\ h.op.write = "lines"
    /\ doc.exists
    /\ UNCHANGED doc
    /\ Land(r, h)

RowDelete(r) ==
  \E h \in held[r] :
    /\ h.op.write = "delete"
    /\ doc.exists
    /\ doc' = [doc EXCEPT !.exists = FALSE]
    /\ Land(r, h)

\* The write finds nothing to write to, and the view reports it.
Misses(op) ==
  CASE op.write = "update" -> ~(doc.exists /\ Accepts(op.where, doc.status))
    [] op.write = "row" -> FALSE
    [] OTHER -> ~doc.exists

Miss(r) ==
  /\ \E h \in held[r] : Misses(h.op)
  /\ held' = [held EXCEPT ![r] = {}]
  /\ UNCHANGED <<kind, doc, disturbed>>

\* A request ends without its write: the form is invalid, a row it would
\* delete is referenced, or the process dies.  A computation dies with it.
Drop(r) ==
  /\ held[r] # {}
  /\ held' = [held EXCEPT ![r] = {}]
  /\ disturbed' = (disturbed \/ \E h \in held[r] : h.op \in Endings(kind))
  /\ UNCHANGED <<kind, doc>>

Next ==
  \E r \in Requests :
    \/ Load(r) \/ ConditionalUpdate(r) \/ FieldSave(r) \/ RowSave(r)
    \/ LinesWrite(r) \/ RowDelete(r) \/ Miss(r) \/ Drop(r)

Spec == Init /\ [][Next]_vars

----------------------------------------------------------------------------

\* A request holds at most one write, of the kind of the document.
TypeOK ==
  /\ kind \in Kinds
  /\ doc \in Row(kind)
  /\ held \in [Requests -> SUBSET Holding(kind)]
  /\ \A r \in Requests : \A g, h \in held[r] : g = h
  /\ disturbed \in BOOLEAN

\* A request whose snapshot is out of date makes its write in this step.
StaleWrite(modes) ==
  \E r \in Requests : \E h \in held[r] :
    /\ h.op.write \in modes
    /\ Stray(h)
    /\ h \notin held'[r]

\* The status of a document changes along the moves its views declare.  A test
\* on the loaded row is no lock, so a request that is out of date may move it
\* elsewhere, but only by a write without a condition: a conditional UPDATE
\* never leaves the declared moves, whatever its request had loaded.
StatusChangeJustified ==
  [][doc'.status # doc.status =>
       \/ <<doc.status, doc'.status>> \in Declared(kind)
       \/ StaleWrite({"update", "fields", "row"})]_vars

Computing(r) == \E h \in held[r] : h.op \in Endings(kind)

\* A document that says it is being computed is being computed, unless the
\* computation died or a stale write undid its status: no view repairs that.
UnderwayIsHeld ==
  doc.exists /\ doc.status \in Underway(kind) =>
    disturbed \/ \E r \in Requests : Computing(r)

\* Two requests compute one document at a time only after a stale write, or if
\* its view lets them.
OneComputation ==
  \A q, r \in Requests :
    q # r /\ Computing(q) /\ Computing(r) => disturbed \/ Reentrant(kind)

====
