---- MODULE LegalHold ----
(***************************************************************************)
(* Legal holds and the is_locked flag of the documents they cover:         *)
(* dms/services/legal_hold.py, the signals of dms/signals.py, the hold     *)
(* views and the document form.  The release and the edit of a hold look   *)
(* for another active hold and clear the flag in two statements of one     *)
(* transaction, so a hold may become active in between.                    *)
(***************************************************************************)
EXTENDS FiniteSets

CONSTANTS
  Holds,      \* the legal holds
  Documents,  \* the documents
  Requests    \* the requests that may be under way at the same time

VARIABLES
  holds,   \* [status, docs] of each hold; "none" is no row
  locked,  \* the documents with is_locked
  busy     \* busy[r]: the operation of r, its hold or document, what it has seen

vars == <<holds, locked, busy>>

Statuses == {"none", "active", "released"}

Init ==
  /\ holds = [h \in Holds |-> [status |-> "none", docs |-> {}]]
  /\ locked = {}
  /\ busy = [r \in Requests |-> {}]

\* The documents under an active hold other than h.
CoveredBut(h) == UNION {holds[g].docs : g \in {k \in Holds \ {h} : holds[k].status = "active"}}

\* legal_hold_create_view: the hold, its documents and their flag.
Create(h) ==
  /\ holds[h].status = "none"
  /\ \E docs \in SUBSET Documents :
       /\ holds' = [holds EXCEPT ![h] = [status |-> "active", docs |-> docs]]
       /\ locked' = locked \cup docs
  /\ UNCHANGED busy

\* A request loads a hold to edit, release or delete it.
LoadHold(r) ==
  /\ busy[r] = {}
  /\ \E h \in Holds, op \in {"edit", "release", "delete"} :
       /\ holds[h].status = (IF op = "delete" THEN "released" ELSE "active")
       /\ busy' = [busy EXCEPT ![r] = {[op |-> op, on |-> h, docs |-> {}, leave |-> {}, seen |-> {}]}]
  /\ UNCHANGED <<holds, locked>>

\* document_edit_view: a document that is not locked.
LoadDocument(r) ==
  /\ busy[r] = {}
  /\ \E d \in Documents \ locked :
       busy' = [busy EXCEPT ![r] = {[op |-> "form", on |-> d, docs |-> {}, leave |-> {}, seen |-> {}]}]
  /\ UNCHANGED <<holds, locked>>

\* DocumentForm.save(): every column, is_locked as it was loaded.
SaveDocument(r) ==
  \E b \in busy[r] :
    /\ b.op = "form"
    /\ locked' = locked \ {b.on}
    /\ busy' = [busy EXCEPT ![r] = {}]
    /\ UNCHANGED holds

\* Of the documents that leave hold h, those that another active hold covers.
Looked(h, leave) == leave \cap CoveredBut(h)

\* LegalHoldForm.save(): the documents that were chosen, and what the m2m signal
\* sees of the holds that cover those removed.
EditLook(r) ==
  \E b \in busy[r], docs \in SUBSET Documents :
    LET leave == holds[b.on].docs \ docs
    IN  /\ b.op = "edit"
        /\ busy' = [busy EXCEPT ![r] =
             {[op |-> "save", on |-> b.on, docs |-> docs,
               leave |-> leave, seen |-> Looked(b.on, leave)]}]
        /\ UNCHANGED <<holds, locked>>

\* The row with the status that was loaded, its documents and, by the signal
\* and apply_hold, their flag; the transaction commits.
EditSave(r) ==
  \E b \in busy[r] :
    /\ b.op = "save"
    /\ holds' = [holds EXCEPT ![b.on] = [status |-> "active", docs |-> b.docs]]
    /\ locked' = (locked \ b.leave) \cup b.seen \cup b.docs
    /\ busy' = [busy EXCEPT ![r] = {}]

\* Mutant for LockedWhileHeld: release_hold does not use what it has seen.
ReleaseUnlockAll(r) ==
  \E b \in busy[r] :
    /\ b.op = "unlock"
    /\ holds' = [holds EXCEPT ![b.on].status = "released"]
    /\ locked' = locked \ b.leave
    /\ busy' = [busy EXCEPT ![r] = {}]

\* legal_hold_release_view: the transaction has begun and release_hold has
\* looked for other active holds; nothing of it is visible yet.
ReleaseLook(r) ==
  \E b \in busy[r] :
    LET leave == holds[b.on].docs
    IN  /\ b.op = "release"
        /\ busy' = [busy EXCEPT ![r] =
             {[b EXCEPT !.op = "unlock", !.leave = leave, !.seen = Looked(b.on, leave)]}]
        /\ UNCHANGED <<holds, locked>>

\* release_hold clears the flag, and the transaction commits.
ReleaseUnlock(r) ==
  \E b \in busy[r] :
    /\ b.op = "unlock"
    /\ holds' = [holds EXCEPT ![b.on].status = "released"]
    /\ locked' = locked \ (b.leave \ b.seen)
    /\ busy' = [busy EXCEPT ![r] = {}]

DeleteHold(r) ==
  \E b \in busy[r] :
    /\ b.op = "delete"
    /\ holds' = [holds EXCEPT ![b.on] = [status |-> "none", docs |-> {}]]
    /\ busy' = [busy EXCEPT ![r] = {}]
    /\ UNCHANGED locked

\* The form is invalid, or the process dies: nothing is written.
GiveUp(r) ==
  /\ busy[r] # {}
  /\ busy' = [busy EXCEPT ![r] = {}]
  /\ UNCHANGED <<holds, locked>>

Next ==
  \/ \E h \in Holds : Create(h)
  \/ \E r \in Requests :
       \/ LoadHold(r) \/ LoadDocument(r) \/ SaveDocument(r) \/ EditLook(r)
       \/ EditSave(r) \/ ReleaseLook(r) \/ ReleaseUnlock(r) \/ DeleteHold(r) \/ GiveUp(r)

Spec == Init /\ [][Next]_vars

----------------------------------------------------------------------------

Covered == UNION {holds[h].docs : h \in {k \in Holds : holds[k].status = "active"}}

\* While a hold is active every document linked to it is locked, says the
\* model class.  A document loses its lock under an active hold only to a form
\* that had loaded it unlocked, or to the release or the edit of another hold
\* that had looked for other holds before that one was there.
LockedWhileHeld ==
  [][~(Covered' \ locked' \subseteq Covered \ locked) =>
       \E r \in Requests : \E b \in busy[r] :
         /\ busy'[r] = {}
         /\ \/ b.op = "form" /\ b.on \in locked
            \/ b.op \in {"unlock", "save"} /\ ~(Looked(b.on, b.leave) \subseteq b.seen)]_vars

====
