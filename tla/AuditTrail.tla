---- MODULE AuditTrail ----
(***************************************************************************)
(* The audit trail of one row.  Model.save() calls the handlers before and *)
(* after its UPDATE, three steps with other requests in between; a handler *)
(* compares the new status with the one it remembers and writes an entry   *)
(* if they differ.  QuerySet.update(), which every                         *)
(* _atomic_status_transition uses, calls no handler at all.                *)
(***************************************************************************)
EXTENDS SignalHandlers

CONSTANTS
  Trails,     \* kinds of trail, from SignalHandlers
  Requests,   \* requests that save or update the row
  Processes   \* worker processes that serve them

\* None and Gone are no statuses; a model that leaves out the creation is not
\* loud when it is created.
TrailsAssumption ==
  \A t \in Trails :
    /\ t.memory \in Memories
    /\ t.initial \subseteq t.statuses /\ t.loud \subseteq t.statuses
    /\ t.statuses \cap {"none", "gone"} = {}
    /\ t.creation \/ t.initial \cap t.loud = {}

VARIABLES
  trail,       \* the kind of trail the row has
  status,      \* its status, or None before it is created, or Gone
  told,        \* the status the row took with the latest entry about it
  saving,      \* saving[r]: the save request r is in, if any
  remembered,  \* remembered[p]: what the dictionary of process p says
  missed       \* a change escaped the handlers since the latest entry

vars == <<trail, status, told, saving, remembered, missed>>

None == "none"
Gone == "gone"

Known(t) == t.statuses \cup {None, Gone}

\* sees: nothing has come between the row and the handler of this save.
Save(t) ==
  [to : t.statuses, before : Known(t), at : Processes,
   phase : {"before", "after"}, created : BOOLEAN, sees : BOOLEAN]

Init ==
  /\ trail \in Trails
  /\ status = None
  /\ told = None
  /\ saving = [r \in Requests |-> {}]
  /\ remembered = [p \in Processes |-> None]
  /\ missed = FALSE

Saving == {r \in Requests : saving[r] # {}}

\* The saves under way in these processes miss what happens.
Blinded(places) ==
  [r \in Requests |-> {[v EXCEPT !.sees = @ /\ v.at \notin places] : v \in saving[r]}]

\* The row is inserted.
Insert(r, p, s) ==
  /\ status = None
  /\ s \in trail.initial
  /\ saving[r] = {}
  /\ status' = s
  /\ saving' = [saving EXCEPT ![r] =
       {[to |-> s, before |-> None, at |-> p, phase |-> "after",
         created |-> TRUE, sees |-> TRUE]}]
  /\ UNCHANGED <<trail, told, remembered, missed>>

\* pre_save: the status of the row is read and kept.
Remember(r, p, s) ==
  LET clear == /\ \A q \in Saving : \A v \in saving[q] : ~(trail.memory = "process" /\ v.at = p)
               /\ trail.memory = "cache" => remembered[p] \in {None, status}
  IN  /\ status \notin {None, Gone}
      /\ saving[r] = {}
      /\ saving' = [Blinded(IF trail.memory = "process" THEN {p} ELSE {}) EXCEPT ![r] =
           {[to |-> s, before |-> status, at |-> p, phase |-> "before",
             created |-> FALSE, sees |-> clear]}]
      /\ remembered' = IF trail.memory = "process"
                       THEN [remembered EXCEPT ![p] = status] ELSE remembered
      /\ UNCHANGED <<trail, status, told, missed>>

\* The UPDATE, or the INSERT that save() falls back to when the row is gone.
Store(r) ==
  /\ \E v \in saving[r] :
       /\ v.phase = "before"
       /\ status' = v.to
       /\ saving' = [Blinded(Processes) EXCEPT ![r] =
            {[v EXCEPT !.phase = "after", !.created = (status = Gone)]}]
  /\ UNCHANGED <<trail, told, remembered, missed>>

\* Mutant for TrailFollowsStatus: the status before the save is read too late.
DiffersTooLate(v) == status # v.to

\* The handler finds that the status is another than the one it remembers.
Differs(v) ==
  CASE trail.memory = "instance" -> v.before # v.to
    [] trail.memory = "process" -> remembered[v.at] \notin {None, v.to}
    [] trail.memory = "cache" -> remembered[v.at] # v.to
    [] trail.memory = "nowhere" -> TRUE

Tells(v) == IF v.created THEN trail.creation ELSE v.to \in trail.loud /\ Differs(v)

\* post_save: the handler compares, and writes an entry.  What a save that
\* missed something leaves in the cache misleads those that read it there.
Record(r) ==
  /\ \E v \in saving[r] :
       /\ v.phase = "after"
       /\ told' = IF trail.written /\ Tells(v) THEN v.to ELSE told
       /\ missed' = (~v.sees \/ (missed /\ ~Tells(v)))
       /\ remembered' = CASE trail.memory = "process" -> [remembered EXCEPT ![v.at] = None]
                          [] trail.memory = "cache" -> [remembered EXCEPT ![v.at] = v.to]
                          [] OTHER -> remembered
       /\ saving' = [Blinded(IF trail.memory = "cache" /\ ~v.sees THEN {v.at} ELSE {})
                       EXCEPT ![r] = {}]
  /\ UNCHANGED <<trail, status>>

\* QuerySet.update().
Update(s) ==
  /\ status \notin {None, Gone, s}
  /\ status' = s
  /\ saving' = Blinded(Processes)
  /\ missed' = TRUE
  /\ UNCHANGED <<trail, told, remembered>>

\* delete(), and its handler where there is one.
Delete ==
  /\ status \notin {None, Gone}
  /\ status' = Gone
  /\ saving' = Blinded(Processes)
  /\ told' = IF trail.deletion /\ trail.written THEN Gone ELSE told
  /\ missed' = (missed /\ ~trail.deletion)
  /\ UNCHANGED <<trail, remembered>>

\* A request dies on the way, with its entry if it has stored the status.
Die(r) ==
  /\ saving[r] # {}
  /\ missed' = (missed \/ \E v \in saving[r] : v.phase = "after")
  /\ saving' = [saving EXCEPT ![r] = {}]
  /\ UNCHANGED <<trail, status, told, remembered>>

Next ==
  \/ \E r \in Requests :
       \/ \E p \in Processes, s \in trail.statuses : Insert(r, p, s) \/ Remember(r, p, s)
       \/ Store(r) \/ Record(r) \/ Die(r)
  \/ \E s \in trail.statuses : Update(s)
  \/ Delete

Spec == Init /\ [][Next]_vars

----------------------------------------------------------------------------

\* The statuses a trail owes an entry for.
Owed == trail.loud \cup (IF trail.deletion THEN {Gone} ELSE {})

\* When no save is under way, the latest entry about the row tells the status
\* it has, if the trail owes an entry for that status and can write one:
\* unless a QuerySet.update() changed it, saves overlapped, a dictionary was
\* out of date or a request died, since the latest entry.
TrailFollowsStatus ==
  trail.written /\ Saving = {} /\ ~missed /\ status \in Owed => told = status

====
