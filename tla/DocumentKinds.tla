---- MODULE DocumentKinds ----
(***************************************************************************)
(* What the views of this code base do to a document: the vocabulary in    *)
(* which the tables of the *Documents modules are written.  A view loads   *)
(* the row, tests the status it has loaded, and writes; the write is a     *)
(* conditional UPDATE (_atomic_status_transition), a save of named fields, *)
(* a save of the whole row, a write to child rows, or a DELETE.            *)
(*                                                                         *)
(*   check  the statuses in which the test on the loaded object passes     *)
(*   where  the statuses the WHERE clause of the write accepts             *)
(*   to     the statuses the write may store; {} keeps what was loaded     *)
(*   write  how the row is written                                         *)
(*   then   the writes the same request goes on to, one of them, in a      *)
(*          transaction of its own: how a long computation ends            *)
(***************************************************************************)

\* The view makes no test: every status will do.
Anywhere == {"*"}

Accepts(set, status) == set = Anywhere \/ status \in set

Writes == {"update", "fields", "row", "lines", "delete"}

Op(check, where, to, write) ==
  [check |-> check, where |-> where, to |-> to, write |-> write, then |-> {}]

\* _atomic_status_transition(model, pk, tenant, from, to).
Update(from, to) == Op(Anywhere, from, {to}, "update")

\* A test on the loaded object, then a conditional UPDATE.
CheckedUpdate(check, from, to) == Op(check, from, {to}, "update")

\* A conditional UPDATE whose WHERE clause names the status that was loaded.
FromLoaded(from, to) == {CheckedUpdate({s}, {s}, to) : s \in from}

\* A test on the loaded object, then save(update_fields=["status", ...]).
SaveFields(check, to) == Op(check, Anywhere, {to}, "fields")

\* A test on the loaded object, then save() of every column with a new status.
SaveRow(check, to) == Op(check, Anywhere, {to}, "row")

\* An edit form without a status field: save() of every column.
Edit(check) == Op(check, Anywhere, {}, "row")

\* An edit form that offers the status among its fields.
EditStatus(check, offered) == Op(check, Anywhere, offered, "row")

\* The views that add or delete child rows, under a test on the parent.
Lines(check) == Op(check, Anywhere, {}, "lines")

Delete(check) == Op(check, Anywhere, {}, "delete")

\* A computation: one committed write that says it is under way, and one of
\* the endings when it is done.
Run(begin, endings) == [begin EXCEPT !.then = endings]

\* A row with no status of its own: master data, child rows, log entries.
Filed(ops) ==
  [statuses |-> {"filed"}, initial |-> {"filed"}, ops |-> ops]

\* Created, edited and deleted by forms, without a test.
Catalogue == Filed({Edit(Anywhere), Delete(Anywhere)})

\* A catalogue entry with rows of its own below it.
Folder == Filed({Edit(Anywhere), Lines(Anywhere), Delete(Anywhere)})

\* Created and deleted, never edited.
Entry == Filed({Delete(Anywhere)})

\* Computed again from other rows: found by its key and locked, it has only
\* the computed columns saved (update_or_create).
Recomputed == Filed({SaveFields(Anywhere, "filed")})

\* A row whose form offers every status, at creation and at any edit.
Form(statuses, ops) ==
  [statuses |-> statuses, initial |-> statuses,
   ops |-> ops \cup {EditStatus(Anywhere, statuses), Delete(Anywhere)}]

\* The endings of the computations of a kind, and the statuses in between.
Endings(kind) == UNION {op.then : op \in kind.ops}

Underway(kind) == UNION {op.to : op \in {b \in kind.ops : b.then # {}}}

\* Every write a request can come to hold.
Steps(kind) == kind.ops \cup Endings(kind)

\* The writes that may give the document another status.
Moves(kind) == {op \in Steps(kind) : op.to # {}}

\* The statuses in which an operation passes both of its tests.
From(kind, op) ==
  {s \in kind.statuses : Accepts(op.check, s) /\ Accepts(op.where, s)}

\* The moves one request at a time can make.
Declared(kind) ==
  UNION {From(kind, op) \X op.to : op \in Moves(kind)}

====
