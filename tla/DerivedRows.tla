---- MODULE DerivedRows ----
(***************************************************************************)
(* A source row, the rows a handler derives from it, and the requests that *)
(* save or delete the source.  Each request makes its reads and its writes *)
(* in statements of their own: it loads the source and saves it, then the  *)
(* handler looks for a derived row and inserts one; or the handler of the  *)
(* deletion looks for the derived rows, and undoing them and deleting the  *)
(* source commit together.                                                 *)
(***************************************************************************)
EXTENDS SignalHandlers, Integers

CONSTANTS
  Handlers,  \* from SignalHandlers
  Requests,  \* requests under way at the same time
  MaxRows    \* bound: no more derived rows than this are followed

\* A handler that does nothing against a second derived row undoes none either.
HandlersAssumption ==
  \A h \in Handlers : /\ h.ways \subseteq {"looks", "latch", "unique"}
                      /\ h.ways = {} => h.undo = "none"

VARIABLES
  handler,   \* the handler in question
  source,    \* the source row: absent, idle, due for a derived row, or gone
  marked,    \* the latch on the source row
  derived,   \* how many rows have been derived from it
  reversed,  \* how many of them a reversal nets out
  doing,     \* doing[r]: what request r is in the middle of
  crossed    \* two requests on the source have overlapped, or an undo failed

vars == <<handler, source, marked, derived, reversed, doing, crossed>>

Present == {"idle", "due"}

Save(stage, mark, before, to) ==
  [stage |-> stage, mark |-> mark, before |-> before, to |-> to]

Undo(found) == [stage |-> "undoing", found |-> found]

Init ==
  /\ handler \in Handlers
  /\ source = "absent"
  /\ marked = FALSE
  /\ derived = 0
  /\ reversed = 0
  /\ doing = [r \in Requests |-> {}]
  /\ crossed = FALSE

Idle(r) == doing[r] = {}

Overlaps(r) == crossed \/ \E q \in Requests \ {r} : ~Idle(q)

Create(r, to) ==
  /\ source = "absent"
  /\ Idle(r)
  /\ source' = to
  /\ doing' = [doing EXCEPT ![r] = {Save("saved", FALSE, "absent", to)}]
  /\ UNCHANGED <<handler, marked, derived, reversed, crossed>>

\* The object, its latch and the status that pre_save stashes.
Load(r, to) ==
  /\ source \in Present
  /\ Idle(r)
  /\ doing' = [doing EXCEPT ![r] = {Save("loaded", marked, source, to)}]
  /\ crossed' = Overlaps(r)
  /\ UNCHANGED <<handler, source, marked, derived, reversed>>

Stage(r, stage) == {v \in doing[r] : v.stage = stage}

Ends(r) == doing' = [doing EXCEPT ![r] = {}]

\* The source is saved, unless another request has deleted it.
Store(r) ==
  \E v \in Stage(r, "loaded") :
    IF source \in Present
    THEN /\ source' = v.to
         /\ doing' = [doing EXCEPT ![r] = {[v EXCEPT !.stage = "saved"]}]
         /\ UNCHANGED <<handler, marked, derived, reversed, crossed>>
    ELSE Ends(r) /\ UNCHANGED <<handler, source, marked, derived, reversed, crossed>>

Fires(v) ==
  /\ v.to = "due"
  /\ handler.fires = "created" => v.before = "absent"
  /\ handler.fires = "changed" => v.before # "due"
  /\ "latch" \in handler.ways => ~v.mark

\* Mutant for DerivedOnce: the handler does not look.
LookNot(r) ==
  \E v \in Stage(r, "saved") :
    /\ doing' = [doing EXCEPT ![r] =
         IF Fires(v) THEN {[v EXCEPT !.stage = "clear"]} ELSE {}]
    /\ UNCHANGED <<handler, source, marked, derived, reversed, crossed>>

\* The handler looks whether it has work to do.
Look(r) ==
  \E v \in Stage(r, "saved") :
    /\ doing' = [doing EXCEPT ![r] =
         IF Fires(v) /\ ("looks" \in handler.ways => derived = 0)
         THEN {[v EXCEPT !.stage = "clear"]} ELSE {}]
    /\ UNCHANGED <<handler, source, marked, derived, reversed, crossed>>

\* The keys of the database let the derived row in.
Insertable ==
  /\ handler.linked => source \in Present
  /\ "unique" \in handler.ways => derived = 0

\* The derived row and the latch, in one transaction.
Derive(r) ==
  /\ Stage(r, "clear") # {}
  /\ Insertable
  /\ derived < MaxRows
  /\ derived' = derived + 1
  /\ marked' = (marked \/ "latch" \in handler.ways)
  /\ Ends(r)
  /\ UNCHANGED <<handler, source, reversed, crossed>>

\* A key refuses the derived row, or something it needs is not configured.
DeriveNot(r) ==
  /\ Stage(r, "clear") # {}
  /\ Ends(r)
  /\ UNCHANGED <<handler, source, marked, derived, reversed, crossed>>

\* Mutant for UndoneWithSource: the handler of the deletion finds nothing.
BeginNothing(r) ==
  /\ source \in Present
  /\ Idle(r)
  /\ doing' = [doing EXCEPT ![r] = {Undo(0)}]
  /\ crossed' = Overlaps(r)
  /\ UNCHANGED <<handler, source, marked, derived, reversed>>

\* What there is to undo.
Found ==
  CASE handler.undo = "none" -> 0
    [] handler.undo = "reverse" -> IF derived > reversed THEN 1 ELSE 0
    [] OTHER -> derived

\* A request begins to delete the source.
BeginDelete(r) ==
  /\ source \in Present
  /\ Idle(r)
  /\ doing' = [doing EXCEPT ![r] = {Undo(Found)}]
  /\ crossed' = Overlaps(r)
  /\ UNCHANGED <<handler, source, marked, derived, reversed>>

DeletesSource(r) ==
  /\ source' = IF source \in Present THEN "gone" ELSE source
  /\ Ends(r)
  /\ UNCHANGED <<handler, marked>>

\* The derived rows are undone and the source deleted, in one transaction.
Delete(r) ==
  \E v \in Stage(r, "undoing") :
    /\ IF handler.undo = "delete"
       THEN derived' = 0 /\ UNCHANGED reversed
       ELSE reversed' = reversed + v.found /\ UNCHANGED derived
    /\ DeletesSource(r)
    /\ UNCHANGED crossed

\* The undo fails, the handler swallows it and the source goes all the same.
DeleteAlone(r) ==
  \E v \in Stage(r, "undoing") :
    /\ v.found > 0
    /\ DeletesSource(r)
    /\ crossed' = TRUE
    /\ UNCHANGED <<derived, reversed>>

\* A request dies; what it has committed stays.
Die(r) ==
  /\ ~Idle(r)
  /\ Ends(r)
  /\ UNCHANGED <<handler, source, marked, derived, reversed, crossed>>

Next ==
  \E r \in Requests :
    \/ \E to \in Present : Create(r, to) \/ Load(r, to)
    \/ Store(r) \/ Look(r) \/ Derive(r) \/ DeriveNot(r)
    \/ BeginDelete(r) \/ Delete(r) \/ DeleteAlone(r) \/ Die(r)

Spec == Init /\ [][Next]_vars

----------------------------------------------------------------------------

\* A source has one derived row at most: for good where the database has a
\* key for it, and elsewhere as long as no two requests on it overlap.  It says
\* nothing of the handlers that neither look, nor mark the source, nor have a
\* key: they derive a row at every save that fires them.
DerivedOnce ==
  derived > 1 =>
    /\ "unique" \notin handler.ways
    /\ crossed \/ handler.ways = {}

\* When a source is gone whose handler undoes what it derived, the derived
\* rows are gone too or netted out, unless requests overlapped or an undo failed.
UndoneWithSource ==
  source = "gone" /\ handler.undo # "none" /\ ~crossed =>
    IF handler.undo = "delete" THEN derived = 0 ELSE derived = reversed

====
