---- MODULE BlanketRelease ----
(***************************************************************************)
(* The releases of a blanket order and the quantity of one blanket line    *)
(* they consume: procurement/services/blanket.py and the release views.    *)
(* A release takes its quantity by a conditional UPDATE in the transaction *)
(* that moves its status; a cancellation gives it back if the status it    *)
(* had loaded was released.                                                *)
(***************************************************************************)
EXTENDS Integers, Sums

CONSTANTS
  Releases,  \* the releases of the blanket order
  Requests,  \* the requests that may be under way at the same time
  Committed  \* total_quantity of the blanket line

\* What the constants have to be.
BlanketAssumption == IsFiniteSet(Releases) /\ Committed \in Nat

VARIABLES
  releases,  \* [status, qty] of each release
  consumed,  \* consumed_quantity of the blanket line
  working    \* working[r]: the operation of r, its release, the status loaded

vars == <<releases, consumed, working>>

Init ==
  /\ releases = [x \in Releases |-> [status |-> "draft", qty |-> 0]]
  /\ consumed = 0
  /\ working = [r \in Requests |-> {}]

\* The views that test the release they have loaded, or decide by it later.
Load(r) ==
  /\ working[r] = {}
  /\ \E op \in {"lines", "cancel"}, x \in Releases :
       /\ op = "lines" => releases[x].status = "draft"
       /\ working' = [working EXCEPT ![r] =
            {[op |-> op, id |-> x, status |-> releases[x].status]}]
  /\ UNCHANGED <<releases, consumed>>

\* A line is added or deleted.  Bound: a release asks for Committed at most.
WriteLines(r) ==
  \E w \in working[r] :
    /\ w.op = "lines"
    /\ \E q \in 0..Committed : releases' = [releases EXCEPT ![w.id].qty = q]
    /\ working' = [working EXCEPT ![r] = {}]
    /\ UNCHANGED consumed

\* ReleaseReleaseView: status and consumption in one transaction, which a line
\* beyond the commitment rolls back.
Release(x) ==
  /\ releases[x].status = "draft"
  /\ releases[x].qty > 0
  /\ consumed + releases[x].qty <= Committed
  /\ releases' = [releases EXCEPT ![x].status = "released"]
  /\ consumed' = consumed + releases[x].qty
  /\ UNCHANGED working

\* ReleaseReceiveView: a conditional UPDATE without a load.
Receive(x) ==
  /\ releases[x].status = "released"
  /\ releases' = [releases EXCEPT ![x].status = "received"]
  /\ UNCHANGED <<consumed, working>>

\* Mutant for ConsumptionFollowsReleases: nothing is given back.
CancelKeeps(r) ==
  \E w \in working[r] :
    /\ w.op = "cancel"
    /\ releases[w.id].status \in {"draft", "released"}
    /\ releases' = [releases EXCEPT ![w.id].status = "cancelled"]
    /\ working' = [working EXCEPT ![r] = {}]
    /\ UNCHANGED consumed

\* ReleaseCancelView: UPDATE ... WHERE draft or released, then reverse_release
\* if the status that was loaded is released.
Cancel(r) ==
  \E w \in working[r] :
    /\ w.op = "cancel"
    /\ releases[w.id].status \in {"draft", "released"}
    /\ releases' = [releases EXCEPT ![w.id].status = "cancelled"]
    /\ consumed' = IF w.status = "released" THEN consumed - releases[w.id].qty ELSE consumed
    /\ working' = [working EXCEPT ![r] = {}]

\* The UPDATE finds another status, or the form is invalid.
GiveUp(r) ==
  /\ working[r] # {}
  /\ working' = [working EXCEPT ![r] = {}]
  /\ UNCHANGED <<releases, consumed>>

Next ==
  \/ \E x \in Releases : Release(x) \/ Receive(x)
  \/ \E r \in Requests : Load(r) \/ WriteLines(r) \/ Cancel(r) \/ GiveUp(r)

Spec == Init /\ [][Next]_vars

----------------------------------------------------------------------------

\* What the releases in force have taken.
Taken ==
  SumOver([x \in Releases |-> releases[x].qty],
          {x \in Releases : releases[x].status \in {"released", "received"}})

\* The consumption of a blanket line is what its releases in force have taken.
\* The two part company only when a cancellation that had loaded a draft lands
\* on a release that has consumed since, or a line is written to a release by a
\* request that had loaded it as a draft.
ConsumptionFollowsReleases ==
  [][consumed' - Taken' # consumed - Taken =>
       \E r \in Requests : \E w \in working[r] :
         /\ working'[r] = {}
         /\ w.status = "draft"
         /\ releases[w.id].status \in {"released", "received"}]_vars

====
