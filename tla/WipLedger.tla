---- MODULE WipLedger ----
(***************************************************************************)
(* The entries of one job and the total that is kept of them in JobCost:   *)
(* cost/services/wip.py, the pre_delete signal of cost/signals.py and the  *)
(* entry views.  Posting takes a row lock on the job and adds to the total *)
(* it reads under it; deleting writes the total of the job the view had    *)
(* loaded.  The buckets of the total are one here.                         *)
(***************************************************************************)
EXTENDS Integers, Sums

CONSTANTS
  Entries,   \* the entries
  Requests,  \* the requests that may be under way at the same time
  Amounts    \* bound: the amounts posted

\* What the constants have to be; no entry has the name of a mark below.
JobAssumption ==
  /\ IsFiniteSet(Entries)
  /\ Entries \cap {"none", "gone", "nothing"} = {}
  /\ Amounts \subseteq Int

VARIABLES
  entries,   \* [amount, of] of each entry; of: the entry it reverses
  job,       \* [status, total] of the JobCost
  acting     \* acting[r]: the operation of r, its entry, the total loaded

vars == <<entries, job, acting>>

NoRow == [amount |-> 0, of |-> "none"]

\* A deleted entry; its id is not used again.
GoneRow == [amount |-> 0, of |-> "gone"]

Posted(e) == entries[e].of \notin {"none", "gone"}

Init ==
  /\ entries = [e \in Entries |-> NoRow]
  /\ job = [status |-> "open", total |-> 0]
  /\ acting = [r \in Requests |-> {}]

\* post_wip_entry: one transaction under the row lock of the job, whatever the
\* status of the job.
Insert(amount, of) ==
  /\ \E e \in Entries :
       /\ entries[e] = NoRow
       /\ entries' = [entries EXCEPT ![e] = [amount |-> amount, of |-> of]]
  /\ job' = [job EXCEPT !.total = @ + amount]

\* WIPEntryCreateView, and the signals of movements, bookings and reports.
Post ==
  /\ \E amount \in Amounts : Insert(amount, "nothing")
  /\ UNCHANGED acting

\* reverse_wip_entry: the entry is no reversal and none of it exists.
LookForReversal(r) ==
  /\ acting[r] = {}
  /\ \E e \in Entries :
       /\ entries[e].of = "nothing"
       /\ \A f \in Entries : entries[f].of # e
       /\ acting' = [acting EXCEPT ![r] =
            {[op |-> "reverse", id |-> e, amount |-> entries[e].amount, total |-> 0]}]
  /\ UNCHANGED <<entries, job>>

Reverse(r) ==
  \E a \in acting[r] :
    /\ a.op = "reverse"
    /\ Insert(-a.amount, a.id)
    /\ acting' = [acting EXCEPT ![r] = {}]

\* WIPEntryDeleteView: the job is not closed.
LoadToDelete(r) ==
  /\ acting[r] = {}
  /\ job.status = "open"
  /\ \E e \in Entries :
       /\ Posted(e)
       /\ acting' = [acting EXCEPT ![r] =
            {[op |-> "delete", id |-> e, amount |-> entries[e].amount, total |-> job.total]}]
  /\ UNCHANGED <<entries, job>>

\* Mutant for TotalFollowsEntries: no signal rolls the total back.
DeleteSilently(r) ==
  \E a \in acting[r] :
    /\ a.op = "delete"
    /\ entries' = [entries EXCEPT ![a.id] = GoneRow]
    /\ acting' = [acting EXCEPT ![r] = {}]
    /\ UNCHANGED job

\* pre_delete writes the total that was loaded less the amount; the row goes.
Delete(r) ==
  \E a \in acting[r] :
    /\ a.op = "delete"
    /\ entries' = [entries EXCEPT ![a.id] = GoneRow]
    /\ job' = [job EXCEPT !.total = a.total - a.amount]
    /\ acting' = [acting EXCEPT ![r] = {}]

\* close_job reads a job whose balance is zero, or is forced.
LoadToClose(r) ==
  /\ acting[r] = {}
  /\ job.status = "open"
  /\ acting' = [acting EXCEPT ![r] = {[op |-> "close", id |-> "none", amount |-> 0, total |-> 0]}]
  /\ UNCHANGED <<entries, job>>

\* UPDATE ... WHERE status = 'open'.
Close(r) ==
  \E a \in acting[r] :
    /\ a.op = "close"
    /\ job' = [job EXCEPT !.status = "closed"]
    /\ acting' = [acting EXCEPT ![r] = {}]
    /\ UNCHANGED entries

\* The process dies: nothing is written.
GiveUp(r) ==
  /\ acting[r] # {}
  /\ acting' = [acting EXCEPT ![r] = {}]
  /\ UNCHANGED <<entries, job>>

Next ==
  \/ Post
  \/ \E r \in Requests :
       \/ LookForReversal(r) \/ Reverse(r) \/ LoadToDelete(r) \/ Delete(r)
       \/ LoadToClose(r) \/ Close(r) \/ GiveUp(r)

Spec == Init /\ [][Next]_vars

----------------------------------------------------------------------------

Ledger == SumOver([e \in Entries |-> entries[e].amount], Entries)

\* The total of a job is the sum of its entries whatever posts and reversals
\* race, for they add under the row lock; it is lost only by a deletion whose
\* view had loaded the job before another entry came or went.
TotalFollowsEntries ==
  [][job'.total - Ledger' # job.total - Ledger =>
       \E r \in Requests : \E a \in acting[r] :
         /\ a.op = "delete" /\ acting'[r] = {}
         /\ a.total # job.total \/ ~Posted(a.id)]_vars

====
