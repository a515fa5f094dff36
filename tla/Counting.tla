---- MODULE Counting ----
(***************************************************************************)
(* Stock adjustments and cycle count sheets: the views of                  *)
(* inventory/views.py that post the difference between a counted and a     *)
(* stored quantity to the balance of a bin.  Each document has one line.   *)
(* A post is one transaction, but post_movement reads the balance and      *)
(* later writes what it has computed, without a lock: two posts into the   *)
(* bin may both read before either commits.                                *)
(***************************************************************************)
EXTENDS Integers, Sums

CONSTANTS
  Adjustments,  \* the StockAdjustment rows
  Sheets,       \* the CycleCountSheet rows
  Requests,     \* the requests that may be under way at the same time
  MaxQty,       \* bound: the quantities on a line
  Opening       \* the balance of the bin at the start

\* What the constants have to be.
CountingAssumption ==
  /\ IsFiniteSet(Adjustments) /\ IsFiniteSet(Sheets)
  /\ MaxQty \in Nat /\ Opening \in Nat

VARIABLES
  papers,   \* [status, system, counted] of each document; no line when equal
  balance,  \* qty_on_hand of the bin
  counter   \* counter[r]: the operation of r, its document and what it has read

vars == <<papers, balance, counter>>

Papers == Adjustments \cup Sheets

Quantities == 0..MaxQty

Init ==
  /\ papers = [p \in Papers |-> [status |-> "draft", system |-> 0, counted |-> 0]]
  /\ balance = Opening
  /\ counter = [r \in Requests |-> {}]

\* What the views ask of the document they have loaded.
Passes(op, p) ==
  CASE op = "line" -> papers[p].status = "draft" \/ papers[p].status = "counting"
    [] op = "post" -> papers[p].status = (IF p \in Sheets THEN "counting" ELSE "draft")
    [] op = "delete" -> papers[p].status = "draft"

Load(r) ==
  /\ counter[r] = {}
  /\ \E op \in {"line", "post", "delete"}, p \in Papers :
       /\ Passes(op, p)
       /\ counter' = [counter EXCEPT ![r] =
                        {[op |-> op, id |-> p, variance |-> 0, read |-> 0]}]
  /\ UNCHANGED <<papers, balance>>

\* A post under way has written the row of its document, which stays locked, and
\* unseen by the others, until it commits.
Locked == {c.id : c \in {d \in UNION {counter[r] : r \in Requests} : d.op = "posting"}}

Answered(r) == counter' = [counter EXCEPT ![r] = {}]

\* A line is added or deleted; its form gives both quantities.  To add one takes a
\* shared lock on the document, to delete it does not.
WriteLine(r) ==
  \E c \in counter[r] :
    /\ c.op = "line"
    /\ papers[c.id].status # "gone"
    /\ \E s \in Quantities, n \in Quantities :
         /\ c.id \notin Locked \/ (s = 0 /\ n = 0)
         /\ papers' = [papers EXCEPT ![c.id].system = s, ![c.id].counted = n]
    /\ Answered(r)
    /\ UNCHANGED balance

\* CycleCountStartView: a conditional UPDATE without a load.
Start(p) ==
  /\ p \in Sheets
  /\ papers[p].status = "draft"
  /\ papers' = [papers EXCEPT ![p].status = "counting"]
  /\ UNCHANGED <<balance, counter>>

Variance(p) == papers[p].counted - papers[p].system

Before(p) == IF p \in Sheets THEN "counting" ELSE "draft"

After(p) == IF p \in Sheets THEN "reconciled" ELSE "posted"

\* The transaction of r has locked the document and read its line and the balance.
Opened(r, p) ==
  counter' = [counter EXCEPT ![r] =
    {[op |-> "posting", id |-> p, variance |-> Variance(p), read |-> balance]}]

\* Mutant for VariancePostedOnce: the UPDATE does not ask for the status.
BeginUnconditional(r) ==
  \E c \in counter[r] :
    /\ c.op = "post"
    /\ c.id \notin Locked
    /\ papers[c.id].status # "gone"
    /\ Opened(r, c.id)
    /\ UNCHANGED <<papers, balance>>

\* AdjustmentPostView and CycleCountReconcileView up to the read of post_movement:
\* the UPDATE asks for the status, and waits while another post holds the row.
Begin(r) ==
  \E c \in counter[r] :
    /\ c.op = "post"
    /\ c.id \notin Locked
    /\ papers[c.id].status = Before(c.id)
    /\ Opened(r, c.id)
    /\ UNCHANGED <<papers, balance>>

\* What post_movement makes of the balance that was read: an adjustment or a count
\* takes no more than there is, and a line without a variance is passed over.
Adjusted(c) == IF c.variance = 0 THEN balance ELSE Max({0, c.read + c.variance})

\* The rest of the transaction.
Finish(r) ==
  \E c \in counter[r] :
    /\ c.op = "posting"
    /\ papers' = [papers EXCEPT ![c.id].status = After(c.id)]
    /\ balance' = Adjusted(c)
    /\ Answered(r)

\* The document goes with its line, when no post holds its row.
Delete(r) ==
  \E c \in counter[r] :
    /\ c.op = "delete"
    /\ c.id \notin Locked
    /\ papers' = [papers EXCEPT ![c.id] = [status |-> "gone", system |-> 0, counted |-> 0]]
    /\ Answered(r)
    /\ UNCHANGED balance

\* The UPDATE finds another status, the form is invalid, or the transaction is
\* rolled back.
GiveUp(r) ==
  /\ counter[r] # {}
  /\ Answered(r)
  /\ UNCHANGED <<papers, balance>>

Next ==
  \/ \E p \in Papers : Start(p)
  \/ \E r \in Requests :
       \/ Load(r) \/ WriteLine(r) \/ Begin(r) \/ Finish(r) \/ Delete(r) \/ GiveUp(r)

Spec == Init /\ [][Next]_vars

----------------------------------------------------------------------------

Done == {p \in Papers : papers[p].status \in {"posted", "reconciled"}}

\* What the documents that are done say they have moved.
Corrections == SumOver([p \in Papers |-> Variance(p)], Done)

\* The variance of a document reaches the bin once, in the step that ends the
\* document, whoever else posts it.  Balance and documents part company only when a
\* post writes a balance that another has changed since it was read, when a shortage
\* exceeds the balance and is cut off at zero, when the line is deleted while the post
\* is under way, and when a request that had loaded the document before it was posted
\* writes a line to it, or deletes it, afterwards.
VariancePostedOnce ==
  [][balance' - Corrections' # balance - Corrections =>
       \E r \in Requests : \E c \in counter[r] :
         /\ counter'[r] = {}
         /\ \/ /\ c.op = "posting"
               /\ \/ c.read # balance
                  \/ c.read + c.variance < 0
                  \/ c.variance # Variance(c.id)
            \/ c.op \in {"line", "delete"} /\ c.id \in Done]_vars

====
