---------------------------- MODULE StockSessions ----------------------------
(***************************************************************************)
(* Concurrent requests inside post_movement(), at the granularity of the   *)
(* SQL statements it issues.                                               *)
(*                                                                         *)
(* A session is one request that posts one movement.  Its transaction runs *)
(* under READ COMMITTED, the isolation level Django gives a MySQL          *)
(* connection that does not set another one: a SELECT sees the last        *)
(* committed rows and the transaction's own writes and locks nothing, an   *)
(* UPDATE locks the row it writes until the transaction ends.  The code    *)
(* takes no lock of its own (there is no select_for_update), so between    *)
(* the SELECT of get_or_create and the UPDATE of save() any other session  *)
(* may commit.                                                             *)
(***************************************************************************)
EXTENDS StockPosting

CONSTANTS
    Sessions,      \* the requests that post a movement
    Seed,          \* the id of the StockItem rows that exist at the start
    Opening,       \* the quantity each bin opens with
    StockedBins,   \* the bins that have a StockItem row at the start
    UniqueBins,    \* the bins whose key has both a lot and a serial: the database
                   \* compares no NULL, so unique_together binds only these
    Jobs           \* the movements a session may be asked to post

ASSUME SessionsAssumption ==
    /\ Seed \notin Sessions
    /\ Opening \in [Bins -> Nat]
    /\ StockedBins \subseteq Bins
    /\ \A b \in Bins \ StockedBins : Opening[b] = 0
    /\ UniqueBins \subseteq Bins
    /\ Jobs \subseteq Movement

VARIABLES
    item,      \* item[b]: the committed StockItem rows of bin b, row id -> qty_on_hand
    at,        \* where each session is in post_movement
    side,      \* which end of the movement it is working on
    mv,        \* the movement it posts
    seen,      \* the row its last get_or_create returned, and its quantity
    own,       \* own[s][b]: the uncommitted write of s to a row of bin b
    net,       \* per bin, what the committed StockMovement rows sum to
    inexact    \* the bins where a committed write lost an update or was floored

vars == <<item, at, side, mv, seen, own, net, inexact>>

RowIds == Sessions \cup {Seed}
InTransaction == {"get", "create", "update", "commit"}

NoMovement == [type |-> "receipt", qty |-> 0, from |-> NoBin, to |-> NoBin]
NoRow == [row |-> Seed, qty |-> 0]
NoWrites == [b \in {} |-> NoRow]

-----------------------------------------------------------------------------
\* The bin the session is working on.
Target(s) == IF side[s] = "from" THEN mv[s].from ELSE mv[s].to

Wrote(s, b) == b \in DOMAIN own[s]

\* The rows of bin b a SELECT of session s returns.
Visible(s, b) == DOMAIN item[b] \cup (IF Wrote(s, b) THEN {own[s][b].row} ELSE {})

QtySeen(s, b, r) ==
    IF Wrote(s, b) /\ own[s][b].row = r THEN own[s][b].qty ELSE item[b][r]

\* Another transaction has written row r of bin b and has not ended.
Locked(s, b, r) == \E t \in Sessions \ {s} : Wrote(t, b) /\ own[t][b].row = r

\* Another transaction has inserted a row for bin b and has not ended.
InsertPending(s, b) ==
    \E t \in Sessions \ {s} : Wrote(t, b) /\ own[t][b].row \notin DOMAIN item[b]

Blocked(s) ==
    \/ at[s] = "update" /\ Locked(s, Target(s), seen[s].row)
    \/ at[s] = "create" /\ Target(s) \in UniqueBins /\ InsertPending(s, Target(s))

\* A write of the transaction, not yet committed.
Write(s, b, w) ==
    own' = [own EXCEPT ![s] = [c \in DOMAIN own[s] \cup {b} |->
                                 IF c = b THEN w ELSE own[s][c]]]

\* The rows once the writes of the transaction are committed.
Installed(s) ==
    [b \in Bins |->
       IF Wrote(s, b)
       THEN [r \in DOMAIN item[b] \cup {own[s][b].row} |->
               IF r = own[s][b].row THEN own[s][b].qty ELSE item[b][r]]
       ELSE item[b]]

\* Mutant of Rollback: without transaction.atomic, what was written stays.
RollbackAutocommit(s) ==
    /\ at' = [at EXCEPT ![s] = "failed"]
    /\ item' = Installed(s)
    /\ own' = [own EXCEPT ![s] = NoWrites]
    /\ UNCHANGED <<side, mv, seen, net, inexact>>

\* ROLLBACK: the movement row and every balance written so far disappear.
Rollback(s) ==
    /\ at' = [at EXCEPT ![s] = "failed"]
    /\ own' = [own EXCEPT ![s] = NoWrites]
    /\ UNCHANGED <<item, side, mv, seen, net, inexact>>

-----------------------------------------------------------------------------
Init ==
    /\ item = [b \in Bins |-> [r \in {i \in {Seed} : b \in StockedBins} |-> Opening[b]]]
    /\ at = [s \in Sessions |-> "idle"]
    /\ side = [s \in Sessions |-> "from"]
    /\ mv = [s \in Sessions |-> NoMovement]
    /\ seen = [s \in Sessions |-> NoRow]
    /\ own = [s \in Sessions |-> NoWrites]
    /\ net = [b \in Bins |-> 0]
    /\ inexact = {}

\* Mutant of Enter: the argument checks are gone.
EnterUnchecked(s, m) ==
    /\ at[s] = "idle"
    /\ mv' = [mv EXCEPT ![s] = m]
    /\ side' = [side EXCEPT ![s] = IF m.from # NoBin THEN "from" ELSE "to"]
    /\ at' = [at EXCEPT ![s] = "get"]
    /\ UNCHANGED <<item, seen, own, net, inexact>>

(***************************************************************************)
(* The head of post_movement: the argument checks raise ValueError, then   *)
(* the StockMovement row is inserted (it becomes visible at the commit).   *)
(***************************************************************************)
Enter(s, m) ==
    /\ at[s] = "idle"
    /\ mv' = [mv EXCEPT ![s] = m]
    /\ side' = [side EXCEPT ![s] = IF m.from # NoBin THEN "from" ELSE "to"]
    /\ at' = [at EXCEPT ![s] = IF Admissible(m) THEN "get" ELSE "failed"]
    /\ UNCHANGED <<item, seen, own, net, inexact>>

Begin(s) == \E m \in Jobs : Enter(s, m)

\* reverse_movement of a movement that is in the ledger.
BeginReversal(s) ==
    \E t \in Sessions : at[t] = "done" /\ Enter(s, Reversal(mv[t]))

\* get_or_create finds exactly one row ...
Get(s) ==
    /\ at[s] = "get"
    /\ \E r \in Visible(s, Target(s)) :
         /\ Visible(s, Target(s)) = {r}
         /\ seen' = [seen EXCEPT ![s] = [row |-> r, qty |-> QtySeen(s, Target(s), r)]]
    /\ at' = [at EXCEPT ![s] = "update"]
    /\ UNCHANGED <<item, side, mv, own, net, inexact>>

\* ... or none, and goes on to insert one ...
GetNone(s) ==
    /\ at[s] = "get"
    /\ Visible(s, Target(s)) = {}
    /\ at' = [at EXCEPT ![s] = "create"]
    /\ UNCHANGED <<item, side, mv, seen, own, net, inexact>>

\* ... or several, and raises MultipleObjectsReturned.
GetMany(s) ==
    /\ at[s] = "get"
    /\ \E q, r \in Visible(s, Target(s)) : q # r
    /\ Rollback(s)

\* Mutant of Create: the unique index is gone.
CreateUnindexed(s) ==
    /\ at[s] = "create"
    /\ Write(s, Target(s), [row |-> s, qty |-> 0, exact |-> TRUE])
    /\ seen' = [seen EXCEPT ![s] = [row |-> s, qty |-> 0]]
    /\ at' = [at EXCEPT ![s] = "update"]
    /\ UNCHANGED <<item, side, mv, net, inexact>>

\* The INSERT of get_or_create.
Create(s) ==
    LET b == Target(s) IN
    /\ at[s] = "create"
    /\ b \in UniqueBins => ~InsertPending(s, b) /\ DOMAIN item[b] = {}
    /\ Write(s, b, [row |-> s, qty |-> 0, exact |-> TRUE])
    /\ seen' = [seen EXCEPT ![s] = [row |-> s, qty |-> 0]]
    /\ at' = [at EXCEPT ![s] = "update"]
    /\ UNCHANGED <<item, side, mv, net, inexact>>

\* Mutant of CreateConflict: the INSERT is tried again without a new SELECT.
CreateConflictRetried(s) ==
    /\ at[s] = "create"
    /\ Target(s) \in UniqueBins
    /\ UNCHANGED vars

\* The INSERT hits the unique index; get_or_create selects again.
CreateConflict(s) ==
    /\ at[s] = "create"
    /\ Target(s) \in UniqueBins
    /\ ~InsertPending(s, Target(s))
    /\ DOMAIN item[Target(s)] # {}
    /\ at' = [at EXCEPT ![s] = "get"]
    /\ UNCHANGED <<item, side, mv, seen, own, net, inexact>>

\* raise ValueError('insufficient stock'), before anything is written to the row.
Overdraw(s) ==
    /\ at[s] = "update"
    /\ side[s] = "from"
    /\ ~Covers(mv[s], seen[s].qty)
    /\ Rollback(s)

\* Mutant of Update: the issued quantity is taken off the row in the UPDATE itself,
\* qty_on_hand - qty, while the stock test still reads what the SELECT returned.
UpdateInPlace(s) ==
    LET b == Target(s)
        r == seen[s].row
        now == QtySeen(s, b, r)
        new == IF side[s] = "to" THEN now + mv[s].qty
               ELSE IF mv[s].type \in Corrections THEN TakenFrom(mv[s], now)
               ELSE now - mv[s].qty
    IN
    /\ at[s] = "update"
    /\ ~Locked(s, b, r)
    /\ side[s] = "from" => Covers(mv[s], seen[s].qty)
    /\ Write(s, b, [row |-> r, qty |-> new,
                    exact |-> /\ Wrote(s, b) => own[s][b].exact
                              /\ side[s] = "from" => now >= mv[s].qty])
    /\ IF side[s] = "from" /\ mv[s].to # NoBin
       THEN side' = [side EXCEPT ![s] = "to"] /\ at' = [at EXCEPT ![s] = "get"]
       ELSE side' = side /\ at' = [at EXCEPT ![s] = "commit"]
    /\ UNCHANGED <<item, mv, seen, net, inexact>>

(***************************************************************************)
(* The UPDATE of qty_on_hand.  It writes a value computed from what the    *)
(* SELECT returned, waits while another transaction holds the row, and is  *)
(* exact when that value is still the row's and is not floored.            *)
(***************************************************************************)
Update(s) ==
    LET b == Target(s)
        r == seen[s].row
        new == IF side[s] = "from" THEN TakenFrom(mv[s], seen[s].qty)
                                   ELSE seen[s].qty + mv[s].qty
    IN
    /\ at[s] = "update"
    /\ ~Locked(s, b, r)
    /\ side[s] = "from" => Covers(mv[s], seen[s].qty)
    /\ Write(s, b, [row |-> r, qty |-> new,
                    exact |-> /\ Wrote(s, b) => own[s][b].exact
                              /\ seen[s].qty = QtySeen(s, b, r)
                              /\ side[s] = "from" => seen[s].qty >= mv[s].qty])
    /\ IF side[s] = "from" /\ mv[s].to # NoBin
       THEN side' = [side EXCEPT ![s] = "to"] /\ at' = [at EXCEPT ![s] = "get"]
       ELSE side' = side /\ at' = [at EXCEPT ![s] = "commit"]
    /\ UNCHANGED <<item, mv, seen, net, inexact>>

\* COMMIT: the movement row and all its balances become visible together.
Commit(s) ==
    /\ at[s] = "commit"
    /\ item' = Installed(s)
    /\ net' = [b \in Bins |-> net[b] + Delta(mv[s], b)]
    /\ inexact' = inexact \cup {b \in DOMAIN own[s] : ~own[s][b].exact}
    /\ own' = [own EXCEPT ![s] = NoWrites]
    /\ at' = [at EXCEPT ![s] = "done"]
    /\ UNCHANGED <<side, mv, seen>>

(***************************************************************************)
(* The database ends a wait by itself: it picks the victim of a deadlock   *)
(* or the wait exceeds innodb_lock_wait_timeout.  Django raises            *)
(* OperationalError, transaction.atomic rolls back.                        *)
(***************************************************************************)
LockAbort(s) == Blocked(s) /\ Rollback(s)

\* The worker process or its connection dies; the server rolls back.
Crash(s) == at[s] \in InTransaction /\ Rollback(s)

-----------------------------------------------------------------------------
\* What the worker and the database do for a request once it has begun.
Step(s) ==
    \/ Get(s) \/ GetNone(s) \/ GetMany(s) \/ Create(s) \/ CreateConflict(s)
    \/ Overdraw(s) \/ Update(s) \/ Commit(s) \/ LockAbort(s)

\* Every request has been answered; the counterexample to look for is a hang.
AllAnswered ==
    /\ \A s \in Sessions : at[s] \in {"done", "failed"}
    /\ UNCHANGED vars

Next ==
    \/ \E s \in Sessions : Begin(s) \/ BeginReversal(s) \/ Step(s) \/ Crash(s)
    \/ AllAnswered

Spec == Init /\ [][Next]_vars

FairSpec == Spec /\ \A s \in Sessions : WF_vars(Step(s))

-----------------------------------------------------------------------------
WriteRecord == [row : RowIds, qty : Int, exact : BOOLEAN]

\* The types of the variables.
TypeOK ==
    /\ item = [b \in Bins |-> item[b]]
    /\ \A b \in Bins : /\ DOMAIN item[b] \subseteq RowIds
                       /\ item[b] \in [DOMAIN item[b] -> Int]
    /\ at \in [Sessions -> InTransaction \cup {"idle", "done", "failed"}]
    /\ side \in [Sessions -> {"from", "to"}]
    /\ mv \in [Sessions -> Movement]
    /\ seen \in [Sessions -> [row : RowIds, qty : Int]]
    /\ own = [s \in Sessions |-> own[s]]
    /\ \A s \in Sessions : /\ DOMAIN own[s] \subseteq Bins
                           /\ own[s] \in [DOMAIN own[s] -> WriteRecord]
    /\ net \in [Bins -> Int]
    /\ inexact \subseteq Bins

\* No committed balance is negative, whatever the interleaving: the stock check of
\* post_movement runs on a value that may be stale by the time it is written, and what
\* keeps the balance up is that the value written is computed from that same stale one.
\* Corrections are floored like everything else, although movements.py, line 112, and
\* README.md, line 2036, let them take a balance below zero.
NonNegative == \A b \in Bins : \A r \in DOMAIN item[b] : item[b][r] >= 0

\* Where unique_together binds, get_or_create leaves one StockItem row per key.
OneRowWhereUnique ==
    \A b \in UniqueBins : \A q, r \in DOMAIN item[b] : q = r

\* A bin has a single StockItem row, or none, and no committed write to it lost an
\* update or was floored.
Reliable(b) == b \notin inexact /\ \A q, r \in DOMAIN item[b] : q = r

\* StockItem.qty_on_hand is what the StockMovement ledger says, in every bin where
\* no committed movement overwrote another one, was floored, or raced on the insert.
BalanceFollowsLedger ==
    \A b \in Bins : Reliable(b) =>
        /\ \A r \in DOMAIN item[b] : item[b][r] = Opening[b] + net[b]
        /\ DOMAIN item[b] = {} => net[b] = 0

\* movements.py, lines 3 to 7, and README.md, line 64: all balances are written by
\* post_movement, atomically, "so StockItem denorms stay consistent" with the ledger.
StockMatchesLedger ==
    \A b \in Bins : \A r \in DOMAIN item[b] : item[b][r] = Opening[b] + net[b]

\* The rows and locks of a request never outlive it: once it has begun, it is
\* answered, even when it waits for a request that waits for it.
RequestsAnswered ==
    \A s \in Sessions : at[s] \in InTransaction ~> at[s] \in {"done", "failed"}

-----------------------------------------------------------------------------
\* The committed movements, and the balance of each bin that can be relied on.
Movements == [s \in {t \in Sessions : at[t] = "done"} |-> mv[s]]

OnHand(b) ==
    IF DOMAIN item[b] = {} THEN 0 ELSE item[b][CHOOSE r \in DOMAIN item[b] : TRUE]

Ledger == INSTANCE StockLedger
            WITH Ids <- Sessions,
                 ledger <- Movements,
                 balance <- [b \in {c \in Bins : Reliable(c)} |-> OnHand(b)]

\* Whatever the interleaving, a movement is posted at most once, with both of its
\* ends or with none, and only what overlaps with it can make its balances wrong.
ImplementsLedger == Ledger!Spec
=============================================================================
