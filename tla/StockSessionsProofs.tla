------------------------- MODULE StockSessionsProofs -------------------------
(***************************************************************************)
(* Proofs about StockPosting and StockSessions, for every set of requests, *)
(* bins, openings and movements: first what one serial post_movement does, *)
(* then what concurrent ones do.  The inductive invariant IInv says what a *)
(* transaction has written so far (Progress), which rows it may hold       *)
(* (HeldRows, ExclusiveRows, SelectedRow, UniqueInserts), and that an      *)
(* exact write differs from the committed row by what the movement has     *)
(* applied so far (Exactness).                                             *)
(***************************************************************************)
EXTENDS StockSessions, TLAPS

----------------------------------------------------------------------------
\* What one serial post_movement guarantees.

\* post_movement never leaves a negative balance (movements.py, lines 107 to 128).
THEOREM PostedNonNegative ==
    ASSUME NEW stock \in [Bins -> Nat], NEW m \in Movement, CanPost(stock, m)
    PROVE  Posted(stock, m) \in [Bins -> Nat]
  BY DEF CanPost, Admissible, Movement, Posted, Taken, TakenFrom, Floor

\* A movement that is not floored changes each balance by exactly its ledger entry.
THEOREM PostedFollowsLedger ==
    ASSUME NEW stock \in [Bins -> Nat], NEW m \in Movement, CanPost(stock, m),
           m.from # NoBin => stock[m.from] >= m.qty
    PROVE  \A b \in Bins : Posted(stock, m)[b] = stock[b] + Delta(m, b)
  BY NoBinAssumption
     DEF CanPost, Admissible, Movement, Posted, Taken, TakenFrom, Floor, Delta

\* The reversal of an admissible movement passes every argument check: the type map
\* of reverse_movement fits the ends it swaps (movements.py, lines 141 to 164).
THEOREM ReversalAdmissible ==
    ASSUME NEW m \in Movement, Admissible(m)
    PROVE  Reversal(m) \in Movement /\ Admissible(Reversal(m))
  <1>1. m.type \in MovementTypes
    BY DEF Movement
  <1>2. Reversal(m) \in Movement
    BY <1>1 DEF Reversal, Movement, MovementTypes, Swap
  <1>3. /\ Reversal(m).qty = m.qty
        /\ Reversal(m).from = m.to
        /\ Reversal(m).to = m.from
        /\ Reversal(m).type = Swap[m.type]
    BY DEF Reversal
  <1>4. Admissible(Reversal(m))
    <2>1. CASE m.type \in {"receipt", "production_in"}
      BY <1>1, <1>3, <2>1 DEF Admissible, Swap, MovementTypes, Corrections
    <2>2. CASE m.type \in {"issue", "scrap", "shipment_out", "production_out"}
      BY <1>1, <1>3, <2>2 DEF Admissible, Swap, MovementTypes, Corrections
    <2>3. CASE m.type \in {"transfer", "adjustment", "cycle_count"}
      BY <1>1, <1>3, <2>3 DEF Admissible, Swap, MovementTypes, Corrections
    <2>4. QED
      BY <1>1, <2>1, <2>2, <2>3 DEF MovementTypes
  <1>5. QED
    BY <1>2, <1>4

\* Reversing a movement that was not floored is possible and puts every balance back,
\* as long as its two ends differ and nothing has been posted in between.
THEOREM ReversalRestores ==
    ASSUME NEW stock \in [Bins -> Nat], NEW m \in Movement, CanPost(stock, m),
           m.from # m.to,
           m.from # NoBin => stock[m.from] >= m.qty
    PROVE  LET after == Posted(stock, m) IN
           CanPost(after, Reversal(m)) /\ Posted(after, Reversal(m)) = stock
  <1> DEFINE after == Posted(stock, m)
             r == Reversal(m)
  <1>1. Admissible(m) /\ Admissible(r) /\ r \in Movement
    BY ReversalAdmissible DEF CanPost
  <1>2. r.qty = m.qty /\ r.from = m.to /\ r.to = m.from
    BY DEF Reversal
  <1>3. m.qty \in Int /\ m.qty > 0 /\ m.from \in Bins \cup {NoBin} /\ m.to \in Bins \cup {NoBin}
    BY <1>1 DEF Movement, Admissible
  <1>4. \A b \in Bins : after[b] = stock[b] + Delta(m, b)
    BY PostedFollowsLedger
  <1>5. after \in [Bins -> Nat]
    BY PostedNonNegative
  <1>6. r.from # NoBin => after[r.from] >= r.qty
    BY <1>2, <1>3, <1>4, NoBinAssumption DEF Delta
  <1>7. CanPost(after, r)
    BY <1>1, <1>6 DEF CanPost, Covers
  <1>8. \A b \in Bins : Posted(after, r)[b] = after[b] + Delta(r, b)
    BY <1>1, <1>5, <1>6, <1>7, PostedFollowsLedger
  <1>9. \A b \in Bins : Delta(r, b) = -Delta(m, b)
    BY <1>2, <1>3 DEF Delta
  <1>10. \A b \in Bins : Posted(after, r)[b] = stock[b]
    <2>1. \A b \in Bins : Delta(m, b) \in Int /\ stock[b] \in Int
      BY <1>3 DEF Delta
    <2>2. \A p, d \in Int : (p + d) + (-d) = p
      OBVIOUS
    <2> HIDE DEF after, r
    <2>3. TAKE b \in Bins
    <2>4. Posted(after, r)[b] = (stock[b] + Delta(m, b)) + (-Delta(m, b))
      BY <1>4, <1>8, <1>9
    <2>5. QED
      BY <2>1, <2>2, <2>4
  <1>11. Posted(after, r) = [b \in Bins |-> Posted(after, r)[b]]
    BY DEF Posted
  <1>12. Posted(after, r) = stock
    BY <1>10, <1>11
  <1>13. QED
    BY <1>7, <1>12

----------------------------------------------------------------------------
\* The inductive invariant of the sessions.

\* What the transaction of s has applied to bin b so far.
Partial(s, b) ==
    (IF at[s] = "commit" /\ b = mv[s].to THEN mv[s].qty ELSE 0)
      - (IF (at[s] = "commit" \/ side[s] = "to") /\ b = mv[s].from THEN mv[s].qty ELSE 0)

\* A transaction works on a bin of its movement, and has written the ends behind it.
Progress == \A s \in Sessions :
    /\ at[s] \in InTransaction => Admissible(mv[s])
    /\ at[s] \in {"get", "create", "update"} => Target(s) \in Bins
    /\ at[s] \in InTransaction /\ (at[s] = "commit" \/ side[s] = "to")
         => mv[s].from \in DOMAIN own[s] \cup {NoBin}
    /\ at[s] = "commit" => mv[s].to \in DOMAIN own[s] \cup {NoBin}
    /\ DOMAIN own[s] \subseteq {mv[s].from, mv[s].to}
    /\ at[s] \notin InTransaction => DOMAIN own[s] = {}

\* The row a request inserts is committed with the request.
InsertedRows == \A s \in Sessions : \A b \in Bins : s \in DOMAIN item[b] => at[s] = "done"

\* A transaction writes to committed rows and to the row it inserted.
HeldRows == \A s \in Sessions : \A b \in DOMAIN own[s] :
    own[s][b].row \in DOMAIN item[b] \cup {s}

\* No two transactions hold the same row.
ExclusiveRows == \A s, t \in Sessions : \A b \in DOMAIN own[s] \cap DOMAIN own[t] :
    s # t => own[s][b].row # own[t][b].row

\* The row about to be updated is one the transaction sees, and the one it holds.
SelectedRow == \A s \in Sessions :
    /\ at[s] = "create" => ~Wrote(s, Target(s))
    /\ at[s] = "update" => /\ seen[s].row \in Visible(s, Target(s))
                           /\ Wrote(s, Target(s)) => seen[s].row = own[s][Target(s)].row

\* Where unique_together binds, an uncommitted insert is the only row of its bin.
UniqueInserts == \A s \in Sessions : \A b \in DOMAIN own[s] :
    b \in UniqueBins /\ own[s][b].row \notin DOMAIN item[b]
        => DOMAIN item[b] = {} /\ ~InsertPending(s, b)

\* An exact write is the committed quantity plus what the movement has applied.
Exactness == \A s \in Sessions : \A b \in DOMAIN own[s] :
    own[s][b].exact =>
        own[s][b].qty = Partial(s, b)
            + (IF own[s][b].row \in DOMAIN item[b] THEN item[b][own[s][b].row] ELSE 0)

\* No quantity a transaction has read or written is negative.
NonNegativeWrites == \A s \in Sessions :
    /\ seen[s].qty >= 0
    /\ \A b \in DOMAIN own[s] : own[s][b].qty >= 0

\* A bin without a row opened empty.
NoRowNoOpening == \A b \in Bins : DOMAIN item[b] = {} => Opening[b] = 0

IInv == /\ TypeOK /\ Progress /\ UniqueInserts /\ Exactness
        /\ InsertedRows /\ HeldRows /\ ExclusiveRows /\ SelectedRow
        /\ NonNegativeWrites /\ NoRowNoOpening
        /\ NonNegative /\ OneRowWhereUnique /\ BalanceFollowsLedger

-----------------------------------------------------------------------------
LEMMA Constants ==
    /\ NoBin \notin Bins /\ Seed \notin Sessions
    /\ Opening \in [Bins -> Nat] /\ StockedBins \subseteq Bins
    /\ \A b \in Bins \ StockedBins : Opening[b] = 0
    /\ UniqueBins \subseteq Bins /\ Jobs \subseteq Movement
  BY NoBinAssumption, SessionsAssumption

LEMMA InitIInv == Init => IInv
  <1> SUFFICES ASSUME Init PROVE IInv
    OBVIOUS
  <1> USE Constants DEF Init
  <1>1. TypeOK
    BY DEF TypeOK, RowIds, InTransaction, NoMovement, NoRow, NoWrites, Movement,
           MovementTypes, WriteRecord
  <1>2. \A s \in Sessions : at[s] = "idle" /\ DOMAIN own[s] = {} /\ seen[s].qty = 0
    BY DEF NoWrites, NoRow
  <1>3. Progress
    BY <1>2 DEF Progress, InTransaction
  <1>4. InsertedRows /\ HeldRows /\ ExclusiveRows /\ SelectedRow
    BY <1>2 DEF InsertedRows, HeldRows, ExclusiveRows, SelectedRow
  <1>5. UniqueInserts /\ Exactness /\ NonNegativeWrites
    BY <1>2 DEF UniqueInserts, Exactness, NonNegativeWrites
  <1>6. NoRowNoOpening /\ NonNegative
    BY DEF NoRowNoOpening, NonNegative
  <1>7. OneRowWhereUnique /\ BalanceFollowsLedger
    BY DEF OneRowWhereUnique, BalanceFollowsLedger
  <1>8. QED
    BY <1>1, <1>3, <1>4, <1>5, <1>6, <1>7 DEF IInv

\* A step that leaves the database alone leaves its three facts alone.
LEMMA DatabaseUnchanged ==
    ASSUME IInv, UNCHANGED <<item, net, inexact>>
    PROVE  (NoRowNoOpening /\ NonNegative /\ OneRowWhereUnique /\ BalanceFollowsLedger)'
  BY DEF IInv, NoRowNoOpening, NonNegative, OneRowWhereUnique, BalanceFollowsLedger, Reliable

LEMMA EnterIInv ==
    ASSUME IInv, NEW s \in Sessions, NEW m \in Movement, Enter(s, m)
    PROVE  IInv'
  <1> USE Constants DEF IInv, Enter
  <1>1. TypeOK'
    BY DEF TypeOK, InTransaction
  <1>2. /\ DOMAIN own[s] = {} /\ own' = own /\ item' = item
        /\ \A t \in Sessions \ {s} : at'[t] = at[t] /\ side'[t] = side[t] /\ mv'[t] = mv[t]
        /\ at'[s] \in {"get", "failed"} /\ mv'[s] = m
        /\ at[s] # "done" /\ seen' = seen
    BY DEF TypeOK, Progress, InTransaction
  <1>3. at'[s] = "get" => /\ Admissible(m)
                          /\ m.from # NoBin => side'[s] = "from"
                          /\ m.from = NoBin => side'[s] = "to"
    BY DEF TypeOK
  <1>4. Progress'
    <2>1. at'[s] = "get" => Target(s)' \in Bins
      BY <1>2, <1>3 DEF Target, Admissible, Movement, Corrections, MovementTypes
    <2>2. \A t \in Sessions \ {s} : Target(t)' = Target(t)
      BY <1>2 DEF Target
    <2>3. QED
      BY <1>2, <1>3, <2>1, <2>2 DEF Progress, InTransaction
  <1>5. InsertedRows' /\ HeldRows' /\ ExclusiveRows'
    BY <1>2 DEF InsertedRows, HeldRows, ExclusiveRows
  <1>6. SelectedRow'
    <2>1. \A t \in Sessions \ {s} : Target(t)' = Target(t)
      BY <1>2 DEF Target
    <2>2. QED
      BY <1>2, <2>1 DEF SelectedRow, Wrote, Visible
  <1>7. UniqueInserts'
    BY <1>2 DEF UniqueInserts, InsertPending, Wrote
  <1>8. Exactness'
    BY <1>2 DEF Exactness, Partial
  <1>9. NonNegativeWrites'
    BY <1>2 DEF NonNegativeWrites
  <1>10. QED
    BY <1>1, <1>4, <1>5, <1>6, <1>7, <1>8, <1>9, DatabaseUnchanged

LEMMA RollbackIInv ==
    ASSUME IInv, NEW s \in Sessions, Rollback(s), at[s] \in InTransaction
    PROVE  IInv'
  <1> USE Constants DEF IInv, Rollback
  <1>1. TypeOK'
    BY DEF TypeOK, NoWrites, WriteRecord
  <1>2. /\ at'[s] = "failed" /\ DOMAIN own'[s] = {}
        /\ \A t \in Sessions \ {s} : at'[t] = at[t] /\ own'[t] = own[t]
        /\ item' = item /\ side' = side /\ mv' = mv /\ seen' = seen
        /\ at[s] # "done"
    BY DEF TypeOK, NoWrites, InTransaction
  <1>3. Progress'
    BY <1>2 DEF Progress, InTransaction, Target
  <1>4. InsertedRows' /\ HeldRows' /\ ExclusiveRows'
    BY <1>2 DEF InsertedRows, HeldRows, ExclusiveRows
  <1>5. SelectedRow'
    <2>1. \A t \in Sessions : Target(t)' = Target(t)
      BY <1>2 DEF Target
    <2>2. QED
      BY <1>2, <2>1 DEF SelectedRow, Wrote, Visible
  <1>6. UniqueInserts'
    BY <1>2 DEF UniqueInserts, InsertPending, Wrote
  <1>7. Exactness'
    BY <1>2 DEF Exactness, Partial
  <1>8. NonNegativeWrites'
    BY <1>2 DEF NonNegativeWrites
  <1>9. QED
    BY <1>1, <1>3, <1>4, <1>5, <1>6, <1>7, <1>8, DatabaseUnchanged

LEMMA GetIInv ==
    ASSUME IInv, NEW s \in Sessions, Get(s)
    PROVE  IInv'
  <1> USE Constants DEF IInv, Get
  <1>1. PICK r \in Visible(s, Target(s)) :
          /\ Visible(s, Target(s)) = {r}
          /\ seen' = [seen EXCEPT ![s] = [row |-> r, qty |-> QtySeen(s, Target(s), r)]]
    OBVIOUS
  <1>2. Target(s) \in Bins
    BY DEF Progress
  <1>3. r \in RowIds /\ QtySeen(s, Target(s), r) \in Int /\ QtySeen(s, Target(s), r) >= 0
    BY <1>1, <1>2
       DEF TypeOK, Visible, QtySeen, Wrote, WriteRecord, NonNegative, NonNegativeWrites
  <1>4. TypeOK'
    BY <1>1, <1>3 DEF TypeOK, InTransaction
  <1>5. /\ at'[s] = "update" /\ at[s] = "get"
        /\ seen'[s] = [row |-> r, qty |-> QtySeen(s, Target(s), r)]
        /\ \A t \in Sessions \ {s} : at'[t] = at[t] /\ seen'[t] = seen[t]
        /\ item' = item /\ side' = side /\ mv' = mv /\ own' = own
        /\ \A t \in Sessions : Target(t)' = Target(t)
    BY <1>1 DEF TypeOK, Target
  <1>6. Progress'
    BY <1>5 DEF Progress, InTransaction
  <1>7. InsertedRows' /\ HeldRows' /\ ExclusiveRows'
    BY <1>5 DEF InsertedRows, HeldRows, ExclusiveRows
  <1>8. SelectedRow'
    BY <1>1, <1>5 DEF SelectedRow, Wrote, Visible
  <1>9. UniqueInserts'
    BY <1>5 DEF UniqueInserts, InsertPending, Wrote
  <1>10. Exactness'
    BY <1>5 DEF Exactness, Partial
  <1>11. NonNegativeWrites'
    BY <1>3, <1>5 DEF NonNegativeWrites
  <1>12. QED
    BY <1>4, <1>6, <1>7, <1>8, <1>9, <1>10, <1>11, DatabaseUnchanged

\* The two steps of get_or_create that only move on: nothing found, and try again.
LEMMA RetryIInv ==
    ASSUME IInv, NEW s \in Sessions, GetNone(s) \/ CreateConflict(s)
    PROVE  IInv'
  <1> USE Constants DEF IInv, GetNone, CreateConflict
  <1>1. TypeOK'
    BY DEF TypeOK, InTransaction
  <1>2. /\ at'[s] \in {"get", "create"} /\ at[s] \in {"get", "create"}
        /\ at'[s] = "create" => Visible(s, Target(s)) = {}
        /\ \A t \in Sessions \ {s} : at'[t] = at[t]
        /\ item' = item /\ side' = side /\ mv' = mv /\ own' = own /\ seen' = seen
        /\ \A t \in Sessions : Target(t)' = Target(t)
    BY DEF TypeOK, Target
  <1>3. Progress'
    BY <1>2 DEF Progress, InTransaction
  <1>4. InsertedRows' /\ HeldRows' /\ ExclusiveRows'
    BY <1>2 DEF InsertedRows, HeldRows, ExclusiveRows
  <1>5. SelectedRow'
    BY <1>2 DEF SelectedRow, Wrote, Visible
  <1>6. UniqueInserts'
    BY <1>2 DEF UniqueInserts, InsertPending, Wrote
  <1>7. Exactness'
    BY <1>2 DEF Exactness, Partial
  <1>8. NonNegativeWrites'
    BY <1>2 DEF NonNegativeWrites
  <1>9. QED
    BY <1>1, <1>3, <1>4, <1>5, <1>6, <1>7, <1>8, DatabaseUnchanged

\* What Write does to the bins a transaction has written.
LEMMA WriteEffect ==
    ASSUME TypeOK, NEW s \in Sessions, NEW b \in Bins, NEW w \in WriteRecord, Write(s, b, w)
    PROVE  /\ own' = [t \in Sessions |-> own'[t]]
           /\ DOMAIN own'[s] = DOMAIN own[s] \cup {b}
           /\ own'[s] \in [DOMAIN own'[s] -> WriteRecord]
           /\ own'[s][b] = w
           /\ \A c \in DOMAIN own[s] \ {b} : own'[s][c] = own[s][c]
           /\ \A t \in Sessions \ {s} : own'[t] = own[t]
  BY DEF Write, TypeOK

LEMMA CreateIInv ==
    ASSUME IInv, NEW s \in Sessions, Create(s)
    PROVE  IInv'
  <1> DEFINE b == Target(s)
             w == [row |-> s, qty |-> 0, exact |-> TRUE]
  <1> USE Constants DEF IInv, Create
  <1>1. b \in Bins /\ b \in {mv[s].from, mv[s].to} /\ ~Wrote(s, b)
    BY DEF Progress, SelectedRow, Target
  <1>2. w \in WriteRecord
    BY DEF WriteRecord, RowIds
  <1>3. /\ own' = [t \in Sessions |-> own'[t]]
        /\ DOMAIN own'[s] = DOMAIN own[s] \cup {b}
        /\ own'[s] \in [DOMAIN own'[s] -> WriteRecord]
        /\ own'[s][b] = w
        /\ \A c \in DOMAIN own[s] : own'[s][c] = own[s][c]
        /\ \A t \in Sessions \ {s} : own'[t] = own[t]
    BY <1>1, <1>2, WriteEffect DEF Wrote
  <1>4. /\ at'[s] = "update" /\ at[s] = "create"
        /\ seen'[s] = [row |-> s, qty |-> 0]
        /\ \A t \in Sessions \ {s} : at'[t] = at[t] /\ seen'[t] = seen[t]
        /\ item' = item /\ side' = side /\ mv' = mv
        /\ \A t \in Sessions : Target(t)' = Target(t)
    BY DEF TypeOK, Target
  <1>5. TypeOK'
    <2>1. \A t \in Sessions : /\ DOMAIN own'[t] \subseteq Bins
                             /\ own'[t] \in [DOMAIN own'[t] -> WriteRecord]
      BY <1>1, <1>3 DEF TypeOK
    <2>2. /\ at' \in [Sessions -> InTransaction \cup {"idle", "done", "failed"}]
          /\ seen' \in [Sessions -> [row : RowIds, qty : Int]]
      BY DEF TypeOK, InTransaction, RowIds
    <2>3. QED
      BY <1>3, <2>1, <2>2 DEF TypeOK
  <1>6. Progress'
    BY <1>1, <1>3, <1>4 DEF Progress, InTransaction
  <1>7. \A c \in Bins : s \notin DOMAIN item[c]
    BY <1>4 DEF InsertedRows
  <1>8. InsertedRows' /\ HeldRows'
    BY <1>3, <1>4 DEF InsertedRows, HeldRows
  <1>9. ExclusiveRows'
    <2>1. \A t \in Sessions \ {s} : b \in DOMAIN own[t] => own[t][b].row # s
      BY <1>1, <1>7 DEF HeldRows
    <2>2. QED
      BY <1>3, <2>1 DEF ExclusiveRows
  <1>10. SelectedRow'
    <2>1. \A t \in Sessions \ {s} : Target(t)' = Target(t) /\ own'[t] = own[t]
      BY <1>3, <1>4
    <2>2. QED
      BY <1>3, <1>4, <2>1 DEF SelectedRow, Wrote, Visible
  <1>11. UniqueInserts'
    BY <1>1, <1>3, <1>4 DEF UniqueInserts, InsertPending, Wrote
  <1>12. Exactness'
    <2>1. own'[s][b].qty = Partial(s, b)'
      <3>1. b = mv[s].from => side[s] = "from" \/ mv[s].from = mv[s].to
        BY DEF Target, TypeOK
      <3>2. b = mv[s].from => side[s] = "from"
        BY <1>1, <1>4, <3>1 DEF Progress, Wrote, InTransaction, TypeOK
      <3>3. QED
        BY <1>3, <1>4, <3>2 DEF Partial
    <2>2. \A t \in Sessions : \A c \in DOMAIN own[t] : Partial(t, c)' = Partial(t, c)
      BY <1>4 DEF Partial
    <2>3. QED
      BY <1>1, <1>3, <1>4, <1>7, <2>1, <2>2 DEF Exactness, Wrote
  <1>13. NonNegativeWrites'
    BY <1>3, <1>4 DEF NonNegativeWrites
  <1>14. QED
    BY <1>5, <1>6, <1>8, <1>9, <1>10, <1>11, <1>12, <1>13, DatabaseUnchanged

LEMMA UpdateIInv ==
    ASSUME IInv, NEW s \in Sessions, Update(s)
    PROVE  IInv'
  <1> DEFINE b == Target(s)
             r == seen[s].row
             q == seen[s].qty
             new == IF side[s] = "from" THEN TakenFrom(mv[s], q) ELSE q + mv[s].qty
             still == /\ Wrote(s, b) => own[s][b].exact
                      /\ q = QtySeen(s, b, r)
                      /\ side[s] = "from" => q >= mv[s].qty
             w == [row |-> r, qty |-> new, exact |-> still]
             last == ~(side[s] = "from" /\ mv[s].to # NoBin)
  <1> USE Constants DEF IInv
  <1>1. /\ at[s] = "update" /\ ~Locked(s, b, r) /\ Write(s, b, w)
        /\ item' = item /\ mv' = mv /\ seen' = seen /\ net' = net /\ inexact' = inexact
        /\ last => side' = side /\ at' = [at EXCEPT ![s] = "commit"]
        /\ ~last => /\ side' = [side EXCEPT ![s] = "to"]
                    /\ at' = [at EXCEPT ![s] = "get"]
    BY DEF Update
  <1>2. b \in Bins /\ b \in {mv[s].from, mv[s].to} /\ r \in Visible(s, b)
        /\ (Wrote(s, b) => r = own[s][b].row) /\ Admissible(mv[s])
    BY <1>1 DEF Progress, SelectedRow, Target, InTransaction
  <1>3. q \in Int /\ q >= 0 /\ mv[s].qty \in Int /\ mv[s].qty > 0
    BY <1>2 DEF TypeOK, NonNegativeWrites, Movement, Admissible
  <1>4. new \in Int /\ new >= 0 /\ w \in WriteRecord
    <2>1. new \in Int /\ new >= 0
      BY <1>3 DEF TakenFrom, Floor
    <2>2. r \in RowIds
      BY DEF TypeOK
    <2>3. still \in BOOLEAN
      OBVIOUS
    <2>4. QED
      BY <2>1, <2>2, <2>3 DEF WriteRecord
  <1> HIDE DEF new, still
  <1>5. /\ own' = [t \in Sessions |-> own'[t]]
        /\ DOMAIN own'[s] = DOMAIN own[s] \cup {b}
        /\ own'[s] \in [DOMAIN own'[s] -> WriteRecord]
        /\ own'[s][b] = w
        /\ \A c \in DOMAIN own[s] \ {b} : own'[s][c] = own[s][c]
        /\ \A t \in Sessions \ {s} : own'[t] = own[t]
    BY <1>1, <1>2, <1>4, WriteEffect
  <1>6. /\ last => at'[s] = "commit" /\ side'[s] = side[s]
        /\ ~last => at'[s] = "get" /\ side'[s] = "to" /\ side[s] = "from" /\ mv[s].to # NoBin
        /\ \A t \in Sessions \ {s} : /\ at'[t] = at[t] /\ side'[t] = side[t]
                                     /\ Target(t)' = Target(t)
    BY <1>1 DEF TypeOK, Target
  <1>7. TypeOK'
    <2>1. \A t \in Sessions : /\ DOMAIN own'[t] \subseteq Bins
                             /\ own'[t] \in [DOMAIN own'[t] -> WriteRecord]
      BY <1>2, <1>5 DEF TypeOK
    <2>2. /\ at' \in [Sessions -> InTransaction \cup {"idle", "done", "failed"}]
          /\ side' \in [Sessions -> {"from", "to"}]
      BY <1>1 DEF TypeOK, InTransaction
    <2>3. QED
      BY <1>1, <1>5, <2>1, <2>2 DEF TypeOK
  <1>8. mv[s].from \in Bins \cup {NoBin} /\ mv[s].to \in Bins \cup {NoBin}
    BY DEF TypeOK, Movement
  <1>9. Progress'
    <2>1. ~last => Target(s)' \in Bins
      BY <1>1, <1>6, <1>8 DEF Target
    <2>2. side[s] = "from" => b = mv[s].from
      BY DEF Target
    <2>3. side[s] = "to" => b = mv[s].to /\ mv[s].from \in DOMAIN own[s] \cup {NoBin}
      BY <1>1 DEF Target, Progress, InTransaction
    <2>4. side[s] \in {"from", "to"}
      BY DEF TypeOK
    <2>5. mv[s].from \in DOMAIN own'[s] \cup {NoBin}
      BY <1>5, <2>2, <2>3, <2>4
    <2>6. last => mv[s].to \in DOMAIN own'[s] \cup {NoBin}
      BY <1>5, <2>3, <2>4
    <2>7. DOMAIN own'[s] \subseteq {mv[s].from, mv[s].to}
      BY <1>2, <1>5 DEF Progress
    <2>8. QED
      BY <1>1, <1>2, <1>5, <1>6, <2>1, <2>5, <2>6, <2>7 DEF Progress, InTransaction
  <1>10. InsertedRows'
    BY <1>1, <1>6 DEF InsertedRows
  <1>11. HeldRows'
    BY <1>1, <1>2, <1>5 DEF HeldRows, Visible, Wrote
  <1>12. ExclusiveRows'
    BY <1>1, <1>5 DEF ExclusiveRows, Locked, Wrote
  <1>13. SelectedRow'
    BY <1>1, <1>5, <1>6 DEF SelectedRow, Wrote, Visible
  <1>14. UniqueInserts'
    <2>1. r \notin DOMAIN item[b] => Wrote(s, b) /\ r = own[s][b].row
      BY <1>2 DEF Visible
    <2>2. \A t \in Sessions : \A c \in DOMAIN own'[t] :
            own'[t][c].row \notin DOMAIN item[c] =>
              c \in DOMAIN own[t] /\ own[t][c].row = own'[t][c].row
      BY <1>5, <2>1 DEF Wrote
    <2>3. \A t \in Sessions : \A c \in Bins : InsertPending(t, c)' => InsertPending(t, c)
      BY <1>1, <2>2 DEF InsertPending, Wrote
    <2>4. ASSUME NEW t \in Sessions, NEW c \in DOMAIN own'[t],
                 c \in UniqueBins, own'[t][c].row \notin DOMAIN item[c]
          PROVE  DOMAIN item[c] = {} /\ ~InsertPending(t, c)'
      <3>1. c \in DOMAIN own[t] /\ own[t][c].row \notin DOMAIN item[c] /\ c \in Bins
        BY <1>7, <2>2, <2>4 DEF TypeOK
      <3>2. DOMAIN item[c] = {} /\ ~InsertPending(t, c)
        BY <2>4, <3>1 DEF UniqueInserts
      <3>3. QED
        BY <2>3, <3>1, <3>2
    <2>5. QED
      BY <1>1, <2>4 DEF UniqueInserts
  <1>15. Exactness'
    <2>1. \A t \in Sessions \ {s} : \A c : Partial(t, c)' = Partial(t, c)
      BY <1>1, <1>6 DEF Partial
    <2>2. ASSUME NEW c \in DOMAIN own[s] \ {b}
          PROVE  Partial(s, c)' = Partial(s, c)
      BY <1>1, <1>6 DEF Partial, Target, TypeOK
    <2>3. ASSUME still, NEW c \in Bins, c = b
          PROVE  new = Partial(s, c)'
                   + (IF r \in DOMAIN item[c] THEN item[c][r] ELSE 0)
      <3> DEFINE base == IF r \in DOMAIN item[b] THEN item[b][r] ELSE 0
      <3>1. base \in Int
        BY <1>2 DEF TypeOK
      <3>2. q = Partial(s, b) + base
        <4>1. CASE Wrote(s, b)
          BY <1>2, <2>3, <4>1 DEF still, QtySeen, Exactness, Wrote
        <4>2. CASE ~Wrote(s, b)
          <5>1. Partial(s, b) = 0
            BY <1>1, <1>2, <4>2 DEF Partial, Progress, Wrote, InTransaction, Target, TypeOK
          <5>2. QED
            BY <1>2, <1>3, <2>3, <3>1, <4>2, <5>1 DEF still, QtySeen, Visible
        <4>3. QED
          BY <4>1, <4>2
      <3>3. CASE side[s] = "from"
        <4>1. new = q - mv[s].qty
          BY <1>3, <2>3, <3>3 DEF new, still, TakenFrom, Floor
        <4>2. Partial(s, b) = 0 /\ c = mv[s].from
          BY <1>1, <2>3, <3>3 DEF Partial, Target
        <4>3. Partial(s, c)' = -mv[s].qty
          <5>1. CASE last
            <6>1. c # mv[s].to /\ at'[s] = "commit" /\ mv'[s] = mv[s]
              BY <1>1, <1>6, <3>3, <5>1
            <6>2. QED
              BY <1>3, <4>2, <6>1 DEF Partial
          <5>2. CASE ~last
            BY <1>1, <1>3, <1>6, <4>2, <5>2 DEF Partial
          <5>3. QED
            BY <5>1, <5>2
        <4>4. QED
          BY <1>3, <2>3, <3>1, <3>2, <4>1, <4>2, <4>3
      <3>4. CASE side[s] = "to"
        <4>1. new = q + mv[s].qty /\ last
          BY <3>4 DEF new
        <4>2. c = mv[s].to
          BY <2>3, <3>4 DEF Target
        <4>3. Partial(s, c) \in Int /\ Partial(s, c)' = Partial(s, c) + mv[s].qty
          BY <1>1, <1>3, <1>6, <3>4, <4>1, <4>2 DEF Partial
        <4>4. QED
          BY <1>3, <2>3, <3>1, <3>2, <4>1, <4>3
      <3>5. QED
        BY <3>3, <3>4 DEF TypeOK
    <2>4. ASSUME NEW t \in Sessions, NEW c \in DOMAIN own'[t], own'[t][c].exact
          PROVE  own'[t][c].qty = Partial(t, c)'
                   + (IF own'[t][c].row \in DOMAIN item'[c] THEN item'[c][own'[t][c].row] ELSE 0)
      <3>1. CASE t # s
        BY <1>1, <1>5, <2>1, <2>4, <3>1 DEF Exactness
      <3>2. CASE t = s /\ c # b
        BY <1>1, <1>5, <2>2, <2>4, <3>2 DEF Exactness
      <3>3. CASE t = s /\ c = b
        <4>1. still
          BY <1>5, <2>4, <3>3
        <4>2. own'[s][c].qty = new /\ own'[s][c].row = r
          BY <1>5, <3>3
        <4>3. QED
          BY <1>1, <1>2, <2>3, <3>3, <4>1, <4>2
      <3>4. QED
        BY <3>1, <3>2, <3>3
    <2>5. QED
      BY <2>4 DEF Exactness
  <1>16. NonNegativeWrites'
    BY <1>1, <1>4, <1>5 DEF NonNegativeWrites
  <1>17. QED
    BY <1>1, <1>7, <1>9, <1>10, <1>11, <1>12, <1>13, <1>14, <1>15, <1>16, DatabaseUnchanged

\* The committed rows after COMMIT.
LEMMA CommitEffect ==
    ASSUME IInv, NEW s \in Sessions, Commit(s)
    PROVE  /\ \A b \in DOMAIN own[s] :
                /\ DOMAIN item'[b] = DOMAIN item[b] \cup {own[s][b].row}
                /\ item'[b][own[s][b].row] = own[s][b].qty
                /\ \A r \in DOMAIN item[b] \ {own[s][b].row} : item'[b][r] = item[b][r]
                /\ item'[b] \in [DOMAIN item'[b] -> Int]
           /\ \A b \in Bins \ DOMAIN own[s] : item'[b] = item[b]
           /\ item' = [b \in Bins |-> item'[b]]
           /\ \A b \in Bins : net'[b] = net[b] + Delta(mv[s], b)
           /\ DOMAIN own'[s] = {}
           /\ own' = [t \in Sessions |-> own'[t]]
           /\ \A t \in Sessions \ {s} : own'[t] = own[t] /\ at'[t] = at[t]
           /\ at'[s] = "done" /\ at[s] = "commit"
           /\ side' = side /\ mv' = mv /\ seen' = seen
           /\ \A t \in Sessions : Target(t)' = Target(t)
           /\ \A b \in Bins : b \notin inexact'
                => b \notin inexact /\ (b \in DOMAIN own[s] => own[s][b].exact)
  <1> USE DEF IInv
  <1>1. DOMAIN own[s] \subseteq Bins
    BY DEF TypeOK
  <1>2. \A b \in Bins : item'[b] =
          IF b \in DOMAIN own[s]
          THEN [r \in DOMAIN item[b] \cup {own[s][b].row} |->
                  IF r = own[s][b].row THEN own[s][b].qty ELSE item[b][r]]
          ELSE item[b]
    BY DEF Commit, Installed, Wrote
  <1>3. ASSUME NEW b \in DOMAIN own[s]
        PROVE  own[s][b].qty \in Int /\ \A r \in DOMAIN item[b] : item[b][r] \in Int
    BY <1>1, <1>3 DEF TypeOK, WriteRecord
  <1>4. item' = [b \in Bins |-> item'[b]]
    BY DEF Commit, Installed
  <1>5. \A b \in Bins : net'[b] = net[b] + Delta(mv[s], b)
    BY DEF Commit, Installed
  <1>6. /\ DOMAIN own'[s] = {}
        /\ own' = [t \in Sessions |-> own'[t]]
        /\ \A t \in Sessions \ {s} : own'[t] = own[t] /\ at'[t] = at[t]
        /\ at'[s] = "done" /\ at[s] = "commit"
        /\ side' = side /\ mv' = mv /\ seen' = seen
        /\ \A t \in Sessions : Target(t)' = Target(t)
    BY DEF Commit, TypeOK, NoWrites, Target
  <1>7. \A b \in Bins : b \notin inexact'
          => b \notin inexact /\ (b \in DOMAIN own[s] => own[s][b].exact)
    BY DEF Commit
  <1>8. \A b \in DOMAIN own[s] :
          /\ DOMAIN item'[b] = DOMAIN item[b] \cup {own[s][b].row}
          /\ item'[b][own[s][b].row] = own[s][b].qty
          /\ \A r \in DOMAIN item[b] \ {own[s][b].row} : item'[b][r] = item[b][r]
          /\ item'[b] \in [DOMAIN item'[b] -> Int]
    BY <1>1, <1>2, <1>3
  <1>9. \A b \in Bins \ DOMAIN own[s] : item'[b] = item[b]
    BY <1>2
  <1>10. QED
    BY <1>4, <1>5, <1>6, <1>7, <1>8, <1>9

LEMMA CommitIInv ==
    ASSUME IInv, NEW s \in Sessions, Commit(s)
    PROVE  IInv'
  <1> USE Constants DEF IInv
  <1> DEFINE row(b) == own[s][b].row
  <1>1. /\ \A b \in DOMAIN own[s] :
             /\ DOMAIN item'[b] = DOMAIN item[b] \cup {row(b)}
             /\ item'[b][row(b)] = own[s][b].qty
             /\ \A r \in DOMAIN item[b] \ {row(b)} : item'[b][r] = item[b][r]
             /\ item'[b] \in [DOMAIN item'[b] -> Int]
        /\ \A b \in Bins \ DOMAIN own[s] : item'[b] = item[b]
        /\ item' = [b \in Bins |-> item'[b]]
        /\ \A b \in Bins : net'[b] = net[b] + Delta(mv[s], b)
    BY CommitEffect
  <1>2. /\ DOMAIN own'[s] = {}
        /\ own' = [t \in Sessions |-> own'[t]]
        /\ \A t \in Sessions \ {s} : own'[t] = own[t] /\ at'[t] = at[t]
        /\ at'[s] = "done" /\ at[s] = "commit"
        /\ side' = side /\ mv' = mv /\ seen' = seen
        /\ \A t \in Sessions : Target(t)' = Target(t)
    BY CommitEffect
  <1>3. \A b \in Bins : b \notin inexact'
          => b \notin inexact /\ (b \in DOMAIN own[s] => own[s][b].exact)
    BY CommitEffect
  <1>4. DOMAIN own[s] \subseteq Bins
    BY DEF TypeOK
  <1>5. \A b \in DOMAIN own[s] : row(b) \in DOMAIN item[b] \cup {s} /\ row(b) \in RowIds
    BY DEF HeldRows, TypeOK, RowIds
  <1>6. \A b \in Bins : /\ DOMAIN item[b] \subseteq DOMAIN item'[b]
                       /\ DOMAIN item'[b] \subseteq DOMAIN item[b] \cup {s}
    BY <1>1, <1>5
  <1>7. \A t \in Sessions \ {s} : \A b \in DOMAIN own[t] :
          /\ own[t][b].row \in DOMAIN item'[b] <=> own[t][b].row \in DOMAIN item[b]
          /\ own[t][b].row \in DOMAIN item[b] =>
                item'[b][own[t][b].row] = item[b][own[t][b].row]
    <2> SUFFICES ASSUME NEW t \in Sessions \ {s}, NEW b \in DOMAIN own[t]
                 PROVE  /\ own[t][b].row \in DOMAIN item'[b] <=> own[t][b].row \in DOMAIN item[b]
                        /\ own[t][b].row \in DOMAIN item[b] =>
                              item'[b][own[t][b].row] = item[b][own[t][b].row]
      OBVIOUS
    <2>1. b \in Bins
      BY DEF TypeOK
    <2>2. CASE b \in DOMAIN own[s]
      <3>1. own[t][b].row # row(b)
        BY <2>2 DEF ExclusiveRows
      <3>2. QED
        BY <1>1, <2>2, <3>1
    <2>3. CASE b \notin DOMAIN own[s]
      BY <1>1, <2>1, <2>3
    <2>4. QED
      BY <2>2, <2>3
  <1>8. TypeOK'
    <2>1. \A b \in Bins : /\ DOMAIN item'[b] \subseteq RowIds
                         /\ item'[b] \in [DOMAIN item'[b] -> Int]
      <3> TAKE b \in Bins
      <3>1. /\ DOMAIN item[b] \subseteq RowIds
            /\ item[b] \in [DOMAIN item[b] -> Int]
        BY DEF TypeOK
      <3>2. CASE b \in DOMAIN own[s]
        BY <1>1, <1>5, <3>1, <3>2
      <3>3. CASE b \notin DOMAIN own[s]
        BY <1>1, <3>1, <3>3
      <3>4. QED
        BY <3>2, <3>3
    <2>2. \A t \in Sessions : /\ DOMAIN own'[t] \subseteq Bins
                             /\ own'[t] \in [DOMAIN own'[t] -> WriteRecord]
      BY <1>2 DEF TypeOK, Commit, NoWrites
    <2>3. at' \in [Sessions -> InTransaction \cup {"idle", "done", "failed"}]
      BY DEF TypeOK, Commit
    <2>4. net' \in [Bins -> Int]
      BY DEF TypeOK, Commit, Delta, Movement
    <2>5. inexact' \subseteq Bins
      BY <1>4 DEF TypeOK, Commit
    <2>6. QED
      BY <1>1, <1>2, <2>1, <2>2, <2>3, <2>4, <2>5 DEF TypeOK
  <1>9. Progress'
    BY <1>2 DEF Progress, InTransaction
  <1>10. InsertedRows'
    BY <1>2, <1>6 DEF InsertedRows
  <1>11. HeldRows'
    BY <1>2, <1>6, <1>7 DEF HeldRows
  <1>12. ExclusiveRows'
    BY <1>2 DEF ExclusiveRows
  <1>13. SelectedRow'
    <2>1. \A t \in Sessions \ {s} : at[t] \in {"create", "update"} => Target(t) \in Bins
      BY DEF Progress
    <2>2. QED
      BY <1>2, <1>6, <2>1 DEF SelectedRow, Wrote, Visible
  <1>14. UniqueInserts'
    <2>1. ASSUME NEW t \in Sessions \ {s}, NEW b \in DOMAIN own[t], b \in UniqueBins,
                 own[t][b].row \notin DOMAIN item[b]
          PROVE  DOMAIN item'[b] = {} /\ ~InsertPending(t, b)'
      <3>1. DOMAIN item[b] = {} /\ ~InsertPending(t, b)
        BY <2>1 DEF UniqueInserts
      <3>2. b \notin DOMAIN own[s]
        BY <1>5, <3>1 DEF InsertPending, Wrote
      <3>3. item'[b] = item[b]
        BY <1>1, <2>1, <3>2
      <3>4. QED
        BY <1>2, <3>1, <3>2, <3>3 DEF InsertPending, Wrote
    <2>2. QED
      BY <1>2, <1>7, <2>1 DEF UniqueInserts
  <1>15. Exactness'
    BY <1>2, <1>7 DEF Exactness, Partial
  <1>16. NonNegativeWrites'
    BY <1>2 DEF NonNegativeWrites
  <1>17. NoRowNoOpening' /\ NonNegative'
    BY <1>1, <1>4, <1>6 DEF NoRowNoOpening, NonNegative, NonNegativeWrites
  <1>18. OneRowWhereUnique'
    <2>1. \A b \in DOMAIN own[s] : b \in UniqueBins /\ row(b) \notin DOMAIN item[b]
            => DOMAIN item[b] = {}
      BY DEF UniqueInserts
    <2>2. QED
      BY <1>1, <2>1 DEF OneRowWhereUnique
  <1>19. BalanceFollowsLedger'
    <2> SUFFICES ASSUME NEW b \in Bins, Reliable(b)'
                 PROVE  /\ \A r \in DOMAIN item'[b] : item'[b][r] = Opening[b] + net'[b]
                        /\ DOMAIN item'[b] = {} => net'[b] = 0
      BY DEF BalanceFollowsLedger
    <2>1. Reliable(b) /\ \A q, r \in DOMAIN item'[b] : q = r
      BY <1>3, <1>6 DEF Reliable
    <2>2. /\ \A r \in DOMAIN item[b] : item[b][r] = Opening[b] + net[b]
          /\ DOMAIN item[b] = {} => net[b] = 0 /\ Opening[b] = 0
      BY <2>1 DEF BalanceFollowsLedger, NoRowNoOpening
    <2>3. net[b] \in Int /\ Opening[b] \in Int /\ Delta(mv[s], b) \in Int
      BY DEF TypeOK, Delta, Movement
    <2>4. CASE b \in DOMAIN own[s]
      <3>1. own[s][b].exact
        BY <1>3, <2>4 DEF Reliable
      <3>2. Partial(s, b) = Delta(mv[s], b)
        BY <1>2 DEF Partial, Delta
      <3>3. own[s][b].qty = Delta(mv[s], b)
              + (IF row(b) \in DOMAIN item[b] THEN item[b][row(b)] ELSE 0)
        BY <2>4, <3>1, <3>2 DEF Exactness
      <3>4. row(b) \notin DOMAIN item[b] => DOMAIN item[b] = {}
        BY <1>1, <2>1, <2>4
      <3>5. own[s][b].qty = Opening[b] + net[b] + Delta(mv[s], b)
        BY <2>2, <2>3, <3>3, <3>4
      <3>6. \A r \in DOMAIN item'[b] : r = row(b)
        BY <1>1, <2>1, <2>4
      <3>7. QED
        BY <1>1, <2>3, <2>4, <3>5, <3>6
    <2>5. CASE b \notin DOMAIN own[s]
      <3>1. b # mv[s].from /\ b # mv[s].to
        BY <1>2, <2>5 DEF Progress, InTransaction
      <3>2. Delta(mv[s], b) = 0
        BY <3>1 DEF Delta
      <3>3. QED
        BY <1>1, <2>2, <2>3, <2>5, <3>2
    <2>6. QED
      BY <2>4, <2>5
  <1>20. QED
    BY <1>8, <1>9, <1>10, <1>11, <1>12, <1>13, <1>14, <1>15, <1>16, <1>17, <1>18, <1>19

-----------------------------------------------------------------------------
LEMMA StepIInv == IInv /\ [Next]_vars => IInv'
  <1> SUFFICES ASSUME IInv, [Next]_vars PROVE IInv'
    OBVIOUS
  <1> USE Constants
  <1>1. ASSUME NEW s \in Sessions, Begin(s) PROVE IInv'
    <2>1. PICK m \in Jobs : Enter(s, m)
      BY <1>1 DEF Begin
    <2>2. QED
      BY <2>1, EnterIInv
  <1>2. ASSUME NEW s \in Sessions, BeginReversal(s) PROVE IInv'
    <2>1. PICK t \in Sessions : Enter(s, Reversal(mv[t]))
      BY <1>2 DEF BeginReversal
    <2>2. Reversal(mv[t]) \in Movement
      BY DEF IInv, TypeOK, Movement, Reversal, Swap, MovementTypes
    <2>3. QED
      BY <2>1, <2>2, EnterIInv
  <1>3. ASSUME NEW s \in Sessions, GetMany(s) PROVE IInv'
    BY <1>3, RollbackIInv DEF GetMany, InTransaction
  <1>4. ASSUME NEW s \in Sessions, Overdraw(s) PROVE IInv'
    BY <1>4, RollbackIInv DEF Overdraw, InTransaction
  <1>5. ASSUME NEW s \in Sessions, LockAbort(s) PROVE IInv'
    BY <1>5, RollbackIInv DEF LockAbort, Blocked, InTransaction
  <1>6. ASSUME NEW s \in Sessions, Crash(s) PROVE IInv'
    BY <1>6, RollbackIInv DEF Crash
  <1>7. CASE UNCHANGED vars
    <2> USE <1>7 DEF vars, IInv
    <2>1. TypeOK' /\ Progress'
      BY DEF TypeOK, Progress, Target
    <2>2. UniqueInserts' /\ Exactness'
      BY DEF UniqueInserts, InsertPending, Wrote, Exactness, Partial
    <2>3. InsertedRows' /\ HeldRows' /\ ExclusiveRows' /\ NonNegativeWrites'
      BY DEF InsertedRows, HeldRows, ExclusiveRows, NonNegativeWrites
    <2>4. SelectedRow'
      BY DEF SelectedRow, Wrote, Visible, Target
    <2>5. QED
      BY <2>1, <2>2, <2>3, <2>4, DatabaseUnchanged
  <1>8. CASE AllAnswered
    BY <1>7, <1>8 DEF AllAnswered
  <1>9. QED
    BY <1>1, <1>2, <1>3, <1>4, <1>5, <1>6, <1>7, <1>8, GetIInv, RetryIInv, CreateIInv,
       UpdateIInv, CommitIInv DEF Next, Step

LEMMA Invariance == Spec => []IInv
  BY InitIInv, StepIInv, PTL DEF Spec

\* Every balance in the database is a quantity the code may show: the variables keep
\* their types through every interleaving of post_movement calls.
THEOREM TypeCorrect == Spec => []TypeOK
  <1>1. IInv => TypeOK
    BY DEF IInv
  <1>2. QED
    BY <1>1, Invariance, PTL

\* The stock check of post_movement, made on a quantity that may be stale, still keeps
\* every committed balance at zero or above.
THEOREM NeverNegative == Spec => []NonNegative
  <1>1. IInv => NonNegative
    BY DEF IInv
  <1>2. QED
    BY <1>1, Invariance, PTL

\* Where the unique index binds, get_or_create never leaves two rows for a key.
THEOREM UniqueRows == Spec => []OneRowWhereUnique
  <1>1. IInv => OneRowWhereUnique
    BY DEF IInv
  <1>2. QED
    BY <1>1, Invariance, PTL

\* qty_on_hand equals the ledger in every bin that has one StockItem row and where no
\* committed write overwrote a concurrent one or was floored.
THEOREM LedgerFollowed == Spec => []BalanceFollowsLedger
  <1>1. IInv => BalanceFollowsLedger
    BY DEF IInv
  <1>2. QED
    BY <1>1, Invariance, PTL

-----------------------------------------------------------------------------
\* In a reliable bin the balance is the opening quantity and the ledger entries.
LEMMA OnHandIsLedger ==
    IInv => \A b \in Bins : Reliable(b) =>
              OnHand(b) = Opening[b] + net[b] /\ OnHand(b) >= 0
  <1> SUFFICES ASSUME IInv, NEW b \in Bins, Reliable(b)
               PROVE  OnHand(b) = Opening[b] + net[b] /\ OnHand(b) >= 0
    OBVIOUS
  <1> USE Constants DEF IInv
  <1>1. CASE DOMAIN item[b] = {}
    BY <1>1 DEF OnHand, BalanceFollowsLedger, NoRowNoOpening
  <1>2. CASE DOMAIN item[b] # {}
    <2>1. PICK r \in DOMAIN item[b] : OnHand(b) = item[b][r]
      BY <1>2 DEF OnHand
    <2>2. QED
      BY <2>1 DEF BalanceFollowsLedger, NonNegative
  <1>3. QED
    BY <1>1, <1>2

\* The two state functions the refinement maps to.
Balance == [b \in {c \in Bins : Reliable(c)} |-> OnHand(b)]

LEMMA InitMaps == Init => Ledger!Init
  <1> SUFFICES ASSUME Init PROVE Ledger!Init
    OBVIOUS
  <1>1. Movements = [i \in {} |-> 0]
    <2>1. {t \in Sessions : at[t] = "done"} = {}
      BY DEF Init
    <2>2. QED
      BY <2>1 DEF Movements
  <1>2. \A b \in Bins : Reliable(b) /\ OnHand(b) = Opening[b]
    <2>1. IInv
      BY InitIInv
    <2>2. \A b \in Bins : Reliable(b)
      BY DEF Init, Reliable
    <2>3. \A b \in Bins : net[b] = 0 /\ Opening[b] \in Nat
      BY Constants DEF Init
    <2>4. \A b \in Bins : OnHand(b) = Opening[b] + net[b]
      BY <2>1, <2>2, OnHandIsLedger
    <2>5. ASSUME NEW b \in Bins PROVE Opening[b] + net[b] = Opening[b]
      <3>1. net[b] = 0 /\ Opening[b] \in Int
        BY <2>3
      <3>2. QED
        BY <3>1
    <2>6. QED
      BY <2>2, <2>4, <2>5
  <1>3. Balance = [b \in Bins |-> Opening[b]]
    BY <1>2 DEF Balance
  <1>4. QED
    BY <1>1, <1>3 DEF Ledger!Init, Balance

\* A step that commits nothing is a stutter of the ledger.
LEMMA OtherStepsStutter ==
    ASSUME IInv, UNCHANGED <<item, inexact>>,
           \A t \in Sessions : (at'[t] = "done") <=> (at[t] = "done"),
           \A t \in Sessions : at[t] = "done" => mv'[t] = mv[t]
    PROVE  UNCHANGED <<Movements, Balance>>
  <1>1. {t \in Sessions : at'[t] = "done"} = {t \in Sessions : at[t] = "done"}
    OBVIOUS
  <1>2. Movements' = Movements
    BY <1>1 DEF Movements
  <1>3. \A b \in Bins : /\ Reliable(b)' <=> Reliable(b)
                       /\ OnHand(b)' = OnHand(b)
    BY DEF Reliable, OnHand
  <1>4. {c \in Bins : Reliable(c)}' = {c \in Bins : Reliable(c)}
    BY <1>3
  <1>5. Balance' = Balance
    BY <1>3, <1>4 DEF Balance
  <1>6. QED
    BY <1>2, <1>5

\* A commit posts one movement, with both of its ends.
LEMMA CommitPosts ==
    ASSUME IInv, IInv', NEW s \in Sessions, Commit(s)
    PROVE  Ledger!Post(s)
  <1> USE Constants DEF IInv
  <1> DEFINE lost == {b \in DOMAIN Balance : ~Reliable(b)'}
  <1>0. \A b \in Bins : Reliable(b)' => OnHand(b)' = Opening[b] + net'[b] /\ OnHand(b)' >= 0
    <2>1. (IInv => \A b \in Bins : Reliable(b) =>
              OnHand(b) = Opening[b] + net[b] /\ OnHand(b) >= 0)'
      BY OnHandIsLedger, PTL
    <2>2. QED
      BY <2>1
  <1>1. /\ at[s] = "commit" /\ at'[s] = "done" /\ mv' = mv
        /\ \A t \in Sessions \ {s} : at'[t] = at[t]
        /\ \A b \in Bins : net'[b] = net[b] + Delta(mv[s], b)
        /\ \A b \in Bins \ DOMAIN own[s] : item'[b] = item[b]
    BY CommitEffect
  <1>2. s \notin DOMAIN Movements /\ DOMAIN Movements' = DOMAIN Movements \cup {s}
    BY <1>1 DEF Movements
  <1>3. \A i \in DOMAIN Movements : Movements'[i] = Movements[i]
    BY <1>1 DEF Movements
  <1>4. Movements'[s] = mv[s] /\ mv[s] \in Movement /\ Admissible(mv[s])
    BY <1>1 DEF Movements, TypeOK, Progress, InTransaction
  <1>5. \A b \in Bins : Reliable(b)' => Reliable(b)
    <2>1. ASSUME NEW b \in Bins PROVE DOMAIN item[b] \subseteq DOMAIN item'[b]
      <3>1. CASE b \in DOMAIN own[s]
        <4>1. DOMAIN item'[b] = DOMAIN item[b] \cup {own[s][b].row}
          BY <3>1, CommitEffect
        <4>2. QED
          BY <4>1
      <3>2. CASE b \notin DOMAIN own[s]
        BY <1>1, <2>1, <3>2
      <3>3. QED
        BY <3>1, <3>2
    <2>2. \A b \in Bins : b \notin inexact' => b \notin inexact
      BY CommitEffect
    <2>3. QED
      BY <2>1, <2>2 DEF Reliable
  <1>6. lost \in SUBSET {b \in DOMAIN Balance : b \in {mv[s].from, mv[s].to}}
    <2>1. ASSUME NEW b \in Bins \ DOMAIN own[s], Reliable(b)
          PROVE  Reliable(b)'
      <3>1. b \notin inexact'
        BY <2>1 DEF Commit, Reliable
      <3>2. QED
        BY <1>1, <2>1, <3>1 DEF Reliable
    <2>2. DOMAIN own[s] \subseteq {mv[s].from, mv[s].to}
      BY DEF Progress
    <2>3. QED
      BY <2>1, <2>2 DEF Balance
  <1>7. DOMAIN Balance' = DOMAIN Balance \ lost
    BY <1>5 DEF Balance
  <1>8. \A b \in DOMAIN Balance \ lost : Balance'[b] = Balance[b] + Delta(mv[s], b)
    <2> TAKE b \in DOMAIN Balance \ lost
    <2>1. b \in Bins /\ Reliable(b) /\ Reliable(b)'
      BY DEF Balance
    <2>2. Balance[b] = Opening[b] + net[b]
      BY <2>1, OnHandIsLedger DEF Balance
    <2>3. Balance'[b] = Opening[b] + net'[b]
      BY <1>0, <2>1 DEF Balance
    <2>4. net[b] \in Int /\ Opening[b] \in Int /\ Delta(mv[s], b) \in Int
      BY <1>4, <2>1 DEF TypeOK, Delta, Movement
    <2>5. QED
      BY <1>1, <2>1, <2>2, <2>3, <2>4
  <1>9. Balance' = [b \in DOMAIN Balance \ lost |-> Balance[b] + Delta(mv[s], b)]
    <2>1. Balance' = [b \in DOMAIN Balance' |-> Balance'[b]]
      BY DEF Balance
    <2>2. QED
      BY <1>7, <1>8, <2>1
  <1>10. \A b \in DOMAIN Balance' : Balance'[b] >= 0
    BY <1>0 DEF Balance
  <1>11. \E gone \in SUBSET {b \in DOMAIN Balance :
                               b \in {Movements'[s].from, Movements'[s].to}} :
           Balance' = [b \in DOMAIN Balance \ gone |->
                         Balance[b] + Delta(Movements'[s], b)]
    BY <1>4, <1>6, <1>9
  <1>12. Movements'[s] \in Movement /\ Admissible(Movements'[s])
    BY <1>4
  <1>13. QED
    BY <1>2, <1>3, <1>10, <1>11, <1>12 DEF Ledger!Post, Balance, Ledger!Movement,
       Ledger!Admissible, Ledger!Delta, Movement, Admissible, Delta, Ledger!MovementTypes,
       MovementTypes, Ledger!Corrections, Corrections

LEMMA StepMaps ==
    ASSUME IInv, IInv', [Next]_vars
    PROVE  [Ledger!Next]_<<Movements, Balance>>
  <1> DEFINE Stutters ==
        /\ UNCHANGED <<item, inexact>>
        /\ \A t \in Sessions : (at'[t] = "done") <=> (at[t] = "done")
        /\ \A t \in Sessions : at[t] = "done" => mv'[t] = mv[t]
  <1> USE DEF IInv, TypeOK
  <1>1. ASSUME NEW s \in Sessions, Begin(s) \/ BeginReversal(s) PROVE Stutters
    BY <1>1 DEF Begin, BeginReversal, Enter
  <1>2. ASSUME NEW s \in Sessions, Get(s) \/ GetNone(s) \/ Create(s) \/ CreateConflict(s)
        PROVE  Stutters
    BY <1>2 DEF Get, GetNone, Create, CreateConflict
  <1>3. ASSUME NEW s \in Sessions, GetMany(s) \/ Overdraw(s) \/ LockAbort(s) \/ Crash(s)
        PROVE  Stutters
    BY <1>3 DEF GetMany, Overdraw, LockAbort, Blocked, Crash, Rollback, InTransaction
  <1>4. ASSUME NEW s \in Sessions, Update(s) PROVE Stutters
    BY <1>4 DEF Update
  <1>5. ASSUME NEW s \in Sessions, Commit(s) PROVE Ledger!Next
    BY <1>5, CommitPosts DEF Ledger!Next
  <1>6. CASE AllAnswered \/ UNCHANGED vars
    <2>1. Stutters
      BY <1>6 DEF AllAnswered, vars
    <2>2. QED
      BY <2>1, OtherStepsStutter
  <1>7. ASSUME Stutters PROVE UNCHANGED <<Movements, Balance>>
    BY <1>7, OtherStepsStutter
  <1>8. QED
    BY <1>1, <1>2, <1>3, <1>4, <1>5, <1>6, <1>7 DEF Next, Step

\* Concurrent post_movement calls implement the ledger promise: each movement is posted
\* at most once and with both of its ends, and every balance that leaves the promise is
\* at a bin of the movement that made it leave.
THEOREM SessionsImplementLedger == Spec => ImplementsLedger
  <1>1. Init => Ledger!Init
    BY InitMaps
  <1>2. IInv /\ IInv' /\ [Next]_vars => [Ledger!Next]_<<Movements, Balance>>
    BY StepMaps
  <1>3. QED
    BY <1>1, <1>2, Invariance, PTL DEF Spec, ImplementsLedger, Ledger!Spec, Balance
=============================================================================
