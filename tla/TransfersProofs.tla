--------------------------- MODULE TransfersProofs ---------------------------
(***************************************************************************)
(* Proofs about Transfers, for any number of transfers, lines and          *)
(* requests: which lines have moved, and that none has moved twice.        *)
(***************************************************************************)
EXTENDS Transfers, TLAPS

Typed == /\ status \in [Transfers -> Statuses]
         /\ lines \subseteq Line
         /\ journal \subseteq Entry
         /\ req \in [Requests -> Request \cup {Idle}]

\* Every key in a row or in the ledger has been given out, and names one row.
Keys == /\ \A l \in lines : l.id \in used
        /\ \A e \in journal : e.line \in used
        /\ \A k, l \in lines : k.id = l.id => k = l

\* The foreign keys: a line has its transfer, and moves under that transfer only.
References == /\ \A l \in lines : status[l.transfer] # "none"
              /\ \A l \in lines, e \in journal : e.line = l.id => e.transfer = l.transfer

IInv == Typed /\ Keys /\ References /\ NothingMovedUnshipped /\ MatchedUnlessLate

LEMMA InitIInv == Init => IInv
  BY TransfersAssumption
  DEF Init, IInv, Typed, Keys, References, NothingMovedUnshipped, MatchedUnlessLate, Statuses

\* A step that only changes what a request remembers.
LEMMA DatabaseUnchanged ==
    ASSUME IInv, UNCHANGED <<status, lines, used, journal, late>>,
           req' \in [Requests -> Request \cup {Idle}]
    PROVE  IInv'
  BY DEF IInv, Typed, Keys, References, NothingMovedUnshipped, MatchedUnlessLate, Moved

LEMMA AnswerTyped ==
    ASSUME IInv, NEW r \in Requests, Answer(r)
    PROVE  req' \in [Requests -> Request \cup {Idle}]
  BY DEF IInv, Typed, Answer

LEMMA RefuseIInv ==
    ASSUME IInv, NEW r \in Requests, Refuse(r)
    PROVE  IInv'
  BY AnswerTyped, DatabaseUnchanged DEF Refuse

LEMMA LoadIInv ==
    ASSUME IInv, NEW r \in Requests, Load(r)
    PROVE  IInv'
  <1>1. req' \in [Requests -> Request \cup {Idle}]
    BY DEF IInv, Typed, Load, LoadForAdd, LoadForRemove, LoadForShip, LoadForReceive,
           LoadForDelete, Loaded, Request, Line
  <1>2. UNCHANGED <<status, lines, used, journal, late>>
    BY DEF Load, LoadForAdd, LoadForRemove, LoadForShip, LoadForReceive, LoadForDelete, Loaded
  <1>3. QED
    BY <1>1, <1>2, DatabaseUnchanged

\* The transfer gets its first status; it has no line and no movement yet.
LEMMA CreateIInv ==
    ASSUME IInv, NEW t \in Transfers, Create(t)
    PROVE  IInv'
  <1> USE DEF IInv, Create
  <1>1. Typed' /\ Keys'
    BY DEF Typed, Keys, Statuses
  <1>2. \A u \in Transfers \ {t} : status'[u] = status[u]
    BY DEF Typed
  <1>3. References' /\ NothingMovedUnshipped'
    BY <1>2 DEF Typed, Line, Entry, References, NothingMovedUnshipped
  <1>4. MatchedUnlessLate'
    BY <1>2 DEF Typed, Line, MatchedUnlessLate, Moved
  <1>5. QED
    BY <1>1, <1>3, <1>4

LEMMA CancelIInv ==
    ASSUME IInv, NEW t \in Transfers, Cancel(t)
    PROVE  IInv'
  <1> USE DEF IInv, Cancel
  <1>1. Typed' /\ Keys'
    BY DEF Typed, Keys, Statuses
  <1>2. status[t] = "draft" /\ status'[t] = "cancelled"
        /\ \A u \in Transfers \ {t} : status'[u] = status[u]
    BY DEF Typed
  <1>3. References' /\ NothingMovedUnshipped'
    BY <1>2 DEF Typed, Line, Entry, References, NothingMovedUnshipped
  <1>4. MatchedUnlessLate'
    BY <1>2 DEF Typed, Line, MatchedUnlessLate, Moved
  <1>5. QED
    BY <1>1, <1>3, <1>4

\* The new line has a fresh key, so the ledger does not know it yet.
LEMMA AddLineIInv ==
    ASSUME IInv, NEW r \in Requests, AddLine(r)
    PROVE  IInv'
  <1> DEFINE t == req[r].transfer
  <1>1. CASE status[t] = "none" /\ Refuse(r)
    BY <1>1, RefuseIInv
  <1>2. CASE status[t] # "none" /\ ~Refuse(r)
    <2>1. PICK id \in LineIds \ used, f \in Forms :
            /\ lines' = lines \cup {[id |-> id, transfer |-> t, qty |-> f.qty,
                                     source |-> f.source, dest |-> f.dest]}
            /\ used' = used \cup {id}
            /\ late' = IF status[t] = "draft" THEN late ELSE late \cup {id}
      BY <1>2 DEF AddLine
    <2> PICK new : new = [id |-> id, transfer |-> t, qty |-> f.qty,
                          source |-> f.source, dest |-> f.dest]
      OBVIOUS
    <2>2. UNCHANGED <<status, journal>> /\ Answer(r)
      BY <1>2 DEF AddLine
    <2>3. t \in Transfers
      BY DEF AddLine, IInv, Typed, Request, Idle
    <2>4. new \in Line /\ new.id = id /\ new.transfer = t
      BY <2>3, TransfersAssumption DEF Line
    <2>5. \A e \in journal : e.line # id
      BY DEF IInv, Keys
    <2>6. lines' = lines \cup {new}
      BY <2>1
    <2>7. Typed'
      BY <2>2, <2>4, <2>6, AnswerTyped DEF IInv, Typed
    <2>8. Keys'
      BY <2>1, <2>2, <2>4, <2>6 DEF IInv, Keys
    <2>9. References' /\ NothingMovedUnshipped'
      BY <1>2, <2>2, <2>4, <2>5, <2>6 DEF IInv, References, NothingMovedUnshipped
    <2>10. MatchedUnlessLate'
      <3>1. ASSUME NEW l \in lines, l.id \notin late'
            PROVE  /\ status'[l.transfer] \in {"in_transit", "received"} => Moved(l, "issue")'
                   /\ status'[l.transfer] = "received" <=> Moved(l, "receipt")'
        BY <2>1, <2>2, <3>1 DEF IInv, MatchedUnlessLate, Moved
      <3>2. ~Moved(new, "receipt")'
        BY <2>2, <2>4, <2>5 DEF Moved
      <3>3. new.id \notin late' => status'[new.transfer] = "draft"
        BY <2>1, <2>2, <2>4
      <3>4. QED
        BY <2>6, <3>1, <3>2, <3>3 DEF MatchedUnlessLate
    <2>11. QED
      BY <2>7, <2>8, <2>9, <2>10 DEF IInv
  <1>3. CASE Refuse(r)
    BY <1>3, RefuseIInv
  <1>4. QED
    BY <1>1, <1>2, <1>3 DEF AddLine

LEMMA RemoveLineIInv ==
    ASSUME IInv, NEW r \in Requests, RemoveLine(r)
    PROVE  IInv'
  <1>1. lines' \subseteq lines /\ late \subseteq late' /\ UNCHANGED <<status, used, journal>>
        /\ Answer(r)
    BY DEF RemoveLine
  <1>2. Typed'
    BY <1>1, AnswerTyped DEF IInv, Typed
  <1>3. QED
    BY <1>1, <1>2 DEF IInv, Keys, References, NothingMovedUnshipped, MatchedUnlessLate, Moved

LEMMA DeleteIInv ==
    ASSUME IInv, NEW r \in Requests, Delete(r)
    PROVE  IInv'
  <1> DEFINE t == req[r].transfer
  <1>1. t \in Transfers
    BY DEF Delete, IInv, Typed, Request, Idle
  <1>2. /\ lines' \subseteq lines /\ \A l \in lines' : l.transfer # t
        /\ UNCHANGED <<used, journal, late>> /\ Answer(r)
        /\ status' = [status EXCEPT ![t] = "none"]
    BY DEF Delete, LinesOf
  <1> HIDE DEF t
  <1>3. Typed'
    BY <1>1, <1>2, AnswerTyped DEF IInv, Typed, Statuses
  <1>4. status'[t] = "none" /\ \A u \in Transfers \ {t} : status'[u] = status[u]
    BY <1>1, <1>2 DEF IInv, Typed
  <1>5. Keys' /\ References' /\ NothingMovedUnshipped'
    BY <1>2, <1>4 DEF IInv, Typed, Line, Entry, Keys, References, NothingMovedUnshipped
  <1>6. MatchedUnlessLate'
    BY <1>2, <1>4 DEF IInv, Typed, Line, MatchedUnlessLate, Moved
  <1>7. QED
    BY <1>3, <1>5, <1>6 DEF IInv

(***************************************************************************)
(* Shipping and receiving are the same step up to the kind of movement:    *)
(* every line of the transfer moves, and no other line does.               *)
(***************************************************************************)
LEMMA PostLines ==
    ASSUME IInv, NEW t \in Transfers, NEW goods,
           NEW kind \in {"issue", "receipt"}, NEW to \in {"in_transit", "received"},
           goods \subseteq Entry,
           \A e \in goods : e.transfer = t /\ e.kind = kind /\ e.line \in used
                            /\ \A l \in lines : e.line = l.id => l.transfer = t,
           \A l \in LinesOf(t) : \E e \in goods :
               /\ e.line = l.id /\ e.qty = l.qty
               /\ e.bin = (IF kind = "issue" THEN l.source ELSE l.dest),
           kind = "issue" => status[t] = "draft" /\ to = "in_transit",
           kind = "receipt" => status[t] = "in_transit" /\ to = "received",
           status' = [status EXCEPT ![t] = to],
           journal' = journal \cup goods,
           UNCHANGED <<lines, used, late>>,
           req' \in [Requests -> Request \cup {Idle}]
    PROVE  IInv'
  <1>1. status'[t] = to /\ \A u \in Transfers \ {t} : status'[u] = status[u]
    BY DEF IInv, Typed
  <1>2. Typed' /\ Keys'
    BY DEF IInv, Typed, Keys, Statuses
  <1>3. References' /\ NothingMovedUnshipped'
    BY <1>1 DEF IInv, Typed, Line, Entry, References, NothingMovedUnshipped
  <1>4. MatchedUnlessLate'
    <2> SUFFICES ASSUME NEW l \in lines, l.id \notin late
                 PROVE  /\ status'[l.transfer] \in {"in_transit", "received"}
                             => Moved(l, "issue")'
                        /\ status'[l.transfer] = "received" <=> Moved(l, "receipt")'
      BY DEF MatchedUnlessLate
    <2>1. l.transfer \in Transfers
      BY DEF IInv, Typed, Line
    <2>2. /\ status[l.transfer] \in {"in_transit", "received"} => Moved(l, "issue")
          /\ status[l.transfer] = "received" <=> Moved(l, "receipt")
      BY DEF IInv, MatchedUnlessLate
    <2>3. /\ Moved(l, "issue") => Moved(l, "issue")'
          /\ Moved(l, "receipt") => Moved(l, "receipt")'
      BY DEF Moved
    <2>4. CASE l.transfer = t
      <3>1. Moved(l, kind)'
        BY <2>4 DEF Moved, LinesOf
      <3>2. kind = "issue" => ~Moved(l, "receipt")'
        BY <2>2, <2>4 DEF Moved
      <3>3. QED
        BY <1>1, <2>2, <2>3, <2>4, <3>1, <3>2
    <2>5. CASE l.transfer # t
      <3>1. Moved(l, "receipt")' => Moved(l, "receipt")
        BY <2>5 DEF Moved
      <3>2. QED
        BY <1>1, <2>1, <2>2, <2>3, <2>5, <3>1
    <2>6. QED
      BY <2>4, <2>5
  <1>5. QED
    BY <1>2, <1>3, <1>4 DEF IInv

LEMMA ShipIInv ==
    ASSUME IInv, NEW r \in Requests, Ship(r)
    PROVE  IInv'
  <1> DEFINE t == req[r].transfer
  <1>1. CASE Refuse(r)
    BY <1>1, RefuseIInv
  <1>2. CASE ~Refuse(r)
    <2>1. /\ status[t] = "draft" /\ status' = [status EXCEPT ![t] = "in_transit"]
          /\ journal' = journal \cup Issues(t) /\ Answer(r)
          /\ UNCHANGED <<lines, used, late>>
      BY <1>2 DEF Ship, Post
    <2>2. t \in Transfers
      BY DEF Ship, IInv, Typed, Request, Idle
    <2> HIDE DEF t
    <2>3. Issues(t) \subseteq Entry
      BY <2>2 DEF Issues, LinesOf, IInv, Typed, Line, Entry
    <2>4. \A e \in Issues(t) : e.transfer = t /\ e.kind = "issue" /\ e.line \in used
                               /\ \A l \in lines : e.line = l.id => l.transfer = t
      BY DEF Issues, LinesOf, IInv, Keys
    <2>5. ASSUME NEW l \in LinesOf(t)
          PROVE  \E e \in Issues(t) :
                   /\ e.line = l.id /\ e.qty = l.qty
                   /\ e.bin = (IF "issue" = "issue" THEN l.source ELSE l.dest)
      <3>1. [line |-> l.id, transfer |-> t, kind |-> "issue", bin |-> l.source,
             qty |-> l.qty] \in Issues(t)
        BY DEF Issues
      <3>2. QED
        BY <3>1
    <2>6. req' \in [Requests -> Request \cup {Idle}]
      BY <2>1, AnswerTyped
    <2> DEFINE goods == Issues(t)
    <2>7. /\ goods \subseteq Entry
          /\ \A e \in goods : e.transfer = t /\ e.kind = "issue" /\ e.line \in used
                              /\ \A l \in lines : e.line = l.id => l.transfer = t
          /\ \A l \in LinesOf(t) : \E e \in goods :
               /\ e.line = l.id /\ e.qty = l.qty
               /\ e.bin = (IF "issue" = "issue" THEN l.source ELSE l.dest)
          /\ journal' = journal \cup goods
      BY <2>1, <2>3, <2>4, <2>5
    <2> HIDE DEF goods
    <2>8. QED
      BY <2>1, <2>2, <2>6, <2>7, PostLines
  <1>3. QED
    BY <1>1, <1>2

LEMMA ReceiveIInv ==
    ASSUME IInv, NEW r \in Requests, Receive(r)
    PROVE  IInv'
  <1> DEFINE t == req[r].transfer
  <1>1. CASE Refuse(r)
    BY <1>1, RefuseIInv
  <1>2. CASE ~Refuse(r)
    <2>1. /\ status[t] = "in_transit" /\ status' = [status EXCEPT ![t] = "received"]
          /\ journal' = journal \cup Receipts(t) /\ Answer(r)
          /\ UNCHANGED <<lines, used, late>>
          /\ \A l \in LinesOf(t) : l.dest # NoBin
      BY <1>2 DEF Receive, Post
    <2>2. t \in Transfers
      BY DEF Receive, IInv, Typed, Request, Idle
    <2> HIDE DEF t
    <2>3. Receipts(t) \subseteq Entry
      BY <2>1, <2>2 DEF Receipts, LinesOf, IInv, Typed, Line, Entry
    <2>4. \A e \in Receipts(t) : e.transfer = t /\ e.kind = "receipt" /\ e.line \in used
                                 /\ \A l \in lines : e.line = l.id => l.transfer = t
      BY DEF Receipts, LinesOf, IInv, Keys
    <2>5. ASSUME NEW l \in LinesOf(t)
          PROVE  \E e \in Receipts(t) :
                   /\ e.line = l.id /\ e.qty = l.qty
                   /\ e.bin = (IF "receipt" = "issue" THEN l.source ELSE l.dest)
      <3>1. [line |-> l.id, transfer |-> t, kind |-> "receipt", bin |-> l.dest,
             qty |-> l.qty] \in Receipts(t)
        BY DEF Receipts
      <3>2. QED
        BY <3>1
    <2>6. req' \in [Requests -> Request \cup {Idle}]
      BY <2>1, AnswerTyped
    <2> DEFINE goods == Receipts(t)
    <2>7. /\ goods \subseteq Entry
          /\ \A e \in goods : e.transfer = t /\ e.kind = "receipt" /\ e.line \in used
                              /\ \A l \in lines : e.line = l.id => l.transfer = t
          /\ \A l \in LinesOf(t) : \E e \in goods :
               /\ e.line = l.id /\ e.qty = l.qty
               /\ e.bin = (IF "receipt" = "issue" THEN l.source ELSE l.dest)
          /\ journal' = journal \cup goods
      BY <2>1, <2>3, <2>4, <2>5
    <2> HIDE DEF goods
    <2>8. QED
      BY <2>1, <2>2, <2>6, <2>7, PostLines
  <1>3. QED
    BY <1>1, <1>2

LEMMA Invariance == Spec => []IInv
  <1>1. IInv /\ [Next]_vars => IInv'
    <2> SUFFICES ASSUME IInv, [Next]_vars PROVE IInv'
      OBVIOUS
    <2>1. CASE UNCHANGED vars
      <3>1. req' \in [Requests -> Request \cup {Idle}]
        BY <2>1 DEF vars, IInv, Typed
      <3>2. QED
        BY <2>1, <3>1, DatabaseUnchanged DEF vars
    <2>2. QED
      BY <2>1, LoadIInv, CreateIInv, CancelIInv, AddLineIInv, RemoveLineIInv, ShipIInv,
         ReceiveIInv, DeleteIInv DEF Next
  <1>2. QED
    BY <1>1, InitIInv, PTL DEF Spec

\* Whatever the requests in flight, a transfer that was never shipped has no movement.
THEOREM UnshippedUnmoved == Spec => []NothingMovedUnshipped
  <1>1. IInv => NothingMovedUnshipped
    BY DEF IInv
  <1>2. QED
    BY <1>1, Invariance, PTL

\* Every line that was not edited after its transfer left draft has been issued once the
\* transfer is shipped, and received exactly when it is received.
THEOREM LinesMatched == Spec => []MatchedUnlessLate
  <1>1. IInv => MatchedUnlessLate
    BY DEF IInv
  <1>2. QED
    BY <1>1, Invariance, PTL

-----------------------------------------------------------------------------
(***************************************************************************)
(* No line moves twice.  What a Post adds is new to the ledger: a draft    *)
(* has no movement at all, and a transfer in transit has no receipt.       *)
(***************************************************************************)
NoReceiptYet ==
  \A e \in journal : e.kind = "receipt" => status[e.transfer] # "in_transit"

OnceIInv == NoReceiptYet /\ NoLineMovesTwice

\* Goods that are new to the ledger do not move again.
LEMMA PostedOnce ==
    ASSUME OnceIInv, NEW goods, Post(goods), goods \cap journal = {}, NoReceiptYet'
    PROVE  OnceIInv'
  BY DEF OnceIInv, NoLineMovesTwice, Post

\* What posts nothing and sends no transfer on its way keeps the ledger as it is.
LEMMA UnpostedOnce ==
    ASSUME IInv, OnceIInv, UNCHANGED <<journal, again>>,
           \A t \in Transfers : status'[t] = "in_transit" => status[t] = "in_transit"
    PROVE  OnceIInv'
  BY DEF IInv, Typed, Entry, OnceIInv, NoReceiptYet, NoLineMovesTwice

LEMMA ShipOnce ==
    ASSUME IInv, OnceIInv, NEW r \in Requests, Ship(r)
    PROVE  OnceIInv'
  <1> DEFINE t == req[r].transfer
  <1>1. CASE Refuse(r)
    BY <1>1, UnpostedOnce DEF Refuse
  <1>2. CASE ~Refuse(r)
    <2>1. /\ status[t] = "draft" /\ status' = [status EXCEPT ![t] = "in_transit"]
          /\ Post(Issues(t))
      BY <1>2 DEF Ship
    <2>2. t \in Transfers
      BY DEF Ship, IInv, Typed, Request, Idle
    <2> HIDE DEF t
    <2>3. \A e \in Issues(t) : e.kind = "issue" /\ e.transfer = t
      BY DEF Issues
    <2>4. \A e \in journal : e.transfer # t
      BY <2>1 DEF IInv, NothingMovedUnshipped
    <2>5. NoReceiptYet'
      BY <2>1, <2>2, <2>3, <2>4 DEF NoReceiptYet, OnceIInv, IInv, Typed, Entry, Post
    <2>6. Issues(t) \cap journal = {}
      BY <2>3, <2>4
    <2>7. QED
      BY <2>1, <2>5, <2>6, PostedOnce
  <1>3. QED
    BY <1>1, <1>2

LEMMA ReceiveOnce ==
    ASSUME IInv, OnceIInv, NEW r \in Requests, Receive(r)
    PROVE  OnceIInv'
  <1> DEFINE t == req[r].transfer
  <1>1. CASE Refuse(r)
    BY <1>1, UnpostedOnce DEF Refuse
  <1>2. CASE ~Refuse(r)
    <2>1. /\ status[t] = "in_transit" /\ status' = [status EXCEPT ![t] = "received"]
          /\ Post(Receipts(t))
      BY <1>2 DEF Receive
    <2>2. t \in Transfers
      BY DEF Receive, IInv, Typed, Request, Idle
    <2> HIDE DEF t
    <2>3. \A e \in Receipts(t) : e.kind = "receipt" /\ e.transfer = t
      BY DEF Receipts
    <2>4. \A e \in journal : e.kind = "receipt" => e.transfer # t
      BY <2>1 DEF OnceIInv, NoReceiptYet
    <2>5. NoReceiptYet'
      BY <2>1, <2>2, <2>3, <2>4 DEF NoReceiptYet, OnceIInv, IInv, Typed, Entry, Post
    <2>6. Receipts(t) \cap journal = {}
      BY <2>3, <2>4
    <2>7. QED
      BY <2>1, <2>5, <2>6, PostedOnce
  <1>3. QED
    BY <1>1, <1>2

\* Every other step posts nothing, and only Ship sends a transfer on its way.
LEMMA OtherOnce ==
    ASSUME IInv, OnceIInv, [Next]_vars,
           ~ \E r \in Requests : Ship(r) \/ Receive(r)
    PROVE  OnceIInv'
  <1>1. ASSUME NEW t \in Transfers, Create(t) \/ Cancel(t)
        PROVE  OnceIInv'
    BY <1>1, UnpostedOnce DEF Create, Cancel, IInv, Typed
  <1>2. ASSUME NEW r \in Requests, Load(r) \/ AddLine(r) \/ RemoveLine(r)
        PROVE  OnceIInv'
    BY <1>2, UnpostedOnce DEF Load, LoadForAdd, LoadForRemove, LoadForShip, LoadForReceive,
       LoadForDelete, Loaded, AddLine, RemoveLine, Refuse
  <1>3. ASSUME NEW r \in Requests, Delete(r)
        PROVE  OnceIInv'
    BY <1>3, UnpostedOnce DEF Delete, IInv, Typed
  <1>4. CASE UNCHANGED vars
    BY <1>4, UnpostedOnce DEF vars
  <1>5. QED
    BY <1>1, <1>2, <1>3, <1>4 DEF Next

\* Each line of a transfer moves at most once in each direction, however many requests
\* to ship or to receive it run at a time and whatever else is done to the transfer.
THEOREM MovesOnce == Spec => []NoLineMovesTwice
  <1>1. Init => OnceIInv
    BY DEF Init, OnceIInv, NoReceiptYet, NoLineMovesTwice
  <1>2. IInv /\ OnceIInv /\ [Next]_vars => OnceIInv'
    BY ShipOnce, ReceiveOnce, OtherOnce
  <1>3. OnceIInv => NoLineMovesTwice
    BY DEF OnceIInv
  <1>4. QED
    BY <1>1, <1>2, <1>3, Invariance, PTL DEF Spec
=============================================================================
