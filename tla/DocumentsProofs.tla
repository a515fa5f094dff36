--------------------------- MODULE DocumentsProofs ---------------------------
(***************************************************************************)
(* Proofs about Documents, for every set of well-formed kinds and any      *)
(* number of requests.  The strengthening says what a request still knows: *)
(* as long as nobody has written since it loaded the row, the row is there *)
(* and still passes the test of its view.                                  *)
(***************************************************************************)
EXTENDS Documents, TLAPS

\* What a held write h may rely on when the row is d.
Current(d, h) ==
  /\ h.fresh => d.exists /\ Accepts(h.op.check, d.status)
  /\ h.op.to # {} => h.stores = h.op.to
  /\ h.op.to = {} /\ h.fresh => h.stores \subseteq {d.status}

IInv == TypeOK /\ \A r \in Requests : \A h \in held[r] : Current(doc, h)

\* The three kinds of fact that a step has to keep.
HeldOK(hs) ==
  /\ hs \in [Requests -> SUBSET Holding(kind)]
  /\ \A r \in Requests : \A g, h \in hs[r] : g = h

LEMMA KindWellFormed == ASSUME TypeOK PROVE WellFormed(kind)
  BY KindsAssumption DEF TypeOK

LEMMA HeldFacts ==
    ASSUME IInv, NEW r \in Requests, NEW h \in held[r]
    PROVE  /\ h \in Holding(kind)
           /\ h.op \in Steps(kind)
           /\ h.stores \subseteq kind.statuses
           /\ h.fresh \in BOOLEAN
           /\ Current(doc, h)
           /\ held[r] = {h}
  <1>1. h \in Holding(kind)
    BY DEF IInv, TypeOK
  <1>2. QED
    BY <1>1 DEF IInv, TypeOK, Holding

LEMMA InitIInv == Init => IInv
  <1> SUFFICES ASSUME Init PROVE IInv
    OBVIOUS
  <1>1. WellFormed(kind)
    BY KindsAssumption DEF Init
  <1>2. doc \in Row(kind)
    <2>1. PICK s \in kind.initial :
            doc = [exists |-> TRUE, status |-> s]
      BY DEF Init
    <2>2. s \in kind.statuses
      BY <1>1 DEF WellFormed
    <2>3. QED
      BY <2>1, <2>2 DEF Row
  <1>3. QED
    BY <1>2 DEF Init, IInv, TypeOK

\* What a request goes on to: nothing, or one ending, freshly loaded.
LEMMA GoesFacts ==
    ASSUME WellFormed(kind), NEW op \in Steps(kind), NEW next \in Goes(op),
           op.then # {} => doc'.exists
    PROVE  /\ next \in SUBSET Holding(kind)
           /\ \A g, h \in next : g = h
           /\ \A h \in next : Current(doc', h) /\ h.fresh = TRUE
           /\ op.then # {} => \E h \in next : h.op \in Endings(kind)
  <1>1. CASE op.then = {}
    BY <1>1 DEF Goes
  <1>2. CASE op.then # {}
    <2>1. PICK e \in op.then : next = {[op |-> e, stores |-> e.to, fresh |-> TRUE]}
      BY <1>2 DEF Goes
    <2>2. op \in kind.ops
      BY <1>2 DEF Steps, WellFormed
    <2>3. e \in Endings(kind) /\ e \in Steps(kind)
      BY <2>2 DEF Endings, Steps
    <2>4. e.to \subseteq kind.statuses /\ e.to # {} /\ e.check = Anywhere
      BY <2>3 DEF WellFormed
    <2>5. [op |-> e, stores |-> e.to, fresh |-> TRUE] \in Holding(kind)
      BY <2>3, <2>4 DEF Holding
    <2>6. Current(doc', [op |-> e, stores |-> e.to, fresh |-> TRUE])
      BY <1>2, <2>4 DEF Current, Accepts
    <2>7. QED
      BY <2>1, <2>3, <2>5, <2>6
  <1>3. QED
    BY <1>1, <1>2

\* What has been outdated keeps its operation and relies on nothing.
LEMMA OutdateFacts ==
    ASSUME IInv, NEW r \in Requests
    PROVE  /\ Outdate(held[r]) \in SUBSET Holding(kind)
           /\ \A g, h \in Outdate(held[r]) : g = h
           /\ \A h \in Outdate(held[r]) : Current(doc', h)
           /\ \A h \in held[r] : \E g \in Outdate(held[r]) : g.op = h.op
  <1>1. ASSUME NEW h \in held[r]
        PROVE  /\ [h EXCEPT !.fresh = FALSE] \in Holding(kind)
               /\ [h EXCEPT !.fresh = FALSE].op = h.op
               /\ Current(doc', [h EXCEPT !.fresh = FALSE])
    <2>1. h \in Holding(kind) /\ Current(doc, h)
      BY HeldFacts
    <2>2. [h EXCEPT !.fresh = FALSE] \in Holding(kind)
      BY <2>1 DEF Holding
    <2>3. /\ [h EXCEPT !.fresh = FALSE].op = h.op
          /\ [h EXCEPT !.fresh = FALSE].stores = h.stores
          /\ [h EXCEPT !.fresh = FALSE].fresh = FALSE
      BY <2>1 DEF Holding
    <2>4. Current(doc', [h EXCEPT !.fresh = FALSE])
      BY <2>1, <2>3 DEF Current
    <2>5. QED
      BY <2>2, <2>3, <2>4
  <1>2. \A g, h \in held[r] : g = h
    BY DEF IInv, TypeOK
  <1>3. QED
    BY <1>1, <1>2 DEF Outdate

\* A write that has landed leaves every request with what it may rely on.
LEMMA LandFacts ==
    ASSUME IInv, NEW r \in Requests, NEW h \in held[r], Land(r, h),
           h.op.then # {} => doc'.exists
    PROVE  /\ HeldOK(held')
           /\ \A q \in Requests : \A g \in held'[q] : Current(doc', g)
           /\ kind' = kind /\ disturbed' \in BOOLEAN
  <1>1. PICK next \in Goes(h.op) :
          held' = [q \in Requests |-> IF q = r THEN next ELSE Outdate(held[q])]
    BY DEF Land
  <1>2. WellFormed(kind) /\ h.op \in Steps(kind)
    BY KindWellFormed, HeldFacts DEF IInv
  <1>3. ASSUME NEW q \in Requests
        PROVE  /\ held'[q] \in SUBSET Holding(kind)
               /\ \A f, g \in held'[q] : f = g
               /\ \A g \in held'[q] : Current(doc', g)
    <2>1. CASE q = r
      <3>1. held'[q] = next
        BY <1>1, <2>1
      <3>2. QED
        BY <1>2, <3>1, GoesFacts
    <2>2. CASE q # r
      <3>1. held'[q] = Outdate(held[q])
        BY <1>1, <2>2
      <3>2. QED
        BY <3>1, OutdateFacts
    <2>3. QED
      BY <2>1, <2>2
  <1>4. held' \in [Requests -> SUBSET Holding(kind)]
    BY <1>1, <1>3
  <1>5. kind' = kind /\ disturbed' \in BOOLEAN
    BY DEF Land, IInv, TypeOK, Stray
  <1>6. QED
    BY <1>3, <1>4, <1>5 DEF HeldOK

\* The writes have this in common.
LEMMA LandIInv ==
    ASSUME IInv, NEW r \in Requests, NEW h \in held[r], Land(r, h),
           h.op.then # {} => doc'.exists, doc' \in Row(kind)
    PROVE  IInv'
  <1>1. /\ HeldOK(held')
        /\ \A q \in Requests : \A g \in held'[q] : Current(doc', g)
        /\ kind' = kind /\ disturbed' \in BOOLEAN
    BY LandFacts
  <1>2. TypeOK'
    BY <1>1 DEF TypeOK, HeldOK, IInv, Holding, Row
  <1>3. QED
    BY <1>1, <1>2 DEF IInv

\* A request that ends without a write leaves the row and the others alone.
LEMMA EndIInv ==
    ASSUME IInv, NEW r \in Requests, held' = [held EXCEPT ![r] = {}],
           UNCHANGED <<kind, doc>>, disturbed' \in BOOLEAN
    PROVE  IInv'
  <1>1. \A q \in Requests : held'[q] = IF q = r THEN {} ELSE held[q]
    BY DEF IInv, TypeOK
  <1>2. held' \in [Requests -> SUBSET Holding(kind)]
    BY DEF IInv, TypeOK
  <1>3. TypeOK'
    BY <1>1, <1>2 DEF IInv, TypeOK, Holding, Row
  <1>4. QED
    BY <1>1, <1>3 DEF IInv

LEMMA LoadIInv ==
    ASSUME IInv, NEW r \in Requests, Load(r)
    PROVE  IInv'
  <1>1. PICK op \in kind.ops :
          /\ Accepts(op.check, doc.status)
          /\ held' = [held EXCEPT ![r] =
               {[op |-> op, stores |-> Stores(op, doc.status), fresh |-> TRUE]}]
    BY DEF Load
  <1> DEFINE new == [op |-> op, stores |-> Stores(op, doc.status), fresh |-> TRUE]
  <1>2. WellFormed(kind) /\ op \in Steps(kind)
    BY KindWellFormed DEF IInv, Steps
  <1>3. doc \in Row(kind) /\ doc.status \in kind.statuses
    BY DEF IInv, TypeOK, Row
  <1>4. new \in Holding(kind)
    BY <1>2, <1>3 DEF Holding, Stores, WellFormed
  <1>5. Current(doc, new)
    BY <1>1 DEF Current, Stores, Load
  <1>6. \A q \in Requests : held'[q] = IF q = r THEN {new} ELSE held[q]
    BY <1>1 DEF IInv, TypeOK
  <1>7. held' \in [Requests -> SUBSET Holding(kind)]
    BY <1>1, <1>4 DEF IInv, TypeOK
  <1>8. UNCHANGED <<kind, doc, disturbed>>
    BY DEF Load
  <1> HIDE DEF new
  <1>9. TypeOK'
    BY <1>6, <1>7, <1>8 DEF IInv, TypeOK, Holding, Row
  <1>10. QED
    BY <1>5, <1>6, <1>8, <1>9 DEF IInv

LEMMA ConditionalUpdateIInv ==
    ASSUME IInv, NEW r \in Requests, ConditionalUpdate(r)
    PROVE  IInv'
  <1>1. PICK h \in held[r] : \E s \in h.stores :
          doc.exists /\ doc' = [doc EXCEPT !.status = s] /\ Land(r, h)
    BY DEF ConditionalUpdate
  <1>2. PICK s \in h.stores : doc' = [doc EXCEPT !.status = s]
    BY <1>1
  <1>3. doc \in Row(kind) /\ s \in kind.statuses
    BY HeldFacts DEF IInv, TypeOK
  <1>4. doc' \in Row(kind) /\ doc'.exists
    BY <1>1, <1>2, <1>3 DEF Row
  <1>5. QED
    BY <1>1, <1>4, LandIInv

LEMMA FieldSaveIInv ==
    ASSUME IInv, NEW r \in Requests, FieldSave(r)
    PROVE  IInv'
  <1>1. PICK h \in held[r] : \E s \in h.stores :
          doc.exists /\ doc' = [doc EXCEPT !.status = s] /\ Land(r, h)
    BY DEF FieldSave
  <1>2. PICK s \in h.stores : doc' = [doc EXCEPT !.status = s]
    BY <1>1
  <1>3. doc \in Row(kind) /\ s \in kind.statuses
    BY HeldFacts DEF IInv, TypeOK
  <1>4. doc' \in Row(kind) /\ doc'.exists
    BY <1>1, <1>2, <1>3 DEF Row
  <1>5. QED
    BY <1>1, <1>4, LandIInv

LEMMA RowSaveIInv ==
    ASSUME IInv, NEW r \in Requests, RowSave(r)
    PROVE  IInv'
  <1>1. PICK h \in held[r] : \E s \in h.stores :
          /\ doc' = [exists |-> TRUE, status |-> s]
          /\ Land(r, h)
    BY DEF RowSave
  <1>2. PICK s \in h.stores : doc' = [exists |-> TRUE, status |-> s]
    BY <1>1
  <1>3. doc \in Row(kind) /\ s \in kind.statuses
    BY HeldFacts DEF IInv, TypeOK
  <1>4. doc' \in Row(kind) /\ doc'.exists
    BY <1>1, <1>2, <1>3 DEF Row
  <1>5. QED
    BY <1>1, <1>4, LandIInv

\* Only a write that moves the status begins a computation.
LEMMA ContentEnds ==
    ASSUME IInv, NEW r \in Requests, NEW h \in held[r],
           h.op.write \in {"lines", "delete"}
    PROVE  h.op.then = {} /\ h.op.to = {}
  BY KindWellFormed, HeldFacts DEF IInv, WellFormed

LEMMA LinesWriteIInv ==
    ASSUME IInv, NEW r \in Requests, LinesWrite(r)
    PROVE  IInv'
  <1>1. PICK h \in held[r] :
          h.op.write = "lines" /\ doc' = doc /\ Land(r, h)
    BY DEF LinesWrite
  <1>2. doc \in Row(kind)
    BY DEF IInv, TypeOK
  <1>3. doc' \in Row(kind)
    BY <1>1, <1>2 DEF Row
  <1>4. QED
    BY <1>1, <1>3, ContentEnds, LandIInv

LEMMA RowDeleteIInv ==
    ASSUME IInv, NEW r \in Requests, RowDelete(r)
    PROVE  IInv'
  <1>1. PICK h \in held[r] :
          h.op.write = "delete" /\ doc' = [doc EXCEPT !.exists = FALSE] /\ Land(r, h)
    BY DEF RowDelete
  <1>2. doc \in Row(kind)
    BY DEF IInv, TypeOK
  <1>3. doc' \in Row(kind)
    BY <1>1, <1>2 DEF Row
  <1>4. QED
    BY <1>1, <1>3, ContentEnds, LandIInv

LEMMA MissIInv ==
    ASSUME IInv, NEW r \in Requests, Miss(r)
    PROVE  IInv'
  BY EndIInv DEF Miss, IInv, TypeOK

LEMMA DropIInv ==
    ASSUME IInv, NEW r \in Requests, Drop(r)
    PROVE  IInv'
  BY EndIInv DEF Drop, IInv, TypeOK

LEMMA StepIInv == IInv /\ [Next]_vars => IInv'
  <1> SUFFICES ASSUME IInv, [Next]_vars PROVE IInv'
    OBVIOUS
  <1>1. CASE Next
    <2>1. PICK r \in Requests :
            \/ Load(r) \/ ConditionalUpdate(r) \/ FieldSave(r) \/ RowSave(r)
            \/ LinesWrite(r) \/ RowDelete(r) \/ Miss(r) \/ Drop(r)
      BY <1>1 DEF Next
    <2>2. QED
      BY <2>1, LoadIInv, ConditionalUpdateIInv, FieldSaveIInv, RowSaveIInv,
         LinesWriteIInv, RowDeleteIInv, MissIInv, DropIInv
  <1>2. CASE UNCHANGED vars
    BY <1>2 DEF vars, IInv, TypeOK, Row, Holding
  <1>3. QED
    BY <1>1, <1>2

LEMMA SpecIInv == Spec => []IInv
  BY InitIInv, StepIInv, PTL DEF Spec

\* Whatever the kinds and however many requests race on a document, its status
\* is one of its kind and a request holds at most one write, with statuses of
\* that kind to store.
THEOREM TypeCorrect == Spec => []TypeOK
  <1>1. IInv => TypeOK
    BY DEF IInv
  <1>2. QED
    BY <1>1, SpecIInv, PTL

----------------------------------------------------------------------------

\* A request that was out of date is not when it goes on.
LEMMA StaleWriteLands ==
    ASSUME NEW r \in Requests, NEW h \in held[r], Land(r, h), Stray(h),
           NEW modes, h.op.write \in modes, IInv
    PROVE  StaleWrite(modes)
  <1>1. PICK next \in Goes(h.op) :
          held' = [q \in Requests |-> IF q = r THEN next ELSE Outdate(held[q])]
    BY DEF Land
  <1>2. \A g \in next : g.fresh = TRUE
    BY <1>1 DEF Goes
  <1>3. h \notin held'[r]
    BY <1>1, <1>2 DEF Stray
  <1>4. QED
    BY <1>3 DEF StaleWrite

\* What is not stray makes only declared moves: either nobody wrote since the
\* view tested the status, or the WHERE clause has tested it again.
LEMMA MoveDeclared ==
    ASSUME IInv, NEW r \in Requests, NEW h \in held[r], NEW s \in h.stores,
           h.op.where = Anywhere \/ Accepts(h.op.where, doc.status),
           s # doc.status, ~Stray(h)
    PROVE  <<doc.status, s>> \in Declared(kind)
  <1>1. WellFormed(kind) /\ h.op \in Steps(kind) /\ Current(doc, h) /\ h.fresh \in BOOLEAN
    BY KindWellFormed, HeldFacts DEF IInv
  <1>2. doc.status \in kind.statuses
    BY DEF IInv, TypeOK, Row
  <1>3. Accepts(h.op.check, doc.status) /\ h.op.to # {}
    <2>1. CASE h.fresh
      BY <1>1, <2>1 DEF Current
    <2>2. CASE ~h.fresh
      <3>1. h.op.where # Anywhere
        BY <2>2 DEF Stray
      <3>2. h.op.write = "update" /\ doc.status \in h.op.where
        BY <1>1, <3>1 DEF WellFormed, Accepts
      <3>3. Accepts(h.op.check, doc.status)
        BY <1>1, <1>2, <3>1, <3>2 DEF WellFormed
      <3>4. h.op.to # {}
        BY <1>1, <3>2 DEF WellFormed
      <3>5. QED
        BY <3>3, <3>4
    <2>3. QED
      BY <1>1, <2>1, <2>2
  <1>4. s \in h.op.to
    BY <1>1, <1>3 DEF Current
  <1>5. Accepts(h.op.where, doc.status)
    BY DEF Accepts
  <1>6. doc.status \in From(kind, h.op) /\ h.op \in Moves(kind)
    BY <1>1, <1>2, <1>3, <1>5 DEF From, Moves
  <1>7. <<doc.status, s>> \in From(kind, h.op) \X h.op.to
    BY <1>4, <1>6
  <1>8. QED
    BY <1>6, <1>7 DEF Declared

LEMMA WhereAnywhere ==
    ASSUME IInv, NEW r \in Requests, NEW h \in held[r], h.op.write # "update"
    PROVE  h.op.where = Anywhere
  BY KindWellFormed, HeldFacts DEF IInv, WellFormed

LEMMA StatusMoves ==
    ASSUME IInv, NEW r \in Requests, NEW h \in held[r], NEW s \in h.stores,
           h.op.where = Anywhere \/ Accepts(h.op.where, doc.status),
           h.op.write \in {"update", "fields", "row"}, Land(r, h), s # doc.status
    PROVE  <<doc.status, s>> \in Declared(kind) \/ StaleWrite({"update", "fields", "row"})
  <1>1. CASE Stray(h)
    BY <1>1, StaleWriteLands
  <1>2. CASE ~Stray(h)
    BY <1>2, MoveDeclared
  <1>3. QED
    BY <1>1, <1>2

StatusJustified ==
  doc'.status # doc.status =>
    \/ <<doc.status, doc'.status>> \in Declared(kind)
    \/ StaleWrite({"update", "fields", "row"})

LEMMA ConditionalUpdateJustified ==
    ASSUME IInv, NEW r \in Requests, ConditionalUpdate(r)
    PROVE  StatusJustified
  <1>1. PICK h \in held[r] : \E s \in h.stores :
          /\ h.op.write = "update" /\ Accepts(h.op.where, doc.status)
          /\ doc' = [doc EXCEPT !.status = s] /\ Land(r, h)
    BY DEF ConditionalUpdate
  <1>2. PICK s \in h.stores : doc' = [doc EXCEPT !.status = s]
    BY <1>1
  <1>3. doc'.status = s
    BY <1>2 DEF IInv, TypeOK, Row
  <1>4. QED
    BY <1>1, <1>3, StatusMoves DEF StatusJustified

LEMMA FieldSaveJustified ==
    ASSUME IInv, NEW r \in Requests, FieldSave(r)
    PROVE  StatusJustified
  <1>1. PICK h \in held[r] : \E s \in h.stores :
          h.op.write = "fields" /\ doc' = [doc EXCEPT !.status = s] /\ Land(r, h)
    BY DEF FieldSave
  <1>2. PICK s \in h.stores : doc' = [doc EXCEPT !.status = s]
    BY <1>1
  <1>3. doc'.status = s
    BY <1>2 DEF IInv, TypeOK, Row
  <1>4. QED
    BY <1>1, <1>3, WhereAnywhere, StatusMoves DEF StatusJustified

LEMMA RowSaveJustified ==
    ASSUME IInv, NEW r \in Requests, RowSave(r)
    PROVE  StatusJustified
  <1>1. PICK h \in held[r] : \E s \in h.stores :
          /\ h.op.write = "row"
          /\ doc' = [exists |-> TRUE, status |-> s]
          /\ Land(r, h)
    BY DEF RowSave
  <1>2. PICK s \in h.stores :
          doc' = [exists |-> TRUE, status |-> s]
    BY <1>1
  <1>3. doc'.status = s
    BY <1>2 DEF IInv, TypeOK, Row
  <1>4. QED
    BY <1>1, <1>3, WhereAnywhere, StatusMoves DEF StatusJustified

LEMMA StepJustified == IInv /\ [Next]_vars => StatusJustified
  <1> SUFFICES ASSUME IInv, [Next]_vars PROVE StatusJustified
    OBVIOUS
  <1>1. ASSUME NEW r \in Requests, LinesWrite(r) \/ RowDelete(r)
        PROVE  StatusJustified
    BY <1>1 DEF LinesWrite, RowDelete, StatusJustified, IInv, TypeOK, Row
  <1>2. ASSUME NEW r \in Requests, Load(r) \/ Miss(r) \/ Drop(r)
        PROVE  StatusJustified
    BY <1>2 DEF Load, Miss, Drop, StatusJustified
  <1>3. CASE UNCHANGED vars
    BY <1>3 DEF vars, StatusJustified
  <1>4. QED
    BY <1>1, <1>2, <1>3, ConditionalUpdateJustified, FieldSaveJustified,
       RowSaveJustified DEF Next

\* The status of a document of any kind moves as its views declare, or by a
\* write without a condition whose request is out of date; a conditional UPDATE
\* (_atomic_status_transition) never leaves the declared moves.
THEOREM StatusChangesAreJustified == Spec => StatusChangeJustified
  <1>1. IInv /\ [Next]_vars =>
          [doc'.status # doc.status =>
             \/ <<doc.status, doc'.status>> \in Declared(kind)
             \/ StaleWrite({"update", "fields", "row"})]_vars
    BY StepJustified DEF StatusJustified
  <1>2. QED
    BY <1>1, SpecIInv, PTL DEF Spec, StatusChangeJustified

----------------------------------------------------------------------------

\* A landing of another request does not end a computation.
LEMMA OthersCompute ==
    ASSUME IInv, NEW r \in Requests, NEW h \in held[r], Land(r, h),
           NEW q \in Requests \ {r}, Computing(q)
    PROVE  Computing(q)'
  <1>1. held'[q] = Outdate(held[q]) /\ kind' = kind
    BY DEF Land
  <1>2. PICK g \in held[q] : g.op \in Endings(kind)
    BY DEF Computing
  <1>3. \E f \in Outdate(held[q]) : f.op = g.op
    BY OutdateFacts
  <1>4. QED
    BY <1>1, <1>2, <1>3 DEF Computing

\* A request whose operation keeps the status is no computation.
LEMMA KeepsUnderway ==
    ASSUME IInv, UnderwayIsHeld, NEW r \in Requests, NEW h \in held[r], Land(r, h),
           h.op.to = {}, doc.exists, doc.status \in Underway(kind), ~disturbed
    PROVE  \E q \in Requests : Computing(q)'
  <1>1. PICK q \in Requests : Computing(q)
    BY DEF UnderwayIsHeld
  <1>2. q # r
    <2>1. held[r] = {h} /\ WellFormed(kind)
      BY HeldFacts, KindWellFormed DEF IInv
    <2>2. h.op \notin Endings(kind)
      BY <2>1 DEF WellFormed
    <2>3. ~Computing(r)
      BY <2>1, <2>2 DEF Computing
    <2>4. QED
      BY <1>1, <2>3
  <1>3. QED
    BY <1>1, <1>2, OthersCompute

\* A request that begins a computation has its ending to come.
LEMMA BeginsUnderway ==
    ASSUME IInv, NEW r \in Requests, NEW h \in held[r], Land(r, h),
           NEW s \in h.op.to, s \in Underway(kind), h.op.then # {} => doc'.exists
    PROVE  Computing(r)'
  <1>1. WellFormed(kind) /\ h.op \in Steps(kind)
    BY HeldFacts, KindWellFormed DEF IInv
  <1>2. h.op.then # {}
    BY <1>1 DEF WellFormed
  <1>3. PICK next \in Goes(h.op) :
          held' = [q \in Requests |-> IF q = r THEN next ELSE Outdate(held[q])]
    BY DEF Land
  <1>4. \E g \in next : g.op \in Endings(kind)
    BY <1>1, <1>2, <1>3, GoesFacts
  <1>5. held'[r] = next /\ kind' = kind
    BY <1>3 DEF Land
  <1>6. QED
    BY <1>4, <1>5 DEF Computing

LEMMA StatusWriteUnderway ==
    ASSUME IInv, UnderwayIsHeld, NEW r \in Requests, NEW h \in held[r], Land(r, h),
           NEW s \in h.stores, doc'.status = s, doc'.exists,
           h.op.write \in {"update", "fields", "row"}
    PROVE  UnderwayIsHeld'
  <1> SUFFICES ASSUME s \in Underway(kind), ~disturbed'
               PROVE  \E q \in Requests : Computing(q)'
    BY DEF UnderwayIsHeld, Land
  <1>1. ~disturbed /\ ~Stray(h)
    BY DEF Land
  <1>2. Current(doc, h) /\ WellFormed(kind) /\ h.op \in Steps(kind)
    BY HeldFacts, KindWellFormed DEF IInv
  <1>3. CASE h.op.to # {}
    BY <1>2, <1>3, BeginsUnderway DEF Current
  <1>4. CASE h.op.to = {}
    <2>1. h.op.write = "row"
      BY <1>2, <1>4 DEF WellFormed
    <2>2. h.fresh
      BY <1>1, <2>1, WhereAnywhere DEF Stray
    <2>3. doc.exists /\ s = doc.status
      BY <1>2, <1>4, <2>2 DEF Current
    <2>4. QED
      BY <1>1, <1>4, <2>3, KeepsUnderway
  <1>5. QED
    BY <1>3, <1>4

LEMMA ConditionalUpdateUnderway ==
    ASSUME IInv, UnderwayIsHeld, NEW r \in Requests, ConditionalUpdate(r)
    PROVE  UnderwayIsHeld'
  <1>1. PICK h \in held[r] : \E s \in h.stores :
          /\ h.op.write = "update" /\ doc.exists
          /\ doc' = [doc EXCEPT !.status = s] /\ Land(r, h)
    BY DEF ConditionalUpdate
  <1>2. PICK s \in h.stores : doc' = [doc EXCEPT !.status = s]
    BY <1>1
  <1>3. doc'.status = s /\ doc'.exists
    BY <1>1, <1>2 DEF IInv, TypeOK, Row
  <1>4. QED
    BY <1>1, <1>3, StatusWriteUnderway

LEMMA FieldSaveUnderway ==
    ASSUME IInv, UnderwayIsHeld, NEW r \in Requests, FieldSave(r)
    PROVE  UnderwayIsHeld'
  <1>1. PICK h \in held[r] : \E s \in h.stores :
          /\ h.op.write = "fields" /\ doc.exists
          /\ doc' = [doc EXCEPT !.status = s] /\ Land(r, h)
    BY DEF FieldSave
  <1>2. PICK s \in h.stores : doc' = [doc EXCEPT !.status = s]
    BY <1>1
  <1>3. doc'.status = s /\ doc'.exists
    BY <1>1, <1>2 DEF IInv, TypeOK, Row
  <1>4. QED
    BY <1>1, <1>3, StatusWriteUnderway

LEMMA RowSaveUnderway ==
    ASSUME IInv, UnderwayIsHeld, NEW r \in Requests, RowSave(r)
    PROVE  UnderwayIsHeld'
  <1>1. PICK h \in held[r] : \E s \in h.stores :
          /\ h.op.write = "row"
          /\ doc' = [exists |-> TRUE, status |-> s]
          /\ Land(r, h)
    BY DEF RowSave
  <1>2. PICK s \in h.stores :
          doc' = [exists |-> TRUE, status |-> s]
    BY <1>1
  <1>3. doc'.status = s /\ doc'.exists
    BY <1>2 DEF IInv, TypeOK, Row
  <1>4. QED
    BY <1>1, <1>3, StatusWriteUnderway

LEMMA LinesWriteUnderway ==
    ASSUME IInv, UnderwayIsHeld, NEW r \in Requests, LinesWrite(r)
    PROVE  UnderwayIsHeld'
  <1>1. PICK h \in held[r] :
          /\ h.op.write = "lines" /\ doc.exists
          /\ doc' = doc /\ Land(r, h)
    BY DEF LinesWrite
  <1>2. doc'.status = doc.status
    BY <1>1 DEF IInv, TypeOK, Row
  <1>3. h.op.to = {}
    BY <1>1, ContentEnds
  <1>4. kind' = kind /\ (disturbed => disturbed')
    BY <1>1 DEF Land
  <1>5. QED
    BY <1>1, <1>2, <1>3, <1>4, KeepsUnderway DEF UnderwayIsHeld

LEMMA RowDeleteUnderway ==
    ASSUME IInv, NEW r \in Requests, RowDelete(r)
    PROVE  UnderwayIsHeld'
  <1>1. doc'.exists = FALSE
    BY DEF RowDelete, IInv, TypeOK, Row
  <1>2. QED
    BY <1>1 DEF UnderwayIsHeld

\* A request that ends does not compute, or the computation is known to be dead.
LEMMA EndUnderway ==
    ASSUME IInv, UnderwayIsHeld, NEW r \in Requests, held' = [held EXCEPT ![r] = {}],
           UNCHANGED <<kind, doc>>, disturbed => disturbed',
           doc.exists /\ Computing(r) => disturbed'
    PROVE  UnderwayIsHeld'
  <1>1. \A q \in Requests \ {r} : held'[q] = held[q]
    BY DEF IInv, TypeOK
  <1>2. \A q \in Requests \ {r} : Computing(q) => Computing(q)'
    BY <1>1 DEF Computing
  <1>3. QED
    BY <1>2 DEF UnderwayIsHeld

LEMMA MissUnderway ==
    ASSUME IInv, UnderwayIsHeld, NEW r \in Requests, Miss(r)
    PROVE  UnderwayIsHeld'
  <1>1. PICK h \in held[r] : Misses(h.op)
    BY DEF Miss
  <1>2. held[r] = {h} /\ WellFormed(kind)
    BY HeldFacts, KindWellFormed DEF IInv
  <1>3. doc.exists => ~Computing(r)
    <2> SUFFICES ASSUME doc.exists, Computing(r) PROVE FALSE
      OBVIOUS
    <2>1. h.op \in Endings(kind)
      BY <1>2 DEF Computing
    <2>2. h.op.where = Anywhere
      BY <1>2, <2>1 DEF WellFormed
    <2>3. QED
      BY <1>1, <2>2 DEF Misses, Accepts
  <1>4. QED
    BY <1>3, EndUnderway DEF Miss

LEMMA DropUnderway ==
    ASSUME IInv, UnderwayIsHeld, NEW r \in Requests, Drop(r)
    PROVE  UnderwayIsHeld'
  BY EndUnderway DEF Drop, Computing

LEMMA LoadUnderway ==
    ASSUME IInv, UnderwayIsHeld, NEW r \in Requests, Load(r)
    PROVE  UnderwayIsHeld'
  <1>1. \A q \in Requests \ {r} : held'[q] = held[q]
    BY DEF Load, IInv, TypeOK
  <1>2. UNCHANGED <<kind, doc, disturbed>> /\ ~Computing(r)
    BY DEF Load, Computing
  <1>3. \A q \in Requests \ {r} : Computing(q) => Computing(q)'
    BY <1>1, <1>2 DEF Computing
  <1>4. QED
    BY <1>2, <1>3 DEF UnderwayIsHeld

LEMMA StepUnderway == IInv /\ UnderwayIsHeld /\ [Next]_vars => UnderwayIsHeld'
  <1> SUFFICES ASSUME IInv, UnderwayIsHeld, [Next]_vars PROVE UnderwayIsHeld'
    OBVIOUS
  <1>1. CASE Next
    <2>1. PICK r \in Requests :
            \/ Load(r) \/ ConditionalUpdate(r) \/ FieldSave(r) \/ RowSave(r)
            \/ LinesWrite(r) \/ RowDelete(r) \/ Miss(r) \/ Drop(r)
      BY <1>1 DEF Next
    <2>2. QED
      BY <2>1, LoadUnderway, ConditionalUpdateUnderway, FieldSaveUnderway, RowSaveUnderway,
         LinesWriteUnderway, RowDeleteUnderway, MissUnderway, DropUnderway
  <1>2. CASE UNCHANGED vars
    BY <1>2 DEF vars, UnderwayIsHeld, Computing
  <1>3. QED
    BY <1>1, <1>2

\* While nothing has died and no stale write has landed, a run that says it is
\* under way has the request that will end it.
THEOREM UnderwayHasItsRequest == Spec => []UnderwayIsHeld
  <1>1. Init => UnderwayIsHeld
    <2> SUFFICES ASSUME Init PROVE UnderwayIsHeld
      OBVIOUS
    <2>1. WellFormed(kind) /\ doc.status \in kind.initial
      BY KindsAssumption DEF Init
    <2>2. doc.status \notin Underway(kind)
      BY <2>1 DEF WellFormed
    <2>3. QED
      BY <2>2 DEF UnderwayIsHeld
  <1>2. QED
    BY <1>1, StepUnderway, SpecIInv, PTL DEF Spec

----------------------------------------------------------------------------
\* One computation at a time.

\* The statuses of the document once a computation is under way.
Begun(some) == some \subseteq kind.statuses /\ Sealed(kind, some)

OneComputes == \A q, r \in Requests : Computing(q) /\ Computing(r) => q = r

\* As long as a computation has its request, the document is where no view
\* begins another, or is gone.
Confined ==
  /\ OneComputes
  /\ \A some : Begun(some) =>
       \A r \in Requests : Computing(r) => ~doc.exists \/ doc.status \in some

CIInv == disturbed \/ Reentrant(kind) \/ Confined

\* Who computes after r has written.
LEMMA ComputeAfterLanding ==
    ASSUME IInv, NEW r \in Requests, NEW h \in held[r], Land(r, h),
           h.op.then # {} => doc'.exists
    PROVE  /\ \A q \in Requests \ {r} : Computing(q)' => Computing(q)
           /\ Computing(r)' => h.op.then # {}
           /\ Computing(r) <=> h.op \in Endings(kind)
  <1>1. PICK next \in Goes(h.op) :
          held' = [q \in Requests |-> IF q = r THEN next ELSE Outdate(held[q])]
    BY DEF Land
  <1>2. kind' = kind /\ held[r] = {h}
    BY HeldFacts DEF Land
  <1>3. ASSUME NEW q \in Requests \ {r}, Computing(q)' PROVE Computing(q)
    <2>1. PICK g \in Outdate(held[q]) : g.op \in Endings(kind)
      BY <1>1, <1>2, <1>3 DEF Computing
    <2>2. PICK f \in held[q] : g = [f EXCEPT !.fresh = FALSE]
      BY DEF Outdate
    <2>3. f \in Holding(kind)
      BY HeldFacts
    <2>4. g.op = f.op
      BY <2>2, <2>3 DEF Holding
    <2>5. QED
      BY <2>1, <2>4 DEF Computing
  <1>4. h.op.then = {} => held'[r] = {}
    BY <1>1 DEF Goes
  <1>5. QED
    BY <1>2, <1>3, <1>4 DEF Computing

\* A write that is not out of date finds the document where its view may write.
LEMMA WritesWhereOpen ==
    ASSUME IInv, NEW r \in Requests, NEW h \in held[r], ~Stray(h),
           h.op.write = "update" => doc.exists /\ Accepts(h.op.where, doc.status)
    PROVE  doc.exists /\ doc.status \in From(kind, h.op)
  <1>1. /\ Current(doc, h) /\ WellFormed(kind) /\ h.op \in Steps(kind)
        /\ doc.status \in kind.statuses
    BY HeldFacts, KindWellFormed DEF IInv, TypeOK, Row
  <1>2. CASE h.fresh
    <2>1. doc.exists /\ Accepts(h.op.check, doc.status)
      BY <1>1, <1>2 DEF Current
    <2>2. Accepts(h.op.where, doc.status)
      BY <1>1 DEF WellFormed, Accepts
    <2>3. QED
      BY <1>1, <2>1, <2>2 DEF From
  <1>3. CASE ~h.fresh
    <2>1. h.op.where # Anywhere
      BY <1>3 DEF Stray
    <2>2. h.op.write = "update"
      BY <1>1, <2>1 DEF WellFormed
    <2>3. doc.status \in h.op.where /\ doc.exists
      BY <2>1, <2>2 DEF Accepts
    <2>4. Accepts(h.op.check, doc.status)
      BY <1>1, <2>1, <2>3 DEF WellFormed
    <2>5. QED
      BY <1>1, <2>2, <2>3, <2>4 DEF From
  <1>4. QED
    BY <1>2, <1>3

\* Every write, whatever it does to the row.
LEMMA LandConfined ==
    ASSUME IInv, Confined, NEW r \in Requests, NEW h \in held[r], Land(r, h), ~disturbed',
           h.op.then # {} => doc'.exists,
           h.op.write = "update" => doc.exists /\ Accepts(h.op.where, doc.status),
           doc'.status = doc.status \/ doc'.status \in h.op.to,
           h.op.to # {} => doc'.status \in h.op.to,
           \E some : Begun(some)
    PROVE  Confined'
  <1>1. ~Stray(h) /\ kind' = kind
    BY DEF Land
  <1>2. doc.exists /\ doc.status \in From(kind, h.op)
    BY <1>1, WritesWhereOpen
  <1>3. WellFormed(kind) /\ h.op \in Steps(kind)
    BY HeldFacts, KindWellFormed DEF IInv
  <1>4. CASE h.op \in Endings(kind)
    <2>1. h.op.then = {} /\ Computing(r)
      BY <1>3, <1>4, ComputeAfterLanding DEF WellFormed
    <2>2. \A q \in Requests : ~Computing(q)'
      BY <2>1, ComputeAfterLanding DEF Confined, OneComputes
    <2>3. QED
      BY <2>2 DEF Confined, OneComputes
  <1>5. CASE h.op \notin Endings(kind)
    <2>1. h.op \in kind.ops /\ ~Computing(r)
      BY <1>3, <1>5, ComputeAfterLanding DEF Steps
    <2>2. ASSUME NEW some, Begun(some)
          PROVE  /\ h.op.then # {} => /\ \A q \in Requests : ~Computing(q)
                                     /\ doc'.status \in some
                 /\ doc.status \in some => doc'.status \in some
      <3>1. doc.status \in some => h.op.then = {} /\ h.op.to \subseteq some
        BY <1>2, <2>1, <2>2 DEF Begun, Sealed
      <3>2. doc.status \in some => doc'.status \in some
        BY <3>1
      <3>3. ASSUME h.op.then # {} PROVE doc'.status \in some
        <4>1. h.op.to \subseteq Underway(kind) /\ h.op.to # {}
          BY <2>1, <2>2, <3>3 DEF Underway, Begun, Sealed
        <4>2. QED
          BY <2>2, <4>1 DEF Begun, Sealed
      <3>4. ASSUME h.op.then # {}, NEW q \in Requests PROVE ~Computing(q)
        BY <1>2, <2>2, <3>1, <3>4 DEF Confined
      <3>5. QED
        BY <3>2, <3>3, <3>4
    <2>3. OneComputes'
      BY <2>1, <2>2, ComputeAfterLanding DEF OneComputes, Confined
    <2>4. ASSUME NEW some, Begun(some), NEW q \in Requests, Computing(q)'
          PROVE  doc'.status \in some
      <3>1. CASE q = r
        BY <2>2, <2>4, <3>1, ComputeAfterLanding
      <3>2. CASE q # r
        BY <1>2, <2>2, <2>4, <3>2, ComputeAfterLanding DEF Confined
      <3>3. QED
        BY <3>1, <3>2
    <2>5. \A some : Begun(some)' => Begun(some)
      BY <1>1 DEF Begun
    <2>6. QED
      BY <2>3, <2>4, <2>5 DEF Confined
  <1>6. QED
    BY <1>4, <1>5

\* A request that comes or goes without having written.
LEMMA EndConfined ==
    ASSUME Confined, UNCHANGED <<kind, doc>>,
           \A q \in Requests : Computing(q)' => Computing(q)
    PROVE  Confined'
  <1>1. \A some : Begun(some)' => Begun(some)
    BY DEF Begun
  <1>2. QED
    BY <1>1 DEF Confined, OneComputes

LEMMA StepConfined ==
    ASSUME IInv, Confined, Next, ~disturbed', \E some : Begun(some)
    PROVE  Confined'
  <1>1. ASSUME NEW r \in Requests, Load(r) PROVE Confined'
    <2>1. PICK op \in kind.ops :
            held' = [held EXCEPT ![r] = {[op |-> op, stores |-> Stores(op, doc.status),
                                          fresh |-> TRUE]}]
      BY <1>1 DEF Load
    <2>2. op \notin Endings(kind)
      BY DEF Begun, Sealed
    <2>3. UNCHANGED <<kind, doc>>
      BY <1>1 DEF Load
    <2>4. \A q \in Requests \ {r} : held'[q] = held[q]
      BY <2>1 DEF IInv, TypeOK
    <2>5. \A h \in held'[r] : h.op = op
      BY <2>1 DEF IInv, TypeOK
    <2>6. \A q \in Requests : Computing(q)' => Computing(q)
      BY <2>2, <2>3, <2>4, <2>5 DEF Computing
    <2>7. QED
      BY <2>3, <2>6, EndConfined
  <1>2. ASSUME NEW r \in Requests, ConditionalUpdate(r) PROVE Confined'
    <2>1. PICK h \in held[r] : /\ \E s \in h.stores : doc' = [doc EXCEPT !.status = s]
                              /\ h.op.write = "update" /\ Land(r, h)
                              /\ doc.exists /\ Accepts(h.op.where, doc.status)
      BY <1>2 DEF ConditionalUpdate
    <2>2. PICK s \in h.stores : doc' = [doc EXCEPT !.status = s]
      BY <2>1
    <2>3. doc'.status = s /\ doc'.exists
      BY <2>1, <2>2 DEF IInv, TypeOK, Row
    <2>4. h.op.to # {} /\ h.stores = h.op.to
      BY <2>1, HeldFacts, KindWellFormed DEF IInv, WellFormed, Current
    <2>5. QED
      BY <2>1, <2>3, <2>4, LandConfined
  <1>3. ASSUME NEW r \in Requests, FieldSave(r) PROVE Confined'
    <2>1. PICK h \in held[r] : /\ \E s \in h.stores : doc' = [doc EXCEPT !.status = s]
                              /\ h.op.write = "fields" /\ Land(r, h) /\ doc.exists
      BY <1>3 DEF FieldSave
    <2>2. PICK s \in h.stores : doc' = [doc EXCEPT !.status = s]
      BY <2>1
    <2>3. doc'.status = s /\ doc'.exists
      BY <2>1, <2>2 DEF IInv, TypeOK, Row
    <2>4. h.op.to # {} /\ h.stores = h.op.to
      BY <2>1, HeldFacts, KindWellFormed DEF IInv, WellFormed, Current
    <2>5. QED
      BY <2>1, <2>3, <2>4, LandConfined
  <1>4. ASSUME NEW r \in Requests, RowSave(r) PROVE Confined'
    <2>1. PICK h \in held[r] :
            /\ \E s \in h.stores :
                 doc' = [exists |-> TRUE, status |-> s]
            /\ h.op.write = "row" /\ Land(r, h)
      BY <1>4 DEF RowSave
    <2>2. PICK s \in h.stores :
            doc' = [exists |-> TRUE, status |-> s]
      BY <2>1
    <2>3. doc'.status = s /\ doc'.exists
      BY <2>2 DEF IInv, TypeOK, Row
    <2>4. h.op.where = Anywhere
      BY <2>1, HeldFacts, KindWellFormed DEF IInv, WellFormed
    <2>5. h.fresh
      BY <2>1, <2>4 DEF Land, Stray
    <2>6. s \in h.op.to \/ (h.op.to = {} /\ s = doc.status)
      BY <2>5, HeldFacts DEF Current
    <2>7. QED
      BY <2>1, <2>3, <2>6, LandConfined
  <1>5. ASSUME NEW r \in Requests, LinesWrite(r) PROVE Confined'
    <2>1. PICK h \in held[r] : /\ h.op.write = "lines" /\ doc.exists
                              /\ doc' = doc /\ Land(r, h)
      BY <1>5 DEF LinesWrite
    <2>2. doc'.status = doc.status /\ h.op.to = {} /\ h.op.then = {}
      BY <2>1, ContentEnds DEF IInv, TypeOK, Row
    <2>3. QED
      BY <2>1, <2>2, LandConfined
  <1>6. ASSUME NEW r \in Requests, RowDelete(r) PROVE Confined'
    <2>1. PICK h \in held[r] : /\ h.op.write = "delete" /\ doc.exists
                              /\ doc' = [doc EXCEPT !.exists = FALSE] /\ Land(r, h)
      BY <1>6 DEF RowDelete
    <2>2. doc'.status = doc.status /\ h.op.to = {} /\ h.op.then = {}
      BY <2>1, ContentEnds DEF IInv, TypeOK, Row
    <2>3. QED
      BY <2>1, <2>2, LandConfined
  <1>7. ASSUME NEW r \in Requests, Miss(r) \/ Drop(r) PROVE Confined'
    <2>1. held' = [held EXCEPT ![r] = {}] /\ UNCHANGED <<kind, doc>>
      BY <1>7 DEF Miss, Drop
    <2>2. \A q \in Requests : held'[q] \subseteq held[q]
      BY <2>1 DEF IInv, TypeOK
    <2>3. \A q \in Requests : Computing(q)' => Computing(q)
      BY <2>1, <2>2 DEF Computing
    <2>4. QED
      BY <2>1, <2>3, EndConfined
  <1>8. QED
    BY <1>1, <1>2, <1>3, <1>4, <1>5, <1>6, <1>7 DEF Next

LEMMA StepCIInv == IInv /\ CIInv /\ [Next]_vars => CIInv'
  <1> SUFFICES ASSUME IInv, CIInv, [Next]_vars, ~disturbed', ~Reentrant(kind')
               PROVE  Confined'
    BY DEF CIInv
  <1>1. kind' = kind /\ (disturbed => disturbed')
    <2>1. ASSUME NEW r \in Requests, NEW h \in held[r], Land(r, h)
          PROVE  kind' = kind /\ (disturbed => disturbed')
      BY <2>1 DEF Land
    <2>2. ASSUME NEW r \in Requests, Load(r) \/ Miss(r)
          PROVE  kind' = kind /\ (disturbed => disturbed')
      BY <2>2 DEF Load, Miss
    <2>3. ASSUME NEW r \in Requests, Drop(r)
          PROVE  kind' = kind /\ (disturbed => disturbed')
      BY <2>3 DEF Drop
    <2>4. ASSUME NEW r \in Requests, ConditionalUpdate(r) \/ FieldSave(r) \/ RowSave(r)
          PROVE  \E h \in held[r] : Land(r, h)
      BY <2>4 DEF ConditionalUpdate, FieldSave, RowSave
    <2>5. ASSUME NEW r \in Requests, LinesWrite(r) \/ RowDelete(r)
          PROVE  \E h \in held[r] : Land(r, h)
      BY <2>5 DEF LinesWrite, RowDelete
    <2>6. CASE Next
      BY <2>1, <2>2, <2>3, <2>4, <2>5, <2>6 DEF Next
    <2>7. CASE UNCHANGED vars
      BY <2>7 DEF vars
    <2>8. QED
      BY <2>6, <2>7
  <1>2. Confined
    BY <1>1 DEF CIInv
  <1>3. \E some : Begun(some)
    BY <1>1, ComputationsAssumption DEF IInv, TypeOK, Begun
  <1>4. CASE Next
    BY <1>2, <1>3, <1>4, StepConfined
  <1>5. CASE UNCHANGED vars
    BY <1>2, <1>5, EndConfined DEF vars, Computing
  <1>6. QED
    BY <1>4, <1>5

\* Two requests compute a document at a time only after a stale write has
\* landed or a computation has died: the tests of the views exclude it, as long
\* as what they have loaded is up to date.
THEOREM ComputedByOne == Spec => []OneComputation
  <1>1. Init => CIInv
    BY DEF Init, CIInv, Confined, OneComputes, Computing
  <1>2. CIInv => OneComputation
    BY DEF CIInv, Confined, OneComputes, OneComputation
  <1>3. QED
    BY <1>1, <1>2, StepCIInv, SpecIInv, PTL DEF Spec

====
