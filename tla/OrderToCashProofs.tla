-------------------------- MODULE OrderToCashProofs --------------------------
(***************************************************************************)
(* Proofs about the order, the invoices and the shipments of a customer,   *)
(* for any number of requests, invoices and shipments and any totals.      *)
(***************************************************************************)
EXTENDS OrderToCash, SumLemmas

\* What is known of a held operation.
Vouched(h) ==
  /\ h.op = "confirm" => MayConfirm(h.row)
  /\ h.op \in {"edit", "lines"} => h.row.status \in {"draft", "on_hold"}

\* Nobody fresh has missed a credit hold.
Seen(hold, h) == h.fresh => (hold => h.row.hold)

OrdersIInv ==
  /\ TypeOK
  /\ \A r \in Requests : \A h \in held[r] : Vouched(h) /\ Seen(order.hold, h)
  /\ PastDraftWasTested

LEMMA OrdersInitIInv == Init => OrdersIInv
  <1> SUFFICES ASSUME Init PROVE OrdersIInv
    OBVIOUS
  <1>1. /\ order = [status |-> "draft", hold |-> FALSE, total |-> 0, tested |-> 0]
        /\ customer = [active |-> TRUE, used |-> 0]
        /\ held = [r \in Requests |-> {}] /\ rewritten = FALSE
    BY DEF Init
  <1>2. order \in [status : Statuses, hold : BOOLEAN, total : Totals, tested : Totals]
    BY <1>1, CreditAssumption DEF Statuses, Totals
  <1>3. customer \in [active : BOOLEAN, used : 0..Limit]
    BY <1>1, CreditAssumption
  <1>4. TypeOK
    BY <1>1, <1>2, <1>3 DEF TypeOK
  <1>5. PastDraftWasTested
    BY <1>1 DEF PastDraftWasTested
  <1>6. QED
    BY <1>1, <1>4, <1>5 DEF OrdersIInv

LEMMA OrdersHeldFacts ==
    ASSUME OrdersIInv, NEW r \in Requests, NEW h \in held[r]
    PROVE  h \in Holding /\ h.row \in Loaded /\ h.op \in Operations /\ Vouched(h)
  <1>1. h \in Holding
    BY DEF OrdersIInv, TypeOK
  <1>2. QED
    BY <1>1 DEF OrdersIInv, Holding

\* An answer keeps of the others what they have loaded, and makes them stale
\* when it sets a credit hold.
LEMMA OrdersAnsweredFacts ==
    ASSUME OrdersIInv, NEW r \in Requests, Answered(r), order'.hold \in BOOLEAN
    PROVE  /\ held' \in [Requests -> SUBSET Holding]
           /\ \A q \in Requests : \A h \in held'[q] : Vouched(h) /\ Seen(order'.hold, h)
  <1>1. order.hold \in BOOLEAN
    BY DEF OrdersIInv, TypeOK
  <1>2. ASSUME NEW q \in Requests, NEW h \in held[q]
        PROVE  LET g == [h EXCEPT !.fresh = @ /\ (order'.hold => order.hold)]
               IN  g \in Holding /\ Vouched(g) /\ Seen(order'.hold, g)
    <2> DEFINE g == [h EXCEPT !.fresh = @ /\ (order'.hold => order.hold)]
    <2>1. h \in Holding /\ Vouched(h) /\ Seen(order.hold, h)
      BY DEF OrdersIInv, TypeOK
    <2>2. /\ g.op = h.op /\ g.row = h.row
          /\ g.fresh = (h.fresh /\ (order'.hold => order.hold))
      BY <2>1 DEF Holding
    <2>3. g \in Holding
      BY <1>1, <2>1 DEF Holding
    <2>4. Vouched(g)
      BY <2>1, <2>2 DEF Vouched
    <2>5. Seen(order'.hold, g)
      BY <2>1, <2>2 DEF Seen
    <2>6. QED
      BY <2>3, <2>4, <2>5
  <1>3. \A q \in Requests : held'[q] =
          IF q = r THEN {}
          ELSE {[h EXCEPT !.fresh = @ /\ (order'.hold => order.hold)] : h \in held[q]}
    BY DEF Answered
  <1>4. \A q \in Requests : \A h \in held'[q] :
          h \in Holding /\ Vouched(h) /\ Seen(order'.hold, h)
    <2> SUFFICES ASSUME NEW q \in Requests, NEW h \in held'[q]
                 PROVE  h \in Holding /\ Vouched(h) /\ Seen(order'.hold, h)
      OBVIOUS
    <2>1. q # r
      BY <1>3
    <2>2. h \in {[g EXCEPT !.fresh = @ /\ (order'.hold => order.hold)] : g \in held[q]}
      BY <1>3, <2>1, Zenon
    <2>3. PICK g \in held[q] : h = [g EXCEPT !.fresh = @ /\ (order'.hold => order.hold)]
      BY <2>2, Zenon
    <2>4. QED
      BY <1>2, <2>3, Zenon
  <1>5. held' \in [Requests -> SUBSET Holding]
    BY <1>4 DEF Answered
  <1>6. QED
    BY <1>4, <1>5

\* What an answering write still has to show.
LEMMA OrdersAnsweredIInv ==
    ASSUME OrdersIInv, NEW r \in Requests, Answered(r),
           order' \in [status : Statuses, hold : BOOLEAN, total : Totals,
             tested : Totals],
           customer' = customer, rewritten' \in BOOLEAN, PastDraftWasTested'
    PROVE  OrdersIInv'
  <1>1. order'.hold \in BOOLEAN
    OBVIOUS
  <1>2. QED
    BY <1>1, OrdersAnsweredFacts DEF OrdersIInv, TypeOK

LEMMA OrdersSubmitIInv ==
    ASSUME OrdersIInv, NEW r \in Requests, Submit(r)
    PROVE  OrdersIInv'
  <1>1. order \in [status : Statuses, hold : BOOLEAN, total : Totals, tested : Totals]
    BY DEF OrdersIInv, TypeOK
  <1>2. /\ order' \in [status : Statuses, hold : BOOLEAN, total : Totals, tested : Totals]
        /\ order'.tested = order'.total
    BY <1>1 DEF Submit, Statuses
  <1>3. Answered(r) /\ customer' = customer /\ rewritten' \in BOOLEAN
    BY DEF Submit
  <1>4. PastDraftWasTested'
    BY <1>2 DEF PastDraftWasTested
  <1>5. QED
    BY <1>2, <1>3, <1>4, OrdersAnsweredIInv

\* A conditional UPDATE goes past draft only from where the order is past draft.
LEMMA OrdersMovesIInv ==
    ASSUME OrdersIInv, NEW r \in Requests, NEW op, NEW to \in Statuses, Moves(r, op, to),
           to \in {"submitted", "credit_check", "confirmed"} =>
             op = "confirm" /\ to = "confirmed"
    PROVE  OrdersIInv'
  <1>1. PICK h \in held[r] :
          /\ h.op = op /\ order.status = h.row.status
          /\ order' = [order EXCEPT !.status = to]
          /\ Answered(r) /\ UNCHANGED <<customer, rewritten>>
    BY DEF Moves
  <1>2. order \in [status : Statuses, hold : BOOLEAN, total : Totals, tested : Totals]
    BY DEF OrdersIInv, TypeOK
  <1>3. /\ order' \in [status : Statuses, hold : BOOLEAN, total : Totals, tested : Totals]
        /\ order'.status = to /\ order'.total = order.total
        /\ order'.tested = order.tested
    BY <1>1, <1>2
  <1>4. to \in {"submitted", "credit_check", "confirmed"} =>
          order.status \in {"submitted", "credit_check"}
    BY <1>1, OrdersHeldFacts DEF Vouched, MayConfirm
  <1>5. PastDraftWasTested'
    BY <1>1, <1>3, <1>4 DEF OrdersIInv, PastDraftWasTested
  <1>6. rewritten' \in BOOLEAN
    BY <1>1 DEF OrdersIInv, TypeOK
  <1>7. QED
    BY <1>1, <1>3, <1>5, <1>6, OrdersAnsweredIInv

LEMMA OrdersReleaseIInv ==
    ASSUME OrdersIInv, NEW r \in Requests, ReleaseCreditHold(r)
    PROVE  OrdersIInv'
  <1>1. order \in [status : Statuses, hold : BOOLEAN, total : Totals, tested : Totals]
    BY DEF OrdersIInv, TypeOK
  <1>2. /\ order' \in [status : Statuses, hold : BOOLEAN, total : Totals, tested : Totals]
        /\ order'.status = order.status /\ order'.total = order.total
        /\ order'.tested = order.tested
    BY <1>1 DEF ReleaseCreditHold
  <1>3. PastDraftWasTested' /\ rewritten' \in BOOLEAN
    BY <1>2 DEF OrdersIInv, TypeOK, PastDraftWasTested, ReleaseCreditHold
  <1>4. QED
    BY <1>2, <1>3, OrdersAnsweredIInv DEF ReleaseCreditHold

LEMMA OrdersEditIInv ==
    ASSUME OrdersIInv, NEW r \in Requests, Edit(r)
    PROVE  OrdersIInv'
  <1>1. PICK h \in held[r] :
          /\ h.op = "edit"
          /\ order' = [order EXCEPT !.status = h.row.status, !.hold = h.row.hold,
                                    !.total = h.row.total]
          /\ Answered(r) /\ UNCHANGED <<customer, rewritten>>
    BY DEF Edit
  <1>2. order \in [status : Statuses, hold : BOOLEAN, total : Totals, tested : Totals]
    BY DEF OrdersIInv, TypeOK
  <1>3. h.row \in Loaded /\ h.row.status \in {"draft", "on_hold"}
    BY <1>1, OrdersHeldFacts DEF Vouched
  <1>4. /\ order' \in [status : Statuses, hold : BOOLEAN, total : Totals, tested : Totals]
        /\ order'.status \in {"draft", "on_hold"}
    BY <1>1, <1>2, <1>3 DEF Loaded
  <1>5. PastDraftWasTested' /\ rewritten' \in BOOLEAN
    BY <1>1, <1>4 DEF OrdersIInv, TypeOK, PastDraftWasTested
  <1>6. QED
    BY <1>1, <1>4, <1>5, OrdersAnsweredIInv

LEMMA OrdersWriteLinesIInv ==
    ASSUME OrdersIInv, NEW r \in Requests, WriteLines(r)
    PROVE  OrdersIInv'
  <1>1. PICK t \in Totals : order' = [order EXCEPT !.total = t]
    BY DEF WriteLines
  <1>2. order \in [status : Statuses, hold : BOOLEAN, total : Totals, tested : Totals]
    BY DEF OrdersIInv, TypeOK
  <1>3. /\ order' \in [status : Statuses, hold : BOOLEAN, total : Totals, tested : Totals]
        /\ order'.status = order.status
    BY <1>1, <1>2
  <1>4. rewritten' = (rewritten \/ order.status \notin {"draft", "on_hold"})
    BY DEF WriteLines
  <1>5. PastDraftWasTested' /\ rewritten' \in BOOLEAN
    BY <1>3, <1>4 DEF OrdersIInv, TypeOK, PastDraftWasTested
  <1>6. QED
    BY <1>3, <1>5, OrdersAnsweredIInv DEF WriteLines

LEMMA OrdersLoadIInv ==
    ASSUME OrdersIInv, NEW r \in Requests, Load(r)
    PROVE  OrdersIInv'
  <1> DEFINE row == [status |-> order.status, hold |-> order.hold, total |-> order.total]
  <1>1. PICK op \in Operations :
          /\ Passes(op, row)
          /\ held' = [held EXCEPT ![r] = {[op |-> op, row |-> row, fresh |-> TRUE]}]
    BY DEF Load
  <1> DEFINE new == [op |-> op, row |-> row, fresh |-> TRUE]
  <1>2. row \in Loaded
    BY DEF OrdersIInv, TypeOK, Loaded
  <1>3. new \in Holding
    BY <1>2 DEF Holding
  <1>4. Vouched(new)
    BY <1>1 DEF Vouched, Passes
  <1>5. Seen(order.hold, new)
    BY DEF Seen
  <1>6. \A q \in Requests : held'[q] = IF q = r THEN {new} ELSE held[q]
    BY <1>1 DEF OrdersIInv, TypeOK
  <1>7. held' \in [Requests -> SUBSET Holding]
    BY <1>1, <1>3 DEF OrdersIInv, TypeOK
  <1>8. UNCHANGED <<order, customer, rewritten>>
    BY DEF Load
  <1> HIDE DEF new
  <1>9. QED
    BY <1>4, <1>5, <1>6, <1>7, <1>8 DEF OrdersIInv, TypeOK, PastDraftWasTested

LEMMA OrdersGiveUpIInv ==
    ASSUME OrdersIInv, NEW r \in Requests, GiveUp(r)
    PROVE  OrdersIInv'
  <1>1. \A q \in Requests : held'[q] \subseteq held[q]
    BY DEF GiveUp, OrdersIInv, TypeOK
  <1>2. held' \in [Requests -> SUBSET Holding]
    BY DEF GiveUp, OrdersIInv, TypeOK
  <1>3. QED
    BY <1>1, <1>2 DEF GiveUp, OrdersIInv, TypeOK, PastDraftWasTested

LEMMA OrdersCustomerIInv == ASSUME OrdersIInv, CustomerChanges PROVE OrdersIInv'
  BY DEF CustomerChanges, OrdersIInv, TypeOK, PastDraftWasTested

LEMMA OrdersStepIInv == OrdersIInv /\ [Next]_vars => OrdersIInv'
  <1> SUFFICES ASSUME OrdersIInv, [Next]_vars PROVE OrdersIInv'
    OBVIOUS
  <1>1. CASE UNCHANGED vars
    BY <1>1 DEF vars, OrdersIInv, TypeOK, PastDraftWasTested
  <1>2. ASSUME NEW r \in Requests, Confirm(r) \/ Cancel(r) \/ PutOnHold(r) \/ Resume(r)
        PROVE  OrdersIInv'
    <2>1. CASE Confirm(r)
      BY <2>1, OrdersMovesIInv DEF Confirm, Statuses
    <2>2. CASE Cancel(r)
      BY <2>2, OrdersMovesIInv DEF Cancel, Statuses
    <2>3. CASE PutOnHold(r)
      BY <2>3, OrdersMovesIInv DEF PutOnHold, Statuses
    <2>4. CASE Resume(r)
      BY <2>4, OrdersMovesIInv DEF Resume, Statuses
    <2>5. QED
      BY <1>2, <2>1, <2>2, <2>3, <2>4
  <1>3. CASE Next
    BY <1>2, <1>3, OrdersLoadIInv, OrdersSubmitIInv, OrdersReleaseIInv, OrdersEditIInv,
       OrdersWriteLinesIInv,
       OrdersGiveUpIInv, OrdersCustomerIInv DEF Next
  <1>4. QED
    BY <1>1, <1>3

LEMMA OrdersSpecIInv == Spec => []OrdersIInv
  BY OrdersInitIInv, OrdersStepIInv, PTL DEF Spec

\* Whatever holds, resumes and edits race, an order past draft has passed the
\* credit test with the total it has now, unless lines were written to it by a
\* request that had loaded it as a draft.
LEMMA OrdersTested == Spec => []PastDraftWasTested
  <1>1. OrdersIInv => PastDraftWasTested
    BY DEF OrdersIInv
  <1>2. QED
    BY <1>1, OrdersSpecIInv, PTL

----------------------------------------------------------------------------

LEMMA StepHeld ==
    ASSUME OrdersIInv, Next, order'.status = "confirmed", order.status # "confirmed",
           order.hold
    PROVE  \E r \in Requests : \E h \in held[r] :
             h.op = "confirm" /\ ~h.fresh /\ held'[r] = {}
  <1>1. order \in [status : Statuses, hold : BOOLEAN, total : Totals, tested : Totals]
    BY DEF OrdersIInv, TypeOK
  <1>2. ASSUME NEW r \in Requests, Confirm(r)
        PROVE  \E h \in held[r] : h.op = "confirm" /\ ~h.fresh /\ held'[r] = {}
    <2>1. PICK h \in held[r] : h.op = "confirm" /\ Answered(r)
      BY <1>2 DEF Confirm, Moves
    <2>2. Vouched(h) /\ Seen(order.hold, h)
      BY DEF OrdersIInv
    <2>3. ~h.fresh
      BY <2>1, <2>2 DEF Vouched, Seen, MayConfirm
    <2>4. held'[r] = {}
      BY <2>1 DEF Answered
    <2>5. QED
      BY <2>1, <2>3, <2>4
  <1>3. ASSUME NEW r \in Requests, Cancel(r) \/ PutOnHold(r) \/ Resume(r) \/ Submit(r)
        PROVE  FALSE
    BY <1>1, <1>3 DEF Cancel, PutOnHold, Resume, Moves, Submit
  <1>4. ASSUME NEW r \in Requests, ReleaseCreditHold(r) \/ WriteLines(r)
        PROVE  FALSE
    BY <1>1, <1>4 DEF ReleaseCreditHold, WriteLines
  <1>5. ASSUME NEW r \in Requests, Edit(r)
        PROVE  FALSE
    <2>1. PICK h \in held[r] :
            /\ h.op = "edit"
            /\ order' = [order EXCEPT !.status = h.row.status, !.hold = h.row.hold,
                                      !.total = h.row.total]
      BY <1>5 DEF Edit
    <2>2. h.row.status \in {"draft", "on_hold"}
      BY <2>1, OrdersHeldFacts DEF Vouched
    <2>3. QED
      BY <1>1, <2>1, <2>2
  <1>6. ASSUME NEW r \in Requests, Load(r) \/ GiveUp(r)
        PROVE  FALSE
    BY <1>6 DEF Load, GiveUp
  <1>7. ~CustomerChanges
    BY DEF CustomerChanges
  <1>8. QED
    BY <1>2, <1>3, <1>4, <1>5, <1>6, <1>7 DEF Next

\* An order with a credit hold is confirmed only by a request that had loaded
\* it before the hold was set.
LEMMA OrdersConfirmed == Spec => HeldOrderNotConfirmed
  <1>1. OrdersIInv /\ [Next]_vars =>
          [order'.status = "confirmed" /\ order.status # "confirmed" /\ order.hold =>
             \E r \in Requests : \E h \in held[r] :
               h.op = "confirm" /\ ~h.fresh /\ held'[r] = {}]_vars
    BY StepHeld DEF vars
  <1>2. QED
    BY <1>1, OrdersSpecIInv, PTL DEF Spec, HeldOrderNotConfirmed

----------------------------------------------------------------------------
\* The facts of the instances that are stated with their own copies of the
\* operators for finite sets and sums.
LEMMA BillingFinite ==
    ASSUME Billing!InvoicesAssumption
    PROVE  IsFiniteSet(Invoices) /\ InvoiceTotal \in Nat
  BY DEF Billing!InvoicesAssumption, Billing!IsFiniteSet, IsFiniteSet

LEMMA BillingSum == \A f, S : Billing!SumOver(f, S) = SumOver(f, S)
  BY DEF Billing!SumOver, SumOver, Billing!MapThenSumSet, MapThenSumSet,
         Billing!MapThenFoldSet,
         MapThenFoldSet

Ask == [op : Billing!Operations, id : Invoices, row : Billing!Invoice, used : Int,
  fresh : BOOLEAN]

\* Who has looked for an invoice and is up to date has found none.
LookedTrue(a) == a.op = "generate" /\ a.fresh => ~Billing!Billed

\* The form was loaded with a draft in it.
DraftForm(a) == a.op = "edit" => a.row.status = "draft"

BillingTyped ==
  /\ invoices \in [Invoices -> Billing!Invoice]
  /\ used \in Int
  /\ asked \in [Requests -> SUBSET Ask]

BillingIInv == BillingTyped /\ \A r \in Requests : \A a \in asked[r] : LookedTrue(a) /\
  DraftForm(a)

LEMMA BillingInitIInv ==
    ASSUME Billing!InvoicesAssumption
    PROVE  Billing!Init => BillingIInv
  BY DEF Billing!InvoicesAssumption, Billing!Init, BillingIInv, BillingTyped,
         Billing!NoRow, Billing!Invoice, Billing!Statuses

LEMMA BillingAskFacts ==
    ASSUME BillingIInv, NEW r \in Requests, NEW a \in asked[r]
    PROVE  /\ a \in Ask /\ a.id \in Invoices /\ a.row \in Billing!Invoice /\
              a.used \in Int
           /\ DraftForm(a)
  BY DEF BillingIInv, BillingTyped, Ask

\* Looks that are out of date are no longer relied on.
LEMMA BillingOutdatedFacts ==
    ASSUME BillingIInv, NEW r \in Requests
    PROVE  \A a \in Billing!Outdated(r) : a \in Ask /\ ~(a.op = "generate" /\ a.fresh) /\
           DraftForm(a)
  <1>1. ASSUME NEW a \in asked[r]
        PROVE  LET b == [a EXCEPT !.fresh = a.op # "generate"]
               IN  b \in Ask /\ ~(b.op = "generate" /\ b.fresh) /\ DraftForm(b)
    <2> DEFINE b == [a EXCEPT !.fresh = a.op # "generate"]
    <2>1. a \in Ask
      BY BillingAskFacts
    <2>2. b.op = a.op /\ b.fresh = (a.op # "generate") /\ b.row = a.row
      BY <2>1 DEF Ask
    <2>3. b \in Ask
      BY <2>1 DEF Ask
    <2>4. DraftForm(b)
      BY <2>2, BillingAskFacts, Zenon DEF DraftForm
    <2>5. ~(b.op = "generate" /\ b.fresh)
      BY <2>2
    <2>6. QED
      BY <2>3, <2>4, <2>5, Zenon
  <1>2. QED
    BY <1>1 DEF Billing!Outdated

\* A write that may bill the shipment outdates every look for an invoice.
LEMMA BillingOutdatingIInv ==
    ASSUME BillingIInv, asked' = [q \in Requests |-> asked'[q]],
           \A q \in Requests : asked'[q] = {} \/ asked'[q] = Billing!Outdated(q),
           invoices' \in [Invoices -> Billing!Invoice], used' \in Int
    PROVE  BillingIInv'
  <1>1. \A q \in Requests : \A a \in asked'[q] :
          a \in Ask /\ ~(a.op = "generate" /\ a.fresh) /\ DraftForm(a)
    BY BillingOutdatedFacts
  <1>2. asked' \in [Requests -> SUBSET Ask]
    <2>1. \A q \in Requests : asked'[q] \in SUBSET Ask
      BY <1>1
    <2>2. QED
      BY <2>1
  <1>3. QED
    BY <1>1, <1>2 DEF BillingIInv, BillingTyped, LookedTrue

\* A write that bills no shipment that was not billed leaves the looks true.
LEMMA BillingAnsweredIInv ==
    ASSUME BillingIInv, NEW r \in Requests, Billing!Answered(r),
           invoices' \in [Invoices -> Billing!Invoice], used' \in Int, Billing!Billed' =>
             Billing!Billed
    PROVE  BillingIInv'
  <1>1. \A q \in Requests : asked'[q] \subseteq asked[q]
    BY DEF Billing!Answered, BillingIInv, BillingTyped
  <1>2. asked' \in [Requests -> SUBSET Ask]
    BY DEF Billing!Answered, BillingIInv, BillingTyped
  <1>3. QED
    BY <1>1, <1>2 DEF BillingIInv, BillingTyped, LookedTrue

LEMMA BillingInsertTyped ==
    ASSUME BillingIInv, NEW i \in Invoices, NEW n \in 0..InvoiceTotal, NEW b \in BOOLEAN,
           Billing!Insert(i, n, b)
    PROVE  invoices' \in [Invoices -> Billing!Invoice] /\ used' \in Int
  BY DEF Billing!Insert, BillingIInv, BillingTyped, Billing!Invoice, Billing!Statuses

LEMMA BillingCreateIInv ==
    ASSUME Billing!InvoicesAssumption, BillingIInv, NEW i \in Invoices, Billing!Create(i)
    PROVE  BillingIInv'
  <1>1. PICK b \in BOOLEAN : Billing!Insert(i, 0, b)
    BY DEF Billing!Create
  <1>2. invoices' \in [Invoices -> Billing!Invoice] /\ used' \in Int
    BY <1>1, BillingInsertTyped DEF Billing!InvoicesAssumption
  <1>3. /\ asked' = [q \in Requests |-> asked'[q]]
        /\ \A q \in Requests : asked'[q] = {} \/ asked'[q] = Billing!Outdated(q)
    BY DEF Billing!Create
  <1>4. QED
    BY <1>2, <1>3, BillingOutdatingIInv

LEMMA BillingGenerateIInv ==
    ASSUME BillingIInv, NEW r \in Requests, Billing!Generate(r)
    PROVE  BillingIInv'
  <1>1. PICK i \in Invoices : \E n \in 0..InvoiceTotal : Billing!Insert(i, n, TRUE)
    BY DEF Billing!Generate
  <1>2. invoices' \in [Invoices -> Billing!Invoice] /\ used' \in Int
    BY <1>1, BillingInsertTyped
  <1>3. /\ asked' = [q \in Requests |-> asked'[q]]
        /\ \A q \in Requests : asked'[q] = {} \/ asked'[q] = Billing!Outdated(q)
    BY DEF Billing!Generate
  <1>4. QED
    BY <1>2, <1>3, BillingOutdatingIInv

LEMMA BillingEditIInv ==
    ASSUME BillingIInv, NEW r \in Requests, Billing!Edit(r)
    PROVE  BillingIInv'
  <1>1. PICK a \in asked[r] : invoices' = [invoices EXCEPT ![a.id] = a.row]
    BY DEF Billing!Edit
  <1>2. invoices' \in [Invoices -> Billing!Invoice] /\ used' \in Int
    BY <1>1, BillingAskFacts DEF Billing!Edit, BillingIInv, BillingTyped
  <1>3. /\ asked' = [q \in Requests |-> asked'[q]]
        /\ \A q \in Requests : asked'[q] = {} \/ asked'[q] = Billing!Outdated(q)
    BY DEF Billing!Edit
  <1>4. QED
    BY <1>2, <1>3, BillingOutdatingIInv

\* Status and total of an invoice change without its shipment.
LEMMA BillingIssueIInv ==
    ASSUME Billing!InvoicesAssumption, BillingIInv, NEW r \in Requests, Billing!Issue(r)
    PROVE  BillingIInv'
  <1>1. PICK a \in asked[r] :
          /\ invoices' = [invoices EXCEPT ![a.id].status = "issued"]
          /\ used + a.row.total \in Billing!UsedBound /\ used' = used + a.row.total
          /\ Billing!Answered(r)
    BY DEF Billing!Issue
  <1>2. invoices' \in [Invoices -> Billing!Invoice]
    BY <1>1, BillingAskFacts
       DEF BillingIInv, BillingTyped, Billing!Invoice, Billing!Statuses
  <1>3. Billing!Billed' => Billing!Billed
    BY <1>1, BillingAskFacts
       DEF Billing!Billed, BillingIInv, BillingTyped, Billing!Invoice
  <1>4. used' \in Int
    BY <1>1 DEF Billing!InvoicesAssumption, Billing!UsedBound
  <1>5. QED
    BY <1>1, <1>2, <1>3, <1>4, BillingAnsweredIInv

LEMMA BillingPayIInv ==
    ASSUME Billing!InvoicesAssumption, BillingIInv, NEW r \in Requests, Billing!Pay(r)
    PROVE  BillingIInv'
  <1>1. PICK a \in asked[r] :
          /\ invoices' = [invoices EXCEPT ![a.id].status = "paid"]
          /\ used - a.row.total \in Billing!UsedBound /\ used' = used - a.row.total
          /\ Billing!Answered(r)
    BY DEF Billing!Pay
  <1>2. invoices' \in [Invoices -> Billing!Invoice]
    BY <1>1, BillingAskFacts
       DEF BillingIInv, BillingTyped, Billing!Invoice, Billing!Statuses
  <1>3. Billing!Billed' => Billing!Billed
    BY <1>1, BillingAskFacts
       DEF Billing!Billed, BillingIInv, BillingTyped, Billing!Invoice
  <1>4. used' \in Int
    BY <1>1 DEF Billing!InvoicesAssumption, Billing!UsedBound
  <1>5. QED
    BY <1>1, <1>2, <1>3, <1>4, BillingAnsweredIInv

LEMMA BillingWriteLineIInv ==
    ASSUME BillingIInv, NEW r \in Requests, Billing!WriteLine(r)
    PROVE  BillingIInv'
  <1>1. PICK a \in asked[r] : \E total \in 0..InvoiceTotal :
          invoices' = [invoices EXCEPT ![a.id].total = total] /\ Billing!Answered(r)
    BY DEF Billing!WriteLine
  <1>2. PICK total \in 0..InvoiceTotal :
             invoices' = [invoices EXCEPT ![a.id].total = total]
    BY <1>1
  <1>3. invoices' \in [Invoices -> Billing!Invoice]
    BY <1>2, BillingAskFacts DEF BillingIInv, BillingTyped, Billing!Invoice
  <1>4. Billing!Billed' => Billing!Billed
    BY <1>2, BillingAskFacts
       DEF Billing!Billed, BillingIInv, BillingTyped, Billing!Invoice
  <1>5. used' \in Int
    BY DEF Billing!WriteLine, BillingIInv, BillingTyped
  <1>6. QED
    BY <1>1, <1>3, <1>4, <1>5, BillingAnsweredIInv

LEMMA BillingDeleteIInv ==
    ASSUME Billing!InvoicesAssumption, BillingIInv, NEW r \in Requests, Billing!Delete(r)
    PROVE  BillingIInv'
  <1>1. PICK a \in asked[r] : invoices' = [invoices EXCEPT ![a.id] = Billing!NoRow]
    BY DEF Billing!Delete
  <1>2. Billing!NoRow \in Billing!Invoice /\ Billing!NoRow.billed = FALSE
    BY DEF Billing!InvoicesAssumption, Billing!NoRow, Billing!Invoice, Billing!Statuses
  <1>3. invoices' \in [Invoices -> Billing!Invoice] /\ used' \in Int
    BY <1>1, <1>2, BillingAskFacts DEF Billing!Delete, BillingIInv, BillingTyped
  <1>4. Billing!Billed' => Billing!Billed
    BY <1>1, <1>2, BillingAskFacts DEF Billing!Billed, BillingIInv, BillingTyped
  <1>5. QED
    BY <1>3, <1>4, BillingAnsweredIInv DEF Billing!Delete

LEMMA BillingSaveCustomerIInv ==
    ASSUME BillingIInv, NEW r \in Requests, Billing!SaveCustomer(r)
    PROVE  BillingIInv'
  <1>1. /\ invoices' = invoices /\ used' \in Int /\ Billing!Answered(r)
    BY BillingAskFacts DEF Billing!SaveCustomer
  <1>2. Billing!Billed' => Billing!Billed
    BY <1>1 DEF Billing!Billed
  <1>3. QED
    BY <1>1, <1>2, BillingAnsweredIInv DEF BillingIInv, BillingTyped

LEMMA BillingGiveUpIInv ==
    ASSUME BillingIInv, NEW r \in Requests, Billing!GiveUp(r)
    PROVE  BillingIInv'
  BY BillingAnsweredIInv DEF Billing!GiveUp, BillingIInv, BillingTyped, Billing!Billed

LEMMA BillingLoadIInv ==
    ASSUME BillingIInv, NEW r \in Requests, Billing!Load(r)
    PROVE  BillingIInv'
  <1>1. PICK op \in Billing!Operations : \E i \in Invoices :
          /\ Billing!Passes(op, invoices[i])
          /\ asked' = [asked EXCEPT ![r] =
               {[op |-> op, id |-> i, row |-> invoices[i],
                 used |-> IF op = "customer" THEN used ELSE 0, fresh |-> TRUE]}]
    BY DEF Billing!Load
  <1>2. PICK i \in Invoices :
          /\ Billing!Passes(op, invoices[i])
          /\ asked' = [asked EXCEPT ![r] =
               {[op |-> op, id |-> i, row |-> invoices[i],
                 used |-> IF op = "customer" THEN used ELSE 0, fresh |-> TRUE]}]
    BY <1>1
  <1> DEFINE new == [op |-> op, id |-> i, row |-> invoices[i],
                     used |-> IF op = "customer" THEN used ELSE 0, fresh |-> TRUE]
  <1>3. new \in Ask
    BY DEF BillingIInv, BillingTyped, Ask
  <1>4. UNCHANGED <<invoices, used>>
    BY DEF Billing!Load
  <1>5. LookedTrue(new) /\ DraftForm(new)
    BY <1>2 DEF LookedTrue, DraftForm, Billing!Passes
  <1>6. \A q \in Requests : asked'[q] = IF q = r THEN {new} ELSE asked[q]
    BY <1>2 DEF BillingIInv, BillingTyped
  <1>7. asked' \in [Requests -> SUBSET Ask]
    BY <1>2, <1>3 DEF BillingIInv, BillingTyped
  <1> HIDE DEF new
  <1>8. QED
    BY <1>4, <1>5, <1>6, <1>7 DEF BillingIInv, BillingTyped, LookedTrue, Billing!Billed

LEMMA BillingStepIInv ==
    ASSUME Billing!InvoicesAssumption
    PROVE  BillingIInv /\ [Billing!Next]_(Billing!vars) => BillingIInv'
  <1> SUFFICES ASSUME BillingIInv, [Billing!Next]_(Billing!vars) PROVE BillingIInv'
    OBVIOUS
  <1>1. CASE UNCHANGED Billing!vars
    BY <1>1 DEF Billing!vars, BillingIInv, BillingTyped, LookedTrue, Billing!Billed
  <1>2. CASE Billing!Next
    BY <1>2, BillingCreateIInv, BillingLoadIInv, BillingGenerateIInv, BillingIssueIInv,
       BillingPayIInv, BillingEditIInv,
       BillingWriteLineIInv, BillingDeleteIInv, BillingSaveCustomerIInv,
         BillingGiveUpIInv DEF Billing!Next
  <1>3. QED
    BY <1>1, <1>2

LEMMA BillingSpecIInv ==
    ASSUME Billing!InvoicesAssumption
    PROVE  Billing!Spec => []BillingIInv
  BY BillingInitIInv, BillingStepIInv, PTL DEF Billing!Spec

\* generate_invoice_from_shipment, which looks for an invoice first, makes a
\* second one only if another request has written an invoice since the look.
LEMMA BillingOnce ==
    ASSUME Billing!InvoicesAssumption
    PROVE  Billing!Spec => Billing!BilledOnce
  <1>1. BillingIInv => \A r \in Requests : \A a \in asked[r] :
                  a.op = "generate" /\ Billing!Billed => ~a.fresh
    BY DEF BillingIInv, LookedTrue
  <1>2. BillingIInv /\ [Billing!Next]_(Billing!vars) =>
          [\A r \in Requests : \A a \in asked[r] :
             a.op = "generate" /\ asked'[r] = {} /\ invoices' # invoices /\
               Billing!Billed =>
               ~a.fresh]_(Billing!vars)
    BY <1>1
  <1>3. QED
    BY <1>2, BillingSpecIInv, PTL DEF Billing!Spec, Billing!BilledOnce

----------------------------------------------------------------------------
\* What the customer owes for one invoice.
Owed(row) == IF row.status = "issued" THEN row.total ELSE 0

\* A write to one invoice changes the receivables by what it makes of that one.
LEMMA OneInvoice ==
    ASSUME Billing!InvoicesAssumption, BillingTyped,
           invoices' \in [Invoices -> Billing!Invoice],
           NEW x \in Invoices, \A y \in Invoices \ {x} : invoices'[y] = invoices[y]
    PROVE  /\ Billing!Receivables \in Int /\ Billing!Receivables' \in Int
           /\ Billing!Receivables' - Billing!Receivables =
                Owed(invoices'[x]) - Owed(invoices[x])
  <1> DEFINE f == [i \in Invoices |-> invoices[i].total]
             S == {i \in Invoices : invoices[i].status = "issued"}
             g == [i \in Invoices |-> invoices'[i].total]
             T == {i \in Invoices : invoices'[i].status = "issued"}
  <1>1. \A i \in Invoices : f[i] \in Int /\ g[i] \in Int
    BY DEF Billing!InvoicesAssumption, BillingTyped, Billing!Invoice
  <1>2. S \subseteq Invoices /\ T \subseteq Invoices
    OBVIOUS
  <1>3. IsFiniteSet(S) /\ IsFiniteSet(T)
    BY <1>2, FS_Subset, BillingFinite
  <1>4. S \ {x} = T \ {x} /\ \A y \in S \ {x} : f[y] = g[y]
    OBVIOUS
  <1>5. IntOn(f, S) /\ IntOn(g, T)
    BY <1>1, <1>2 DEF IntOn
  <1>6. Share(f, S, x) = Owed(invoices[x]) /\ Share(g, T, x) = Owed(invoices'[x])
    BY DEF Share, Owed
  <1>7. Billing!Receivables = SumOver(f, S) /\ Billing!Receivables' = SumOver(g, T)
    BY BillingSum DEF Billing!Receivables
  <1> HIDE DEF f, S, g, T
  <1>8. QED
    BY <1>3, <1>4, <1>5, <1>6, <1>7, SumOneChange

\* A write that leaves what is owed for its invoice, or moves credit_used along with it.
LEMMA OneDrift ==
    ASSUME Billing!InvoicesAssumption, BillingTyped, used' \in Int,
           invoices' \in [Invoices -> Billing!Invoice],
           NEW x \in Invoices, \A y \in Invoices \ {x} : invoices'[y] = invoices[y],
           used' - used = Owed(invoices'[x]) - Owed(invoices[x])
    PROVE  Billing!Drift' = Billing!Drift
  <1>1. Owed(invoices[x]) \in Int /\ Owed(invoices'[x]) \in Int /\ used \in Int
    BY DEF Owed, BillingTyped, Billing!Invoice, Billing!InvoicesAssumption
  <1>2. QED
    BY <1>1, OneInvoice DEF Billing!Drift

LEMMA SameDrift ==
    ASSUME UNCHANGED <<invoices, used>>
    PROVE  Billing!Drift' = Billing!Drift
  BY DEF Billing!Drift, Billing!Receivables

LEMMA StepDrift ==
    ASSUME Billing!InvoicesAssumption, BillingIInv, BillingIInv', Billing!Next,
           Billing!Drift' # Billing!Drift
    PROVE  \E r \in Requests : \E a \in asked[r] : asked'[r] = {} /\ Billing!LosesTrack(a)
  <1>1. /\ BillingTyped /\ invoices' \in [Invoices -> Billing!Invoice] /\ used' \in Int
        /\ used \in Int
        /\ invoices \in [Invoices -> Billing!Invoice]
    BY DEF BillingIInv, BillingTyped
  <1>2. ASSUME NEW i \in Invoices, NEW n \in 0..InvoiceTotal, NEW b \in BOOLEAN,
               Billing!Insert(i, n, b)
        PROVE  FALSE
    <2>1. /\ \A y \in Invoices \ {i} : invoices'[y] = invoices[y]
          /\ Owed(invoices'[i]) = 0 /\ Owed(invoices[i]) = 0 /\ used' = used
      BY <1>1, <1>2 DEF Billing!Insert, Owed
    <2>2. QED
      BY <1>1, <2>1, OneDrift
  <1>3. ASSUME NEW i \in Invoices, Billing!Create(i) PROVE FALSE
    BY <1>2, <1>3 DEF Billing!Create, Billing!InvoicesAssumption
  <1>4. ASSUME NEW r \in Requests, Billing!Generate(r) PROVE FALSE
    BY <1>2, <1>4 DEF Billing!Generate
  <1>5. ASSUME NEW r \in Requests, Billing!Load(r) \/ Billing!GiveUp(r) PROVE FALSE
    BY <1>5, SameDrift DEF Billing!Load, Billing!GiveUp
  <1>6. ASSUME NEW r \in Requests, NEW a \in asked[r], Billing!Answered(r) \/
               asked'[r] = {}, Billing!LosesTrack(a)
        PROVE  \E q \in Requests : \E c \in asked[q] : asked'[q] = {} /\
               Billing!LosesTrack(c)
    BY <1>6 DEF Billing!Answered, BillingIInv, BillingTyped
  <1>7. ASSUME NEW r \in Requests, Billing!Issue(r)
        PROVE  \E a \in asked[r] : Billing!LosesTrack(a) /\ Billing!Answered(r)
    <2>1. PICK a \in asked[r] :
            /\ a.op = "issue" /\ invoices[a.id].status = "draft"
            /\ invoices' = [invoices EXCEPT ![a.id].status = "issued"]
            /\ used' = used + a.row.total /\ Billing!Answered(r)
      BY <1>7 DEF Billing!Issue
    <2>2. a.id \in Invoices /\ a.row.total \in Int /\ invoices[a.id].total \in Int
      BY <1>1, BillingAskFacts DEF Billing!Invoice, Billing!InvoicesAssumption
    <2>3. /\ \A y \in Invoices \ {a.id} : invoices'[y] = invoices[y]
          /\ Owed(invoices[a.id]) = 0 /\ Owed(invoices'[a.id]) = invoices[a.id].total
      BY <1>1, <2>1, <2>2 DEF Owed, Billing!Invoice
    <2>4. a.row.total # invoices[a.id].total
      BY <1>1, <2>1, <2>2, <2>3, OneDrift
    <2>5. QED
      BY <2>1, <2>4 DEF Billing!LosesTrack
  <1>8. ASSUME NEW r \in Requests, Billing!Pay(r)
        PROVE  \E a \in asked[r] : Billing!LosesTrack(a) /\ Billing!Answered(r)
    <2>1. PICK a \in asked[r] :
            /\ a.op = "pay" /\ invoices[a.id].status = "issued"
            /\ invoices' = [invoices EXCEPT ![a.id].status = "paid"]
            /\ used' = used - a.row.total /\ Billing!Answered(r)
      BY <1>8 DEF Billing!Pay
    <2>2. a.id \in Invoices /\ a.row.total \in Int /\ invoices[a.id].total \in Int
      BY <1>1, BillingAskFacts DEF Billing!Invoice, Billing!InvoicesAssumption
    <2>3. /\ \A y \in Invoices \ {a.id} : invoices'[y] = invoices[y]
          /\ Owed(invoices[a.id]) = invoices[a.id].total /\ Owed(invoices'[a.id]) = 0
      BY <1>1, <2>1, <2>2 DEF Owed, Billing!Invoice
    <2>4. a.row.total # invoices[a.id].total
      BY <1>1, <2>1, <2>2, <2>3, OneDrift
    <2>5. QED
      BY <2>1, <2>4 DEF Billing!LosesTrack
  <1>9. ASSUME NEW r \in Requests, Billing!Edit(r)
        PROVE  \E a \in asked[r] : Billing!LosesTrack(a) /\ asked'[r] = {}
    <2>1. PICK a \in asked[r] :
            /\ a.op = "edit" /\ invoices' = [invoices EXCEPT ![a.id] = a.row]
            /\ used' = used
            /\ asked'[r] = {}
      BY <1>9 DEF Billing!Edit
    <2>2. a.id \in Invoices /\ a.row.status = "draft"
      BY <2>1, BillingAskFacts DEF DraftForm
    <2>3. /\ \A y \in Invoices \ {a.id} : invoices'[y] = invoices[y]
          /\ Owed(invoices'[a.id]) = 0
          /\ invoices[a.id].status # "issued" => Owed(invoices[a.id]) = 0
      BY <1>1, <2>1, <2>2 DEF Owed
    <2>4. invoices[a.id].status = "issued"
      BY <1>1, <2>1, <2>2, <2>3, OneDrift
    <2>5. QED
      BY <2>1, <2>4 DEF Billing!LosesTrack
  <1>10. ASSUME NEW r \in Requests, Billing!WriteLine(r)
         PROVE  \E a \in asked[r] : Billing!LosesTrack(a) /\ Billing!Answered(r)
    <2>1. PICK a \in asked[r] :
            /\ a.op \in {"add_line", "delete_line"} /\ used' = used /\ Billing!Answered(r)
            /\ \E total \in 0..InvoiceTotal :
                 invoices' = [invoices EXCEPT ![a.id].total = total]
      BY <1>10 DEF Billing!WriteLine
    <2>2. a.id \in Invoices
      BY BillingAskFacts
    <2>3. /\ \A y \in Invoices \ {a.id} : invoices'[y] = invoices[y]
          /\ invoices[a.id].status # "issued" =>
               Owed(invoices[a.id]) = 0 /\ Owed(invoices'[a.id]) = 0
      BY <1>1, <2>1, <2>2 DEF Owed, Billing!Invoice
    <2>4. invoices[a.id].status = "issued"
      BY <1>1, <2>1, <2>2, <2>3, OneDrift
    <2>5. QED
      BY <2>1, <2>4 DEF Billing!LosesTrack
  <1>11. ASSUME NEW r \in Requests, Billing!Delete(r)
         PROVE  \E a \in asked[r] : Billing!LosesTrack(a) /\ Billing!Answered(r)
    <2>1. PICK a \in asked[r] :
            /\ a.op = "delete" /\ used' = used /\ Billing!Answered(r)
            /\ invoices' = [invoices EXCEPT ![a.id] = Billing!NoRow]
      BY <1>11 DEF Billing!Delete
    <2>2. a.id \in Invoices
      BY BillingAskFacts
    <2>3. /\ \A y \in Invoices \ {a.id} : invoices'[y] = invoices[y]
          /\ Owed(invoices'[a.id]) = 0
          /\ invoices[a.id].status # "issued" => Owed(invoices[a.id]) = 0
      BY <1>1, <2>1, <2>2 DEF Owed, Billing!NoRow
    <2>4. invoices[a.id].status = "issued"
      BY <1>1, <2>1, <2>2, <2>3, OneDrift
    <2>5. QED
      BY <2>1, <2>4 DEF Billing!LosesTrack
  <1>12. ASSUME NEW r \in Requests, Billing!SaveCustomer(r)
         PROVE  \E a \in asked[r] : Billing!LosesTrack(a) /\ Billing!Answered(r)
    <2>1. PICK a \in asked[r] : a.op = "customer" /\ used' = a.used /\ Billing!Answered(r)
                                /\ invoices' = invoices
      BY <1>12 DEF Billing!SaveCustomer
    <2>2. a.used # used
      BY <2>1, SameDrift
    <2>3. QED
      BY <2>1, <2>2 DEF Billing!LosesTrack
  <1>13. QED
    BY <1>3, <1>4, <1>5, <1>6, <1>7, <1>8, <1>9, <1>10, <1>11, <1>12 DEF Billing!Next

\* credit_used and the open invoices part company only in the steps named in
\* LosesTrack: each issue and each payment moves it by the total of its invoice, once.
LEMMA BillingFollows ==
    ASSUME Billing!InvoicesAssumption
    PROVE  Billing!Spec => Billing!CreditFollowsInvoices
  <1>1. BillingIInv /\ BillingIInv' /\ [Billing!Next]_(Billing!vars) =>
          [Billing!Drift' # Billing!Drift =>
             \E r \in Requests : \E a \in asked[r] : asked'[r] = {} /\
               Billing!LosesTrack(a)]_(Billing!vars)
    BY StepDrift
  <1>2. QED
    BY <1>1, BillingSpecIInv, PTL DEF Billing!Spec, Billing!CreditFollowsInvoices

----------------------------------------------------------------------------
\* The facts of the instances that are stated with their own copies of the
\* operators for finite sets and sums.
LEMMA DeliveriesFinite ==
    ASSUME Deliveries!ShippingAssumption
    PROVE  IsFiniteSet(Shipments) /\ MaxOrdered \in Nat \ {0} /\ Given \subseteq Int
  BY DEF Deliveries!ShippingAssumption, Deliveries!IsFiniteSet, IsFiniteSet

LEMMA DeliveriesSum == \A f, S : Deliveries!SumOver(f, S) = SumOver(f, S)
  BY DEF Deliveries!SumOver, SumOver, Deliveries!MapThenSumSet, MapThenSumSet,
         Deliveries!MapThenFoldSet,
         MapThenFoldSet

\* What a request holds of a shipment.
DeliveryHeld == [op : Deliveries!Operations, id : Shipments,
  status : Deliveries!Statuses, qty : 0..MaxOrdered, leaves : Int, fresh : BOOLEAN]

\* What a request holds of the order line.
FormHeld == [ordered : 1..MaxOrdered, shipped : Int]

DeliveryTyped ==
  /\ ships \in [Shipments -> Deliveries!Ship]
  /\ ordered \in 1..MaxOrdered
  /\ shipped \in Int
  /\ pending \in [Requests -> SUBSET DeliveryHeld]
  /\ forms \in [Requests -> SUBSET FormHeld]

\* The statuses that the view of an operation lets pass.
From(op) ==
  CASE op = "pick" -> {"planned"}
    [] op = "pack" -> {"picked"}
    [] op = "dispatch" -> {"packed"}
    [] op = "deliver" -> {"in_transit"}
    [] op = "cancel" -> {"planned", "picked", "packed", "in_transit"}
    [] op = "edit" -> {"planned", "picked"}
    [] OTHER -> Deliveries!Statuses

\* What was loaded passed the test of its view.
Tested(p) == p.status \in From(p.op) /\ (p.op = "delete_line" => p.qty = 0)

\* As long as it is fresh, it would pass again.
StillPasses(p) ==
  p.fresh =>
    /\ p.op = "edit" => ships[p.id].status = p.status
    /\ p.op = "add_line" => ships[p.id].status \in {"planned", "picked"}
    /\ p.op \in {"add_line", "edit_line"} => p.qty + Deliveries!Committed(p.id) <= ordered

DeliveryIInv == DeliveryTyped /\ \A r \in Requests : \A p \in pending[r] : Tested(p) /\
  StillPasses(p)

LEMMA DeliveryInitIInv ==
    ASSUME Deliveries!ShippingAssumption
    PROVE  Deliveries!Init => DeliveryIInv
  BY DEF Deliveries!ShippingAssumption, Deliveries!Init, DeliveryIInv, DeliveryTyped,
         Deliveries!NoRow, Deliveries!Ship, Deliveries!Statuses

LEMMA PendingFacts ==
    ASSUME DeliveryIInv, NEW r \in Requests, NEW p \in pending[r]
    PROVE  /\ p \in DeliveryHeld /\ p.id \in Shipments /\ p.qty \in 0..MaxOrdered /\
              p.status \in Deliveries!Statuses /\ p.leaves \in Int
           /\ p.fresh \in BOOLEAN /\ Tested(p) /\ StillPasses(p)
  BY DEF DeliveryIInv, DeliveryTyped, DeliveryHeld

\* What the shipments of a set carry.
Open(S) == {t \in S : ships[t].status # "cancelled"}

LEMMA QuantitySums ==
    ASSUME Deliveries!ShippingAssumption, DeliveryTyped, NEW S \in SUBSET Shipments
    PROVE  /\ IsFiniteSet(S) /\ IntOn(Deliveries!Quantity, S)
           /\ SumOver(Deliveries!Quantity, S) \in Nat
           /\ \A t \in Shipments : Deliveries!Quantity[t] \in Nat
  <1>1. \A t \in Shipments : Deliveries!Quantity[t] \in Nat
    BY DEF Deliveries!Quantity, DeliveryTyped, Deliveries!Ship,
           Deliveries!ShippingAssumption
  <1>2. IsFiniteSet(S)
    BY FS_Subset, DeliveriesFinite
  <1>3. IntOn(Deliveries!Quantity, S)
    BY <1>1 DEF IntOn
  <1>4. QED
    BY <1>1, <1>2, <1>3, SumNat

\* Another write makes what relies on a test stale and leaves the rest as it was.
LEMMA LandedFacts ==
    ASSUME DeliveryIInv, NEW r \in Requests, Deliveries!Landed(r)
    PROVE  /\ pending' \in [Requests -> SUBSET DeliveryHeld]
           /\ \A q \in Requests : \A p \in pending'[q] :
                Tested(p) /\ (p.op \in {"edit", "add_line", "edit_line"} => ~p.fresh)
           /\ pending'[r] = {}
  <1>1. ASSUME NEW q \in Requests, NEW p \in pending[q]
        PROVE  LET c == [p EXCEPT !.fresh = p.op \notin Deliveries!Unrepeated]
               IN  /\ c \in DeliveryHeld /\ Tested(c)
                   /\ c.op \in {"edit", "add_line", "edit_line"} => ~c.fresh
    <2> DEFINE c == [p EXCEPT !.fresh = p.op \notin Deliveries!Unrepeated]
    <2>1. p \in DeliveryHeld /\ Tested(p)
      BY PendingFacts
    <2>2. c.op = p.op /\ c.fresh = (p.op \notin Deliveries!Unrepeated) /\
            c.status = p.status /\ c.qty = p.qty
      BY <2>1 DEF DeliveryHeld
    <2>3. c \in DeliveryHeld
      BY <2>1 DEF DeliveryHeld
    <2>4. Tested(c)
      BY <2>1, <2>2 DEF Tested
    <2>5. c.op \in {"edit", "add_line", "edit_line"} => ~c.fresh
      BY <2>2 DEF Deliveries!Unrepeated
    <2>6. QED
      BY <2>3, <2>4, <2>5, Zenon
  <1>2. \A q \in Requests : pending'[q] =
          IF q = r THEN {} ELSE {[p EXCEPT !.fresh =
            p.op \notin Deliveries!Unrepeated] : p \in pending[q]}
    BY DEF Deliveries!Landed
  <1>3. ASSUME NEW q \in Requests, NEW p \in pending'[q]
        PROVE  /\ p \in DeliveryHeld /\ Tested(p)
               /\ p.op \in {"edit", "add_line", "edit_line"} => ~p.fresh
    <2>1. q # r
      BY <1>2, <1>3
    <2>2. p \in {[c EXCEPT !.fresh =
            c.op \notin Deliveries!Unrepeated] : c \in pending[q]}
      BY <1>2, <1>3, <2>1, Zenon
    <2>3. PICK c \in pending[q] :
               p = [c EXCEPT !.fresh = c.op \notin Deliveries!Unrepeated]
      BY <2>2, Zenon
    <2>4. QED
      BY <1>1, <2>3, Zenon
  <1>4. pending' \in [Requests -> SUBSET DeliveryHeld]
    BY <1>3 DEF Deliveries!Landed
  <1>5. QED
    BY <1>2, <1>3, <1>4

LEMMA DeliveryLandedIInv ==
    ASSUME DeliveryIInv, NEW r \in Requests, Deliveries!Landed(r),
           ships' \in [Shipments -> Deliveries!Ship], shipped' \in Int,
           ordered' \in 1..MaxOrdered, forms' \in [Requests -> SUBSET FormHeld]
    PROVE  DeliveryIInv'
  <1>1. \A q \in Requests : \A p \in pending'[q] :
          Tested(p) /\ (p.op \in {"edit", "add_line", "edit_line"} => ~p.fresh)
    BY LandedFacts
  <1>2. \A q \in Requests : \A p \in pending'[q] : Tested(p)' /\ StillPasses(p)'
    BY <1>1 DEF Tested, StillPasses, From, Deliveries!Statuses
  <1>3. DeliveryTyped'
    BY LandedFacts DEF DeliveryTyped
  <1>4. QED
    BY <1>2, <1>3 DEF DeliveryIInv

\* A write that leaves the order line and its forms alone.
LEMMA DeliveryWriteIInv ==
    ASSUME DeliveryIInv, NEW r \in Requests, Deliveries!Landed(r),
           ships' \in [Shipments -> Deliveries!Ship], shipped' \in Int,
           UNCHANGED <<ordered, forms>>
    PROVE  DeliveryIInv'
  BY DeliveryLandedIInv DEF DeliveryIInv, DeliveryTyped

\* The shipment of an operation and what the operation makes of it.
LEMMA DeliveryMovesIInv ==
    ASSUME DeliveryIInv, NEW r \in Requests, NEW op, NEW to \in Deliveries!Statuses,
           Deliveries!Moves(r, op, to)
    PROVE  DeliveryIInv'
  <1>1. PICK p \in pending[r] :
          /\ ships' = [ships EXCEPT ![p.id].status = to] /\ Deliveries!Landed(r)
          /\ UNCHANGED <<ordered, shipped, forms>>
    BY DEF Deliveries!Moves, Deliveries!orderLine
  <1>2. ships' \in [Shipments -> Deliveries!Ship] /\ shipped' \in Int
    BY <1>1, PendingFacts DEF DeliveryIInv, DeliveryTyped, Deliveries!Ship
  <1>3. QED
    BY <1>1, <1>2, DeliveryWriteIInv

LEMMA DeliveryConfirmDeliveryIInv ==
    ASSUME DeliveryIInv, NEW r \in Requests, Deliveries!ConfirmDelivery(r)
    PROVE  DeliveryIInv'
  <1>1. PICK p \in pending[r] :
          /\ ships' = [ships EXCEPT ![p.id].status = "delivered"] /\ Deliveries!Landed(r)
          /\ shipped' = shipped + ships[p.id].leaves /\ UNCHANGED <<ordered, forms>>
    BY DEF Deliveries!ConfirmDelivery
  <1>2. ships' \in [Shipments -> Deliveries!Ship] /\ shipped' \in Int
    BY <1>1, PendingFacts
       DEF DeliveryIInv, DeliveryTyped, Deliveries!Ship, Deliveries!Statuses
  <1>3. QED
    BY <1>1, <1>2, DeliveryWriteIInv

LEMMA AfterSaveShip ==
    ASSUME NEW row \in Deliveries!Ship, NEW status \in Deliveries!Statuses,
           NEW new \in Deliveries!AfterSave([row EXCEPT !.status = status])
    PROVE  /\ new \in Deliveries!Ship /\ new.status = status /\ new.qty = row.qty
           /\ new.leaves = row.leaves
  <1> DEFINE old == [row EXCEPT !.status = status]
  <1>1. old \in Deliveries!Ship /\ old.status = status /\ old.qty = row.qty
        /\ old.leaves = row.leaves
    BY DEF Deliveries!Ship
  <1>2. new = old \/ \E m \in {"skipped", "left"} : new = [old EXCEPT !.moved = m]
    BY DEF Deliveries!AfterSave
  <1> HIDE DEF old
  <1>3. QED
    BY <1>1, <1>2 DEF Deliveries!Ship

LEMMA DeliveryEditIInv ==
    ASSUME DeliveryIInv, NEW r \in Requests, Deliveries!Edit(r)
    PROVE  DeliveryIInv'
  <1>1. PICK p \in pending[r] :
          /\ \E new \in Deliveries!AfterSave([ships[p.id] EXCEPT !.status = p.status]) :
               ships' = [ships EXCEPT ![p.id] = new]
          /\ Deliveries!Landed(r) /\ UNCHANGED <<ordered, shipped, forms>>
    BY DEF Deliveries!Edit, Deliveries!orderLine
  <1>2. PICK new \in Deliveries!AfterSave([ships[p.id] EXCEPT !.status = p.status]) :
          ships' = [ships EXCEPT ![p.id] = new]
    BY <1>1
  <1>3. ships[p.id] \in Deliveries!Ship /\ p.status \in Deliveries!Statuses /\
          p.id \in Shipments
    BY PendingFacts DEF DeliveryIInv, DeliveryTyped
  <1>4. new \in Deliveries!Ship
    BY <1>3, AfterSaveShip
  <1>5. ships' \in [Shipments -> Deliveries!Ship] /\ shipped' \in Int
    BY <1>1, <1>2, <1>4 DEF DeliveryIInv, DeliveryTyped
  <1>6. QED
    BY <1>1, <1>5, DeliveryWriteIInv

LEMMA NoRowShip ==
    ASSUME Deliveries!ShippingAssumption
    PROVE  /\ Deliveries!NoRow \in Deliveries!Ship
           /\ Deliveries!NoRow.qty = 0 /\ Deliveries!NoRow.leaves = 0
  BY DEF Deliveries!NoRow, Deliveries!Ship, Deliveries!Statuses,
         Deliveries!ShippingAssumption

LEMMA DeliveryDeleteIInv ==
    ASSUME Deliveries!ShippingAssumption, DeliveryIInv, NEW r \in Requests,
           Deliveries!Delete(r)
    PROVE  DeliveryIInv'
  <1>1. PICK p \in pending[r] :
          ships' = [ships EXCEPT ![p.id] = Deliveries!NoRow] /\ Deliveries!Landed(r) /\
            UNCHANGED <<ordered, shipped, forms>>
    BY DEF Deliveries!Delete, Deliveries!orderLine
  <1>2. ships' \in [Shipments -> Deliveries!Ship] /\ shipped' \in Int
    BY <1>1, NoRowShip DEF DeliveryIInv, DeliveryTyped
  <1>3. QED
    BY <1>1, <1>2, DeliveryWriteIInv

\* What WriteLine makes of a shipment.
LEMMA WrittenLine ==
    ASSUME NEW row \in Deliveries!Ship, NEW p \in DeliveryHeld
    PROVE  LET new == [row EXCEPT !.qty = p.qty, !.leaves = p.leaves,
                         !.moved = IF p.op = "edit_line" THEN row.moved ELSE "unseen"]
           IN  /\ new \in Deliveries!Ship /\ new.status = row.status
               /\ new.qty = p.qty /\ new.leaves = p.leaves
  BY DEF Deliveries!Ship, DeliveryHeld

LEMMA DeliveryWriteLineIInv ==
    ASSUME DeliveryIInv, NEW r \in Requests, Deliveries!WriteLine(r)
    PROVE  DeliveryIInv'
  <1>1. PICK p \in pending[r] :
          /\ ships' = [ships EXCEPT ![p.id] =
               [ships[p.id] EXCEPT !.qty = p.qty, !.leaves = p.leaves,
                  !.moved = IF p.op = "edit_line" THEN ships[p.id].moved ELSE "unseen"]]
          /\ Deliveries!Landed(r) /\ UNCHANGED <<ordered, shipped, forms>>
    BY DEF Deliveries!WriteLine, Deliveries!orderLine
  <1>2. p \in DeliveryHeld /\ p.id \in Shipments /\ ships[p.id] \in Deliveries!Ship
    BY PendingFacts DEF DeliveryIInv, DeliveryTyped
  <1>3. ships' \in [Shipments -> Deliveries!Ship] /\ shipped' \in Int
    BY <1>1, <1>2, WrittenLine DEF DeliveryIInv, DeliveryTyped
  <1>4. QED
    BY <1>1, <1>3, DeliveryWriteIInv

\* The form of the order line was typed when it was loaded.
LEMMA DeliverySaveFormIInv ==
    ASSUME DeliveryIInv, NEW r \in Requests, Deliveries!SaveForm(r)
    PROVE  DeliveryIInv'
  <1>1. PICK f \in forms[r] :
          /\ ordered' = f.ordered /\ shipped' = f.shipped
          /\ forms' = [forms EXCEPT ![r] = {}] /\ Deliveries!Landed(r) /\ ships' = ships
    BY DEF Deliveries!SaveForm
  <1>2. f \in FormHeld /\ ships \in [Shipments -> Deliveries!Ship]
        /\ forms \in [Requests -> SUBSET FormHeld]
    BY DEF DeliveryIInv, DeliveryTyped
  <1>3. ordered' \in 1..MaxOrdered /\ shipped' \in Int
        /\ forms' \in [Requests -> SUBSET FormHeld]
    BY <1>1, <1>2 DEF FormHeld
  <1>4. QED
    BY <1>1, <1>2, <1>3, DeliveryLandedIInv

\* What no write has come between is as it was.
LEMMA DeliveryUnwritten ==
    ASSUME DeliveryIInv, UNCHANGED <<ships, ordered, shipped>>,
           \A q \in Requests : pending'[q] \subseteq pending[q],
           pending' \in [Requests -> SUBSET DeliveryHeld],
           forms' \in [Requests -> SUBSET FormHeld]
    PROVE  DeliveryIInv'
  <1>1. \A p : Deliveries!Committed(p.id)' = Deliveries!Committed(p.id)
    BY DEF Deliveries!Committed, Deliveries!Quantity
  <1>2. QED
    BY <1>1 DEF DeliveryIInv, DeliveryTyped, Tested, StillPasses, From, Deliveries!Statuses

LEMMA DeliveryGiveUpIInv ==
    ASSUME DeliveryIInv, NEW r \in Requests, Deliveries!GiveUp(r)
    PROVE  DeliveryIInv'
  <1>1. \A q \in Requests : pending'[q] \subseteq pending[q]
    BY DEF Deliveries!GiveUp, DeliveryIInv, DeliveryTyped
  <1>2. /\ pending' \in [Requests -> SUBSET DeliveryHeld]
        /\ forms' \in [Requests -> SUBSET FormHeld]
        /\ UNCHANGED <<ships, ordered, shipped>>
    BY DEF Deliveries!GiveUp, Deliveries!orderLine, DeliveryIInv, DeliveryTyped
  <1>3. QED
    BY <1>1, <1>2, DeliveryUnwritten

LEMMA DeliveryLoadFormIInv ==
    ASSUME DeliveryIInv, NEW r \in Requests, Deliveries!LoadForm(r)
    PROVE  DeliveryIInv'
  <1>1. /\ UNCHANGED <<ships, ordered, shipped, pending>>
        /\ \E n \in 1..MaxOrdered :
             forms' = [forms EXCEPT ![r] = {[ordered |-> n, shipped |-> shipped]}]
    BY DEF Deliveries!LoadForm, Deliveries!orderLine
  <1>2. shipped \in Int /\ forms \in [Requests -> SUBSET FormHeld]
        /\ pending \in [Requests -> SUBSET DeliveryHeld]
    BY DEF DeliveryIInv, DeliveryTyped
  <1>3. forms' \in [Requests -> SUBSET FormHeld]
    BY <1>1, <1>2 DEF FormHeld
  <1>4. QED
    BY <1>1, <1>2, <1>3, DeliveryUnwritten

LEMMA DeliveryLoadIInv ==
    ASSUME Deliveries!ShippingAssumption, DeliveryIInv, NEW r \in Requests,
           Deliveries!Load(r)
    PROVE  DeliveryIInv'
  <1>1. PICK op \in Deliveries!Operations, s \in Shipments :
             \E line \in Deliveries!Quantities(op) :
          /\ Deliveries!Passes(op, s, line.qty)
          /\ pending' = [pending EXCEPT ![r] =
               {[op |-> op, id |-> s,
                 status |-> IF op \in Deliveries!UsesStatus THEN ships[s].status ELSE "none",
                 qty |-> line.qty, leaves |-> line.leaves, fresh |-> TRUE]}]
    BY DEF Deliveries!Load
  <1>2. PICK line \in Deliveries!Quantities(op) :
          /\ Deliveries!Passes(op, s, line.qty)
          /\ pending' = [pending EXCEPT ![r] =
               {[op |-> op, id |-> s,
                 status |-> IF op \in Deliveries!UsesStatus THEN ships[s].status ELSE "none",
                 qty |-> line.qty, leaves |-> line.leaves, fresh |-> TRUE]}]
    BY <1>1
  <1> DEFINE status == IF op \in Deliveries!UsesStatus THEN ships[s].status ELSE "none"
             new == [op |-> op, id |-> s, status |-> status,
                     qty |-> line.qty, leaves |-> line.leaves, fresh |-> TRUE]
  <1>3. UNCHANGED <<ships, ordered, shipped, forms>>
    BY DEF Deliveries!Load, Deliveries!orderLine
  <1>4. /\ line.qty \in 0..MaxOrdered /\ line.leaves \in Int
        /\ op = "delete_line" => line.qty = 0
    BY DeliveriesFinite DEF Deliveries!Quantities
  <1>5. status \in Deliveries!Statuses
        /\ (op \notin {"delete", "add_line", "edit_line", "delete_line"} =>
              status = ships[s].status)
    BY DEF DeliveryIInv, DeliveryTyped, Deliveries!Ship, Deliveries!Statuses,
           Deliveries!UsesStatus
  <1> HIDE DEF status
  <1>6. new \in DeliveryHeld /\ new.op = op /\ new.id = s /\ new.status = status
        /\ new.qty = line.qty
    BY <1>4, <1>5 DEF DeliveryHeld
  <1>7. Tested(new)
    BY <1>2, <1>4, <1>5, <1>6 DEF Tested, From, Deliveries!Passes, Deliveries!Operations
  <1>8. StillPasses(new)
    BY <1>2, <1>5, <1>6 DEF StillPasses, Deliveries!Passes
  <1>9. \A q \in Requests : pending'[q] = IF q = r THEN {new} ELSE pending[q]
    BY <1>2 DEF DeliveryIInv, DeliveryTyped, status
  <1>10. pending' \in [Requests -> SUBSET DeliveryHeld]
    BY <1>2, <1>6 DEF DeliveryIInv, DeliveryTyped, status
  <1> HIDE DEF new
  <1>11. ASSUME NEW p, StillPasses(p), Tested(p) PROVE StillPasses(p)' /\ Tested(p)'
    <2>1. Deliveries!Committed(p.id)' = Deliveries!Committed(p.id)
      BY <1>3 DEF Deliveries!Committed, Deliveries!Quantity
    <2>2. QED
      BY <1>3, <1>11, <2>1 DEF StillPasses, Tested, From, Deliveries!Statuses
  <1>12. \A q \in Requests : \A p \in pending'[q] : Tested(p) /\ StillPasses(p)
    BY <1>7, <1>8, <1>9 DEF DeliveryIInv
  <1>13. DeliveryTyped'
    BY <1>3, <1>10 DEF DeliveryIInv, DeliveryTyped
  <1>14. QED
    BY <1>11, <1>12, <1>13 DEF DeliveryIInv

\* A new shipment has no line yet.
LEMMA DeliveryCreateIInv ==
    ASSUME Deliveries!ShippingAssumption, DeliveryIInv, NEW s \in Shipments,
           Deliveries!Create(s)
    PROVE  DeliveryIInv'
  <1> DEFINE new == [Deliveries!NoRow EXCEPT !.status = "planned"]
  <1>0. new \in Deliveries!Ship /\ new.status = "planned" /\ new.qty = 0
    BY NoRowShip DEF Deliveries!Ship, Deliveries!Statuses
  <1>1. /\ ships[s].status = "none" /\ UNCHANGED <<ordered, shipped, pending, forms>>
        /\ ships' = [ships EXCEPT ![s] = new]
    BY DEF Deliveries!Create, Deliveries!orderLine
  <1> HIDE DEF new
  <1>3. /\ ships' \in [Shipments -> Deliveries!Ship]
        /\ ships'[s].qty = 0 /\ ships'[s].status = "planned"
        /\ \A t \in Shipments \ {s} : ships'[t] = ships[t]
    BY <1>0, <1>1 DEF DeliveryIInv, DeliveryTyped
  <1>4. DeliveryTyped' /\ DeliveryTyped
    BY <1>1, <1>3 DEF DeliveryIInv, DeliveryTyped
  <1>5. ASSUME NEW c \in Shipments
        PROVE  Deliveries!Committed(c)' <= Deliveries!Committed(c)
    <2> DEFINE S == {t \in Shipments \ {c} : ships[t].status # "cancelled"}
               T == {t \in Shipments \ {c} : ships'[t].status # "cancelled"}
    <2>1. S \in SUBSET Shipments /\ T \in SUBSET Shipments
      OBVIOUS
    <2>2. S = T
      BY <1>1, <1>3
    <2>3. \A t \in Shipments : Deliveries!Quantity[t] \in Nat /\
            Deliveries!Quantity'[t] \in Nat
      BY <1>4
         DEF DeliveryTyped, Deliveries!Quantity, Deliveries!Ship,
           Deliveries!ShippingAssumption
    <2>4. \A t \in Shipments \ {s} : Deliveries!Quantity'[t] = Deliveries!Quantity[t]
      BY <1>3 DEF Deliveries!Quantity
    <2>5. Deliveries!Quantity'[s] = 0
      BY <1>3 DEF Deliveries!Quantity
    <2>6. /\ IsFiniteSet(S) /\ IsFiniteSet(T)
          /\ IntOn(Deliveries!Quantity, S) /\ IntOn(Deliveries!Quantity', T)
      BY <2>1, <2>3, FS_Subset, DeliveriesFinite DEF IntOn
    <2>7. Deliveries!Committed(c) = SumOver(Deliveries!Quantity, S) /\
            Deliveries!Committed(c)' = SumOver(Deliveries!Quantity', T)
      BY DeliveriesSum DEF Deliveries!Committed
    <2>8. Share(Deliveries!Quantity', T, s) = 0 /\
            Share(Deliveries!Quantity, S, s) \in Nat
      BY <2>1, <2>3, <2>5 DEF Share
    <2>9. S \ {s} = T \ {s} /\
            \A t \in S \ {s} : Deliveries!Quantity[t] = Deliveries!Quantity'[t]
      BY <2>1, <2>2, <2>4
    <2> HIDE DEF S, T
    <2>10. /\ SumOver(Deliveries!Quantity, S) \in Int
           /\ SumOver(Deliveries!Quantity', T) \in Int
           /\ SumOver(Deliveries!Quantity', T) - SumOver(Deliveries!Quantity, S)
                = Share(Deliveries!Quantity', T, s) - Share(Deliveries!Quantity, S, s)
      BY <2>6, <2>9, SumOneChange
    <2>11. QED
      BY <2>7, <2>8, <2>10
  <1>6. ASSUME NEW r \in Requests, NEW p \in pending[r]
        PROVE  Tested(p)' /\ StillPasses(p)'
    <2>1. /\ p.id \in Shipments /\ p.qty \in Nat /\ Tested(p) /\ StillPasses(p)
      BY PendingFacts DEF Deliveries!ShippingAssumption
    <2>2. Deliveries!Committed(p.id) \in Nat /\ Deliveries!Committed(p.id)' \in Nat
      <3>1. \A t \in Shipments : Deliveries!Quantity'[t] \in Nat
        BY <1>4
           DEF DeliveryTyped, Deliveries!Quantity, Deliveries!Ship,
             Deliveries!ShippingAssumption
      <3>2. \A S \in SUBSET Shipments : SumOver(Deliveries!Quantity', S) \in Nat
        BY <3>1, FS_Subset, SumNat, DeliveriesFinite
      <3>3. QED
        BY <1>4, <3>2, QuantitySums, DeliveriesSum DEF Deliveries!Committed
    <2>3. Deliveries!Committed(p.id)' <= Deliveries!Committed(p.id)
      BY <1>5, <2>1
    <2>4. p.fresh /\ p.op \in {"edit", "add_line"} => p.id # s
      BY <1>1, <2>1 DEF StillPasses, Tested, From
    <2>5. ASSUME p.fresh PROVE StillPasses(p)'
      <3>1. p.op \in {"edit", "add_line"} => ships'[p.id] = ships[p.id]
        BY <1>3, <2>1, <2>4, <2>5
      <3>2. p.op \in {"add_line", "edit_line"} =>
              p.qty + Deliveries!Committed(p.id)' <= ordered
        BY <2>1, <2>2, <2>3, <2>5 DEF StillPasses, DeliveryIInv, DeliveryTyped
      <3>3. QED
        BY <1>1, <2>1, <2>5, <3>1, <3>2 DEF StillPasses
    <2>6. StillPasses(p)'
      BY <2>5 DEF StillPasses
    <2>7. QED
      BY <2>1, <2>6 DEF Tested, From, Deliveries!Statuses
  <1>7. QED
    BY <1>1, <1>4, <1>6 DEF DeliveryIInv

LEMMA DeliveryStepIInv ==
    ASSUME Deliveries!ShippingAssumption
    PROVE  DeliveryIInv /\ [Deliveries!Next]_(Deliveries!vars) => DeliveryIInv'
  <1> SUFFICES ASSUME DeliveryIInv,
                      [Deliveries!Next]_(Deliveries!vars) PROVE DeliveryIInv'
    OBVIOUS
  <1>1. CASE UNCHANGED Deliveries!vars
    <2>1. \A p : StillPasses(p)' <=> StillPasses(p)
      BY <1>1 DEF Deliveries!vars, StillPasses, Deliveries!Committed, Deliveries!Quantity
    <2>2. QED
      BY <1>1, <2>1 DEF Deliveries!vars, DeliveryIInv, DeliveryTyped, Tested
  <1>2. ASSUME NEW r \in Requests, Deliveries!Pick(r) \/ Deliveries!Pack(r) \/
               Deliveries!Dispatch(r) \/ Deliveries!Cancel(r)
        PROVE  DeliveryIInv'
    BY <1>2, DeliveryMovesIInv
       DEF Deliveries!Pick, Deliveries!Pack, Deliveries!Dispatch, Deliveries!Cancel,
         Deliveries!Statuses
  <1>3. CASE Deliveries!Next
    BY <1>2, <1>3, DeliveryCreateIInv, DeliveryLoadIInv, DeliveryConfirmDeliveryIInv,
       DeliveryEditIInv, DeliveryDeleteIInv, DeliveryWriteLineIInv,
       DeliveryLoadFormIInv, DeliverySaveFormIInv, DeliveryGiveUpIInv DEF Deliveries!Next
  <1>4. QED
    BY <1>1, <1>3

LEMMA DeliverySpecIInv ==
    ASSUME Deliveries!ShippingAssumption
    PROVE  Deliveries!Spec => []DeliveryIInv
  BY DeliveryInitIInv, DeliveryStepIInv, PTL DEF Deliveries!Spec

----------------------------------------------------------------------------
\* What a shipment counts for in the sums of the two properties.
CountsInForce(row) == IF row.status # "cancelled" THEN row.qty ELSE 0
CountsDelivered(row) == IF row.status = "delivered" THEN row.leaves ELSE 0

\* A write to one shipment changes a sum over shipments by what it makes of that one.
LEMMA OneShipment ==
    ASSUME Deliveries!ShippingAssumption, NEW f \in [Shipments -> Int],
           NEW g \in [Shipments -> Int], NEW S \in SUBSET Shipments,
           NEW T \in SUBSET Shipments, NEW x \in Shipments,
           S \ {x} = T \ {x}, \A y \in Shipments \ {x} : g[y] = f[y]
    PROVE  /\ SumOver(f, S) \in Int /\ SumOver(g, T) \in Int
           /\ SumOver(g, T) - SumOver(f, S)
                = (IF x \in T THEN g[x] ELSE 0) - (IF x \in S THEN f[x] ELSE 0)
  <1>1. IsFiniteSet(S) /\ IsFiniteSet(T)
    BY FS_Subset, DeliveriesFinite
  <1>2. IntOn(f, S) /\ IntOn(g, T)
    BY DEF IntOn
  <1>3. Share(f, S, x) = (IF x \in S THEN f[x] ELSE 0)
        /\ Share(g, T, x) = (IF x \in T THEN g[x] ELSE 0)
    BY DEF Share
  <1>4. \A y \in S \ {x} : f[y] = g[y]
    OBVIOUS
  <1>5. QED
    BY <1>1, <1>2, <1>3, <1>4, SumOneChange

LEMMA OneDelivered ==
    ASSUME Deliveries!ShippingAssumption, DeliveryTyped, DeliveryTyped',
           NEW x \in Shipments, \A y \in Shipments \ {x} : ships'[y] = ships[y]
    PROVE  /\ Deliveries!Delivered \in Int /\ Deliveries!Delivered' \in Int
           /\ Deliveries!Delivered' - Deliveries!Delivered
                = CountsDelivered(ships'[x]) - CountsDelivered(ships[x])
  <1> DEFINE S == {t \in Shipments : ships[t].status = "delivered"}
             T == {t \in Shipments : ships'[t].status = "delivered"}
             f == [t \in Shipments |-> ships[t].leaves]
             g == [t \in Shipments |-> ships'[t].leaves]
  <1>1. f \in [Shipments -> Int] /\ g \in [Shipments -> Int]
    BY DEF DeliveryTyped, Deliveries!Ship
  <1>2. S \in SUBSET Shipments /\ T \in SUBSET Shipments /\ S \ {x} = T \ {x}
        /\ \A y \in Shipments \ {x} : g[y] = f[y]
    OBVIOUS
  <1>3. Deliveries!Delivered = SumOver(f, S) /\ Deliveries!Delivered' = SumOver(g, T)
    BY DeliveriesSum DEF Deliveries!Delivered, Deliveries!Leaving
  <1>4. (IF x \in S THEN f[x] ELSE 0) = CountsDelivered(ships[x])
        /\ (IF x \in T THEN g[x] ELSE 0) = CountsDelivered(ships'[x])
    BY DEF CountsDelivered
  <1> HIDE DEF S, T, f, g
  <1>5. QED
    BY <1>1, <1>2, <1>3, <1>4, OneShipment

LEMMA OneInForce ==
    ASSUME Deliveries!ShippingAssumption, DeliveryTyped, DeliveryTyped',
           NEW x \in Shipments, \A y \in Shipments \ {x} : ships'[y] = ships[y]
    PROVE  /\ Deliveries!InForce \in Int /\ Deliveries!InForce' \in Int
           /\ Deliveries!InForce' - Deliveries!InForce
                = CountsInForce(ships'[x]) - CountsInForce(ships[x])
  <1> DEFINE S == {t \in Shipments : ships[t].status # "cancelled"}
             T == {t \in Shipments : ships'[t].status # "cancelled"}
             f == [t \in Shipments |-> ships[t].qty]
             g == [t \in Shipments |-> ships'[t].qty]
  <1>1. f \in [Shipments -> Int] /\ g \in [Shipments -> Int]
    BY DeliveriesFinite DEF DeliveryTyped, Deliveries!Ship
  <1>2. S \in SUBSET Shipments /\ T \in SUBSET Shipments /\ S \ {x} = T \ {x}
        /\ \A y \in Shipments \ {x} : g[y] = f[y]
    OBVIOUS
  <1>3. Deliveries!InForce = SumOver(f, S) /\ Deliveries!InForce' = SumOver(g, T)
    BY DeliveriesSum DEF Deliveries!InForce, Deliveries!Quantity
  <1>4. (IF x \in S THEN f[x] ELSE 0) = CountsInForce(ships[x])
        /\ (IF x \in T THEN g[x] ELSE 0) = CountsInForce(ships'[x])
    BY DEF CountsInForce
  <1> HIDE DEF S, T, f, g
  <1>5. QED
    BY <1>1, <1>2, <1>3, <1>4, OneShipment

\* What each action does to its one shipment; p is what the request held.
Writes(r, p) ==
  /\ p \in pending[r] /\ pending'[r] = {}
  /\ \A t \in Shipments \ {p.id} : ships'[t] = ships[t]

LEMMA WrittenShipment ==
    ASSUME DeliveryIInv, DeliveryIInv', NEW r \in Requests,
           Deliveries!Pick(r) \/ Deliveries!Pack(r) \/ Deliveries!Dispatch(r) \/
             Deliveries!ConfirmDelivery(r) \/ Deliveries!Cancel(r)
           \/ Deliveries!Edit(r) \/ Deliveries!Delete(r) \/ Deliveries!WriteLine(r)
    PROVE  \E p \in pending[r] :
             LET row == ships[p.id]
                 new == ships'[p.id]
             IN
             /\ Writes(r, p) /\ ordered' = ordered
             /\ \/ /\ p.op \in {"pick", "pack", "dispatch", "cancel"} /\
                        shipped' = shipped
                   /\ row.status = p.status /\ new.qty = row.qty
                   /\ row.status \in {"planned", "picked", "packed", "in_transit"}
                   /\ new.status \in {"picked", "packed", "in_transit", "cancelled"}
                \/ /\ p.op = "deliver" /\ shipped' = shipped + row.leaves
                   /\ row.status = "in_transit" /\ new.status = "delivered"
                   /\ new.qty = row.qty /\ new.leaves = row.leaves
                \/ /\ p.op = "edit" /\ shipped' = shipped
                   /\ new.status = p.status /\ new.qty = row.qty
                   /\ p.status \in {"planned", "picked"}
                \/ p.op = "delete" /\ shipped' = shipped /\ new.status = "none" /\
                     new.qty = 0
                \/ /\ p.op \in {"add_line", "edit_line", "delete_line"} /\
                        shipped' = shipped
                   /\ new.status = row.status /\ new.qty = p.qty
  <1>1. ships \in [Shipments -> Deliveries!Ship] /\
          ships' \in [Shipments -> Deliveries!Ship]
    BY DEF DeliveryIInv, DeliveryTyped
  <1>2. ASSUME NEW p \in pending[r], Deliveries!Landed(r), NEW new,
               ships' = [ships EXCEPT ![p.id] = new]
        PROVE  Writes(r, p) /\ ships'[p.id] = new
    BY <1>1, <1>2, PendingFacts DEF Deliveries!Landed, Writes
  <1>3. ASSUME NEW op \in {"pick", "pack", "dispatch", "cancel"},
               NEW to \in {"picked", "packed", "in_transit", "cancelled"},
                 Deliveries!Moves(r, op, to)
        PROVE  \E p \in pending[r] :
                 /\ Writes(r, p) /\ p.op = op /\ UNCHANGED <<ordered, shipped>>
                 /\ ships[p.id].status = p.status /\ ships'[p.id].qty = ships[p.id].qty
                 /\ p.status \in {"planned", "picked", "packed", "in_transit"}
                 /\ ships'[p.id].status = to
    <2>1. PICK p \in pending[r] :
            /\ p.op = op /\ ships[p.id].status = p.status
            /\ ships' = [ships EXCEPT ![p.id] = [ships[p.id] EXCEPT !.status = to]]
            /\ Deliveries!Landed(r) /\ UNCHANGED <<ordered, shipped>>
      BY <1>3 DEF Deliveries!Moves, Deliveries!orderLine
    <2>2. p.id \in Shipments /\ p.status \in From(op)
      BY <2>1, PendingFacts DEF Tested
    <2>3. Writes(r, p) /\ ships'[p.id] = [ships[p.id] EXCEPT !.status = to]
      BY <1>2, <2>1
    <2>4. ships'[p.id].qty = ships[p.id].qty /\ ships'[p.id].status = to
      BY <1>1, <2>2, <2>3 DEF Deliveries!Ship
    <2>5. p.status \in {"planned", "picked", "packed", "in_transit"}
      BY <2>2 DEF From
    <2>6. QED
      BY <2>1, <2>3, <2>4, <2>5
  <1>4. CASE Deliveries!Pick(r) \/ Deliveries!Pack(r) \/ Deliveries!Dispatch(r) \/
             Deliveries!Cancel(r)
    <2>1. PICK op \in {"pick", "pack", "dispatch", "cancel"},
               to \in {"picked", "packed", "in_transit", "cancelled"} :
                 Deliveries!Moves(r, op, to)
      BY <1>4 DEF Deliveries!Pick, Deliveries!Pack, Deliveries!Dispatch, Deliveries!Cancel
    <2>2. QED
      BY <1>3, <2>1
  <1>5. CASE Deliveries!ConfirmDelivery(r)
    <2>1. PICK p \in pending[r] :
            /\ p.op = "deliver" /\ ships[p.id].status = p.status
            /\ ships' = [ships EXCEPT ![p.id] =
                 [ships[p.id] EXCEPT !.status = "delivered"]]
            /\ Deliveries!Landed(r) /\ shipped' = shipped + ships[p.id].leaves
            /\ ordered' = ordered
      BY <1>5 DEF Deliveries!ConfirmDelivery
    <2>2. p.id \in Shipments /\ p.status = "in_transit"
      BY <2>1, PendingFacts DEF Tested, From
    <2>3. Writes(r, p) /\ ships'[p.id] = [ships[p.id] EXCEPT !.status = "delivered"]
      BY <1>2, <2>1
    <2>4. ships'[p.id].qty = ships[p.id].qty /\ ships'[p.id].status = "delivered"
          /\ ships'[p.id].leaves = ships[p.id].leaves
      BY <1>1, <2>2, <2>3 DEF Deliveries!Ship
    <2>5. QED
      BY <2>1, <2>2, <2>3, <2>4
  <1>6. CASE Deliveries!Edit(r)
    <2>1. PICK p \in pending[r] :
            /\ p.op = "edit"
            /\ \E new \in Deliveries!AfterSave([ships[p.id] EXCEPT !.status = p.status]) :
                 ships' = [ships EXCEPT ![p.id] = new]
            /\ Deliveries!Landed(r) /\ UNCHANGED <<ordered, shipped>>
      BY <1>6 DEF Deliveries!Edit, Deliveries!orderLine
    <2>2. PICK new \in Deliveries!AfterSave([ships[p.id] EXCEPT !.status = p.status]) :
            ships' = [ships EXCEPT ![p.id] = new]
      BY <2>1
    <2>3. p.id \in Shipments /\ p.status \in {"planned", "picked"} /\
            p.status \in Deliveries!Statuses
      BY <2>1, PendingFacts DEF Tested, From
    <2>4. Writes(r, p) /\ ships'[p.id] = new
      BY <1>2, <2>1, <2>2
    <2>5. ships'[p.id].qty = ships[p.id].qty /\ ships'[p.id].status = p.status
      BY <1>1, <2>3, <2>4, AfterSaveShip
    <2>6. QED
      BY <2>1, <2>3, <2>4, <2>5
  <1>7. CASE Deliveries!Delete(r)
    <2>1. PICK p \in pending[r] :
            /\ p.op = "delete" /\ ships' = [ships EXCEPT ![p.id] = Deliveries!NoRow]
            /\ Deliveries!Landed(r) /\ UNCHANGED <<ordered, shipped>>
      BY <1>7 DEF Deliveries!Delete, Deliveries!orderLine
    <2>2. Writes(r, p) /\ ships'[p.id] = Deliveries!NoRow
      BY <1>2, <2>1
    <2>3. QED
      BY <2>1, <2>2 DEF Deliveries!NoRow
  <1>8. CASE Deliveries!WriteLine(r)
    <2>1. PICK p \in pending[r] :
            /\ p.op \in {"add_line", "edit_line", "delete_line"}
            /\ ships' = [ships EXCEPT ![p.id] =
                 [ships[p.id] EXCEPT !.qty = p.qty, !.leaves = p.leaves,
                    !.moved = IF p.op = "edit_line" THEN ships[p.id].moved ELSE "unseen"]]
            /\ Deliveries!Landed(r) /\ UNCHANGED <<ordered, shipped>>
      BY <1>8 DEF Deliveries!WriteLine, Deliveries!orderLine
    <2>2. p \in DeliveryHeld /\ ships[p.id] \in Deliveries!Ship
      BY <1>1, PendingFacts
    <2>3. Writes(r, p)
          /\ ships'[p.id] =
               [ships[p.id] EXCEPT !.qty = p.qty, !.leaves = p.leaves,
                  !.moved = IF p.op = "edit_line" THEN ships[p.id].moved ELSE "unseen"]
      BY <1>2, <2>1
    <2>4. ships'[p.id].qty = p.qty /\ ships'[p.id].status = ships[p.id].status
      BY <2>2, <2>3 DEF Deliveries!Ship
    <2>5. QED
      BY <2>1, <2>3, <2>4
  <1>9. QED
    BY <1>4, <1>5, <1>6, <1>7, <1>8

LEMMA CreatedShipment ==
    ASSUME Deliveries!ShippingAssumption, DeliveryIInv, NEW s \in Shipments,
           Deliveries!Create(s)
    PROVE  /\ ships[s].status = "none" /\ ships'[s].status = "planned" /\
              ships'[s].qty = 0
           /\ \A t \in Shipments \ {s} : ships'[t] = ships[t]
           /\ UNCHANGED <<ordered, shipped>>
  <1>1. /\ ships[s].status = "none" /\ UNCHANGED <<ordered, shipped>>
        /\ ships' = [ships EXCEPT ![s] = [Deliveries!NoRow EXCEPT !.status = "planned"]]
    BY DEF Deliveries!Create, Deliveries!orderLine
  <1>2. QED
    BY <1>1 DEF Deliveries!NoRow, DeliveryIInv, DeliveryTyped

\* The sums are numbers and stay the same as long as the shipments do.
LEMMA UnchangedSums ==
    ASSUME Deliveries!ShippingAssumption, DeliveryTyped, UNCHANGED ships
    PROVE  /\ Deliveries!Delivered \in Int /\ Deliveries!InForce \in Int
           /\ Deliveries!Delivered' = Deliveries!Delivered
           /\ Deliveries!InForce' = Deliveries!InForce
  <1> DEFINE S == {t \in Shipments : ships[t].status = "delivered"}
             T == {t \in Shipments : ships[t].status # "cancelled"}
  <1>1. IsFiniteSet(S) /\ IsFiniteSet(T) /\ S \in SUBSET Shipments
        /\ T \in SUBSET Shipments
    BY FS_Subset, DeliveriesFinite
  <1>2. IntOn(Deliveries!Leaving, S)
    BY DEF IntOn, Deliveries!Leaving, DeliveryTyped, Deliveries!Ship
  <1>3. Deliveries!Delivered = SumOver(Deliveries!Leaving, S)
        /\ Deliveries!InForce = SumOver(Deliveries!Quantity, T)
    BY DeliveriesSum DEF Deliveries!Delivered, Deliveries!InForce
  <1> HIDE DEF S, T
  <1>4. Deliveries!Delivered \in Int
    BY <1>1, <1>2, <1>3, SumType
  <1>5. SumOver(Deliveries!Quantity, T) \in Nat
    BY <1>1, QuantitySums
  <1>6. Deliveries!Delivered' = Deliveries!Delivered /\
        Deliveries!InForce' = Deliveries!InForce
    BY DEF Deliveries!Delivered, Deliveries!InForce, Deliveries!Quantity, Deliveries!Leaving
  <1>7. QED
    BY <1>3, <1>4, <1>5, <1>6

LEMMA StepDelivered ==
    ASSUME Deliveries!ShippingAssumption, DeliveryIInv, DeliveryIInv', Deliveries!Next,
           shipped' - shipped # Deliveries!Delivered' - Deliveries!Delivered
    PROVE  \/ \E p \in Deliveries!Held :
                /\ Deliveries!Writing(p)
                /\ p.op \in {"edit", "delete", "add_line", "edit_line", "delete_line"}
                /\ ships[p.id].status = "delivered"
           \/ \E f \in Deliveries!HeldForms : Deliveries!Saving(f) /\ f.shipped # shipped
  <1>1. /\ DeliveryTyped /\ DeliveryTyped' /\ shipped \in Int /\ shipped' \in Int
        /\ ships \in [Shipments -> Deliveries!Ship]
    BY DEF DeliveryIInv, DeliveryTyped
  <1>2. ASSUME NEW s \in Shipments, Deliveries!Create(s) PROVE FALSE
    <2>1. /\ Deliveries!Delivered \in Int /\ Deliveries!Delivered' \in Int
          /\ Deliveries!Delivered' - Deliveries!Delivered
               = CountsDelivered(ships'[s]) - CountsDelivered(ships[s])
      BY <1>1, <1>2, CreatedShipment, OneDelivered
    <2>2. QED
      BY <1>1, <1>2, <2>1, CreatedShipment DEF CountsDelivered
  <1>3. ASSUME UNCHANGED <<ships, shipped>> PROVE FALSE
    BY <1>1, <1>3, UnchangedSums
  <1>4. ASSUME NEW r \in Requests, Deliveries!SaveForm(r)
        PROVE  \E f \in forms[r] : forms'[r] = {} /\ f.shipped # shipped
    <2>1. PICK f \in forms[r] :
            shipped' = f.shipped /\ forms' = [forms EXCEPT ![r] = {}] /\ ships' = ships
      BY <1>4 DEF Deliveries!SaveForm
    <2>2. forms'[r] = {}
      BY <1>1, <2>1 DEF DeliveryTyped
    <2>3. f.shipped # shipped
      BY <1>1, <1>3, <2>1
    <2>4. QED
      BY <2>2, <2>3
  <1>5. ASSUME NEW r \in Requests,
               Deliveries!Pick(r) \/ Deliveries!Pack(r) \/ Deliveries!Dispatch(r) \/
                 Deliveries!ConfirmDelivery(r) \/ Deliveries!Cancel(r)
               \/ Deliveries!Edit(r) \/ Deliveries!Delete(r) \/ Deliveries!WriteLine(r)
        PROVE  \E p \in pending[r] :
                 /\ pending'[r] = {}
                 /\ p.op \in {"edit", "delete", "add_line", "edit_line", "delete_line"}
                 /\ ships[p.id].status = "delivered"
    <2> DEFINE row(p) == ships[p.id]
               new(p) == ships'[p.id]
    <2>1. PICK p \in pending[r] :
             /\ Writes(r, p)
             /\ \/ /\ p.op \in {"pick", "pack", "dispatch", "cancel"}
                   /\ shipped' = shipped
                   /\ row(p).status \in {"planned", "picked", "packed", "in_transit"}
                   /\ new(p).status \in {"picked", "packed", "in_transit", "cancelled"}
                \/ /\ p.op = "deliver" /\ shipped' = shipped + row(p).leaves
                   /\ row(p).status = "in_transit" /\ new(p).status = "delivered"
                   /\ new(p).leaves = row(p).leaves
                \/ /\ p.op = "edit" /\ shipped' = shipped
                   /\ new(p).status \in {"planned", "picked"}
                \/ p.op = "delete" /\ shipped' = shipped /\ new(p).status = "none"
                \/ /\ p.op \in {"add_line", "edit_line", "delete_line"}
                   /\ shipped' = shipped /\ new(p).status = row(p).status
      BY <1>5, WrittenShipment
    <2>2. p.id \in Shipments /\ \A y \in Shipments \ {p.id} : ships'[y] = ships[y]
      BY <2>1, PendingFacts DEF Writes
    <2>3. row(p).leaves \in Int
      BY <1>1, <2>2 DEF Deliveries!Ship
    <2>4. /\ Deliveries!Delivered \in Int /\ Deliveries!Delivered' \in Int
          /\ Deliveries!Delivered' - Deliveries!Delivered
               = CountsDelivered(new(p)) - CountsDelivered(row(p))
      BY <1>1, <2>2, OneDelivered
    <2> HIDE DEF row, new
    <2>5. row(p).status = "delivered"
          /\ p.op \in {"edit", "delete", "add_line", "edit_line", "delete_line"}
      BY <1>1, <2>1, <2>3, <2>4 DEF CountsDelivered
    <2>6. QED
      BY <2>1, <2>5 DEF Writes, row
  <1>6. ASSUME NEW r \in Requests,
               Deliveries!Load(r) \/ Deliveries!LoadForm(r) \/ Deliveries!GiveUp(r)
        PROVE  FALSE
    BY <1>3, <1>6
       DEF Deliveries!Load, Deliveries!LoadForm, Deliveries!GiveUp, Deliveries!orderLine
  <1>7. QED
    BY <1>2, <1>4, <1>5, <1>6
       DEF Deliveries!Next, Deliveries!Held, Deliveries!Writing, Deliveries!HeldForms,
         Deliveries!Saving

\* What is in force is what one shipment counts for and what the others commit.
LEMMA InForceSplit ==
    ASSUME Deliveries!ShippingAssumption, DeliveryTyped, NEW x \in Shipments
    PROVE  /\ Deliveries!InForce = CountsInForce(ships[x]) + Deliveries!Committed(x)
           /\ Deliveries!Committed(x) \in Nat
  <1> DEFINE S == {t \in Shipments : ships[t].status # "cancelled"}
  <1>1. /\ S \in SUBSET Shipments /\ S \ {x} \in SUBSET Shipments
        /\ S \ {x} = {t \in Shipments \ {x} : ships[t].status # "cancelled"}
    OBVIOUS
  <1>2. Deliveries!InForce = SumOver(Deliveries!Quantity, S) /\
          Deliveries!Committed(x) = SumOver(Deliveries!Quantity, S \ {x})
    BY <1>1, DeliveriesSum DEF Deliveries!InForce, Deliveries!Committed
  <1>3. IsFiniteSet(S) /\ IntOn(Deliveries!Quantity, S) /\
          SumOver(Deliveries!Quantity, S \ {x}) \in Nat
    BY <1>1, QuantitySums
  <1>4. x \in S =>
          SumOver(Deliveries!Quantity, S) =
            Deliveries!Quantity[x] + SumOver(Deliveries!Quantity, S \ {x})
    BY <1>3, SumRemove
  <1>5. x \notin S => S \ {x} = S
    OBVIOUS
  <1>6. (x \in S <=> ships[x].status # "cancelled") /\
          Deliveries!Quantity[x] = ships[x].qty
    BY DEF Deliveries!Quantity
  <1> HIDE DEF S
  <1>7. QED
    BY <1>2, <1>3, <1>4, <1>5, <1>6 DEF CountsInForce

LEMMA StepInForce ==
    ASSUME Deliveries!ShippingAssumption, DeliveryIInv, DeliveryIInv', Deliveries!Next,
           Deliveries!InForce <= ordered, Deliveries!InForce' > ordered'
    PROVE  \/ \E p \in Deliveries!Held : Deliveries!Writing(p) /\ ~p.fresh /\
                p.op \in {"edit", "add_line", "edit_line"}
           \/ \E f \in Deliveries!HeldForms : Deliveries!Saving(f) /\ f.ordered < ordered
  <1>1. /\ DeliveryTyped /\ DeliveryTyped' /\ ordered \in Int /\ ordered' \in Int
        /\ ships \in [Shipments -> Deliveries!Ship]
    BY DeliveriesFinite DEF DeliveryIInv, DeliveryTyped
  <1>2. ASSUME NEW s \in Shipments, Deliveries!Create(s) PROVE FALSE
    <2>1. ships[s].qty \in Nat
      BY <1>1, DeliveriesFinite DEF Deliveries!Ship
    <2>2. /\ Deliveries!InForce \in Int /\ Deliveries!InForce' \in Int
          /\ Deliveries!InForce' - Deliveries!InForce
               = CountsInForce(ships'[s]) - CountsInForce(ships[s])
      BY <1>1, <1>2, CreatedShipment, OneInForce
    <2>3. QED
      BY <1>1, <1>2, <2>1, <2>2, CreatedShipment DEF CountsInForce
  <1>3. ASSUME UNCHANGED <<ships, ordered>> PROVE FALSE
    BY <1>1, <1>3, UnchangedSums
  <1>4. ASSUME NEW r \in Requests, Deliveries!SaveForm(r)
        PROVE  \E f \in forms[r] : forms'[r] = {} /\ f.ordered < ordered
    <2>1. PICK f \in forms[r] :
            ordered' = f.ordered /\ forms' = [forms EXCEPT ![r] = {}] /\ ships' = ships
      BY <1>4 DEF Deliveries!SaveForm
    <2>2. forms'[r] = {}
      BY <1>1, <2>1 DEF DeliveryTyped
    <2>3. Deliveries!InForce \in Int /\ Deliveries!InForce' = Deliveries!InForce
      BY <1>1, <2>1, UnchangedSums
    <2>4. f.ordered < ordered
      BY <1>1, <2>1, <2>3
    <2>5. QED
      BY <2>2, <2>4
  <1>5. ASSUME NEW r \in Requests,
               Deliveries!Pick(r) \/ Deliveries!Pack(r) \/ Deliveries!Dispatch(r) \/
                 Deliveries!ConfirmDelivery(r) \/ Deliveries!Cancel(r)
               \/ Deliveries!Edit(r) \/ Deliveries!Delete(r) \/ Deliveries!WriteLine(r)
        PROVE  \E p \in pending[r] :
                 pending'[r] = {} /\ ~p.fresh /\
                   p.op \in {"edit", "add_line", "edit_line"}
    <2> DEFINE row(p) == ships[p.id]
               new(p) == ships'[p.id]
    <2>1. PICK p \in pending[r] :
             /\ Writes(r, p) /\ ordered' = ordered
             /\ \/ /\ p.op \in {"pick", "pack", "dispatch", "cancel"}
                   /\ new(p).qty = row(p).qty
                   /\ row(p).status \in {"planned", "picked", "packed", "in_transit"}
                   /\ new(p).status \in {"picked", "packed", "in_transit", "cancelled"}
                \/ /\ p.op = "deliver" /\ row(p).status = "in_transit"
                   /\ new(p).status = "delivered" /\ new(p).qty = row(p).qty
                \/ /\ p.op = "edit" /\ new(p).status = p.status
                   /\ new(p).qty = row(p).qty /\ p.status \in {"planned", "picked"}
                \/ p.op = "delete" /\ new(p).status = "none" /\ new(p).qty = 0
                \/ /\ p.op \in {"add_line", "edit_line", "delete_line"}
                   /\ new(p).status = row(p).status /\ new(p).qty = p.qty
      BY <1>5, WrittenShipment
    <2>2. p.id \in Shipments /\ \A y \in Shipments \ {p.id} : ships'[y] = ships[y]
      BY <2>1, PendingFacts DEF Writes
    <2>3. row(p).qty \in Nat /\ p.qty \in Nat /\ p.fresh \in BOOLEAN /\ StillPasses(p) /\
            Tested(p)
      BY <1>1, <2>2, PendingFacts, DeliveriesFinite DEF Deliveries!Ship
    <2>4. /\ Deliveries!InForce \in Int /\ Deliveries!InForce' \in Int
          /\ Deliveries!InForce' - Deliveries!InForce
               = CountsInForce(new(p)) - CountsInForce(row(p))
      BY <1>1, <2>2, OneInForce
    <2>5. Deliveries!InForce = CountsInForce(row(p)) + Deliveries!Committed(p.id) /\
            Deliveries!Committed(p.id) \in Nat
      BY <1>1, <2>2, InForceSplit
    <2>6. p.fresh => /\ p.op = "edit" => row(p).status = p.status
                     /\ p.op \in {"add_line", "edit_line"} =>
                          p.qty + Deliveries!Committed(p.id) <= ordered
      BY <2>3 DEF StillPasses
    <2>7. p.op = "delete_line" => p.qty = 0
      BY <2>3 DEF Tested
    <2> HIDE DEF row, new
    <2>8. ~p.fresh /\ p.op \in {"edit", "add_line", "edit_line"}
      <3> SUFFICES ASSUME p.op \in {"edit", "add_line", "edit_line"} =>
                          p.fresh PROVE FALSE
        BY <2>3
      <3>1. Deliveries!InForce' = CountsInForce(new(p)) + Deliveries!Committed(p.id)
        <4>1. CountsInForce(new(p)) \in Int /\ CountsInForce(row(p)) \in Int
          BY <2>1, <2>3 DEF CountsInForce
        <4>2. QED
          BY <2>4, <2>5, <4>1
      <3>2. CASE p.op \in {"pick", "pack", "dispatch", "cancel", "deliver"}
        BY <1>1, <2>1, <2>3, <2>5, <3>1, <3>2 DEF CountsInForce
      <3>3. CASE p.op \in {"edit", "delete"}
        BY <1>1, <2>1, <2>3, <2>5, <2>6, <3>1, <3>3 DEF CountsInForce
      <3>4. CASE p.op \in {"add_line", "edit_line", "delete_line"}
        BY <1>1, <2>1, <2>3, <2>5, <2>6, <2>7, <3>1, <3>4 DEF CountsInForce
      <3>5. QED
        BY <2>1, <3>2, <3>3, <3>4
    <2>9. QED
      BY <2>1, <2>8 DEF Writes
  <1>6. ASSUME NEW r \in Requests,
               Deliveries!Load(r) \/ Deliveries!LoadForm(r) \/ Deliveries!GiveUp(r)
        PROVE  FALSE
    BY <1>3, <1>6
       DEF Deliveries!Load, Deliveries!LoadForm, Deliveries!GiveUp, Deliveries!orderLine
  <1>7. QED
    BY <1>2, <1>4, <1>5, <1>6
       DEF Deliveries!Next, Deliveries!Held, Deliveries!Writing, Deliveries!HeldForms,
         Deliveries!Saving

\* qty_shipped grows by each delivery, once; it and the delivered shipments part company
\* only when a form, a line or a deletion lands on a shipment that is delivered, or a
\* form of the order line writes an older qty_shipped back.
LEMMA DeliveryCounted ==
    ASSUME Deliveries!ShippingAssumption
    PROVE  Deliveries!Spec => Deliveries!DeliveriesCountedOnce
  <1>1. DeliveryIInv /\ DeliveryIInv' /\ [Deliveries!Next]_(Deliveries!vars) =>
          [shipped' - shipped # Deliveries!Delivered' - Deliveries!Delivered =>
             \/ \E p \in Deliveries!Held :
                  /\ Deliveries!Writing(p)
                  /\ p.op \in {"edit", "delete", "add_line", "edit_line", "delete_line"}
                  /\ ships[p.id].status = "delivered"
             \/ \E f \in Deliveries!HeldForms :
                  Deliveries!Saving(f) /\ f.shipped # shipped]_(Deliveries!vars)
    BY StepDelivered
  <1>2. QED
    BY <1>1, DeliverySpecIInv, PTL DEF Deliveries!Spec, Deliveries!DeliveriesCountedOnce

\* The shipments in force come to exceed the order only by the write of a request whose
\* test another write has made stale, or by a form that lowers qty_ordered.
LEMMA DeliveryKept ==
    ASSUME Deliveries!ShippingAssumption
    PROVE  Deliveries!Spec => Deliveries!OrderNotExceeded
  <1>1. DeliveryIInv /\ DeliveryIInv' /\ [Deliveries!Next]_(Deliveries!vars) =>
          [Deliveries!InForce <= ordered /\ Deliveries!InForce' > ordered' =>
             \/ \E p \in Deliveries!Held : Deliveries!Writing(p) /\ ~p.fresh /\
                  p.op \in {"edit", "add_line", "edit_line"}
             \/ \E f \in Deliveries!HeldForms :
                  Deliveries!Saving(f) /\ f.ordered < ordered]_(Deliveries!vars)
    BY StepInForce
  <1>2. QED
    BY <1>1, DeliverySpecIInv, PTL DEF Deliveries!Spec, Deliveries!OrderNotExceeded

----------------------------------------------------------------------------
\* A behaviour of the three together is, of each of them, a behaviour.
LEMMA ScenesOrders == ScenesSpec => Spec
  <1>1. ScenesInit => Init
    BY DEF ScenesInit
  <1>2. [ScenesNext]_sceneVars => [Next]_vars
    BY DEF ScenesNext, sceneVars
  <1>3. QED
    BY <1>1, <1>2, PTL DEF ScenesSpec, Spec

LEMMA ScenesBilling == ScenesSpec => Billing!Spec
  <1>1. ScenesInit => Billing!Init
    BY DEF ScenesInit
  <1>2. [ScenesNext]_sceneVars => [Billing!Next]_(Billing!vars)
    BY DEF ScenesNext, sceneVars, invoiceVars, Billing!vars
  <1>3. QED
    BY <1>1, <1>2, PTL DEF ScenesSpec, Billing!Spec

LEMMA ScenesDeliveries == ScenesSpec => Deliveries!Spec
  <1>1. ScenesInit => Deliveries!Init
    BY DEF ScenesInit
  <1>2. [ScenesNext]_sceneVars => [Deliveries!Next]_(Deliveries!vars)
    BY DEF ScenesNext, sceneVars, shipVars, Deliveries!vars
  <1>3. QED
    BY <1>1, <1>2, PTL DEF ScenesSpec, Deliveries!Spec

\* An order past draft was tested for credit at the total it now has, whatever
\* the views, the line forms and release_credit_hold do in between.
THEOREM CreditTestIsCurrent == ScenesSpec => []PastDraftWasTested
  BY ScenesOrders, OrdersTested, PTL

\* An order with a credit hold is confirmed only by a request that had loaded
\* it before the hold was set.
THEOREM ConfirmationSawNoHold == ScenesSpec => HeldOrderNotConfirmed
  BY ScenesOrders, OrdersConfirmed, PTL

\* generate_invoice_from_shipment, which looks for an invoice first, makes a
\* second one only if another request has written an invoice since the look.
THEOREM SecondInvoiceNeedsRace == ScenesSpec => BilledOnce
  BY ScenesBilling, BillingOnce, OrderToCashAssumption, PTL DEF BilledOnce

\* credit_used parts from the issued invoices only by the edits, deletions and
\* stale totals LosesTrack names: every other step moves both alike.
THEOREM CreditMovesWithInvoices == ScenesSpec => CreditFollowsInvoices
  BY ScenesBilling, BillingFollows, OrderToCashAssumption, PTL DEF CreditFollowsInvoices

\* confirm_delivery moves qty_shipped by what it delivers; only the forms and deletions
\* of a delivered shipment and a form of the order line that was loaded before another
\* change of qty_shipped move one without the other.
THEOREM DeliveriesCounted == ScenesSpec => DeliveriesCountedOnce
  BY ScenesDeliveries, DeliveryCounted, OrderToCashAssumption, PTL
     DEF DeliveriesCountedOnce

\* The qty_to_ship of the shipments in force comes to exceed qty_ordered only by a form
\* that was validated before another request wrote, or by a form that lowers it.
THEOREM OrderKept == ScenesSpec => OrderNotExceeded
  BY ScenesDeliveries, DeliveryKept, OrderToCashAssumption, PTL DEF OrderNotExceeded

=============================================================================
