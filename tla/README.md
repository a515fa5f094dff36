# A TLA+ model of NavMSM

NavMSM (`src/`) is a multi-tenant manufacturing management system: a Django project with about
twenty applications over one MySQL database.  This directory holds a formal model of it: TLA+
modules, TLC configurations that check them on small instances, and proofs that TLAPS checks
for every value of the constants.

The program has no threads, queues or messages of its own.  Its concurrency is that of a web
application: several workers serve requests at the same time, every request reads rows, checks
them in Python and writes them back, and the database is the only thing they share.  There is
one `select_for_update` in the whole program (`cost/services/wip.py:49`).  Whatever else protects
two requests from each other is a conditional `UPDATE`, a unique index, a foreign key, or
nothing.  That is what the model is about.

- [1. Parts of the system](#1-parts-of-the-system)
- [2. Modules](#2-modules)
- [3. What is assumed of Django and the database](#3-what-is-assumed-of-django-and-the-database)
- [4. What the runs check](#4-what-the-runs-check)
- [5. What is proved](#5-what-is-proved)
- [6. Where the code and its documentation disagree](#6-where-the-code-and-its-documentation-disagree)
- [7. What is not modelled](#7-what-is-not-modelled)
- [8. Plan](#8-plan)

## 1. Parts of the system

The same parts are listed in `PROJECT.json` under `components`, and the lines at which they are
hard to test under `hazards`.

### The inventory core and the shop floor (modelled)

| Part | State | Operations | Hard behaviour | Correct when |
|---|---|---|---|---|
| Stock posting (`inventory/services/movements.py`) | `StockItem.qty_on_hand` per bin, product, lot and serial; the append-only `StockMovement` ledger | `post_movement`, `reverse_movement` | read, compute, write without a lock; two rows per transfer; `get_or_create` races; lock order; flooring at zero | balances are never negative and follow the ledger; a movement is applied whole or not at all; every request is answered |
| Transfers (`inventory/views.py:717-897`) | `StockTransfer.status`, its lines | create, add and remove a line, ship, receive, cancel, delete | status checked before the write, by another statement; several lines in one transaction | the goods of a line leave once and arrive once, and only for transfers that were shipped and received |
| Receiving (`inventory/views.py:415-625`, `services/grn.py`) | `GoodsReceiptNote.status`, its lines, `PutawayTask` rows | create, edit, add and remove a line, receive, put away, cancel, delete | status committed before the tasks exist; tasks saved from a stale object; the last-task check runs outside the transaction | one task per line, a completed task has its receipt, a completed GRN is put away |
| Shop floor (`mes/`) | `MESWorkOrder`, `MESWorkOrderOperation`, `OperatorTimeLog`, `ProductionReport` | start, pause, resume, stop an operation; report; delete a report; edit, delete, start, hold, complete, cancel a work order | every `save()` writes all columns back; a deletion is three transactions; signals post and reverse stock | totals are the sum of the reports, status follows the time logs, deleted reports give their stock back, ended orders stay ended |

How they interact.  Transfers and Receiving call `post_movement` inside their own transactions.
A `ProductionReport` does so through a `post_save` signal (`inventory/signals.py:191-251`), and
its deletion calls `reverse_movement` through `pre_delete`.  Sales shipments and RMA dispositions
post movements through signals of the same form.  Posting a movement runs further hooks (audit
rows, the recall leak sweep in `compliance`), which write rows of their own only.

### Order to cash, services and signals (modelled)

| Part | State | Operations | Hard behaviour | Correct when |
|---|---|---|---|---|
| Sales orders and credit (`sales/services/workflow.py`, `credit.py`) | order status, credit hold, total; `Customer.credit_used` | submit, confirm, cancel, hold, resume, release of the hold, edit, lines | credit is tested once; the hold is tested on the loaded order | an order past draft was tested with the total it has; a held order is not confirmed |
| Invoices (`sales/services/invoicing.py`) | invoices, `credit_used` | create, generate, issue, pay, edit, lines, delete; the customer form | check-then-create; counters moved by loaded totals | `credit_used` is the sum of the open invoices; one invoice per shipment |
| Shipments (`sales/services/shipping.py`, `signals.py`) | shipments with their lines, `qty_ordered` and `qty_shipped` of the order line, stock movements | create, pick, pack, dispatch, deliver, cancel, edit, lines, delete; the form of the order line | a signal that only a `save()` reaches; an order line saved whole | each delivery counts once and leaves stock; what is to be shipped stays within the order |
| Approvals (`wfa/services/approval.py`) | request, its level, the log | approve, reject, delegate, escalate, recall, edit of the policy; the signal of a document request | decisions without a condition | no level is skipped |
| Blanket releases (`procurement/services/blanket.py`) | releases, consumption of the line | line, release, receive, cancel | a cancellation decides by a loaded status | consumption is what the releases in force have taken |
| Legal holds (`dms/services/legal_hold.py`) | holds, `is_locked` of documents | create, edit, release, delete a hold; the document form | look and unlock in two statements | documents of an active hold are locked |
| WIP of a job (`cost/services/wip.py`) | entries, total of the job | post, reverse, delete, close | a row lock for posting, a stale total for deleting | the total is the sum of the entries |
| Adjustments, cycle counts (`inventory/views.py`) | documents with a variance, a balance | line, post, reconcile, cancel, delete | stale posting, a balance read before it is written, flooring at zero | the variance reaches the bin once |
| Dispatch (`mes/services/dispatcher.py`) | production order, work orders | dispatch; the views that move, edit and delete either | the look for an existing one is outside the transaction | one live work order per production order |
| Audit trails (`*/signals.py`) | a row's status, the latest entry about it | `save()`, `update()`, `delete()` | a dictionary shared by the requests of a process; `update()` sends no signal | the latest entry tells the status |
| Derived rows (`*/signals.py`) | a source row, the rows derived from it | save and delete of the source | look, then insert; undo on deletion | one derived row per source, none without it |
| Hash chain (`core/services/audit_chain.py`) | rows with `prev_hash`, `this_hash` | append, verify, deletion of a user | concurrent appends, equal timestamps | an honest log verifies |
| Archives (`compliance/services/audit.py`) | digests of periods | archive, verify | days that are not over, order of filing | honest archives verify |

### The documents of every application (modelled as documents)

Some two hundred kinds of row, from purchase orders to tool drawings, are worked on in the same
way: a view loads the row, tests its status, and writes in one of five ways.  What differs from
kind to kind is data: the statuses, which view tests what, and how it writes.  `Documents` is the
behaviour, four modules of tables are the data, and an application whose documents are there is
listed as partly modelled: what its services compute (schedules, requirements, costs, rates,
forecasts, chart limits) is not there, only when and under which test a document changes.  Hard
are stale tests, whole-row saves, computations that die, and rows deleted under a request;
correct is that a status moves along the declared moves and that a row that says it is being
computed is.

## 2. Modules

| Module | Models | Granularity of a step |
|---|---|---|
| `StockPosting` | the pure part of `post_movement` and `reverse_movement`: argument checks, stock check, balances, type map of a reversal | operators |
| `StockLedger` | the abstract specification: an append-only ledger and balances that follow it | one movement |
| `StockSessions` | concurrent requests inside `post_movement` | one SQL statement |
| `Transfers` | the transfer views; uses `StockPosting` | one check, or one transaction |
| `Receiving` | one GRN and its putaway tasks | one autocommitted statement, or one transaction |
| `ShopFloor` | one work order, its operations and reports, and the stock they post | the statements that read or write shared rows |
| `DocumentKinds` | the ways in which views write a row, as records | data |
| `QualityDocuments` (with compliance), `PlanningDocuments` (with labor), `EngineeringDocuments` (with eam, iot and utility), `CommercialDocuments` (with everything else) | one record per kind of document: its statuses and what each view tests and writes | data |
| `Documents` | one document of any kind and the requests on it | one load, or one write |
| `SalesOrders`, `SalesInvoices`, `Shipping` | order, invoices and shipments of one customer | one load, or one transaction |
| `Approvals`, `BlanketRelease`, `LegalHold`, `WipLedger`, `Counting`, `Dispatch` | one service each | one load, look or write, or one transaction |
| `SignalHandlers` | how each handler derives, and how each audited model is watched | data |
| `AuditTrail` | the trail of one row | one handler or one SQL statement |
| `DerivedRows` | a source row and what is derived from it | one look, insert, undo or save |
| `AuditChain`, `AuditArchives` | the hash-chained log and its archives | one read, or one insert |
| `OrderToCash` | `SalesOrders`, `SalesInvoices` and `Shipping` side by side (`scene` says which one a behaviour follows) | composition |
| `Services` | the six services, the trail, the derived rows, the chain and the archives side by side | composition |
| `Sums` | the sum of a column over a set of rows | operator |
| `SumLemmas` | facts about such sums | lemmas |
| `StockSessionsProofs`, `TransfersProofs`, `ReceivingProofs`, `ShopFloorProofs`, `DocumentsProofs`, `OrderToCashProofs`, `ServicesProofs` | theorems | |
| `MCStockSessions`, `MCTransfers`, `MCReceiving`, `MCShopFloor`, `MCDocuments`, `MCOrderToCash`, `MCServices` | small instances for TLC | |

`PROJECT.json` maps every definition to its lines.  A definition whose comment begins with
"Mutant of" is a plausible bug in the definition that follows it; no specification uses it, and
the check of each property replaces the original by it to see that the property can fail.

**StockSessions.** A session is one request.  `Enter` is the head of `post_movement` (lines
58-105), `Get`, `GetNone`, `GetMany` are the three answers of `get_or_create`'s SELECT, `Create`
and `CreateConflict` its INSERT, `Overdraw` the `ValueError`, `Update` the `UPDATE` of
`qty_on_hand`, `Commit` the end of `transaction.atomic`.  `item` holds the committed rows,
`own[s]` what the transaction of `s` has written so far, `seen[s]` what its last SELECT returned.
A bin stands for one `StockItem` key.  It may have more than one row: `unique_together` compares
no NULL, so it binds only keys with a lot and a serial (`UniqueBins`).  `net` is what the ledger
says, `inexact` collects the bins where a committed write lost an update or was floored; both
are history that the program does not keep.

**Transfers.** Each view is two steps: the load with its check (`LoadFor...`), which happens
outside any transaction, and the write (`AddLine`, `RemoveLine`, `Ship`, `Receive`, `Delete`).
`Ship` and `Receive` test the status again, as their conditional `UPDATE` does; the others do
not, because the code does not.  `Cancel` and `Create` are single statements.  `journal` is the
set of movements posted with the line each came from, `again` the lines for which `Post` was asked
to post one of them a second time, `late` the lines that were added or removed once their transfer
had left draft.  There are no balances in it: `post_movement` may refuse at any time, and what it
does to a balance that another transaction is writing is in StockSessions.

**Receiving.** `Receive` commits `putaway_pending`; then `ListLines`, `CheckLine` and
`InsertTask` are `generate_putaway_tasks`, statement by statement.  `Complete` is the transaction
of `PutawayCompleteView`, `Review` and `Flip` the check of the remaining tasks and the status
that follow it.  A request may stop after any of its steps (it simply does not go on), which is
what a crash leaves behind.  `excused` names the three things after which less is promised: a
stale edit form has set the status back, a line came or went late, the last task was completed
while tasks were still being generated.

**ShopFloor.** A request carries the rows it has read (`row`, `order`), because `Model.save()`
writes all of them back.  `CheckEvent`, `InsertLog`, `SaveOp`, `CommitEvent` are an operation
view with `record_event`; `InsertReport`, `SaveOp`, `CommitReport` are `ReportCreateView` with
`record_production` and the signal that posts the stock; `LoadPurge`, `SavePurgedOp`,
`FindMovement`, `DeleteReport`, `LoadOrder`, `SumOps`, `SaveOrder` are the seven steps of
`ReportDeleteView`, which has no transaction around them.  `Start`, `Hold`, `Complete`, `Cancel`
are conditional updates.  `due`, `purged`, `refused`, `begun` and `disturbed` are history.
Left out: minutes, scrap and rework totals, which are computed and saved by the same lines as the
good quantity; the hooks of labor, eam and iot, which write none of these rows; the audit rows.
`Consume` stands for every other movement that takes the product out of the default bin.

**Documents.**  An operation of a kind is a record `[check, where, to, write, then]`: the statuses
in which the test on the loaded object passes, the statuses its WHERE clause accepts, what it may
store, how it writes (`update`, `fields`, `row`, `lines`, `delete`), and how the same request goes
on when the write begins a computation.  `Load` is the view up to its test; what the request will
write waits in `held`, marked stale by every write that lands before its own.  `ConditionalUpdate`,
`FieldSave`, `RowSave`, `LinesWrite` and `RowDelete` are the five ways to write; `Miss` is a write
that finds nothing, `Drop` a request that ends without one.  A `save()` of a whole row brings a
deleted row back, `save(update_fields=...)` and `update()` do not.  Of a row there is its status
and whether it exists; its other columns and its child rows are left out, so `LinesWrite` changes
nothing here but the requests that have loaded the row.  `disturbed` is history: a stale
write without a condition has landed, or a computation has died.  Masters without a status have
the one status `filed`.

**SalesOrders, SalesInvoices, Shipping.**  The three share one customer.  A shipment
and an order meet in the order line, which Shipping has (`ordered`, `shipped`), and in the status of
the order, which it leaves out: an order on hold may be edited and confirmed again whatever its
shipments are, so the form of the line may come at any time.  And `credit_used` as the order sees
it is moved arbitrarily by `CustomerChanges`, which allows more than SalesInvoices does.  Most
actions are a conditional UPDATE by a request that holds a loaded row (`held`, `asked`, `pending`);
`Submit` is the whole transaction of `submit_sales_order` with its credit check; `ConfirmDelivery`
is `confirm_delivery` with the quantities it adds to the order lines, and posts no movement,
because it sends no signal.  `Edit` is the form that does; the signal may also skip the line
(`AfterSave`).  A shipment line has two quantities: `qty` is `qty_to_ship`, which
`ShipmentLineForm` tests against the order, and `leaves` is "qty_shipped or qty_to_ship", which
nothing tests and the delivery adds up.  `LoadForm` and `SaveForm` are `order_line_edit_view`, whose
`form.save()` writes `qty_shipped` back as it was loaded.  `tested`, `rewritten` and `fresh` are
history.

**Approvals.**  `Approve` acts at the level that was loaded and writes without a condition;
`Escalate` and `Recall` ask for the status in their UPDATE and log even if it changed nothing.
`CloseLinked` is the handler of `wfa/signals.py` that approves an open request at whatever level it
is, with nothing logged, when the document request it stands for is approved; `closed` tells that
it has.
**BlanketRelease.**  `Release` is `consume_release` in the transaction of the status move;
`Cancel` gives back by the loaded status.  **LegalHold.**  A release or an edit of a hold is a
look (`ReleaseLook`, `EditLook`) and a write.  **WipLedger.**  `Post` adds under the row lock,
`Delete` writes the total that was loaded.  **Counting.**  A post is two steps of one transaction:
`Begin` is the conditional UPDATE, which keeps the document `Locked`, and the read of the balance,
`Finish` the write of what `post_movement` made of it and the commit.
**Dispatch.**  `Look` and `Insert` are the two halves of `dispatch_production_order`;
`SaveWorkOrder` is the edit form, which stores the status it had loaded.

**AuditTrail.**  A `save()` is three steps, `Remember` (pre_save), `Store`, `Record` (post_save).
A model's record says where the status before is kept (on the instance, in a dictionary of the
process, in a cache that is never cleared, nowhere), which statuses are loud, and whether the entry
can be written at all.  **DerivedRows.**  A handler's record says how a second derivation is
prevented (a look, a mark on the source, a unique key, or nothing) and how a deletion undoes.
**AuditChain, AuditArchives.**  A hash stands for what was hashed, so that two hashes are equal
exactly when the same was hashed; the clock is a bounded counter.  Both verifications say what
the code's loop over the sorted rows says, of every row and the one before it in that order
(`Earlier`, `Before`), without the sorting.

**OrderToCash, Services.**  The parts share no state that one of them does not follow itself, so a
behaviour follows one of them and leaves the others where they begin.  The theorems about a part
are stated of `ScenesSpec`, the specification that TLC runs.

## 3. What is assumed of Django and the database

- **READ COMMITTED.**  `config/settings.py:82-94` sets no isolation level; Django then opens MySQL
  connections at READ COMMITTED.  A SELECT sees committed rows and the transaction's own writes
  and takes no lock.
- **An UPDATE locks the row** until the transaction ends; another UPDATE of that row waits.  A
  conditional `UPDATE` therefore tests and sets in one step.
- **A foreign key is checked under a shared lock.**  Inserting a time log or report locks the
  operation row it refers to, shared, until the transaction ends.  An UPDATE of that operation by
  anyone else waits (`Shared`).  Two transactions that both hold the shared lock and both want
  the exclusive one are a deadlock, and the database ends one of them (`Fail`).
- **A wait ends.**  The database picks a victim of a deadlock or the wait exceeds
  `innodb_lock_wait_timeout`; Django raises and `transaction.atomic` rolls back (`LockAbort` in
  StockSessions, `Fail` in ShopFloor).
- **A worker may die** between any two statements; its open transaction is rolled back, what it
  has committed stays (`Crash`, `Fail`).
- **Transactions as single steps.**  Transfers and Receiving post movements inside a transaction;
  there the whole transaction is one step, and they say which movements are posted and nothing of
  the balances.  A balance is read and written in steps of their own where there is one:
  statement by statement in StockSessions, in `Begin` and `Finish` in Counting.
- **No transaction around a view.**  `ATOMIC_REQUESTS` is not set, so a view that opens no
  transaction commits every statement, and anything may happen between its load and its write.
- **Django's writes.**  `QuerySet.update()` writes the rows that match and calls no handler;
  `save(update_fields=...)` raises if the row is gone; `save()` writes every column and inserts
  the row if it is gone; `pre_save`, `post_save` and `pre_delete` handlers run in the request.

Quantities are integers; the code uses decimals with fixed places and adds, subtracts and
compares only.  Tenants do not occur: every query is filtered by the tenant of the request, and
the modelled rows belong to one.

## 4. What the runs check

| Run | States | Properties |
|---|---|---|
| `stock_sessions` | 202,789 | `NonNegative`, `OneRowWhereUnique`, `BalanceFollowsLedger`, `RequestsAnswered`, `ImplementsLedger` |
| `transfers` | 104,506 | `NoLineMovesTwice`, `NothingMovedUnshipped`, `MatchedUnlessLate` |
| `receiving` | 418,965 | `CompletionIsPosted`, `OneTaskPerLine`, `CompletedIsPutAway` |
| `shop_floor` | 2,312,286 | `ReportsCounted`, `StatusFollowsLog`, `DeletionReversed`, `SerialBooks`, `EndedStaysEnded` |
| `documents` | 208,426 | `TypeOK`, `UnderwayIsHeld`, `OneComputation`, `StatusChangeJustified` |
| `order_to_cash` | 1,842,247 | `PastDraftWasTested`, `HeldOrderNotConfirmed`, `CreditFollowsInvoices`, `BilledOnce`, `DeliveriesCountedOnce`, `OrderNotExceeded` |
| `services` | 1,184,280 | `ApprovedThroughEveryLevel`, `ConsumptionFollowsReleases`, `LockedWhileHeld`, `TotalFollowsEntries`, `VariancePostedOnce`, `OneWorkOrder`, `TrailFollowsStatus`, `DerivedOnce`, `UndoneWithSource`, `ChainVerifies`, `ArchivesVerify` |
| five runs that end in a counterexample | | see [section 6](#6-where-the-code-and-its-documentation-disagree) |

**stock_sessions.**  Three requests, three bins: `b1` with a row, `b2` and `b3` without one, `b3`
with a unique key.  Three is what the interesting cases need: two writers of one row and a
reversal of the first, or a deadlock of two with a third that goes on.  The eight jobs cover a
receipt, an issue, transfers in both directions between the same bins, one of them of all there
is, a correction below zero, two ways into the unique bin, a receipt that also names a source,
and one that the argument checks refuse.  It shows that no interleaving makes a balance negative,
although the stock check runs on a value that may be stale by the time it is written; that the
unique index leaves one row per key; that every difference between a balance and the ledger comes
from a lost update, a floored correction or a duplicated row; that a step of the program is a step
of `StockLedger`; and that every request is answered.

*Refinement.*  `ImplementsLedger` maps `ledger` to the movements of the committed sessions and
`balance` to the bins that are still `Reliable`.  The abstract specification lets a movement lose
a bin it touches, for good, and in all other bins it is exact.  Reliability is therefore part of
the promise, and it can only be lost at a bin of the movement that is being committed.

*Fairness.*  `FairSpec` asks for weak fairness of `Step(s)`: the worker goes on with the request
it has begun and the database ends a wait.  Beginning a request and crashing are not fair.  With
it `RequestsAnswered` holds because a waiting session either gets the row or is aborted; without
`LockAbort` two opposite transfers wait for each other for ever.

**transfers.**  Two transfers; three lines, so that one transfer may have two; two requests in
flight, so that two may ship or receive one transfer.  One form names no destination, so that
receiving fails.  It shows that a line moves at most once each way, that nothing moves for a transfer that was not shipped, and that the lines of a received transfer have
arrived, all or none, except lines that were added or removed after the check.

**receiving.**  Three lines, the third without a quantity; three tasks; two requests in flight,
which is enough for a double completion, a double receive, and an edit or a completion during
generation.  It shows that a task is completed exactly when its receipt is in the ledger, that receiving twice makes no second task, and that a
completed GRN has been put away.

**shop_floor.**  Two operations, so that the last stop completes the order and the roll-up is a
sum; two reports of one unit; two requests in flight; five requests in all, which is a start and
a stop of both operations and one more request in between, or two reports, their two deletions
and another one.  The work order transitions and `Consume` are not counted.  Every movement is posted
(`Emits = {TRUE}`); a tenant without a default bin posts none and has no stock to get wrong.  It
shows that requests on one operation do not overwrite each other's columns although each of them
writes all columns, that a deleted report takes its stock back unless the stock was used, and
what requests one at a time keep: all totals, and ended work orders.

**documents.**  One document of every kind of the four modules of tables, three requests: one that is stale,
the one that makes it stale, and one that computes.  It shows that for all of them the status moves
along the declared moves, except by a write that was decided on an older row and carries no
condition; that a computation under way has its request unless that died or was overrun; and
that two computations run at once only after a stale write, or where the view does not ask.  These
exceptions are what the code has, not what it should have; the properties say that there are no
others, and each of them fails in a mutant that drops a test or a condition.

**order_to_cash.**  A behaviour follows orders, invoices or shipments (`scene`), with two requests,
two invoices, two shipments of an order line of one or two that its form may change, a `qty_shipped`
of a shipment line that is left empty or two, a credit limit of one and totals up to two, so that an
order may or may not fit.  Two requests are what a stale write needs; two documents are
what a second invoice or an order exceeded needs.

**services.**  Ten scenes, one module each, two requests: an approval of up to three levels that a document request may
close,
two releases of a commitment of two, two holds on two documents, three entries of a job, an
adjustment and a count sheet of one bin, two work orders of one production order; the trail of each
audited model with two processes; each handler with two derived rows; three chained entries of one
user; two archives of two entries over three days.  Two is enough for one request to come between
the steps of another; a third adds nothing a stale request could see that a second write does not.
Two processes are what makes a shared dictionary miss.  A mutant of the code breaks each property.

`transfers`, `receiving`, `shop_floor`, `documents`, `order_to_cash` and `services` are checked
without a deadlock check: documents end,
and the primary keys and requests of the instance are used up, after which nothing has to happen.
`stock_sessions` checks it.  Symmetry is used where the permuted constants are model values that
only occur in equality tests; `receiving` does not permute lines, which are
numbers, processed in order.

## 5. What is proved

Every invariant and every action property that a passing run checks is also a theorem, for every
value of the constants that satisfies the named assumptions: any number of requests, and any sets of
bins, lines, operations, documents, kinds of document, audited models and handlers.  TLC's runs show
the same properties on small instances, and that they can fail (a mutant of the code breaks each).

| Theorem | Statement |
|---|---|
| `PostedNonNegative`, `PostedFollowsLedger` | a posted movement leaves non-negative balances; unless floored it changes them by what the ledger says |
| `ReversalAdmissible`, `ReversalRestores` | a reversal passes the argument checks, and restores the balances |
| `TypeCorrect`, `NeverNegative`, `UniqueRows`, `LedgerFollowed` | `StockSessions!Spec` implies always `TypeOK`, `NonNegative`, `OneRowWhereUnique`, `BalanceFollowsLedger` |
| `SessionsImplementLedger` | `StockSessions!Spec` implies `StockLedger!Spec` under the mapping |
| `MovesOnce`, `UnshippedUnmoved`, `LinesMatched` | `Transfers!Spec` implies always `NoLineMovesTwice`, `NothingMovedUnshipped`, `MatchedUnlessLate` |
| `CompletionsArePosted`, `LinesTaskedOnce`, `CompletedPutAway` | `Receiving!Spec` implies always `CompletionIsPosted`, `OneTaskPerLine`, `CompletedIsPutAway` |
| `StatusAgrees`, `NoReportLost`, `DeletionsReversed`, `SerialAgrees`, `EndedStays` | `ShopFloor!Spec` implies always `StatusFollowsLog`, `ReportsCounted`, `DeletionReversed`, `SerialBooks`, and `EndedStaysEnded` |
| `TypeCorrect`, `UnderwayHasItsRequest`, `ComputedByOne`, `StatusChangesAreJustified` | `Documents!Spec` implies always `TypeOK`, `UnderwayIsHeld`, `OneComputation`, and `StatusChangeJustified` |
| `CreditTestIsCurrent`, `ConfirmationSawNoHold` | `OrderToCash!ScenesSpec` implies always `PastDraftWasTested`, and `HeldOrderNotConfirmed` |
| `SecondInvoiceNeedsRace`, `CreditMovesWithInvoices` | ... and `BilledOnce`, `CreditFollowsInvoices` |
| `DeliveriesCounted`, `OrderKept` | ... and `DeliveriesCountedOnce`, `OrderNotExceeded` |
| `EveryLevelApproves` | `Services!ScenesSpec` implies always `ApprovedThroughEveryLevel` |
| `ConsumptionKept`, `HeldDocumentsStayLocked`, `TotalMovesWithEntries`, `VarianceMovesOnce`, `OrderDispatchedOnce` | ... and `ConsumptionFollowsReleases`, `LockedWhileHeld`, `TotalFollowsEntries`, `VariancePostedOnce`, `OneWorkOrder` |
| `TrailTellsStatus`, `OneRowDerived`, `DeletionUndone` | ... always `TrailFollowsStatus`, `DerivedOnce`, `UndoneWithSource` |
| `HonestLogVerifies`, `TimelyArchivesVerify` | ... always `ChainVerifies`, `ArchivesVerify` |

**SumLemmas.**  Half of the properties compare a column with a sum over rows, and a sum is a fold.
The library's induction theorems take an operator, which no installed prover can instantiate; but
`WFMin`, that a well-founded relation has minimal elements, takes a set.  With it
`FiniteSubsetsInduct` is an induction over the subsets of a finite set for a property given as a set,
and `FoldUnique` and `FoldOverExists` say that there is exactly one function that computes as the fold
does.  From them follow the facts the other modules cite: what one more row adds (`SumAdd`,
`SumRemove`), what a change of one row changes (`SumOneChange`), sums of equal, disjoint, zero and
smaller columns.  The model writes its sums with `SumOver`, whose summand is a function, so that
these facts apply.

**StockSessionsProofs.**  `NonNegative` is not inductive: a commit installs what was written
earlier.  `IInv` adds what a transaction has written (`NonNegativeWrites`), at which bins
(`Progress`), which rows it may hold (`HeldRows`, `ExclusiveRows`, `SelectedRow`), that an
inserted row of a unique key is the only one (`UniqueInserts`, `InsertedRows`), and that an exact
write differs from the committed row by what the movement has applied so far (`Exactness`).  The
last one needs `ExclusiveRows`: as long as a transaction holds a row, no other commit changes it,
so a write that was exact when it was made is still exact when it is installed.  The same
invariant gives the refinement: every step but `Commit` leaves the mapped variables alone, and
`Commit` is `Post`.

**TransfersProofs.**  The invariant says which lines and journal entries belong to which
transfer, that a draft has no entries, and that the lines a transaction posts are those the
transfer has at that time.  A line that came late is exempt; one that did not was there when its
transfer left draft.  For `NoLineMovesTwice` it is added that a transfer in transit has no receipt
in the journal: what shipping and receiving post is therefore new.

**ReceivingProofs.**  `OneTaskPerLine` needs to know what a generating request has still to do: only
one request generates at a time, and the lines it has not passed have no task (`OneGenerator`), which
in turn needs that a draft has no tasks and nobody working on one (`DraftIsFresh`).  A stale edit
form breaks just these, and is the only excuse.  `PlainCourse` adds, for `CompletedIsPutAway`, that
every line the generator has passed has a task, and that what a completion has read of the other
tasks stays true until it writes the status.

**ShopFloorProofs.**  `StatusFollowsLog` compares a committed row with a history variable, and a
commit installs a row that was read before.  `IInv` adds `RowsLocked`: what a transaction has read
of an operation is still there, and once it has written it, no other transaction holds the row;
this is what the lock of the foreign key gives.  `IdsReserved` and `PurgesMarked` keep reports
apart from each other and from deletions.  `ReportsCounted` follows with `SavesAddUp`: a row about
to be committed is the committed one and one report more.  `DeletionReversed` follows the key by
which a deletion finds a movement: a report that is there has not been reversed, and its movement
still refers to it (`StockIInv`).  For what requests one at a time keep, the proof adds that the
request under way has read rows that are still so (`ReadsHold`, `Serial`); between taking a
report off the total and deleting it the report is `Pending`, and between a change of a total and
the roll-up the order is `Unrolled`.

**DocumentsProofs.**  The invariant adds to `TypeOK` that what a request holds passed its test:
a fresh one still does, for the row has not changed since (`Outdate` marks all others at every
write).  A conditional UPDATE lands only on a status its WHERE clause names, which by
`WellFormed` its test accepts, so it follows a declared move however stale it is.  The theorems
hold for any set of kinds, those of the tables and any that are added; `KindsAssumption`, which
TLC evaluates on all the tables, is what a new table has to satisfy.  `OneComputation` needs more
of the tables, `ComputationsAssumption`: of a kind whose view asks before it begins a computation
(one that does not is `Reentrant`, and exempt), the statuses that a document reaches while it is
being computed are `Sealed`, no view begins another computation in them, and none but the end of
the computation leaves them.  For most kinds this is the running status alone.  A scenario may also
be discarded while it runs, and no computation begins in `discarded`; without the second status the
invariant is not inductive, with it it is (`Confined`).

**OrderToCashProofs.**  A held operation on the order has passed its test (`Vouched`) and, while
fresh, has seen any credit hold there is (`Seen`).  A move past draft then starts past draft, where
the test agrees with the total.  A look that is fresh found no invoice and there is still none
(`LookedTrue`); a held invoice form has a draft in it (`DraftForm`).  A held operation on a shipment
passed its view's test, and while fresh would pass again, its quantity with what the others have
committed included (`Tested`, `StillPasses`).

**ServicesProofs.**  *Approvals*: the level may go back and be approved twice, so the invariant does
not follow the level: every level below the current one, and below the one any request has loaded,
has an approval in the log while nobody has edited the policy; the signal of a document request ends
that, so `closed` is exempt.  *Releases*: a release never goes back
to draft, so a loaded status is a lower bound of the present one (`Loaded`).  *Holds*: the
types of what is held suffice.  *Counts*: a post under way has a document that is not done, and no
two have the same one (`OnePost`), so it ends the document and adds its variance to the sum once.  *Jobs*: a deletion holds the amount its entry still has, if it is
still posted (`Acts`).  *Dispatch*: a fresh look saw what there is (`Sighted`).  *Trail*: a save
that has missed nothing remembers the status that is there (`Sights`), two of those are not between
UPDATE and entry at once, or not in one process where the dictionary is the process's (`Apart`),
and then the latest entry tells the status unless one is still to be written (`Sound`).  *Derived
rows*: as long as requests have not overlapped there is one (`Alone`), what it has read is still so
(`Informed`), and there is one derived row at most and none in force after the end (`Single`,
`Lifetime`).  *Chain*: timestamps do not decrease along the keys (`InTurn`), each entry continues
the one before (`Linked`), and the entry under way continues the last one (`Upcoming`); equal
timestamps are allowed, which is why the order falls back on the key.  *Archives*: days are in turn
(`InDays`), each digest continues the one before (`Digested`), and so will the one being filed
(`NextArchive`).  The last two need no recursion over the log: an entry's hash contains the hash
before it, so the invariant speaks of neighbours only.

**A fault the proofs found in the model.**  The invariant of the trail could not be shown for the
models that remember a status in a cache that is never cleared.  TLC then violated
`TrailFollowsStatus` with three requests, where the run has two: a save that had missed a change
left its status in the cache and misled a later one, which itself overlapped nobody.  The code does
this; the history variable `missed` forgot it too early.  `Record` now keeps `missed` until an
entry has been written, and the run with three requests (7.4 million states) holds.

**Assumptions.**  `NoBinAssumption`, `SessionsAssumption`, `TransfersAssumption`,
`ReceivingAssumption`, `ShopFloorAssumption`: the "none" values are not members, openings are
natural numbers, jobs and forms have their types, sets that are summed or walked over are finite.
`KindsAssumption` and `ComputationsAssumption`: see Documents.  `ApprovalsAssumption`,
`CreditAssumption`, `OrderToCashAssumption`, `ServicesAssumption`: levels, totals and limits are
natural numbers, rows are finitely many, and the tables of audited models and handlers are
consistent (a status that a row may begin with and that is worth an entry gets one on creation; a
handler that undoes has a way to find what it derived).  TLC evaluates all of them in the runs.
The deaths of workers, the victims of deadlocks and requests that never go on are steps of the
specifications and in all theorems.

**Only model-checked.**  `RequestsAnswered`, because liveness under fairness and `ENABLED` are out of
the prover's reach.  Conversely `TypeOK` of StockSessions is proved and no longer run.

## 6. Where the code and its documentation disagree

Each of these runs checks one sentence of the documentation and ends in a counterexample.

| Run | Sentence | What happens |
|---|---|---|
| `stock_lost_update` | `movements.py:3-7`: `post_movement` adjusts the balances "atomically", "so StockItem denorms stay consistent" | two receipts into one bin read the same quantity; the later commit overwrites the earlier one; the ledger has both |
| `transfer_late_line` | `README.md:1996`: receiving posts "a matching receipt at the destination" | a line whose check came before the shipment is inserted after it; receiving posts its receipt although it was never issued |
| `putaway_double_action` | `README.md:2060`: the conditional UPDATE pattern means that two operators "cannot double-action" | `PutawayCompleteView` tests the task before the transaction and saves it unconditionally; two requests post two receipts |
| `shop_floor_restart` | `mes/views.py:3-5`: "Workflow transitions use a conditional UPDATE so concurrent reviewers cannot double-action" | operations use no conditional UPDATE; a pause checked before a stop is written after it and reopens the completed operation |
| `delivery_leaves_stock` | `sales/services/shipping.py:3-5`: "Confirming delivery is signal-driven", "the post_save signal in apps/sales/signals.py emits the StockMovement rows" | `confirm_delivery` sets the status by `QuerySet.update()`, which sends no `post_save`; delivered goods stay in stock until a form of the shipment is saved |

The last one needs one request only.  `stock_lost_update`, `putaway_double_action` and
`shop_floor_restart` need overlapping requests for the same row, `transfer_late_line` an edit while
the transfer is being shipped.

Further differences met while modelling, without a run of their own:

- `movements.py:112-113` says "Allow the balance to dip via adjustments; clamp at zero floor only for
  operational types", and `README.md:2036` that `adjustment` and `cycle_count` are exempt from the
  refusal to go below zero.  `movements.py:120` floors every type: an adjustment or count of three on
  a bin of two leaves zero and a ledger row of three.  `NonNegative` holds of the code for that
  reason; were corrections exempt, as the comment says, it would not, and `BalanceFollowsLedger` would
  need one exception less.
- `wfa/services/approval.py:3-4`: "All state transitions go through these helpers so we can use a
  race-safe `UPDATE ... WHERE status=<prev>` pattern".  `approve` and `reject` write the status by the
  primary key alone (lines 75 and 103), and the view asks whether the request is open on a row it
  has loaded before: of two overlapping decisions the later one overturns the earlier.  Approvals has
  the behaviour, and for that reason no property that says a decision stands.
- `wfa/signals.py:253-266` approves an open request that stands for a document request when that is
  approved, at whatever level it is and with nothing logged (the exception `closed` of
  `ApprovedThroughEveryLevel`).
- The form of an order line (`sales/views.py:713-725`) saves the whole row; loaded before a delivery and
  saved after it, it takes the delivery off `qty_shipped` again, and it may lower `qty_ordered` under
  what the shipments are to ship.  `qty_shipped` of a shipment line is a free field of its form, so
  one request can make a delivery exceed the order (the exceptions of `DeliveriesCountedOnce` and
  `OrderNotExceeded`, which speaks of `qty_to_ship`).
- The signal that drafts production orders for a confirmed make-to-order line
  (`sales/signals.py:30`) is missed in the same way: `confirm_sales_order` uses `update()`.
- `README.md:74` and `wfa/signals.py:274` expect a signal when a purchase order is submitted; the
  view uses `update()`, so the approval request is never opened.
- Labor and cost pass `payload=`, iot passes `metadata=` to the audit log, which has neither; the
  exception is swallowed and no row is written, against `compliance/signals.py:10` and the README
  (`AuditTrail` has these trails with `written` false).
- `incident.py` says all transitions go through `_atomic_status_transition` "so the audit signal
  sees the flip"; it is the reverse.  `qms/views.py:4` promises conditional updates, `NCRCloseView`
  saves the row.
- `audit_chain.py:13-14`: the chain verifies unless tampered with; two concurrent appends break it
  (`raced`), and so does deleting a user the entries name, since `SET_NULL` changes the payload
  (`redacted`).  `audit_chain.py:27-28` speaks of an append-only override that the log does not have.
- An archive of a period that is not over, or filed out of order, fails verification later
  (`untimely`).
- `dispatcher.py:8-9`: "a double-click in the UI never produces duplicate work orders"; two
  dispatches that both look first do (the exception of `OneWorkOrder`).
- `dms/models.py:827-835`: documents of an active hold are locked; a stale document form unlocks.
- `compliance/services/recall.py` says a notice is sent once per double-click and its leak sweep is
  "race-safe under concurrent writers"; the view tests a loaded object, the sweep stores a count
  read earlier.
- A password reset or a profile edit saves the whole user row and reactivates a user deactivated
  meanwhile (`accounts/views.py:205`); an invite accepted twice makes two users; resending reopens
  an accepted invite; activating two cost versions at once leaves none active
  (`cost/views.py:252-271`).
- Every save of a decided approval request notifies again (`wfa/signals.py:157`); decisions are
  logged even if their conditional UPDATE changed nothing.
- The OEE hook of iot reads `instance.operation`, which a report does not have, so it never fires;
  the unique key of `OEEPeriod` includes a nullable shift and does not bind.
- `UtilityAllocationPostView` asks for an allocation that no view creates, and two concurrent posts
  of one period and meter insert the allocations twice.

## 7. What is not modelled

- Templates, forms' validation of formats, pagination, permissions: no state of their own.
- Migrations, seeders, admin and URL tables: generated or declarative.
- What services compute: scheduling and optimisation (pps), gross-to-net and lot sizes (mrp), bill
  explosion (bom), allocation and ABC classes (inventory), overhead and variances (cost), sampling
  and control charts (qms), rates and hours (labor), OEE (iot), tariffs and carbon (utility).  They
  are functions of rows; the documents that hold their results are modelled, the numbers are not.
- Statistics on real numbers (`bi/services/predictions.py`, `iot/services/anomaly.py`) and evaluators
  of user formulas (`iot/services/twin.py`, `wfa/services/bpmn_engine.py`), whose results are numbers
  or tokens that no property here tells apart.
- The check-out lock of dms, the payment gateway of tenants, the report sweep of bi, the leak counter
  of compliance and the allocation of utility: real hazards, listed without a property.
- Statuses that no code sets: `overdue`, `in_production`, `fulfilled`, `invoiced`, `closed` of sales
  documents.  The management command
  `recompute_credit_used`, which sums open orders as well as invoices.
- In Documents, the content of a document: a line that is added, or a form that is saved, after the
  document has been approved (`procurement/views.py:385`) is listed as a hazard without a property.
- In Documents, relations between two documents (a quotation awarded closes its request, a purchase
  order received by a GRN) appear as a write of each of them, not as one step of both, unless one
  of the service modules has them.
- The write skew of `record_event`: two requests that stop the last two operations may each still
  see the other one open, and the work order stays in progress.  ShopFloor has the behaviour; it
  leaves a legal state, so no property excludes it.

## 8. Plan

What is left, in the order in which it would add most:

1. **Proofs**: that `SalesInvoices` and `SalesOrders` agree on `credit_used` (every step of the one
   is `CustomerChanges` or a stutter of the other), which would make the two scenes one system;
   refinements of the abstract promises of BlanketRelease and WipLedger; type correctness of the
   modules whose inductive invariant contains it.
2. **Checkout** (dms): the lock of a document, its holder and the unconditional check-in.
3. **Billing** (tenants) and **ReportSchedules** (bi): a charge and a report that are made twice.
4. **RecallLeaks** (compliance) and the allocation of **utility**: counters recomputed by requests
   that do not see each other's rows.
5. Pure algorithms as operators against a reference definition over bounded inputs: lot sizing
   and gross-to-net (mrp), FIFO and FEFO allocation, ABC classes and variance (inventory), slot
   scheduling (pps), AQL plans (qms), BOM explosion (bom), PM generation (eam).
