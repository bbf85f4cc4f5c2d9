# TLA+ models of the NPP Platform core

NPP Platform runs the business of a Vietnamese distributor: sales orders, the
stock behind them, deliveries, receivables, purchasing and payroll. This project
models the part of it where a mistake costs stock or money and where a unit test
hardly reaches: how a mutation takes effect once, how the inventory ledger and
its read model stay together, and how confirmed orders compete for stock until it
leaves the warehouse. The models are checked with TLC and the central invariants
proved with TLAPS.

All paths below are relative to `src/`; services are in
`npp-core/api/src/services/`, repositories in `npp-core/api/src/db/repositories/`,
triggers in `database/migrations/`.

## 1. The system

The core is a stateless Node.js API over one PostgreSQL database at READ
COMMITTED. A mutation is an HTTP request with an `Idempotency-Key`; its handler is
one database transaction (`withAuditOutboxTransaction`) that writes the business
rows, an audit row and an outbox row. Concurrency is controlled by transaction
advisory locks (per idempotency key, and per warehouse and SKU), by `SELECT ... FOR
UPDATE`, and by triggers that test again what the service tested. There is no
queue: components interact by calling each other inside the transaction and by
reading each other's tables.

### Inventory of the components

| Component | State | Operations | Interacts with | Hard behaviour | Correct when |
|---|---|---|---|---|---|
| Request idempotency (`idempotency.js`) | `core_idempotency_records` | reserve, reclaim, mark completed, mark failed | every mutating route | retries, crash between two commits, lost acknowledgement | one effect per key, truthful answers |
| Audit and outbox transaction (`audit-outbox.js`) | audit and outbox rows | begin, commit, roll back | every service | error after COMMIT | nothing half done |
| Inventory ledger (`inventory-ledger-core.js`) | movements and lines | post, reverse | triggers, replenishment | concurrent OUT lines, double reversal | append-only, reversed once |
| Balance projection (`inventory-balance.js`, trigger 020) | balance per exact scope | project, rebuild, reconcile | ledger, reservations | rebuild against live reservations | equals the ledger |
| Reservations (`inventory-reservations.js`) | reservations and events | reserve, release, consume, expire, cancel | balance | terminal states, lost quantity | no more reserved than on hand |
| Demand and replenishment (`sales-fulfillment*.js`) | fulfillment demands | replace, reconcile, cancel, replenish | every IN posting | fairness among waiting orders, clamping | nothing promised twice, oldest first |
| Allocation, pick, pack (`sales-fulfillment-operations.js`, `-reversal.js`, `-allocation-release.js`) | allocations with one reservation each | allocate in three modes, pick, pack, reverse, release | demand, reservations, delivery orders | reversals in any order | claimed is packed, packed is picked |
| Delivery orders and issue (`sales-delivery-*.js`) | delivery orders, issues, adjustments | create, confirm, cancel, release, issue, reverse issue | ledger, reservations, trips | partial consumption and restoration | consumed is what was shipped |
| Sales order lifecycle (`sales-order*.js`) | orders and versions | confirm, amend, cancel, close, quick edit | all of the above | unwinding of execution in one transaction | an amendment keeps the hold |
| Direct and manual issue (`sales-direct-stock-issue.js`, `sales-manual-*.js`) | manual movements, return receipts | issue, return, complete, unwind | ledger, demand | return in parts, then an amendment | billed is what left and stayed away |
| Logistics trips (`logistics-trip-*.js`) | trips, stops, assignments, attempts | plan, lock, dispatch, recover, reconcile | issue, COD | offline drivers, recovery | a delivery order on one trip |
| Receivables and payments (`customer-payment.js`, `customer-receivable.js`, `customer-return-credit.js`) | documents, payments, allocations | post, allocate, reverse, refund | issue, COD | two allocations of one rest | allocated within both sides |
| COD settlement (`cod-settlement-*.js`) | collections, handovers | record, hand over, reconcile | trips, payments | offline repetition | collected is handed over |
| Purchasing (`purchase-order.js`, `goods-receipt-core.js`, `supplier-return-core.js`) | orders, receipts, returns | receive, return, reverse | ledger, payables | over-receipt | received within ordered |
| Payables (`payable.js`, `supplier-payment.js`) | documents, allocations | as receivables | purchasing | as receivables | as receivables |
| Transfers (`inventory-transfer*.js`) | transfers, receipts | dispatch, receive, close short, reverse | ledger | stock in transit, late reversal | nothing lost in transit |
| Stocktake (`inventory-stocktake.js`) | counts with scope versions | snapshot, count, post | ledger | stock moves during a count | stale counts are refused |
| Adjustments, openings, manual inbound | documents | post, reverse | ledger | approval against movement | stock as approved |
| Costing and periods (`inventory-costing*.js`) | cost projections, periods | project, close, reopen | ledger | late postings | closed periods stay |
| Document numbering (`document-numbering.js`) | series, counters, allocations | allocate | every document | replay, overflow, imports | unique, gap-free per replay |
| Location mode, onboarding, portal, workforce, access, backup, printing, MCP backend, master data, reporting | their own tables | CRUD, jobs, exports | the core | leases of print jobs, import runs | outside this project, see section 8 |

`PROJECT.json` lists every component with its status, every hazard with its line
and the properties that watch it, and the map from each definition to its source.

## 2. Modules

| Module | Models | State and actions |
|---|---|---|
| `OnceOnlyEffect` | abstract: what a client may rely on | a request asks, takes effect at most once under a key, is answered |
| `RequestIdempotency` | `executeRequestWithIdempotency`, its store, and the domain's replay | `pc` is the place of each request between two database calls; one action for each call and one for its failure; `Crash` ends the process anywhere |
| `StockBalance` | the triggers on the balance table | operators on the columns `onHand` and `reserved` |
| `WarehouseStock` | ledger, reservations and rebuild for one SKU | `Post`, `Reverse`, `Reserve`, `Transition`, `Rebuild`, each one transaction |
| `SalesFulfillment` | demand, allocation, work, delivery orders and issue | every operation of these services, written as one step from tables to tables |
| `CustomerReceivables` | sales, payments, allocations, returns with their credit, refunds | one row per document; the active allocations are a bag; the balance is the running sum of the ledger entries |
| `CodCustody` | collections, handovers, acceptances and their reversals | append-only tables; `requests` holds what a request under way has read |
| `DocumentStock` | the ledger as documents use it | `PostMovement` and `ReverseMovement`, scope versions, other documents and reservations |
| `Transfers` | transfers, receipts, shortages | `transfers`, `transferReceipts`, `shortages`, one action per service |
| `Stocktake` | counts with the versions of their scopes | `stocktakes`, one action per service |
| `Purchasing` | one order, its receipts, returns and payables | status of the order, rows of the documents, active payable allocations |
| `DirectSales` | orders issued without allocation: by hand or at the counter | `directOrders`, `directIssues`, `manualReturns`, one action per service |
| `WarehouseOperations` | the last four over one ledger | the disjunction of their steps and of other documents |
| `Sums` | theorems about `SumFunctionOnSet` | no state |
| `RequestIdempotency_proofs`, `WarehouseStock_proofs`, `SalesFulfillment_proofs`, `CustomerReceivables_proofs`, `CodCustody_proofs`, `Stocktake_proofs`, `WarehouseOperations_proofs` | proofs | no state |
| `MC...` | small instances | postings, amounts and symmetry sets |

`WarehouseStock` and `SalesFulfillment` both extend `StockBalance`, so the
triggers are written once. `Transfers`, `Stocktake`, `Purchasing` and `DirectSales` extend
`DocumentStock`, whose instance `Stock` of `WarehouseStock` supplies the ledger;
`WarehouseOperations` extends all four and thereby runs them over one ledger and one
set of reservations.

There are two refinements. `RequestIdempotency` implements `OnceOnlyEffect` by the
substitution `effect <- Effect, reply <- Reply`. `WarehouseOperations` implements
`WarehouseStock` (`ImplementsLedger`): to the ledger, every transfer, count, receipt, direct
sale and return is a posting or a reversal, and nothing else, so the theorems about the ledger
speak of all of them.

### Granularity

`RequestIdempotency` is about interleaving: every database call of the executor
is an action, because the record and the document are committed by different
transactions. The handler keeps three steps (lock, look up, work), since the lock
on the domain key is what orders two handlers.

`WarehouseStock` and `SalesFulfillment` take one committed transaction as one
step. The advisory lock of warehouse and SKU is taken before the first read of a
balance (`lockPostedStockScopes`, `lockOrderStockScopes`,
`lockAllocationStockScope`), so two of them never overlap on a stock. Inside a step, the order of the
writes is kept: `IssueReversed` replenishes between the movement and the
restoration, as the code does, and `DeliveriesUnwound` goes through the delivery orders one
by one. Pick and pack lock the allocation row, and the update repeats their guard.
Locks themselves, and what a transaction reads before it has them, are for
`StockLocking` (section 9).

Transfers, counts, purchase documents and direct orders are one transaction per step too: each
operation locks the row of its document and tests its revision first, and takes the scope
locks before it reads versions or balances. Direct orders differ: issuing takes the scope locks before
the row of the order, and amending or cancelling (`sales-order.js:1106`, `:1153`) lists the standing issues under
the scope locks, which issuing and returning need as well, before the order row is locked. The status is tested
again under that lock (`sales-order-legacy.js:989`) or by the `UPDATE` itself, and a mismatch rolls
everything back, so whatever commits is the one step `AmendDirectOrder` or `CancelDirectOrder`. One
exception is kept in the model: the
reversal of a goods receipt does not lock the order, and the statement that writes the
order's status may have begun before other receipts were committed. `ReverseReceipt` takes
the set `seen` of receipts that statement saw.

In `CustomerReceivables` allocating a payment is two steps: the service looks at the
targets without a lock (`BeginPayment`, `BeginAllocation`), and the database looks
again under the locks (`FinishAllocation`). Everything else locks what it changes before it
looks. In `CodCustody`, handing over, accepting, and reversing a handover or a
collection are each a look and a commit, because undoing is an insert there: a statement that
waits for a row lock and finds the row unchanged goes on with its old snapshot.

### Abstractions

* One SKU, and in `SalesFulfillment` one warehouse and one line per order: advisory
  locks and balances never relate two SKUs. A location stands for an exact scope, a
  location and a lot; in `WarehouseOperations` the scopes lie in two warehouses.
* Quantities are small integers; the code uses scaled integers over
  `numeric(30,12)` and compares and adds them only. No overflow is within reach. Where it
  rounds (the share of an order line a delivery bills, the worth of a return), the model rounds.
* `allow_negative_stock` is off, its default. With it on, negative balances are a policy and
  `ReservedIsOnHand` is not claimed.
* A payload is its fingerprint, a response one of the classes that the executor
  tells apart: 2xx, final 4xx, retryable failure.
* `Postings` stands for documents outside a module that post movements: a set of line
  quantities, in one step with the replenishment.
* An allocation of stock owns one reservation, so both are one record. The progress sums
  that a trigger keeps in the demand row are computed instead (`Allocated`, `Untouched`).
* A sale is its delivery or handover, the issue it rests on and the receivable it
  posts. All documents are of one customer and one currency. A COD collection is its assignment,
  its delivery and the receivable of the delivery.
* Transfers have one line, a goods receipt has one supplier return of its own lines at a time,
  payables are quantities at price 1. Writing a draft again is left out: it is a new draft.
* A direct order has one line and one scope. What it holds between its confirmation and its issue is left
  out, as is the draft of an amendment: the amendment is the step that confirms it. The refusal to change the
  lane after an attempt to deliver (`sales-order.js:200`) is left out: attempts belong to delivery orders, which
  the orders of `DirectSales` do not have.
* `insertAdjustmentMovement` (`inventory-stocktake.js:876`) takes a movement that already has the
  key of the request for the adjustment it was about to post, without comparing payloads. `PostAdjustment`
  leaves that out: a retry of the same operation is refused by the status of the stocktake before it gets there, and the
  model assumes that no two requests of different operations share a key, as
  the frontends make a new one for each action. With a shared key, `CountIsCurrent` would not hold.
* Who may approve what is left out, also where the submitter must not approve.
* Trips are left out of `SalesFulfillment`. An amendment that recalls a dispatched trip also takes the
  trip's other delivery orders off it; here only those of the order move. In
  `CustomerReceivables` and `CodCustody` a trip is open, or closed or recovered.

The model admits a little more than the code in three places, which no property depends
on. The set `seen` of `ReverseReceipt` may be any set of receipts that were ever posted.
The test of `reverseTransferReceipt` for stock that left again compares request times and
runs before the scopes are locked; it may miss any movement, so it forbids nothing in
the model. A surplus that a transfer receipt only notes is not recorded.

## 3. Properties

Request idempotency: `AppliedOnce`, `SingleFlight`, `SuccessIsTruthful`,
`RefusalHasNoEffect` (a stored refusal never hides an effect),
`SettledRecordsStay`, `ImplementsContract`, and the liveness property
`EveryRequestAnswered`.

Warehouse stock: `ReservedIsOnHand`, `BalanceIsLedger`, `NoLeakedHold`,
`ReversedOnce`. `HistoryStays` (the ledger is append-only) is proved only.

Sales fulfillment: `ReservedIsOnHand` again, through all operations;
`BalanceMatchesReservations`, `DemandsAddUp`, `ClaimsArePacked`,
`ConsumedIsShipped`; and three about steps: `NeverPromisedTwice` (only the two
operations of section 5 may oversell), `HoldsAreKept` and `OldestFirst`, which are
what two comments of the code promise to customers
(`sales-fulfillment-replenishment.js:121`, `sales-fulfillment.js:323-328`).

Receivables: `AllocationsMatch` (rows, documents and reversals tell one story, whatever
two clerks allocate at once), `BalanceReconciles` (the running balance is what the open
documents add up to), `CreditsWithinSales` (returned goods are credited once, and in full
when all came back), `LineBilledOnce` (rounded shares add up to the line).

COD: `HandedOverWithinReceived`, `ReversedCollectionSettlesNothing`, `UnwoundInOrder`, and the
liveness property `RequestsEnd`.

Warehouse operations: `TransitAddsUp` (what left for a transfer is in the destination,
damaged, short or in transit, once each), `PurchaseAddsUp` (received and closed within
ordered, and the ledger holds it), `ReturnsAreCovered`, `PayablesAreCovered`, `DirectSalesAddUp` (of the
issues by hand only the one of the current version stands, and a closed order bills what it took
and did not come back), `CountIsCurrent`
(a posted count corrects the stock it was counted against, a reversal restores that stock) and
`ImplementsLedger`.

Each property of a passing run has a mutant in the module it mutates, marked
`MUTANT`, with a plausible bug that TLC finds.

## 4. Runs

| Run | Instance | Distinct states | Shows |
|---|---|---|---|
| `Idempotency` | 3 requests, 2 actors, 1 key, 2 payloads | 163,408 | safety, the refinement of `OnceOnlyEffect`, and that every accepted request is answered |
| `WarehouseStock` | 2 scopes, 4 postings, 4 movements, 2 reservations | 76,353 | the ledger and its read model |
| `SalesFulfillment` | 2 orders, 2 scopes, 2 units, 2 allocations, 2 delivery orders | 415,006 | competition for stock |
| `CustomerReceivables` | 1 delivery, 2 handovers, 1 payment, 2 returns, 1 refund, 2 clerks; a line of 4 units worth 7 | 1,747,363 | billing, settlement and undoing of both |
| `CodCustody` | 2 collections, 2 handovers, 2 requests at once, 2 allocations | 499,600 | custody, and that every request ends |
| `WarehouseOperations` | 1 transfer with 2 receipts, 1 count with 2 rounds, 1 order with 2 receipts, a return and a payment, 1 direct order in 2 versions with 2 returns; at most 4 documents and 4 movements together, 5 movements for a direct order alone | 1,232,105 | the documents of a warehouse disturbing each other |
| `IdempotencyStuck`, `BalanceRebuild`, `ReversalOversell`, `OutPosting`, `ReversedIssueOwed`, `CodStaleHandover` | smaller, or as above | | the findings of section 5 |

Why the bounds are enough. Three requests are a first try, a retry and a rival
that arrives while the retry reclaims; two actors because record and document have
different scopes; one key because keys never meet. Instead of a symmetry set, which TLC
cannot use for liveness, `MCFairSpec` lets requests arrive in turn and the first one be
`u1` with `p1`; the others are renamings. In the ledger, four movements allow two documents
with both reversals, or one reversed twice if it could be; two reservations let a scope be
exhausted while another one has stock. For sales, two orders and two units let one
wait while the other holds, quantities of 1 and 2 allow partial holds, issues and
claims, and two scopes let an allocation be split over both. Receipts of two units and issues
of one unit make the stock cross the holds in both directions. `AllowBackorder` is
TRUE in the runs: FALSE only removes transitions, and no property asks for progress here.

For receivables, three sales of one line are two shares and a last one that bills the rest,
one of them reversed and billed again; 7 over 4 units rounds in every share. One payment of 3
with items of 2 lets one clerk's item fit and two not; two returns are one for a part and one
for the rest, and the refund takes a credit or the payment. For COD, one amount is below and one
above what is due, two requests are enough for every pair that may race, and a third would
wait for one of them. For warehouse operations, four documents are a transfer with two receipts
and something that moves the stock between, or an order with a receipt, a return and a
payment; four movements are the postings and reversals of two of them. A direct order needs a fifth: stock
comes in, is issued, comes back in part, the issue is undone by an amendment and made again. Quantities of 2 are
received at once, in parts, or damaged in part.

The bounds are the constants named `Max...`, in the guards that make new rows.
Deadlock is checked in
`WarehouseStock` and `BalanceRebuild`; in the others the system may stop, because
every request is answered, every order is cancelled or every document was used and reversed,
with the bounds reached.

Symmetry is used for safety only. Orders are told apart only by their place in `queue`.

### Fairness

`Idempotency` and `IdempotencyStuck` assume strong fairness of
`Step(a)` for each request. Node runs every callback that becomes ready, and
PostgreSQL queues the waiters of an advisory lock, so a request is not overtaken
for ever although the lock is taken and released between. `Submit`, `Crash` and
`HandlerError` are not in `Step`: no client has to come, and no failure of a handler may be
counted on to free a request that waits.

`CodCustody` assumes strong fairness of `FinishHandover` for each request, because its row locks are
granted in the order they were asked for although reversals may take them again and again, and weak fairness of the
other finishing steps, which nothing disables. Nothing else is fair: no driver has to
record, no accountant has to accept.

## 5. Findings

1. **A reversed issue is promised twice** (`ReversalOversell`).
   `executeReverseDeliveryInventoryIssue` posts the reversal first; that posting
   replenishes the waiting orders with the returned stock
   (`sales-delivery-inventory.js:685`), and only then is the reservation it belonged
   to restored. Eleven steps with one unit suffice. Amending an order that was
   dispatched takes the same path. The text that says otherwise:
   `docs/operations/phase-6a-owner-decision-gate.md:254`, `NPP_PLATFORM_MASTER_PLAN.md:426`.
2. **An OUT posting takes held stock** (`OutPosting`). The second backstop of
   `docs/operations/phase-6d1-reservation-demand-decisions.md:72` is in migration
   sales/042 but not in the versions that replace it (inventory/133).
3. **A rebuild forgets reservations** (`BalanceRebuild`,
   `inventory-balance.js:403` of the repositories), against
   `docs/operations/phase-4-inventory-foundation-decisions.md:82` and `:755`.
4. **A crash after COMMIT blocks the key** (`IdempotencyStuck`,
   `idempotency.js:217`), against
   `docs/operations/phase-4-inventory-foundation-decisions.md:90`.
5. **Goods that came back are still owed** (`ReversedIssueOwed`,
   `logistics/047_logistics_trip_dispatch.sql:318`). The issue of a delivery may not be reversed
   while its trip is dispatched, but may be once the trip is closed; the receivable
   of the delivery stays. `docs/operations/phase-6d4-inventory-issue-return-decisions.md:107`
   says that an accounting fact blocks the direct reversal. When goods of a failed delivery have been received
   back as well, the same stock comes in twice.
6. **A handover of reversed cash** (`CodStaleHandover`,
   `cod-settlement-driver.js:373` of the repositories). The statement that reads the custody waits for
   the reversal of the collection and then goes on with what it read, against
   `docs/operations/phase-6f0-receivable-payment-cod-decisions.md:222` and `:360`.

`NeverPromisedTwice`, which `PromisedOnce` proves for all orders and scopes, says that the first
two are the only ways to oversell in the model.

Seen while modelling, without a run of their own:

* Accepting a COD handover and reversing it lock different keys and read the handover without a
  lock (`cod-settlement-reconciliation.js:78`), so both may commit. The model contains the race, but no run
  isolates it: `CodStaleHandover` ends at a stale handover, which is found first.
* An order issued by hand may be returned in part and then amended or cancelled:
  `unwindManualStockIssues` (`sales-order-execution-unwind.js:763`) reverses the whole issue without a look at
  `manual_delivery_return_receipts`, and what came back is in stock twice. An order issued at the counter
  may be cancelled or amended as well (only its quick edit asks for the stock): its movement is not among those
  that are reversed, but its demand is reset, so the stock stays out, or is issued a second time. The model
  contains both; `DirectSalesAddUp` claims nothing of the issues of earlier versions but that no
  issue by hand stands.
* `receiveManualOrderReturn` locks the order before the scope, `issueDirectSalesOrderStock` the scope before
  the order: the two can deadlock.
* The refund of a credit is an allocation, and `reverseReceivableAllocation` takes any
  allocation back. The credit may then be refunded again, and neither `reverse_customer_refund`, which
  needs that row, nor the reversal of the credit, which a refund blocks, can ever run. The
  model contains this too; `AllocationsMatch` and `BalanceReconciles` hold nevertheless.
* `accounting/057_phase6f_reconciliation_views.sql` reports every reversed document as a mismatch.
* The status of a purchase order after `reverseGoodsReceipt` may follow from an old
  snapshot (`goods-receipt-core.js:763`), against
  `docs/operations/phase-5-2-partial-goods-receipt-decisions.md:107-114`. Quantities are not affected
  (`PurchaseAddsUp`), but an order may refuse receipts that it should still take. Posting a receipt locks order, then
  scope; reversing one locks scope, then order: the two can deadlock.
* A keyed retry of a transfer receipt is validated against what is in transit before it is
  replayed, so the retry of a receipt that brought everything in is refused.
* The test of `reverseTransferReceipt` for a later OUT movement (`inventory-transfer-receipt.js:609`) compares
  the times of requests, not of commits, and runs before the scope lock.
* `accounting/055_customer_return_credit_refund_posting.sql:27` describes an order of locks
  that allocations do not keep.

## 6. Proofs

TLAPS proves, for every value of the constants that satisfies the assumptions:

| Module | Theorems about properties | Assumptions |
|---|---|---|
| `RequestIdempotency_proofs` | `TypeCorrect`, `AtMostOnce`, `OneAtATime`, `NoFalseSuccess`, `RefusedInVain`, `SettledForGood`, and the refinement `RefinesContract` | NULL is no value of a column (`NoneAssumption`) |
| `WarehouseStock_proofs` | `StockTypeCorrect`, `NoOverReservation`, `ProjectionReconciles`, `HoldsEnd`, `ReversalIsFinal`, `HistoryIsKept` | finitely many scopes, integer postings, positive quantities |
| `SalesFulfillment_proofs` | `TypeCorrect`, `ReservedStaysOnHand`, `BalanceFollowsReservations`, `DemandsAlwaysAddUp`, `ClaimsStayPacked`, `ConsumedStaysShipped`; of steps: `PromisedOnce`, `HoldsStay`, `ServedInTurn` | `FulfillmentAssumption`: finitely many orders and scopes, positive quantities, integer postings |
| `CustomerReceivables_proofs` | `ReceivablesTypeCorrect`, `RowsMatchDocuments`, `LedgerReconciles`, `CreditsStayWithinSales`, `LineIsBilledOnce` | finitely many documents, positive amounts, no document of two kinds |
| `CodCustody_proofs` | `CustodyTypeCorrect`, `HandoversAreCovered`, `ReversalIsWhole`, `UnwindingIsOrdered` | positive amounts |
| `Stocktake_proofs` | `StocktakeTypeCorrect` and `CountsAreCurrent`, for stocktakes beside any other documents and reservations (`StocktakesSpec`) | those of the ledger; counted scopes are locations, counts natural numbers |
| `WarehouseOperations_proofs` | `OperationsTypeCorrect`, `TransitIsWhole`, `PurchasesAddUp`, `ReturnsStayCovered`, `PayablesStayCovered`, `DirectSalesStayWhole`, `CountsStayCurrent`, `LedgerStaysWhole`, and the refinement `DocumentsImplementLedger` | those of the parts; the last two theorems also that the ledger takes any posting |

The assumptions are the named ones of the modules, and TLC evaluates them on every run.

**Requests.** `AppliedOnce` and `SingleFlight` are not inductive. `IInv` adds what the locks and
owner columns mean: who is in a transaction holds the lock of its key
(`HoldsKeyLock`); while a request is in `work`, no document has its key
(`NothingPostedYet`); who is in the handler or about to settle owns its record, which is
`processing`, or already `completed` when the acknowledgement of markCompleted was lost
(`OwnsItsRecord`); a stored or answered success has its document (`SuccessIsPosted`).
`OneAtATime` follows because a record has one owner, `AtMostOnce` because the
document is inserted only from `work`. The refusals and the refinement need `RInv` too: a document was
requested under the record that carries its payload, and who is about to store a refusal has posted
nothing under its record. `RefinesContract` maps the commit of the handler to `TakeEffect`, the
returned answer to `Answer`, and every other database call to a stutter.

**Ledger.** `IInv` joins the type invariant with `BalanceIsLedger`,
`ReservedIsOnHand`, `NoLeakedHold` and `ReversedOnce`: a rebuild keeps the balance because it
equals the ledger already, and freeing a reservation keeps `NoLeakedHold`
because the sum of the active holds loses the same quantity. The steps need sums over
a growing ledger and over reservations that change state. `Sums` proves what is
needed about the community operator `SumFunctionOnSet`: it unfolds at any element,
is congruent, additive, monotone, changes by the difference when one value is updated, and can be
grouped. The library's induction theorems cannot be used, so these are proved from a
smallest counterexample: among the subsets of a finite set for which the sum is wrong one
has the least cardinality, and removing an element of it gives a smaller one.

**Sales fulfillment.** A transaction there goes through many intermediate tables, so the
invariant is stated of tables: `Sound(s)` says that what is reserved is on hand (`Covered`), that the
reserved column is the sum of what the reservations have left (`Booked`), that the columns of an
allocation fit together (`RowsHold`), that delivery orders claim what was packed and a reservation is
consumed by exactly what was shipped (`ShipmentsHold`), that a delivery order takes from its own sales
order (`LinesHold`), and that the quantities of a demand add up and cover its allocations
(`DemandsHold`). `SInv` is `Sound` of the committed tables; TLC checked it on the instance of the run
`SalesFulfillment`. Each operator of the module has a lemma that takes `Sound` tables to `Sound`
tables. Those that go through a sequence (replenishing the queue, unwinding delivery orders) have an
induction of their own over the places of the sequence, again from a least counterexample. Issue and
its reversal are not sound at every write, because balance, reservation and delivery order are
written one after the other: there a lemma speaks of the writes together.

The three action properties compare the two ends of a transaction. For
`NeverPromisedTwice` each operator has a second lemma about what is left uncommitted
(`NoMorePromised`): it sets a hold within what is free beside the others, trades a hold for
reservations of the same quantity, or gives stock back. Unwinding an issue is the exception, and
then the step is a reversal of issues. For `HoldsAreKept` and `OldestFirst`, `KeepsTurns(s, t, o)` says that
from s to t no order but o loses any of its hold, that nobody begins to work for one, and that one of them gains
only if every older one that waits is served in full. It is transitive, so it goes
through a transaction operator by operator; replenishment has it because what is left over only falls along the
queue (`ReplenishedInTurn`). The order a request is about is exempt, unless it is itself the older one that
waits while a younger one gains. Such an order has nothing picked or shipped (`NothingShippedYet`), so
unwinding it offers nothing to the others before the replenishment that serves the queue in turn. This
needs four facts beside `Sound`, which `OrdersHold` adds and TLC checked on the same
instance: an order is queued once, a queued order is no
draft, a draft holds nothing, and a delivery order takes something. `FairStep` puts the three
together for every action of `Next`.

**Receivables.** `RInv` has two layers. `Agree` speaks of tables: an active row joins live documents, what a
document says is allocated is the sum of its rows, its status follows from that, and the balance is
the live debits less the live credits. The five things a transaction may do to the tables each keep it, and each action
is shown to do one of them. The second layer is about the requests under way and the order line: what is
credited was received against a live sale, and the last sale bills what the others left.

**Cash on delivery.** A request commits on what it saw when it began, so `StillHolds` says what nobody can
have changed since: the custody a handover looked at has not shrunk below its lines, and no handover stands of a
collection under reversal. `OneAtATime` says which requests exclude each other. `HandoversAreCovered` speaks of what was
ever received, and so holds although a handover may be made of a collection that was reversed meanwhile (section 5).

**Counts.** The versions are what the argument turns on. The version of a scope counts
the movements that have a line there, so it never falls, and while it stands the balance of
the scope stands too. `SnapshotsStand` says it of the two snapshots a stocktake keeps: if the versions of its
round are still those of the scopes, the stock is what it expected; if the
versions it noted when it was posted are, the stock is what it counted, and its movement is
the difference between the two. `CountIsCurrent` follows at the two steps that test the versions.

**Warehouse operations.** `OpsInv` says that every movement a document names was posted by it and by
no other document, so that what one part posts or reverses disturbs no other; and then, for each part, that its
rows and its movements agree. With that, a sum over the ledger splits into sums over documents, and
each property is one such sum. `DocumentsImplementLedger` goes through the actions: each is a posting, a
reversal, a reservation's step or a stutter of `WarehouseStock`. It assumes that `Postings` of the
ledger are all integer postings, since a document may post any; `LedgerStaysWhole` carries the
theorems of the ledger over to the documents.

Every safety property that a passing run checks is proved. Only model-checked are the liveness
properties `EveryRequestAnswered` and `RequestsEnd`, which are out of the prover's reach like
ENABLED. What a recursive function computes is not proved in general (the library's induction theorems cannot be
used), only that it keeps the invariant.

## 7. Hazards

They are in `PROJECT.json`, at their lines. Those without a property belong to
components of the plan, or to locking, or are described in section 5, and say so. What is decided under the
advisory lock of warehouse and SKU is one step (`NeverPromisedTwice`); that the lock is taken in time
was read in the code and is not checked.

## 8. Not modelled, and why

Reporting, exports, backup, printing, push messages and the web frontends are I/O
around the core. Workforce and payroll share no state with stock or sales. Access
control is tested before an operation and changes nothing when it refuses. Costs,
prices, discounts and taxes are decimal arithmetic without concurrency of their own. Master
data is guarded CRUD over single rows. Negative stock and the relocation to another
location mode need a balance below zero, which the default policy denies.

## 9. Plan

Done: the executor with its contract and liveness, the ledger, the core of sales
fulfillment, receivables with returns and refunds, COD custody, and transfers, counts,
purchasing and direct sales over one ledger; proofs of every safety property the runs check and of
both refinements.

Next, in this order:

1. `StockLocking`: the advisory lock, row locks and snapshots of allocation, issue,
   cancellation and two-scope replenishment, against the rule "Every warehouse/SKU lock
   must be acquired before demand and order row locks"
   (`sales-fulfillment-replenishment.js:23`); deadlock freedom and the stale reads.
2. Closing an order, shortage and the holds of direct orders, as a module
   over the tables of `SalesFulfillment`.
3. Planning, dispatch and reconciliation of trips; `DocumentNumbers`.
