-------------------------- MODULE SalesFulfillment --------------------------
(***************************************************************************)
(* Confirmed sales orders that compete for one SKU of one warehouse.       *)
(*                                                                         *)
(* A confirmed order has a fulfillment demand: a quantity held for it in   *)
(* the warehouse as a whole and a quantity it still waits for.  Allocation *)
(* turns a hold into reservations of exact scopes, which are picked,       *)
(* packed, claimed by delivery orders and issued.  Whatever frees stock or *)
(* brings it in offers it to the orders that wait, the oldest first.       *)
(*                                                                         *)
(* Every action is one committed transaction.  Those that touch stock hold *)
(* the advisory lock of the warehouse and SKU; the others lock the rows    *)
(* they update.  A transaction that moves through several intermediate     *)
(* states is written with operators from one State of the tables to the    *)
(* next.  One order has one line; the exact scopes are numbered in the     *)
(* order in which allocation prefers them (FEFO, FIFO).                    *)
(***************************************************************************)
EXTENDS StockBalance, Sequences

CONSTANTS Orders,           \* sales orders
          Quantities,       \* the quantities a request may name
          Postings,         \* line quantities of documents of other parts
          AllowBackorder,   \* the setting allow_backorder
          MaxStock,         \* bound: stock that postings may build up
          MaxAllocations,   \* bound: allocation rows ever made
          MaxDeliveries     \* bound: delivery orders ever made

ASSUME FulfillmentAssumption ==
  /\ Locations \subseteq Nat
  /\ IsFiniteSet(Orders)
  /\ Quantities \subseteq Nat \ {0}
  /\ Postings \subseteq [Locations -> Int]
  /\ AllowBackorder \in BOOLEAN
  /\ MaxStock \in Nat
  /\ MaxAllocations \in Nat
  /\ MaxDeliveries \in Nat

VARIABLES
  onHand,       \* inventory_balances.on_hand_quantity
  reserved,     \* inventory_balances.reserved_quantity
  status,       \* sales_orders.status
  queue,        \* confirmed orders by confirmed_at, which amendments keep
  demands,      \* the current row of sales_order_fulfillment_demands
  allocations,  \* sales_order_fulfillment_allocations, each with the one
                \* inventory_reservations row it owns
  deliveries    \* delivery_orders with their lines

vars == <<onHand, reserved, status, queue, demands, allocations, deliveries>>

State == [onHand |-> onHand, reserved |-> reserved, status |-> status, queue |-> queue,
          demands |-> demands, allocations |-> allocations, deliveries |-> deliveries]

\* COMMIT: the tables become those of s.
Commit(s) ==
  /\ onHand' = s.onHand
  /\ reserved' = s.reserved
  /\ status' = s.status
  /\ queue' = s.queue
  /\ demands' = s.demands
  /\ allocations' = s.allocations
  /\ deliveries' = s.deliveries

NoDemand == [state |-> "NONE", ordered |-> 0, target |-> 0, reserved |-> 0, backordered |-> 0]

Shipped == {"dispatched", "handed_over"}
Claiming == Shipped \union {"draft", "ready_to_dispatch"}

AtLeastZero(x) == IF x < 0 THEN 0 ELSE x
Clamp(x, low, high) == IF x < low THEN low ELSE IF x > high THEN high ELSE x

-----------------------------------------------------------------------------
(* What the tables of s say.                                               *)

\* The allocations of the demand of o that count.
Rows(s, o) == {a \in DOMAIN s.allocations :
                 s.allocations[a].order = o /\ s.allocations[a].state # "RELEASED"}

\* project_sales_order_fulfillment_allocation_progress keeps the same sum in
\* the demand row.
Allocated(s, o) ==
  SumFunctionOnSet([a \in Rows(s, o) |-> s.allocations[a].quantity], Rows(s, o))

\* The quantity of allocation a on delivery orders in some statuses.
OnDeliveries(s, a, statuses) ==
  SumFunctionOnSet([d \in DOMAIN s.deliveries |->
                      IF s.deliveries[d].status \in statuses
                        THEN s.deliveries[d].lines[a] ELSE 0],
                   DOMAIN s.deliveries)

Claimed(s, a) == OnDeliveries(s, a, Claiming)

\* Picked, packed and issued quantities of the demand are all zero.
Untouched(s, o) ==
  \A a \in Rows(s, o) :
    /\ s.allocations[a].picked = 0
    /\ s.allocations[a].packed = 0
    /\ OnDeliveries(s, a, Shipped) = 0

\* What o holds of the warehouse and has not allocated yet.
Hold(s, o) ==
  IF s.demands[o].state = "ACTIVE" THEN s.demands[o].reserved - Allocated(s, o) ELSE 0

HoldsOf(s, orders) == SumFunctionOnSet([o \in orders |-> Hold(s, o)], orders)

\* Stock that is neither reserved nor held by those orders: negative when the
\* warehouse is oversold.
Uncommitted(s, orders) == Total(s.onHand) - Total(s.reserved) - HoldsOf(s, orders)

\* MUTANT: the holds of other orders count as free stock.
FreeOfOthersHolds(s, o) == AtLeastZero(Uncommitted(s, {}))

\* MUTANT: the availability of an oversold warehouse is negative.
FreeOrOwed(s, o) == Uncommitted(s, Orders \ {o})

\* loadDemandHoldAvailability, getWarehouseAvailableQuantity: for o itself.
Free(s, o) == AtLeastZero(Uncommitted(s, Orders \ {o}))

-----------------------------------------------------------------------------
(* Steps inside a transaction.                                             *)

\* MUTANT: the backorder is counted from the order, not from the target.
ReconciledToOrder(s, o, target) ==
  LET held == Clamp(Allocated(s, o) + Free(s, o), Allocated(s, o), target)
  IN [s EXCEPT !.demands[o] = [@ EXCEPT !.target = target, !.reserved = held,
                                        !.backordered = s.demands[o].ordered - held]]

\* reconcileDemandHold
Reconciled(s, o, target) ==
  LET held == Clamp(Allocated(s, o) + Free(s, o), Allocated(s, o), target)
  IN [s EXCEPT !.demands[o] = [@ EXCEPT !.target = target, !.reserved = held,
                                        !.backordered = target - held]]

\* The orders replenishPendingHoldScopes selects before it starts.
Pending(s, o) ==
  /\ s.status[o] = "confirmed"
  /\ s.demands[o].state = "ACTIVE"
  /\ s.demands[o].backordered > 0
  /\ Untouched(s, o)

\* MUTANT: the newest confirmed order first.
ReplenishedNewestFirst(s) ==
  LET n == Len(s.queue)
      after[i \in 0..n] ==
        IF i = 0 THEN s
        ELSE LET o == s.queue[n + 1 - i] IN
             IF Pending(s, o) /\ Uncommitted(after[i - 1], Orders) > 0
               THEN Reconciled(after[i - 1], o, after[i - 1].demands[o].target)
               ELSE after[i - 1]
  IN after[n]

\* MUTANT: every waiting order is reconciled, even when nothing is available.
ReplenishedWithoutStock(s) ==
  LET after[i \in 0..Len(s.queue)] ==
        IF i = 0 THEN s
        ELSE IF Pending(s, s.queue[i])
          THEN Reconciled(after[i - 1], s.queue[i], after[i - 1].demands[s.queue[i]].target)
          ELSE after[i - 1]
  IN after[Len(s.queue)]

\* replenishPendingHoldScopes: the oldest confirmed order first, until nothing
\* is available.
Replenished(s) ==
  LET after[i \in 0..Len(s.queue)] ==
        IF i = 0 THEN s
        ELSE IF Pending(s, s.queue[i]) /\ Uncommitted(after[i - 1], Orders) > 0
          THEN Reconciled(after[i - 1], s.queue[i], after[i - 1].demands[s.queue[i]].target)
          ELSE after[i - 1]
  IN after[Len(s.queue)]

\* What delivery order d takes from each scope.
Load(s, d) ==
  [l \in Locations |->
     LET here == {a \in DOMAIN s.allocations : s.allocations[a].location = l}
     IN SumFunctionOnSet([a \in here |-> s.deliveries[d].lines[a]], here)]

\* apply_reservation_issue_adjustment: what the lines of d CONSUME (sign 1) or
\* RESTORE (sign -1) of the reservation of allocation a.
AdjustedRow(s, d, sign, a) ==
  LET consumed == s.allocations[a].consumed + sign * s.deliveries[d].lines[a]
  IN [s.allocations[a] EXCEPT
        !.consumed = consumed,
        !.reservation = IF s.deliveries[d].lines[a] = 0 THEN @
                        ELSE IF consumed < s.allocations[a].quantity
                        THEN "ACTIVE" ELSE "CONSUMED"]

\* All of them, and the balance they are part of.
Adjusted(s, d, sign) ==
  [s EXCEPT
     !.reserved = [l \in Locations |-> @[l] - sign * Load(s, d)[l]],
     !.allocations = [a \in DOMAIN @ |-> AdjustedRow(s, d, sign, a)]]

Moved(s, delta) == [s EXCEPT !.onHand = Posted(@, delta)]
WithDelivery(s, d, st) == [s EXCEPT !.deliveries[d].status = st]

\* reverseDeliveryInventoryIssue: the reversal movement is posted, with the
\* replenishment that follows an IN line, before the reservations are restored.
IssueReversed(s, d) ==
  WithDelivery(Adjusted(Replenished(Moved(s, Load(s, d))), d, -1), d, "ready_to_dispatch")

\* unwindDeliveryOrders: each delivery order of o that is still open.
DeliveriesUnwound(s, o) ==
  LET after[d \in 0..Len(s.deliveries)] ==
        IF d = 0 THEN s
        ELSE IF s.deliveries[d].order # o \/ s.deliveries[d].status = "cancelled"
          THEN after[d - 1]
          ELSE WithDelivery(IF s.deliveries[d].status = "dispatched"
                              THEN IssueReversed(after[d - 1], d) ELSE after[d - 1],
                            d, "cancelled")
  IN after[Len(s.deliveries)]

\* MUTANT: only allocations that are not completed give their reservation back.
ActiveAllocationsReleased(s, o) ==
  LET at(l) == {a \in Rows(s, o) : s.allocations[a].location = l
                                   /\ s.allocations[a].state = "ACTIVE"}
  IN [s EXCEPT
        !.reserved = [l \in Locations |->
          @[l] - SumFunctionOnSet([a \in at(l) |-> s.allocations[a].quantity], at(l))],
        !.allocations = [a \in DOMAIN @ |->
          IF a \notin Rows(s, o) THEN @[a]
          ELSE [@[a] EXCEPT !.picked = 0, !.packed = 0,
                            !.state = "RELEASED", !.reservation = "RELEASED"]]]

\* reverseAllocationProgress and releaseRemainingAllocations: progress goes back
\* to zero and the reservations end.
AllocationsReleased(s, o) ==
  LET remaining(a) == s.allocations[a].quantity - s.allocations[a].consumed
      at(l) == {a \in Rows(s, o) : s.allocations[a].location = l}
  IN [s EXCEPT
        !.reserved = [l \in Locations |->
          @[l] - SumFunctionOnSet([a \in at(l) |-> remaining(a)], at(l))],
        !.allocations = [a \in DOMAIN @ |->
          IF a \notin Rows(s, o) THEN @[a]
          ELSE [@[a] EXCEPT !.picked = 0, !.packed = 0,
                            !.state = "RELEASED", !.reservation = "RELEASED"]]]

\* releasePreExecutionAllocations
Released(s, o) == AllocationsReleased(DeliveriesUnwound(s, o), o)

\* MUTANT: a delivery order that was handed over is cancelled like any other.
ReleasableAlways(o) == TRUE

\* It refuses an order that has been handed to the customer.
Releasable(o) ==
  \A d \in DOMAIN deliveries :
    deliveries[d].order = o => deliveries[d].status # "handed_over"

\* allocateWarehouseDemand for the one line of o, in the tables s.
WithDemand(s, o, ordered) ==
  LET held == IF ordered < Free(s, o) THEN ordered ELSE Free(s, o)
  IN [s EXCEPT !.demands[o] = [state |-> "ACTIVE", ordered |-> ordered, target |-> ordered,
                               reserved |-> held, backordered |-> ordered - held]]

\* replaceSalesOrderFulfillmentDemand: refused when the rest cannot wait.
Commitable(s, o, ordered) == AllowBackorder \/ ordered <= Free(s, o)

-----------------------------------------------------------------------------
Init ==
  /\ onHand = [l \in Locations |-> 0]
  /\ reserved = [l \in Locations |-> 0]
  /\ status = [o \in Orders |-> "draft"]
  /\ queue = <<>>
  /\ demands = [o \in Orders |-> NoDemand]
  /\ allocations = <<>>
  /\ deliveries = <<>>

(* The sales order.                                                        *)

\* confirmSalesOrder, first version: the orders that wait are served first.
Confirm(o, q) ==
  /\ status[o] = "draft"
  /\ LET s == Replenished([State EXCEPT !.status[o] = "confirmed", !.queue = Append(@, o)])
     IN Commitable(s, o, q) /\ Commit(WithDemand(s, o, q))

\* confirmSalesOrder, a version that replaces a confirmed one: execution is
\* unwound, the order keeps its hold, and the rest is offered to the others.
Amend(o, q) ==
  /\ status[o] = "confirmed"
  /\ Releasable(o)
  /\ LET s == Released(State, o)
     IN Commitable(s, o, q) /\ Commit(Replenished(WithDemand(s, o, q)))

\* cancelSalesOrder
CancelDraft(o) ==
  /\ status[o] = "draft"
  /\ status' = [status EXCEPT ![o] = "cancelled"]
  /\ UNCHANGED <<onHand, reserved, queue, demands, allocations, deliveries>>

CancelConfirmed(o) ==
  /\ status[o] = "confirmed"
  /\ Releasable(o)
  /\ Commit(Replenished([Released(State, o) EXCEPT !.status[o] = "cancelled",
                                                  !.demands[o].state = "CANCELLED"]))

-----------------------------------------------------------------------------
(* Documents of other parts: receipts, transfers, adjustments.             *)

\* postInventoryMovement, and replenishAfterPostedMovement when a line is IN.
PostStock(delta) ==
  /\ MayPost(onHand, reserved, delta)
  /\ Total(Posted(onHand, delta)) <= MaxStock
  /\ Commit(IF \E l \in Locations : delta[l] > 0
              THEN Replenished(Moved(State, delta)) ELSE Moved(State, delta))

-----------------------------------------------------------------------------
(* Allocation.                                                             *)

\* MUTANT: stock on hand counts although it is reserved.
CandidateOnHand(s, l) == s.onHand[l]

\* listAllocationCandidates: scopes with stock that is not reserved.
Candidate(s, l) == AtLeastZero(s.onHand[l] - s.reserved[l])

\* buildAutoPlan: each candidate in turn, until the quantity is reached.
AutoPlan(s, quantity) ==
  [l \in Locations |->
     LET before == {k \in Locations : k < l}
     IN Clamp(quantity - SumFunctionOnSet([k \in before |-> Candidate(s, k)], before),
              0, Candidate(s, l))]

\* buildManualPlan: any exact scopes, within what each has.
ManualPlans(s, quantity) ==
  {plan \in [Locations -> Quantities \union {0}] :
     /\ \A l \in Locations : plan[l] <= Candidate(s, l)
     /\ Total(plan) <= quantity}

Remaining(s, o) == s.demands[o].reserved - Allocated(s, o)

NewAllocation(o, l, q) ==
  [order |-> o, location |-> l, quantity |-> q, picked |-> 0, packed |-> 0,
   state |-> "ACTIVE", consumed |-> 0, reservation |-> "ACTIVE"]

\* One row for each scope of the plan, in the order of the scopes.
PlanRows(o, plan) ==
  LET used == {l \in Locations : plan[l] > 0}
      place(l) == Cardinality({k \in used : k <= l})
  IN [i \in 1..Cardinality(used) |->
        LET l == CHOOSE k \in used : place(k) = i IN NewAllocation(o, l, plan[l])]

\* The transaction of executeAllocateFulfillmentDemand from the plan on.  The
\* trigger of each reservation sees the demand with its quantity allocated.
Allocates(s, o, plan) ==
  /\ Total(plan) > 0
  /\ \A l \in Locations :
       plan[l] > 0 => MayReserve(s.onHand, s.reserved, HoldsOf(s, Orders) - plan[l], plan[l])
  /\ Len(allocations) + Len(PlanRows(o, plan)) <= MaxAllocations
  /\ Commit([s EXCEPT
        !.reserved = [l \in Locations |-> @[l] + plan[l]],
        !.allocations = @ \o PlanRows(o, plan)])

\* The guards of every mode.
Allocatable(o) ==
  /\ status[o] = "confirmed"
  /\ demands[o].state = "ACTIVE"
  /\ Allocated(State, o) < demands[o].ordered

\* Modes AUTO (the whole order) and QUANTITY (so much more): the hold is set
\* anew, which is refused once picking has begun.
AllocateUpTo(o, target) ==
  /\ Allocatable(o)
  /\ target <= demands[o].ordered
  /\ Untouched(State, o)
  /\ LET s == Reconciled(State, o, target)
     IN Remaining(s, o) > 0 /\ Allocates(s, o, AutoPlan(s, Remaining(s, o)))

AllocateAuto(o) == AllocateUpTo(o, demands[o].ordered)

AllocateQuantity(o, q) == AllocateUpTo(o, Allocated(State, o) + q)

\* Mode MANUAL, which keeps the hold as it is.
AllocateManual(o) ==
  /\ Allocatable(o)
  /\ \E plan \in ManualPlans(State, Remaining(State, o)) : Allocates(State, o, plan)

-----------------------------------------------------------------------------
(* Warehouse work on one allocation.                                       *)

\* getAllocationForUpdate finds only allocations of confirmed orders.
Progress(a, row) ==
  /\ status[row.order] = "confirmed"
  /\ allocations' = [allocations EXCEPT ![a] = row]
  /\ UNCHANGED <<onHand, reserved, status, queue, demands, deliveries>>

\* executePickFulfillmentAllocation
Pick(a, q) ==
  LET row == allocations[a] IN
  /\ row.state = "ACTIVE"
  /\ row.picked + q <= row.quantity
  /\ Progress(a, [row EXCEPT !.picked = @ + q])

\* executePackFulfillmentAllocation: an allocation packed in full is completed.
Pack(a, q) ==
  LET row == allocations[a] IN
  /\ row.state = "ACTIVE"
  /\ row.packed + q <= row.picked
  /\ Progress(a, [row EXCEPT !.packed = @ + q,
                              !.state = IF row.packed + q = row.quantity
                                          THEN "COMPLETED" ELSE @])

\* decrementAllocationProgress, PICK
ReversePick(a, q) ==
  LET row == allocations[a] IN
  /\ row.picked - q >= row.packed
  /\ Progress(a, [row EXCEPT !.picked = @ - q])

\* MUTANT: claims of delivery orders are not counted.
ReversePackClaimed(a, q) ==
  LET row == allocations[a] IN
  /\ row.packed >= q
  /\ Progress(a, [row EXCEPT !.packed = @ - q,
                              !.state = IF @ = "COMPLETED" THEN "ACTIVE" ELSE @])

\* decrementAllocationProgress, PACK: what delivery orders claim stays packed.
ReversePack(a, q) ==
  LET row == allocations[a] IN
  /\ row.packed - q >= Claimed(State, a)
  /\ Progress(a, [row EXCEPT !.packed = @ - q,
                              !.state = IF @ = "COMPLETED" THEN "ACTIVE" ELSE @])

-----------------------------------------------------------------------------
(* Delivery orders and their inventory issue.                              *)

\* executeCreateDeliveryOrder: packed quantity that nothing claims yet.
CreateDelivery(o) ==
  /\ Len(deliveries) < MaxDeliveries
  /\ status[o] = "confirmed"
  /\ demands[o].state = "ACTIVE"
  /\ \E lines \in [1..MaxAllocations -> Quantities \union {0}] :
       /\ \E a \in Rows(State, o) : lines[a] > 0
       /\ \A a \in 1..MaxAllocations :
            lines[a] > 0 => /\ a \in Rows(State, o)
                            /\ lines[a] <= allocations[a].packed - Claimed(State, a)
       /\ deliveries' = Append(deliveries, [order |-> o, lines |-> lines, status |-> "draft"])
  /\ UNCHANGED <<onHand, reserved, status, queue, demands, allocations>>

\* A delivery order whose sales order is confirmed moves on.
SetDelivery(d, from, to) ==
  /\ status[deliveries[d].order] = "confirmed"
  /\ deliveries[d].status = from
  /\ deliveries' = [deliveries EXCEPT ![d].status = to]
  /\ UNCHANGED <<onHand, reserved, status, queue, demands, allocations>>

\* executeTransition
ConfirmDelivery(d) == SetDelivery(d, "draft", "ready_to_dispatch")
CancelDelivery(d) == SetDelivery(d, "draft", "cancelled")

\* executeReleaseDeliveryOrderForReversal
ReleaseDelivery(d) == SetDelivery(d, "ready_to_dispatch", "cancelled")

\* executeIssue: DISPATCH leaves on a trip, PICKUP is handed over at once.  The
\* reservations are consumed before the OUT lines are posted.
Issue(d, st) ==
  /\ deliveries[d].status = "ready_to_dispatch"
  /\ status[deliveries[d].order] = "confirmed"
  /\ demands[deliveries[d].order].state = "ACTIVE"
  /\ \A a \in DOMAIN allocations :
       deliveries[d].lines[a] > 0 =>
         /\ allocations[a].consumed + deliveries[d].lines[a] <= allocations[a].quantity
         /\ allocations[a].reservation \in {"ACTIVE", "CONSUMED"}
  /\ LET s == Adjusted(State, d, 1)
     IN /\ MayPost(s.onHand, s.reserved, Opposite(Load(s, d)))
        /\ Commit(WithDelivery(Moved(s, Opposite(Load(s, d))), d, st))

\* executeReverseDeliveryInventoryIssue
ReverseIssue(d) ==
  /\ deliveries[d].status \in Shipped
  /\ Commit(IssueReversed(State, d))

-----------------------------------------------------------------------------
OrderStep(o) ==
  \/ \E q \in Quantities : Confirm(o, q) \/ Amend(o, q) \/ AllocateQuantity(o, q)
  \/ CancelDraft(o) \/ CancelConfirmed(o)
  \/ AllocateAuto(o) \/ AllocateManual(o)
  \/ CreateDelivery(o)

AllocationStep(a, q) == Pick(a, q) \/ Pack(a, q) \/ ReversePick(a, q) \/ ReversePack(a, q)

DeliveryStep(d) ==
  \/ ConfirmDelivery(d) \/ CancelDelivery(d) \/ ReleaseDelivery(d)
  \/ \E st \in Shipped : Issue(d, st)
  \/ ReverseIssue(d)

Next ==
  \/ \E o \in Orders : OrderStep(o)
  \/ \E delta \in Postings : PostStock(delta)
  \/ \E a \in DOMAIN allocations, q \in Quantities : AllocationStep(a, q)
  \/ \E d \in DOMAIN deliveries : DeliveryStep(d)

Spec == Init /\ [][Next]_vars

-----------------------------------------------------------------------------
(* Properties.                                                             *)

Demands == [state : {"NONE", "ACTIVE", "CANCELLED"}, ordered : Nat, target : Nat,
            reserved : Nat, backordered : Nat]

Allocations == [order : Orders, location : Locations, quantity : Nat,
                picked : Nat, packed : Nat, state : {"ACTIVE", "COMPLETED", "RELEASED"},
                consumed : Nat, reservation : {"ACTIVE", "CONSUMED", "RELEASED"}]

Deliveries == [order : Orders, lines : [1..MaxAllocations -> Nat],
               status : Claiming \union {"cancelled"}]

\* The tables hold whole rows, and no quantity is negative.
TypeOK ==
  /\ onHand \in [Locations -> Nat]
  /\ reserved \in [Locations -> Nat]
  /\ status \in [Orders -> {"draft", "confirmed", "cancelled"}]
  /\ queue \in Seq(Orders)
  /\ demands \in [Orders -> Demands]
  /\ allocations \in Seq(Allocations)
  /\ deliveries \in Seq(Deliveries)

\* No exact scope has more reserved than it has on hand, whatever is allocated,
\* issued, reversed, unwound or posted in between.
ReservedIsOnHand == \A l \in Locations : reserved[l] <= onHand[l]

\* The reserved column of a scope is what its reservations have not consumed:
\* issue, restore and release never count a quantity twice or lose it.
BalanceMatchesReservations ==
  \A l \in Locations :
    LET here == {a \in DOMAIN allocations :
                   allocations[a].location = l /\ allocations[a].reservation = "ACTIVE"}
    IN reserved[l] = SumFunctionOnSet(
                       [a \in here |-> allocations[a].quantity - allocations[a].consumed], here)

\* A demand splits what it asks for into a hold and a backorder, and never
\* allocates more than it holds, through reconciling, amending and releasing.
DemandsAddUp ==
  \A o \in Orders :
    demands[o].state = "ACTIVE" =>
      /\ demands[o].reserved + demands[o].backordered = demands[o].target
      /\ demands[o].target <= demands[o].ordered
      /\ Allocated(State, o) <= demands[o].reserved

\* What delivery orders claim has been packed, and what was packed was picked,
\* although progress and claims go back in any order.
ClaimsArePacked ==
  \A a \in DOMAIN allocations :
    /\ Claimed(State, a) <= allocations[a].packed
    /\ allocations[a].packed <= allocations[a].picked
    /\ allocations[a].picked <= allocations[a].quantity

\* A reservation has been consumed by exactly what left the warehouse for it.
ConsumedIsShipped ==
  \A a \in DOMAIN allocations :
    allocations[a].consumed = OnDeliveries(State, a, Shipped)

\* The warehouse promises no more than it has: "reservation and allocation must
\* not oversell under concurrency" (docs/operations/phase-6a-owner-decision-gate
\* .md:254).  Reversing an issue replenishes before it restores, so it does.
NoOversell == Uncommitted(State, Orders) >= 0

TakesStock(delta) == PostStock(delta) /\ \E l \in Locations : delta[l] < 0

\* "Inventory OUT must not bring the stock below the exact reservations plus the
\* Sales demand not yet allocated" (docs/operations/phase-6d1-reservation-demand-
\* decisions.md, section 4).  guard_inventory_negative_stock no longer tests it.
OutLeavesHoldsCovered ==
  [][\A delta \in Postings : TakesStock(delta) => Uncommitted(State, Orders)' >= 0]_vars

ReversesIssues == \E d \in DOMAIN deliveries :
                    deliveries[d].status \in Shipped /\ deliveries'[d].status \notin Shipped

\* No step promises stock that is already promised, except that a document takes
\* held stock out or an issue is reversed: confirming, amending, cancelling,
\* allocating, picking and issuing, in any order, never oversell.
NeverPromisedTwice ==
  [][\/ Uncommitted(State, Orders)' >= 0
     \/ Uncommitted(State, Orders)' >= Uncommitted(State, Orders)
     \/ ReversesIssues
     \/ \E delta \in Postings : TakesStock(delta)]_vars

OwnStep(o) == OrderStep(o) /\ ~ \E q \in Quantities : Confirm(o, q)

\* "Never take existing holds away from another order": what an order holds or
\* has allocated shrinks only by a request about that order.
HoldsAreKept ==
  [][\A o \in Orders : demands'[o].reserved < demands[o].reserved => OwnStep(o)]_vars

\* "Oldest confirmed demand first": an order gains by a receipt, a cancellation
\* or another order's amendment only when every older waiting order is served.
OldestFirst ==
  [][\A i, j \in DOMAIN queue :
       /\ i < j
       /\ demands'[queue[j]].reserved > demands[queue[j]].reserved
       /\ Pending(State, queue[i])
       => \/ ~Pending(State, queue[i])'
          \/ OwnStep(queue[j])]_vars
=============================================================================
