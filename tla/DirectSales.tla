---------------------------- MODULE DirectSales ----------------------------
(***************************************************************************)
(* Sales orders issued without allocation and delivery order: delivered by *)
(* hand (MANUAL) or taken at the counter (PICKUP)                          *)
(* (services/sales-direct-stock-issue.js, sales-manual-return.js,          *)
(* sales-manual-completion.js, and the unwinding of these issues when an   *)
(* order is amended or cancelled, sales-order-execution-unwind.js).        *)
(* Issuing takes the scope locks and then the row of the order, returning  *)
(* and completing start with that row, and all three read under the lock   *)
(* what they decide on.  Amending and cancelling read the order and list   *)
(* its standing issues first, under the scope locks that issuing and       *)
(* returning need too; the status is tested again when the row of the      *)
(* order is locked or written at the end, and if it is another one by then *)
(* the transaction is rolled back.  So each is one step.  An order has one *)
(* line here.  What it holds before it is issued is left out, so more may  *)
(* take its stock than can.                                                *)
(***************************************************************************)
EXTENDS DocumentStock

CONSTANTS DirectScope,        \* the scope direct orders are issued from
          DirectQuantities,
          MaxDirectOrders,    \* bound: direct orders ever confirmed
          MaxDirectVersions,  \* bound: versions of an order
          MaxManualReturns    \* bound: manual returns ever received

ASSUME DirectSalesAssumption ==
  /\ DirectScope \in Locations
  /\ DirectQuantities \subseteq Nat \ {0}

VARIABLES
  directOrders,    \* sales_orders with their current version and its demand
  directIssues,    \* the movements that issued them
  manualReturns    \* manual_delivery_return_receipts with their line

directVars == <<directOrders, directIssues, manualReturns>>

DirectSalesInit ==
  /\ directOrders = <<>>
  /\ directIssues = <<>>
  /\ manualReturns = <<>>

Lanes == {"MANUAL", "PICKUP"}
DirectOrderRows == [lane : Lanes, quantity : DirectQuantities, version : Nat, issued : BOOLEAN,
                    status : {"confirmed", "closed", "cancelled"}, billed : Nat]
DirectIssueRows == [order : Nat, version : Nat, lane : Lanes, movement : Nat]
ManualReturnRows == [issue : Nat, quantity : Nat, movement : Nat]

\* NOT EXISTS a reversal of the movement.
Standing(i) ==
  \A m \in DOMAIN movements : movements[m].reversalOf # directIssues[i].movement
ManualIssues(o) ==
  {i \in DOMAIN directIssues : directIssues[i].order = o /\ directIssues[i].lane = "MANUAL"}
CurrentIssues(o) ==
  {i \in DOMAIN directIssues :
     directIssues[i].order = o /\ directIssues[i].version = directOrders[o].version}

ReturnsOf(is) == {r \in DOMAIN manualReturns : manualReturns[r].issue \in is}
CameBack(is) ==
  SumFunctionOnSet([r \in ReturnsOf(is) |-> manualReturns[r].quantity], ReturnsOf(is))

-----------------------------------------------------------------------------
\* confirmSalesOrder of an order of a direct lane.
ConfirmDirectOrder(lane, quantity) ==
  /\ Len(directOrders) < MaxDirectOrders
  /\ directOrders' =
       Append(directOrders, [lane |-> lane, quantity |-> quantity, version |-> 1,
                             issued |-> FALSE, status |-> "confirmed", billed |-> 0])
  /\ UNCHANGED <<directIssues, manualReturns, stockVars>>

\* issueDirectSalesOrderStock: the whole order at once, from stock that nothing
\* reserves, which is what a posting may take.
IssueDirectOrder(o) ==
  /\ directOrders[o].status = "confirmed"
  /\ ~directOrders[o].issued
  /\ PostMovement(OneLine(DirectScope, -directOrders[o].quantity))
  /\ directIssues' =
       Append(directIssues, [order |-> o, version |-> directOrders[o].version,
                             lane |-> directOrders[o].lane, movement |-> NextMovement])
  /\ directOrders' = [directOrders EXCEPT ![o].issued = TRUE]
  /\ UNCHANGED manualReturns

\* MUTANT: a return is compared with the issue alone, not with earlier returns.
FitsTheIssue(o, i, quantity) == quantity <= directOrders[o].quantity

\* returnable, and the guard of migration sales/165: what the standing issue of
\* the current version took out and did not come back.
FitsUnreturned(o, i, quantity) == quantity <= directOrders[o].quantity - CameBack({i})

\* receiveManualOrderReturn; when all came back the order is over.
ReceiveManualReturn(o, i, quantity) ==
  /\ directOrders[o].lane = "MANUAL"
  /\ directOrders[o].status = "confirmed"
  /\ directOrders[o].issued
  /\ i \in ManualIssues(o) \cap CurrentIssues(o) /\ Standing(i)
  /\ Len(manualReturns) < MaxManualReturns
  /\ FitsUnreturned(o, i, quantity)
  /\ PostMovement(OneLine(DirectScope, quantity))
  /\ manualReturns' =
       Append(manualReturns, [issue |-> i, quantity |-> quantity, movement |-> NextMovement])
  /\ directOrders' =
       IF CameBack({i}) + quantity = directOrders[o].quantity
       THEN [directOrders EXCEPT ![o].status = "closed"] ELSE directOrders
  /\ UNCHANGED directIssues

\* resolveCompletionFacts: receipts are joined by the lines of the version.
DeliveredQuantity(o) ==
  directOrders[o].quantity
    - IF directOrders[o].lane = "MANUAL" THEN CameBack(CurrentIssues(o)) ELSE 0

\* completeDirectSalesOrder bills what the customer kept.
CompleteDirectOrder(o) ==
  /\ directOrders[o].status = "confirmed"
  /\ directOrders[o].issued
  /\ directOrders' =
       [directOrders EXCEPT ![o].status = "closed", ![o].billed = DeliveredQuantity(o)]
  /\ UNCHANGED <<directIssues, manualReturns, stockVars>>

\* unwindManualStockIssues: the standing MANUAL issue is reversed in full,
\* whatever came back of it; an issue at the counter is not looked for.
UnwindManualIssues(o) ==
  LET standing == {i \in ManualIssues(o) : Standing(i)} IN
  IF standing = {} THEN UNCHANGED stockVars
  ELSE \E i \in standing : ReverseMovement(directIssues[i].movement)

\* createSalesOrderAmendment and confirmSalesOrder of the new version, or
\* quickEditManualSalesOrder; the demand starts anew in the lane of the version.
\* A change of lane is refused after an attempt to deliver, but attempts belong
\* to delivery orders, and these orders have none.
AmendDirectOrder(o, lane, quantity) ==
  /\ directOrders[o].status = "confirmed"
  /\ directOrders[o].version < MaxDirectVersions
  /\ UnwindManualIssues(o)
  /\ directOrders' =
       [directOrders EXCEPT ![o].version = @ + 1, ![o].lane = lane,
                            ![o].quantity = quantity, ![o].issued = FALSE]
  /\ UNCHANGED <<directIssues, manualReturns>>

\* cancelSalesOrder
CancelDirectOrder(o) ==
  /\ directOrders[o].status = "confirmed"
  /\ UnwindManualIssues(o)
  /\ directOrders' = [directOrders EXCEPT ![o].status = "cancelled", ![o].issued = FALSE]
  /\ UNCHANGED <<directIssues, manualReturns>>

DirectSalesNext ==
  \/ \E lane \in Lanes, quantity \in DirectQuantities : ConfirmDirectOrder(lane, quantity)
  \/ \E o \in DOMAIN directOrders :
       \/ IssueDirectOrder(o)
       \/ CompleteDirectOrder(o)
       \/ CancelDirectOrder(o)
       \/ \E lane \in Lanes, quantity \in DirectQuantities :
            AmendDirectOrder(o, lane, quantity)
       \/ \E i \in DOMAIN directIssues, quantity \in 1..directOrders[o].quantity :
            ReceiveManualReturn(o, i, quantity)

-----------------------------------------------------------------------------
DirectSalesTypeOK ==
  /\ directOrders \in Seq(DirectOrderRows)
  /\ directIssues \in Seq(DirectIssueRows)
  /\ manualReturns \in Seq(ManualReturnRows)

\* What the ledger says of the issues in is and of what came back of them.
NetOfIssues(is) ==
  NetOf({directIssues[i].movement : i \in is}
          \union {manualReturns[r].movement : r \in ReturnsOf(is)}, DirectScope)

\* However an order is amended, cancelled, reissued and returned in parts, only
\* the issue of its current version stands of those made by hand, and only while
\* the order counts as issued; an issued order took its quantity once in this
\* version; and a closed order bills what the ledger says has left for it in
\* this version.
DirectSalesAddUp ==
  \A o \in DOMAIN directOrders :
    /\ \A i \in ManualIssues(o) :
         Standing(i) => directOrders[o].issued /\ i \in CurrentIssues(o)
    /\ directOrders[o].issued =>
         /\ Cardinality(CurrentIssues(o)) = 1
         /\ CameBack(CurrentIssues(o)) <= directOrders[o].quantity
    /\ directOrders[o].status = "closed" =>
         directOrders[o].billed = -NetOfIssues(CurrentIssues(o))
=============================================================================
