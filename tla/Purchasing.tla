----------------------------- MODULE Purchasing -----------------------------
(***************************************************************************)
(* One purchase order, its goods receipts, the returns to the supplier and *)
(* what is owed for them (services/purchase-order.js, goods-receipt*.js,   *)
(* supplier-return*.js, payable.js, supplier-payment.js).  Every operation *)
(* locks the document it changes and tests its revision; a receipt also    *)
(* locks its order, and a return its receipts.  Every line of the order    *)
(* has one scope of its own, and amounts are quantities at price 1.        *)
(***************************************************************************)
EXTENDS DocumentStock

CONSTANTS OrderLines,          \* the scopes of the order's lines
          Ordered,             \* the ordered quantity of every line
          PaymentAmounts,
          MaxGoodsReceipts,    \* bound: receipts ever made
          MaxSupplierReturns,  \* bound: returns ever made
          MaxPayments          \* bound: payments ever made

ASSUME PurchasingAssumption ==
  /\ OrderLines \subseteq Locations
  /\ Ordered \in [OrderLines -> Nat \ {0}]
  /\ PaymentAmounts \subseteq Nat \ {0}

VARIABLES
  orderStatus,       \* purchase_orders.status
  goodsReceipts,     \* goods_receipts with their lines, and the payable of each
  supplierReturns,   \* supplier_returns with their lines, and the credit of each
  payments,          \* payable documents of supplier payments
  allocations        \* active_payable_allocations

purchasingVars == <<orderStatus, goodsReceipts, supplierReturns, payments, allocations>>

Amount(lines) == SumFunctionOnSet(lines, OrderLines)
LineQuantities ==
  {lines \in [OrderLines -> 0..Amount(Ordered)] : \A l \in OrderLines : lines[l] <= Ordered[l]}

PurchasingInit ==
  /\ orderStatus = "draft"
  /\ goodsReceipts = <<>>
  /\ supplierReturns = <<>>
  /\ payments = <<>>
  /\ allocations = {}

-----------------------------------------------------------------------------
(* The order.                                                              *)

MoveOrder(from, to) ==
  /\ orderStatus \in from
  /\ orderStatus' = to
  /\ UNCHANGED <<goodsReceipts, supplierReturns, payments, allocations, stockVars>>

SubmitOrder == MoveOrder({"draft"}, "pending_approval")
ApproveOrder == MoveOrder({"pending_approval"}, "approved")
CancelOrder == MoveOrder({"draft", "pending_approval", "approved"}, "cancelled")

PostedReceipts == {g \in DOMAIN goodsReceipts : goodsReceipts[g].status = "posted"}

EverPosted == {g \in DOMAIN goodsReceipts : goodsReceipts[g].status # "draft"}

AcceptedOf(receipts, gs, l) == SumFunctionOnSet([g \in gs |-> receipts[g].accepted[l]], gs)
ClosedOf(receipts, gs, l) == SumFunctionOnSet([g \in gs |-> receipts[g].closed[l]], gs)

\* getPurchaseOrderLines: what posted receipts have left of a line.
Remaining(l) ==
  Ordered[l] - AcceptedOf(goodsReceipts, PostedReceipts, l)
             - ClosedOf(goodsReceipts, PostedReceipts, l)

\* updatePurchaseOrderReceiptStatus, when its statement sees the receipts gs.
StatusSeen(receipts, gs) ==
  LET accepted == SumFunctionOnSet([l \in OrderLines |-> AcceptedOf(receipts, gs, l)], OrderLines)
      closed == SumFunctionOnSet([l \in OrderLines |-> ClosedOf(receipts, gs, l)], OrderLines)
  IN CASE accepted + closed = 0 -> "approved"
       [] accepted + closed > 0 /\ accepted + closed < Amount(Ordered) -> "partially_received"
       [] accepted + closed >= Amount(Ordered) /\ closed > 0 -> "closed"
       [] OTHER -> "fully_received"
StatusAfter(receipts, gs) ==
  IF orderStatus \in {"approved", "partially_received", "fully_received", "closed"}
  THEN StatusSeen(receipts, gs) ELSE orderStatus

-----------------------------------------------------------------------------
(* Goods receipts.                                                         *)

OpenToReceipts == orderStatus \in {"approved", "partially_received"}

\* buildReceiptLines: a line that is finalised closes what it leaves short.
FitsOrder(accepted) == \A l \in OrderLines : accepted[l] <= Remaining(l)
Shortage(accepted, finalised) ==
  [l \in OrderLines |-> IF l \in finalised THEN Remaining(l) - accepted[l] ELSE 0]

\* createGoodsReceipt; updateGoodsReceipt writes a draft anew.
CreateReceipt(accepted, finalised) ==
  /\ Len(goodsReceipts) < MaxGoodsReceipts
  /\ OpenToReceipts
  /\ FitsOrder(accepted)
  /\ goodsReceipts' =
       Append(goodsReceipts,
              [status |-> "draft", accepted |-> accepted, finalised |-> finalised,
               closed |-> Shortage(accepted, finalised), movement |-> 0])
  /\ UNCHANGED <<orderStatus, supplierReturns, payments, allocations, stockVars>>

AtScopes(lines, sign) ==
  [l \in Locations |-> IF l \in OrderLines THEN sign * lines[l] ELSE 0]

\* The writes of postGoodsReceipt, with the shortage its lines close.  A receipt
\* that accepts nothing posts no movement.
WritePostedReceipt(g, closed) ==
  LET accepted == goodsReceipts[g].accepted
      moves == Amount(accepted) > 0
      posted == [goodsReceipts EXCEPT ![g] =
                   [@ EXCEPT !.status = "posted", !.closed = closed,
                             !.movement = IF moves THEN NextMovement ELSE 0]]
  IN /\ IF moves THEN PostMovement(AtScopes(accepted, 1)) ELSE UNCHANGED stockVars
     /\ goodsReceipts' = posted
     /\ orderStatus' = StatusAfter(posted, PostedReceipts \union {g})
     /\ UNCHANGED <<supplierReturns, payments, allocations>>

\* MUTANT: the lines are posted as they were drafted.
PostDraftedReceipt(g) ==
  /\ goodsReceipts[g].status = "draft"
  /\ OpenToReceipts
  /\ WritePostedReceipt(g, goodsReceipts[g].closed)

\* postGoodsReceipt: refreshDraftLinesForPosting builds the lines again.
PostReceipt(g) ==
  /\ goodsReceipts[g].status = "draft"
  /\ OpenToReceipts
  /\ FitsOrder(goodsReceipts[g].accepted)
  /\ WritePostedReceipt(g, Shortage(goodsReceipts[g].accepted, goodsReceipts[g].finalised))

ActiveReturns == {"pending_approval", "approved", "posted"}

\* hasBlockingSupplierReturnsForGoodsReceipt
BlockedByReturn(g) ==
  \E v \in DOMAIN supplierReturns :
    supplierReturns[v].of = g /\ supplierReturns[v].status \in ActiveReturns

\* allocated_amount of a payable document.
Payable(kind, number) == [kind |-> kind, number |-> number]
AllocatedTo(document) ==
  LET rows == {a \in allocations : document \in {a.source, a.target}}
  IN SumFunctionOnSet([a \in rows |-> a.amount], rows)

\* MUTANT: the payable of the source is reversed whatever is allocated to it.
PayableIsFreeUnchecked(document) == TRUE

\* The test of reverseSourcePayable and reverseSupplierPayment.
PayableIsFree(document) == AllocatedTo(document) = 0

\* reverseGoodsReceipt.  It does not lock the order: the statement that sets the
\* status may wait for the order's row and goes on with the receipts it saw when
\* it began, so it may miss others posted, or reversed, meanwhile.
ReverseReceipt(g, seen) ==
  /\ goodsReceipts[g].status = "posted"
  /\ ~BlockedByReturn(g)
  /\ PayableIsFree(Payable("receipt", g))
  /\ IF goodsReceipts[g].movement # 0 THEN ReverseMovement(goodsReceipts[g].movement)
     ELSE UNCHANGED stockVars
  /\ goodsReceipts' = [goodsReceipts EXCEPT ![g].status = "reversed"]
  /\ orderStatus' = StatusAfter(goodsReceipts, seen)
  /\ UNCHANGED <<supplierReturns, payments, allocations>>

-----------------------------------------------------------------------------
(* Returns to the supplier.                                                *)

PostedReturns(g) ==
  {v \in DOMAIN supplierReturns :
     supplierReturns[v].of = g /\ supplierReturns[v].status = "posted"}
Returned(g, l) ==
  SumFunctionOnSet([v \in PostedReturns(g) |-> supplierReturns[v].lines[l]], PostedReturns(g))

\* validateLines with strictReceiptStatus: the receipt is posted and has the
\* quantity beyond its posted returns.
Returnable(g, lines) ==
  /\ goodsReceipts[g].status = "posted"
  /\ \A l \in OrderLines : lines[l] <= goodsReceipts[g].accepted[l] - Returned(g, l)

\* createSupplierReturn; updateSupplierReturn writes a draft anew.
CreateReturn(g, lines) ==
  /\ Len(supplierReturns) < MaxSupplierReturns
  /\ Amount(lines) > 0
  /\ Returnable(g, lines)
  /\ supplierReturns' =
       Append(supplierReturns, [status |-> "draft", of |-> g, lines |-> lines, movement |-> 0])
  /\ UNCHANGED <<orderStatus, goodsReceipts, payments, allocations, stockVars>>

MoveReturn(v, from, to) ==
  /\ supplierReturns[v].status \in from
  /\ supplierReturns' = [supplierReturns EXCEPT ![v].status = to]
  /\ UNCHANGED <<orderStatus, goodsReceipts, payments, allocations, stockVars>>

\* MUTANT: the draft is submitted as it was validated when it was written.
SubmitDraftedReturn(v) == MoveReturn(v, {"draft"}, "pending_approval")

\* submitSupplierReturn locks the receipts and validates again.
SubmitReturn(v) ==
  /\ Returnable(supplierReturns[v].of, supplierReturns[v].lines)
  /\ MoveReturn(v, {"draft"}, "pending_approval")

ApproveReturn(v) == MoveReturn(v, {"pending_approval"}, "approved")
CancelReturn(v) == MoveReturn(v, {"draft", "pending_approval", "approved"}, "cancelled")

\* postSupplierReturn
PostReturn(v) ==
  /\ supplierReturns[v].status = "approved"
  /\ Returnable(supplierReturns[v].of, supplierReturns[v].lines)
  /\ PostMovement(AtScopes(supplierReturns[v].lines, -1))
  /\ supplierReturns' = [supplierReturns EXCEPT ![v].status = "posted", ![v].movement = NextMovement]
  /\ UNCHANGED <<orderStatus, goodsReceipts, payments, allocations>>

\* reverseSupplierReturn
ReverseReturn(v) ==
  /\ supplierReturns[v].status = "posted"
  /\ PayableIsFree(Payable("return", v))
  /\ ReverseMovement(supplierReturns[v].movement)
  /\ supplierReturns' = [supplierReturns EXCEPT ![v].status = "reversed"]
  /\ UNCHANGED <<orderStatus, goodsReceipts, payments, allocations>>

-----------------------------------------------------------------------------
(* Payables: the payable of a receipt, the credits of returns, payments.   *)

\* original_amount of a payable document that stands, 0 of one that does not.
OriginalAmount(document) ==
  LET n == document.number
  IN CASE document.kind = "receipt" ->
            IF goodsReceipts[n].status = "posted" THEN Amount(goodsReceipts[n].accepted) ELSE 0
       [] document.kind = "return" ->
            IF supplierReturns[n].status = "posted" THEN Amount(supplierReturns[n].lines) ELSE 0
       [] document.kind = "payment" ->
            IF payments[n].reversed THEN 0 ELSE payments[n].amount

Debits == {Payable("receipt", g) : g \in DOMAIN goodsReceipts}
Credits == {Payable("return", v) : v \in DOMAIN supplierReturns}
             \union {Payable("payment", p) : p \in DOMAIN payments}

\* createSupplierPayment
CreatePayment(amount) ==
  /\ Len(payments) < MaxPayments
  /\ payments' = Append(payments, [amount |-> amount, reversed |-> FALSE])
  /\ UNCHANGED <<orderStatus, goodsReceipts, supplierReturns, allocations, stockVars>>

\* reverseSupplierPayment
ReversePayment(p) ==
  /\ ~payments[p].reversed
  /\ PayableIsFree(Payable("payment", p))
  /\ payments' = [payments EXCEPT ![p].reversed = TRUE]
  /\ UNCHANGED <<orderStatus, goodsReceipts, supplierReturns, allocations, stockVars>>

\* create_payable_allocation.  Bound: one allocation of a credit to a receipt.
AllocatePayable(credit, debit, amount) ==
  /\ \A a \in allocations : a.source # credit \/ a.target # debit
  /\ amount <= OriginalAmount(credit) - AllocatedTo(credit)
  /\ amount <= OriginalAmount(debit) - AllocatedTo(debit)
  /\ allocations' = allocations \union {[source |-> credit, target |-> debit, amount |-> amount]}
  /\ UNCHANGED <<orderStatus, goodsReceipts, supplierReturns, payments, stockVars>>

\* reverse_payable_allocation
ReversePayableAllocation(a) ==
  /\ allocations' = allocations \ {a}
  /\ UNCHANGED <<orderStatus, goodsReceipts, supplierReturns, payments, stockVars>>

PurchasingNext ==
  \/ SubmitOrder
  \/ ApproveOrder
  \/ CancelOrder
  \/ \E accepted \in LineQuantities, finalised \in SUBSET OrderLines :
       CreateReceipt(accepted, finalised)
  \/ \E g \in DOMAIN goodsReceipts :
       \/ PostReceipt(g)
       \/ \E seen \in SUBSET (EverPosted \ {g}) : ReverseReceipt(g, seen)
       \/ \E lines \in LineQuantities : CreateReturn(g, lines)
  \/ \E v \in DOMAIN supplierReturns :
       \/ SubmitReturn(v)
       \/ ApproveReturn(v)
       \/ CancelReturn(v)
       \/ PostReturn(v)
       \/ ReverseReturn(v)
  \/ \E amount \in PaymentAmounts : CreatePayment(amount)
  \/ \E p \in DOMAIN payments : ReversePayment(p)
  \/ \E credit \in Credits, debit \in Debits, amount \in 1..Amount(Ordered) :
       AllocatePayable(credit, debit, amount)
  \/ \E a \in allocations : ReversePayableAllocation(a)

-----------------------------------------------------------------------------
PurchasingTypeOK ==
  /\ orderStatus \in {"draft", "pending_approval", "approved", "partially_received",
                      "fully_received", "closed", "cancelled"}
  /\ \A g \in DOMAIN goodsReceipts :
       /\ goodsReceipts[g].status \in {"draft", "posted", "reversed"}
       /\ goodsReceipts[g].accepted \in [OrderLines -> Nat]
       /\ goodsReceipts[g].closed \in [OrderLines -> Nat]
  /\ \A v \in DOMAIN supplierReturns :
       /\ supplierReturns[v].status \in ActiveReturns \union {"draft", "cancelled", "reversed"}
       /\ supplierReturns[v].of \in DOMAIN goodsReceipts
  /\ \A a \in allocations : a.source \in Credits /\ a.target \in Debits /\ a.amount \in Nat \ {0}

PurchaseMovements ==
  ({goodsReceipts[g].movement : g \in DOMAIN goodsReceipts}
     \union {supplierReturns[v].movement : v \in DOMAIN supplierReturns}) \ {0}

\* However drafts were written, posted and reversed, and whatever status a late
\* reversal wrote, the posted receipts of a line and the shortages they closed
\* are never more than was ordered, and the ledger holds what they accepted and
\* did not send back.
PurchaseAddsUp ==
  \A l \in OrderLines :
    /\ Remaining(l) >= 0
    /\ NetOf(PurchaseMovements, l) =
         SumFunctionOnSet([g \in PostedReceipts |-> goodsReceipts[g].accepted[l] - Returned(g, l)],
                          PostedReceipts)

\* A return on its way or posted has a posted receipt behind it, and no more of
\* a receipt goes back than it accepted.
ReturnsAreCovered ==
  \A g \in DOMAIN goodsReceipts :
    /\ BlockedByReturn(g) => goodsReceipts[g].status = "posted"
    /\ \A l \in OrderLines : Returned(g, l) <= goodsReceipts[g].accepted[l]

\* No receipt is paid, and no payment or credit spent, beyond its amount, and
\* nothing is allocated to or from a document that was reversed.
PayablesAreCovered ==
  \A document \in Debits \union Credits : AllocatedTo(document) <= OriginalAmount(document)
=============================================================================
