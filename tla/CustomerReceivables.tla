------------------------ MODULE CustomerReceivables ------------------------
(***************************************************************************)
(* The account of one customer in one currency: what deliveries bill, what *)
(* payments and returned goods settle, and what is paid back.              *)
(*                                                                         *)
(* A posted document is a debit (a sale, a refund) or a credit (a payment, *)
(* a return credit).  Allocations apply credits to debits; documents and   *)
(* allocations are reversed, never deleted.  The balance of the customer   *)
(* is kept by the ledger entries the documents write.                      *)
(*                                                                         *)
(* An action is one committed transaction that locks the rows it changes.  *)
(* Allocating a payment takes two: the service looks at the documents      *)
(* without a lock, and the database looks again under the locks of both.   *)
(* The sales bill one order line, each for an inventory issue of its own.  *)
(* The issues of deliveries were posted when their trip was dispatched.    *)
(* The stock that issues and returns move is not modelled here.            *)
(***************************************************************************)
EXTENDS Integers, FiniteSets, Functions, Bags

CONSTANTS Deliveries,      \* sales billed by delivery attempts of the trip
          Handovers,       \* sales billed by a pickup or manual handover
          Payments,        \* customer payments
          Returns,         \* customer returns, each with its return credit
          Refunds,         \* customer refunds
          Clerks,          \* requests that allocate a payment at one time
          None,            \* no request, no source
          Issued,          \* base quantity of the issue of a sale
          LineQuantity,    \* base quantity of the order line
          LineTotal,       \* line_total of the order line
          Paid,            \* amounts a payment names
          Amounts,         \* amounts an allocation or a refund names
          MaxAmount        \* bound: no amount is larger

Sales == Deliveries \union Handovers
Debits == Sales \union Refunds
Credits == Payments \union Returns
Documents == Debits \union Credits

\* The rows of receivable_allocations that can be told apart.
Rows == [source : Credits, target : Debits, amount : 1..MaxAmount]

ASSUME ReceivablesAssumption ==
  /\ IsFiniteSet(Documents)
  /\ Deliveries \intersect Handovers = {}
  /\ Debits \intersect Credits = {}
  /\ Sales \intersect Refunds = {} /\ Payments \intersect Returns = {}
  /\ None \notin Documents
  /\ Issued \in [Sales -> Nat \ {0}]
  /\ LineQuantity \in Nat \ {0}
  /\ LineTotal \in Nat /\ MaxAmount \in Nat /\ LineTotal <= MaxAmount
  /\ Paid \subseteq 1..MaxAmount /\ Amounts \subseteq 1..MaxAmount

VARIABLES
  documents,    \* receivable_documents
  delivered,    \* accepted_base_quantity of the line of a sale
  allocations,  \* the bag of active receivable_allocations
  balance,      \* customer_receivable_balances
  issues,       \* delivery_order_inventory_issues.status, by sale
  trip,         \* delivery_trips.status
  attempted,    \* deliveries with a delivery_attempt
  returns,      \* customer_returns with their one line and its receipt
  adjustments,  \* the customer_return_adjustment_line of a return credit
  refundOf,     \* customer_refunds.source_credit_document_id
  requests      \* an allocation that was looked at and not yet applied

vars == <<documents, delivered, allocations, balance, issues, trip, attempted, returns,
          adjustments, refundOf, requests>>

NoDocument == [status |-> "none", original |-> 0, allocated |-> 0]
NoReturn == [status |-> "none", issue |-> None, requested |-> 0, accepted |-> 0]
NoAdjustment == [quantity |-> 0, amount |-> 0]

Least(x, y) == IF x < y THEN x ELSE y

-----------------------------------------------------------------------------
(* What the tables say.                                                    *)

Exists(d) == documents[d].status # "none"
Live(d) == documents[d].status \notin {"none", "reversed"}
Open(d) == documents[d].status \in {"open", "partially_allocated"}

\* remaining_amount: zero once the document is reversed.
Remaining(d) ==
  IF Live(d) THEN documents[d].original - documents[d].allocated ELSE 0

Sum(f, S) == SumFunctionOnSet([x \in S |-> f[x]], S)

ActiveRows == BagToSet(allocations)

\* The active allocations of a document, from either side.
AllocatedTo(d) ==
  LET touching == {r \in ActiveRows : d \in {r.source, r.target}}
  IN SumFunctionOnSet([r \in touching |-> allocations[r] * r.amount], touching)

\* Quantity and amount of the order line that is billed.
LiveSales == {s \in Sales : Live(s)}
BilledQuantity == Sum(delivered, LiveSales)
BilledAmount == SumFunctionOnSet([s \in LiveSales |-> documents[s].original], LiveSales)

\* What live return credits took from a sale already.
LiveCredits(s) == {r \in Returns : Live(r) /\ returns[r].issue = s}
CreditedQuantity(s) ==
  SumFunctionOnSet([r \in LiveCredits(s) |-> adjustments[r].quantity], LiveCredits(s))
CreditedAmount(s) ==
  SumFunctionOnSet([r \in LiveCredits(s) |-> adjustments[r].amount], LiveCredits(s))

\* What returns claim of an issue: drafts what they ask for, receipts what
\* the warehouse accepted.
Claim(r) ==
  IF returns[r].status = "received" THEN returns[r].accepted
  ELSE IF returns[r].status = "draft" THEN returns[r].requested ELSE 0
Claimed(i) ==
  LET claims == {r \in Returns : returns[r].issue = i}
  IN SumFunctionOnSet([r \in claims |-> Claim(r)], claims)

-----------------------------------------------------------------------------
(* Steps inside a transaction.                                             *)

\* receivable_status_for_amounts
StatusFor(original, allocated) ==
  IF allocated = 0 THEN "open"
  ELSE IF allocated = original THEN "settled" ELSE "partially_allocated"

Posted(amount) == [status |-> "open", original |-> amount, allocated |-> 0]
Reversed(doc) == [doc EXCEPT !.status = "reversed"]

\* A document whose allocated amount changes by n.
Moved(doc, n) ==
  IF n = 0 THEN doc
  ELSE [doc EXCEPT !.allocated = @ + n, !.status = StatusFor(doc.original, doc.allocated + n)]

\* The documents and rows after items, amounts by target, are allocated from
\* source to their targets.
Applied(docs, source, items) ==
  [d \in Documents |->
     IF d = source THEN Moved(docs[d], Sum(items, DOMAIN items))
     ELSE IF d \in DOMAIN items THEN Moved(docs[d], items[d]) ELSE docs[d]]
WithRows(source, items) ==
  allocations (+) SetToBag({[source |-> source, target |-> d, amount |-> items[d]] :
                              d \in DOMAIN items})

\* MUTANT: only the target gets its amount back.
UnappliedFromTarget(docs, row) == [docs EXCEPT ![row.target] = Moved(@, -row.amount)]

\* reverse_receivable_allocation
Unapplied(docs, row) ==
  [docs EXCEPT ![row.source] = Moved(@, -row.amount), ![row.target] = Moved(@, -row.amount)]

\* The share of an amount that part of a whole gets, rounded half up.
Prorated(amount, part, whole) == (2 * amount * part + whole) \div (2 * whole)

\* MUTANT: the last delivery of a line is prorated like the others.
BilledProrated(quantity) == Prorated(LineTotal, quantity, LineQuantity)

\* buildPostingLines: the delivery that completes the line bills what is left
\* of it, the others their share.
Billed(quantity) ==
  IF BilledQuantity + quantity = LineQuantity
    THEN LineTotal - BilledAmount
    ELSE Prorated(LineTotal, quantity, LineQuantity)

\* postFromSource: nothing is posted for a line that costs nothing.
PostSale(s, quantity) ==
  /\ documents[s].status = "none"
  /\ BilledQuantity + quantity <= LineQuantity
  /\ Billed(quantity) >= 0
  /\ IF Billed(quantity) = 0
       THEN UNCHANGED <<documents, delivered, balance>>
       ELSE /\ documents' = [documents EXCEPT ![s] = Posted(Billed(quantity))]
            /\ delivered' = [delivered EXCEPT ![s] = quantity]
            /\ balance' = balance + Billed(quantity)

-----------------------------------------------------------------------------
(* Deliveries and handovers.                                               *)

\* The one attempt of a delivery on the dispatched trip bills what it
\* delivers.  A failed one delivers nothing.
RecordDelivery(s, quantity) ==
  /\ trip = "dispatched"
  /\ s \notin attempted /\ issues[s] = "POSTED"
  /\ quantity <= Issued[s]
  /\ attempted' = attempted \union {s}
  /\ IF quantity = 0
       THEN UNCHANGED <<documents, delivered, balance>>
       ELSE PostSale(s, quantity)
  /\ UNCHANGED <<allocations, issues, trip, returns, adjustments, refundOf, requests>>

\* closeReconciledTrip, when every delivery was attempted and what was not
\* delivered is back in the warehouse.
CloseTrip ==
  /\ trip = "dispatched"
  /\ attempted = Deliveries
  /\ trip' = "closed"
  /\ UNCHANGED <<documents, delivered, allocations, balance, issues, attempted, returns,
                 adjustments, refundOf, requests>>

\* executeRecoverDeliveryTrip, before any attempt.
RecoverTrip ==
  /\ trip = "dispatched"
  /\ attempted = {}
  /\ trip' = "recovered"
  /\ UNCHANGED <<documents, delivered, allocations, balance, issues, attempted, returns,
                 adjustments, refundOf, requests>>

\* The order line is not issued beyond its quantity.
IssuedQuantity == Sum(Issued, {i \in Sales : issues[i] = "POSTED"})

\* A handover issues its stock and bills it in one transaction.
HandOver(i) ==
  /\ issues[i] = "none"
  /\ IssuedQuantity + Issued[i] <= LineQuantity
  /\ issues' = [issues EXCEPT ![i] = "POSTED"]
  /\ PostSale(i, Issued[i])
  /\ UNCHANGED <<allocations, trip, attempted, returns, adjustments, refundOf, requests>>

\* reverse_handover_receivable_on_inventory_reversal refuses anything else.
Unallocated(s) == documents[s].allocated = 0 /\ documents[s].status = "open"

\* MUTANT: a return that was received does not block the reversal.
BlockedByDraft(i) == \E r \in Returns : returns[r].issue = i /\ returns[r].status = "draft"

\* hasBlockingCustomerReturn
BlockedByReturn(i) ==
  \E r \in Returns : returns[r].issue = i /\ returns[r].status \in {"draft", "received"}

\* executeReverseDeliveryInventoryIssue.  The trip guard of the database looks
\* at dispatched trips only, its receivable trigger at handovers only.
ReverseIssue(i) ==
  /\ issues[i] = "POSTED"
  /\ ~BlockedByReturn(i)
  /\ i \in Deliveries => trip # "dispatched"
  /\ issues' = [issues EXCEPT ![i] = "REVERSED"]
  /\ IF i \in Handovers /\ Live(i)
       THEN /\ Unallocated(i)
            /\ documents' = [documents EXCEPT ![i] = Reversed(@)]
            /\ balance' = balance - documents[i].original
       ELSE UNCHANGED <<documents, balance>>
  /\ UNCHANGED <<delivered, allocations, trip, attempted, returns, adjustments, refundOf, requests>>

-----------------------------------------------------------------------------
(* Payments.                                                               *)

\* Amounts for some of the open sales.
Items == UNION {[T -> Amounts] : T \in SUBSET LiveSales}

\* validateAllocationTargets: all of it fits, each target looked at alone.
Fits(items, available) ==
  /\ \A s \in DOMAIN items : Open(s) /\ items[s] <= Remaining(s)
  /\ Sum(items, DOMAIN items) <= available

\* createCustomerPayment without allocations.
CreatePayment(p, amount) ==
  /\ ~Exists(p)
  /\ \A c \in Clerks : requests[c] # None => requests[c].payment # p
  /\ documents' = [documents EXCEPT ![p] = Posted(amount)]
  /\ balance' = balance - amount
  /\ UNCHANGED <<delivered, allocations, issues, trip, attempted, returns, adjustments, refundOf,
                 requests>>

\* createCustomerPayment with allocations, up to the look at the targets.  The
\* payment is not visible to others before it commits.
BeginPayment(c, p, amount, items) ==
  /\ requests[c] = None
  /\ ~Exists(p)
  /\ \A b \in Clerks : requests[b] # None => requests[b].payment # p
  /\ DOMAIN items # {}
  /\ Fits(items, amount)
  /\ requests' = [requests EXCEPT ![c] = [payment |-> p, posting |-> amount, items |-> items]]
  /\ UNCHANGED <<documents, delivered, allocations, balance, issues, trip, attempted, returns,
                 adjustments, refundOf>>

\* allocateCustomerPayment, up to the look at the targets.
BeginAllocation(c, p, items) ==
  /\ requests[c] = None
  /\ Live(p)
  /\ DOMAIN items # {}
  /\ Fits(items, Remaining(p))
  /\ requests' = [requests EXCEPT ![c] = [payment |-> p, posting |-> 0, items |-> items]]
  /\ UNCHANGED <<documents, delivered, allocations, balance, issues, trip, attempted, returns,
                 adjustments, refundOf>>

\* MUTANT: the database trusts what the service saw.
ApplicableUnchecked(c) == TRUE

\* create_receivable_allocation for each item, under the locks of the payment
\* and of the targets.
Applicable(c) ==
  LET request == requests[c]
      p == request.payment
  IN /\ request.posting = 0 => Live(p)
     /\ Fits(request.items, IF request.posting = 0 THEN Remaining(p) ELSE request.posting)

\* applyAllocations: one item that does not fit any more undoes the request.
FinishAllocation(c) ==
  LET request == requests[c]
      p == request.payment
      docs == IF request.posting = 0 THEN documents
              ELSE [documents EXCEPT ![p] = Posted(request.posting)]
  IN /\ request # None
     /\ requests' = [requests EXCEPT ![c] = None]
     /\ IF Applicable(c)
          THEN /\ documents' = Applied(docs, p, request.items)
               /\ allocations' = WithRows(p, request.items)
               /\ balance' = balance - request.posting
          ELSE UNCHANGED <<documents, allocations, balance>>
     /\ UNCHANGED <<delivered, issues, trip, attempted, returns, adjustments, refundOf>>

\* reverseReceivableAllocation: of any active row, whatever its documents are.
ReverseAllocation(row) ==
  /\ row \in ActiveRows
  /\ Live(row.source) /\ Live(row.target)
  /\ documents' = Unapplied(documents, row)
  /\ allocations' = allocations (-) SetToBag({row})
  /\ UNCHANGED <<delivered, balance, issues, trip, attempted, returns, adjustments, refundOf, requests>>

\* MUTANT: the ledger is not told.
ReversePaymentSilently(p) ==
  /\ Live(p)
  /\ documents[p].allocated = 0
  /\ documents' = [documents EXCEPT ![p] = Reversed(@)]
  /\ UNCHANGED <<delivered, allocations, balance, issues, trip, attempted, returns, adjustments,
                 refundOf, requests>>

\* reverseCustomerPayment
ReversePayment(p) ==
  /\ Live(p)
  /\ documents[p].allocated = 0
  /\ documents' = [documents EXCEPT ![p] = Reversed(@)]
  /\ balance' = balance + documents[p].original
  /\ UNCHANGED <<delivered, allocations, issues, trip, attempted, returns, adjustments, refundOf,
                 requests>>

-----------------------------------------------------------------------------
(* Goods the customer returns, and the credit they give.                   *)

\* executeCreateCustomerReturn, on the locked line of the issue.
CreateReturn(r, i, quantity) ==
  /\ returns[r].status = "none"
  /\ issues[i] = "POSTED"
  /\ Live(i)
  /\ quantity <= Issued[i] - Claimed(i)
  /\ returns' = [returns EXCEPT ![r] = [status |-> "draft", issue |-> i,
                                        requested |-> quantity, accepted |-> 0]]
  /\ UNCHANGED <<documents, delivered, allocations, balance, issues, trip, attempted, adjustments,
                 refundOf, requests>>

CancelReturn(r) ==
  /\ returns[r].status = "draft"
  /\ returns' = [returns EXCEPT ![r].status = "cancelled"]
  /\ UNCHANGED <<documents, delivered, allocations, balance, issues, trip, attempted, adjustments,
                 refundOf, requests>>

\* The quantity of a sale that no live credit took.
Creditable(s) == IF Live(s) THEN delivered[s] - CreditedQuantity(s) ELSE 0

\* The rest of a sale is worth what is left of it, a part its share.
Worth(s, quantity) ==
  LET left == documents[s].original - CreditedAmount(s)
  IN IF quantity = Creditable(s) THEN left
     ELSE Least(Prorated(documents[s].original, quantity, delivered[s]), left)

\* Receiving the goods posts the credit and settles the sale they came from
\* (executeCustomerReturnTransition and post_customer_return_credit).
ReceiveReturn(r, accepted) ==
  LET s == returns[r].issue
      worth == Worth(s, accepted)
      settled == [x \in {y \in {s} : Least(worth, Remaining(y)) > 0} |-> Least(worth, Remaining(s))]
  IN /\ returns[r].status = "draft"
     /\ accepted <= returns[r].requested
     /\ accepted <= Creditable(s)
     /\ returns' = [returns EXCEPT ![r].status = "received", ![r].accepted = accepted]
     /\ IF worth = 0
          THEN UNCHANGED <<documents, allocations, balance, adjustments>>
          ELSE /\ documents' = Applied([documents EXCEPT ![r] = Posted(worth)], r, settled)
               /\ allocations' = WithRows(r, settled)
               /\ balance' = balance - worth
               /\ adjustments' = [adjustments EXCEPT ![r] = [quantity |-> accepted, amount |-> worth]]
     /\ UNCHANGED <<delivered, issues, trip, attempted, refundOf, requests>>

\* allocateCustomerReturnCredit, under the locks of the credit and the targets.
AllocateReturnCredit(r, items) ==
  /\ Open(r)
  /\ DOMAIN items # {}
  /\ Fits(items, Remaining(r))
  /\ documents' = Applied(documents, r, items)
  /\ allocations' = WithRows(r, items)
  /\ UNCHANGED <<delivered, balance, issues, trip, attempted, returns, adjustments, refundOf, requests>>

\* A refund of the credit that was not reversed.
Refunded(r) == \E f \in Refunds : refundOf[f] = r /\ documents[f].status # "reversed"

RowsFrom(r) == {row \in ActiveRows : row.source = r}

\* reverse_customer_return_credit takes back every allocation of the credit.
ReverseReturnCredit(r) ==
  LET back(s) == SumFunctionOnSet([row \in {q \in RowsFrom(r) : q.target = s} |->
                                     allocations[row] * row.amount],
                                  {q \in RowsFrom(r) : q.target = s})
  IN /\ Live(r)
     /\ ~Refunded(r)
     /\ documents' = [d \in Documents |->
                        IF d = r THEN [documents[r] EXCEPT !.status = "reversed", !.allocated = 0]
                        ELSE IF d \in Debits THEN Moved(documents[d], -back(d)) ELSE documents[d]]
     /\ allocations' = Restrict(allocations, ActiveRows \ RowsFrom(r))
     /\ balance' = balance + documents[r].original
     /\ UNCHANGED <<delivered, issues, trip, attempted, returns, adjustments, refundOf, requests>>

-----------------------------------------------------------------------------
(* Money paid back.                                                        *)

\* create_customer_refund: of a credit or of a payment.
CreateRefund(f, source, amount) ==
  /\ ~Exists(f)
  /\ Open(source)
  /\ amount <= Remaining(source)
  /\ documents' = Applied([documents EXCEPT ![f] = Posted(amount)], source, [x \in {f} |-> amount])
  /\ allocations' = WithRows(source, [x \in {f} |-> amount])
  /\ refundOf' = [refundOf EXCEPT ![f] = source]
  /\ balance' = balance + amount
  /\ UNCHANGED <<delivered, issues, trip, attempted, returns, adjustments, requests>>

\* reverse_customer_refund needs the active allocation to the refund.
ReverseRefund(f) ==
  /\ Live(f)
  /\ \E row \in ActiveRows :
       /\ row.target = f
       /\ documents' = [Unapplied(documents, row) EXCEPT ![f] = Reversed(@)]
       /\ allocations' = allocations (-) SetToBag({row})
  /\ balance' = balance - documents[f].original
  /\ UNCHANGED <<delivered, issues, trip, attempted, returns, adjustments, refundOf, requests>>

-----------------------------------------------------------------------------
Init ==
  /\ documents = [d \in Documents |-> NoDocument]
  /\ delivered = [s \in Sales |-> 0]
  /\ allocations = EmptyBag
  /\ balance = 0
  /\ issues = [i \in Sales |-> IF i \in Deliveries THEN "POSTED" ELSE "none"]
  /\ trip = "dispatched"
  /\ attempted = {}
  /\ returns = [r \in Returns |-> NoReturn]
  /\ adjustments = [r \in Returns |-> NoAdjustment]
  /\ refundOf = [f \in Refunds |-> None]
  /\ requests = [c \in Clerks |-> None]

Next ==
  \/ \E s \in Deliveries, quantity \in 0..LineQuantity : RecordDelivery(s, quantity)
  \/ CloseTrip
  \/ RecoverTrip
  \/ \E i \in Handovers : HandOver(i)
  \/ \E i \in Sales : ReverseIssue(i)
  \/ \E p \in Payments, amount \in Paid : CreatePayment(p, amount)
  \/ \E c \in Clerks, p \in Payments, amount \in Paid, items \in Items :
       BeginPayment(c, p, amount, items)
  \/ \E c \in Clerks, p \in Payments, items \in Items : BeginAllocation(c, p, items)
  \/ \E c \in Clerks : FinishAllocation(c)
  \/ \E row \in ActiveRows : ReverseAllocation(row)
  \/ \E p \in Payments : ReversePayment(p)
  \/ \E r \in Returns, i \in Sales, quantity \in 1..LineQuantity : CreateReturn(r, i, quantity)
  \/ \E r \in Returns : CancelReturn(r)
  \/ \E r \in Returns, accepted \in 1..LineQuantity : ReceiveReturn(r, accepted)
  \/ \E r \in Returns, items \in Items : AllocateReturnCredit(r, items)
  \/ \E r \in Returns : ReverseReturnCredit(r)
  \/ \E f \in Refunds, source \in Credits, amount \in Amounts : CreateRefund(f, source, amount)
  \/ \E f \in Refunds : ReverseRefund(f)

Spec == Init /\ [][Next]_vars

-----------------------------------------------------------------------------
Statuses == {"none", "open", "partially_allocated", "settled", "reversed"}

\* Every document has a status that follows from its amounts, and no more of
\* it is allocated than it is worth.
TypeOK ==
  /\ documents \in [Documents -> [status : Statuses, original : 0..MaxAmount,
                                  allocated : 0..MaxAmount]]
  /\ \A d \in Documents :
       /\ documents[d].allocated <= documents[d].original
       /\ Live(d) => documents[d].status = StatusFor(documents[d].original,
                                                     documents[d].allocated)
  /\ delivered \in [Sales -> 0..LineQuantity]
  /\ IsABag(allocations) /\ ActiveRows \subseteq Rows
  /\ balance \in Int
  /\ issues \in [Sales -> {"none", "POSTED", "REVERSED"}]
  /\ trip \in {"dispatched", "recovered", "closed"}
  /\ attempted \subseteq Deliveries
  /\ returns \in [Returns -> [status : {"none", "draft", "received", "cancelled"},
                              issue : Sales \union {None}, requested : 0..LineQuantity,
                              accepted : 0..LineQuantity]]
  /\ adjustments \in [Returns -> [quantity : 0..LineQuantity, amount : 0..MaxAmount]]
  /\ refundOf \in [Refunds -> Credits \union {None}]

\* What the allocation rows say of a document is what the document says of
\* itself, and no active allocation touches a reversed document, however
\* allocations, refunds and returns race and are undone.
AllocationsMatch ==
  /\ \A d \in Documents : documents[d].allocated = AllocatedTo(d)
  /\ \A row \in ActiveRows : Live(row.source) /\ Live(row.target)

\* The balance that ledger entries built up is what the open documents add up
\* to: the customer owes what remains of debits less what remains of credits.
BalanceReconciles ==
  balance = SumFunctionOnSet([d \in Debits |-> Remaining(d)], Debits)
              - SumFunctionOnSet([d \in Credits |-> Remaining(d)], Credits)

\* No unit of a sale is credited twice, a sale whose units all came back is
\* credited in full, and a sale that was reversed has no credit left.
CreditsWithinSales ==
  \A s \in Sales :
    /\ CreditedQuantity(s) <= (IF Live(s) THEN delivered[s] ELSE 0)
    /\ CreditedAmount(s) <= documents[s].original
    /\ Live(s) /\ CreditedQuantity(s) = delivered[s] =>
         CreditedAmount(s) = documents[s].original

\* Partial deliveries bill the order line exactly once: never more than its
\* quantity, and its very total when the quantity is complete, also after a
\* handover was reversed and billed again.
LineBilledOnce ==
  /\ BilledQuantity <= LineQuantity
  /\ BilledQuantity = LineQuantity => BilledAmount = LineTotal

\* phase-6d4-inventory-issue-return-decisions.md:107: once an accounting fact
\* exists a direct reversal is blocked, so goods whose issue was reversed are
\* not owed.  The code lets a closed trip through.
ReversedGoodsAreNotOwed ==
  \A i \in Sales : issues[i] = "REVERSED" => ~Live(i)
=============================================================================
