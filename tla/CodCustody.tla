---------------------------- MODULE CodCustody ----------------------------
(***************************************************************************)
(* Cash on delivery of one trip: what the driver collects, hands over, and *)
(* what the accountant accepts, with the payment each collection makes.    *)
(*                                                                         *)
(* The COD tables are append-only.  A collection, a handover or an         *)
(* acceptance is undone by inserting a reversal, so that locking a row     *)
(* does not make a statement that waited for it look again: it goes on     *)
(* with the snapshot it started from (READ COMMITTED).  A request is       *)
(* therefore two steps, the look and the commit, where the two can come    *)
(* apart.  Locks are held from the look to the commit and are read off the *)
(* requests under way.                                                     *)
(*                                                                         *)
(* A collection stands for its assignment, its delivery and the receivable *)
(* the delivery posted; all of them are of one customer.                   *)
(***************************************************************************)
EXTENDS Integers, Sequences, FiniteSets, Functions

CONSTANTS Collections,   \* assignments of the trip, one collection each
          Handovers,     \* cash handovers of the driver
          Requests,      \* requests under way at one time
          Due,           \* original amount of the receivable of an assignment
          Received,      \* amounts a driver collects
          Sheets,        \* handovers a driver writes: amounts by collection
          Amounts,       \* amounts accounting allocates
          MaxAllocations \* bound: rows of receivable_allocations

ASSUME CodAssumption ==
  /\ IsFiniteSet(Collections) /\ IsFiniteSet(Handovers)
  /\ Collections \intersect Handovers = {}
  /\ Due \in [Collections -> Nat]
  /\ Received \subseteq Nat \ {0} /\ Amounts \subseteq Nat \ {0}
  /\ \A lines \in Sheets : /\ DOMAIN lines # {} /\ DOMAIN lines \subseteq Collections
                          /\ Range(lines) \subseteq Nat \ {0}
  /\ MaxAllocations \in Nat

VARIABLES
  tripOpen,      \* the trip is dispatched and not closed
  collections,   \* cod_collections with their reversal
  payments,      \* status of the payment a collection made
  allocations,   \* receivable_allocations of the payments, with their reversal
  handovers,     \* cod_cash_handovers with their lines and reversal
  acceptances,   \* cod_cash_acceptances with their reversal
  requests       \* what a request under way has decided

vars == <<tripOpen, collections, payments, allocations, handovers, acceptances, requests>>

Methods == {"CASH", "BANK_TRANSFER", "NONE"}
NoCollection == [method |-> "none", received |-> 0, reversed |-> FALSE]
NoLines == [c \in {} |-> 0]
NoHandover == [lines |-> NoLines, reversed |-> FALSE]
Idle == [op |-> "none", of |-> {}, lines |-> NoLines, listed |-> {}]

Request(op, x, lines, listed) == [op |-> op, of |-> {x}, lines |-> lines, listed |-> listed]

Least(x, y) == IF x < y THEN x ELSE y

-----------------------------------------------------------------------------
(* What the tables and the views say.                                      *)

Recorded(c) == collections[c].method # "none"
HandedOver(h) == DOMAIN handovers[h].lines # {}
Standing(h) == HandedOver(h) /\ ~handovers[h].reversed

\* Lines of standing handovers of a collection.
LinesOf(c) == {h \in Handovers : Standing(h) /\ c \in DOMAIN handovers[h].lines}
HandedOverAmount(c) ==
  LET L == LinesOf(c)
  IN SumFunctionOnSet([h \in L |-> handovers[h].lines[c]], L)

\* cod_collection_custody.custody_remaining_amount
Custody(c) ==
  IF collections[c].method = "CASH" /\ ~collections[c].reversed
       /\ HandedOverAmount(c) < collections[c].received
    THEN collections[c].received - HandedOverAmount(c) ELSE 0

\* The active allocations, and remaining_amount of the documents of both sides.
ActiveRows == {i \in DOMAIN allocations : ~allocations[i].reversed}
RowsOf(c) == {i \in ActiveRows : allocations[i].payment = c}
RowsTo(d) == {i \in ActiveRows : allocations[i].receivable = d}
AmountOf(rows) == SumFunctionOnSet([i \in rows |-> allocations[i].amount], rows)
Unallocated(c) == collections[c].received - AmountOf(RowsOf(c))
Owed(d) == Due[d] - AmountOf(RowsTo(d))

Row(c, d, amount) == [payment |-> c, receivable |-> d, amount |-> amount, reversed |-> FALSE]

\* A request under way of some kind, for something.
Busy(op, x) == \E q \in Requests : requests[q].op = op /\ x \in requests[q].of

-----------------------------------------------------------------------------
(* The driver.                                                             *)

\* MUTANT: two handovers of the trip look at the custody together.
TripUnguarded == TRUE

\* lockCodKey and the row of the trip: one handover of the trip at a time.
TripUnlocked == \A q \in Requests : requests[q].op # "hand over"

\* MUTANT: all that was received is applied to the delivery.
AppliedAll(c, received) == received

\* The delivery is settled as far as the money goes.
AppliedToDelivery(c, received) == Least(received, Owed(c))

\* recordCodCollection.  It locks the trip and the receivable before it looks,
\* so it is one step; a collection is recorded once per assignment, reversed or not.
RecordCollection(c, method, received) ==
  /\ tripOpen
  /\ TripUnlocked
  /\ ~Recorded(c)
  /\ Len(allocations) < MaxAllocations
  /\ collections' = [collections EXCEPT ![c] =
                       [method |-> method, received |-> received, reversed |-> FALSE]]
  /\ IF method = "NONE"
       THEN received = 0 /\ UNCHANGED <<payments, allocations>>
       ELSE /\ received \in Received
            /\ payments' = [payments EXCEPT ![c] = "posted"]
            /\ IF AppliedToDelivery(c, received) > 0
                 THEN allocations' = Append(allocations, Row(c, c, AppliedToDelivery(c, received)))
                 ELSE UNCHANGED allocations
  /\ UNCHANGED <<tripOpen, handovers, acceptances, requests>>

\* createCodHandover, up to the statement that reads the custody.
BeginHandover(q, h, lines) ==
  /\ requests[q] = Idle
  /\ ~HandedOver(h)
  /\ ~Busy("hand over", h)
  /\ TripUnlocked
  /\ \A c \in DOMAIN lines : Recorded(c) /\ ~collections[c].reversed /\ lines[c] <= Custody(c)
  /\ requests' = [requests EXCEPT ![q] = Request("hand over", h, lines, {})]
  /\ UNCHANGED <<tripOpen, collections, payments, allocations, handovers, acceptances>>

\* MUTANT: the rows of the collections are not locked.
RowsUnguarded(C) == TRUE

\* FOR UPDATE OF collection
RowsUnlocked(C) == \A c \in C : ~Busy("reverse collection", c)

\* The rest of createCodHandover, once the rows of the collections are free.
FinishHandover(q) ==
  LET request == requests[q]
  IN /\ request.op = "hand over"
     /\ RowsUnlocked(DOMAIN request.lines)
     /\ handovers' = [h \in Handovers |->
                        IF h \in request.of THEN [lines |-> request.lines, reversed |-> FALSE]
                        ELSE handovers[h]]
     /\ requests' = [requests EXCEPT ![q] = Idle]
     /\ UNCHANGED <<tripOpen, collections, payments, allocations, acceptances>>

\* closeTrip holds the row of the trip.
CloseTrip ==
  /\ tripOpen
  /\ TripUnlocked
  /\ tripOpen' = FALSE
  /\ UNCHANGED <<collections, payments, allocations, handovers, acceptances, requests>>

-----------------------------------------------------------------------------
(* The accountant.                                                         *)

\* acceptCodHandover reads the handover without a lock.
BeginAcceptance(q, h) ==
  /\ requests[q] = Idle
  /\ Standing(h)
  /\ acceptances[h] = "none"
  /\ ~Busy("accept", h)
  /\ requests' = [requests EXCEPT ![q] = Request("accept", h, NoLines, {})]
  /\ UNCHANGED <<tripOpen, collections, payments, allocations, handovers, acceptances>>

FinishAcceptance(q) ==
  /\ requests[q].op = "accept"
  /\ acceptances' = [h \in Handovers |-> IF h \in requests[q].of THEN "active" ELSE acceptances[h]]
  /\ requests' = [requests EXCEPT ![q] = Idle]
  /\ UNCHANGED <<tripOpen, collections, payments, allocations, handovers>>

\* reverseCodAcceptance, on the locked rows of both.
ReverseAcceptance(h) ==
  /\ acceptances[h] = "active"
  /\ Standing(h)
  /\ acceptances' = [acceptances EXCEPT ![h] = "reversed"]
  /\ UNCHANGED <<tripOpen, collections, payments, allocations, handovers, requests>>

\* reverseCodHandover reads the handover without a lock, under a key of its own.
BeginHandoverReversal(q, h) ==
  /\ requests[q] = Idle
  /\ Standing(h)
  /\ acceptances[h] # "active"
  /\ ~Busy("reverse handover", h)
  /\ requests' = [requests EXCEPT ![q] = Request("reverse handover", h, NoLines, {})]
  /\ UNCHANGED <<tripOpen, collections, payments, allocations, handovers, acceptances>>

FinishHandoverReversal(q) ==
  /\ requests[q].op = "reverse handover"
  /\ handovers' = [h \in Handovers |->
                     IF h \in requests[q].of THEN [handovers[h] EXCEPT !.reversed = TRUE]
                     ELSE handovers[h]]
  /\ requests' = [requests EXCEPT ![q] = Idle]
  /\ UNCHANGED <<tripOpen, collections, payments, allocations, acceptances>>

\* reverseCodCollection locks the collection, counts its standing lines, and
\* lists the allocations of its payment.
BeginCollectionReversal(q, c) ==
  /\ requests[q] = Idle
  /\ Recorded(c) /\ ~collections[c].reversed
  /\ ~Busy("reverse collection", c)
  /\ LinesOf(c) = {}
  /\ requests' = [requests EXCEPT ![q] =
                    Request("reverse collection", c, NoLines, RowsOf(c))]
  /\ UNCHANGED <<tripOpen, collections, payments, allocations, handovers, acceptances>>

\* The allocations once some of them are reversed.
WithReversed(rows) ==
  [i \in DOMAIN allocations |->
     IF i \in rows THEN [allocations[i] EXCEPT !.reversed = TRUE] ELSE allocations[i]]

\* MUTANT: an allocation made after the listing does not keep the payment.
ReversibleListed(c, listed) == TRUE

\* reverseCustomerPayment refuses a payment that is still allocated.
Reversible(c, listed) == RowsOf(c) \subseteq listed

\* The rest of reverseCodCollection: the listed allocations are reversed, then
\* the payment, then the collection, or nothing at all.
CommitCollectionReversal(c, listed) ==
  IF Reversible(c, listed)
    THEN /\ collections' = [collections EXCEPT ![c].reversed = TRUE]
         /\ payments' = [payments EXCEPT ![c] = IF @ = "posted" THEN "reversed" ELSE @]
         /\ allocations' = WithReversed(listed)
    ELSE UNCHANGED <<collections, payments, allocations>>

\* MUTANT: a refused reversal waits for the allocation to go away.
FinishCollectionReversalWaiting(q) ==
  /\ requests[q].op = "reverse collection"
  /\ \E c \in Collections :
       /\ requests[q].of = {c}
       /\ Reversible(c, requests[q].listed)
       /\ CommitCollectionReversal(c, requests[q].listed)
  /\ requests' = [requests EXCEPT ![q] = Idle]
  /\ UNCHANGED <<tripOpen, handovers, acceptances>>

FinishCollectionReversal(q) ==
  /\ requests[q].op = "reverse collection"
  /\ \E c \in requests[q].of : CommitCollectionReversal(c, requests[q].listed)
  /\ requests' = [requests EXCEPT ![q] = Idle]
  /\ UNCHANGED <<tripOpen, handovers, acceptances>>

-----------------------------------------------------------------------------
(* The payments are customer payments like any other.                      *)

\* allocateCustomerPayment: what the delivery did not take, or took and gave back.
Allocate(c, d, amount) ==
  /\ payments[c] = "posted"
  /\ Len(allocations) < MaxAllocations
  /\ amount <= Unallocated(c) /\ amount <= Owed(d)
  /\ allocations' = Append(allocations, Row(c, d, amount))
  /\ UNCHANGED <<tripOpen, collections, payments, handovers, acceptances, requests>>

\* reverseReceivableAllocation
ReverseAllocation(i) ==
  /\ i \in ActiveRows
  /\ allocations' = WithReversed({i})
  /\ UNCHANGED <<tripOpen, collections, payments, handovers, acceptances, requests>>

\* reverseCustomerPayment by itself leaves the collection as it is.
ReversePayment(c) ==
  /\ payments[c] = "posted"
  /\ RowsOf(c) = {}
  /\ payments' = [payments EXCEPT ![c] = "reversed"]
  /\ UNCHANGED <<tripOpen, collections, allocations, handovers, acceptances, requests>>

-----------------------------------------------------------------------------
Init ==
  /\ tripOpen = TRUE
  /\ collections = [c \in Collections |-> NoCollection]
  /\ payments = [c \in Collections |-> "none"]
  /\ allocations = <<>>
  /\ handovers = [h \in Handovers |-> NoHandover]
  /\ acceptances = [h \in Handovers |-> "none"]
  /\ requests = [q \in Requests |-> Idle]

Next ==
  \/ \E c \in Collections, method \in Methods, received \in Received \union {0} :
       RecordCollection(c, method, received)
  \/ \E q \in Requests, h \in Handovers :
       \/ \E lines \in Sheets : BeginHandover(q, h, lines)
       \/ BeginAcceptance(q, h)
       \/ BeginHandoverReversal(q, h)
  \/ \E q \in Requests, c \in Collections : BeginCollectionReversal(q, c)
  \/ \E q \in Requests : FinishHandover(q)
  \/ \E q \in Requests : FinishAcceptance(q)
  \/ \E q \in Requests : FinishHandoverReversal(q)
  \/ \E q \in Requests : FinishCollectionReversal(q)
  \/ \E h \in Handovers : ReverseAcceptance(h)
  \/ CloseTrip
  \/ \E c, d \in Collections, amount \in Amounts : Allocate(c, d, amount)
  \/ \E i \in ActiveRows : ReverseAllocation(i)
  \/ \E c \in Collections : ReversePayment(c)

Spec == Init /\ [][Next]_vars

\* A request that was begun goes on.  A row lock is granted in the order it was
\* asked for, so a handover that waits for rows is not passed over for ever.
Fairness ==
  \A q \in Requests :
    /\ SF_vars(FinishHandover(q))
    /\ WF_vars(FinishAcceptance(q))
    /\ WF_vars(FinishHandoverReversal(q))
    /\ WF_vars(FinishCollectionReversal(q))

FairSpec == Spec /\ Fairness

-----------------------------------------------------------------------------
Operations == {"hand over", "accept", "reverse handover", "reverse collection"}

\* The tables keep their shape, a payment follows its collection, and no
\* document is allocated beyond its amount.
TypeOK ==
  /\ tripOpen \in BOOLEAN
  /\ collections \in [Collections -> [method : Methods \union {"none"},
                                      received : Received \union {0}, reversed : BOOLEAN]]
  /\ payments \in [Collections -> {"none", "posted", "reversed"}]
  /\ \A i \in DOMAIN allocations :
       /\ allocations[i].payment \in Collections /\ allocations[i].receivable \in Collections
       /\ allocations[i].amount \in Nat \ {0} /\ allocations[i].reversed \in BOOLEAN
  /\ \A c \in Collections : Unallocated(c) >= 0 /\ Owed(c) >= 0
  /\ \A h \in Handovers :
       /\ handovers[h].lines \in Sheets \union {NoLines}
       /\ handovers[h].reversed \in BOOLEAN
  /\ acceptances \in [Handovers -> {"none", "active", "reversed"}]
  /\ \A q \in Requests : requests[q] = Idle \/ requests[q].op \in Operations

\* The driver hands over no more of a collection than was received, however
\* handovers of one trip are sent together, reversed and sent again.
HandedOverWithinReceived ==
  \A c \in Collections : HandedOverAmount(c) <= collections[c].received

\* A collection that was reversed leaves nothing behind: its payment is
\* reversed and settles no receivable, also when accounting works on the
\* payment while the reversal runs.
ReversedCollectionSettlesNothing ==
  \A c \in Collections :
    collections[c].reversed => payments[c] # "posted" /\ RowsOf(c) = {}

\* When the reversal of a collection commits, no handover of it stands.
UnwoundInOrder ==
  [][\A c \in Collections :
       collections'[c].reversed /\ ~collections[c].reversed => LinesOf(c) = {}]_vars

\* A request comes to an end, also one that waits for the rows of a collection
\* under reversal.
RequestsEnd == \A q \in Requests : requests[q] # Idle ~> requests[q] = Idle

\* phase-6f0-receivable-payment-cod-decisions.md:222: a collection must not be
\* handed over more than once or beyond what the driver holds.  A handover
\* counts while it stands or its cash is accepted, and a driver holds nothing
\* of a reversed collection.
HandedOverWithinCustody ==
  \A c \in Collections :
    LET counted == {h \in Handovers : /\ c \in DOMAIN handovers[h].lines
                                      /\ Standing(h) \/ acceptances[h] = "active"}
    IN SumFunctionOnSet([h \in counted |-> handovers[h].lines[c]], counted)
         <= IF collections[c].reversed THEN 0 ELSE collections[c].received
=============================================================================
