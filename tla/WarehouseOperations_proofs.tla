----------------------- MODULE WarehouseOperations_proofs -----------------------
(***************************************************************************)
(* The documents of the warehouse and the ledger they share, for every     *)
(* number of documents, scopes and movements.  Every movement that a       *)
(* document names was posted by it and is named by no other, so a posting  *)
(* or a reversal changes what the ledger says of one document only; each   *)
(* part then adds up by itself, whatever the others do in between.         *)
(***************************************************************************)
EXTENDS WarehouseOperations, Stocktake_proofs, Sums

\* WarehouseStock with what is proved of it.
Ledger == INSTANCE WarehouseStock_proofs

-----------------------------------------------------------------------------
(* Who posted a movement.                                                  *)

\* A part of the warehouse, one of its documents, and the movement it posted.
TransferClaims ==
  {<<1, t, transfers[t].movement>> : t \in DOMAIN transfers}
    \union {<<2, r, transferReceipts[r].movement>> : r \in DOMAIN transferReceipts}
StocktakeClaims == {<<3, s, stocktakes[s].movement>> : s \in DOMAIN stocktakes}
PurchaseClaims ==
  {<<4, g, goodsReceipts[g].movement>> : g \in DOMAIN goodsReceipts}
    \union {<<5, v, supplierReturns[v].movement>> : v \in DOMAIN supplierReturns}
DirectClaims ==
  {<<6, i, directIssues[i].movement>> : i \in DOMAIN directIssues}
    \union {<<7, r, manualReturns[r].movement>> : r \in DOMAIN manualReturns}

Claims == TransferClaims \union StocktakeClaims \union PurchaseClaims \union DirectClaims

\* Documents name movements that the ledger has; 0 stands for none.
ClaimsArePosted ==
  \A c \in Claims : c[3] # 0 => c[3] \in DOMAIN movements /\ movements[c[3]].reversalOf = 0

OneOwner == \A c, d \in Claims : c[3] = d[3] /\ c[3] # 0 => c = d

Bounded == Len(movements) <= MaxMovements /\ Len(reservations) <= MaxReservations

-----------------------------------------------------------------------------
(* What each part knows of its documents and of the ledger.                *)

\* What a movement and the reversals of it leave, in a table of movements.
RowsIn(ms, t) == {m \in DOMAIN t : m \in ms \/ t[m].reversalOf \in ms}
NetIn(ms, t, l) == SumFunctionOnSet([m \in RowsIn(ms, t) |-> t[m].delta[l]], RowsIn(ms, t))

\* The receipts of a transfer, and what the ledger says of all of it.
StandingIn(t, rs) == {r \in DOMAIN rs : rs[r].of = t /\ ~rs[r].reversed}
AcceptedIn(t, rs) == SumFunctionOnSet([r \in StandingIn(t, rs) |-> rs[r].accepted], StandingIn(t, rs))
DamagedIn(t, rs) == SumFunctionOnSet([r \in StandingIn(t, rs) |-> rs[r].damaged], StandingIn(t, rs))

MovesIn(t, ts, rs) ==
  ({ts[t].movement} \union {rs[r].movement : r \in {s \in DOMAIN rs : rs[s].of = t}}) \ {0}

\* The quantity q has left the source; a is in the destination, d damaged, s short.
Balances(q, source, destination, a, d, s) ==
  /\ source = -q
  /\ destination = a
  /\ a + d + s <= q
  /\ s # 0 => a + d + s = q

TransferAddsUp(t) ==
  IF transfers[t].status = "dispatched"
  THEN /\ transfers[t].movement # 0
       /\ Balances(transfers[t].quantity,
                   NetIn(MovesIn(t, transfers, transferReceipts), movements, Source),
                   NetIn(MovesIn(t, transfers, transferReceipts), movements, Destination),
                   AcceptedIn(t, transferReceipts), DamagedIn(t, transferReceipts), shortages[t])
  ELSE transfers[t].movement = 0 /\ shortages[t] = 0

\* A receipt has a dispatched transfer behind it, and posted what it accepted.
ReceiptStands(r) ==
  LET row == transferReceipts[r] IN
  /\ Dispatched(row.of)
  /\ row.movement = 0 => row.accepted = 0
  /\ row.movement # 0 => movements[row.movement].delta = OneLine(Destination, row.accepted)

TransfersInv ==
  /\ TransfersTypeOK
  /\ \A r \in DOMAIN transferReceipts : ReceiptStands(r)
  /\ \A t \in DOMAIN transfers : TransferAddsUp(t)

\* Nobody else reverses the movement of a posted stocktake.
CountsStand ==
  \A s \in DOMAIN stocktakes :
    stocktakes[s].status = "posted" =>
      \A m \in DOMAIN movements :
        stocktakes[s].movement # 0 => movements[m].reversalOf # stocktakes[s].movement

\* The rows of purchasing.
ReceiptRows ==
  [status : {"draft", "posted", "reversed"}, accepted : [OrderLines -> Nat],
   finalised : SUBSET OrderLines, closed : [OrderLines -> Nat], movement : Nat]
ReturnRows ==
  [status : ActiveReturns \union {"draft", "cancelled", "reversed"}, of : Nat,
   lines : [OrderLines -> Nat], movement : Nat]
PaymentRows == [amount : Nat \ {0}, reversed : BOOLEAN]

PurchasingTyped ==
  /\ PurchasingTypeOK
  /\ goodsReceipts \in Seq(ReceiptRows)
  /\ supplierReturns \in Seq(ReturnRows)
  /\ payments \in Seq(PaymentRows)
  /\ IsFiniteSet(allocations)

\* A posted document has posted its lines, or had none.
ReceiptIsPosted(row, t) ==
  /\ row.status = "draft" => row.movement = 0
  /\ row.status = "posted" /\ row.movement = 0 => \A l \in OrderLines : row.accepted[l] = 0
  /\ row.movement # 0 => t[row.movement].delta = AtScopes(row.accepted, 1)
ReturnIsPosted(row, t) ==
  /\ row.status = "posted" <=> row.movement # 0 /\ row.status # "reversed"
  /\ row.movement # 0 => t[row.movement].delta = AtScopes(row.lines, -1)
PurchasesArePosted ==
  /\ \A g \in DOMAIN goodsReceipts : ReceiptIsPosted(goodsReceipts[g], movements)
  /\ \A v \in DOMAIN supplierReturns : ReturnIsPosted(supplierReturns[v], movements)

PurchasingInv ==
  /\ PurchasingTyped
  /\ PurchasesArePosted
  /\ PurchaseAddsUp
  /\ ReturnsAreCovered
  /\ PayablesAreCovered

\* The issues of a version of an order, what came back of issues, and what the
\* ledger has of them.
CurrentIn(o, version, is) == {i \in DOMAIN is : is[i].order = o /\ is[i].version = version}
ReturnsIn(S, rs) == {r \in DOMAIN rs : rs[r].issue \in S}
CameBackIn(S, rs) == SumFunctionOnSet([r \in ReturnsIn(S, rs) |-> rs[r].quantity], ReturnsIn(S, rs))
IssueMoves(S, is, rs) ==
  {is[i].movement : i \in S} \union {rs[r].movement : r \in ReturnsIn(S, rs)}
StandingManual(o, is, t) ==
  {i \in DOMAIN is : /\ is[i].order = o /\ is[i].lane = "MANUAL"
                     /\ \A m \in DOMAIN t : t[m].reversalOf # is[i].movement}

\* An order that counts as issued was issued once in this version, in its lane;
\* back came back of that, net is what the ledger says of it, and no other issue
\* by hand stands.
OrderSays(row, current, is, back, net, standing) ==
  /\ row.status = "confirmed" /\ ~row.issued => current = {}
  /\ row.status = "closed" => row.issued /\ row.billed = row.quantity - back
  /\ row.status # "closed" => row.billed = 0
  /\ row.issued => /\ \E i \in DOMAIN is : current = {i} /\ is[i].lane = row.lane
                   /\ back <= row.quantity
                   /\ -net = row.quantity - back
  /\ \A i \in standing : row.issued /\ i \in current

CurrentOf(o) == CurrentIn(o, directOrders[o].version, directIssues)
OrderAddsUp(o) ==
  OrderSays(directOrders[o], CurrentOf(o), directIssues, CameBackIn(CurrentOf(o), manualReturns),
            NetIn(IssueMoves(CurrentOf(o), directIssues, manualReturns), movements, DirectScope),
            StandingManual(o, directIssues, movements))

DirectSalesInv ==
  /\ DirectSalesTypeOK
  /\ \A i \in DOMAIN directIssues :
       /\ directIssues[i].order \in DOMAIN directOrders
       /\ directIssues[i].version <= directOrders[directIssues[i].order].version
       /\ directIssues[i].movement # 0
  /\ \A r \in DOMAIN manualReturns :
       /\ manualReturns[r].issue \in DOMAIN directIssues
       /\ directIssues[manualReturns[r].issue].lane = "MANUAL"
       /\ manualReturns[r].movement # 0
  /\ \A o \in DOMAIN directOrders : OrderAddsUp(o)

OpsInv ==
  /\ Ledger!IInv
  /\ Bounded
  /\ ClaimsArePosted
  /\ OneOwner
  /\ TransfersInv
  /\ StocktakesTypeOK /\ SnapshotsStand /\ CountsStand
  /\ PurchasingInv
  /\ DirectSalesInv


-----------------------------------------------------------------------------
(* The ledger under the documents.                                         *)

\* Rows are whole, and a reversal comes after what it reverses.
WholeLedger(t) == t \in Seq(Stock!Movements) /\ \A m \in DOMAIN t : t[m].reversalOf < m

\* The step appends the movement mv.
Grows(mv) ==
  /\ mv \in Stock!Movements
  /\ mv.reversalOf \in 0..Len(movements)
  /\ movements' = Append(movements, mv)

\* The step may append a movement, but reverses none of those in ms.
Untouched(ms) ==
  movements' = movements \/ \E mv : Grows(mv) /\ mv.reversalOf \notin ms

\* What a step may do to the stock: a document posts lines or reverses the movement
\* it posted, or a reservation is made or ends.
LedgerMoves ==
  \/ UNCHANGED stockVars
  \/ \E delta \in [Locations -> Int] : PostMovement(delta)
  \/ \E m \in DOMAIN movements : ReverseMovement(m)
  \/ Reserve
  \/ EndReservation

\* What the ledger and its claims need of a step, and what the step gives back.
LedgerBase == Ledger!IInv /\ Bounded /\ ClaimsArePosted /\ OneOwner
LedgerKept == Ledger!IInv' /\ Bounded' /\ LedgerStep /\ LedgerMoves

\* The columns of a movement.
LEMMA MovementColumns ==
  ASSUME NEW mv \in Stock!Movements
  PROVE  /\ mv.reversalOf \in Nat /\ mv.delta \in [Locations -> Int]
         /\ \A l \in Locations : mv.delta[l] \in Int
  BY DEF Stock!Movements

\* The constants of the ledger are those of the documents.
LEMMA LedgerConstants == Ledger!StockAssumption /\ Ledger!LocationsAssumption
<1>1. Ledger!StockAssumption
  BY DocumentStockAssumption DEF Ledger!StockAssumption, Stock!StockAssumption
<1>2. Ledger!LocationsAssumption
  BY DocumentStockAssumption
     DEF Ledger!LocationsAssumption, Stock!LocationsAssumption, Ledger!IsFiniteSet,
         Stock!IsFiniteSet
<1> QED
  BY <1>1, <1>2

\* The invariant of the ledger gives its types and unique reversals.
LEMMA LedgerIsWhole ==
  ASSUME Ledger!IInv
  PROVE  Stock!TypeOK /\ WholeLedger(movements)
<1>1. Stock!TypeOK
  BY DEF Ledger!IInv, Ledger!TypeOK, Stock!TypeOK, Ledger!Movements, Stock!Movements,
         Ledger!Reservations, Stock!Reservations, Ledger!TerminalStates, Stock!TerminalStates
<1>2. movements \in Seq(Stock!Movements)
  BY <1>1 DEF Stock!TypeOK
<1>3. ASSUME NEW m \in DOMAIN movements PROVE movements[m].reversalOf < m
  <2>1. m \in Nat \ {0} /\ movements[m] \in Stock!Movements
    BY <1>2
  <2>2. movements[m].reversalOf # 0 => movements[m].reversalOf < m
    BY DEF Ledger!IInv, Ledger!ReversedOnce
  <2>3. movements[m].reversalOf \in Nat
    BY <2>1, MovementColumns
  <2> QED
    BY <2>1, <2>2, <2>3
<1> QED
  BY <1>1, <1>2, <1>3 DEF WholeLedger

\* The rows of a table and of the one with a movement more.
LEMMA LedgerRows ==
  ASSUME NEW t, WholeLedger(t)
  PROVE  /\ Len(t) \in Nat /\ DOMAIN t = 1..Len(t) /\ IsFiniteSet(DOMAIN t)
         /\ Len(t) + 1 \notin DOMAIN t /\ 0 \notin DOMAIN t
         /\ \A m \in DOMAIN t : /\ m \in Nat /\ m <= Len(t)
                                /\ t[m] \in Stock!Movements
                                /\ t[m].reversalOf \in 0..Len(t)
         /\ \A mv \in Stock!Movements :
              /\ DOMAIN Append(t, mv) = DOMAIN t \union {Len(t) + 1}
              /\ \A m \in DOMAIN t : Append(t, mv)[m] = t[m]
              /\ Append(t, mv)[Len(t) + 1] = mv
<1>1. t \in Seq(Stock!Movements) /\ Len(t) \in Nat /\ DOMAIN t = 1..Len(t)
  BY DEF WholeLedger
<1>2. IsFiniteSet(1..Len(t))
  BY <1>1, FS_Interval
<1>3. ASSUME NEW m \in DOMAIN t
      PROVE  /\ m \in Nat /\ m <= Len(t) /\ t[m] \in Stock!Movements
             /\ t[m].reversalOf \in 0..Len(t)
  <2>1. m \in Nat /\ m <= Len(t) /\ t[m] \in Stock!Movements
    BY <1>1
  <2>2. t[m].reversalOf \in Nat /\ t[m].reversalOf < m
    BY <2>1, MovementColumns DEF WholeLedger
  <2> QED
    BY <1>1, <2>1, <2>2
<1>4. ASSUME NEW mv \in Stock!Movements
      PROVE  /\ DOMAIN Append(t, mv) = DOMAIN t \union {Len(t) + 1}
             /\ \A m \in DOMAIN t : Append(t, mv)[m] = t[m]
             /\ Append(t, mv)[Len(t) + 1] = mv
  <2>1. /\ DOMAIN Append(t, mv) = 1..(Len(t) + 1)
        /\ \A m \in 1..Len(t) : Append(t, mv)[m] = t[m]
        /\ Append(t, mv)[Len(t) + 1] = mv
    BY <1>1
  <2>2. 1..(Len(t) + 1) = (1..Len(t)) \union {Len(t) + 1}
    BY <1>1
  <2> QED
    BY <1>1, <2>1, <2>2
<1>5. Len(t) + 1 \notin DOMAIN t /\ 0 \notin DOMAIN t
  BY <1>1
<1> QED
  BY <1>1, <1>2, <1>3, <1>4, <1>5

\* A step that posts or reverses keeps what is proved of the ledger.
LEMMA PostingKeepsLedger ==
  ASSUME Ledger!IInv, NEW delta \in [Locations -> Int], NEW m \in Nat,
         Stock!PostLines(delta, m),
         m # 0 => /\ m \in DOMAIN movements /\ Stock!Reversible(m)
                  /\ delta = Stock!Opposite(movements[m].delta)
  PROVE  /\ Ledger!IInv' /\ LedgerStep /\ Len(movements') <= MaxMovements
         /\ UNCHANGED reservations
         /\ Grows([delta |-> delta, reversalOf |-> m])
         /\ LedgerMoves
<1>1. Ledger!PostLines(delta, m)
  BY DEF Ledger!PostLines, Stock!PostLines, Ledger!MayPost, Stock!MayPost, Ledger!Posted, Stock!Posted
<1>2. m # 0 => m \in DOMAIN movements /\ Ledger!Reversible(m)
  BY DEF Ledger!Reversible, Stock!Reversible
<1>3. Ledger!IInv'
  BY <1>1, <1>2, LedgerConstants, Ledger!PostLinesStep
<1>4. LedgerTyped /\ WholeLedger(movements)
  BY LedgerIsWhole DEF LedgerTyped
<1>5. LedgerStep
  BY <1>4, PostLinesStep
<1> DEFINE mv == [delta |-> delta, reversalOf |-> m]
<1>6. mv \in Stock!Movements /\ mv.reversalOf = m
  BY DEF Stock!Movements
<1>7. movements' = Append(movements, mv) /\ Len(movements) < MaxMovements /\ UNCHANGED reservations
  BY DEF Stock!PostLines
<1>8. /\ Len(movements) \in Nat /\ MaxMovements \in Nat
      /\ m \in DOMAIN movements => m <= Len(movements)
  BY <1>4, LedgerRows, DocumentStockAssumption DEF Stock!StockAssumption
<1>9. Len(movements') = Len(movements) + 1
  BY <1>4, <1>6, <1>7 DEF WholeLedger
<1>10. Grows(mv)
  BY <1>6, <1>7, <1>8 DEF Grows
<1>11. LedgerMoves
  <2>1. m = 0 => PostMovement(delta)
    BY DEF PostMovement
  <2>2. m # 0 => m \in DOMAIN movements /\ ReverseMovement(m)
    BY DEF ReverseMovement, Stock!Reverse
  <2> QED
    BY <2>1, <2>2 DEF LedgerMoves
<1> HIDE DEF mv
<1> QED
  BY <1>3, <1>5, <1>7, <1>8, <1>9, <1>10, <1>11 DEF mv

\* A document that reverses the movement m posts its lines with the sign turned.
LEMMA ReversalKeepsLedger ==
  ASSUME Ledger!IInv, NEW m, ReverseMovement(m)
  PROVE  /\ Ledger!IInv' /\ LedgerStep /\ Len(movements') <= MaxMovements
         /\ UNCHANGED reservations
         /\ m \in DOMAIN movements
         /\ Grows([delta |-> Stock!Opposite(movements[m].delta), reversalOf |-> m])
         /\ LedgerMoves
<1>1. /\ m \in DOMAIN movements /\ Stock!Reversible(m)
      /\ Stock!PostLines(Stock!Opposite(movements[m].delta), m)
  BY DEF ReverseMovement, Stock!Reverse
<1>2. m \in Nat /\ movements[m] \in Stock!Movements
  BY <1>1, LedgerIsWhole, LedgerRows
<1>3. Stock!Opposite(movements[m].delta) \in [Locations -> Int]
  BY <1>2, MovementColumns DEF Stock!Opposite
<1> QED
  BY <1>1, <1>2, <1>3, PostingKeepsLedger

\* A document that posts lines of its own.
LEMMA MovementKeepsLedger ==
  ASSUME Ledger!IInv, NEW delta \in [Locations -> Int], PostMovement(delta)
  PROVE  /\ Ledger!IInv' /\ LedgerStep /\ Len(movements') <= MaxMovements
         /\ UNCHANGED reservations
         /\ Grows([delta |-> delta, reversalOf |-> 0])
         /\ LedgerMoves
  BY PostingKeepsLedger DEF PostMovement

\* Other documents and reservations reverse nothing.
LEMMA StockKeepsLedger ==
  ASSUME Ledger!IInv, Bounded, StockNext
  PROVE  /\ LedgerKept
         /\ \/ movements' = movements
            \/ \E mv : Grows(mv) /\ mv.reversalOf = 0
<1>0. LedgerMoves
  <2>1. OtherDocument => \E delta \in [Locations -> Int] : PostMovement(delta)
    BY DocumentStockAssumption DEF OtherDocument, Stock!StockAssumption
  <2> QED
    BY <2>1 DEF StockNext, LedgerMoves
<1>1. LedgerTyped /\ LedgerStep
  BY LedgerIsWhole, OtherStep DEF LedgerTyped
<1>2. /\ Len(movements) \in Nat /\ MaxMovements \in Nat /\ MaxReservations \in Nat
      /\ reservations \in Seq(Stock!Reservations) /\ Len(reservations) \in Nat
  <2>1. reservations \in Seq(Stock!Reservations)
    BY <1>1 DEF LedgerTyped, Stock!TypeOK
  <2> QED
    BY <2>1, LedgerIsWhole, LedgerRows, DocumentStockAssumption DEF Stock!StockAssumption
<1>3. CASE OtherDocument
  <2>1. PICK delta \in OtherPostings : PostMovement(delta)
    BY <1>3 DEF OtherDocument
  <2>2. delta \in [Locations -> Int]
    BY DocumentStockAssumption DEF Stock!StockAssumption
  <2>3. /\ Ledger!IInv' /\ Len(movements') <= MaxMovements
        /\ Grows([delta |-> delta, reversalOf |-> 0]) /\ UNCHANGED reservations
    BY <2>1, <2>2, MovementKeepsLedger
  <2> QED
    BY <1>1, <2>3, <1>0 DEF Bounded, LedgerKept
<1>4. CASE Reserve
  <2>1. PICK l \in Locations, q \in Quantities : Stock!Reserve(l, q)
    BY <1>4 DEF Reserve
  <2>2. Ledger!Reserve(l, q)
    BY <2>1 DEF Ledger!Reserve, Stock!Reserve, Ledger!MayReserve, Stock!MayReserve,
                Ledger!Held, Stock!Held, Ledger!Total, Stock!Total,
                Ledger!SumFunctionOnSet, Stock!SumFunctionOnSet,
                Ledger!FoldFunctionOnSet, Stock!FoldFunctionOnSet,
                Ledger!MapThenFoldSet, Stock!MapThenFoldSet
  <2>3. Ledger!IInv'
    BY <2>2, LedgerConstants, Ledger!ReserveStep
  <2>4. PICK row : row = [location |-> l, quantity |-> q, state |-> "ACTIVE"]
    OBVIOUS
  <2>5. /\ Len(reservations) < MaxReservations /\ movements' = movements
        /\ reservations' = Append(reservations, row)
    BY <2>1, <2>4 DEF Stock!Reserve
  <2>6. Len(reservations') = Len(reservations) + 1
    BY <1>2, <2>5
  <2>7. Bounded'
    BY <1>2, <2>5, <2>6 DEF Bounded
  <2> QED
    BY <1>1, <2>3, <2>5, <2>7, <1>0 DEF LedgerKept
<1>5. CASE EndReservation
  <2>1. PICK r \in DOMAIN reservations : Stock!Transition(r, "RELEASED")
    BY <1>5 DEF EndReservation
  <2>2. Ledger!Transition(r, "RELEASED") /\ "RELEASED" \in Ledger!TerminalStates
    BY <2>1 DEF Ledger!Transition, Stock!Transition, Ledger!MayFree, Stock!MayFree,
                Ledger!Freed, Stock!Freed, Ledger!TerminalStates
  <2>3. Ledger!IInv'
    BY <2>2, LedgerConstants, Ledger!TransitionStep
  <2>4. /\ movements' = movements
        /\ reservations' = [reservations EXCEPT ![r].state = "RELEASED"]
    BY <2>1 DEF Stock!Transition
  <2>5. Len(reservations') = Len(reservations)
    BY <1>2, <2>4
  <2> QED
    BY <1>1, <2>3, <2>4, <2>5, <1>0 DEF Bounded, LedgerKept
<1> QED
  BY <1>3, <1>4, <1>5 DEF StockNext

\* A step that leaves the stock alone.
LEMMA StillKeepsLedger ==
  ASSUME Ledger!IInv, Bounded, UNCHANGED stockVars
  PROVE  LedgerKept /\ movements' = movements
<1>1. [Ledger!Next]_(Ledger!vars)
  BY DEF stockVars, Ledger!vars
<1>2. Ledger!IInv'
  BY <1>1, LedgerConstants, Ledger!InvStep
<1> QED
  BY <1>2 DEF stockVars, Bounded, LedgerStep, LedgerKept, LedgerMoves

-----------------------------------------------------------------------------
(* What a step of the ledger does to the sums of a document.               *)

\* The movements of a document and the reversals of them.
LEMMA NetIsInt ==
  ASSUME NEW t, WholeLedger(t), NEW ms, NEW l \in Locations
  PROVE  /\ NetIn(ms, t, l) \in Int
         /\ IsFiniteSet(RowsIn(ms, t))
         /\ \A m \in RowsIn(ms, t) : t[m].delta[l] \in Int
<1>1. RowsIn(ms, t) \subseteq DOMAIN t /\ IsFiniteSet(RowsIn(ms, t))
  BY LedgerRows, FS_Subset DEF RowsIn
<1>2. \A m \in RowsIn(ms, t) : t[m].delta[l] \in Int
  BY <1>1, LedgerRows, MovementColumns
<1> DEFINE f == [m \in RowsIn(ms, t) |-> t[m].delta[l]]
<1>3. \A m \in RowsIn(ms, t) : f[m] \in Int
  BY <1>2
<1>4. SumFunctionOnSet(f, RowsIn(ms, t)) \in Int
  <2> HIDE DEF f
  <2> QED
    BY <1>1, <1>3, SumType
<1> QED
  BY <1>1, <1>2, <1>4 DEF NetIn

\* ns are the movements ms, or those and n.
SameOrMore(ms, n, ns) == ns = ms \/ ns = ms \union {n}

\* A movement is of a document when it names it or reverses one it names.
LEMMA NetAfter ==
  ASSUME NEW t, WholeLedger(t), NEW mv \in Stock!Movements, mv.reversalOf \in 0..Len(t),
         NEW ms, ms \subseteq DOMAIN t,
         NEW ns, SameOrMore(ms, Len(t) + 1, ns), NEW l \in Locations
  PROVE  NetIn(ns, Append(t, mv), l)
           = IF Len(t) + 1 \in ns \/ mv.reversalOf \in ms THEN NetIn(ms, t, l) + mv.delta[l]
             ELSE NetIn(ms, t, l)
<1> DEFINE n == Len(t) + 1
           t1 == Append(t, mv)
           R == RowsIn(ms, t)
           R1 == RowsIn(ns, t1)
           f == [m \in R |-> t[m].delta[l]]
           g == [m \in R1 |-> t1[m].delta[l]]
<1>1. /\ Len(t) \in Nat /\ n \notin DOMAIN t /\ 0 \notin DOMAIN t
      /\ \A m \in DOMAIN t : m <= Len(t) /\ m # n /\ t[m].reversalOf # n
      /\ mv.reversalOf # n
  <2>1. \A m \in DOMAIN t : m \in Nat /\ m <= Len(t) /\ t[m].reversalOf \in 0..Len(t)
    BY LedgerRows
  <2>2. Len(t) \in Nat
    BY LedgerRows
  <2> QED
    BY <2>1, <2>2, LedgerRows
<1>2. DOMAIN t1 = DOMAIN t \union {n} /\ t1[n] = mv /\ \A m \in DOMAIN t : t1[m] = t[m]
  BY LedgerRows
<1>3. R1 = IF n \in ns \/ mv.reversalOf \in ms THEN R \union {n} ELSE R
  <2> HIDE DEF n, t1
  <2> QED
    BY <1>1, <1>2 DEF RowsIn, SameOrMore, n
<1>4. IsFiniteSet(R) /\ (\A m \in R : t[m].delta[l] \in Int) /\ R \subseteq DOMAIN t
  BY NetIsInt DEF RowsIn
<1>5. \A m \in R : f[m] \in Int /\ g[m] = f[m]
  <2>1. \A m \in R : f[m] = t[m].delta[l] /\ f[m] \in Int
    BY <1>4
  <2>2. ASSUME NEW m \in R PROVE g[m] = t[m].delta[l]
    <3>1. m \in R1 /\ t1[m] = t[m]
      BY <1>2, <1>3, <1>4
    <3> HIDE DEF R, R1, t1
    <3> QED
      BY <3>1
  <2> HIDE DEF R, f, g
  <2> QED
    BY <2>1, <2>2
<1>6. NetIn(ms, t, l) = SumFunctionOnSet(f, R) /\ NetIn(ns, t1, l) = SumFunctionOnSet(g, R1)
  BY DEF NetIn
<1>7. CASE Len(t) + 1 \in ns \/ mv.reversalOf \in ms
  <2>1. R1 = R \union {n} /\ n \notin R
    BY <1>1, <1>3, <1>4, <1>7
  <2>2. g[n] = mv.delta[l] /\ mv.delta[l] \in Int
    <3>1. n \in R1 /\ t1[n].delta[l] = mv.delta[l]
      BY <1>2, <2>1
    <3>2. g[n] = t1[n].delta[l]
      <4> HIDE DEF R1, t1, n
      <4> QED
        BY <3>1
    <3> QED
      BY <3>1, <3>2, MovementColumns
  <2> HIDE DEF R, R1, f, g, n, t1
  <2>3. SumFunctionOnSet(g, R \union {n}) = SumFunctionOnSet(f, R) + g[n]
    BY <1>4, <1>5, <2>1, <2>2, SumExtend
  <2> QED
    BY <1>6, <1>7, <2>1, <2>2, <2>3 DEF t1, n
<1>8. CASE ~(Len(t) + 1 \in ns \/ mv.reversalOf \in ms)
  <2>1. R1 = R
    BY <1>3, <1>8
  <2> HIDE DEF R, R1, f, g, n, t1
  <2>2. SumFunctionOnSet(f, R) = SumFunctionOnSet(g, R)
    BY <1>4, <1>5, SumCongruence
  <2> QED
    BY <1>6, <1>8, <2>1, <2>2 DEF n, t1
<1> QED
  BY <1>7, <1>8

\* A step that does not touch the movements ms leaves what they add up to.
LEMMA NetUntouched ==
  ASSUME WholeLedger(movements), NEW ms, ms \subseteq DOMAIN movements, Untouched(ms)
  PROVE  /\ \A l \in Locations : NetIn(ms, movements', l) = NetIn(ms, movements, l)
         /\ \A m \in DOMAIN movements : m \in DOMAIN movements' /\ movements'[m] = movements[m]
<1>1. CASE movements' = movements
  BY <1>1
<1>2. CASE \E mv : Grows(mv) /\ mv.reversalOf \notin ms
  <2>1. PICK mv : Grows(mv) /\ mv.reversalOf \notin ms
    BY <1>2
  <2>2. /\ mv \in Stock!Movements /\ mv.reversalOf \in 0..Len(movements)
        /\ movements' = Append(movements, mv)
    BY <2>1 DEF Grows
  <2>3. ASSUME NEW l \in Locations
        PROVE  NetIn(ms, movements', l) = NetIn(ms, movements, l)
    <3>1. NetIn(ms, Append(movements, mv), l)
            = IF Len(movements) + 1 \in ms \/ mv.reversalOf \in ms
              THEN NetIn(ms, movements, l) + mv.delta[l] ELSE NetIn(ms, movements, l)
      <4>1. SameOrMore(ms, Len(movements) + 1, ms)
        BY DEF SameOrMore
      <4> QED
        BY <2>2, <4>1, NetAfter
    <3>2. Len(movements) + 1 \notin ms
      BY LedgerRows
    <3> QED
      BY <2>1, <2>2, <3>1, <3>2
  <2> QED
    BY <2>2, <2>3, LedgerRows
<1> QED
  BY <1>1, <1>2 DEF Untouched

-----------------------------------------------------------------------------
(* Who posted a movement, across a step.                                   *)

MovesOf(cs) == {c[3] : c \in cs} \ {0}

\* Every claim of a movement is an earlier one.
Kept(cs, cs1) == \A c \in cs1 : c[3] # 0 => c \in cs

\* Documents whose claims were cs, and are cs1 now, took a step: it posts
\* nothing, or a movement that one of them claims, or reverses one of theirs.
PartStep(cs, cs1) ==
  \/ movements' = movements /\ Kept(cs, cs1)
  \/ \E mv, new : /\ Grows(mv) /\ mv.reversalOf = 0
                  /\ new[3] = Len(movements) + 1
                  /\ \A c \in cs1 : c[3] # 0 => c \in cs \/ c = new
  \/ \E mv : /\ Grows(mv) /\ mv.reversalOf \in MovesOf(cs)
             /\ Kept(cs, cs1)

\* A step of one part is a step of the parts together.
LEMMA WiderStep ==
  ASSUME NEW cs, NEW cs1, NEW ds, PartStep(cs, cs1)
  PROVE  PartStep(cs \union ds, cs1 \union ds)
<1>1. Kept(cs, cs1) => Kept(cs \union ds, cs1 \union ds)
  BY DEF Kept
<1>2. MovesOf(cs) \subseteq MovesOf(cs \union ds)
  BY DEF MovesOf
<1> QED
  BY <1>1, <1>2 DEF PartStep

\* No two documents claim a movement, and claims are of movements that were
\* posted and reverse nothing.
LEMMA ClaimsHold ==
  ASSUME WholeLedger(movements), ClaimsArePosted, OneOwner, PartStep(Claims, Claims')
  PROVE  ClaimsArePosted' /\ OneOwner'
<1>1. CASE movements' = movements /\ Kept(Claims, Claims')
  BY <1>1 DEF Kept, ClaimsArePosted, OneOwner
<1>2. ASSUME NEW mv, Grows(mv)
      PROVE  /\ \A c \in Claims : c[3] # 0 =>
                  /\ c[3] \in DOMAIN movements' /\ movements'[c[3]].reversalOf = 0
                  /\ c[3] # Len(movements) + 1
             /\ Len(movements) + 1 \in DOMAIN movements'
             /\ movements'[Len(movements) + 1] = mv
             /\ Len(movements) + 1 # 0
  <2>1. mv \in Stock!Movements /\ movements' = Append(movements, mv)
    BY <1>2 DEF Grows
  <2>2. Len(movements) \in Nat
    BY LedgerRows
  <2> QED
    BY <2>1, <2>2, LedgerRows DEF ClaimsArePosted
<1>3. CASE \E mv : Grows(mv) /\ Kept(Claims, Claims')
  BY <1>2, <1>3 DEF Kept, ClaimsArePosted, OneOwner
<1>4. CASE \E mv, new : /\ Grows(mv) /\ mv.reversalOf = 0
                        /\ new[3] = Len(movements) + 1
                        /\ \A c \in Claims' : c[3] # 0 => c \in Claims \/ c = new
  <2>1. PICK mv, new : /\ Grows(mv) /\ mv.reversalOf = 0
                       /\ new[3] = Len(movements) + 1
                       /\ \A c \in Claims' : c[3] # 0 => c \in Claims \/ c = new
    BY <1>4
  <2>2. /\ \A c \in Claims : c[3] # 0 =>
             /\ c[3] \in DOMAIN movements' /\ movements'[c[3]].reversalOf = 0
             /\ c[3] # Len(movements) + 1
        /\ Len(movements) + 1 \in DOMAIN movements'
        /\ movements'[Len(movements) + 1] = mv
    BY <1>2, <2>1
  <2>3. ClaimsArePosted'
    BY <2>1, <2>2 DEF ClaimsArePosted
  <2>4. OneOwner'
    BY <2>1, <2>2 DEF OneOwner
  <2> QED
    BY <2>3, <2>4
<1> QED
  BY <1>1, <1>3, <1>4 DEF PartStep

\* A step of some documents does not touch what the others posted.
LEMMA OthersUntouched ==
  ASSUME OneOwner, NEW cs, cs \subseteq Claims, NEW cs1, PartStep(cs, cs1),
         NEW ds, ds \subseteq Claims, cs \cap ds = {}
  PROVE  Untouched(MovesOf(ds))
<1>1. ASSUME NEW m, m \in MovesOf(cs) PROVE m \notin MovesOf(ds)
  BY <1>1 DEF MovesOf, OneOwner
<1>2. 0 \notin MovesOf(ds)
  BY DEF MovesOf
<1> QED
  BY <1>1, <1>2 DEF PartStep, Untouched

\* The documents of a part name movements of the ledger.
LEMMA ClaimedRows ==
  ASSUME ClaimsArePosted, NEW ds, ds \subseteq Claims
  PROVE  MovesOf(ds) \subseteq DOMAIN movements
  BY DEF ClaimsArePosted, MovesOf

\* The parts claim for themselves.
LEMMA PartsAreApart ==
  /\ TransferClaims \cap StocktakeClaims = {} /\ TransferClaims \cap PurchaseClaims = {}
  /\ TransferClaims \cap DirectClaims = {} /\ StocktakeClaims \cap PurchaseClaims = {}
  /\ StocktakeClaims \cap DirectClaims = {} /\ PurchaseClaims \cap DirectClaims = {}
  /\ TransferClaims \subseteq Claims /\ StocktakeClaims \subseteq Claims
  /\ PurchaseClaims \subseteq Claims /\ DirectClaims \subseteq Claims
<1>1. /\ \A c \in TransferClaims : c[1] \in {1, 2}
      /\ \A c \in StocktakeClaims : c[1] = 3
      /\ \A c \in PurchaseClaims : c[1] \in {4, 5}
      /\ \A c \in DirectClaims : c[1] \in {6, 7}
  BY DEF TransferClaims, StocktakeClaims, PurchaseClaims, DirectClaims
<1> QED
  BY <1>1 DEF Claims

-----------------------------------------------------------------------------
(* Stocktakes.  What they know of quantities and versions is Stocktake's   *)
(* own invariant.                                                          *)

\* A step that posts nothing, and starts and ends no posted count.
LEMMA QuietStocktakes ==
  ASSUME CountsStand, movements' = movements,
         \A s \in DOMAIN stocktakes' : stocktakes'[s].movement # 0 =>
           /\ s \in DOMAIN stocktakes
           /\ stocktakes'[s].movement = stocktakes[s].movement
           /\ stocktakes'[s].status = "posted" => stocktakes[s].status = "posted"
  PROVE  PartStep(StocktakeClaims, StocktakeClaims') /\ CountsStand'
<1>1. Kept(StocktakeClaims, StocktakeClaims')
  BY DEF Kept, StocktakeClaims
<1>2. CountsStand'
  BY DEF CountsStand
<1> QED
  BY <1>1, <1>2 DEF PartStep

\* A step that writes one row and posts nothing.
LEMMA QuietRow ==
  ASSUME CountsStand, StocktakesTypeOK, movements' = movements,
         NEW s \in DOMAIN stocktakes, NEW row,
         stocktakes' = [stocktakes EXCEPT ![s] = row],
         row.movement = stocktakes[s].movement,
         row.status = "posted" => stocktakes[s].status = "posted"
  PROVE  PartStep(StocktakeClaims, StocktakeClaims') /\ CountsStand'
<1>1. \A t \in DOMAIN stocktakes' :
        /\ t \in DOMAIN stocktakes
        /\ stocktakes'[t] = IF t = s THEN row ELSE stocktakes[t]
  BY DEF StocktakesTypeOK
<1>2. \A t \in DOMAIN stocktakes' :
        /\ t \in DOMAIN stocktakes
        /\ stocktakes'[t].movement = stocktakes[t].movement
        /\ stocktakes'[t].status = "posted" => stocktakes[t].status = "posted"
  BY <1>1
<1> QED
  BY <1>2, QuietStocktakes

\* The other actions of a stocktake write the row and leave the stock alone.
LEMMA QuietActions ==
  ASSUME CountsStand, StocktakesTypeOK, NEW s \in DOMAIN stocktakes,
         \/ \E counts \in Counts : CountStocktake(s, counts)
         \/ SubmitStocktake(s) \/ ApproveStocktake(s) \/ CancelStocktake(s)
         \/ RequestRecount(s)
  PROVE  PartStep(StocktakeClaims, StocktakeClaims') /\ CountsStand' /\ UNCHANGED stockVars
<1>1. PICK old \in StocktakeRows : old = stocktakes[s]
  BY DEF StocktakesTypeOK
<1>2. CASE \E counts \in Counts : CountStocktake(s, counts)
  <2>1. PICK counts \in Counts : CountStocktake(s, counts)
    BY <1>2
  <2>2. PICK row : row = [old EXCEPT !.status = "counted", !.counted = counts]
    OBVIOUS
  <2>3. row.movement = old.movement /\ row.status = "counted"
    BY <2>2 DEF StocktakeRows
  <2>4. stocktakes' = [stocktakes EXCEPT ![s] = row] /\ UNCHANGED stockVars
    BY <1>1, <2>1, <2>2 DEF CountStocktake
  <2>5. movements' = movements
    BY <2>4 DEF stockVars
  <2> QED
    BY <1>1, <2>3, <2>4, <2>5, QuietRow
<1>3. ASSUME NEW from, NEW to \in {"submitted", "approved", "cancelled"},
             Move(s, from, to), UNCHANGED stockVars
      PROVE  PartStep(StocktakeClaims, StocktakeClaims') /\ CountsStand'
  <2>1. PICK row : row = [old EXCEPT !.status = to]
    OBVIOUS
  <2>2. row.movement = old.movement /\ row.status = to /\ to # "posted"
    BY <2>1 DEF StocktakeRows
  <2>3. stocktakes' = [stocktakes EXCEPT ![s] = row]
    BY <1>1, <1>3, <2>1 DEF Move
  <2>4. movements' = movements
    BY <1>3 DEF stockVars
  <2> QED
    BY <1>1, <2>2, <2>3, <2>4, QuietRow
<1>4. CASE RequestRecount(s)
  <2>1. PICK row : row = [old EXCEPT !.status = "recount_required", !.round = old.round + 1,
                            !.expected = Quantity, !.version = Versions, !.counted = Uncounted]
    OBVIOUS
  <2>2. row.movement = old.movement /\ row.status = "recount_required"
    BY <2>1 DEF StocktakeRows
  <2>3. stocktakes' = [stocktakes EXCEPT ![s] = row] /\ UNCHANGED stockVars
    BY <1>1, <1>4, <2>1 DEF RequestRecount
  <2>4. movements' = movements
    BY <2>3 DEF stockVars
  <2> QED
    BY <1>1, <2>2, <2>3, <2>4, QuietRow
<1> QED
  BY <1>2, <1>3, <1>4 DEF SubmitStocktake, ApproveStocktake, CancelStocktake

\* A new stocktake posts nothing.
LEMMA CreateStocktakeActs ==
  ASSUME CountsStand, StocktakesTypeOK, CreateStocktake
  PROVE  PartStep(StocktakeClaims, StocktakeClaims') /\ CountsStand' /\ UNCHANGED stockVars
<1> DEFINE row == [status |-> "draft", round |-> 1, expected |-> Quantity, version |-> Versions,
                   counted |-> Uncounted, postedVersion |-> Uncounted, movement |-> 0]
<1>1. PICK new : new = row
  OBVIOUS
<1>2. new.movement = 0
  BY <1>1
<1> HIDE DEF row
<1>3. stocktakes' = Append(stocktakes, new) /\ UNCHANGED stockVars
  BY <1>1 DEF CreateStocktake, row
<1>4. \A s \in DOMAIN stocktakes' :
        \/ stocktakes'[s] = new
        \/ s \in DOMAIN stocktakes /\ stocktakes'[s] = stocktakes[s]
  BY <1>3 DEF StocktakesTypeOK
<1>5. movements' = movements
  BY <1>3 DEF stockVars
<1> QED
  BY <1>2, <1>3, <1>4, <1>5, QuietStocktakes

\* What posting or reversing a count does to the ledger.
LEMMA AdjustmentKeepsLedger ==
  ASSUME Ledger!IInv, Bounded, NEW delta \in [Locations -> Int], NEW m \in Nat,
         PostAdjustment(delta, m),
         m # 0 => /\ m \in DOMAIN movements /\ Stock!Reversible(m)
                  /\ delta = Stock!Opposite(movements[m].delta)
  PROVE  /\ LedgerKept
         /\ IF \A l \in Locations : delta[l] = 0 THEN movements' = movements
            ELSE Grows([delta |-> delta, reversalOf |-> m])
<1>1. CASE \A l \in Locations : delta[l] = 0
  <2>1. UNCHANGED stockVars
    BY <1>1 DEF PostAdjustment
  <2> QED
    BY <1>1, <2>1, StillKeepsLedger
<1>2. CASE ~ \A l \in Locations : delta[l] = 0
  <2>1. Stock!PostLines(delta, m)
    BY <1>2 DEF PostAdjustment
  <2> QED
    BY <1>2, <2>1, PostingKeepsLedger DEF Bounded, LedgerKept
<1> QED
  BY <1>1, <1>2

\* A stocktake posts one movement and claims it.
LEMMA PostStocktakeActs ==
  ASSUME Ledger!IInv, Bounded, ClaimsArePosted, CountsStand, StocktakesTypeOK,
         NEW s \in DOMAIN stocktakes, PostStocktake(s)
  PROVE  /\ LedgerKept
         /\ PartStep(StocktakeClaims, StocktakeClaims') /\ CountsStand'
<1>1. PICK old \in StocktakeRows : old = stocktakes[s]
  BY DEF StocktakesTypeOK
<1>2. PICK delta : delta = Adjustment(Quantity, stocktakes[s].counted)
  OBVIOUS
<1>3. delta \in [Locations -> Int]
  <2>1. onHand \in [Locations -> Nat]
    BY LedgerIsWhole DEF Stock!TypeOK
  <2>2. old.counted \in [CountedScopes -> Nat]
    BY DEF StocktakeRows
  <2> QED
    BY <1>1, <1>2, <2>1, <2>2, StocktakeAssumption DEF Adjustment, Quantity
<1>4. PostAdjustment(delta, 0)
  BY <1>2 DEF PostStocktake
<1>5. /\ LedgerKept
      /\ IF \A l \in Locations : delta[l] = 0 THEN movements' = movements
         ELSE Grows([delta |-> delta, reversalOf |-> 0])
  BY <1>3, <1>4, AdjustmentKeepsLedger
<1>6. PICK row : row = Posted(s)
  OBVIOUS
<1>7. row.movement = IF \A l \in Locations : delta[l] = 0 THEN 0 ELSE Len(movements) + 1
  BY <1>1, <1>2, <1>6 DEF Posted, NextMovement, StocktakeRows
<1>8. stocktakes' = [stocktakes EXCEPT ![s] = row]
  BY <1>6 DEF PostStocktake
<1>9. \A t \in DOMAIN stocktakes' :
        t \in DOMAIN stocktakes /\ stocktakes'[t] = IF t = s THEN row ELSE stocktakes[t]
  BY <1>8 DEF StocktakesTypeOK
<1>10. CASE \A l \in Locations : delta[l] = 0
  <2>1. movements' = movements /\ row.movement = 0
    BY <1>5, <1>7, <1>10
  <2> QED
    BY <1>5, <1>9, <2>1, QuietStocktakes
<1>11. CASE ~ \A l \in Locations : delta[l] = 0
  <2>1. PICK mv : mv = [delta |-> delta, reversalOf |-> 0]
    OBVIOUS
  <2>2. Grows(mv) /\ mv.reversalOf = 0 /\ row.movement = Len(movements) + 1
    BY <1>5, <1>7, <1>11, <2>1
  <2>3. \A c \in StocktakeClaims' :
          c[3] # 0 => c \in StocktakeClaims \/ c = <<3, s, Len(movements) + 1>>
    BY <1>9, <2>2 DEF StocktakeClaims
  <2>4. PartStep(StocktakeClaims, StocktakeClaims')
    <3>1. <<3, s, Len(movements) + 1>>[3] = Len(movements) + 1
      OBVIOUS
    <3> QED
      BY <2>2, <2>3, <3>1 DEF PartStep
  <2>5. \A m \in DOMAIN movements' :
          \/ m \in DOMAIN movements /\ movements'[m] = movements[m]
          \/ movements'[m].reversalOf = 0
    BY <2>2, LedgerIsWhole, LedgerRows DEF Grows
  <2>6. \A m \in DOMAIN movements : movements[m].reversalOf # Len(movements) + 1
    <3>1. \A m \in DOMAIN movements : movements[m].reversalOf \in 0..Len(movements)
      BY LedgerIsWhole, LedgerRows
    <3>2. Len(movements) \in Nat
      BY LedgerIsWhole, LedgerRows
    <3> QED
      BY <3>1, <3>2
  <2>7. CountsStand'
    BY <1>9, <2>2, <2>5, <2>6 DEF CountsStand
  <2> QED
    BY <1>5, <2>4, <2>7
<1> QED
  BY <1>10, <1>11

\* A stocktake reverses the movement it claims.
LEMMA ReverseStocktakeActs ==
  ASSUME Ledger!IInv, Bounded, ClaimsArePosted, OneOwner, CountsStand, StocktakesTypeOK,
         NEW s \in DOMAIN stocktakes, ReverseStocktake(s)
  PROVE  /\ LedgerKept
         /\ PartStep(StocktakeClaims, StocktakeClaims') /\ CountsStand'
<1>1. PICK old \in StocktakeRows : old = stocktakes[s]
  BY DEF StocktakesTypeOK
<1>2. old.movement \in Nat /\ old.status = "posted"
  BY <1>1 DEF StocktakeRows, ReverseStocktake
<1>3. old.movement # 0 => old.movement \in DOMAIN movements /\ Stock!Reversible(old.movement)
  <2>1. <<3, s, old.movement>> \in Claims /\ <<3, s, old.movement>>[3] = old.movement
    BY <1>1 DEF StocktakeClaims, Claims
  <2>2. old.movement # 0 =>
          old.movement \in DOMAIN movements /\ movements[old.movement].reversalOf = 0
    BY <2>1 DEF ClaimsArePosted
  <2> QED
    BY <1>1, <1>2, <2>2 DEF CountsStand, Stock!Reversible
<1>4. PICK delta : delta = Undoing(s)
  OBVIOUS
<1>5. delta \in [Locations -> Int]
  <2>1. CASE old.movement = 0
    BY <1>1, <1>4, <2>1 DEF Undoing, Stock!Zero
  <2>2. CASE old.movement # 0
    <3>1. movements[old.movement] \in Stock!Movements
      BY <1>3, <2>2, LedgerIsWhole, LedgerRows
    <3> QED
      BY <1>1, <1>4, <2>2, <3>1, MovementColumns DEF Undoing, Stock!Opposite
  <2> QED
    BY <2>1, <2>2
<1>6. PostAdjustment(delta, old.movement)
  BY <1>1, <1>4 DEF ReverseStocktake
<1>7. /\ LedgerKept
      /\ IF \A l \in Locations : delta[l] = 0 THEN movements' = movements
         ELSE Grows([delta |-> delta, reversalOf |-> old.movement])
  <2>1. old.movement # 0 => delta = Stock!Opposite(movements[old.movement].delta)
    BY <1>1, <1>4 DEF Undoing
  <2> QED
    BY <1>2, <1>3, <1>5, <1>6, <2>1, AdjustmentKeepsLedger
<1>8. PICK row : row = [old EXCEPT !.status = "reversed"]
  OBVIOUS
<1>9. row.movement = old.movement /\ row.status = "reversed"
  BY <1>8 DEF StocktakeRows
<1>10. stocktakes' = [stocktakes EXCEPT ![s] = row]
  BY <1>1, <1>8 DEF ReverseStocktake
<1>11. CASE \A l \in Locations : delta[l] = 0
  <2>1. movements' = movements
    BY <1>7, <1>11
  <2> QED
    BY <1>1, <1>7, <1>9, <1>10, <2>1, QuietRow
<1>12. CASE ~ \A l \in Locations : delta[l] = 0
  <2>1. old.movement # 0
    BY <1>1, <1>4, <1>12 DEF Undoing, Stock!Zero
  <2>2. PICK mv : mv = [delta |-> delta, reversalOf |-> old.movement]
    OBVIOUS
  <2>3. Grows(mv) /\ mv.reversalOf = old.movement
    BY <1>7, <1>12, <2>2
  <2>4. \A t \in DOMAIN stocktakes' :
          t \in DOMAIN stocktakes /\ stocktakes'[t] = IF t = s THEN row ELSE stocktakes[t]
    BY <1>10 DEF StocktakesTypeOK
  <2>5. Kept(StocktakeClaims, StocktakeClaims')
    BY <1>1, <1>9, <2>4 DEF Kept, StocktakeClaims
  <2>6. old.movement \in MovesOf(StocktakeClaims)
    <3>1. <<3, s, old.movement>> \in StocktakeClaims /\ <<3, s, old.movement>>[3] = old.movement
      BY <1>1 DEF StocktakeClaims
    <3> QED
      BY <2>1, <3>1 DEF MovesOf
  <2>7. \A t \in DOMAIN stocktakes : t # s => stocktakes[t].movement # old.movement
    <3>1. ASSUME NEW t \in DOMAIN stocktakes, stocktakes[t].movement = old.movement
          PROVE  t = s
      <4>1. <<3, t, old.movement>> \in Claims /\ <<3, s, old.movement>> \in Claims
        BY <1>1, <3>1 DEF Claims, StocktakeClaims
      <4> QED
        BY <2>1, <4>1 DEF OneOwner
    <3> QED
      BY <3>1
  <2>8. \A m \in DOMAIN movements' :
          \/ m \in DOMAIN movements /\ movements'[m] = movements[m]
          \/ movements'[m].reversalOf = old.movement
    BY <2>3, LedgerIsWhole, LedgerRows DEF Grows
  <2>9. CountsStand'
    BY <1>9, <2>4, <2>7, <2>8 DEF CountsStand
  <2> QED
    BY <1>7, <2>3, <2>5, <2>6, <2>9 DEF PartStep
<1> QED
  BY <1>11, <1>12

\* Stocktakes post and reverse their own movements.
LEMMA StocktakesAct ==
  ASSUME Ledger!IInv, Bounded, ClaimsArePosted, OneOwner, StocktakesTypeOK, CountsStand,
         StocktakesNext
  PROVE  /\ LedgerKept
         /\ PartStep(StocktakeClaims, StocktakeClaims') /\ CountsStand'
<1>1. CASE CreateStocktake
  BY <1>1, CreateStocktakeActs, StillKeepsLedger
<1>2. ASSUME NEW s \in DOMAIN stocktakes,
             \/ \E counts \in Counts : CountStocktake(s, counts)
             \/ SubmitStocktake(s) \/ ApproveStocktake(s) \/ CancelStocktake(s)
             \/ RequestRecount(s)
      PROVE  /\ LedgerKept
             /\ PartStep(StocktakeClaims, StocktakeClaims') /\ CountsStand'
  BY <1>2, QuietActions, StillKeepsLedger
<1>3. ASSUME NEW s \in DOMAIN stocktakes, PostStocktake(s) \/ ReverseStocktake(s)
      PROVE  /\ LedgerKept
             /\ PartStep(StocktakeClaims, StocktakeClaims') /\ CountsStand'
  BY <1>3, PostStocktakeActs, ReverseStocktakeActs
<1> QED
  BY <1>1, <1>2, <1>3 DEF StocktakesNext

\* What others post leaves the counts standing.
LEMMA CountsUntouched ==
  ASSUME WholeLedger(movements), CountsStand, ClaimsArePosted, UNCHANGED stocktakes,
         Untouched(MovesOf(StocktakeClaims))
  PROVE  CountsStand'
<1>1. \A m \in DOMAIN movements' :
        \/ m \in DOMAIN movements /\ movements'[m] = movements[m]
        \/ movements'[m].reversalOf \notin MovesOf(StocktakeClaims)
  BY LedgerRows DEF Untouched, Grows
<1>2. \A s \in DOMAIN stocktakes :
        stocktakes[s].movement # 0 => stocktakes[s].movement \in MovesOf(StocktakeClaims)
  <2>1. ASSUME NEW s \in DOMAIN stocktakes, stocktakes[s].movement # 0
        PROVE  stocktakes[s].movement \in MovesOf(StocktakeClaims)
    <3>1. /\ <<3, s, stocktakes[s].movement>> \in StocktakeClaims
          /\ <<3, s, stocktakes[s].movement>>[3] = stocktakes[s].movement
      BY DEF StocktakeClaims
    <3> QED
      BY <2>1, <3>1 DEF MovesOf
  <2> QED
    BY <2>1
<1> QED
  BY <1>1, <1>2 DEF CountsStand

-----------------------------------------------------------------------------
(* Transfers.                                                              *)

\* The columns of a transfer.
LEMMA TransferColumns ==
  ASSUME NEW ts \in Seq(TransferRows), NEW t \in DOMAIN ts
  PROVE  /\ ts[t] \in TransferRows
         /\ ts[t].quantity \in Nat \ {0} /\ ts[t].quantity \in TransferQuantities
         /\ ts[t].movement \in Nat
<1>1. ts[t] \in TransferRows
  OBVIOUS
<1> QED
  BY <1>1, TransfersAssumption DEF TransferRows

\* The columns of the receipt of a transfer.
LEMMA TransferReceiptColumns ==
  ASSUME NEW row \in TransferReceiptRows
  PROVE  /\ row.accepted \in Nat /\ row.damaged \in Nat /\ row.movement \in Nat
         /\ row.reversed \in BOOLEAN
  BY DEF TransferReceiptRows

\* A movement of one line.
LEMMA LineIsTyped ==
  ASSUME NEW l, NEW q \in Int
  PROVE  /\ OneLine(l, q) \in [Locations -> Int]
         /\ \A k \in Locations : OneLine(l, q)[k] = IF k = l THEN q ELSE 0
  BY DEF OneLine

\* What is accepted and damaged of a transfer are quantities.
LEMMA ReceiptSums ==
  ASSUME NEW t, NEW rs \in Seq(TransferReceiptRows)
  PROVE  /\ IsFiniteSet(StandingIn(t, rs)) /\ StandingIn(t, rs) \subseteq DOMAIN rs
         /\ \A r \in StandingIn(t, rs) : rs[r] \in TransferReceiptRows
         /\ AcceptedIn(t, rs) \in Nat /\ DamagedIn(t, rs) \in Nat
<1>1. /\ Len(rs) \in Nat /\ DOMAIN rs = 1..Len(rs)
      /\ \A r \in DOMAIN rs : rs[r] \in TransferReceiptRows
  OBVIOUS
<1>2. StandingIn(t, rs) \subseteq DOMAIN rs /\ IsFiniteSet(StandingIn(t, rs))
  <2>1. IsFiniteSet(DOMAIN rs)
    BY <1>1, FS_Interval
  <2> QED
    BY <2>1, FS_Subset DEF StandingIn
<1>3. \A r \in StandingIn(t, rs) : rs[r] \in TransferReceiptRows
  BY <1>1, <1>2
<1>4. \A r \in StandingIn(t, rs) :
        /\ [q \in StandingIn(t, rs) |-> rs[q].accepted][r] \in Nat
        /\ [q \in StandingIn(t, rs) |-> rs[q].damaged][r] \in Nat
  BY <1>3, TransferReceiptColumns
<1>5. AcceptedIn(t, rs) \in Nat
  BY <1>2, <1>4, SumNat DEF AcceptedIn
<1>6. DamagedIn(t, rs) \in Nat
  BY <1>2, <1>4, SumNat DEF DamagedIn
<1> QED
  BY <1>2, <1>3, <1>5, <1>6

\* Receipts whose columns did not change for t.
LEMMA ReceiptSumsStay ==
  ASSUME NEW t, NEW rs \in Seq(TransferReceiptRows), NEW us,
         StandingIn(t, us) = StandingIn(t, rs),
         \A r \in StandingIn(t, rs) :
           us[r].accepted = rs[r].accepted /\ us[r].damaged = rs[r].damaged
  PROVE  AcceptedIn(t, us) = AcceptedIn(t, rs) /\ DamagedIn(t, us) = DamagedIn(t, rs)
<1> DEFINE S == StandingIn(t, rs)
<1>1. IsFiniteSet(S)
  BY ReceiptSums
<1>2. SumFunctionOnSet([r \in S |-> us[r].accepted], S)
        = SumFunctionOnSet([r \in S |-> rs[r].accepted], S)
  BY <1>1, SumCongruence
<1>3. SumFunctionOnSet([r \in S |-> us[r].damaged], S)
        = SumFunctionOnSet([r \in S |-> rs[r].damaged], S)
  BY <1>1, SumCongruence
<1> QED
  BY <1>2, <1>3 DEF AcceptedIn, DamagedIn

\* A new receipt counts for its transfer only.
LEMMA ReceiptSumsGrow ==
  ASSUME NEW t, NEW rs \in Seq(TransferReceiptRows), NEW row \in TransferReceiptRows,
         ~row.reversed
  PROVE  /\ row.of # t => /\ AcceptedIn(t, Append(rs, row)) = AcceptedIn(t, rs)
                          /\ DamagedIn(t, Append(rs, row)) = DamagedIn(t, rs)
         /\ row.of = t => /\ AcceptedIn(t, Append(rs, row)) = AcceptedIn(t, rs) + row.accepted
                          /\ DamagedIn(t, Append(rs, row)) = DamagedIn(t, rs) + row.damaged
<1> DEFINE us == Append(rs, row)
           n == Len(rs) + 1
           S == StandingIn(t, rs)
           S1 == StandingIn(t, us)
<1>1. /\ DOMAIN us = DOMAIN rs \union {n} /\ n \notin DOMAIN rs
      /\ us[n] = row /\ \A r \in DOMAIN rs : us[r] = rs[r]
  OBVIOUS
<1>2. IsFiniteSet(S) /\ S \subseteq DOMAIN rs /\ \A r \in S : rs[r] \in TransferReceiptRows
  BY ReceiptSums
<1>3. S1 = IF row.of = t THEN S \union {n} ELSE S
  <2> HIDE DEF us, n
  <2> QED
    BY <1>1 DEF StandingIn
<1>4. CASE row.of # t
  <2>1. S1 = S
    BY <1>3, <1>4
  <2>2. \A r \in S : us[r].accepted = rs[r].accepted /\ us[r].damaged = rs[r].damaged
    BY <1>1, <1>2
  <2> HIDE DEF us
  <2> QED
    BY <1>4, <2>1, <2>2, ReceiptSumsStay DEF us
<1>5. CASE row.of = t
  <2>1. S1 = S \union {n} /\ n \notin S
    BY <1>1, <1>2, <1>3, <1>5
  <2> DEFINE f == [r \in S |-> rs[r].accepted]
             g == [r \in S1 |-> us[r].accepted]
             h == [r \in S |-> rs[r].damaged]
             k == [r \in S1 |-> us[r].damaged]
  <2>2. /\ g[n] = row.accepted /\ k[n] = row.damaged /\ g[n] \in Int /\ k[n] \in Int
    BY <1>1, <2>1, TransferReceiptColumns
  <2>3. \A r \in S : /\ f[r] \in Int /\ g[r] = f[r]
                     /\ h[r] \in Int /\ k[r] = h[r]
    <3>1. ASSUME NEW r \in S
          PROVE  us[r] = rs[r] /\ r \in S1 /\ rs[r].accepted \in Int /\ rs[r].damaged \in Int
      BY <1>1, <1>2, <2>1, TransferReceiptColumns
    <3> HIDE DEF S, S1, us
    <3> QED
      BY <3>1
  <2>4. /\ AcceptedIn(t, rs) = SumFunctionOnSet(f, S) /\ DamagedIn(t, rs) = SumFunctionOnSet(h, S)
        /\ AcceptedIn(t, us) = SumFunctionOnSet(g, S1) /\ DamagedIn(t, us) = SumFunctionOnSet(k, S1)
    BY DEF AcceptedIn, DamagedIn
  <2> HIDE DEF S, S1, us, n, f, g, h, k
  <2>5. SumFunctionOnSet(g, S \union {n}) = SumFunctionOnSet(f, S) + g[n]
    BY <1>2, <2>1, <2>2, <2>3, SumExtend
  <2>6. SumFunctionOnSet(k, S \union {n}) = SumFunctionOnSet(h, S) + k[n]
    BY <1>2, <2>1, <2>2, <2>3, SumExtend
  <2> QED
    BY <1>5, <2>1, <2>2, <2>4, <2>5, <2>6 DEF us
<1> QED
  BY <1>4, <1>5

\* The receipt r is reversed and the others stay.
ReceiptReversed(rs, r, us) ==
  /\ DOMAIN us = DOMAIN rs
  /\ ~rs[r].reversed /\ us[r].reversed
  /\ \A q \in DOMAIN rs \ {r} : us[q] = rs[q]

\* Reversing a receipt takes its quantities from the sums of its transfer.
LEMMA ReceiptSumsShrink ==
  ASSUME NEW t, NEW rs \in Seq(TransferReceiptRows), NEW r \in DOMAIN rs, NEW us,
         ReceiptReversed(rs, r, us)
  PROVE  /\ rs[r].of # t => /\ AcceptedIn(t, us) = AcceptedIn(t, rs)
                            /\ DamagedIn(t, us) = DamagedIn(t, rs)
         /\ rs[r].of = t => /\ AcceptedIn(t, rs) = AcceptedIn(t, us) + rs[r].accepted
                            /\ DamagedIn(t, rs) = DamagedIn(t, us) + rs[r].damaged
<1> DEFINE S == StandingIn(t, rs)
           S1 == StandingIn(t, us)
<1>1. IsFiniteSet(S) /\ S \subseteq DOMAIN rs /\ \A q \in S : rs[q] \in TransferReceiptRows
  BY ReceiptSums
<1>2. S1 = S \ {r} /\ (r \in S <=> rs[r].of = t)
  BY DEF StandingIn, ReceiptReversed
<1>3. \A q \in S \ {r} : us[q] = rs[q]
  BY <1>1 DEF ReceiptReversed
<1>4. CASE rs[r].of # t
  <2>1. S1 = S
    BY <1>2, <1>4
  <2>2. \A q \in S : us[q].accepted = rs[q].accepted /\ us[q].damaged = rs[q].damaged
    BY <1>2, <1>3, <1>4
  <2> QED
    BY <1>4, <2>1, <2>2, ReceiptSumsStay
<1>5. CASE rs[r].of = t
  <2> DEFINE f == [q \in S |-> rs[q].accepted]
             g == [q \in S1 |-> us[q].accepted]
             h == [q \in S |-> rs[q].damaged]
             k == [q \in S1 |-> us[q].damaged]
  <2>0. IsFiniteSet(S1) /\ r \notin S1 /\ S = S1 \union {r} /\ S1 \subseteq S
    BY <1>1, <1>2, <1>5, FS_Subset
  <2>1. \A q \in S : f[q] \in Int /\ h[q] \in Int
    BY <1>1, TransferReceiptColumns
  <2>2. \A q \in S1 : g[q] = f[q] /\ k[q] = h[q]
    <3> HIDE DEF S, S1
    <3> QED
      BY <1>2, <1>3
  <2>3. r \in S /\ f[r] = rs[r].accepted /\ h[r] = rs[r].damaged
    BY <1>2, <1>5
  <2>4. /\ AcceptedIn(t, rs) = SumFunctionOnSet(f, S) /\ DamagedIn(t, rs) = SumFunctionOnSet(h, S)
        /\ AcceptedIn(t, us) = SumFunctionOnSet(g, S1) /\ DamagedIn(t, us) = SumFunctionOnSet(k, S1)
    BY DEF AcceptedIn, DamagedIn
  <2> HIDE DEF S, S1, f, g, h, k
  <2>5. SumFunctionOnSet(f, S1 \union {r}) = SumFunctionOnSet(g, S1) + f[r]
    BY <2>0, <2>1, <2>2, <2>3, SumExtend
  <2>6. SumFunctionOnSet(h, S1 \union {r}) = SumFunctionOnSet(k, S1) + h[r]
    BY <2>0, <2>1, <2>2, <2>3, SumExtend
  <2> QED
    BY <1>5, <2>0, <2>3, <2>4, <2>5, <2>6
<1> QED
  BY <1>4, <1>5

\* A transfer's movements are its own.
LEMMA TransferMoves ==
  ASSUME ClaimsArePosted, OneOwner, NEW t \in DOMAIN transfers
  PROVE  /\ MovesIn(t, transfers, transferReceipts) \subseteq MovesOf(TransferClaims)
         /\ MovesIn(t, transfers, transferReceipts) \subseteq DOMAIN movements
         /\ \A u \in DOMAIN transfers : u # t =>
              MovesIn(u, transfers, transferReceipts) \cap MovesIn(t, transfers, transferReceipts) = {}
<1>1. \A u \in DOMAIN transfers :
        /\ <<1, u, transfers[u].movement>> \in TransferClaims
        /\ <<1, u, transfers[u].movement>>[3] = transfers[u].movement
  BY DEF TransferClaims
<1>2. \A r \in DOMAIN transferReceipts :
        /\ <<2, r, transferReceipts[r].movement>> \in TransferClaims
        /\ <<2, r, transferReceipts[r].movement>>[3] = transferReceipts[r].movement
  BY DEF TransferClaims
<1>3. \A u \in DOMAIN transfers :
        MovesIn(u, transfers, transferReceipts) \subseteq MovesOf(TransferClaims)
  BY <1>1, <1>2 DEF MovesIn, MovesOf
<1>4. MovesOf(TransferClaims) \subseteq DOMAIN movements
  BY ClaimedRows, PartsAreApart
<1>5. ASSUME NEW u \in DOMAIN transfers, u # t,
             NEW m, m \in MovesIn(u, transfers, transferReceipts),
             m \in MovesIn(t, transfers, transferReceipts)
      PROVE  FALSE
  <2>1. m # 0
    BY <1>5 DEF MovesIn
  <2>2. \A c, d \in TransferClaims : c[3] = m /\ d[3] = m => c = d
    BY <2>1, PartsAreApart DEF OneOwner
  <2>3. \/ m = transfers[u].movement
        \/ \E r \in DOMAIN transferReceipts :
             transferReceipts[r].of = u /\ m = transferReceipts[r].movement
    BY <1>5 DEF MovesIn
  <2>4. \/ m = transfers[t].movement
        \/ \E r \in DOMAIN transferReceipts :
             transferReceipts[r].of = t /\ m = transferReceipts[r].movement
    BY <1>5 DEF MovesIn
  <2>5. ~(m = transfers[u].movement /\ m = transfers[t].movement)
    BY <1>1, <1>5, <2>2
  <2>6. \A r \in DOMAIN transferReceipts :
          m = transferReceipts[r].movement => m # transfers[u].movement /\ m # transfers[t].movement
    <3>1. ASSUME NEW r \in DOMAIN transferReceipts, NEW v \in DOMAIN transfers,
                 m = transferReceipts[r].movement, m = transfers[v].movement
          PROVE  FALSE
      <4>1. <<1, v, m>> \in TransferClaims /\ <<2, r, m>> \in TransferClaims
        BY <1>1, <1>2, <3>1
      <4>2. <<1, v, m>> = <<2, r, m>>
        BY <2>2, <4>1
      <4> QED
        BY <4>2
    <3> QED
      BY <3>1
  <2>7. \A r, q \in DOMAIN transferReceipts :
          m = transferReceipts[r].movement /\ m = transferReceipts[q].movement => r = q
    BY <1>2, <2>2
  <2> QED
    BY <1>5, <2>3, <2>4, <2>5, <2>6, <2>7
<1> QED
  BY <1>3, <1>4, <1>5

\* A transfer that nothing happens to adds up as before.
LEMMA TransferStays ==
  ASSUME WholeLedger(movements), NEW t \in DOMAIN transfers, TransferAddsUp(t),
         MovesIn(t, transfers, transferReceipts) \subseteq DOMAIN movements,
         Untouched(MovesIn(t, transfers, transferReceipts)),
         transfers'[t] = transfers[t], shortages'[t] = shortages[t],
         MovesIn(t, transfers', transferReceipts') = MovesIn(t, transfers, transferReceipts),
         AcceptedIn(t, transferReceipts') = AcceptedIn(t, transferReceipts),
         DamagedIn(t, transferReceipts') = DamagedIn(t, transferReceipts)
  PROVE  TransferAddsUp(t)'
<1> DEFINE ms == MovesIn(t, transfers, transferReceipts)
<1>1. \A l \in Locations : NetIn(ms, movements', l) = NetIn(ms, movements, l)
  BY NetUntouched
<1>2. Source \in Locations /\ Destination \in Locations
  BY TransfersAssumption
<1>3. /\ NetIn(ms, movements', Source) = NetIn(ms, movements, Source)
      /\ NetIn(ms, movements', Destination) = NetIn(ms, movements, Destination)
  BY <1>1, <1>2
<1> QED
  BY <1>3 DEF TransferAddsUp

\* A receipt that stays has its movement still.
LEMMA ReceiptStays ==
  ASSUME \A m \in DOMAIN movements : movements'[m] = movements[m],
         NEW r \in DOMAIN transferReceipts, ReceiptStands(r), ClaimsArePosted,
         Dispatched(transferReceipts[r].of)',
         transferReceipts'[r].of = transferReceipts[r].of,
         transferReceipts'[r].movement = transferReceipts[r].movement,
         transferReceipts'[r].accepted = transferReceipts[r].accepted
  PROVE  ReceiptStands(r)'
<1>1. transferReceipts[r].movement # 0 => transferReceipts[r].movement \in DOMAIN movements
  <2>1. /\ <<2, r, transferReceipts[r].movement>> \in Claims
        /\ <<2, r, transferReceipts[r].movement>>[3] = transferReceipts[r].movement
    BY DEF Claims, TransferClaims
  <2> QED
    BY <2>1 DEF ClaimsArePosted
<1> QED
  BY <1>1 DEF ReceiptStands, OneLine

\* What others post leaves the transfers as they are.
LEMMA TransfersUntouched ==
  ASSUME WholeLedger(movements), TransfersInv, ClaimsArePosted, OneOwner,
         UNCHANGED transferVars, Untouched(MovesOf(TransferClaims))
  PROVE  TransfersInv'
<1>1. transfers' = transfers /\ transferReceipts' = transferReceipts /\ shortages' = shortages
  BY DEF transferVars
<1>2. \A m \in DOMAIN movements : movements'[m] = movements[m]
  <2>1. {} \subseteq DOMAIN movements /\ Untouched({})
    BY DEF Untouched
  <2> QED
    BY <2>1, NetUntouched
<1>3. TransfersTypeOK'
  BY <1>1 DEF TransfersInv, TransfersTypeOK
<1>4. \A r \in DOMAIN transferReceipts : ReceiptStands(r)'
  <2>1. ASSUME NEW r \in DOMAIN transferReceipts PROVE ReceiptStands(r)'
    <3>1. ReceiptStands(r)
      BY DEF TransfersInv
    <3>2. Dispatched(transferReceipts[r].of)'
      BY <1>1, <3>1 DEF ReceiptStands, Dispatched
    <3> QED
      BY <1>1, <1>2, <3>1, <3>2, ReceiptStays
  <2> QED
    BY <2>1
<1>5. \A t \in DOMAIN transfers : TransferAddsUp(t)'
  <2>1. ASSUME NEW t \in DOMAIN transfers PROVE TransferAddsUp(t)'
    <3>1. /\ MovesIn(t, transfers, transferReceipts) \subseteq MovesOf(TransferClaims)
          /\ MovesIn(t, transfers, transferReceipts) \subseteq DOMAIN movements
      BY TransferMoves
    <3>2. Untouched(MovesIn(t, transfers, transferReceipts))
      BY <3>1 DEF Untouched
    <3>3. TransferAddsUp(t)
      BY DEF TransfersInv
    <3> QED
      BY <1>1, <3>1, <3>2, <3>3, TransferStays
  <2> QED
    BY <2>1
<1> QED
  BY <1>1, <1>3, <1>4, <1>5 DEF TransfersInv

\* The step posts a movement, or reverses one of those in ms, or does neither.
Moves(ms) ==
  movements' = movements \/ \E mv : Grows(mv) /\ (mv.reversalOf = 0 \/ mv.reversalOf \in ms)

\* The ledger keeps its rows when it grows.
LEMMA RowsStay ==
  ASSUME WholeLedger(movements), NEW ms, Moves(ms)
  PROVE  \A m \in DOMAIN movements : m \in DOMAIN movements' /\ movements'[m] = movements[m]
  BY LedgerRows DEF Moves, Grows

\* A step on one transfer leaves the others as they are.
LEMMA OtherTransfersStay ==
  ASSUME LedgerBase, TransfersInv, NEW t \in DOMAIN transfers,
         Moves(MovesIn(t, transfers, transferReceipts)),
         NEW u \in DOMAIN transfers, u # t,
         transfers'[u] = transfers[u], shortages'[u] = shortages[u],
         MovesIn(u, transfers', transferReceipts') = MovesIn(u, transfers, transferReceipts),
         AcceptedIn(u, transferReceipts') = AcceptedIn(u, transferReceipts),
         DamagedIn(u, transferReceipts') = DamagedIn(u, transferReceipts)
  PROVE  TransferAddsUp(u)'
<1>1. /\ MovesIn(u, transfers, transferReceipts) \subseteq DOMAIN movements
      /\ MovesIn(u, transfers, transferReceipts) \cap MovesIn(t, transfers, transferReceipts) = {}
  BY TransferMoves DEF LedgerBase
<1>2. WholeLedger(movements)
  BY LedgerIsWhole DEF LedgerBase
<1>3. 0 \notin MovesIn(u, transfers, transferReceipts)
  BY DEF MovesIn
<1>4. Untouched(MovesIn(u, transfers, transferReceipts))
  BY <1>1, <1>3 DEF Moves, Untouched
<1>5. TransferAddsUp(u)
  BY DEF TransfersInv
<1> QED
  BY <1>1, <1>2, <1>4, <1>5, TransferStays

\* A step that posts nothing keeps the ledger, and the claims if none is new.
LEMMA StillClaims ==
  ASSUME LedgerBase, UNCHANGED stockVars,
         NEW cs, NEW cs1, Kept(cs, cs1)
  PROVE  /\ LedgerKept /\ PartStep(cs, cs1)
         /\ movements' = movements
  BY StillKeepsLedger DEF LedgerBase, LedgerKept, PartStep

\* A draft transfer posts nothing.
LEMMA CreateTransferActs ==
  ASSUME LedgerBase, TransfersInv, NEW quantity \in TransferQuantities, CreateTransfer(quantity)
  PROVE  LedgerKept /\ PartStep(TransferClaims, TransferClaims') /\ TransfersInv'
<1> DEFINE row == [status |-> "draft", quantity |-> quantity, movement |-> 0]
<1>0. PICK n : n = Len(transfers) + 1
  OBVIOUS
<1>1. /\ row \in TransferRows /\ transfers' = Append(transfers, row)
      /\ shortages' = Append(shortages, 0)
      /\ transferReceipts' = transferReceipts /\ UNCHANGED stockVars
  BY DEF CreateTransfer, TransferRows
<1>2. /\ transfers \in Seq(TransferRows) /\ shortages \in Seq(Nat)
      /\ transferReceipts \in Seq(TransferReceiptRows)
      /\ Len(shortages) = Len(transfers) /\ Len(transfers) \in Nat
  BY DEF TransfersInv, TransfersTypeOK
<1>3. /\ DOMAIN transfers' = DOMAIN transfers \union {n} /\ n \notin DOMAIN transfers
      /\ \A u \in DOMAIN transfers : transfers'[u] = transfers[u] /\ shortages'[u] = shortages[u]
      /\ transfers'[n] = row /\ shortages'[n] = 0
  BY <1>0, <1>1, <1>2
<1>4. Kept(TransferClaims, TransferClaims')
  <2>1. row.movement = 0
    OBVIOUS
  <2> HIDE DEF row
  <2> QED
    BY <1>1, <1>3, <2>1 DEF Kept, TransferClaims
<1>5. LedgerKept /\ PartStep(TransferClaims, TransferClaims') /\ movements' = movements
  BY <1>1, <1>4, StillClaims
<1>6. TransfersTypeOK'
  BY <1>1, <1>2 DEF TransfersTypeOK
<1>7. ASSUME NEW r \in DOMAIN transferReceipts PROVE ReceiptStands(r)'
  <2>1. ReceiptStands(r)
    BY DEF TransfersInv
  <2>2. Dispatched(transferReceipts[r].of)'
    BY <1>1, <1>3, <2>1 DEF ReceiptStands, Dispatched
  <2> QED
    BY <1>1, <1>5, <2>1, <2>2, ReceiptStays DEF LedgerBase
<1>8. ASSUME NEW u \in DOMAIN transfers PROVE TransferAddsUp(u)'
  <2>1. MovesIn(u, transfers', transferReceipts') = MovesIn(u, transfers, transferReceipts)
    BY <1>1, <1>3 DEF MovesIn
  <2>2. TransferAddsUp(u)
    BY DEF TransfersInv
  <2>3. Untouched(MovesIn(u, transfers, transferReceipts))
    BY <1>5 DEF Untouched
  <2>4. MovesIn(u, transfers, transferReceipts) \subseteq DOMAIN movements
    BY TransferMoves DEF LedgerBase
  <2>5. WholeLedger(movements)
    BY LedgerIsWhole DEF LedgerBase
  <2> QED
    BY <1>1, <1>3, <2>1, <2>2, <2>3, <2>4, <2>5, TransferStays
<1>9. TransferAddsUp(n)'
  <2>1. row.status = "draft" /\ row.movement = 0
    OBVIOUS
  <2> HIDE DEF row
  <2> QED
    BY <1>3, <2>1 DEF TransferAddsUp
<1> QED
  BY <1>1, <1>3, <1>5, <1>6, <1>7, <1>8, <1>9 DEF TransfersInv

\* A transfer that has not left goes on or is cancelled.
LEMMA TransferMovesOn ==
  ASSUME LedgerBase, TransfersInv, NEW t \in DOMAIN transfers,
         NEW to \in {"approved", "cancelled"}, transfers[t].status \in {"draft", "approved"},
         transfers' = [transfers EXCEPT ![t].status = to],
         UNCHANGED <<transferReceipts, shortages, stockVars>>
  PROVE  LedgerKept /\ PartStep(TransferClaims, TransferClaims') /\ TransfersInv'
<1>1. PICK row : row = [transfers[t] EXCEPT !.status = to]
  OBVIOUS
<1>2. /\ transfers \in Seq(TransferRows) /\ shortages \in Seq(Nat)
      /\ transferReceipts \in Seq(TransferReceiptRows)
      /\ Len(shortages) = Len(transfers) /\ transfers[t] \in TransferRows
  BY DEF TransfersInv, TransfersTypeOK
<1>3. /\ row \in TransferRows /\ row.status = to
      /\ row.movement = transfers[t].movement /\ row.quantity = transfers[t].quantity
  BY <1>1, <1>2 DEF TransferRows
<1>4. transfers' = [transfers EXCEPT ![t] = row]
  BY <1>1
<1>5. /\ DOMAIN transfers' = DOMAIN transfers /\ transfers' \in Seq(TransferRows)
      /\ transfers'[t] = row /\ \A u \in DOMAIN transfers : u # t => transfers'[u] = transfers[u]
      /\ Len(transfers') = Len(transfers)
  <2>1. Len([transfers EXCEPT ![t] = row]) = Len(transfers)
    BY <1>2
  <2>2. /\ [transfers EXCEPT ![t] = row] \in Seq(TransferRows)
        /\ DOMAIN [transfers EXCEPT ![t] = row] = DOMAIN transfers
        /\ [transfers EXCEPT ![t] = row][t] = row
        /\ \A u \in DOMAIN transfers : u # t => [transfers EXCEPT ![t] = row][u] = transfers[u]
    BY <1>2, <1>3, RowReplaced
  <2> QED
    BY <1>4, <2>1, <2>2
<1>6. Kept(TransferClaims, TransferClaims')
  BY <1>3, <1>5 DEF Kept, TransferClaims
<1>7. LedgerKept /\ PartStep(TransferClaims, TransferClaims') /\ movements' = movements
  BY <1>6, StillClaims
<1>8. TransfersTypeOK'
  BY <1>2, <1>5 DEF TransfersTypeOK
<1>9. ASSUME NEW r \in DOMAIN transferReceipts PROVE ReceiptStands(r)'
  <2>1. ReceiptStands(r) /\ transferReceipts' = transferReceipts
    BY DEF TransfersInv
  <2>2. Dispatched(transferReceipts[r].of)'
    BY <1>5, <2>1 DEF ReceiptStands, Dispatched
  <2> QED
    BY <1>7, <2>1, <2>2, ReceiptStays DEF LedgerBase
<1>10. ASSUME NEW u \in DOMAIN transfers, u # t PROVE TransferAddsUp(u)'
  <2>1. MovesIn(u, transfers', transferReceipts') = MovesIn(u, transfers, transferReceipts)
    BY <1>5, <1>10 DEF MovesIn
  <2>2. Moves(MovesIn(t, transfers, transferReceipts))
    BY <1>7 DEF Moves
  <2> QED
    BY <1>5, <1>10, <2>1, <2>2, OtherTransfersStay
<1>11. TransferAddsUp(t)'
  <2>1. transfers[t].movement = 0 /\ shortages[t] = 0
    BY DEF TransfersInv, TransferAddsUp
  <2> QED
    BY <1>3, <1>5, <2>1 DEF TransferAddsUp
<1> QED
  BY <1>5, <1>7, <1>8, <1>9, <1>10, <1>11 DEF TransfersInv

\* No movements, no stock.
LEMMA NothingPosted ==
  ASSUME NEW t, NEW l
  PROVE  NetIn({}, t, l) = 0
<1>1. RowsIn({}, t) = {}
  BY DEF RowsIn
<1> QED
  BY <1>1, SumEmpty DEF NetIn

\* Posting for a document adds the lines.
LEMMA NetPosted ==
  ASSUME WholeLedger(movements), NEW mv, Grows(mv), NEW ms, ms \subseteq DOMAIN movements,
         NEW l \in Locations
  PROVE  /\ NetIn(ms \union {Len(movements) + 1}, movements', l)
              = NetIn(ms, movements, l) + mv.delta[l]
         /\ NetIn(ms, movements, l) \in Int /\ mv.delta[l] \in Int
<1>1. /\ mv \in Stock!Movements /\ mv.reversalOf \in 0..Len(movements)
      /\ movements' = Append(movements, mv)
  BY DEF Grows
<1>2. NetIn(ms, movements, l) \in Int /\ mv.delta[l] \in Int
  BY <1>1, NetIsInt, MovementColumns
<1>3. PICK ns : ns = ms \union {Len(movements) + 1}
  OBVIOUS
<1>4. SameOrMore(ms, Len(movements) + 1, ns)
  BY <1>3 DEF SameOrMore
<1>5. NetIn(ns, Append(movements, mv), l)
        = IF Len(movements) + 1 \in ns \/ mv.reversalOf \in ms
          THEN NetIn(ms, movements, l) + mv.delta[l] ELSE NetIn(ms, movements, l)
  BY ONLY WholeLedger(movements), <1>1, ms \subseteq DOMAIN movements, l \in Locations,
          <1>4, NetAfter
<1> QED
  BY <1>1, <1>2, <1>3, <1>4, <1>5

\* Reversing what a document posted takes them away.
LEMMA NetReversed ==
  ASSUME WholeLedger(movements), NEW mv, Grows(mv), NEW ms, ms \subseteq DOMAIN movements,
         mv.reversalOf \in ms, NEW l \in Locations
  PROVE  /\ NetIn(ms, movements', l) = NetIn(ms, movements, l) + mv.delta[l]
         /\ NetIn(ms, movements, l) \in Int /\ mv.delta[l] \in Int
<1>1. /\ mv \in Stock!Movements /\ mv.reversalOf \in 0..Len(movements)
      /\ movements' = Append(movements, mv)
  BY DEF Grows
<1>2. NetIn(ms, movements, l) \in Int /\ mv.delta[l] \in Int
  BY <1>1, NetIsInt, MovementColumns
<1>3. SameOrMore(ms, Len(movements) + 1, ms)
  BY DEF SameOrMore
<1>4. NetIn(ms, Append(movements, mv), l)
        = IF Len(movements) + 1 \in ms \/ mv.reversalOf \in ms
          THEN NetIn(ms, movements, l) + mv.delta[l] ELSE NetIn(ms, movements, l)
  BY <1>1, <1>3, NetAfter
<1> QED
  BY <1>1, <1>2, <1>4

\* A dispatch takes the whole quantity out of the source, in one movement.
LEMMA DispatchTransferActs ==
  ASSUME LedgerBase, TransfersInv, NEW t \in DOMAIN transfers, DispatchTransfer(t)
  PROVE  LedgerKept /\ PartStep(TransferClaims, TransferClaims') /\ TransfersInv'
<1>1. PICK n : n = Len(movements) + 1
  OBVIOUS
<1>2. PICK q : q = transfers[t].quantity
  OBVIOUS
<1>3. /\ transfers \in Seq(TransferRows) /\ shortages \in Seq(Nat)
      /\ transferReceipts \in Seq(TransferReceiptRows)
      /\ Len(shortages) = Len(transfers) /\ transfers[t] \in TransferRows
      /\ q \in Nat \ {0} /\ q \in TransferQuantities
  BY <1>2, TransferColumns DEF TransfersInv, TransfersTypeOK
<1>4. n \in Nat \ {0} /\ n \notin DOMAIN movements /\ WholeLedger(movements)
  <2>1. WholeLedger(movements) /\ Len(movements) \in Nat
    BY LedgerIsWhole, LedgerRows DEF LedgerBase
  <2> QED
    BY <1>1, <2>1, LedgerRows
<1>5. PICK row : row = [transfers[t] EXCEPT !.status = "dispatched", !.movement = n]
  OBVIOUS
<1>6. row \in TransferRows /\ row.status = "dispatched" /\ row.movement = n /\ row.quantity = q
  BY <1>2, <1>3, <1>4, <1>5 DEF TransferRows
<1>7. /\ transfers' = [transfers EXCEPT ![t] = row]
      /\ transferReceipts' = transferReceipts /\ shortages' = shortages
  BY <1>1, <1>5 DEF DispatchTransfer, NextMovement
<1>8. /\ DOMAIN transfers' = DOMAIN transfers /\ transfers' \in Seq(TransferRows)
      /\ transfers'[t] = row /\ \A u \in DOMAIN transfers : u # t => transfers'[u] = transfers[u]
      /\ Len(transfers') = Len(transfers)
  <2>1. Len([transfers EXCEPT ![t] = row]) = Len(transfers)
    BY <1>3
  <2>2. /\ [transfers EXCEPT ![t] = row] \in Seq(TransferRows)
        /\ DOMAIN [transfers EXCEPT ![t] = row] = DOMAIN transfers
        /\ [transfers EXCEPT ![t] = row][t] = row
        /\ \A u \in DOMAIN transfers : u # t => [transfers EXCEPT ![t] = row][u] = transfers[u]
    BY <1>3, <1>6, RowReplaced
  <2> QED
    BY <1>7, <2>1, <2>2
<1>9. PICK delta \in [Locations -> Int] :
        /\ delta = OneLine(Source, -q)
        /\ \A k \in Locations : delta[k] = IF k = Source THEN -q ELSE 0
  BY <1>3, LineIsTyped
<1>10. PICK mv : mv = [delta |-> delta, reversalOf |-> 0]
  OBVIOUS
<1>11. LedgerKept /\ Grows(mv) /\ mv.reversalOf = 0 /\ mv.delta = delta
  <2>1. PostMovement(delta)
    BY <1>2, <1>9 DEF DispatchTransfer
  <2> QED
    BY <1>10, <2>1, MovementKeepsLedger DEF LedgerBase, LedgerKept, Bounded
<1>12. PartStep(TransferClaims, TransferClaims')
  <2>1. \A c \in TransferClaims' : c[3] # 0 => c \in TransferClaims \/ c = <<1, t, n>>
    BY <1>6, <1>7, <1>8 DEF TransferClaims
  <2>2. <<1, t, n>>[3] = n
    OBVIOUS
  <2> QED
    BY <1>1, <1>11, <2>1, <2>2 DEF PartStep
<1>13. TransfersTypeOK'
  BY <1>3, <1>7, <1>8 DEF TransfersTypeOK
<1>14. Moves(MovesIn(t, transfers, transferReceipts))
  BY <1>11 DEF Moves
<1>15. ASSUME NEW r \in DOMAIN transferReceipts
       PROVE  ReceiptStands(r)' /\ transferReceipts[r].of # t
  <2>1. ReceiptStands(r)
    BY DEF TransfersInv
  <2>2. transferReceipts[r].of # t /\ Dispatched(transferReceipts[r].of)'
    BY <1>8, <2>1 DEF ReceiptStands, Dispatched, DispatchTransfer
  <2> QED
    BY <1>4, <1>7, <1>14, <2>1, <2>2, RowsStay, ReceiptStays DEF LedgerBase
<1>16. ASSUME NEW u \in DOMAIN transfers, u # t PROVE TransferAddsUp(u)'
  <2>1. MovesIn(u, transfers', transferReceipts') = MovesIn(u, transfers, transferReceipts)
    BY <1>7, <1>8, <1>16 DEF MovesIn
  <2> QED
    BY <1>7, <1>8, <1>14, <1>16, <2>1, OtherTransfersStay
<1>17. TransferAddsUp(t)'
  <2>1. transfers[t].movement = 0 /\ shortages[t] = 0
    BY DEF TransfersInv, TransferAddsUp, DispatchTransfer
  <2>2. MovesIn(t, transfers, transferReceipts) = {}
    BY <1>15, <2>1 DEF MovesIn
  <2>3. MovesIn(t, transfers', transferReceipts') = {} \union {n}
    BY <1>4, <1>6, <1>7, <1>8, <1>15 DEF MovesIn
  <2>4. StandingIn(t, transferReceipts) = {}
    BY <1>15 DEF StandingIn
  <2>5. AcceptedIn(t, transferReceipts') = 0 /\ DamagedIn(t, transferReceipts') = 0
    BY <1>7, <2>4, SumEmpty DEF AcceptedIn, DamagedIn
  <2>6. ASSUME NEW l \in Locations
        PROVE  NetIn({} \union {n}, movements', l) = delta[l]
    <3>1. {} \subseteq DOMAIN movements
      OBVIOUS
    <3>2. /\ NetIn({} \union {n}, movements', l) = NetIn({}, movements, l) + mv.delta[l]
          /\ mv.delta[l] \in Int
      BY <1>1, <1>4, <1>11, <3>1, NetPosted
    <3> QED
      BY <1>11, <3>2, NothingPosted
  <2>7. /\ NetIn({} \union {n}, movements', Source) = -q
        /\ NetIn({} \union {n}, movements', Destination) = 0
    BY <1>9, <2>6, TransfersAssumption
  <2>8. Balances(q, -q, 0, 0, 0, 0)
    BY <1>3 DEF Balances
  <2>9. n # 0
    BY <1>4
  <2> QED
    BY <1>6, <1>7, <1>8, <2>1, <2>3, <2>5, <2>7, <2>8, <2>9 DEF TransferAddsUp
<1> QED
  BY <1>7, <1>8, <1>11, <1>12, <1>13, <1>15, <1>16, <1>17 DEF TransfersInv

\* The remainder of a transfer is cut off at zero.
LEMMA MaxWithZero ==
  ASSUME NEW x \in Int
  PROVE  Max({x, 0}) = IF x >= 0 THEN x ELSE 0
<1>1. \E y \in {x, 0} : \A z \in {x, 0} : y >= z
  <2>1. CASE x >= 0
    BY <2>1
  <2>2. CASE ~(x >= 0)
    BY <2>2
  <2> QED
    BY <2>1, <2>2
<1>2. Max({x, 0}) \in {x, 0} /\ \A z \in {x, 0} : Max({x, 0}) >= z
  BY <1>1 DEF Max
<1> QED
  BY <1>2

\* What the view of a transfer shows in transit.
LEMMA InTransitIs ==
  ASSUME TransfersInv, NEW t \in DOMAIN transfers
  PROVE  /\ Accepted(t) = AcceptedIn(t, transferReceipts)
         /\ Damaged(t) = DamagedIn(t, transferReceipts)
         /\ AcceptedIn(t, transferReceipts) \in Nat /\ DamagedIn(t, transferReceipts) \in Nat
         /\ shortages[t] \in Nat /\ transfers[t].quantity \in Nat
         /\ LET left == transfers[t].quantity - AcceptedIn(t, transferReceipts)
                          - DamagedIn(t, transferReceipts) - shortages[t]
            IN InTransit(t) = IF left >= 0 THEN left ELSE 0
<1>1. /\ Accepted(t) = AcceptedIn(t, transferReceipts)
      /\ Damaged(t) = DamagedIn(t, transferReceipts)
  BY DEF Accepted, Damaged, AcceptedIn, DamagedIn, StandingReceipts, StandingIn
<1>2. /\ AcceptedIn(t, transferReceipts) \in Nat /\ DamagedIn(t, transferReceipts) \in Nat
      /\ shortages[t] \in Nat /\ transfers[t].quantity \in Nat
  BY ReceiptSums, TransferColumns DEF TransfersInv, TransfersTypeOK
<1> DEFINE left == transfers[t].quantity - AcceptedIn(t, transferReceipts)
                     - DamagedIn(t, transferReceipts) - shortages[t]
<1>3. left \in Int
  BY <1>2
<1>4. InTransit(t) = Max({left, 0})
  BY <1>1 DEF InTransit
<1>5. InTransit(t) = IF left >= 0 THEN left ELSE 0
  <2> HIDE DEF left
  <2> QED
    BY <1>3, <1>4, MaxWithZero
<1> QED
  BY <1>1, <1>2, <1>5

\* Closing a shortage posts nothing and leaves nothing in transit.
LEMMA CloseShortageActs ==
  ASSUME LedgerBase, TransfersInv, NEW t \in DOMAIN transfers, CloseShortage(t)
  PROVE  LedgerKept /\ PartStep(TransferClaims, TransferClaims') /\ TransfersInv'
<1>1. /\ transfers' = transfers /\ transferReceipts' = transferReceipts /\ UNCHANGED stockVars
      /\ shortages' = [shortages EXCEPT ![t] = InTransit(t)]
      /\ shortages[t] = 0 /\ InTransit(t) > 0
  BY DEF CloseShortage, ClosedShort
<1>2. /\ shortages \in Seq(Nat) /\ Len(shortages) = Len(transfers)
      /\ transfers \in Seq(TransferRows)
  BY DEF TransfersInv, TransfersTypeOK
<1>3. /\ AcceptedIn(t, transferReceipts) \in Nat /\ DamagedIn(t, transferReceipts) \in Nat
      /\ shortages[t] \in Nat /\ transfers[t].quantity \in Nat
      /\ InTransit(t) = transfers[t].quantity - AcceptedIn(t, transferReceipts)
                          - DamagedIn(t, transferReceipts)
      /\ InTransit(t) \in Nat
  BY <1>1, InTransitIs
<1>4. /\ shortages' \in Seq(Nat) /\ Len(shortages') = Len(shortages)
      /\ shortages'[t] = InTransit(t) /\ \A u \in DOMAIN transfers : u # t => shortages'[u] = shortages[u]
  BY <1>1, <1>2, <1>3
<1>5. LedgerKept /\ PartStep(TransferClaims, TransferClaims') /\ movements' = movements
  <2>1. Kept(TransferClaims, TransferClaims')
    BY <1>1 DEF Kept, TransferClaims
  <2> QED
    BY <1>1, <2>1, StillClaims
<1>6. TransfersTypeOK'
  BY <1>1, <1>4 DEF TransfersInv, TransfersTypeOK
<1>7. ASSUME NEW r \in DOMAIN transferReceipts PROVE ReceiptStands(r)'
  BY <1>1, <1>5 DEF TransfersInv, ReceiptStands, Dispatched
<1>8. ASSUME NEW u \in DOMAIN transfers, u # t PROVE TransferAddsUp(u)'
  <2>1. Moves(MovesIn(t, transfers, transferReceipts))
    BY <1>5 DEF Moves
  <2> QED
    BY <1>1, <1>4, <1>8, <2>1, OtherTransfersStay
<1>9. TransferAddsUp(t)'
  <2>1. TransferAddsUp(t) /\ Dispatched(t)
    BY DEF TransfersInv, CloseShortage
  <2> DEFINE source == NetIn(MovesIn(t, transfers, transferReceipts), movements, Source)
             destination == NetIn(MovesIn(t, transfers, transferReceipts), movements, Destination)
             A == AcceptedIn(t, transferReceipts)
             D == DamagedIn(t, transferReceipts)
  <2>2. /\ transfers[t].movement # 0
        /\ Balances(transfers[t].quantity, source, destination, A, D, shortages[t])
    BY <2>1 DEF TransferAddsUp, Dispatched
  <2>3. Balances(transfers[t].quantity, source, destination, A, D, InTransit(t))
    <3> HIDE DEF source, destination, A, D
    <3> QED
      BY <1>3, <2>2 DEF Balances, A, D
  <2> QED
    BY <1>1, <1>4, <1>5, <2>1, <2>2, <2>3 DEF TransferAddsUp, Dispatched
<1> QED
  BY <1>1, <1>5, <1>6, <1>7, <1>8, <1>9 DEF TransfersInv

\* Approving damage posts nothing.
LEMMA ApproveDamageActs ==
  ASSUME LedgerBase, TransfersInv, NEW r \in DOMAIN transferReceipts, ApproveDamage(r)
  PROVE  LedgerKept /\ PartStep(TransferClaims, TransferClaims') /\ TransfersInv'
<1>1. transferReceipts \in Seq(TransferReceiptRows) /\ transferReceipts[r] \in TransferReceiptRows
  BY DEF TransfersInv, TransfersTypeOK
<1>2. PICK row : row = [transferReceipts[r] EXCEPT !.damageApproved = TRUE]
  OBVIOUS
<1>3. /\ row \in TransferReceiptRows /\ row.of = transferReceipts[r].of
      /\ row.accepted = transferReceipts[r].accepted /\ row.damaged = transferReceipts[r].damaged
      /\ row.movement = transferReceipts[r].movement /\ row.reversed = transferReceipts[r].reversed
  BY <1>1, <1>2 DEF TransferReceiptRows
<1>4. /\ transferReceipts' = [transferReceipts EXCEPT ![r] = row]
      /\ transfers' = transfers /\ shortages' = shortages /\ UNCHANGED stockVars
  BY <1>2 DEF ApproveDamage
<1>5. /\ transferReceipts' \in Seq(TransferReceiptRows)
      /\ DOMAIN transferReceipts' = DOMAIN transferReceipts
      /\ transferReceipts'[r] = row
      /\ \A q \in DOMAIN transferReceipts : q # r => transferReceipts'[q] = transferReceipts[q]
  <2>1. /\ [transferReceipts EXCEPT ![r] = row] \in Seq(TransferReceiptRows)
        /\ DOMAIN [transferReceipts EXCEPT ![r] = row] = DOMAIN transferReceipts
        /\ [transferReceipts EXCEPT ![r] = row][r] = row
        /\ \A q \in DOMAIN transferReceipts :
             q # r => [transferReceipts EXCEPT ![r] = row][q] = transferReceipts[q]
    BY <1>1, <1>3, RowReplaced
  <2> QED
    BY <1>4, <2>1
<1>6. \A q \in DOMAIN transferReceipts :
        /\ transferReceipts'[q].of = transferReceipts[q].of
        /\ transferReceipts'[q].accepted = transferReceipts[q].accepted
        /\ transferReceipts'[q].damaged = transferReceipts[q].damaged
        /\ transferReceipts'[q].movement = transferReceipts[q].movement
        /\ transferReceipts'[q].reversed = transferReceipts[q].reversed
  BY <1>3, <1>5
<1>7. LedgerKept /\ PartStep(TransferClaims, TransferClaims') /\ movements' = movements
  <2>1. Kept(TransferClaims, TransferClaims')
    BY <1>4, <1>5, <1>6 DEF Kept, TransferClaims
  <2> QED
    BY <1>4, <2>1, StillClaims
<1>8. TransfersTypeOK'
  BY <1>4, <1>5 DEF TransfersInv, TransfersTypeOK
<1>9. ASSUME NEW q \in DOMAIN transferReceipts PROVE ReceiptStands(q)'
  <2>1. ReceiptStands(q)
    BY DEF TransfersInv
  <2>2. Dispatched(transferReceipts[q].of)'
    BY <1>4, <1>6, <2>1 DEF ReceiptStands, Dispatched
  <2> QED
    BY <1>6, <1>7, <2>1, <2>2, ReceiptStays DEF LedgerBase
<1>10. ASSUME NEW u \in DOMAIN transfers PROVE TransferAddsUp(u)'
  <2>1. MovesIn(u, transfers', transferReceipts') = MovesIn(u, transfers, transferReceipts)
    BY <1>4, <1>5, <1>6 DEF MovesIn
  <2>2. StandingIn(u, transferReceipts') = StandingIn(u, transferReceipts)
    BY <1>5, <1>6 DEF StandingIn
  <2>3. \A q \in StandingIn(u, transferReceipts) : q \in DOMAIN transferReceipts
    BY DEF StandingIn
  <2>4. /\ AcceptedIn(u, transferReceipts') = AcceptedIn(u, transferReceipts)
        /\ DamagedIn(u, transferReceipts') = DamagedIn(u, transferReceipts)
    BY <1>1, <1>6, <2>2, <2>3, ReceiptSumsStay
  <2>5. Untouched(MovesIn(u, transfers, transferReceipts)) /\ TransferAddsUp(u)
    BY <1>7 DEF Untouched, TransfersInv
  <2>6. MovesIn(u, transfers, transferReceipts) \subseteq DOMAIN movements /\ WholeLedger(movements)
    BY TransferMoves, LedgerIsWhole DEF LedgerBase
  <2> QED
    BY <1>4, <2>1, <2>4, <2>5, <2>6, TransferStays
<1> QED
  BY <1>4, <1>5, <1>7, <1>8, <1>9, <1>10 DEF TransfersInv

\* Stock comes in at the destination and nowhere else.
LEMMA DestinationLine ==
  ASSUME NEW q \in Int
  PROVE  /\ OneLine(Destination, q) \in [Locations -> Int]
         /\ OneLine(Destination, q)[Source] = 0 /\ OneLine(Destination, q)[Destination] = q
         /\ Stock!Opposite(OneLine(Destination, q))[Source] = 0
         /\ Stock!Opposite(OneLine(Destination, q))[Destination] = -q
  BY TransfersAssumption, LineIsTyped DEF Stock!Opposite

\* What a receipt says of the ledger, whether it moves stock or not.
ReceiptPosts(n, row) ==
  IF row.accepted > 0
  THEN /\ row.movement = n
       /\ Grows([delta |-> OneLine(Destination, row.accepted), reversalOf |-> 0])
  ELSE row.movement = 0 /\ row.accepted = 0 /\ movements' = movements

\* A receipt brings what it accepted into the destination, in one movement.
LEMMA ReceiveTransferActs ==
  ASSUME LedgerBase, TransfersInv, NEW t \in DOMAIN transfers,
         NEW accepted \in Nat, NEW damaged \in Nat, ReceiveTransfer(t, accepted, damaged)
  PROVE  LedgerKept /\ PartStep(TransferClaims, TransferClaims') /\ TransfersInv'
<1>1. PICK n : n = Len(movements) + 1
  OBVIOUS
<1>2. PICK p : p = Len(transferReceipts) + 1
  OBVIOUS
<1>3. /\ n \in Nat \ {0} /\ n \notin DOMAIN movements /\ WholeLedger(movements)
  <2>1. WholeLedger(movements) /\ Len(movements) \in Nat
    BY LedgerIsWhole, LedgerRows DEF LedgerBase
  <2> QED
    BY <1>1, <2>1, LedgerRows
<1>4. PICK row : row = [of |-> t, accepted |-> accepted, damaged |-> damaged,
                        movement |-> IF accepted > 0 THEN n ELSE 0,
                        damageApproved |-> FALSE, reversed |-> FALSE]
  OBVIOUS
<1>5. /\ row.of = t /\ row.accepted = accepted /\ row.damaged = damaged /\ ~row.reversed
      /\ row.movement = IF accepted > 0 THEN n ELSE 0
  BY <1>4
<1>6. /\ transferReceipts' = Append(transferReceipts, row)
      /\ transfers' = transfers /\ shortages' = shortages /\ shortages[t] = 0
      /\ Dispatched(t) /\ accepted + damaged <= InTransit(t)
  BY <1>1, <1>4 DEF ReceiveTransfer, NextMovement, ClosedShort, FitsInTransit
<1>7. /\ transferReceipts \in Seq(TransferReceiptRows) /\ row \in TransferReceiptRows
      /\ transfers \in Seq(TransferRows)
  <2>1. t \in Nat
    BY DEF TransfersInv, TransfersTypeOK
  <2> QED
    BY <1>3, <1>4, <2>1 DEF TransfersInv, TransfersTypeOK, TransferReceiptRows
<1>8. /\ DOMAIN transferReceipts' = DOMAIN transferReceipts \union {p}
      /\ p \notin DOMAIN transferReceipts /\ transferReceipts'[p] = row
      /\ \A r \in DOMAIN transferReceipts : transferReceipts'[r] = transferReceipts[r]
      /\ transferReceipts' \in Seq(TransferReceiptRows)
  BY <1>2, <1>6, <1>7
<1>9. LedgerKept /\ ReceiptPosts(n, row)
  <2>1. CASE accepted > 0
    <3>1. PostMovement(OneLine(Destination, accepted))
      BY <2>1 DEF ReceiveTransfer
    <3>2. /\ Ledger!IInv' /\ LedgerStep /\ Len(movements') <= MaxMovements
          /\ UNCHANGED reservations
          /\ Grows([delta |-> OneLine(Destination, accepted), reversalOf |-> 0])
          /\ LedgerMoves
      BY <3>1, DestinationLine, MovementKeepsLedger DEF LedgerBase
    <3> QED
      BY <1>5, <2>1, <3>2 DEF LedgerBase, LedgerKept, Bounded, ReceiptPosts
  <2>2. CASE ~(accepted > 0)
    <3>1. UNCHANGED stockVars
      BY <2>2 DEF ReceiveTransfer
    <3> QED
      BY <1>5, <2>2, <3>1, StillKeepsLedger DEF LedgerBase, LedgerKept, ReceiptPosts
  <2> QED
    BY <2>1, <2>2
<1>10. PICK mv : mv = [delta |-> OneLine(Destination, accepted), reversalOf |-> 0]
  OBVIOUS
<1>11. mv.reversalOf = 0 /\ mv.delta = OneLine(Destination, accepted)
  BY <1>10
<1>12. PartStep(TransferClaims, TransferClaims')
  <2>1. \A c \in TransferClaims' : c \in TransferClaims \/ c = <<2, p, row.movement>>
    BY <1>6, <1>8 DEF TransferClaims
  <2>2. <<2, p, row.movement>>[3] = row.movement
    OBVIOUS
  <2> QED
    BY <1>1, <1>5, <1>9, <1>10, <1>11, <2>1, <2>2 DEF PartStep, Kept, ReceiptPosts
<1>13. Moves(MovesIn(t, transfers, transferReceipts))
  BY <1>5, <1>9, <1>10, <1>11 DEF Moves, ReceiptPosts
<1>14. TransfersTypeOK'
  BY <1>6, <1>8 DEF TransfersInv, TransfersTypeOK
<1>15. \A m \in DOMAIN movements : m \in DOMAIN movements' /\ movements'[m] = movements[m]
  BY <1>3, <1>13, RowsStay
<1>16. ASSUME NEW r \in DOMAIN transferReceipts PROVE ReceiptStands(r)'
  <2>1. ReceiptStands(r)
    BY DEF TransfersInv
  <2>2. Dispatched(transferReceipts[r].of)'
    BY <1>6, <2>1 DEF ReceiptStands, Dispatched
  <2> QED
    BY <1>8, <1>15, <2>1, <2>2, ReceiptStays DEF LedgerBase
<1>17. ReceiptStands(p)'
  <2>1. Dispatched(row.of)'
    BY <1>5, <1>6 DEF Dispatched
  <2>2. row.movement # 0 => movements'[row.movement].delta = OneLine(Destination, row.accepted)
    <3>1. CASE accepted > 0
      <4>1. Grows(mv) /\ row.movement = n
        BY <1>5, <1>9, <1>10, <3>1 DEF ReceiptPosts
      <4>2. movements'[n] = mv
        BY <1>1, <1>3, <4>1, LedgerRows DEF Grows
      <4> QED
        BY <1>5, <1>11, <4>1, <4>2
    <3>2. CASE ~(accepted > 0)
      BY <1>5, <3>2
    <3> QED
      BY <3>1, <3>2
  <2>3. row.movement = 0 => row.accepted = 0
    BY <1>3, <1>5
  <2> QED
    BY <1>8, <2>1, <2>2, <2>3 DEF ReceiptStands, OneLine
<1>18. ASSUME NEW u \in DOMAIN transfers, u # t PROVE TransferAddsUp(u)'
  <2>1. MovesIn(u, transfers', transferReceipts') = MovesIn(u, transfers, transferReceipts)
    BY <1>5, <1>6, <1>8, <1>18 DEF MovesIn
  <2>2. /\ AcceptedIn(u, transferReceipts') = AcceptedIn(u, transferReceipts)
        /\ DamagedIn(u, transferReceipts') = DamagedIn(u, transferReceipts)
    BY <1>5, <1>6, <1>7, <1>18, ReceiptSumsGrow
  <2> QED
    BY <1>6, <1>13, <1>18, <2>1, <2>2, OtherTransfersStay
<1>19. TransferAddsUp(t)'
  <2> DEFINE ms == MovesIn(t, transfers, transferReceipts)
             ns == MovesIn(t, transfers', transferReceipts')
             A == AcceptedIn(t, transferReceipts)
             D == DamagedIn(t, transferReceipts)
             q == transfers[t].quantity
  <2>1. /\ AcceptedIn(t, transferReceipts') = A + accepted
        /\ DamagedIn(t, transferReceipts') = D + damaged
    BY <1>5, <1>6, <1>7, ReceiptSumsGrow
  <2>2. /\ transfers[t].movement # 0
        /\ Balances(q, NetIn(ms, movements, Source), NetIn(ms, movements, Destination), A, D, shortages[t])
    BY <1>6 DEF TransferAddsUp, TransfersInv, Dispatched
  <2>3. /\ A \in Nat /\ D \in Nat /\ q \in Nat /\ A + D <= q /\ A + D + accepted + damaged <= q
    <3>1. /\ A \in Nat /\ D \in Nat /\ q \in Nat
          /\ InTransit(t) = IF q - A - D - shortages[t] >= 0 THEN q - A - D - shortages[t] ELSE 0
      BY InTransitIs
    <3>2. A + D + shortages[t] <= q
      BY <2>2 DEF Balances
    <3> HIDE DEF A, D, q
    <3> QED
      BY <1>6, <3>1, <3>2
  <2>4. ms \subseteq DOMAIN movements
    BY TransferMoves DEF LedgerBase
  <2>5. /\ NetIn(ns, movements', Source) = NetIn(ms, movements, Source)
        /\ NetIn(ns, movements', Destination) = NetIn(ms, movements, Destination) + accepted
    <3>1. CASE accepted > 0
      <4>1. Grows(mv) /\ row.movement = n
        BY <1>5, <1>9, <1>10, <3>1 DEF ReceiptPosts
      <4>2. ns = ms \union {n}
        BY <1>3, <1>5, <1>6, <1>8, <4>1 DEF MovesIn
      <4>3. /\ NetIn(ms \union {n}, movements', Source) = NetIn(ms, movements, Source) + mv.delta[Source]
            /\ NetIn(ms, movements, Source) \in Int
        BY <1>1, <1>3, <2>4, <4>1, NetPosted, TransfersAssumption
      <4>4. NetIn(ms \union {n}, movements', Destination)
              = NetIn(ms, movements, Destination) + mv.delta[Destination]
        BY <1>1, <1>3, <2>4, <4>1, NetPosted, TransfersAssumption
      <4>5. mv.delta[Source] = 0 /\ mv.delta[Destination] = accepted
        BY <1>11, DestinationLine
      <4> HIDE DEF ms, ns
      <4> QED
        BY <4>2, <4>3, <4>4, <4>5
    <3>2. CASE ~(accepted > 0)
      <4>1. movements' = movements /\ row.movement = 0 /\ accepted = 0
        BY <1>5, <1>9, <3>2 DEF ReceiptPosts
      <4>2. ns = ms
        BY <1>5, <1>6, <1>8, <4>1 DEF MovesIn
      <4>3. NetIn(ms, movements, Destination) \in Int
        BY <1>3, NetIsInt, TransfersAssumption
      <4> HIDE DEF ms, ns
      <4> QED
        BY <4>1, <4>2, <4>3
    <3> QED
      BY <3>1, <3>2
  <2>6. Balances(q, NetIn(ns, movements', Source), NetIn(ns, movements', Destination),
                 A + accepted, D + damaged, 0)
    <3> HIDE DEF A, D, q, ms, ns
    <3> QED
      BY <2>2, <2>3, <2>5 DEF Balances
  <2> QED
    BY <1>6, <2>1, <2>2, <2>6 DEF TransferAddsUp, Dispatched
<1> QED
  BY <1>6, <1>8, <1>9, <1>12, <1>14, <1>16, <1>17, <1>18, <1>19 DEF TransfersInv

\* A reversed receipt is in transit again.
LEMMA ReverseReceiptActs ==
  ASSUME LedgerBase, TransfersInv, NEW r \in DOMAIN transferReceipts, ReverseTransferReceipt(r)
  PROVE  LedgerKept /\ PartStep(TransferClaims, TransferClaims') /\ TransfersInv'
<1>1. PICK old : old = transferReceipts[r]
  OBVIOUS
<1>2. /\ transferReceipts \in Seq(TransferReceiptRows) /\ old \in TransferReceiptRows
      /\ WholeLedger(movements)
  BY <1>1, LedgerIsWhole DEF TransfersInv, TransfersTypeOK, LedgerBase
<1>3. PICK t : t = old.of
  OBVIOUS
<1>4. /\ t \in DOMAIN transfers /\ Dispatched(t)
      /\ old.movement = 0 => old.accepted = 0
      /\ old.movement # 0 => movements[old.movement].delta = OneLine(Destination, old.accepted)
  BY <1>1, <1>3 DEF TransfersInv, ReceiptStands, Dispatched
<1>5. /\ old.accepted \in Nat /\ old.damaged \in Nat /\ old.movement \in Nat
  BY <1>2, TransferReceiptColumns
<1>6. PICK row : row = [old EXCEPT !.reversed = TRUE]
  OBVIOUS
<1>7. /\ row \in TransferReceiptRows /\ row.of = t /\ row.reversed
      /\ row.accepted = old.accepted /\ row.movement = old.movement
  BY <1>2, <1>3, <1>6 DEF TransferReceiptRows
<1>8. /\ transferReceipts' = [transferReceipts EXCEPT ![r] = row]
      /\ transfers' = transfers /\ shortages' = shortages
      /\ ~old.reversed /\ shortages[t] = 0
  BY <1>1, <1>3, <1>6 DEF ReverseTransferReceipt, ReceiptIsReversible, ClosedShort
<1>9. /\ transferReceipts' \in Seq(TransferReceiptRows)
      /\ DOMAIN transferReceipts' = DOMAIN transferReceipts
      /\ transferReceipts'[r] = row
      /\ \A q \in DOMAIN transferReceipts : q # r => transferReceipts'[q] = transferReceipts[q]
  <2>1. /\ [transferReceipts EXCEPT ![r] = row] \in Seq(TransferReceiptRows)
        /\ DOMAIN [transferReceipts EXCEPT ![r] = row] = DOMAIN transferReceipts
        /\ [transferReceipts EXCEPT ![r] = row][r] = row
        /\ \A q \in DOMAIN transferReceipts :
             q # r => [transferReceipts EXCEPT ![r] = row][q] = transferReceipts[q]
    BY <1>2, <1>7, RowReplaced
  <2> QED
    BY <1>8, <2>1
<1>10. \A q \in DOMAIN transferReceipts :
         /\ transferReceipts'[q].of = transferReceipts[q].of
         /\ transferReceipts'[q].accepted = transferReceipts[q].accepted
         /\ transferReceipts'[q].movement = transferReceipts[q].movement
  BY <1>1, <1>3, <1>7, <1>9
<1>11. PICK mv : mv = [delta |-> Stock!Opposite(movements[old.movement].delta),
                       reversalOf |-> old.movement]
  OBVIOUS
<1>12. mv.reversalOf = old.movement /\ mv.delta = Stock!Opposite(movements[old.movement].delta)
  BY <1>11
<1>13. /\ LedgerKept
       /\ old.movement # 0 => Grows(mv)
       /\ old.movement = 0 => movements' = movements
  <2>1. CASE old.movement # 0
    <3>1. ReverseMovement(old.movement)
      BY <1>1, <2>1 DEF ReverseTransferReceipt
    <3> QED
      BY <1>11, <2>1, <3>1, ReversalKeepsLedger DEF LedgerBase, LedgerKept, Bounded
  <2>2. CASE old.movement = 0
    <3>1. UNCHANGED stockVars
      BY <1>1, <2>2 DEF ReverseTransferReceipt
    <3> QED
      BY <2>2, <3>1, StillKeepsLedger DEF LedgerBase, LedgerKept
  <2> QED
    BY <2>1, <2>2
<1>14. old.movement # 0 => old.movement \in MovesIn(t, transfers, transferReceipts)
  BY <1>1, <1>3 DEF MovesIn
<1>15. MovesIn(t, transfers, transferReceipts) \subseteq MovesOf(TransferClaims)
  BY <1>4, TransferMoves DEF LedgerBase
<1>16. PartStep(TransferClaims, TransferClaims')
  <2>1. Kept(TransferClaims, TransferClaims')
    BY <1>8, <1>9, <1>10 DEF Kept, TransferClaims
  <2> QED
    BY <1>12, <1>13, <1>14, <1>15, <2>1 DEF PartStep
<1>17. Moves(MovesIn(t, transfers, transferReceipts))
  BY <1>12, <1>13, <1>14 DEF Moves
<1>18. TransfersTypeOK'
  BY <1>8, <1>9 DEF TransfersInv, TransfersTypeOK
<1>19. ASSUME NEW q \in DOMAIN transferReceipts PROVE ReceiptStands(q)'
  <2>1. ReceiptStands(q)
    BY DEF TransfersInv
  <2>2. Dispatched(transferReceipts[q].of)'
    BY <1>8, <1>10, <2>1 DEF ReceiptStands, Dispatched
  <2> QED
    BY <1>2, <1>10, <1>17, <2>1, <2>2, RowsStay, ReceiptStays DEF LedgerBase
<1>20. ReceiptReversed(transferReceipts, r, transferReceipts')
  BY <1>1, <1>7, <1>8, <1>9 DEF ReceiptReversed
<1>21. \A u : MovesIn(u, transfers', transferReceipts') = MovesIn(u, transfers, transferReceipts)
  BY <1>8, <1>9, <1>10 DEF MovesIn
<1>22. ASSUME NEW u \in DOMAIN transfers, u # t PROVE TransferAddsUp(u)'
  <2>1. /\ AcceptedIn(u, transferReceipts') = AcceptedIn(u, transferReceipts)
        /\ DamagedIn(u, transferReceipts') = DamagedIn(u, transferReceipts)
    BY <1>1, <1>2, <1>3, <1>20, <1>22, ReceiptSumsShrink
  <2> QED
    BY <1>4, <1>8, <1>17, <1>21, <1>22, <2>1, OtherTransfersStay
<1>23. TransferAddsUp(t)'
  <2> DEFINE ms == MovesIn(t, transfers, transferReceipts)
             A == AcceptedIn(t, transferReceipts)
             D == DamagedIn(t, transferReceipts)
             A1 == AcceptedIn(t, transferReceipts')
             D1 == DamagedIn(t, transferReceipts')
             q == transfers[t].quantity
  <2>1. /\ A = A1 + old.accepted /\ D = D1 + old.damaged
    BY <1>1, <1>2, <1>3, <1>20, ReceiptSumsShrink
  <2>2. A1 \in Nat /\ D1 \in Nat /\ q \in Nat
    BY <1>4, <1>9, ReceiptSums, InTransitIs
  <2>3. /\ transfers[t].movement # 0
        /\ Balances(q, NetIn(ms, movements, Source), NetIn(ms, movements, Destination), A, D, shortages[t])
    BY <1>4 DEF TransferAddsUp, TransfersInv, Dispatched
  <2>4. ms \subseteq DOMAIN movements
    BY <1>4, TransferMoves DEF LedgerBase
  <2>5. /\ NetIn(ms, movements', Source) = NetIn(ms, movements, Source)
        /\ NetIn(ms, movements', Destination) = NetIn(ms, movements, Destination) - old.accepted
    <3>1. CASE old.movement # 0
      <4>1. Grows(mv) /\ mv.reversalOf \in ms
        BY <1>12, <1>13, <1>14, <3>1
      <4>2. /\ NetIn(ms, movements', Source) = NetIn(ms, movements, Source) + mv.delta[Source]
            /\ NetIn(ms, movements, Source) \in Int
        BY <1>2, <2>4, <4>1, NetReversed, TransfersAssumption
      <4>3. /\ NetIn(ms, movements', Destination)
                 = NetIn(ms, movements, Destination) + mv.delta[Destination]
            /\ NetIn(ms, movements, Destination) \in Int
        BY <1>2, <2>4, <4>1, NetReversed, TransfersAssumption
      <4>4. mv.delta[Source] = 0 /\ mv.delta[Destination] = -old.accepted
        BY <1>4, <1>5, <1>12, <3>1, DestinationLine
      <4> HIDE DEF ms
      <4> QED
        BY <1>5, <4>2, <4>3, <4>4
    <3>2. CASE old.movement = 0
      <4>1. movements' = movements /\ old.accepted = 0
        BY <1>4, <1>13, <3>2
      <4>2. NetIn(ms, movements, Destination) \in Int
        BY <1>2, NetIsInt, TransfersAssumption
      <4> HIDE DEF ms
      <4> QED
        BY <4>1, <4>2
    <3> QED
      BY <3>1, <3>2
  <2>6. Balances(q, NetIn(ms, movements', Source), NetIn(ms, movements', Destination), A1, D1, 0)
    <3> HIDE DEF A, D, A1, D1, q, ms
    <3> QED
      BY <1>5, <1>8, <2>1, <2>2, <2>3, <2>5 DEF Balances
  <2> QED
    BY <1>4, <1>8, <1>21, <2>3, <2>6 DEF TransferAddsUp, Dispatched
<1> QED
  BY <1>8, <1>9, <1>13, <1>16, <1>18, <1>19, <1>22, <1>23 DEF TransfersInv

\* Transfers post and reverse their own movements, and add up.
LEMMA TransfersAct ==
  ASSUME LedgerBase, TransfersInv, TransfersNext
  PROVE  LedgerKept /\ PartStep(TransferClaims, TransferClaims') /\ TransfersInv'
<1>1. ASSUME NEW quantity \in TransferQuantities, CreateTransfer(quantity)
      PROVE  LedgerKept /\ PartStep(TransferClaims, TransferClaims') /\ TransfersInv'
  BY <1>1, CreateTransferActs
<1>2. ASSUME NEW t \in DOMAIN transfers, ApproveTransfer(t)
      PROVE  LedgerKept /\ PartStep(TransferClaims, TransferClaims') /\ TransfersInv'
  <2>1. /\ "approved" \in {"approved", "cancelled"} /\ transfers[t].status \in {"draft", "approved"}
        /\ transfers' = [transfers EXCEPT ![t].status = "approved"]
        /\ UNCHANGED <<transferReceipts, shortages, stockVars>>
    BY <1>2 DEF ApproveTransfer
  <2> QED
    BY <2>1, TransferMovesOn
<1>3. ASSUME NEW t \in DOMAIN transfers, CancelTransfer(t)
      PROVE  LedgerKept /\ PartStep(TransferClaims, TransferClaims') /\ TransfersInv'
  <2>1. /\ "cancelled" \in {"approved", "cancelled"} /\ transfers[t].status \in {"draft", "approved"}
        /\ transfers' = [transfers EXCEPT ![t].status = "cancelled"]
        /\ UNCHANGED <<transferReceipts, shortages, stockVars>>
    BY <1>3 DEF CancelTransfer
  <2> QED
    BY <2>1, TransferMovesOn
<1>4. ASSUME NEW t \in DOMAIN transfers, DispatchTransfer(t) \/ CloseShortage(t)
      PROVE  LedgerKept /\ PartStep(TransferClaims, TransferClaims') /\ TransfersInv'
  BY <1>4, DispatchTransferActs, CloseShortageActs
<1>5. ASSUME NEW t \in DOMAIN transfers,
             \E accepted, damaged \in 0..transfers[t].quantity : ReceiveTransfer(t, accepted, damaged)
      PROVE  LedgerKept /\ PartStep(TransferClaims, TransferClaims') /\ TransfersInv'
  <2>1. PICK accepted, damaged \in 0..transfers[t].quantity : ReceiveTransfer(t, accepted, damaged)
    BY <1>5
  <2>2. accepted \in Nat /\ damaged \in Nat
    BY InTransitIs
  <2> QED
    BY <2>1, <2>2, ReceiveTransferActs
<1>6. ASSUME NEW r \in DOMAIN transferReceipts, ApproveDamage(r) \/ ReverseTransferReceipt(r)
      PROVE  LedgerKept /\ PartStep(TransferClaims, TransferClaims') /\ TransfersInv'
  BY <1>6, ApproveDamageActs, ReverseReceiptActs
<1> QED
  BY <1>1, <1>2, <1>3, <1>4, <1>5, <1>6 DEF TransfersNext

\* The property of the module is in the invariant.
LEMMA TransfersAddUp ==
  ASSUME WholeLedger(movements), TransfersInv
  PROVE  TransitAddsUp
<1> SUFFICES ASSUME NEW t \in DOMAIN transfers, Dispatched(t)
             PROVE  LET posted == MovementsOf(t) \ {0} IN
                    /\ -NetOf(posted, Source) = transfers[t].quantity
                    /\ NetOf(posted, Destination) + Damaged(t) + shortages[t] + InTransit(t)
                         = transfers[t].quantity
                    /\ ClosedShort(t) => InTransit(t) = 0
  BY DEF TransitAddsUp
<1> DEFINE ms == MovesIn(t, transfers, transferReceipts)
           A == AcceptedIn(t, transferReceipts)
           D == DamagedIn(t, transferReceipts)
           q == transfers[t].quantity
           source == NetIn(ms, movements, Source)
           destination == NetIn(ms, movements, Destination)
<1>1. Balances(q, source, destination, A, D, shortages[t])
  BY DEF TransfersInv, TransferAddsUp, Dispatched
<1>2. MovementsOf(t) \ {0} = ms
  BY DEF MovementsOf, MovesIn
<1>3. NetOf(ms, Source) = source /\ NetOf(ms, Destination) = destination
  BY DEF NetOf, NetIn, RowsIn
<1>4. /\ A \in Nat /\ D \in Nat /\ q \in Nat /\ shortages[t] \in Nat /\ Damaged(t) = D
      /\ InTransit(t) = IF q - A - D - shortages[t] >= 0 THEN q - A - D - shortages[t] ELSE 0
  BY InTransitIs
<1> HIDE DEF ms, A, D, q, source, destination
<1>5. /\ -source = q /\ destination + D + shortages[t] + InTransit(t) = q
      /\ shortages[t] # 0 => InTransit(t) = 0
  BY <1>1, <1>4 DEF Balances
<1> QED
  BY <1>2, <1>3, <1>4, <1>5 DEF q, ClosedShort

-----------------------------------------------------------------------------
(* Purchasing.                                                             *)

\* The receipts that count for the order, and the returns that count for one.
PostedIn(rs) == {g \in DOMAIN rs : rs[g].status = "posted"}
BackIn(g, vs) == {v \in DOMAIN vs : vs[v].of = g /\ vs[v].status = "posted"}

LeftIn(rs, l) ==
  Ordered[l] - AcceptedOf(rs, PostedIn(rs), l) - ClosedOf(rs, PostedIn(rs), l)
ReturnedIn(g, l, vs) == SumFunctionOnSet([v \in BackIn(g, vs) |-> vs[v].lines[l]], BackIn(g, vs))
StaysIn(rs, vs, l) ==
  SumFunctionOnSet([g \in PostedIn(rs) |-> rs[g].accepted[l] - ReturnedIn(g, l, vs)], PostedIn(rs))
PurchaseMovesIn(rs, vs) ==
  ({rs[g].movement : g \in DOMAIN rs} \union {vs[v].movement : v \in DOMAIN vs}) \ {0}

\* The properties of the module, said of the tables.
OrderIsCovered(rs) == \A l \in OrderLines : LeftIn(rs, l) >= 0
LedgerHoldsRest(t, rs, vs) ==
  \A l \in OrderLines : NetIn(PurchaseMovesIn(rs, vs), t, l) = StaysIn(rs, vs, l)
BackedReturns(rs, vs) ==
  \A v \in DOMAIN vs : vs[v].status \in ActiveReturns => vs[v].of \in PostedIn(rs)
ReturnsFit(rs, vs) ==
  \A g \in DOMAIN rs : \A l \in OrderLines : ReturnedIn(g, l, vs) <= rs[g].accepted[l]

PurchasingAdds ==
  /\ OrderIsCovered(goodsReceipts)
  /\ LedgerHoldsRest(movements, goodsReceipts, supplierReturns)
ReturnsAdd ==
  /\ BackedReturns(goodsReceipts, supplierReturns)
  /\ ReturnsFit(goodsReceipts, supplierReturns)

\* The sums of purchasing, stated of the tables as parameters.
LEMMA PurchaseTables ==
  PurchasingTyped => (PurchaseAddsUp <=> PurchasingAdds) /\ (ReturnsAreCovered <=> ReturnsAdd)
<1> SUFFICES ASSUME PurchasingTyped
             PROVE  (PurchaseAddsUp <=> PurchasingAdds) /\ (ReturnsAreCovered <=> ReturnsAdd)
  OBVIOUS
<1>1. \A l \in OrderLines : Remaining(l) = LeftIn(goodsReceipts, l)
  BY DEF Remaining, LeftIn, PostedReceipts, PostedIn
<1>2. \A g, l : Returned(g, l) = ReturnedIn(g, l, supplierReturns)
  BY DEF Returned, ReturnedIn, PostedReturns, BackIn
<1>3. \A l : NetOf(PurchaseMovements, l)
               = NetIn(PurchaseMovesIn(goodsReceipts, supplierReturns), movements, l)
  BY DEF NetOf, NetIn, RowsIn, PurchaseMovements, PurchaseMovesIn
<1>4. \A l : SumFunctionOnSet([g \in PostedReceipts |-> goodsReceipts[g].accepted[l] - Returned(g, l)],
                              PostedReceipts)
               = StaysIn(goodsReceipts, supplierReturns, l)
  BY <1>2 DEF StaysIn, PostedReceipts, PostedIn
<1>5. /\ \A v \in DOMAIN supplierReturns : supplierReturns[v].of \in DOMAIN goodsReceipts
  BY DEF PurchasingTyped, PurchasingTypeOK
<1>6. (\A g \in DOMAIN goodsReceipts : BlockedByReturn(g) => goodsReceipts[g].status = "posted")
        <=> BackedReturns(goodsReceipts, supplierReturns)
  BY <1>5 DEF BlockedByReturn, BackedReturns, PostedIn
<1>7. PurchaseAddsUp <=> PurchasingAdds
  BY <1>1, <1>3, <1>4 DEF PurchaseAddsUp, PurchasingAdds, OrderIsCovered, LedgerHoldsRest
<1>8. ReturnsAreCovered <=> ReturnsAdd
  BY <1>2, <1>6 DEF ReturnsAreCovered, ReturnsAdd, ReturnsFit
<1> QED
  BY <1>7, <1>8

\* The same after a step.
LEMMA PurchaseTablesAfter ==
  PurchasingTyped' =>
    (PurchaseAddsUp' <=> PurchasingAdds') /\ (ReturnsAreCovered' <=> ReturnsAdd')
  BY PurchaseTables, PTL

\* The lines of an order are finite and their amounts are quantities.
LEMMA OrderLinesAreFinite ==
  /\ IsFiniteSet(OrderLines)
  /\ \A lines \in [OrderLines -> Nat] : Amount(lines) \in Nat
  /\ Amount(Ordered) \in Nat
  /\ LineQuantities \subseteq [OrderLines -> Nat]
<1>1. IsFiniteSet(OrderLines)
  <2>1. IsFiniteSet(Locations)
    BY DocumentStockAssumption DEF Stock!LocationsAssumption, Stock!IsFiniteSet, IsFiniteSet
  <2>2. OrderLines \subseteq Locations
    BY PurchasingAssumption
  <2> QED
    BY <2>1, <2>2, FS_Subset
<1>2. ASSUME NEW lines \in [OrderLines -> Nat] PROVE Amount(lines) \in Nat
  BY <1>1, SumNat DEF Amount
<1>3. Amount(Ordered) \in Nat
  <2>1. Ordered \in [OrderLines -> Nat]
    BY PurchasingAssumption
  <2> QED
    BY <1>2, <2>1
<1>4. LineQuantities \subseteq [OrderLines -> Nat]
  BY <1>3 DEF LineQuantities
<1> QED
  BY <1>1, <1>2, <1>3, <1>4

\* The columns of a goods receipt.
LEMMA ReceiptColumns ==
  ASSUME NEW row \in ReceiptRows, NEW l \in OrderLines
  PROVE  row.accepted[l] \in Nat /\ row.closed[l] \in Nat /\ row.movement \in Nat
  BY DEF ReceiptRows

\* The columns of a return to the supplier.
LEMMA ReturnColumns ==
  ASSUME NEW row \in ReturnRows, NEW l \in OrderLines
  PROVE  row.lines[l] \in Nat /\ row.movement \in Nat
  BY DEF ReturnRows

\* The sums of purchasing are over rows of its tables.
LEMMA PurchaseSums ==
  ASSUME NEW rs \in Seq(ReceiptRows), NEW l \in OrderLines
  PROVE  /\ IsFiniteSet(PostedIn(rs))
         /\ \A g \in PostedIn(rs) : rs[g] \in ReceiptRows
         /\ AcceptedOf(rs, PostedIn(rs), l) \in Nat /\ ClosedOf(rs, PostedIn(rs), l) \in Nat
         /\ LeftIn(rs, l) \in Int
<1>1. Len(rs) \in Nat /\ DOMAIN rs = 1..Len(rs) /\ \A g \in DOMAIN rs : rs[g] \in ReceiptRows
  OBVIOUS
<1>2. PostedIn(rs) \subseteq DOMAIN rs
  BY DEF PostedIn
<1>3. IsFiniteSet(PostedIn(rs))
  <2>1. IsFiniteSet(DOMAIN rs)
    BY <1>1, FS_Interval
  <2> QED
    BY <1>2, <2>1, FS_Subset
<1>4. \A g \in PostedIn(rs) : /\ [h \in PostedIn(rs) |-> rs[h].accepted[l]][g] \in Nat
                              /\ [h \in PostedIn(rs) |-> rs[h].closed[l]][g] \in Nat
  BY <1>1, <1>2, ReceiptColumns
<1>5. AcceptedOf(rs, PostedIn(rs), l) \in Nat
  BY <1>3, <1>4, SumNat DEF AcceptedOf
<1>6. ClosedOf(rs, PostedIn(rs), l) \in Nat
  BY <1>3, <1>4, SumNat DEF ClosedOf
<1>7. Ordered[l] \in Nat
  BY PurchasingAssumption
<1>8. LeftIn(rs, l) \in Int
  BY <1>5, <1>6, <1>7 DEF LeftIn
<1> QED
  BY <1>1, <1>2, <1>3, <1>5, <1>6, <1>8

\* What was returned of a receipt is a quantity.
LEMMA ReturnSums ==
  ASSUME NEW vs \in Seq(ReturnRows), NEW g, NEW l \in OrderLines
  PROVE  /\ IsFiniteSet(BackIn(g, vs))
         /\ \A v \in BackIn(g, vs) : vs[v] \in ReturnRows
         /\ ReturnedIn(g, l, vs) \in Nat
<1>1. Len(vs) \in Nat /\ DOMAIN vs = 1..Len(vs) /\ \A v \in DOMAIN vs : vs[v] \in ReturnRows
  OBVIOUS
<1>2. BackIn(g, vs) \subseteq DOMAIN vs
  BY DEF BackIn
<1>3. IsFiniteSet(BackIn(g, vs))
  <2>1. IsFiniteSet(DOMAIN vs)
    BY <1>1, FS_Interval
  <2> QED
    BY <1>2, <2>1, FS_Subset
<1>4. \A v \in BackIn(g, vs) : [w \in BackIn(g, vs) |-> vs[w].lines[l]][v] \in Nat
  BY <1>1, <1>2, ReturnColumns
<1>5. ReturnedIn(g, l, vs) \in Nat
  BY <1>3, <1>4, SumNat DEF ReturnedIn
<1> QED
  BY <1>1, <1>2, <1>3, <1>5

\* The table us has the posted receipts of rs, or g more.
SamePosted(rs, us) ==
  PostedIn(us) = PostedIn(rs) /\ \A h \in PostedIn(rs) : us[h] = rs[h]
OneMorePosted(rs, g, us) ==
  /\ PostedIn(us) = PostedIn(rs) \union {g} /\ g \notin PostedIn(rs)
  /\ \A h \in PostedIn(rs) : us[h] = rs[h]

\* The sums do not change while the same receipts are posted.
LEMMA SamePostedSums ==
  ASSUME NEW rs \in Seq(ReceiptRows), NEW us, SamePosted(rs, us), NEW l \in OrderLines, NEW vs
  PROVE  LeftIn(us, l) = LeftIn(rs, l) /\ StaysIn(us, vs, l) = StaysIn(rs, vs, l)
<1> DEFINE P == PostedIn(rs)
<1>1. PostedIn(us) = P /\ IsFiniteSet(P) /\ \A h \in P : us[h] = rs[h]
  BY PurchaseSums DEF SamePosted
<1> HIDE DEF P
<1>2. SumFunctionOnSet([h \in P |-> us[h].accepted[l]], P)
        = SumFunctionOnSet([h \in P |-> rs[h].accepted[l]], P)
  BY <1>1, SumCongruence
<1>3. SumFunctionOnSet([h \in P |-> us[h].closed[l]], P)
        = SumFunctionOnSet([h \in P |-> rs[h].closed[l]], P)
  BY <1>1, SumCongruence
<1>4. SumFunctionOnSet([h \in P |-> us[h].accepted[l] - ReturnedIn(h, l, vs)], P)
        = SumFunctionOnSet([h \in P |-> rs[h].accepted[l] - ReturnedIn(h, l, vs)], P)
  BY <1>1, SumCongruence
<1> QED
  BY <1>1, <1>2, <1>3, <1>4 DEF LeftIn, StaysIn, AcceptedOf, ClosedOf, P

\* A receipt that is posted counts once in the sums.
LEMMA OneMorePostedSums ==
  ASSUME NEW rs \in Seq(ReceiptRows), NEW g, NEW us \in Seq(ReceiptRows),
         OneMorePosted(rs, g, us), NEW l \in OrderLines
  PROVE  /\ LeftIn(us, l) = LeftIn(rs, l) - us[g].accepted[l] - us[g].closed[l]
         /\ us[g].accepted[l] \in Nat /\ us[g].closed[l] \in Nat /\ LeftIn(rs, l) \in Int
<1> DEFINE P == PostedIn(rs)
           Q == PostedIn(us)
           f == [h \in P |-> rs[h].accepted[l]]
           k == [h \in Q |-> us[h].accepted[l]]
           f1 == [h \in P |-> rs[h].closed[l]]
           k1 == [h \in Q |-> us[h].closed[l]]
<1>1. /\ IsFiniteSet(P) /\ Q = P \union {g} /\ g \notin P /\ g \in Q
      /\ \A h \in P : us[h] = rs[h] /\ rs[h] \in ReceiptRows
      /\ us[g] \in ReceiptRows
  BY PurchaseSums DEF OneMorePosted
<1>2. us[g].accepted[l] \in Nat /\ us[g].closed[l] \in Nat
  BY <1>1, ReceiptColumns
<1>3. /\ k[g] = us[g].accepted[l] /\ k1[g] = us[g].closed[l]
      /\ k[g] \in Int /\ k1[g] \in Int
  BY <1>1, <1>2
<1>4. \A h \in P : f[h] \in Int /\ k[h] = f[h] /\ f1[h] \in Int /\ k1[h] = f1[h]
  <2>1. ASSUME NEW h \in P
        PROVE  us[h] = rs[h] /\ h \in Q /\ rs[h].accepted[l] \in Int /\ rs[h].closed[l] \in Int
    BY <1>1, ReceiptColumns
  <2> HIDE DEF P, Q
  <2> QED
    BY <2>1
<1>5. /\ AcceptedOf(rs, P, l) = SumFunctionOnSet(f, P) /\ AcceptedOf(us, Q, l) = SumFunctionOnSet(k, Q)
      /\ ClosedOf(rs, P, l) = SumFunctionOnSet(f1, P) /\ ClosedOf(us, Q, l) = SumFunctionOnSet(k1, Q)
  BY DEF AcceptedOf, ClosedOf
<1>6. LeftIn(rs, l) \in Int /\ Ordered[l] \in Int
  BY PurchaseSums, PurchasingAssumption
<1> HIDE DEF P, Q, f, k, f1, k1
<1>7. SumFunctionOnSet(k, P \union {g}) = SumFunctionOnSet(f, P) + k[g] /\ SumFunctionOnSet(f, P) \in Int
  BY <1>1, <1>2, <1>3, <1>4, SumExtend
<1>8. SumFunctionOnSet(k1, P \union {g}) = SumFunctionOnSet(f1, P) + k1[g] /\ SumFunctionOnSet(f1, P) \in Int
  BY <1>1, <1>2, <1>3, <1>4, SumExtend
<1>9. /\ AcceptedOf(us, Q, l) = AcceptedOf(rs, P, l) + us[g].accepted[l]
      /\ ClosedOf(us, Q, l) = ClosedOf(rs, P, l) + us[g].closed[l]
      /\ AcceptedOf(rs, P, l) \in Int /\ ClosedOf(rs, P, l) \in Int
  BY <1>1, <1>3, <1>5, <1>7, <1>8
<1>10. /\ LeftIn(rs, l) = Ordered[l] - AcceptedOf(rs, P, l) - ClosedOf(rs, P, l)
       /\ LeftIn(us, l) = Ordered[l] - AcceptedOf(us, Q, l) - ClosedOf(us, Q, l)
  BY DEF LeftIn, P, Q
<1>11. PICK a, b, o, x, y :
         /\ a = us[g].accepted[l] /\ b = us[g].closed[l]
         /\ o = Ordered[l] /\ x = AcceptedOf(rs, P, l) /\ y = ClosedOf(rs, P, l)
  OBVIOUS
<1>12. /\ a \in Int /\ b \in Int /\ o \in Int /\ x \in Int /\ y \in Int
       /\ LeftIn(rs, l) = o - x - y /\ LeftIn(us, l) = o - (x + a) - (y + b)
  BY <1>2, <1>6, <1>9, <1>10, <1>11
<1>13. LeftIn(us, l) = LeftIn(rs, l) - a - b
  BY <1>12
<1> QED
  BY <1>2, <1>6, <1>11, <1>13

\* A receipt that nothing was sent back of counts with all it accepted.
LEMMA OneMorePostedStays ==
  ASSUME NEW rs \in Seq(ReceiptRows), NEW g, NEW us \in Seq(ReceiptRows),
         OneMorePosted(rs, g, us), NEW l \in OrderLines,
         NEW vs \in Seq(ReturnRows), ReturnedIn(g, l, vs) = 0
  PROVE  /\ StaysIn(us, vs, l) = StaysIn(rs, vs, l) + us[g].accepted[l]
         /\ StaysIn(rs, vs, l) \in Int /\ us[g].accepted[l] \in Nat
<1> DEFINE P == PostedIn(rs)
           Q == PostedIn(us)
           f == [h \in P |-> rs[h].accepted[l] - ReturnedIn(h, l, vs)]
           k == [h \in Q |-> us[h].accepted[l] - ReturnedIn(h, l, vs)]
<1>1. /\ IsFiniteSet(P) /\ Q = P \union {g} /\ g \notin P /\ g \in Q
      /\ \A h \in P : us[h] = rs[h] /\ rs[h] \in ReceiptRows
      /\ us[g] \in ReceiptRows
  BY PurchaseSums DEF OneMorePosted
<1>2. us[g].accepted[l] \in Nat
  BY <1>1, ReceiptColumns
<1>3. k[g] = us[g].accepted[l] /\ k[g] \in Int
  BY <1>1, <1>2
<1>4. \A h \in P : f[h] \in Int /\ k[h] = f[h]
  <2>1. ASSUME NEW h \in P
        PROVE  /\ us[h] = rs[h] /\ h \in Q /\ rs[h].accepted[l] \in Int
               /\ ReturnedIn(h, l, vs) \in Int
    BY <1>1, ReceiptColumns, ReturnSums
  <2> HIDE DEF P, Q
  <2> QED
    BY <2>1
<1>5. StaysIn(rs, vs, l) = SumFunctionOnSet(f, P) /\ StaysIn(us, vs, l) = SumFunctionOnSet(k, Q)
  BY DEF StaysIn
<1> HIDE DEF P, Q, f, k
<1>6. SumFunctionOnSet(k, P \union {g}) = SumFunctionOnSet(f, P) + k[g] /\ SumFunctionOnSet(f, P) \in Int
  BY <1>1, <1>3, <1>4, SumExtend
<1> QED
  BY <1>1, <1>2, <1>3, <1>5, <1>6

\* The table ws has the posted returns of vs, or v more.
SameBack(vs, ws) ==
  \A g : /\ BackIn(g, ws) = BackIn(g, vs)
         /\ \A w \in BackIn(g, vs) : ws[w].lines = vs[w].lines
OneMoreBack(vs, v, ws) ==
  \A g : /\ BackIn(g, ws) = IF g = ws[v].of THEN BackIn(g, vs) \union {v} ELSE BackIn(g, vs)
         /\ v \notin BackIn(g, vs)
         /\ \A w \in BackIn(g, vs) : ws[w].lines = vs[w].lines

\* What was returned of a receipt depends on its posted returns alone.
LEMMA SameReturned ==
  ASSUME NEW vs \in Seq(ReturnRows), NEW ws, NEW g, NEW l \in OrderLines,
         BackIn(g, ws) = BackIn(g, vs),
         \A w \in BackIn(g, vs) : ws[w].lines = vs[w].lines
  PROVE  ReturnedIn(g, l, ws) = ReturnedIn(g, l, vs)
<1> DEFINE S == BackIn(g, vs)
<1>1. IsFiniteSet(S)
  BY ReturnSums
<1>2. \A w \in S : ws[w].lines = vs[w].lines
  OBVIOUS
<1> HIDE DEF S
<1>3. SumFunctionOnSet([w \in S |-> ws[w].lines[l]], S)
        = SumFunctionOnSet([w \in S |-> vs[w].lines[l]], S)
  BY <1>1, <1>2, SumCongruence
<1> QED
  BY <1>3 DEF ReturnedIn, S

\* The sums do not change while the same returns are posted.
LEMMA SameBackSums ==
  ASSUME NEW rs \in Seq(ReceiptRows), NEW vs \in Seq(ReturnRows), NEW ws, SameBack(vs, ws),
         NEW l \in OrderLines
  PROVE  StaysIn(rs, ws, l) = StaysIn(rs, vs, l) /\ \A g : ReturnedIn(g, l, ws) = ReturnedIn(g, l, vs)
<1> DEFINE P == PostedIn(rs)
<1>1. IsFiniteSet(P)
  BY PurchaseSums
<1>2. \A g : ReturnedIn(g, l, ws) = ReturnedIn(g, l, vs)
  BY SameReturned DEF SameBack
<1> HIDE DEF P
<1>3. SumFunctionOnSet([h \in P |-> rs[h].accepted[l] - ReturnedIn(h, l, ws)], P)
        = SumFunctionOnSet([h \in P |-> rs[h].accepted[l] - ReturnedIn(h, l, vs)], P)
  BY <1>1, <1>2, SumCongruence
<1> QED
  BY <1>2, <1>3 DEF StaysIn, P

\* A return that is posted counts once, against its own receipt.
LEMMA OneMoreReturned ==
  ASSUME NEW vs \in Seq(ReturnRows), NEW v, NEW ws \in Seq(ReturnRows), OneMoreBack(vs, v, ws),
         NEW l \in OrderLines
  PROVE  /\ ReturnedIn(ws[v].of, l, ws) = ReturnedIn(ws[v].of, l, vs) + ws[v].lines[l]
         /\ ws[v].lines[l] \in Nat
         /\ \A g : g # ws[v].of => ReturnedIn(g, l, ws) = ReturnedIn(g, l, vs)
<1>0. PICK o : o = ws[v].of
  OBVIOUS
<1> DEFINE S == BackIn(o, vs)
           T == BackIn(o, ws)
           f == [w \in S |-> vs[w].lines[l]]
           k == [w \in T |-> ws[w].lines[l]]
<1>1. /\ IsFiniteSet(S) /\ T = S \union {v} /\ v \notin S /\ v \in T
      /\ \A w \in S : ws[w].lines = vs[w].lines /\ vs[w] \in ReturnRows
      /\ ws[v] \in ReturnRows
  BY <1>0, ReturnSums DEF OneMoreBack
<1>2. ws[v].lines[l] \in Nat
  BY <1>1, ReturnColumns
<1>3. k[v] = ws[v].lines[l] /\ k[v] \in Int
  BY <1>1, <1>2
<1>4. \A w \in S : f[w] \in Int /\ k[w] = f[w]
  <2>1. ASSUME NEW w \in S
        PROVE  ws[w].lines = vs[w].lines /\ w \in T /\ vs[w].lines[l] \in Int
    BY <1>1, ReturnColumns
  <2> HIDE DEF S, T
  <2> QED
    BY <2>1
<1>5. ReturnedIn(o, l, vs) = SumFunctionOnSet(f, S) /\ ReturnedIn(o, l, ws) = SumFunctionOnSet(k, T)
  BY DEF ReturnedIn
<1>6. \A g : g # o => ReturnedIn(g, l, ws) = ReturnedIn(g, l, vs)
  BY <1>0, SameReturned DEF OneMoreBack
<1> HIDE DEF S, T, f, k
<1>7. SumFunctionOnSet(k, S \union {v}) = SumFunctionOnSet(f, S) + k[v]
  BY <1>1, <1>3, <1>4, SumExtend
<1> QED
  BY <1>0, <1>1, <1>2, <1>3, <1>5, <1>6, <1>7

\* A posted return leaves less of what was received.
LEMMA OneMoreReturnedStays ==
  ASSUME NEW rs \in Seq(ReceiptRows), NEW vs \in Seq(ReturnRows), NEW v,
         NEW ws \in Seq(ReturnRows), OneMoreBack(vs, v, ws), ws[v].of \in PostedIn(rs),
         NEW l \in OrderLines
  PROVE  /\ StaysIn(rs, ws, l) = StaysIn(rs, vs, l) - ws[v].lines[l]
         /\ StaysIn(rs, vs, l) \in Int /\ ws[v].lines[l] \in Nat
<1>0. PICK o : o = ws[v].of
  OBVIOUS
<1> DEFINE P == PostedIn(rs)
           f == [h \in P |-> rs[h].accepted[l] - ReturnedIn(h, l, vs)]
           k == [h \in P |-> rs[h].accepted[l] - ReturnedIn(h, l, ws)]
<1>1. /\ IsFiniteSet(P) /\ o \in P /\ \A h \in P : rs[h] \in ReceiptRows
  BY <1>0, PurchaseSums
<1>2. /\ ReturnedIn(o, l, ws) = ReturnedIn(o, l, vs) + ws[v].lines[l]
      /\ ws[v].lines[l] \in Nat
      /\ \A g : g # o => ReturnedIn(g, l, ws) = ReturnedIn(g, l, vs)
  BY <1>0, OneMoreReturned
<1>3. \A h \in P : /\ rs[h].accepted[l] \in Int
                   /\ ReturnedIn(h, l, vs) \in Int /\ ReturnedIn(h, l, ws) \in Int
  BY <1>1, ReceiptColumns, ReturnSums
<1>4. \A h \in P : f[h] \in Int
  <2> HIDE DEF P
  <2> QED
    BY <1>3
<1>5. \A h \in P \ {o} : k[h] = f[h]
  <2> HIDE DEF P
  <2> QED
    BY <1>2
<1>6. k[o] \in Int /\ k[o] = f[o] - ws[v].lines[l]
  <2>1. PICK a, x, y, b : /\ a = rs[o].accepted[l] /\ b = ws[v].lines[l]
                          /\ x = ReturnedIn(o, l, vs) /\ y = ReturnedIn(o, l, ws)
    OBVIOUS
  <2>2. a \in Int /\ x \in Int /\ y \in Int /\ b \in Int /\ y = x + b
    BY <1>1, <1>2, <1>3, <2>1
  <2>3. f[o] = a - x /\ k[o] = a - y
    BY <1>1, <2>1
  <2> HIDE DEF f, k, P
  <2>4. k[o] \in Int /\ k[o] = f[o] - b
    BY ONLY <2>2, <2>3
  <2> QED
    BY <2>1, <2>4
<1>7. StaysIn(rs, vs, l) = SumFunctionOnSet(f, P) /\ StaysIn(rs, ws, l) = SumFunctionOnSet(k, P)
  BY DEF StaysIn
<1>8. f[o] \in Int
  BY <1>1, <1>4
<1> HIDE DEF P, f, k
<1>9. SumFunctionOnSet(k, P) = SumFunctionOnSet(f, P) + k[o] - f[o]
  BY <1>1, <1>4, <1>5, <1>6, SumUpdate
<1>10. SumFunctionOnSet(f, P) \in Int
  BY <1>1, <1>4, SumType
<1>11. PICK b : b = ws[v].lines[l]
  OBVIOUS
<1> QED
  BY <1>2, <1>6, <1>7, <1>8, <1>9, <1>10, <1>11

\* The movements of purchasing are its own.
LEMMA PurchaseMoves ==
  ASSUME ClaimsArePosted
  PROVE  /\ PurchaseMovesIn(goodsReceipts, supplierReturns) = MovesOf(PurchaseClaims)
         /\ MovesOf(PurchaseClaims) \subseteq DOMAIN movements
         /\ \A g \in DOMAIN goodsReceipts :
              goodsReceipts[g].movement # 0 => goodsReceipts[g].movement \in MovesOf(PurchaseClaims)
         /\ \A v \in DOMAIN supplierReturns :
              supplierReturns[v].movement # 0 => supplierReturns[v].movement \in MovesOf(PurchaseClaims)
<1>1. \A g \in DOMAIN goodsReceipts :
        /\ <<4, g, goodsReceipts[g].movement>> \in PurchaseClaims
        /\ <<4, g, goodsReceipts[g].movement>>[3] = goodsReceipts[g].movement
  BY DEF PurchaseClaims
<1>2. \A v \in DOMAIN supplierReturns :
        /\ <<5, v, supplierReturns[v].movement>> \in PurchaseClaims
        /\ <<5, v, supplierReturns[v].movement>>[3] = supplierReturns[v].movement
  BY DEF PurchaseClaims
<1>3. PurchaseMovesIn(goodsReceipts, supplierReturns) \subseteq MovesOf(PurchaseClaims)
  BY <1>1, <1>2 DEF PurchaseMovesIn, MovesOf
<1>4. ASSUME NEW c \in PurchaseClaims, c[3] # 0
      PROVE  c[3] \in PurchaseMovesIn(goodsReceipts, supplierReturns)
  BY <1>4 DEF PurchaseMovesIn, PurchaseClaims
<1>5. MovesOf(PurchaseClaims) \subseteq PurchaseMovesIn(goodsReceipts, supplierReturns)
  BY <1>4 DEF MovesOf
<1>6. MovesOf(PurchaseClaims) \subseteq DOMAIN movements
  BY ClaimedRows, PartsAreApart
<1> QED
  BY <1>1, <1>2, <1>3, <1>5, <1>6 DEF MovesOf

\* Drafts are added, and the receipts there are stay.
ReceiptsGrow(rs, us) ==
  /\ DOMAIN rs \subseteq DOMAIN us
  /\ \A g \in DOMAIN us :
       IF g \in DOMAIN rs THEN us[g] = rs[g] ELSE us[g].status = "draft" /\ us[g].movement = 0

\* Drafts are added, and returns move between states that count for nothing.
ReturnsMove(vs, ws) ==
  /\ DOMAIN vs \subseteq DOMAIN ws
  /\ \A v \in DOMAIN ws :
       IF v \in DOMAIN vs
       THEN /\ ws[v].of = vs[v].of /\ ws[v].lines = vs[v].lines /\ ws[v].movement = vs[v].movement
            /\ ws[v].status = "posted" <=> vs[v].status = "posted"
            /\ ws[v].status = "reversed" <=> vs[v].status = "reversed"
       ELSE ws[v].status = "draft" /\ ws[v].movement = 0

\* The purchases stay posted when the ledger only grows.
LEMMA PurchasesStayPosted ==
  ASSUME \A m \in DOMAIN movements : m \in DOMAIN movements' /\ movements'[m] = movements[m],
         ClaimsArePosted, PurchasesArePosted,
         ReceiptsGrow(goodsReceipts, goodsReceipts'),
         ReturnsMove(supplierReturns, supplierReturns')
  PROVE  PurchasesArePosted'
<1>1. /\ \A g \in DOMAIN goodsReceipts : goodsReceipts[g].movement # 0 =>
           goodsReceipts[g].movement \in DOMAIN movements
      /\ \A v \in DOMAIN supplierReturns : supplierReturns[v].movement # 0 =>
           supplierReturns[v].movement \in DOMAIN movements
  BY PurchaseMoves
<1>2. ASSUME NEW g \in DOMAIN goodsReceipts'
      PROVE  ReceiptIsPosted(goodsReceipts'[g], movements')
  <2>1. CASE g \in DOMAIN goodsReceipts
    BY <1>1, <2>1 DEF ReceiptsGrow, PurchasesArePosted, ReceiptIsPosted
  <2>2. CASE g \notin DOMAIN goodsReceipts
    BY <2>2 DEF ReceiptsGrow, ReceiptIsPosted
  <2> QED
    BY <2>1, <2>2
<1>3. ASSUME NEW v \in DOMAIN supplierReturns'
      PROVE  ReturnIsPosted(supplierReturns'[v], movements')
  <2>1. CASE v \in DOMAIN supplierReturns
    BY <1>1, <2>1 DEF ReturnsMove, PurchasesArePosted, ReturnIsPosted
  <2>2. CASE v \notin DOMAIN supplierReturns
    BY <2>2 DEF ReturnsMove, ReturnIsPosted
  <2> QED
    BY <2>1, <2>2
<1> QED
  BY <1>2, <1>3 DEF PurchasesArePosted

\* A step of purchasing that posts nothing and lets nothing count or stop counting.
LEMMA QuietPurchasing ==
  ASSUME LedgerBase, PurchasingInv, UNCHANGED stockVars, PurchasingTyped',
         ReceiptsGrow(goodsReceipts, goodsReceipts'),
         ReturnsMove(supplierReturns, supplierReturns'),
         BackedReturns(goodsReceipts', supplierReturns')
  PROVE  /\ LedgerKept /\ PartStep(PurchaseClaims, PurchaseClaims')
         /\ PurchasesArePosted' /\ PurchaseAddsUp' /\ ReturnsAreCovered'
<1>1. /\ goodsReceipts \in Seq(ReceiptRows) /\ supplierReturns \in Seq(ReturnRows)
      /\ PurchasingAdds /\ ReturnsAdd /\ PurchasesArePosted
      /\ \A v \in DOMAIN supplierReturns : supplierReturns[v].of \in DOMAIN goodsReceipts
  BY PurchaseTables DEF PurchasingInv, PurchasingTyped, PurchasingTypeOK
<1>2. Kept(PurchaseClaims, PurchaseClaims')
  BY DEF Kept, PurchaseClaims, ReceiptsGrow, ReturnsMove
<1>3. LedgerKept /\ PartStep(PurchaseClaims, PurchaseClaims') /\ movements' = movements
  BY <1>2, StillClaims
<1>4. PurchasesArePosted'
  BY <1>1, <1>3, PurchasesStayPosted DEF LedgerBase
<1>5. SamePosted(goodsReceipts, goodsReceipts') /\ SameBack(supplierReturns, supplierReturns')
  <2>1. SamePosted(goodsReceipts, goodsReceipts')
    BY DEF SamePosted, PostedIn, ReceiptsGrow
  <2>2. SameBack(supplierReturns, supplierReturns')
    BY DEF SameBack, BackIn, ReturnsMove
  <2> QED
    BY <2>1, <2>2
<1>6. PurchaseMovesIn(goodsReceipts', supplierReturns')
        = PurchaseMovesIn(goodsReceipts, supplierReturns)
  BY DEF PurchaseMovesIn, ReceiptsGrow, ReturnsMove
<1>7. ASSUME NEW l \in OrderLines
      PROVE  /\ LeftIn(goodsReceipts', l) = LeftIn(goodsReceipts, l)
             /\ StaysIn(goodsReceipts', supplierReturns', l) = StaysIn(goodsReceipts, supplierReturns, l)
             /\ \A g : ReturnedIn(g, l, supplierReturns') = ReturnedIn(g, l, supplierReturns)
  <2>1. /\ LeftIn(goodsReceipts', l) = LeftIn(goodsReceipts, l)
        /\ StaysIn(goodsReceipts', supplierReturns', l) = StaysIn(goodsReceipts, supplierReturns', l)
    BY <1>1, <1>5, SamePostedSums
  <2>2. /\ StaysIn(goodsReceipts, supplierReturns', l) = StaysIn(goodsReceipts, supplierReturns, l)
        /\ \A g : ReturnedIn(g, l, supplierReturns') = ReturnedIn(g, l, supplierReturns)
    BY <1>1, <1>5, SameBackSums
  <2> QED
    BY <2>1, <2>2
<1>8. PurchasingAdds'
  BY <1>1, <1>3, <1>6, <1>7 DEF PurchasingAdds, OrderIsCovered, LedgerHoldsRest
<1>9. ReturnsFit(goodsReceipts', supplierReturns')
  <2> SUFFICES ASSUME NEW g \in DOMAIN goodsReceipts', NEW l \in OrderLines
               PROVE  ReturnedIn(g, l, supplierReturns') <= goodsReceipts'[g].accepted[l]
    BY DEF ReturnsFit
  <2>1. CASE g \in DOMAIN goodsReceipts
    BY <1>1, <1>7, <2>1 DEF ReturnsAdd, ReturnsFit, ReceiptsGrow
  <2>2. CASE g \notin DOMAIN goodsReceipts
    <3>1. BackIn(g, supplierReturns) = {}
      BY <1>1, <2>2 DEF BackIn
    <3>2. ReturnedIn(g, l, supplierReturns) = 0
      BY <3>1, SumEmpty DEF ReturnedIn
    <3>3. goodsReceipts'[g] \in ReceiptRows
      BY DEF PurchasingTyped
    <3>4. goodsReceipts'[g].accepted[l] \in Nat
      BY <3>3, ReceiptColumns
    <3> QED
      BY <1>7, <3>2, <3>4
  <2> QED
    BY <2>1, <2>2
<1>10. PurchaseAddsUp' /\ ReturnsAreCovered'
  BY <1>8, <1>9, PurchaseTablesAfter DEF ReturnsAdd
<1> QED
  BY <1>3, <1>4, <1>10

\* The lines of a purchase at its scopes, and turned around.
LEMMA ScopeLines ==
  ASSUME NEW lines \in [OrderLines -> Nat]
  PROVE  /\ AtScopes(lines, 1) \in [Locations -> Int] /\ AtScopes(lines, -1) \in [Locations -> Int]
         /\ \A l \in OrderLines :
              /\ l \in Locations /\ lines[l] \in Nat
              /\ AtScopes(lines, 1)[l] = lines[l] /\ AtScopes(lines, -1)[l] = -lines[l]
              /\ Stock!Opposite(AtScopes(lines, 1))[l] = -lines[l]
              /\ Stock!Opposite(AtScopes(lines, -1))[l] = lines[l]
<1>1. \A l \in OrderLines : l \in Locations /\ lines[l] \in Nat
  BY PurchasingAssumption
<1>2. /\ AtScopes(lines, 1) \in [Locations -> Int] /\ AtScopes(lines, -1) \in [Locations -> Int]
      /\ \A l \in OrderLines :
           /\ AtScopes(lines, 1)[l] = lines[l] /\ AtScopes(lines, -1)[l] = -lines[l]
  BY <1>1 DEF AtScopes
<1>3. ASSUME NEW l \in OrderLines
      PROVE  /\ Stock!Opposite(AtScopes(lines, 1))[l] = -lines[l]
             /\ Stock!Opposite(AtScopes(lines, -1))[l] = lines[l]
  BY <1>1, <1>2 DEF Stock!Opposite
<1> QED
  BY <1>1, <1>2, <1>3

\* A receipt of amount zero accepts nothing on any line.
LEMMA NothingAccepted ==
  ASSUME NEW lines \in [OrderLines -> Nat], ~(Amount(lines) > 0), NEW l \in OrderLines
  PROVE  lines[l] = 0
<1>1. IsFiniteSet(OrderLines) /\ \A k \in OrderLines : lines[k] \in Nat
  BY OrderLinesAreFinite
<1>2. IsFiniteSet(OrderLines \ {l})
  BY <1>1, FS_Subset
<1>3. SumFunctionOnSet(lines, OrderLines) = lines[l] + SumFunctionOnSet(lines, OrderLines \ {l})
  BY <1>1, SumRemove
<1>4. SumFunctionOnSet(lines, OrderLines \ {l}) \in Nat
  BY <1>1, <1>2, SumNat
<1> QED
  BY <1>1, <1>3, <1>4 DEF Amount

\* Whatever receipts its statement saw, it writes one of the states.
LEMMA StatusTyped ==
  ASSUME PurchasingTypeOK, NEW rs, NEW gs
  PROVE  StatusAfter(rs, gs) \in {"draft", "pending_approval", "approved", "partially_received",
                                  "fully_received", "closed", "cancelled"}
<1>1. StatusSeen(rs, gs) \in {"approved", "partially_received", "fully_received", "closed"}
  BY DEF StatusSeen
<1> QED
  BY <1>1 DEF StatusAfter, PurchasingTypeOK

\* What a step of purchasing keeps, besides the payables.
PurchasingActs ==
  /\ LedgerKept /\ PartStep(PurchaseClaims, PurchaseClaims')
  /\ PurchasingTyped' /\ PurchasesArePosted' /\ PurchaseAddsUp' /\ ReturnsAreCovered'

\* What every step of purchasing starts from.
LEMMA PurchaseFacts ==
  ASSUME LedgerBase, PurchasingInv
  PROVE  /\ goodsReceipts \in Seq(ReceiptRows) /\ supplierReturns \in Seq(ReturnRows)
         /\ PurchasingAdds /\ ReturnsAdd /\ PurchasesArePosted /\ PurchasingTypeOK
         /\ \A v \in DOMAIN supplierReturns : supplierReturns[v].of \in DOMAIN goodsReceipts
         /\ WholeLedger(movements) /\ ClaimsArePosted
         /\ Len(movements) + 1 \in Nat \ {0} /\ Len(movements) + 1 \notin DOMAIN movements
<1>1. /\ goodsReceipts \in Seq(ReceiptRows) /\ supplierReturns \in Seq(ReturnRows)
      /\ PurchasingAdds /\ ReturnsAdd /\ PurchasesArePosted /\ PurchasingTypeOK
      /\ \A v \in DOMAIN supplierReturns : supplierReturns[v].of \in DOMAIN goodsReceipts
  BY PurchaseTables DEF PurchasingInv, PurchasingTyped, PurchasingTypeOK
<1>2. WholeLedger(movements) /\ ClaimsArePosted
  BY LedgerIsWhole DEF LedgerBase
<1>3. Len(movements) \in Nat
  BY <1>2, LedgerRows
<1> QED
  BY <1>1, <1>2, <1>3, LedgerRows

\* Nothing was sent back of a receipt that no return counts for.
LEMMA NothingReturned ==
  ASSUME NEW vs, NEW g, BackIn(g, vs) = {}, NEW l
  PROVE  ReturnedIn(g, l, vs) = 0
  BY SumEmpty DEF ReturnedIn

\* The shortage a receipt closes fits what is left of the order.
LEMMA ShortageFits ==
  ASSUME LedgerBase, PurchasingInv, NEW accepted \in [OrderLines -> Nat], FitsOrder(accepted),
         NEW finalised
  PROVE  /\ Shortage(accepted, finalised) \in [OrderLines -> Nat]
         /\ \A l \in OrderLines :
              LeftIn(goodsReceipts, l) - accepted[l] - Shortage(accepted, finalised)[l] >= 0
<1>1. \A l \in OrderLines : Remaining(l) = LeftIn(goodsReceipts, l)
  BY DEF Remaining, LeftIn, PostedReceipts, PostedIn
<1>2. \A l \in OrderLines : LeftIn(goodsReceipts, l) \in Int /\ accepted[l] \in Nat
  BY PurchaseFacts, PurchaseSums
<1>3. \A l \in OrderLines : accepted[l] <= LeftIn(goodsReceipts, l)
  BY <1>1 DEF FitsOrder
<1>4. Shortage(accepted, finalised)
        = [l \in OrderLines |-> IF l \in finalised THEN LeftIn(goodsReceipts, l) - accepted[l] ELSE 0]
  BY <1>1 DEF Shortage
<1> QED
  BY <1>2, <1>3, <1>4

\* Posting a receipt brings its lines in, in one movement it claims.
LEMMA PostReceiptActs ==
  ASSUME LedgerBase, PurchasingInv, NEW g \in DOMAIN goodsReceipts, PostReceipt(g)
  PROVE  PurchasingActs
<1>1. PICK n : n = Len(movements) + 1
  OBVIOUS
<1>2. /\ goodsReceipts \in Seq(ReceiptRows) /\ supplierReturns \in Seq(ReturnRows)
      /\ PurchasingAdds /\ ReturnsAdd /\ PurchasesArePosted /\ PurchasingTypeOK
      /\ \A v \in DOMAIN supplierReturns : supplierReturns[v].of \in DOMAIN goodsReceipts
      /\ WholeLedger(movements) /\ ClaimsArePosted
      /\ n \in Nat \ {0} /\ n \notin DOMAIN movements
  BY <1>1, PurchaseFacts
<1>3. PICK old \in ReceiptRows : old = goodsReceipts[g]
  BY <1>2
<1>4. PICK closed : closed = Shortage(old.accepted, old.finalised)
  OBVIOUS
<1>5. PICK accepted \in [OrderLines -> Nat] : accepted = old.accepted
  BY DEF ReceiptRows
<1>6. /\ closed \in [OrderLines -> Nat]
      /\ \A l \in OrderLines : LeftIn(goodsReceipts, l) - accepted[l] - closed[l] >= 0
  <2>1. FitsOrder(accepted)
    BY <1>3, <1>5 DEF PostReceipt
  <2> QED
    BY <1>4, <1>5, <2>1, ShortageFits
<1>7. PICK row : row = [old EXCEPT !.status = "posted", !.closed = closed,
                                   !.movement = IF Amount(accepted) > 0 THEN n ELSE 0]
  OBVIOUS
<1>8. /\ row \in ReceiptRows /\ row.status = "posted" /\ row.accepted = accepted
      /\ row.closed = closed /\ row.movement = IF Amount(accepted) > 0 THEN n ELSE 0
  BY <1>2, <1>5, <1>6, <1>7 DEF ReceiptRows
<1>9. /\ goodsReceipts' = [goodsReceipts EXCEPT ![g] = row]
      /\ old.status = "draft" /\ old.movement = 0
      /\ orderStatus' = StatusAfter(goodsReceipts', PostedReceipts \union {g})
      /\ supplierReturns' = supplierReturns /\ payments' = payments /\ allocations' = allocations
      /\ IF Amount(accepted) > 0 THEN PostMovement(AtScopes(accepted, 1)) ELSE UNCHANGED stockVars
  BY <1>1, <1>2, <1>3, <1>4, <1>5, <1>7
     DEF PostReceipt, WritePostedReceipt, NextMovement, PurchasesArePosted, ReceiptIsPosted
<1>10. /\ goodsReceipts' \in Seq(ReceiptRows) /\ DOMAIN goodsReceipts' = DOMAIN goodsReceipts
       /\ goodsReceipts'[g] = row
       /\ \A h \in DOMAIN goodsReceipts : h # g => goodsReceipts'[h] = goodsReceipts[h]
  <2>1. /\ [goodsReceipts EXCEPT ![g] = row] \in Seq(ReceiptRows)
        /\ DOMAIN [goodsReceipts EXCEPT ![g] = row] = DOMAIN goodsReceipts
        /\ [goodsReceipts EXCEPT ![g] = row][g] = row
        /\ \A h \in DOMAIN goodsReceipts :
             h # g => [goodsReceipts EXCEPT ![g] = row][h] = goodsReceipts[h]
    BY <1>2, <1>8, RowReplaced
  <2> QED
    BY <1>9, <2>1
<1>11. OneMorePosted(goodsReceipts, g, goodsReceipts')
  BY <1>3, <1>8, <1>9, <1>10 DEF OneMorePosted, PostedIn
<1>12. BackIn(g, supplierReturns) = {}
  BY <1>2, <1>3, <1>9 DEF BackIn, ReturnsAdd, BackedReturns, PostedIn, ActiveReturns
<1>13. PICK mv : mv = [delta |-> AtScopes(accepted, 1), reversalOf |-> 0]
  OBVIOUS
<1>14. mv.delta = AtScopes(accepted, 1) /\ mv.reversalOf = 0
  BY <1>13
<1>15. /\ LedgerKept
       /\ Amount(accepted) > 0 => Grows(mv)
       /\ ~(Amount(accepted) > 0) => movements' = movements
  <2>1. CASE Amount(accepted) > 0
    <3>1. PostMovement(AtScopes(accepted, 1))
      BY <1>9, <2>1
    <3> QED
      BY <1>13, <2>1, <3>1, ScopeLines, MovementKeepsLedger DEF LedgerBase, LedgerKept, Bounded
  <2>2. CASE ~(Amount(accepted) > 0)
    <3>1. UNCHANGED stockVars
      BY <1>9, <2>2
    <3> QED
      BY <2>2, <3>1, StillKeepsLedger DEF LedgerBase, LedgerKept
  <2> QED
    BY <2>1, <2>2
<1>16. PartStep(PurchaseClaims, PurchaseClaims')
  <2>1. \A c \in PurchaseClaims' : c \in PurchaseClaims \/ c = <<4, g, row.movement>>
    BY <1>9, <1>10 DEF PurchaseClaims
  <2>2. <<4, g, row.movement>>[3] = row.movement
    OBVIOUS
  <2> QED
    BY <1>1, <1>8, <1>14, <1>15, <2>1, <2>2 DEF PartStep, Kept
<1>17. PurchasingTyped'
  <2>1. orderStatus' \in {"draft", "pending_approval", "approved", "partially_received",
                          "fully_received", "closed", "cancelled"}
    BY <1>2, <1>9, StatusTyped
  <2>2. \A h \in DOMAIN goodsReceipts' : goodsReceipts'[h] \in ReceiptRows
    BY <1>10
  <2>3. Debits' = Debits /\ Credits' = Credits
    BY <1>9, <1>10 DEF Debits, Credits
  <2>4. PurchasingTypeOK'
    BY <1>2, <1>9, <1>10, <2>1, <2>2, <2>3 DEF PurchasingTypeOK, ReceiptRows
  <2> QED
    BY <1>2, <1>9, <1>10, <2>4 DEF PurchasingInv, PurchasingTyped
<1>18. Moves({})
  BY <1>14, <1>15 DEF Moves
<1>19. \A m \in DOMAIN movements : m \in DOMAIN movements' /\ movements'[m] = movements[m]
  BY <1>2, <1>18, RowsStay
<1>20. PurchasesArePosted'
  <2>1. \A h \in DOMAIN goodsReceipts : goodsReceipts[h].movement # 0 =>
          goodsReceipts[h].movement \in DOMAIN movements
    BY <1>2, PurchaseMoves
  <2>2. \A v \in DOMAIN supplierReturns : supplierReturns[v].movement # 0 =>
          supplierReturns[v].movement \in DOMAIN movements
    BY <1>2, PurchaseMoves
  <2>3. Amount(accepted) > 0 => movements'[n] = mv
    BY <1>1, <1>2, <1>15, LedgerRows DEF Grows
  <2>4. ReceiptIsPosted(row, movements')
    BY <1>2, <1>8, <1>14, <2>3, NothingAccepted DEF ReceiptIsPosted
  <2>5. ASSUME NEW h \in DOMAIN goodsReceipts', h # g
        PROVE  ReceiptIsPosted(goodsReceipts'[h], movements')
    BY <1>2, <1>10, <1>19, <2>1, <2>5 DEF PurchasesArePosted, ReceiptIsPosted
  <2>6. ASSUME NEW v \in DOMAIN supplierReturns
        PROVE  ReturnIsPosted(supplierReturns[v], movements')
    BY <1>2, <1>19, <2>2 DEF PurchasesArePosted, ReturnIsPosted
  <2> QED
    BY <1>9, <1>10, <2>4, <2>5, <2>6 DEF PurchasesArePosted
<1>21. ASSUME NEW l \in OrderLines
       PROVE  /\ LeftIn(goodsReceipts', l) >= 0
              /\ StaysIn(goodsReceipts', supplierReturns, l)
                   = StaysIn(goodsReceipts, supplierReturns, l) + accepted[l]
              /\ StaysIn(goodsReceipts, supplierReturns, l) \in Int
  <2>1. LeftIn(goodsReceipts', l) = LeftIn(goodsReceipts, l) - accepted[l] - closed[l]
    BY <1>2, <1>8, <1>10, <1>11, OneMorePostedSums
  <2>2. ReturnedIn(g, l, supplierReturns) = 0
    BY <1>12, NothingReturned
  <2> QED
    BY <1>2, <1>6, <1>8, <1>10, <1>11, <2>1, <2>2, OneMorePostedStays
<1> DEFINE ms == PurchaseMovesIn(goodsReceipts, supplierReturns)
           ns == PurchaseMovesIn(goodsReceipts', supplierReturns')
<1>22. ASSUME NEW l \in OrderLines
       PROVE  NetIn(ns, movements', l) = StaysIn(goodsReceipts', supplierReturns', l)
  <2>1. ms \subseteq DOMAIN movements /\ NetIn(ms, movements, l) = StaysIn(goodsReceipts, supplierReturns, l)
    BY <1>2, PurchaseMoves DEF PurchasingAdds, LedgerHoldsRest
  <2>2. l \in Locations /\ mv.delta[l] = accepted[l]
    BY <1>14, ScopeLines
  <2>3. CASE Amount(accepted) > 0
    <3>1. Grows(mv) /\ row.movement = n
      BY <1>8, <1>15, <2>3
    <3>2. ns = ms \union {n}
      BY <1>2, <1>3, <1>9, <1>10, <3>1 DEF PurchaseMovesIn
    <3>3. NetIn(ms \union {n}, movements', l) = NetIn(ms, movements, l) + mv.delta[l]
      BY <1>1, <1>2, <2>1, <2>2, <3>1, NetPosted
    <3> HIDE DEF ms, ns
    <3> QED
      BY <1>9, <1>21, <2>1, <2>2, <3>2, <3>3
  <2>4. CASE ~(Amount(accepted) > 0)
    <3>1. movements' = movements /\ row.movement = 0 /\ accepted[l] = 0
      BY <1>8, <1>15, <2>4, NothingAccepted
    <3>2. ns = ms
      BY <1>3, <1>9, <1>10, <3>1 DEF PurchaseMovesIn
    <3>3. StaysIn(goodsReceipts', supplierReturns, l) = StaysIn(goodsReceipts, supplierReturns, l)
      BY <1>21, <3>1
    <3> HIDE DEF ms, ns
    <3> QED
      BY <1>9, <2>1, <3>1, <3>2, <3>3
  <2> QED
    BY <2>3, <2>4
<1>23. PurchasingAdds'
  BY <1>21, <1>22 DEF PurchasingAdds, OrderIsCovered, LedgerHoldsRest
<1>24. ReturnsAdd'
  <2>1. BackedReturns(goodsReceipts', supplierReturns')
    BY <1>2, <1>9, <1>11 DEF ReturnsAdd, BackedReturns, OneMorePosted
  <2>2. ReturnsFit(goodsReceipts', supplierReturns')
    BY <1>2, <1>3, <1>5, <1>8, <1>9, <1>10 DEF ReturnsAdd, ReturnsFit
  <2> QED
    BY <2>1, <2>2 DEF ReturnsAdd
<1> QED
  BY <1>15, <1>16, <1>17, <1>20, <1>23, <1>24, PurchaseTablesAfter DEF PurchasingActs

\* Reversing a receipt takes them out again, if nothing of it was returned.
LEMMA ReverseGoodsReceiptActs ==
  ASSUME LedgerBase, PurchasingInv, NEW g \in DOMAIN goodsReceipts, NEW seen, ReverseReceipt(g, seen)
  PROVE  PurchasingActs
<1>1. /\ goodsReceipts \in Seq(ReceiptRows) /\ supplierReturns \in Seq(ReturnRows)
      /\ PurchasingAdds /\ ReturnsAdd /\ PurchasesArePosted /\ PurchasingTypeOK
      /\ \A v \in DOMAIN supplierReturns : supplierReturns[v].of \in DOMAIN goodsReceipts
      /\ WholeLedger(movements) /\ ClaimsArePosted
  BY PurchaseFacts
<1>2. PICK old \in ReceiptRows : old = goodsReceipts[g]
  BY <1>1
<1>3. PICK accepted \in [OrderLines -> Nat] : accepted = old.accepted
  BY DEF ReceiptRows
<1>4. /\ old.status = "posted" /\ old.movement \in Nat
      /\ old.movement = 0 => \A l \in OrderLines : accepted[l] = 0
      /\ old.movement # 0 => movements[old.movement].delta = AtScopes(accepted, 1)
  BY <1>1, <1>2, <1>3 DEF ReverseReceipt, PurchasesArePosted, ReceiptIsPosted, ReceiptRows
<1>5. PICK row : row = [old EXCEPT !.status = "reversed"]
  OBVIOUS
<1>6. /\ row \in ReceiptRows /\ row.status = "reversed" /\ row.accepted = accepted
      /\ row.movement = old.movement
  BY <1>3, <1>5 DEF ReceiptRows
<1>7. /\ goodsReceipts' = [goodsReceipts EXCEPT ![g] = row]
      /\ orderStatus' = StatusAfter(goodsReceipts, seen)
      /\ supplierReturns' = supplierReturns /\ payments' = payments /\ allocations' = allocations
      /\ IF old.movement # 0 THEN ReverseMovement(old.movement) ELSE UNCHANGED stockVars
  BY <1>2, <1>5 DEF ReverseReceipt
<1>8. /\ goodsReceipts' \in Seq(ReceiptRows) /\ DOMAIN goodsReceipts' = DOMAIN goodsReceipts
      /\ goodsReceipts'[g] = row
      /\ \A h \in DOMAIN goodsReceipts : h # g => goodsReceipts'[h] = goodsReceipts[h]
  <2>1. /\ [goodsReceipts EXCEPT ![g] = row] \in Seq(ReceiptRows)
        /\ DOMAIN [goodsReceipts EXCEPT ![g] = row] = DOMAIN goodsReceipts
        /\ [goodsReceipts EXCEPT ![g] = row][g] = row
        /\ \A h \in DOMAIN goodsReceipts :
             h # g => [goodsReceipts EXCEPT ![g] = row][h] = goodsReceipts[h]
    BY <1>1, <1>6, RowReplaced
  <2> QED
    BY <1>7, <2>1
<1>9. OneMorePosted(goodsReceipts', g, goodsReceipts)
  BY <1>2, <1>4, <1>6, <1>8 DEF OneMorePosted, PostedIn
<1>10. /\ BackIn(g, supplierReturns) = {}
       /\ \A v \in DOMAIN supplierReturns :
            supplierReturns[v].status \in ActiveReturns => supplierReturns[v].of # g
  BY DEF ReverseReceipt, BlockedByReturn, BackIn, ActiveReturns
<1>11. PICK mv : mv = [delta |-> Stock!Opposite(movements[old.movement].delta),
                       reversalOf |-> old.movement]
  OBVIOUS
<1>12. mv.reversalOf = old.movement /\ mv.delta = Stock!Opposite(movements[old.movement].delta)
  BY <1>11
<1>13. /\ LedgerKept
       /\ old.movement # 0 => Grows(mv)
       /\ old.movement = 0 => movements' = movements
  <2>1. CASE old.movement # 0
    <3>1. ReverseMovement(old.movement)
      BY <1>7, <2>1
    <3> QED
      BY <1>11, <2>1, <3>1, ReversalKeepsLedger DEF LedgerBase, LedgerKept, Bounded
  <2>2. CASE old.movement = 0
    <3>1. UNCHANGED stockVars
      BY <1>7, <2>2
    <3> QED
      BY <2>2, <3>1, StillKeepsLedger DEF LedgerBase, LedgerKept
  <2> QED
    BY <2>1, <2>2
<1>14. old.movement # 0 => old.movement \in MovesOf(PurchaseClaims)
  BY <1>1, <1>2, PurchaseMoves
<1>15. PartStep(PurchaseClaims, PurchaseClaims')
  <2>1. Kept(PurchaseClaims, PurchaseClaims')
    BY <1>2, <1>6, <1>7, <1>8 DEF Kept, PurchaseClaims
  <2> QED
    BY <1>12, <1>13, <1>14, <2>1 DEF PartStep
<1>16. PurchasingTyped'
  <2>1. orderStatus' \in {"draft", "pending_approval", "approved", "partially_received",
                          "fully_received", "closed", "cancelled"}
    BY <1>1, <1>7, StatusTyped
  <2>2. \A h \in DOMAIN goodsReceipts' : goodsReceipts'[h] \in ReceiptRows
    BY <1>8
  <2>3. Debits' = Debits /\ Credits' = Credits
    BY <1>7, <1>8 DEF Debits, Credits
  <2>4. PurchasingTypeOK'
    BY <1>1, <1>7, <1>8, <2>1, <2>2, <2>3 DEF PurchasingTypeOK, ReceiptRows
  <2> QED
    BY <1>7, <1>8, <2>4 DEF PurchasingInv, PurchasingTyped
<1>17. Moves(MovesOf(PurchaseClaims))
  BY <1>12, <1>13, <1>14 DEF Moves
<1>18. \A m \in DOMAIN movements : m \in DOMAIN movements' /\ movements'[m] = movements[m]
  BY <1>1, <1>17, RowsStay
<1>19. PurchasesArePosted'
  <2>1. \A h \in DOMAIN goodsReceipts : goodsReceipts[h].movement # 0 =>
          goodsReceipts[h].movement \in DOMAIN movements
    BY <1>1, PurchaseMoves
  <2>2. \A v \in DOMAIN supplierReturns : supplierReturns[v].movement # 0 =>
          supplierReturns[v].movement \in DOMAIN movements
    BY <1>1, PurchaseMoves
  <2>3. ReceiptIsPosted(row, movements')
    BY <1>2, <1>4, <1>6, <1>18, <2>1 DEF ReceiptIsPosted
  <2>4. ASSUME NEW h \in DOMAIN goodsReceipts', h # g
        PROVE  ReceiptIsPosted(goodsReceipts'[h], movements')
    BY <1>1, <1>8, <1>18, <2>1, <2>4 DEF PurchasesArePosted, ReceiptIsPosted
  <2>5. ASSUME NEW v \in DOMAIN supplierReturns
        PROVE  ReturnIsPosted(supplierReturns[v], movements')
    BY <1>1, <1>18, <2>2 DEF PurchasesArePosted, ReturnIsPosted
  <2> QED
    BY <1>7, <1>8, <2>3, <2>4, <2>5 DEF PurchasesArePosted
<1>20. ASSUME NEW l \in OrderLines
       PROVE  /\ LeftIn(goodsReceipts', l) >= 0
              /\ StaysIn(goodsReceipts, supplierReturns, l)
                   = StaysIn(goodsReceipts', supplierReturns, l) + accepted[l]
              /\ StaysIn(goodsReceipts', supplierReturns, l) \in Int
  <2>1. PICK a, b : a = goodsReceipts[g].accepted[l] /\ b = goodsReceipts[g].closed[l]
    OBVIOUS
  <2>2. /\ LeftIn(goodsReceipts, l) = LeftIn(goodsReceipts', l) - a - b
        /\ a \in Nat /\ b \in Nat /\ LeftIn(goodsReceipts', l) \in Int
    BY <1>1, <1>8, <1>9, <2>1, OneMorePostedSums
  <2>3. LeftIn(goodsReceipts, l) >= 0
    BY <1>1 DEF PurchasingAdds, OrderIsCovered
  <2>4. LeftIn(goodsReceipts', l) >= 0
    BY ONLY <2>2, <2>3
  <2>5. ReturnedIn(g, l, supplierReturns) = 0
    BY <1>10, NothingReturned
  <2> QED
    BY <1>1, <1>2, <1>3, <1>8, <1>9, <2>4, <2>5, OneMorePostedStays
<1> DEFINE ms == PurchaseMovesIn(goodsReceipts, supplierReturns)
<1>21. PurchaseMovesIn(goodsReceipts', supplierReturns') = ms
  BY <1>2, <1>6, <1>7, <1>8 DEF PurchaseMovesIn
<1>22. ASSUME NEW l \in OrderLines
       PROVE  NetIn(ms, movements', l) = StaysIn(goodsReceipts', supplierReturns', l)
  <2>1. /\ ms \subseteq DOMAIN movements /\ ms = MovesOf(PurchaseClaims)
        /\ NetIn(ms, movements, l) = StaysIn(goodsReceipts, supplierReturns, l)
    BY <1>1, PurchaseMoves DEF PurchasingAdds, LedgerHoldsRest
  <2>2. l \in Locations /\ Stock!Opposite(AtScopes(accepted, 1))[l] = -accepted[l] /\ accepted[l] \in Nat
    BY ScopeLines
  <2>3. CASE old.movement # 0
    <3>1. Grows(mv) /\ mv.reversalOf \in ms /\ mv.delta[l] = -accepted[l]
      BY <1>4, <1>12, <1>13, <1>14, <2>1, <2>2, <2>3
    <3>2. NetIn(ms, movements', l) = NetIn(ms, movements, l) + mv.delta[l]
      BY <1>1, <2>1, <2>2, <3>1, NetReversed
    <3>3. PICK a, x : a = accepted[l] /\ x = StaysIn(goodsReceipts', supplierReturns, l)
      OBVIOUS
    <3> HIDE DEF ms
    <3>4. /\ NetIn(ms, movements, l) = x + a /\ x \in Int /\ a \in Int
          /\ NetIn(ms, movements', l) = NetIn(ms, movements, l) + (-a)
      BY <1>20, <2>1, <2>2, <3>1, <3>2, <3>3
    <3>5. NetIn(ms, movements', l) = x
      BY ONLY <3>4
    <3> QED
      BY <1>7, <3>3, <3>5
  <2>4. CASE old.movement = 0
    <3>1. movements' = movements /\ accepted[l] = 0
      BY <1>4, <1>13, <2>4
    <3>2. StaysIn(goodsReceipts', supplierReturns, l) = StaysIn(goodsReceipts, supplierReturns, l)
      BY <1>20, <3>1
    <3> HIDE DEF ms
    <3> QED
      BY <1>7, <2>1, <3>1, <3>2
  <2> QED
    BY <2>3, <2>4
<1>23. PurchasingAdds'
  BY <1>20, <1>21, <1>22 DEF PurchasingAdds, OrderIsCovered, LedgerHoldsRest
<1>24. ReturnsAdd'
  <2>1. BackedReturns(goodsReceipts', supplierReturns')
    BY <1>1, <1>7, <1>9, <1>10 DEF ReturnsAdd, BackedReturns, OneMorePosted
  <2>2. ReturnsFit(goodsReceipts', supplierReturns')
    BY <1>1, <1>2, <1>3, <1>6, <1>7, <1>8 DEF ReturnsAdd, ReturnsFit
  <2> QED
    BY <2>1, <2>2 DEF ReturnsAdd
<1> QED
  BY <1>13, <1>15, <1>16, <1>19, <1>23, <1>24, PurchaseTablesAfter DEF PurchasingActs

\* A step on one return that only writes its row.
LEMMA ReturnRowTyped ==
  ASSUME PurchasingTyped, NEW v \in DOMAIN supplierReturns, NEW row \in ReturnRows,
         row.of = supplierReturns[v].of,
         supplierReturns' = [supplierReturns EXCEPT ![v] = row],
         UNCHANGED <<orderStatus, goodsReceipts, payments, allocations>>
  PROVE  /\ PurchasingTyped'
         /\ supplierReturns' \in Seq(ReturnRows) /\ DOMAIN supplierReturns' = DOMAIN supplierReturns
         /\ supplierReturns'[v] = row
         /\ \A w \in DOMAIN supplierReturns : w # v => supplierReturns'[w] = supplierReturns[w]
<1>1. supplierReturns \in Seq(ReturnRows) /\ PurchasingTypeOK
  BY DEF PurchasingTyped
<1>2. /\ supplierReturns' \in Seq(ReturnRows) /\ DOMAIN supplierReturns' = DOMAIN supplierReturns
      /\ supplierReturns'[v] = row
      /\ \A w \in DOMAIN supplierReturns : w # v => supplierReturns'[w] = supplierReturns[w]
  <2>1. /\ [supplierReturns EXCEPT ![v] = row] \in Seq(ReturnRows)
        /\ DOMAIN [supplierReturns EXCEPT ![v] = row] = DOMAIN supplierReturns
        /\ [supplierReturns EXCEPT ![v] = row][v] = row
        /\ \A w \in DOMAIN supplierReturns :
             w # v => [supplierReturns EXCEPT ![v] = row][w] = supplierReturns[w]
    BY <1>1, RowReplaced
  <2> QED
    BY <2>1
<1>3. Debits' = Debits /\ Credits' = Credits
  BY <1>2 DEF Debits, Credits
<1>4. ASSUME NEW w \in DOMAIN supplierReturns'
      PROVE  /\ supplierReturns'[w].status \in ActiveReturns \union {"draft", "cancelled", "reversed"}
             /\ supplierReturns'[w].of \in DOMAIN goodsReceipts'
  <2>1. supplierReturns'[w] \in ReturnRows
    BY <1>2
  <2>2. supplierReturns'[w].of = supplierReturns[w].of
    BY <1>2
  <2> QED
    BY <1>1, <1>2, <2>1, <2>2 DEF ReturnRows, PurchasingTypeOK
<1>5. PurchasingTypeOK'
  BY <1>1, <1>3, <1>4 DEF PurchasingTypeOK
<1> QED
  BY <1>2, <1>5 DEF PurchasingTyped

\* Posting a return takes its lines out, in one movement it claims.
LEMMA PostReturnActs ==
  ASSUME LedgerBase, PurchasingInv, NEW v \in DOMAIN supplierReturns, PostReturn(v)
  PROVE  PurchasingActs
<1>1. PICK n : n = Len(movements) + 1
  OBVIOUS
<1>2. /\ goodsReceipts \in Seq(ReceiptRows) /\ supplierReturns \in Seq(ReturnRows)
      /\ PurchasingAdds /\ ReturnsAdd /\ PurchasesArePosted /\ PurchasingTyped
      /\ \A w \in DOMAIN supplierReturns : supplierReturns[w].of \in DOMAIN goodsReceipts
      /\ WholeLedger(movements) /\ ClaimsArePosted
      /\ n \in Nat \ {0} /\ n \notin DOMAIN movements
  BY <1>1, PurchaseFacts DEF PurchasingInv
<1>3. PICK old \in ReturnRows : old = supplierReturns[v]
  BY <1>2
<1>4. PICK lines \in [OrderLines -> Nat] : lines = old.lines
  BY DEF ReturnRows
<1>5. PICK g : g = old.of
  OBVIOUS
<1>6. /\ old.status = "approved" /\ old.movement = 0 /\ g \in PostedIn(goodsReceipts)
      /\ \A l \in OrderLines :
           lines[l] <= goodsReceipts[g].accepted[l] - ReturnedIn(g, l, supplierReturns)
  <2>1. /\ old.status = "approved" /\ goodsReceipts[g].status = "posted"
        /\ \A l \in OrderLines : lines[l] <= goodsReceipts[g].accepted[l] - Returned(g, l)
    BY <1>3, <1>4, <1>5 DEF PostReturn, Returnable
  <2>2. \A l : Returned(g, l) = ReturnedIn(g, l, supplierReturns)
    BY DEF Returned, ReturnedIn, PostedReturns, BackIn
  <2>3. old.movement = 0
    BY <1>2, <1>3, <2>1 DEF PurchasesArePosted, ReturnIsPosted
  <2> QED
    BY <1>2, <1>3, <1>5, <2>1, <2>2, <2>3 DEF PostedIn
<1>7. PICK row : row = [old EXCEPT !.status = "posted", !.movement = n]
  OBVIOUS
<1>8. /\ row \in ReturnRows /\ row.status = "posted" /\ row.lines = lines /\ row.of = g
      /\ row.movement = n
  BY <1>2, <1>4, <1>5, <1>7 DEF ReturnRows, ActiveReturns
<1>9. /\ supplierReturns' = [supplierReturns EXCEPT ![v] = row]
      /\ UNCHANGED <<orderStatus, goodsReceipts, payments, allocations>>
      /\ PostMovement(AtScopes(lines, -1))
  BY <1>1, <1>3, <1>4, <1>7 DEF PostReturn, NextMovement
<1>10. /\ PurchasingTyped'
       /\ supplierReturns' \in Seq(ReturnRows) /\ DOMAIN supplierReturns' = DOMAIN supplierReturns
       /\ supplierReturns'[v] = row
       /\ \A w \in DOMAIN supplierReturns : w # v => supplierReturns'[w] = supplierReturns[w]
  BY <1>2, <1>3, <1>5, <1>8, <1>9, ReturnRowTyped
<1>11. OneMoreBack(supplierReturns, v, supplierReturns')
  BY <1>3, <1>5, <1>6, <1>8, <1>10 DEF OneMoreBack, BackIn
<1>12. PICK mv : mv = [delta |-> AtScopes(lines, -1), reversalOf |-> 0]
  OBVIOUS
<1>13. mv.delta = AtScopes(lines, -1) /\ mv.reversalOf = 0
  BY <1>12
<1>14. LedgerKept /\ Grows(mv)
  BY <1>9, <1>12, ScopeLines, MovementKeepsLedger DEF LedgerBase, LedgerKept, Bounded
<1>15. PartStep(PurchaseClaims, PurchaseClaims')
  <2>1. \A c \in PurchaseClaims' : c \in PurchaseClaims \/ c = <<5, v, n>>
    BY <1>8, <1>9, <1>10 DEF PurchaseClaims
  <2>2. <<5, v, n>>[3] = n
    OBVIOUS
  <2> QED
    BY <1>1, <1>13, <1>14, <2>1, <2>2 DEF PartStep
<1>16. \A m \in DOMAIN movements : m \in DOMAIN movements' /\ movements'[m] = movements[m]
  <2>1. Moves({})
    BY <1>13, <1>14 DEF Moves
  <2> QED
    BY <1>2, <2>1, RowsStay
<1>17. PurchasesArePosted'
  <2>1. \A h \in DOMAIN goodsReceipts : goodsReceipts[h].movement # 0 =>
          goodsReceipts[h].movement \in DOMAIN movements
    BY <1>2, PurchaseMoves
  <2>2. \A w \in DOMAIN supplierReturns : supplierReturns[w].movement # 0 =>
          supplierReturns[w].movement \in DOMAIN movements
    BY <1>2, PurchaseMoves
  <2>3. movements'[n] = mv
    BY <1>1, <1>2, <1>14, LedgerRows DEF Grows
  <2>4. ReturnIsPosted(row, movements')
    BY <1>2, <1>8, <1>13, <2>3 DEF ReturnIsPosted
  <2>5. ASSUME NEW w \in DOMAIN supplierReturns', w # v
        PROVE  ReturnIsPosted(supplierReturns'[w], movements')
    BY <1>2, <1>10, <1>16, <2>2, <2>5 DEF PurchasesArePosted, ReturnIsPosted
  <2>6. ASSUME NEW h \in DOMAIN goodsReceipts
        PROVE  ReceiptIsPosted(goodsReceipts[h], movements')
    BY <1>2, <1>16, <2>1 DEF PurchasesArePosted, ReceiptIsPosted
  <2> QED
    BY <1>9, <1>10, <2>4, <2>5, <2>6 DEF PurchasesArePosted
<1> DEFINE ms == PurchaseMovesIn(goodsReceipts, supplierReturns)
           ns == PurchaseMovesIn(goodsReceipts', supplierReturns')
<1>18. ns = ms \union {n}
  BY <1>2, <1>3, <1>6, <1>8, <1>9, <1>10 DEF PurchaseMovesIn
<1>19. ASSUME NEW l \in OrderLines
       PROVE  NetIn(ns, movements', l) = StaysIn(goodsReceipts, supplierReturns', l)
  <2>1. ms \subseteq DOMAIN movements /\ NetIn(ms, movements, l) = StaysIn(goodsReceipts, supplierReturns, l)
    BY <1>2, PurchaseMoves DEF PurchasingAdds, LedgerHoldsRest
  <2>2. l \in Locations /\ mv.delta[l] = -lines[l] /\ lines[l] \in Nat
    BY <1>13, ScopeLines
  <2>3. NetIn(ms \union {n}, movements', l) = NetIn(ms, movements, l) + mv.delta[l]
    BY <1>1, <1>2, <1>14, <2>1, <2>2, NetPosted
  <2>4. PICK a, x : a = lines[l] /\ x = StaysIn(goodsReceipts, supplierReturns, l)
    OBVIOUS
  <2>5. StaysIn(goodsReceipts, supplierReturns', l) = x - a /\ x \in Int
    BY <1>2, <1>6, <1>8, <1>10, <1>11, <2>4, OneMoreReturnedStays
  <2> HIDE DEF ms, ns
  <2>6. NetIn(ns, movements', l) = x + (-a) /\ a \in Int
    BY <1>18, <2>1, <2>2, <2>3, <2>4
  <2> QED
    BY ONLY <2>5, <2>6
<1>20. PurchasingAdds'
  BY <1>2, <1>9, <1>19 DEF PurchasingAdds, OrderIsCovered, LedgerHoldsRest
<1>21. ReturnsAdd'
  <2>1. BackedReturns(goodsReceipts, supplierReturns')
    BY <1>2, <1>6, <1>8, <1>10 DEF ReturnsAdd, BackedReturns
  <2>2. ASSUME NEW h \in DOMAIN goodsReceipts, NEW l \in OrderLines
        PROVE  ReturnedIn(h, l, supplierReturns') <= goodsReceipts[h].accepted[l]
    <3>1. CASE h = g
      <4>1. PICK a, b, x : /\ a = lines[l] /\ b = goodsReceipts[g].accepted[l]
                           /\ x = ReturnedIn(g, l, supplierReturns)
        OBVIOUS
      <4>2. ReturnedIn(g, l, supplierReturns') = x + a
        BY <1>2, <1>8, <1>10, <1>11, <4>1, OneMoreReturned
      <4>3. a \in Int /\ b \in Int /\ x \in Int /\ a <= b - x
        BY <1>2, <1>6, <3>1, <4>1, ReceiptColumns, ReturnSums
      <4>4. x + a <= b
        BY ONLY <4>3
      <4> QED
        BY <3>1, <4>1, <4>2, <4>4
    <3>2. CASE h # g
      <4>1. ReturnedIn(h, l, supplierReturns') = ReturnedIn(h, l, supplierReturns)
        BY <1>2, <1>8, <1>10, <1>11, <3>2, OneMoreReturned
      <4> QED
        BY <1>2, <4>1 DEF ReturnsAdd, ReturnsFit
    <3> QED
      BY <3>1, <3>2
  <2> QED
    BY <1>9, <2>1, <2>2 DEF ReturnsAdd, ReturnsFit
<1> QED
  BY <1>10, <1>14, <1>15, <1>17, <1>20, <1>21, PurchaseTablesAfter DEF PurchasingActs

\* Reversing a return brings them back to the receipt it came from.
LEMMA ReverseReturnActs ==
  ASSUME LedgerBase, PurchasingInv, NEW v \in DOMAIN supplierReturns, ReverseReturn(v)
  PROVE  PurchasingActs
<1>1. /\ goodsReceipts \in Seq(ReceiptRows) /\ supplierReturns \in Seq(ReturnRows)
      /\ PurchasingAdds /\ ReturnsAdd /\ PurchasesArePosted /\ PurchasingTyped
      /\ \A w \in DOMAIN supplierReturns : supplierReturns[w].of \in DOMAIN goodsReceipts
      /\ WholeLedger(movements) /\ ClaimsArePosted
  BY PurchaseFacts DEF PurchasingInv
<1>2. PICK old \in ReturnRows : old = supplierReturns[v]
  BY <1>1
<1>3. PICK lines \in [OrderLines -> Nat] : lines = old.lines
  BY DEF ReturnRows
<1>4. PICK g : g = old.of
  OBVIOUS
<1>5. /\ old.status = "posted" /\ old.movement # 0 /\ g \in PostedIn(goodsReceipts)
      /\ movements[old.movement].delta = AtScopes(lines, -1)
  <2>1. old.status = "posted"
    BY <1>2 DEF ReverseReturn
  <2> QED
    BY <1>1, <1>2, <1>3, <1>4, <2>1
       DEF PurchasesArePosted, ReturnIsPosted, ReturnsAdd, BackedReturns, ActiveReturns
<1>6. PICK row : row = [old EXCEPT !.status = "reversed"]
  OBVIOUS
<1>7. /\ row \in ReturnRows /\ row.status = "reversed" /\ row.lines = lines /\ row.of = g
      /\ row.movement = old.movement
  BY <1>3, <1>4, <1>6 DEF ReturnRows
<1>8. /\ supplierReturns' = [supplierReturns EXCEPT ![v] = row]
      /\ UNCHANGED <<orderStatus, goodsReceipts, payments, allocations>>
      /\ ReverseMovement(old.movement)
  BY <1>2, <1>6 DEF ReverseReturn
<1>9. /\ PurchasingTyped'
      /\ supplierReturns' \in Seq(ReturnRows) /\ DOMAIN supplierReturns' = DOMAIN supplierReturns
      /\ supplierReturns'[v] = row
      /\ \A w \in DOMAIN supplierReturns : w # v => supplierReturns'[w] = supplierReturns[w]
  BY <1>1, <1>2, <1>4, <1>7, <1>8, ReturnRowTyped
<1>10. OneMoreBack(supplierReturns', v, supplierReturns)
  BY <1>2, <1>4, <1>5, <1>7, <1>9 DEF OneMoreBack, BackIn
<1>11. PICK mv : mv = [delta |-> Stock!Opposite(movements[old.movement].delta),
                       reversalOf |-> old.movement]
  OBVIOUS
<1>12. mv.reversalOf = old.movement /\ mv.delta = Stock!Opposite(AtScopes(lines, -1))
  BY <1>5, <1>11
<1>13. LedgerKept /\ Grows(mv)
  BY <1>8, <1>11, ReversalKeepsLedger DEF LedgerBase, LedgerKept, Bounded
<1>14. old.movement \in MovesOf(PurchaseClaims)
  BY <1>1, <1>2, <1>5, PurchaseMoves
<1>15. PartStep(PurchaseClaims, PurchaseClaims')
  <2>1. Kept(PurchaseClaims, PurchaseClaims')
    BY <1>2, <1>7, <1>8, <1>9 DEF Kept, PurchaseClaims
  <2> QED
    BY <1>12, <1>13, <1>14, <2>1 DEF PartStep
<1>16. \A m \in DOMAIN movements : m \in DOMAIN movements' /\ movements'[m] = movements[m]
  <2>1. Moves(MovesOf(PurchaseClaims))
    BY <1>12, <1>13, <1>14 DEF Moves
  <2> QED
    BY <1>1, <2>1, RowsStay
<1>17. PurchasesArePosted'
  <2>1. \A h \in DOMAIN goodsReceipts : goodsReceipts[h].movement # 0 =>
          goodsReceipts[h].movement \in DOMAIN movements
    BY <1>1, PurchaseMoves
  <2>2. \A w \in DOMAIN supplierReturns : supplierReturns[w].movement # 0 =>
          supplierReturns[w].movement \in DOMAIN movements
    BY <1>1, PurchaseMoves
  <2>3. ReturnIsPosted(row, movements')
    BY <1>2, <1>5, <1>7, <1>16, <2>2 DEF ReturnIsPosted
  <2>4. ASSUME NEW w \in DOMAIN supplierReturns', w # v
        PROVE  ReturnIsPosted(supplierReturns'[w], movements')
    BY <1>1, <1>9, <1>16, <2>2, <2>4 DEF PurchasesArePosted, ReturnIsPosted
  <2>5. ASSUME NEW h \in DOMAIN goodsReceipts
        PROVE  ReceiptIsPosted(goodsReceipts[h], movements')
    BY <1>1, <1>16, <2>1 DEF PurchasesArePosted, ReceiptIsPosted
  <2> QED
    BY <1>8, <1>9, <2>3, <2>4, <2>5 DEF PurchasesArePosted
<1> DEFINE ms == PurchaseMovesIn(goodsReceipts, supplierReturns)
<1>18. PurchaseMovesIn(goodsReceipts', supplierReturns') = ms
  BY <1>2, <1>7, <1>8, <1>9 DEF PurchaseMovesIn
<1>19. ASSUME NEW l \in OrderLines
       PROVE  NetIn(ms, movements', l) = StaysIn(goodsReceipts, supplierReturns', l)
  <2>1. /\ ms \subseteq DOMAIN movements /\ old.movement \in ms
        /\ NetIn(ms, movements, l) = StaysIn(goodsReceipts, supplierReturns, l)
    BY <1>1, <1>14, PurchaseMoves DEF PurchasingAdds, LedgerHoldsRest
  <2>2. l \in Locations /\ mv.delta[l] = lines[l] /\ lines[l] \in Nat
    BY <1>12, ScopeLines
  <2>3. NetIn(ms, movements', l) = NetIn(ms, movements, l) + mv.delta[l]
    BY <1>1, <1>12, <1>13, <2>1, <2>2, NetReversed
  <2>4. PICK a, x : a = lines[l] /\ x = StaysIn(goodsReceipts, supplierReturns', l)
    OBVIOUS
  <2>5. StaysIn(goodsReceipts, supplierReturns, l) = x - a /\ x \in Int
    BY <1>1, <1>2, <1>3, <1>4, <1>5, <1>9, <1>10, <2>4, OneMoreReturnedStays
  <2> HIDE DEF ms
  <2>6. NetIn(ms, movements', l) = (x - a) + a /\ a \in Int
    BY <2>1, <2>2, <2>3, <2>4, <2>5
  <2>7. NetIn(ms, movements', l) = x
    BY ONLY <2>5, <2>6
  <2> QED
    BY <2>4, <2>7
<1>20. PurchasingAdds'
  BY <1>1, <1>8, <1>18, <1>19 DEF PurchasingAdds, OrderIsCovered, LedgerHoldsRest
<1>21. ReturnsAdd'
  <2>1. BackedReturns(goodsReceipts, supplierReturns')
    BY <1>1, <1>7, <1>9 DEF ReturnsAdd, BackedReturns, ActiveReturns
  <2>2. ASSUME NEW h \in DOMAIN goodsReceipts, NEW l \in OrderLines
        PROVE  ReturnedIn(h, l, supplierReturns') <= goodsReceipts[h].accepted[l]
    <3>1. ReturnedIn(h, l, supplierReturns) <= goodsReceipts[h].accepted[l]
      BY <1>1 DEF ReturnsAdd, ReturnsFit
    <3>2. CASE h = g
      <4>1. PICK a, b, x : /\ a = lines[l] /\ b = goodsReceipts[h].accepted[l]
                           /\ x = ReturnedIn(h, l, supplierReturns')
        OBVIOUS
      <4>2. ReturnedIn(h, l, supplierReturns) = x + a /\ a \in Nat
        BY <1>1, <1>2, <1>3, <1>4, <1>9, <1>10, <3>2, <4>1, OneMoreReturned
      <4>3. b \in Int /\ x \in Int
        BY <1>1, <1>9, <4>1, ReceiptColumns, ReturnSums
      <4>4. x <= b
        BY <3>1, <4>1, <4>2, <4>3
      <4> QED
        BY <4>1, <4>4
    <3>3. CASE h # g
      <4>1. ReturnedIn(h, l, supplierReturns) = ReturnedIn(h, l, supplierReturns')
        BY <1>1, <1>2, <1>4, <1>9, <1>10, <3>3, OneMoreReturned
      <4> QED
        BY <3>1, <4>1
    <3> QED
      BY <3>2, <3>3
  <2> QED
    BY <1>8, <2>1, <2>2 DEF ReturnsAdd, ReturnsFit
<1> QED
  BY <1>9, <1>13, <1>15, <1>17, <1>20, <1>21, PurchaseTablesAfter DEF PurchasingActs

\* The amounts of the documents, by their rows.
OwedFor(row) == IF row.status = "posted" THEN Amount(row.accepted) ELSE 0
CreditOf(row) == IF row.status = "posted" THEN Amount(row.lines) ELSE 0
PaidBy(row) == IF row.reversed THEN 0 ELSE row.amount
AllocatedIn(document, al) ==
  SumFunctionOnSet([a \in {b \in al : document \in {b.source, b.target}} |-> a.amount],
                   {b \in al : document \in {b.source, b.target}})

\* The amount of a document of the payables is that of its row.
LEMMA Originals ==
  /\ \A g : OriginalAmount(Payable("receipt", g)) = OwedFor(goodsReceipts[g])
  /\ \A v : OriginalAmount(Payable("return", v)) = CreditOf(supplierReturns[v])
  /\ \A p : OriginalAmount(Payable("payment", p)) = PaidBy(payments[p])
  BY DEF OriginalAmount, Payable, OwedFor, CreditOf, PaidBy

\* The same after a step.
LEMMA OriginalsAfter ==
  /\ \A g : OriginalAmount(Payable("receipt", g))' = OwedFor(goodsReceipts'[g])
  /\ \A v : OriginalAmount(Payable("return", v))' = CreditOf(supplierReturns'[v])
  /\ \A p : OriginalAmount(Payable("payment", p))' = PaidBy(payments'[p])
  BY DEF OriginalAmount, Payable, OwedFor, CreditOf, PaidBy

\* The amounts of the rows are quantities.
LEMMA AmountsAreTyped ==
  /\ \A row \in ReceiptRows : OwedFor(row) \in Nat
  /\ \A row \in ReturnRows : CreditOf(row) \in Nat
  /\ \A row \in PaymentRows : PaidBy(row) \in Nat
<1>1. ASSUME NEW row \in ReceiptRows PROVE OwedFor(row) \in Nat
  <2>1. row.accepted \in [OrderLines -> Nat]
    BY DEF ReceiptRows
  <2> QED
    BY <2>1, OrderLinesAreFinite DEF OwedFor
<1>2. ASSUME NEW row \in ReturnRows PROVE CreditOf(row) \in Nat
  <2>1. row.lines \in [OrderLines -> Nat]
    BY DEF ReturnRows
  <2> QED
    BY <2>1, OrderLinesAreFinite DEF CreditOf
<1>3. ASSUME NEW row \in PaymentRows PROVE PaidBy(row) \in Nat
  BY DEF PaymentRows, PaidBy
<1> QED
  BY <1>1, <1>2, <1>3

\* Allocations are of natural amounts.
AllocationsTyped(al) == IsFiniteSet(al) /\ \A a \in al : a.amount \in Nat

\* What is allocated of a document is a quantity.
LEMMA AllocatedIsNat ==
  ASSUME NEW al, AllocationsTyped(al), NEW document
  PROVE  AllocatedIn(document, al) \in Nat
<1> DEFINE rows == {b \in al : document \in {b.source, b.target}}
<1>1. IsFiniteSet(rows) /\ \A a \in rows : [b \in rows |-> b.amount][a] \in Nat
  BY FS_Subset DEF AllocationsTyped
<1>2. SumFunctionOnSet([b \in rows |-> b.amount], rows) \in Nat
  <2> HIDE DEF rows
  <2> QED
    BY <1>1, SumNat
<1> QED
  BY <1>2 DEF AllocatedIn

\* One allocation more.
LEMMA AllocatedGrows ==
  ASSUME NEW al, AllocationsTyped(al), NEW x, x \notin al, x.amount \in Nat, NEW document
  PROVE  /\ AllocatedIn(document, al \union {x})
              = IF document \in {x.source, x.target} THEN AllocatedIn(document, al) + x.amount
                ELSE AllocatedIn(document, al)
         /\ AllocatedIn(document, al) \in Nat
<1> DEFINE R == {b \in al : document \in {b.source, b.target}}
           S == {b \in al \union {x} : document \in {b.source, b.target}}
           f == [a \in R |-> a.amount]
           k == [a \in S |-> a.amount]
<1>1. IsFiniteSet(R) /\ x \notin R /\ \A a \in R : a.amount \in Nat
  BY FS_Subset DEF AllocationsTyped
<1>2. AllocatedIn(document, al) = SumFunctionOnSet(f, R)
      /\ AllocatedIn(document, al \union {x}) = SumFunctionOnSet(k, S)
  BY DEF AllocatedIn
<1>3. AllocatedIn(document, al) \in Nat
  BY AllocatedIsNat
<1>4. S = IF document \in {x.source, x.target} THEN R \union {x} ELSE R
  OBVIOUS
<1>5. CASE document \in {x.source, x.target}
  <2>1. S = R \union {x}
    BY <1>4, <1>5
  <2> HIDE DEF R, S
  <2>2. k[x] = x.amount /\ k[x] \in Int
    BY <2>1
  <2>3. \A a \in R : f[a] \in Int /\ k[a] = f[a]
    BY <1>1, <2>1
  <2> HIDE DEF f, k
  <2>4. SumFunctionOnSet(k, R \union {x}) = SumFunctionOnSet(f, R) + k[x]
    BY <1>1, <2>2, <2>3, SumExtend
  <2> QED
    BY <1>2, <1>3, <1>5, <2>1, <2>2, <2>4
<1>6. CASE document \notin {x.source, x.target}
  <2>1. S = R
    BY <1>4, <1>6
  <2> HIDE DEF R, S
  <2> QED
    BY <1>2, <1>3, <1>6, <2>1
<1> QED
  BY <1>5, <1>6

\* What purchasing knows of its payables.
LEMMA PayableFacts ==
  ASSUME PurchasingTyped
  PROVE  /\ AllocationsTyped(allocations)
         /\ \A document : /\ AllocatedTo(document) = AllocatedIn(document, allocations)
                          /\ AllocatedTo(document) \in Nat
                          /\ document \notin Debits \union Credits => AllocatedTo(document) = 0
         /\ \A document \in Debits \union Credits :
              \/ \E g \in DOMAIN goodsReceipts : document = Payable("receipt", g)
              \/ \E v \in DOMAIN supplierReturns : document = Payable("return", v)
              \/ \E p \in DOMAIN payments : document = Payable("payment", p)
<1>1. AllocationsTyped(allocations)
  BY DEF PurchasingTyped, PurchasingTypeOK, AllocationsTyped
<1>2. \A document : AllocatedTo(document) = AllocatedIn(document, allocations)
  BY DEF AllocatedTo, AllocatedIn
<1>3. ASSUME NEW document, document \notin Debits \union Credits
      PROVE  AllocatedTo(document) = 0
  <2>1. {b \in allocations : document \in {b.source, b.target}} = {}
    BY <1>3 DEF PurchasingTyped, PurchasingTypeOK
  <2> QED
    BY <2>1, SumEmpty DEF AllocatedTo
<1> QED
  BY <1>1, <1>2, <1>3, AllocatedIsNat DEF Debits, Credits

\* A row owes what it did, or owed nothing, or nothing is allocated to it.
LEMMA PayablesStay ==
  ASSUME PurchasingTyped, PurchasingTyped', PayablesAreCovered, allocations' = allocations,
         DOMAIN goodsReceipts \subseteq DOMAIN goodsReceipts',
         DOMAIN supplierReturns \subseteq DOMAIN supplierReturns',
         DOMAIN payments \subseteq DOMAIN payments',
         \A g \in DOMAIN goodsReceipts :
           \/ goodsReceipts'[g] = goodsReceipts[g] \/ OwedFor(goodsReceipts[g]) = 0
           \/ PayableIsFree(Payable("receipt", g)),
         \A v \in DOMAIN supplierReturns :
           \/ supplierReturns'[v] = supplierReturns[v] \/ CreditOf(supplierReturns[v]) = 0
           \/ PayableIsFree(Payable("return", v)),
         \A p \in DOMAIN payments :
           payments'[p] = payments[p] \/ PayableIsFree(Payable("payment", p))
  PROVE  PayablesAreCovered'
<1> SUFFICES ASSUME NEW document \in (Debits \union Credits)'
             PROVE  AllocatedTo(document)' <= OriginalAmount(document)'
  BY DEF PayablesAreCovered
<1>1. /\ AllocatedTo(document)' = AllocatedTo(document) /\ AllocatedTo(document) \in Nat
      /\ document \notin Debits \union Credits => AllocatedTo(document) = 0
      /\ PayableIsFree(document) <=> AllocatedTo(document) = 0
  BY PayableFacts DEF AllocatedTo, PayableIsFree
<1>2. document \in Debits \union Credits => AllocatedTo(document) <= OriginalAmount(document)
  BY DEF PayablesAreCovered
<1>3. \/ \E g \in DOMAIN goodsReceipts' : document = Payable("receipt", g)
      \/ \E v \in DOMAIN supplierReturns' : document = Payable("return", v)
      \/ \E p \in DOMAIN payments' : document = Payable("payment", p)
  BY DEF Debits, Credits
<1>4. ASSUME NEW now, NEW before, now = OriginalAmount(document)', now \in Nat,
             document \in Debits \union Credits => before = OriginalAmount(document),
             document \in Debits \union Credits =>
               now = before \/ before = 0 \/ PayableIsFree(document)
      PROVE  AllocatedTo(document)' <= OriginalAmount(document)'
  <2>1. CASE document \in Debits \union Credits
    BY <1>1, <1>2, <1>4, <2>1
  <2>2. CASE document \notin Debits \union Credits
    BY <1>1, <1>4, <2>2
  <2> QED
    BY <2>1, <2>2
<1>5. CASE \E g \in DOMAIN goodsReceipts' : document = Payable("receipt", g)
  <2>1. PICK g \in DOMAIN goodsReceipts' : document = Payable("receipt", g)
    BY <1>5
  <2>2. goodsReceipts'[g] \in ReceiptRows
    BY DEF PurchasingTyped
  <2>3. PICK now, before : now = OwedFor(goodsReceipts'[g]) /\ before = OwedFor(goodsReceipts[g])
    OBVIOUS
  <2>4. now = OriginalAmount(document)' /\ now \in Nat /\ before = OriginalAmount(document)
    BY <2>1, <2>2, <2>3, Originals, OriginalsAfter, AmountsAreTyped
  <2>5. document \in Debits \union Credits => g \in DOMAIN goodsReceipts
    BY <2>1 DEF Debits, Credits, Payable
  <2>6. document \in Debits \union Credits =>
          now = before \/ before = 0 \/ PayableIsFree(document)
    BY <2>1, <2>3, <2>5
  <2> QED
    BY <1>4, <2>4, <2>6
<1>6. CASE \E v \in DOMAIN supplierReturns' : document = Payable("return", v)
  <2>1. PICK v \in DOMAIN supplierReturns' : document = Payable("return", v)
    BY <1>6
  <2>2. supplierReturns'[v] \in ReturnRows
    BY DEF PurchasingTyped
  <2>3. PICK now, before : now = CreditOf(supplierReturns'[v]) /\ before = CreditOf(supplierReturns[v])
    OBVIOUS
  <2>4. now = OriginalAmount(document)' /\ now \in Nat /\ before = OriginalAmount(document)
    BY <2>1, <2>2, <2>3, Originals, OriginalsAfter, AmountsAreTyped
  <2>5. document \in Debits \union Credits => v \in DOMAIN supplierReturns
    BY <2>1 DEF Debits, Credits, Payable
  <2>6. document \in Debits \union Credits =>
          now = before \/ before = 0 \/ PayableIsFree(document)
    BY <2>1, <2>3, <2>5
  <2> QED
    BY <1>4, <2>4, <2>6
<1>7. CASE \E p \in DOMAIN payments' : document = Payable("payment", p)
  <2>1. PICK p \in DOMAIN payments' : document = Payable("payment", p)
    BY <1>7
  <2>2. payments'[p] \in PaymentRows
    BY DEF PurchasingTyped
  <2>3. PICK now, before : now = PaidBy(payments'[p]) /\ before = PaidBy(payments[p])
    OBVIOUS
  <2>4. now = OriginalAmount(document)' /\ now \in Nat /\ before = OriginalAmount(document)
    BY <2>1, <2>2, <2>3, Originals, OriginalsAfter, AmountsAreTyped
  <2>5. document \in Debits \union Credits => p \in DOMAIN payments
    BY <2>1 DEF Debits, Credits, Payable
  <2>6. document \in Debits \union Credits =>
          now = before \/ before = 0 \/ PayableIsFree(document)
    BY <2>1, <2>3, <2>5
  <2> QED
    BY <1>4, <2>4, <2>6
<1> QED
  BY <1>3, <1>5, <1>6, <1>7

\* Tables that stay the same grow by nothing.
LEMMA TablesStay ==
  ASSUME NEW rs, NEW vs
  PROVE  ReceiptsGrow(rs, rs) /\ ReturnsMove(vs, vs)
  BY DEF ReceiptsGrow, ReturnsMove

\* A step on the order, the payments or the allocations leaves receipts and returns alone.
LEMMA PaperworkActs ==
  ASSUME LedgerBase, PurchasingInv, UNCHANGED stockVars, PurchasingTyped',
         UNCHANGED <<goodsReceipts, supplierReturns>>
  PROVE  PurchasingActs
<1>1. BackedReturns(goodsReceipts, supplierReturns)
  BY PurchaseFacts DEF ReturnsAdd
<1>2. goodsReceipts' = goodsReceipts /\ supplierReturns' = supplierReturns
  OBVIOUS
<1>3. /\ ReceiptsGrow(goodsReceipts, goodsReceipts') /\ ReturnsMove(supplierReturns, supplierReturns')
      /\ BackedReturns(goodsReceipts', supplierReturns')
  BY <1>1, <1>2, TablesStay
<1> QED
  BY <1>3, QuietPurchasing DEF PurchasingActs

\* A transition of the order touches neither stock nor payables.
LEMMA MoveOrderActs ==
  ASSUME LedgerBase, PurchasingInv, NEW from, NEW to \in {"pending_approval", "approved", "cancelled"},
         MoveOrder(from, to)
  PROVE  PurchasingActs /\ PayablesAreCovered'
<1>1. /\ orderStatus' = to /\ UNCHANGED stockVars
      /\ UNCHANGED <<goodsReceipts, supplierReturns, payments, allocations>>
  BY DEF MoveOrder
<1>2. Debits' = Debits /\ Credits' = Credits
  BY <1>1 DEF Debits, Credits
<1>3. PurchasingTyped /\ PayablesAreCovered
  BY DEF PurchasingInv
<1>4. PurchasingTyped'
  <2>1. PurchasingTypeOK'
    BY <1>1, <1>2, <1>3 DEF PurchasingTyped, PurchasingTypeOK
  <2> QED
    BY <1>1, <1>3, <2>1 DEF PurchasingTyped
<1>5. PayablesAreCovered'
  BY <1>1, <1>3, <1>4, PayablesStay
<1> QED
  BY <1>1, <1>4, <1>5, PaperworkActs

\* A table with a row more.
LEMMA RowAdded ==
  ASSUME NEW S, NEW rows \in Seq(S), NEW row \in S
  PROVE  /\ Append(rows, row) \in Seq(S)
         /\ DOMAIN rows \subseteq DOMAIN Append(rows, row)
         /\ DOMAIN Append(rows, row) = DOMAIN rows \union {Len(rows) + 1}
         /\ Len(rows) + 1 \notin DOMAIN rows /\ Len(rows) + 1 \in Nat
         /\ \A r \in DOMAIN Append(rows, row) :
              Append(rows, row)[r] = IF r \in DOMAIN rows THEN rows[r] ELSE row
<1>1. Len(rows) \in Nat /\ DOMAIN rows = 1..Len(rows)
  OBVIOUS
<1>2. /\ Append(rows, row) \in Seq(S) /\ DOMAIN Append(rows, row) = 1..(Len(rows) + 1)
      /\ \A r \in 1..Len(rows) : Append(rows, row)[r] = rows[r]
      /\ Append(rows, row)[Len(rows) + 1] = row
  BY <1>1
<1>3. /\ 1..(Len(rows) + 1) = (1..Len(rows)) \union {Len(rows) + 1}
      /\ Len(rows) + 1 \notin 1..Len(rows)
  BY <1>1
<1> QED
  BY <1>1, <1>2, <1>3

\* A draft receipt owes nothing and posts nothing.
LEMMA CreateReceiptActs ==
  ASSUME LedgerBase, PurchasingInv, NEW accepted \in LineQuantities,
         NEW finalised \in SUBSET OrderLines, CreateReceipt(accepted, finalised)
  PROVE  PurchasingActs /\ PayablesAreCovered'
<1>1. PICK row : row = [status |-> "draft", accepted |-> accepted, finalised |-> finalised,
                        closed |-> Shortage(accepted, finalised), movement |-> 0]
  OBVIOUS
<1>2. accepted \in [OrderLines -> Nat]
  BY OrderLinesAreFinite
<1>3. row \in ReceiptRows /\ row.status = "draft" /\ row.movement = 0
  <2>1. Shortage(accepted, finalised) \in [OrderLines -> Nat]
    BY <1>2, ShortageFits DEF CreateReceipt
  <2> QED
    BY <1>1, <1>2, <2>1 DEF ReceiptRows
<1>4. /\ goodsReceipts' = Append(goodsReceipts, row)
      /\ UNCHANGED <<orderStatus, supplierReturns, payments, allocations>> /\ UNCHANGED stockVars
  BY <1>1 DEF CreateReceipt
<1>5. PurchasingTyped /\ PayablesAreCovered /\ goodsReceipts \in Seq(ReceiptRows) /\ ReturnsAdd
  BY PurchaseFacts DEF PurchasingInv
<1>6. /\ goodsReceipts' \in Seq(ReceiptRows) /\ DOMAIN goodsReceipts \subseteq DOMAIN goodsReceipts'
      /\ \A g \in DOMAIN goodsReceipts' :
           goodsReceipts'[g] = IF g \in DOMAIN goodsReceipts THEN goodsReceipts[g] ELSE row
  BY <1>3, <1>4, <1>5, RowAdded
<1>7. ReceiptsGrow(goodsReceipts, goodsReceipts')
  BY <1>3, <1>6 DEF ReceiptsGrow
<1>8. Debits \subseteq Debits' /\ Credits' = Credits
  BY <1>4, <1>6 DEF Debits, Credits
<1>9. PurchasingTyped'
  <2>1. \A g \in DOMAIN goodsReceipts' : goodsReceipts'[g] \in ReceiptRows
    BY <1>6
  <2>2. PurchasingTypeOK'
    BY <1>4, <1>5, <1>6, <1>8, <2>1 DEF PurchasingTyped, PurchasingTypeOK, ReceiptRows
  <2> QED
    BY <1>4, <1>5, <1>6, <2>2 DEF PurchasingTyped
<1>10. /\ ReturnsMove(supplierReturns, supplierReturns')
       /\ BackedReturns(goodsReceipts', supplierReturns')
  <2>1. PostedIn(goodsReceipts) \subseteq PostedIn(goodsReceipts')
    BY <1>6 DEF PostedIn
  <2>2. supplierReturns' = supplierReturns
    BY <1>4
  <2> QED
    BY <1>5, <2>1, <2>2, TablesStay DEF ReturnsAdd, BackedReturns
<1>11. PurchasingActs
  BY <1>4, <1>7, <1>9, <1>10, QuietPurchasing DEF PurchasingActs
<1>12. PayablesAreCovered'
  BY <1>4, <1>5, <1>6, <1>9, PayablesStay
<1> QED
  BY <1>11, <1>12

\* A draft return credits nothing and posts nothing.
LEMMA CreateReturnActs ==
  ASSUME LedgerBase, PurchasingInv, NEW g \in DOMAIN goodsReceipts, NEW lines \in LineQuantities,
         CreateReturn(g, lines)
  PROVE  PurchasingActs /\ PayablesAreCovered'
<1>1. PICK row : row = [status |-> "draft", of |-> g, lines |-> lines, movement |-> 0]
  OBVIOUS
<1>2. PurchasingTyped /\ PayablesAreCovered /\ goodsReceipts \in Seq(ReceiptRows) /\ ReturnsAdd
      /\ supplierReturns \in Seq(ReturnRows)
  BY PurchaseFacts DEF PurchasingInv
<1>3. row \in ReturnRows /\ row.status = "draft" /\ row.movement = 0 /\ row.of = g
  <2>1. lines \in [OrderLines -> Nat]
    BY OrderLinesAreFinite
  <2>2. g \in Nat
    BY <1>2
  <2> QED
    BY <1>1, <2>1, <2>2 DEF ReturnRows
<1>4. /\ supplierReturns' = Append(supplierReturns, row)
      /\ UNCHANGED <<orderStatus, goodsReceipts, payments, allocations>> /\ UNCHANGED stockVars
  BY <1>1 DEF CreateReturn
<1>6. /\ supplierReturns' \in Seq(ReturnRows)
      /\ DOMAIN supplierReturns \subseteq DOMAIN supplierReturns'
      /\ \A v \in DOMAIN supplierReturns' :
           supplierReturns'[v] = IF v \in DOMAIN supplierReturns THEN supplierReturns[v] ELSE row
  BY <1>2, <1>3, <1>4, RowAdded
<1>7. ReturnsMove(supplierReturns, supplierReturns')
  BY <1>3, <1>6 DEF ReturnsMove
<1>8. Debits' = Debits /\ Credits \subseteq Credits'
  BY <1>4, <1>6 DEF Debits, Credits
<1>9. PurchasingTyped'
  <2>1. \A v \in DOMAIN supplierReturns' :
          /\ supplierReturns'[v].status \in ActiveReturns \union {"draft", "cancelled", "reversed"}
          /\ supplierReturns'[v].of \in DOMAIN goodsReceipts'
    BY <1>2, <1>3, <1>4, <1>6 DEF PurchasingTyped, PurchasingTypeOK
  <2>2. PurchasingTypeOK'
    BY <1>2, <1>4, <1>8, <2>1 DEF PurchasingTyped, PurchasingTypeOK
  <2> QED
    BY <1>2, <1>4, <1>6, <2>2 DEF PurchasingTyped
<1>10. /\ ReceiptsGrow(goodsReceipts, goodsReceipts')
       /\ BackedReturns(goodsReceipts', supplierReturns')
  <2>1. goodsReceipts' = goodsReceipts
    BY <1>4
  <2>2. BackedReturns(goodsReceipts, supplierReturns')
    BY <1>2, <1>3, <1>6 DEF ReturnsAdd, BackedReturns, ActiveReturns
  <2> QED
    BY <2>1, <2>2, TablesStay
<1>11. PurchasingActs
  BY <1>4, <1>7, <1>9, <1>10, QuietPurchasing DEF PurchasingActs
<1>12. PayablesAreCovered'
  BY <1>2, <1>4, <1>6, <1>9, PayablesStay
<1> QED
  BY <1>11, <1>12

\* A return on its way, to a state that counts for nothing.  One that becomes
\* active has been found returnable.
LEMMA MoveReturnActs ==
  ASSUME LedgerBase, PurchasingInv, NEW v \in DOMAIN supplierReturns,
         NEW from \in SUBSET {"draft", "pending_approval", "approved"},
         NEW to \in {"pending_approval", "approved", "cancelled"},
         "draft" \in from /\ to # "cancelled" => Returnable(supplierReturns[v].of, supplierReturns[v].lines),
         MoveReturn(v, from, to)
  PROVE  PurchasingActs /\ PayablesAreCovered'
<1>1. PurchasingTyped /\ PayablesAreCovered /\ goodsReceipts \in Seq(ReceiptRows) /\ ReturnsAdd
      /\ supplierReturns \in Seq(ReturnRows)
      /\ \A w \in DOMAIN supplierReturns : supplierReturns[w].of \in DOMAIN goodsReceipts
  BY PurchaseFacts DEF PurchasingInv
<1>2. PICK old \in ReturnRows : old = supplierReturns[v]
  BY <1>1
<1>3. PICK row : row = [old EXCEPT !.status = to]
  OBVIOUS
<1>4. /\ row \in ReturnRows /\ row.status = to /\ row.of = old.of /\ row.lines = old.lines
      /\ row.movement = old.movement
      /\ to # "posted" /\ to # "reversed"
  BY <1>3 DEF ReturnRows, ActiveReturns
<1>5. /\ old.status \in from /\ supplierReturns' = [supplierReturns EXCEPT ![v] = row]
      /\ UNCHANGED <<orderStatus, goodsReceipts, payments, allocations>> /\ UNCHANGED stockVars
  BY <1>2, <1>3 DEF MoveReturn
<1>6. old.status \in {"draft", "pending_approval", "approved"}
  BY <1>5
<1>7. /\ PurchasingTyped' /\ DOMAIN supplierReturns' = DOMAIN supplierReturns
      /\ supplierReturns'[v] = row
      /\ \A w \in DOMAIN supplierReturns : w # v => supplierReturns'[w] = supplierReturns[w]
  BY <1>1, <1>2, <1>4, <1>5, ReturnRowTyped
<1>8. ReturnsMove(supplierReturns, supplierReturns')
  BY <1>2, <1>4, <1>6, <1>7 DEF ReturnsMove
<1>9. row.status \in ActiveReturns => row.of \in PostedIn(goodsReceipts)
  <2>1. CASE old.status \in ActiveReturns
    BY <1>1, <1>2, <1>4, <2>1 DEF ReturnsAdd, BackedReturns
  <2>2. CASE old.status \notin ActiveReturns
    <3>1. old.status = "draft"
      BY <1>6, <2>2 DEF ActiveReturns
    <3>2. to # "cancelled" => goodsReceipts[old.of].status = "posted"
      BY <1>2, <1>5, <3>1 DEF Returnable
    <3> QED
      BY <1>1, <1>2, <1>4, <3>2 DEF ActiveReturns, PostedIn
  <2> QED
    BY <2>1, <2>2
<1>10. /\ ReceiptsGrow(goodsReceipts, goodsReceipts')
       /\ BackedReturns(goodsReceipts', supplierReturns')
  <2>1. goodsReceipts' = goodsReceipts
    BY <1>5
  <2>2. BackedReturns(goodsReceipts, supplierReturns')
    BY <1>1, <1>7, <1>9 DEF ReturnsAdd, BackedReturns
  <2> QED
    BY <2>1, <2>2, TablesStay
<1>11. PurchasingActs
  BY <1>5, <1>7, <1>8, <1>10, QuietPurchasing DEF PurchasingActs
<1>12. PayablesAreCovered'
  <2>1. CreditOf(old) = 0
    BY <1>6 DEF CreditOf
  <2>2. \A w \in DOMAIN supplierReturns :
          supplierReturns'[w] = supplierReturns[w] \/ CreditOf(supplierReturns[w]) = 0
    BY <1>2, <1>7, <2>1
  <2> QED
    BY <1>1, <1>5, <1>7, <2>2, PayablesStay
<1> QED
  BY <1>11, <1>12

\* A new payment has nothing allocated.
LEMMA CreatePaymentActs ==
  ASSUME LedgerBase, PurchasingInv, NEW amount \in PaymentAmounts, CreatePayment(amount)
  PROVE  PurchasingActs /\ PayablesAreCovered'
<1>1. PICK row : row = [amount |-> amount, reversed |-> FALSE]
  OBVIOUS
<1>2. row \in PaymentRows
  BY <1>1, PurchasingAssumption DEF PaymentRows
<1>3. /\ payments' = Append(payments, row) /\ UNCHANGED stockVars
      /\ UNCHANGED <<orderStatus, goodsReceipts, supplierReturns, allocations>>
  BY <1>1 DEF CreatePayment
<1>4. PurchasingTyped /\ PayablesAreCovered
  BY DEF PurchasingInv
<1>5. /\ payments' \in Seq(PaymentRows) /\ DOMAIN payments \subseteq DOMAIN payments'
      /\ \A p \in DOMAIN payments : payments'[p] = payments[p]
  BY <1>2, <1>3, <1>4, RowAdded DEF PurchasingTyped
<1>6. Debits' = Debits /\ Credits \subseteq Credits'
  BY <1>3, <1>5 DEF Debits, Credits
<1>7. PurchasingTyped'
  <2>1. PurchasingTypeOK'
    BY <1>3, <1>4, <1>6 DEF PurchasingTyped, PurchasingTypeOK
  <2> QED
    BY <1>3, <1>4, <1>5, <2>1 DEF PurchasingTyped
<1>8. PayablesAreCovered'
  BY <1>3, <1>4, <1>5, <1>7, PayablesStay
<1> QED
  BY <1>3, <1>7, <1>8, PaperworkActs

\* A payment is reversed only when nothing of it is allocated.
LEMMA ReversePaymentActs ==
  ASSUME LedgerBase, PurchasingInv, NEW p \in DOMAIN payments, ReversePayment(p)
  PROVE  PurchasingActs /\ PayablesAreCovered'
<1>1. PurchasingTyped /\ PayablesAreCovered /\ payments \in Seq(PaymentRows)
  BY DEF PurchasingInv, PurchasingTyped
<1>2. PICK row : row = [payments[p] EXCEPT !.reversed = TRUE]
  OBVIOUS
<1>3. row \in PaymentRows
  <2>1. payments[p] \in PaymentRows
    BY <1>1
  <2> QED
    BY <1>2, <2>1 DEF PaymentRows
<1>4. /\ payments' = [payments EXCEPT ![p] = row] /\ UNCHANGED stockVars
      /\ UNCHANGED <<orderStatus, goodsReceipts, supplierReturns, allocations>>
      /\ PayableIsFree(Payable("payment", p))
  BY <1>2 DEF ReversePayment
<1>5. /\ payments' \in Seq(PaymentRows) /\ DOMAIN payments' = DOMAIN payments
      /\ \A q \in DOMAIN payments : q # p => payments'[q] = payments[q]
  <2>1. /\ [payments EXCEPT ![p] = row] \in Seq(PaymentRows)
        /\ DOMAIN [payments EXCEPT ![p] = row] = DOMAIN payments
        /\ \A q \in DOMAIN payments : q # p => [payments EXCEPT ![p] = row][q] = payments[q]
    BY <1>1, <1>3, RowReplaced
  <2> QED
    BY <1>4, <2>1
<1>6. Debits' = Debits /\ Credits' = Credits
  BY <1>4, <1>5 DEF Debits, Credits
<1>7. PurchasingTyped'
  <2>1. PurchasingTypeOK'
    BY <1>1, <1>4, <1>6 DEF PurchasingTyped, PurchasingTypeOK
  <2> QED
    BY <1>1, <1>4, <1>5, <2>1 DEF PurchasingTyped
<1>8. PayablesAreCovered'
  <2>1. \A q \in DOMAIN payments :
          payments'[q] = payments[q] \/ PayableIsFree(Payable("payment", q))
    BY <1>4, <1>5
  <2> QED
    BY <1>1, <1>4, <1>5, <1>7, <2>1, PayablesStay
<1> QED
  BY <1>4, <1>7, <1>8, PaperworkActs

\* What an allocation step leaves alone.
LEMMA AllocationActs ==
  ASSUME LedgerBase, PurchasingInv, UNCHANGED stockVars,
         UNCHANGED <<orderStatus, goodsReceipts, supplierReturns, payments>>,
         IsFiniteSet(allocations'),
         \A a \in allocations' : a.source \in Credits /\ a.target \in Debits /\ a.amount \in Nat \ {0}
  PROVE  /\ PurchasingActs
         /\ Debits' = Debits /\ Credits' = Credits
         /\ \A document : OriginalAmount(document)' = OriginalAmount(document)
<1>1. Debits' = Debits /\ Credits' = Credits
  BY DEF Debits, Credits
<1>2. PurchasingTyped'
  <2>1. PurchasingTyped
    BY DEF PurchasingInv
  <2>2. PurchasingTypeOK'
    BY <1>1, <2>1 DEF PurchasingTyped, PurchasingTypeOK
  <2> QED
    BY <2>1, <2>2 DEF PurchasingTyped
<1>3. \A document : OriginalAmount(document)' = OriginalAmount(document)
  BY DEF OriginalAmount
<1> QED
  BY <1>1, <1>2, <1>3, PaperworkActs

\* An allocation stays within what is left of both documents.
LEMMA AllocatePayableActs ==
  ASSUME LedgerBase, PurchasingInv, NEW credit \in Credits, NEW debit \in Debits,
         NEW amount \in 1..Amount(Ordered), AllocatePayable(credit, debit, amount)
  PROVE  PurchasingActs /\ PayablesAreCovered'
<1>1. PICK x : x = [source |-> credit, target |-> debit, amount |-> amount]
  OBVIOUS
<1>2. amount \in Nat \ {0}
  BY OrderLinesAreFinite
<1>3. x.source = credit /\ x.target = debit /\ x.amount = amount
  BY <1>1
<1>4. /\ allocations' = allocations \union {x} /\ x \notin allocations
      /\ UNCHANGED <<orderStatus, goodsReceipts, supplierReturns, payments>> /\ UNCHANGED stockVars
      /\ amount <= OriginalAmount(credit) - AllocatedTo(credit)
      /\ amount <= OriginalAmount(debit) - AllocatedTo(debit)
  BY <1>1, <1>3 DEF AllocatePayable
<1>5. PurchasingTyped /\ PayablesAreCovered
  BY DEF PurchasingInv
<1>6. /\ PurchasingActs
      /\ Debits' = Debits /\ Credits' = Credits
      /\ \A document : OriginalAmount(document)' = OriginalAmount(document)
  <2>1. /\ IsFiniteSet(allocations')
        /\ \A a \in allocations' :
             a.source \in Credits /\ a.target \in Debits /\ a.amount \in Nat \ {0}
    BY <1>2, <1>3, <1>4, <1>5, FS_AddElement DEF PurchasingTyped, PurchasingTypeOK
  <2> QED
    BY <1>4, <2>1, AllocationActs
<1>7. ASSUME NEW document \in Debits \union Credits
      PROVE  AllocatedTo(document)' <= OriginalAmount(document)
  <2>1. AllocationsTyped(allocations) /\ AllocatedTo(document) = AllocatedIn(document, allocations)
    BY <1>5, PayableFacts
  <2>2. AllocatedTo(document)' = AllocatedIn(document, allocations')
    BY DEF AllocatedTo, AllocatedIn
  <2>3. PICK now, before, original :
          /\ now = AllocatedTo(document)' /\ before = AllocatedTo(document)
          /\ original = OriginalAmount(document)
    OBVIOUS
  <2>4. /\ now = IF document \in {credit, debit} THEN before + amount ELSE before
        /\ before \in Nat
    <3>1. /\ AllocatedIn(document, allocations \union {x})
               = IF document \in {x.source, x.target}
                 THEN AllocatedIn(document, allocations) + x.amount
                 ELSE AllocatedIn(document, allocations)
          /\ AllocatedIn(document, allocations) \in Nat
      BY <1>2, <1>3, <1>4, <2>1, AllocatedGrows
    <3> QED
      BY <1>3, <1>4, <2>1, <2>2, <2>3, <3>1
  <2>5. before <= original
    BY <1>5, <2>3 DEF PayablesAreCovered
  <2>6. document \in {credit, debit} => amount <= original - before
    BY <1>4, <2>3
  <2>7. original \in Nat
    <3>1. goodsReceipts \in Seq(ReceiptRows) /\ supplierReturns \in Seq(ReturnRows)
          /\ payments \in Seq(PaymentRows)
      BY <1>5 DEF PurchasingTyped
    <3>2. CASE \E g \in DOMAIN goodsReceipts : document = Payable("receipt", g)
      BY <2>3, <3>1, <3>2, Originals, AmountsAreTyped
    <3>3. CASE \E v \in DOMAIN supplierReturns : document = Payable("return", v)
      BY <2>3, <3>1, <3>3, Originals, AmountsAreTyped
    <3>4. CASE \E p \in DOMAIN payments : document = Payable("payment", p)
      BY <2>3, <3>1, <3>4, Originals, AmountsAreTyped
    <3> QED
      BY <1>5, <3>2, <3>3, <3>4, PayableFacts
  <2>8. now <= original
    BY ONLY <1>2, <2>4, <2>5, <2>6, <2>7
  <2> QED
    BY <2>3, <2>8
<1> QED
  BY <1>6, <1>7 DEF PayablesAreCovered

\* Taking an allocation back frees both documents.
LEMMA ReversePayableAllocationActs ==
  ASSUME LedgerBase, PurchasingInv, NEW x \in allocations, ReversePayableAllocation(x)
  PROVE  PurchasingActs /\ PayablesAreCovered'
<1>1. PurchasingTyped /\ PayablesAreCovered
  BY DEF PurchasingInv
<1>2. PICK al : al = allocations \ {x}
  OBVIOUS
<1>3. /\ allocations' = al /\ allocations = al \union {x} /\ x \notin al /\ IsFiniteSet(al)
      /\ UNCHANGED <<orderStatus, goodsReceipts, supplierReturns, payments>> /\ UNCHANGED stockVars
  BY <1>1, <1>2, FS_Subset DEF ReversePayableAllocation, PurchasingTyped
<1>4. \A a \in allocations : a.source \in Credits /\ a.target \in Debits /\ a.amount \in Nat \ {0}
  BY <1>1 DEF PurchasingTyped, PurchasingTypeOK
<1>5. /\ PurchasingActs
      /\ Debits' = Debits /\ Credits' = Credits
      /\ \A document : OriginalAmount(document)' = OriginalAmount(document)
  BY <1>3, <1>4, AllocationActs
<1>6. AllocationsTyped(al) /\ x.amount \in Nat
  BY <1>3, <1>4 DEF AllocationsTyped
<1>7. ASSUME NEW document \in Debits \union Credits
      PROVE  AllocatedTo(document)' <= OriginalAmount(document)
  <2>1. /\ AllocatedTo(document) = AllocatedIn(document, al \union {x})
        /\ AllocatedTo(document)' = AllocatedIn(document, al)
    BY <1>3 DEF AllocatedTo, AllocatedIn
  <2>2. PICK now, before, original, amount :
          /\ now = AllocatedTo(document)' /\ before = AllocatedTo(document)
          /\ original = OriginalAmount(document) /\ amount = x.amount
    OBVIOUS
  <2>3. /\ before = IF document \in {x.source, x.target} THEN now + amount ELSE now
        /\ now \in Nat /\ amount \in Nat
    BY <1>3, <1>6, <2>1, <2>2, AllocatedGrows
  <2>4. before <= original
    BY <1>1, <2>2 DEF PayablesAreCovered
  <2>5. original \in Nat
    <3>1. goodsReceipts \in Seq(ReceiptRows) /\ supplierReturns \in Seq(ReturnRows)
          /\ payments \in Seq(PaymentRows)
      BY <1>1 DEF PurchasingTyped
    <3>2. CASE \E g \in DOMAIN goodsReceipts : document = Payable("receipt", g)
      BY <2>2, <3>1, <3>2, Originals, AmountsAreTyped
    <3>3. CASE \E v \in DOMAIN supplierReturns : document = Payable("return", v)
      BY <2>2, <3>1, <3>3, Originals, AmountsAreTyped
    <3>4. CASE \E p \in DOMAIN payments : document = Payable("payment", p)
      BY <2>2, <3>1, <3>4, Originals, AmountsAreTyped
    <3> QED
      BY <1>1, <3>2, <3>3, <3>4, PayableFacts
  <2>6. now <= original
    BY ONLY <2>3, <2>4, <2>5
  <2> QED
    BY <2>2, <2>6
<1> QED
  BY <1>5, <1>7 DEF PayablesAreCovered

\* Posting a receipt makes its payable; reversing one needs it free.
LEMMA ReceiptPayables ==
  ASSUME PurchasingInv, PurchasingTyped', NEW g \in DOMAIN goodsReceipts,
         PostReceipt(g) \/ \E seen : ReverseReceipt(g, seen)
  PROVE  PayablesAreCovered'
<1>1. PurchasingTyped /\ PayablesAreCovered /\ goodsReceipts \in Seq(ReceiptRows)
  BY DEF PurchasingInv, PurchasingTyped
<1>2. /\ DOMAIN goodsReceipts' = DOMAIN goodsReceipts
      /\ \A h \in DOMAIN goodsReceipts : h # g => goodsReceipts'[h] = goodsReceipts[h]
      /\ UNCHANGED <<supplierReturns, payments, allocations>>
  BY DEF PostReceipt, WritePostedReceipt, ReverseReceipt
<1>3. OwedFor(goodsReceipts[g]) = 0 \/ PayableIsFree(Payable("receipt", g))
  BY DEF PostReceipt, ReverseReceipt, OwedFor
<1>4. \A h \in DOMAIN goodsReceipts :
        \/ goodsReceipts'[h] = goodsReceipts[h] \/ OwedFor(goodsReceipts[h]) = 0
        \/ PayableIsFree(Payable("receipt", h))
  BY <1>2, <1>3
<1> QED
  BY <1>1, <1>2, <1>4, PayablesStay

\* So does a return its credit.
LEMMA ReturnPayables ==
  ASSUME PurchasingInv, PurchasingTyped', NEW v \in DOMAIN supplierReturns,
         PostReturn(v) \/ ReverseReturn(v)
  PROVE  PayablesAreCovered'
<1>1. PurchasingTyped /\ PayablesAreCovered /\ supplierReturns \in Seq(ReturnRows)
  BY DEF PurchasingInv, PurchasingTyped
<1>2. /\ DOMAIN supplierReturns' = DOMAIN supplierReturns
      /\ \A w \in DOMAIN supplierReturns : w # v => supplierReturns'[w] = supplierReturns[w]
      /\ UNCHANGED <<goodsReceipts, payments, allocations>>
  BY DEF PostReturn, ReverseReturn
<1>3. CreditOf(supplierReturns[v]) = 0 \/ PayableIsFree(Payable("return", v))
  BY DEF PostReturn, ReverseReturn, CreditOf
<1>4. \A w \in DOMAIN supplierReturns :
        \/ supplierReturns'[w] = supplierReturns[w] \/ CreditOf(supplierReturns[w]) = 0
        \/ PayableIsFree(Payable("return", w))
  BY <1>2, <1>3
<1> QED
  BY <1>1, <1>2, <1>4, PayablesStay

\* Purchasing posts and reverses its own movements, and adds up.
LEMMA PurchasingAct ==
  ASSUME LedgerBase, PurchasingInv, PurchasingNext
  PROVE  LedgerKept /\ PartStep(PurchaseClaims, PurchaseClaims') /\ PurchasingInv'
<1> SUFFICES PurchasingActs /\ PayablesAreCovered'
  BY DEF PurchasingActs, PurchasingInv
<1>1. CASE SubmitOrder \/ ApproveOrder \/ CancelOrder
  BY <1>1, MoveOrderActs DEF SubmitOrder, ApproveOrder, CancelOrder
<1>2. CASE \E accepted \in LineQuantities, finalised \in SUBSET OrderLines :
             CreateReceipt(accepted, finalised)
  BY <1>2, CreateReceiptActs
<1>3. ASSUME NEW g \in DOMAIN goodsReceipts, PostReceipt(g) \/ \E seen : ReverseReceipt(g, seen)
      PROVE  PurchasingActs /\ PayablesAreCovered'
  <2>1. PurchasingActs
    BY <1>3, PostReceiptActs, ReverseGoodsReceiptActs
  <2>2. PurchasingTyped'
    BY <2>1 DEF PurchasingActs
  <2> QED
    BY <1>3, <2>1, <2>2, ReceiptPayables
<1>4. ASSUME NEW g \in DOMAIN goodsReceipts, NEW lines \in LineQuantities, CreateReturn(g, lines)
      PROVE  PurchasingActs /\ PayablesAreCovered'
  BY <1>4, CreateReturnActs
<1>5. ASSUME NEW v \in DOMAIN supplierReturns, SubmitReturn(v) \/ ApproveReturn(v) \/ CancelReturn(v)
      PROVE  PurchasingActs /\ PayablesAreCovered'
  <2>1. CASE SubmitReturn(v)
    BY <2>1, MoveReturnActs DEF SubmitReturn
  <2>2. CASE ApproveReturn(v)
    BY <2>2, MoveReturnActs DEF ApproveReturn
  <2>3. CASE CancelReturn(v)
    BY <2>3, MoveReturnActs DEF CancelReturn
  <2> QED
    BY <1>5, <2>1, <2>2, <2>3
<1>6. ASSUME NEW v \in DOMAIN supplierReturns, PostReturn(v) \/ ReverseReturn(v)
      PROVE  PurchasingActs /\ PayablesAreCovered'
  <2>1. PurchasingActs
    BY <1>6, PostReturnActs, ReverseReturnActs
  <2>2. PurchasingTyped'
    BY <2>1 DEF PurchasingActs
  <2> QED
    BY <1>6, <2>1, <2>2, ReturnPayables
<1>7. CASE \E amount \in PaymentAmounts : CreatePayment(amount)
  BY <1>7, CreatePaymentActs
<1>8. CASE \E p \in DOMAIN payments : ReversePayment(p)
  BY <1>8, ReversePaymentActs
<1>9. CASE \E credit \in Credits, debit \in Debits, amount \in 1..Amount(Ordered) :
             AllocatePayable(credit, debit, amount)
  BY <1>9, AllocatePayableActs
<1>10. CASE \E a \in allocations : ReversePayableAllocation(a)
  BY <1>10, ReversePayableAllocationActs
<1> QED
  BY <1>1, <1>2, <1>3, <1>4, <1>5, <1>6, <1>7, <1>8, <1>9, <1>10 DEF PurchasingNext

\* What the others post leaves purchasing as it is.
LEMMA PurchasingUntouched ==
  ASSUME WholeLedger(movements), PurchasingInv, ClaimsArePosted,
         UNCHANGED purchasingVars, Untouched(MovesOf(PurchaseClaims))
  PROVE  PurchasingInv'
<1>1. UNCHANGED <<orderStatus, goodsReceipts, supplierReturns, payments, allocations>>
  BY DEF purchasingVars
<1>2. /\ PurchasingTyped /\ PurchasesArePosted /\ PurchasingAdds /\ ReturnsAdd /\ PayablesAreCovered
      /\ goodsReceipts' = goodsReceipts /\ supplierReturns' = supplierReturns
  BY <1>1, PurchaseTables DEF PurchasingInv
<1>3. /\ PurchaseMovesIn(goodsReceipts, supplierReturns) = MovesOf(PurchaseClaims)
      /\ MovesOf(PurchaseClaims) \subseteq DOMAIN movements
  BY PurchaseMoves
<1>4. /\ \A l \in Locations : NetIn(MovesOf(PurchaseClaims), movements', l)
                                = NetIn(MovesOf(PurchaseClaims), movements, l)
      /\ \A m \in DOMAIN movements : m \in DOMAIN movements' /\ movements'[m] = movements[m]
  BY <1>3, NetUntouched
<1>5. PurchasesArePosted'
  BY <1>2, <1>4, TablesStay, PurchasesStayPosted
<1>6. PurchasingTyped'
  BY <1>1, <1>2 DEF PurchasingTyped, PurchasingTypeOK, Debits, Credits
<1>7. PurchasingAdds' /\ ReturnsAdd'
  <2>1. \A l \in OrderLines : l \in Locations
    BY PurchasingAssumption
  <2> QED
    BY <1>2, <1>3, <1>4, <2>1 DEF PurchasingAdds, LedgerHoldsRest, ReturnsAdd
<1>8. PayablesAreCovered'
  BY <1>1, <1>2 DEF PayablesAreCovered, Debits, Credits, AllocatedTo, OriginalAmount
<1> QED
  BY <1>2, <1>5, <1>6, <1>7, <1>8, PurchaseTablesAfter DEF PurchasingInv

-----------------------------------------------------------------------------
(* Direct sales.                                                           *)

\* The table u has the rows of t and perhaps more.
Extends(t, u) == DOMAIN t \subseteq DOMAIN u /\ \A x \in DOMAIN t : u[x] = t[x]

\* What came back to an issue is a quantity.
LEMMA ReturnSumsTyped ==
  ASSUME NEW rs \in Seq(ManualReturnRows), NEW S
  PROVE  /\ CameBackIn(S, rs) \in Nat /\ IsFiniteSet(ReturnsIn(S, rs))
         /\ \A r \in ReturnsIn(S, rs) : rs[r].quantity \in Nat
<1>1. Len(rs) \in Nat /\ DOMAIN rs = 1..Len(rs) /\ \A r \in DOMAIN rs : rs[r] \in ManualReturnRows
  OBVIOUS
<1>2. IsFiniteSet(ReturnsIn(S, rs))
  <2>1. IsFiniteSet(DOMAIN rs)
    BY <1>1, FS_Interval
  <2> QED
    BY <2>1, FS_Subset DEF ReturnsIn
<1>3. \A r \in ReturnsIn(S, rs) : rs[r].quantity \in Nat
  BY <1>1 DEF ReturnsIn, ManualReturnRows
<1>4. \A r \in ReturnsIn(S, rs) : [q \in ReturnsIn(S, rs) |-> rs[q].quantity][r] \in Nat
  BY <1>3
<1>5. CameBackIn(S, rs) \in Nat
  BY <1>2, <1>4, SumNat DEF CameBackIn
<1> QED
  BY <1>2, <1>3, <1>5

\* Returns of other issues change nothing for the issues in S.
LEMMA ReturnSumsStay ==
  ASSUME NEW rs \in Seq(ManualReturnRows), NEW ws, Extends(rs, ws), NEW S,
         \A r \in DOMAIN ws \ DOMAIN rs : ws[r].issue \notin S
  PROVE  /\ ReturnsIn(S, ws) = ReturnsIn(S, rs) /\ CameBackIn(S, ws) = CameBackIn(S, rs)
         /\ \A is : IssueMoves(S, is, ws) = IssueMoves(S, is, rs)
<1> DEFINE R == ReturnsIn(S, rs)
<1>1. ReturnsIn(S, ws) = R /\ \A r \in R : ws[r] = rs[r]
  BY DEF ReturnsIn, Extends
<1>2. IsFiniteSet(R)
  BY ReturnSumsTyped
<1> HIDE DEF R
<1>3. SumFunctionOnSet([r \in R |-> ws[r].quantity], R)
        = SumFunctionOnSet([r \in R |-> rs[r].quantity], R)
  BY <1>1, <1>2, SumCongruence
<1>4. \A is : IssueMoves(S, is, ws) = IssueMoves(S, is, rs)
  BY <1>1 DEF IssueMoves, R
<1> QED
  BY <1>1, <1>3, <1>4 DEF CameBackIn, R

\* The movements of the current issues of an order are its own.
LEMMA DirectMoves ==
  ASSUME ClaimsArePosted, DirectSalesInv, NEW S, S \subseteq DOMAIN directIssues
  PROVE  /\ IssueMoves(S, directIssues, manualReturns) \subseteq MovesOf(DirectClaims)
         /\ IssueMoves(S, directIssues, manualReturns) \subseteq DOMAIN movements
<1>1. \A i \in DOMAIN directIssues :
        /\ <<6, i, directIssues[i].movement>> \in DirectClaims
        /\ <<6, i, directIssues[i].movement>>[3] = directIssues[i].movement
  BY DEF DirectClaims
<1>2. \A r \in DOMAIN manualReturns :
        /\ <<7, r, manualReturns[r].movement>> \in DirectClaims
        /\ <<7, r, manualReturns[r].movement>>[3] = manualReturns[r].movement
  BY DEF DirectClaims
<1>3. /\ \A i \in DOMAIN directIssues : directIssues[i].movement # 0
      /\ \A r \in DOMAIN manualReturns : manualReturns[r].movement # 0
  BY DEF DirectSalesInv
<1>4. IssueMoves(S, directIssues, manualReturns) \subseteq MovesOf(DirectClaims)
  <2>1. \A i \in DOMAIN directIssues : directIssues[i].movement \in MovesOf(DirectClaims)
    BY <1>1, <1>3 DEF MovesOf
  <2>2. \A r \in DOMAIN manualReturns : manualReturns[r].movement \in MovesOf(DirectClaims)
    BY <1>2, <1>3 DEF MovesOf
  <2>3. \A x \in IssueMoves(S, directIssues, manualReturns) :
          \/ \E i \in DOMAIN directIssues : x = directIssues[i].movement
          \/ \E r \in DOMAIN manualReturns : x = manualReturns[r].movement
    BY DEF IssueMoves, ReturnsIn
  <2> QED
    BY <2>1, <2>2, <2>3
<1>5. MovesOf(DirectClaims) \subseteq DOMAIN movements
  BY ClaimedRows, PartsAreApart
<1> QED
  BY <1>4, <1>5

\* The movement of an issue belongs to no other issue and to no return.
LEMMA IssuesAreApart ==
  ASSUME OneOwner, DirectSalesInv, NEW i \in DOMAIN directIssues,
         NEW S, S \subseteq DOMAIN directIssues, i \notin S
  PROVE  directIssues[i].movement \notin IssueMoves(S, directIssues, manualReturns)
<1>1. \A k \in DOMAIN directIssues :
        /\ <<6, k, directIssues[k].movement>> \in Claims
        /\ <<6, k, directIssues[k].movement>>[3] = directIssues[k].movement
        /\ directIssues[k].movement # 0
  BY DEF DirectClaims, Claims, DirectSalesInv
<1>2. \A r \in DOMAIN manualReturns :
        /\ <<7, r, manualReturns[r].movement>> \in Claims
        /\ <<7, r, manualReturns[r].movement>>[3] = manualReturns[r].movement
  BY DEF DirectClaims, Claims
<1>3. ASSUME NEW k \in DOMAIN directIssues, directIssues[k].movement = directIssues[i].movement
      PROVE  k = i
  <2>1. <<6, k, directIssues[k].movement>> = <<6, i, directIssues[i].movement>>
    BY <1>1, <1>3 DEF OneOwner
  <2> QED
    BY <2>1
<1>4. ASSUME NEW r \in DOMAIN manualReturns, manualReturns[r].movement = directIssues[i].movement
      PROVE  FALSE
  <2>1. <<7, r, manualReturns[r].movement>> = <<6, i, directIssues[i].movement>>
    BY <1>1, <1>2, <1>4 DEF OneOwner
  <2> QED
    BY <2>1
<1> QED
  BY <1>3, <1>4 DEF IssueMoves, ReturnsIn

\* An order that a step does not write stays as it is when no issue of it is
\* made or reversed and nothing comes back to it.
LEMMA OtherOrderStays ==
  ASSUME WholeLedger(movements), ClaimsArePosted, DirectSalesInv,
         NEW o \in DOMAIN directOrders, directOrders'[o] = directOrders[o],
         Extends(directIssues, directIssues'), Extends(manualReturns, manualReturns'),
         \A i \in DOMAIN directIssues' \ DOMAIN directIssues : directIssues'[i].order # o,
         \A r \in DOMAIN manualReturns' \ DOMAIN manualReturns :
           manualReturns'[r].issue \notin CurrentOf(o),
         Untouched(IssueMoves(CurrentOf(o), directIssues, manualReturns))
  PROVE  OrderAddsUp(o)'
<1> DEFINE S == CurrentOf(o)
           ms == IssueMoves(S, directIssues, manualReturns)
<1>1. S \subseteq DOMAIN directIssues /\ manualReturns \in Seq(ManualReturnRows)
  BY DEF CurrentOf, CurrentIn, DirectSalesInv, DirectSalesTypeOK
<1>2. CurrentOf(o)' = S
  BY DEF CurrentOf, CurrentIn, Extends
<1>3. /\ CameBackIn(S, manualReturns') = CameBackIn(S, manualReturns)
      /\ IssueMoves(S, directIssues', manualReturns') = ms
  <2>1. IssueMoves(S, directIssues', manualReturns') = IssueMoves(S, directIssues', manualReturns)
        /\ CameBackIn(S, manualReturns') = CameBackIn(S, manualReturns)
    BY <1>1, ReturnSumsStay
  <2>2. IssueMoves(S, directIssues', manualReturns) = ms
    BY <1>1 DEF IssueMoves, Extends
  <2> QED
    BY <2>1, <2>2
<1>4. /\ NetIn(ms, movements', DirectScope) = NetIn(ms, movements, DirectScope)
      /\ \A m \in DOMAIN movements : m \in DOMAIN movements' /\ movements'[m] = movements[m]
  <2>1. ms \subseteq DOMAIN movements
    BY <1>1, DirectMoves
  <2> QED
    BY <2>1, NetUntouched, DirectSalesAssumption
<1>5. StandingManual(o, directIssues', movements') \subseteq StandingManual(o, directIssues, movements)
  BY <1>4 DEF StandingManual, Extends
<1>6. OrderAddsUp(o)
  BY DEF DirectSalesInv
<1>7. \A i \in S : i \in DOMAIN directIssues' /\ directIssues'[i] = directIssues[i]
  BY <1>1 DEF Extends
<1> DEFINE back == CameBackIn(S, manualReturns)
           net == NetIn(ms, movements, DirectScope)
<1>8. OrderSays(directOrders[o], S, directIssues, back, net, StandingManual(o, directIssues, movements))
  BY <1>6 DEF OrderAddsUp
<1>9. OrderAddsUp(o)'
        <=> OrderSays(directOrders[o], S, directIssues', back, net,
                      StandingManual(o, directIssues', movements'))
  BY <1>2, <1>3, <1>4 DEF OrderAddsUp
<1> HIDE DEF S, ms, back, net
<1> QED
  BY <1>5, <1>7, <1>8, <1>9 DEF OrderSays

\* A step on one order.
LEMMA OneOrderActs ==
  ASSUME LedgerBase, DirectSalesInv, NEW o \in DOMAIN directOrders, NEW row \in DirectOrderRows,
         directOrders[o].version <= row.version,
         directOrders' = [directOrders EXCEPT ![o] = row],
         directIssues' \in Seq(DirectIssueRows), Extends(directIssues, directIssues'),
         \A i \in DOMAIN directIssues' \ DOMAIN directIssues :
           /\ directIssues'[i].order = o /\ directIssues'[i].version <= row.version
           /\ directIssues'[i].movement # 0,
         manualReturns' \in Seq(ManualReturnRows), Extends(manualReturns, manualReturns'),
         \A r \in DOMAIN manualReturns' \ DOMAIN manualReturns :
           /\ manualReturns'[r].issue \in DOMAIN directIssues
           /\ directIssues[manualReturns'[r].issue].order = o
           /\ directIssues[manualReturns'[r].issue].lane = "MANUAL"
           /\ manualReturns'[r].movement # 0,
         Moves({directIssues[i].movement : i \in {k \in DOMAIN directIssues : directIssues[k].order = o}}),
         directOrders'[o] = row => OrderAddsUp(o)'
  PROVE  DirectSalesInv'
<1>1. /\ directOrders \in Seq(DirectOrderRows) /\ directIssues \in Seq(DirectIssueRows)
      /\ \A i \in DOMAIN directIssues :
           /\ directIssues[i].order \in DOMAIN directOrders
           /\ directIssues[i].version <= directOrders[directIssues[i].order].version
           /\ directIssues[i].movement # 0
      /\ \A r \in DOMAIN manualReturns :
           /\ manualReturns[r].issue \in DOMAIN directIssues
           /\ directIssues[manualReturns[r].issue].lane = "MANUAL"
           /\ manualReturns[r].movement # 0
  BY DEF DirectSalesInv, DirectSalesTypeOK
<1>2. /\ directOrders' \in Seq(DirectOrderRows) /\ DOMAIN directOrders' = DOMAIN directOrders
      /\ directOrders'[o] = row
      /\ \A u \in DOMAIN directOrders : u # o => directOrders'[u] = directOrders[u]
  <2>1. /\ [directOrders EXCEPT ![o] = row] \in Seq(DirectOrderRows)
        /\ DOMAIN [directOrders EXCEPT ![o] = row] = DOMAIN directOrders
        /\ [directOrders EXCEPT ![o] = row][o] = row
        /\ \A u \in DOMAIN directOrders :
             u # o => [directOrders EXCEPT ![o] = row][u] = directOrders[u]
    BY <1>1, RowReplaced
  <2> QED
    BY <2>1
<1>3. DirectSalesTypeOK'
  BY <1>2 DEF DirectSalesTypeOK
<1>4. ASSUME NEW i \in DOMAIN directIssues'
      PROVE  /\ directIssues'[i].order \in DOMAIN directOrders'
             /\ directIssues'[i].version <= directOrders'[directIssues'[i].order].version
             /\ directIssues'[i].movement # 0
  <2>1. CASE i \notin DOMAIN directIssues
    BY <1>2, <2>1
  <2>2. CASE i \in DOMAIN directIssues
    <3>1. directIssues'[i] = directIssues[i] /\ directIssues[i] \in DirectIssueRows
      BY <1>1, <2>2 DEF Extends
    <3>2. PICK u \in DOMAIN directOrders : u = directIssues[i].order
      BY <1>1, <2>2
    <3>3. PICK a, b, c : /\ a = directIssues[i].version /\ b = directOrders[u].version
                         /\ c = directOrders'[u].version
      OBVIOUS
    <3>4. directOrders[u] \in DirectOrderRows /\ directOrders'[u] \in DirectOrderRows
      BY <1>1, <1>2
    <3>5. a \in Nat /\ b \in Nat /\ c \in Nat
      BY <3>1, <3>3, <3>4 DEF DirectIssueRows, DirectOrderRows
    <3>6. a <= b /\ b <= c
      <4>1. CASE u = o
        BY <1>1, <1>2, <2>2, <3>2, <3>3, <4>1
      <4>2. CASE u # o
        BY <1>1, <1>2, <2>2, <3>2, <3>3, <3>5, <4>2
      <4> QED
        BY <4>1, <4>2
    <3>7. a <= c
      BY ONLY <3>5, <3>6
    <3> QED
      BY <1>1, <1>2, <2>2, <3>1, <3>2, <3>3, <3>7
  <2> QED
    BY <2>1, <2>2
<1>5. ASSUME NEW r \in DOMAIN manualReturns'
      PROVE  /\ manualReturns'[r].issue \in DOMAIN directIssues'
             /\ directIssues'[manualReturns'[r].issue].lane = "MANUAL"
             /\ manualReturns'[r].movement # 0
  BY <1>1 DEF Extends
<1>6. ASSUME NEW u \in DOMAIN directOrders', u # o
      PROVE  OrderAddsUp(u)'
  <2>1. CurrentOf(u) \subseteq DOMAIN directIssues /\ \A i \in CurrentOf(u) : directIssues[i].order = u
    BY DEF CurrentOf, CurrentIn
  <2>2. Untouched(IssueMoves(CurrentOf(u), directIssues, manualReturns))
    <3>1. \A i \in {k \in DOMAIN directIssues : directIssues[k].order = o} :
            directIssues[i].movement \notin IssueMoves(CurrentOf(u), directIssues, manualReturns)
      BY <1>6, <2>1, IssuesAreApart DEF LedgerBase
    <3>2. 0 \notin IssueMoves(CurrentOf(u), directIssues, manualReturns)
      BY <1>1, <2>1 DEF IssueMoves, ReturnsIn
    <3> QED
      BY <3>1, <3>2 DEF Moves, Untouched
  <2>3. /\ u \in DOMAIN directOrders /\ directOrders'[u] = directOrders[u]
        /\ \A i \in DOMAIN directIssues' \ DOMAIN directIssues : directIssues'[i].order # u
        /\ \A r \in DOMAIN manualReturns' \ DOMAIN manualReturns :
             manualReturns'[r].issue \notin CurrentOf(u)
    BY <1>2, <1>6, <2>1
  <2>4. WholeLedger(movements) /\ ClaimsArePosted
    BY LedgerIsWhole DEF LedgerBase
  <2> QED
    BY <2>2, <2>3, <2>4, OtherOrderStays
<1>7. OrderAddsUp(o)'
  BY <1>2
<1> QED
  BY <1>3, <1>4, <1>5, <1>6, <1>7 DEF DirectSalesInv

\* A confirmed order has issued nothing yet.
LEMMA ConfirmDirectOrderActs ==
  ASSUME LedgerBase, DirectSalesInv, NEW lane \in Lanes, NEW quantity \in DirectQuantities,
         ConfirmDirectOrder(lane, quantity)
  PROVE  LedgerKept /\ PartStep(DirectClaims, DirectClaims') /\ DirectSalesInv'
<1>1. PICK row : row = [lane |-> lane, quantity |-> quantity, version |-> 1,
                        issued |-> FALSE, status |-> "confirmed", billed |-> 0]
  OBVIOUS
<1>2. /\ row \in DirectOrderRows /\ ~row.issued /\ row.status = "confirmed" /\ row.billed = 0
  BY <1>1 DEF DirectOrderRows
<1>3. /\ directOrders' = Append(directOrders, row) /\ UNCHANGED stockVars
      /\ directIssues' = directIssues /\ manualReturns' = manualReturns
  BY <1>1 DEF ConfirmDirectOrder
<1>4. PICK o : o = Len(directOrders) + 1
  OBVIOUS
<1>5. /\ directOrders' \in Seq(DirectOrderRows)
      /\ DOMAIN directOrders' = DOMAIN directOrders \union {o} /\ o \notin DOMAIN directOrders
      /\ directOrders'[o] = row
      /\ \A u \in DOMAIN directOrders : directOrders'[u] = directOrders[u]
  <2>1. directOrders \in Seq(DirectOrderRows)
    BY DEF DirectSalesInv, DirectSalesTypeOK
  <2> QED
    BY <1>2, <1>3, <1>4, <2>1, RowAdded
<1>6. Kept(DirectClaims, DirectClaims')
  BY <1>3 DEF Kept, DirectClaims
<1>7. LedgerKept /\ PartStep(DirectClaims, DirectClaims') /\ movements' = movements
  BY <1>3, <1>6, StillClaims
<1>8. WholeLedger(movements) /\ ClaimsArePosted
  BY LedgerIsWhole DEF LedgerBase
<1>9. ASSUME NEW u \in DOMAIN directOrders PROVE OrderAddsUp(u)'
  <2>1. /\ Extends(directIssues, directIssues') /\ Extends(manualReturns, manualReturns')
        /\ DOMAIN directIssues' \ DOMAIN directIssues = {}
        /\ DOMAIN manualReturns' \ DOMAIN manualReturns = {}
    BY <1>3 DEF Extends
  <2>2. Untouched(IssueMoves(CurrentOf(u), directIssues, manualReturns))
    BY <1>7 DEF Untouched
  <2>3. directOrders'[u] = directOrders[u]
    BY <1>5
  <2> QED
    BY <1>8, <2>1, <2>2, <2>3, OtherOrderStays
<1>10. OrderAddsUp(o)'
  <2>1. \A i \in DOMAIN directIssues : directIssues[i].order # o
    BY <1>5 DEF DirectSalesInv
  <2>2. CurrentOf(o)' = {} /\ StandingManual(o, directIssues', movements') = {}
    BY <1>3, <2>1 DEF CurrentOf, CurrentIn, StandingManual
  <2> QED
    BY <1>2, <1>5, <2>2 DEF OrderAddsUp, OrderSays
<1>11. DirectSalesInv'
  BY <1>3, <1>5, <1>9, <1>10 DEF DirectSalesInv, DirectSalesTypeOK
<1> QED
  BY <1>7, <1>11

\* What holds of an order that a step writes.
LEMMA DirectFacts ==
  ASSUME LedgerBase, DirectSalesInv, NEW o \in DOMAIN directOrders
  PROVE  /\ directOrders \in Seq(DirectOrderRows) /\ directIssues \in Seq(DirectIssueRows)
         /\ manualReturns \in Seq(ManualReturnRows)
         /\ directOrders[o] \in DirectOrderRows /\ directOrders[o].quantity \in Nat \ {0}
         /\ WholeLedger(movements) /\ ClaimsArePosted /\ OneOwner
         /\ Len(movements) + 1 \in Nat \ {0} /\ Len(movements) + 1 \notin DOMAIN movements
         /\ OrderAddsUp(o)
         /\ CurrentOf(o) \subseteq DOMAIN directIssues
         /\ o \in Nat
<1>1. WholeLedger(movements) /\ ClaimsArePosted /\ OneOwner
  BY LedgerIsWhole DEF LedgerBase
<1>2. Len(movements) \in Nat
  BY <1>1, LedgerRows
<1>3. /\ directOrders \in Seq(DirectOrderRows) /\ directIssues \in Seq(DirectIssueRows)
      /\ manualReturns \in Seq(ManualReturnRows)
  BY DEF DirectSalesInv, DirectSalesTypeOK
<1>4. directOrders[o] \in DirectOrderRows /\ directOrders[o].quantity \in Nat \ {0}
  <2>1. directOrders[o] \in DirectOrderRows
    BY <1>3
  <2> QED
    BY <2>1, DirectSalesAssumption DEF DirectOrderRows
<1> QED
  BY <1>1, <1>2, <1>3, <1>4, LedgerRows DEF DirectSalesInv, CurrentOf, CurrentIn

\* An issue takes the quantity of the version out once.
LEMMA IssueDirectOrderActs ==
  ASSUME LedgerBase, DirectSalesInv, NEW o \in DOMAIN directOrders, IssueDirectOrder(o)
  PROVE  LedgerKept /\ PartStep(DirectClaims, DirectClaims') /\ DirectSalesInv'
<1>1. PICK n, k : n = Len(movements) + 1 /\ k = Len(directIssues) + 1
  OBVIOUS
<1>2. /\ directOrders \in Seq(DirectOrderRows) /\ directIssues \in Seq(DirectIssueRows)
      /\ manualReturns \in Seq(ManualReturnRows)
      /\ WholeLedger(movements) /\ ClaimsArePosted
      /\ n \in Nat \ {0} /\ n \notin DOMAIN movements /\ OrderAddsUp(o)
      /\ o \in Nat
  BY <1>1, DirectFacts
<1>3. PICK old \in DirectOrderRows : old = directOrders[o]
  BY DirectFacts
<1>4. PICK q \in Nat \ {0} : q = old.quantity
  BY <1>3, DirectFacts
<1>5. PICK issue : issue = [order |-> o, version |-> old.version, lane |-> old.lane, movement |-> n]
  OBVIOUS
<1>6. /\ issue \in DirectIssueRows /\ issue.order = o /\ issue.version = old.version
      /\ issue.lane = old.lane /\ issue.movement = n
  BY <1>2, <1>5 DEF DirectIssueRows, DirectOrderRows
<1>7. PICK row : row = [old EXCEPT !.issued = TRUE]
  OBVIOUS
<1>8. /\ row \in DirectOrderRows /\ row.issued /\ row.status = old.status /\ row.lane = old.lane
      /\ row.version = old.version /\ row.quantity = q /\ row.billed = old.billed
      /\ row.version \in Nat
  BY <1>4, <1>7 DEF DirectOrderRows
<1>9. /\ old.status = "confirmed" /\ ~old.issued
      /\ PostMovement(OneLine(DirectScope, -q))
      /\ directIssues' = Append(directIssues, issue)
      /\ directOrders' = [directOrders EXCEPT ![o] = row]
      /\ manualReturns' = manualReturns
  BY <1>1, <1>3, <1>4, <1>5, <1>7 DEF IssueDirectOrder, NextMovement
<1>10. /\ directIssues' \in Seq(DirectIssueRows)
       /\ DOMAIN directIssues' = DOMAIN directIssues \union {k} /\ k \notin DOMAIN directIssues
       /\ directIssues'[k] = issue
       /\ \A i \in DOMAIN directIssues : directIssues'[i] = directIssues[i]
  BY <1>1, <1>2, <1>6, <1>9, RowAdded
<1>11. PICK mv : mv = [delta |-> OneLine(DirectScope, -q), reversalOf |-> 0]
  OBVIOUS
<1>12. mv.delta[DirectScope] = -q /\ mv.reversalOf = 0
  BY <1>4, <1>11, LineIsTyped, DirectSalesAssumption
<1>13. LedgerKept /\ Grows(mv)
  <2>1. OneLine(DirectScope, -q) \in [Locations -> Int]
    BY <1>4, LineIsTyped
  <2> QED
    BY <1>9, <1>11, <2>1, MovementKeepsLedger DEF LedgerBase, LedgerKept, Bounded
<1>14. PartStep(DirectClaims, DirectClaims')
  <2>1. \A c \in DirectClaims' : c \in DirectClaims \/ c = <<6, k, n>>
    BY <1>6, <1>9, <1>10 DEF DirectClaims
  <2>2. <<6, k, n>>[3] = n
    OBVIOUS
  <2> QED
    BY <1>1, <1>12, <1>13, <2>1, <2>2 DEF PartStep
<1>15. \A m \in DOMAIN movements : m \in DOMAIN movements' /\ movements'[m] = movements[m]
  <2>1. Moves({})
    BY <1>12, <1>13 DEF Moves
  <2> QED
    BY <1>2, <2>1, RowsStay
<1>16. OrderSays(old, CurrentOf(o), directIssues, CameBackIn(CurrentOf(o), manualReturns),
                 NetIn(IssueMoves(CurrentOf(o), directIssues, manualReturns), movements, DirectScope),
                 StandingManual(o, directIssues, movements))
  BY <1>2, <1>3 DEF OrderAddsUp
<1>17. ASSUME directOrders'[o] = row PROVE OrderAddsUp(o)'
  <2>1. CurrentOf(o) = {} /\ StandingManual(o, directIssues, movements) = {} /\ old.billed = 0
    BY <1>9, <1>16 DEF OrderSays
  <2>2. CurrentOf(o)' = {k}
    BY <1>3, <1>6, <1>8, <1>10, <1>17, <2>1 DEF CurrentOf, CurrentIn
  <2>3. ReturnsIn({k}, manualReturns') = {}
    BY <1>9, <1>10 DEF ReturnsIn, DirectSalesInv
  <2>4. CameBackIn({k}, manualReturns') = 0
    BY <2>3, SumEmpty DEF CameBackIn
  <2>5. IssueMoves({k}, directIssues', manualReturns') = {} \union {n}
    BY <1>6, <1>10, <2>3 DEF IssueMoves
  <2>6. NetIn({} \union {n}, movements', DirectScope) = -q
    <3>1. NetIn({}, movements, DirectScope) = 0
      BY NothingPosted
    <3>2. {} \subseteq DOMAIN movements
      OBVIOUS
    <3>3. NetIn({} \union {n}, movements', DirectScope)
            = NetIn({}, movements, DirectScope) + mv.delta[DirectScope]
      BY <1>1, <1>2, <1>13, <3>2, NetPosted, DirectSalesAssumption
    <3> QED
      BY <1>4, <1>12, <3>1, <3>3
  <2>7. StandingManual(o, directIssues', movements') \subseteq {k}
    <3>1. StandingManual(o, directIssues', movements')
            \subseteq StandingManual(o, directIssues, movements) \union {k}
      BY <1>10, <1>15 DEF StandingManual
    <3> QED
      BY <2>1, <3>1
  <2>8. -(-q) = q - 0 /\ 0 <= q
    BY <1>4
  <2>9. OrderSays(row, {k}, directIssues', 0, -q, StandingManual(o, directIssues', movements'))
    BY <1>6, <1>8, <1>9, <1>10, <2>1, <2>7, <2>8 DEF OrderSays
  <2> QED
    BY <1>17, <2>2, <2>4, <2>5, <2>6, <2>9 DEF OrderAddsUp
<1>18. DirectSalesInv'
  <2>1. Extends(directIssues, directIssues') /\ Extends(manualReturns, manualReturns')
    BY <1>9, <1>10 DEF Extends
  <2>2. \A i \in DOMAIN directIssues' \ DOMAIN directIssues :
          /\ directIssues'[i].order = o /\ directIssues'[i].version <= row.version
          /\ directIssues'[i].movement # 0
    BY <1>2, <1>6, <1>8, <1>10
  <2>3. DOMAIN manualReturns' \ DOMAIN manualReturns = {} /\ manualReturns' \in Seq(ManualReturnRows)
    BY <1>2, <1>9
  <2>4. Moves({directIssues[i].movement : i \in {j \in DOMAIN directIssues : directIssues[j].order = o}})
    BY <1>12, <1>13 DEF Moves
  <2>5. directOrders[o].version <= row.version
    BY <1>3, <1>8
  <2> QED
    BY <1>8, <1>9, <1>10, <1>17, <2>1, <2>2, <2>3, <2>4, <2>5, OneOrderActs
<1> QED
  BY <1>13, <1>14, <1>18

\* A return of one of the issues in S more.
LEMMA ReturnSumsGrow ==
  ASSUME NEW rs \in Seq(ManualReturnRows), NEW ws \in Seq(ManualReturnRows), Extends(rs, ws),
         NEW r, r \notin DOMAIN rs, DOMAIN ws = DOMAIN rs \union {r}, NEW S, ws[r].issue \in S
  PROVE  /\ CameBackIn(S, ws) = CameBackIn(S, rs) + ws[r].quantity
         /\ \A is : IssueMoves(S, is, ws) = IssueMoves(S, is, rs) \union {ws[r].movement}
<1> DEFINE R == ReturnsIn(S, rs)
           T == ReturnsIn(S, ws)
           f == [x \in R |-> rs[x].quantity]
           k == [x \in T |-> ws[x].quantity]
<1>1. /\ T = R \union {r} /\ r \notin R /\ r \in T
      /\ \A x \in R : ws[x] = rs[x]
  BY DEF ReturnsIn, Extends
<1>2. IsFiniteSet(R) /\ (\A x \in R : rs[x].quantity \in Nat) /\ ws[r].quantity \in Nat
  BY <1>1, ReturnSumsTyped
<1>3. CameBackIn(S, rs) = SumFunctionOnSet(f, R) /\ CameBackIn(S, ws) = SumFunctionOnSet(k, T)
  BY DEF CameBackIn
<1>4. \A is : IssueMoves(S, is, ws) = IssueMoves(S, is, rs) \union {ws[r].movement}
  <2> HIDE DEF R, T
  <2> QED
    BY <1>1 DEF IssueMoves, R, T
<1> HIDE DEF R, T
<1>5. k[r] = ws[r].quantity /\ k[r] \in Int
  BY <1>1, <1>2
<1>6. \A x \in R : f[x] \in Int /\ k[x] = f[x]
  BY <1>1, <1>2
<1> HIDE DEF f, k
<1>7. SumFunctionOnSet(k, R \union {r}) = SumFunctionOnSet(f, R) + k[r]
  BY <1>1, <1>2, <1>5, <1>6, SumExtend
<1> QED
  BY <1>1, <1>3, <1>4, <1>5, <1>7

\* A return brings back no more than its issue has left.
LEMMA ReceiveManualReturnActs ==
  ASSUME LedgerBase, DirectSalesInv, NEW o \in DOMAIN directOrders, NEW i \in DOMAIN directIssues,
         NEW quantity \in 1..directOrders[o].quantity, ReceiveManualReturn(o, i, quantity)
  PROVE  LedgerKept /\ PartStep(DirectClaims, DirectClaims') /\ DirectSalesInv'
<1>1. PICK n, r : n = Len(movements) + 1 /\ r = Len(manualReturns) + 1
  OBVIOUS
<1>2. /\ directOrders \in Seq(DirectOrderRows) /\ directIssues \in Seq(DirectIssueRows)
      /\ manualReturns \in Seq(ManualReturnRows)
      /\ WholeLedger(movements) /\ ClaimsArePosted
      /\ n \in Nat \ {0} /\ n \notin DOMAIN movements /\ OrderAddsUp(o)
      /\ CurrentOf(o) \subseteq DOMAIN directIssues
  BY <1>1, DirectFacts
<1>3. PICK old \in DirectOrderRows : old = directOrders[o]
  BY DirectFacts
<1>4. PICK q \in Nat \ {0} : q = old.quantity
  BY <1>3, DirectFacts
<1>5. quantity \in Nat \ {0}
  BY <1>3, <1>4
<1>6. PICK back \in Nat : back = CameBackIn({i}, manualReturns)
  BY <1>2, ReturnSumsTyped
<1>7. PICK ret : ret = [issue |-> i, quantity |-> quantity, movement |-> n]
  OBVIOUS
<1>8. /\ ret \in ManualReturnRows /\ ret.issue = i /\ ret.quantity = quantity /\ ret.movement = n
  <2>1. i \in Nat
    BY <1>2
  <2> QED
    BY <1>2, <1>5, <1>7, <2>1 DEF ManualReturnRows
<1>9. PICK row : row = IF back + quantity = q THEN [old EXCEPT !.status = "closed"] ELSE old
  OBVIOUS
<1>10. /\ row \in DirectOrderRows /\ row.issued = old.issued /\ row.lane = old.lane
       /\ row.version = old.version /\ row.quantity = q /\ row.billed = old.billed
       /\ row.version \in Nat
       /\ row.status = IF back + quantity = q THEN "closed" ELSE old.status
  BY <1>4, <1>9 DEF DirectOrderRows
<1>11. /\ old.status = "confirmed" /\ old.issued
       /\ directIssues[i].order = o /\ directIssues[i].lane = "MANUAL" /\ i \in CurrentOf(o)
       /\ quantity <= q - back
       /\ PostMovement(OneLine(DirectScope, quantity))
       /\ manualReturns' = Append(manualReturns, ret)
       /\ directIssues' = directIssues
  BY <1>1, <1>3, <1>4, <1>6, <1>7
     DEF ReceiveManualReturn, ManualIssues, CurrentIssues, CurrentOf, CurrentIn, FitsUnreturned,
         CameBack, CameBackIn, ReturnsOf, ReturnsIn, NextMovement
<1>12. directOrders' = [directOrders EXCEPT ![o] = row]
  <2>1. directOrders' = IF back + quantity = q
                        THEN [directOrders EXCEPT ![o].status = "closed"] ELSE directOrders
    BY <1>3, <1>4, <1>6
       DEF ReceiveManualReturn, CameBack, CameBackIn, ReturnsOf, ReturnsIn
  <2>2. CASE back + quantity = q
    BY <1>3, <1>9, <2>1, <2>2
  <2>3. CASE back + quantity # q
    BY <1>2, <1>3, <1>9, <2>1, <2>3
  <2> QED
    BY <2>2, <2>3
<1>13. /\ manualReturns' \in Seq(ManualReturnRows)
       /\ DOMAIN manualReturns' = DOMAIN manualReturns \union {r} /\ r \notin DOMAIN manualReturns
       /\ manualReturns'[r] = ret /\ Extends(manualReturns, manualReturns')
  BY <1>1, <1>2, <1>8, <1>11, RowAdded DEF Extends
<1>14. PICK mv : mv = [delta |-> OneLine(DirectScope, quantity), reversalOf |-> 0]
  OBVIOUS
<1>15. mv.delta[DirectScope] = quantity /\ mv.reversalOf = 0
  BY <1>5, <1>14, LineIsTyped, DirectSalesAssumption
<1>16. LedgerKept /\ Grows(mv)
  <2>1. OneLine(DirectScope, quantity) \in [Locations -> Int]
    BY <1>5, LineIsTyped
  <2> QED
    BY <1>11, <1>14, <2>1, MovementKeepsLedger DEF LedgerBase, LedgerKept, Bounded
<1>17. PartStep(DirectClaims, DirectClaims')
  <2>1. \A c \in DirectClaims' : c \in DirectClaims \/ c = <<7, r, n>>
    BY <1>8, <1>11, <1>13 DEF DirectClaims, Extends
  <2>2. <<7, r, n>>[3] = n
    OBVIOUS
  <2> QED
    BY <1>1, <1>15, <1>16, <2>1, <2>2 DEF PartStep
<1>18. \A m \in DOMAIN movements : m \in DOMAIN movements' /\ movements'[m] = movements[m]
  <2>1. Moves({})
    BY <1>15, <1>16 DEF Moves
  <2> QED
    BY <1>2, <2>1, RowsStay
<1> DEFINE ms == IssueMoves({i}, directIssues, manualReturns)
<1>19. PICK net : net = NetIn(ms, movements, DirectScope)
  OBVIOUS
<1>20. /\ CurrentOf(o) = {i} /\ old.billed = 0 /\ directIssues[i].lane = old.lane
       /\ back <= q /\ -net = q - back
       /\ \A k \in StandingManual(o, directIssues, movements) : k = i
  <2>1. OrderSays(old, CurrentOf(o), directIssues, CameBackIn(CurrentOf(o), manualReturns),
                  NetIn(IssueMoves(CurrentOf(o), directIssues, manualReturns), movements, DirectScope),
                  StandingManual(o, directIssues, movements))
    BY <1>2, <1>3 DEF OrderAddsUp
  <2>2. CurrentOf(o) = {i} /\ old.billed = 0 /\ directIssues[i].lane = old.lane
    BY <1>11, <2>1 DEF OrderSays
  <2> QED
    BY <1>4, <1>6, <1>11, <1>19, <2>1, <2>2 DEF OrderSays
<1>21. ASSUME directOrders'[o] = row PROVE OrderAddsUp(o)'
  <2>1. CurrentOf(o)' = {i}
    BY <1>3, <1>10, <1>11, <1>20, <1>21 DEF CurrentOf, CurrentIn
  <2>2. /\ CameBackIn({i}, manualReturns') = back + quantity
        /\ IssueMoves({i}, directIssues', manualReturns') = ms \union {n}
    <3>1. PICK S : S = {i}
      OBVIOUS
    <3>2. manualReturns'[r].issue \in S
      BY <1>8, <1>13, <3>1
    <3>3. /\ CameBackIn(S, manualReturns')
               = CameBackIn(S, manualReturns) + manualReturns'[r].quantity
          /\ \A is : IssueMoves(S, is, manualReturns')
                       = IssueMoves(S, is, manualReturns) \union {manualReturns'[r].movement}
      BY ONLY <1>2, <1>13, <3>2, ReturnSumsGrow
    <3> QED
      BY <1>6, <1>8, <1>11, <1>13, <3>1, <3>3
  <2>3. NetIn(ms \union {n}, movements', DirectScope) = net + quantity /\ net \in Int
    <3>1. ms \subseteq DOMAIN movements
      BY <1>2, DirectMoves
    <3>2. /\ NetIn(ms \union {n}, movements', DirectScope)
               = NetIn(ms, movements, DirectScope) + mv.delta[DirectScope]
          /\ NetIn(ms, movements, DirectScope) \in Int
      BY <1>1, <1>2, <1>16, <3>1, NetPosted, DirectSalesAssumption
    <3> QED
      BY <1>15, <1>19, <3>2
  <2>4. \A k \in StandingManual(o, directIssues', movements') : k = i
    <3>1. StandingManual(o, directIssues', movements') \subseteq StandingManual(o, directIssues, movements)
      BY <1>11, <1>18 DEF StandingManual
    <3> QED
      BY <1>20, <3>1
  <2>5. /\ -(net + quantity) = q - (back + quantity) /\ back + quantity <= q
        /\ back + quantity = q => 0 = q - (back + quantity)
    BY ONLY <1>4, <1>5, <1>6, <1>11, <1>20, <2>3, q \in Nat \ {0}, back \in Nat
  <2>6. OrderSays(row, {i}, directIssues', back + quantity, net + quantity,
                  StandingManual(o, directIssues', movements'))
    BY <1>10, <1>11, <1>20, <2>4, <2>5 DEF OrderSays
  <2> HIDE DEF ms
  <2> QED
    BY <1>21, <2>1, <2>2, <2>3, <2>6 DEF OrderAddsUp
<1>22. DirectSalesInv'
  <2>1. Extends(directIssues, directIssues') /\ DOMAIN directIssues' \ DOMAIN directIssues = {}
        /\ directIssues' \in Seq(DirectIssueRows)
    BY <1>2, <1>11 DEF Extends
  <2>2. \A x \in DOMAIN manualReturns' \ DOMAIN manualReturns :
          /\ manualReturns'[x].issue \in DOMAIN directIssues
          /\ directIssues[manualReturns'[x].issue].order = o
          /\ directIssues[manualReturns'[x].issue].lane = "MANUAL"
          /\ manualReturns'[x].movement # 0
    BY <1>2, <1>8, <1>11, <1>13
  <2>3. Moves({directIssues[j].movement : j \in {k \in DOMAIN directIssues : directIssues[k].order = o}})
    BY <1>15, <1>16 DEF Moves
  <2>4. directOrders[o].version <= row.version
    BY <1>3, <1>10
  <2> QED
    BY <1>10, <1>12, <1>13, <1>21, <2>1, <2>2, <2>3, <2>4, OneOrderActs
<1> QED
  BY <1>16, <1>17, <1>22

\* Completion bills what was issued and did not come back.
LEMMA CompleteDirectOrderActs ==
  ASSUME LedgerBase, DirectSalesInv, NEW o \in DOMAIN directOrders, CompleteDirectOrder(o)
  PROVE  LedgerKept /\ PartStep(DirectClaims, DirectClaims') /\ DirectSalesInv'
<1>1. /\ directOrders \in Seq(DirectOrderRows) /\ directIssues \in Seq(DirectIssueRows)
      /\ manualReturns \in Seq(ManualReturnRows) /\ OrderAddsUp(o)
  BY DirectFacts
<1>2. PICK old \in DirectOrderRows : old = directOrders[o]
  BY DirectFacts
<1>3. PICK q \in Nat \ {0} : q = old.quantity
  BY <1>2, DirectFacts
<1>4. PICK back \in Nat : back = CameBackIn(CurrentOf(o), manualReturns)
  BY <1>1, ReturnSumsTyped
<1>5. PICK net : net = NetIn(IssueMoves(CurrentOf(o), directIssues, manualReturns), movements, DirectScope)
  OBVIOUS
<1>6. old.status = "confirmed" /\ old.issued
  BY <1>2 DEF CompleteDirectOrder
<1>7. OrderSays(old, CurrentOf(o), directIssues, back, net, StandingManual(o, directIssues, movements))
  BY <1>1, <1>2, <1>4, <1>5 DEF OrderAddsUp
<1>8. back <= q /\ DeliveredQuantity(o) = q - back
  <2>1. DeliveredQuantity(o) = q - IF old.lane = "MANUAL" THEN back ELSE 0
    BY <1>2, <1>3, <1>4
       DEF DeliveredQuantity, CameBack, CameBackIn, ReturnsOf, ReturnsIn, CurrentIssues, CurrentOf, CurrentIn
  <2>2. CASE old.lane = "MANUAL"
    BY <1>3, <1>6, <1>7, <2>1, <2>2 DEF OrderSays
  <2>3. CASE old.lane # "MANUAL"
    <3>1. PICK i \in DOMAIN directIssues : CurrentOf(o) = {i} /\ directIssues[i].lane = old.lane
      BY <1>6, <1>7 DEF OrderSays
    <3>2. ReturnsIn(CurrentOf(o), manualReturns) = {}
      BY <2>3, <3>1 DEF ReturnsIn, DirectSalesInv
    <3>3. back = 0
      BY <1>4, <3>2, SumEmpty DEF CameBackIn
    <3> QED
      BY <1>3, <2>1, <2>3, <3>3
  <2> QED
    BY <2>2, <2>3
<1>9. PICK row : row = [old EXCEPT !.status = "closed", !.billed = q - back]
  OBVIOUS
<1>10. /\ row \in DirectOrderRows /\ row.issued = old.issued /\ row.lane = old.lane
       /\ row.version = old.version /\ row.quantity = q /\ row.billed = q - back
       /\ row.version \in Nat /\ row.status = "closed"
  <2>1. q - back \in Nat
    BY <1>8
  <2> QED
    BY <1>3, <1>9, <2>1 DEF DirectOrderRows
<1>11. /\ directOrders' = [directOrders EXCEPT ![o] = row] /\ UNCHANGED stockVars
       /\ directIssues' = directIssues /\ manualReturns' = manualReturns
  BY <1>2, <1>8, <1>9 DEF CompleteDirectOrder
<1>12. LedgerKept /\ PartStep(DirectClaims, DirectClaims') /\ movements' = movements
  <2>1. Kept(DirectClaims, DirectClaims')
    BY <1>11 DEF Kept, DirectClaims
  <2> QED
    BY <1>11, <2>1, StillClaims
<1>13. ASSUME directOrders'[o] = row PROVE OrderAddsUp(o)'
  <2>1. CurrentOf(o)' = CurrentOf(o)
    BY <1>2, <1>10, <1>11, <1>13 DEF CurrentOf, CurrentIn
  <2>2. OrderSays(row, CurrentOf(o), directIssues, back, net, StandingManual(o, directIssues, movements))
    BY <1>3, <1>6, <1>7, <1>10 DEF OrderSays
  <2> QED
    BY <1>4, <1>5, <1>11, <1>12, <1>13, <2>1, <2>2 DEF OrderAddsUp
<1>14. DirectSalesInv'
  <2>1. /\ Extends(directIssues, directIssues') /\ DOMAIN directIssues' \ DOMAIN directIssues = {}
        /\ directIssues' \in Seq(DirectIssueRows)
        /\ Extends(manualReturns, manualReturns') /\ DOMAIN manualReturns' \ DOMAIN manualReturns = {}
        /\ manualReturns' \in Seq(ManualReturnRows)
    BY <1>1, <1>11 DEF Extends
  <2>2. Moves({directIssues[j].movement : j \in {k \in DOMAIN directIssues : directIssues[k].order = o}})
    BY <1>12 DEF Moves
  <2>3. directOrders[o].version <= row.version
    BY <1>2, <1>10
  <2> QED
    BY <1>10, <1>11, <1>13, <2>1, <2>2, <2>3, OneOrderActs
<1> QED
  BY <1>12, <1>14

\* Amending or cancelling an order takes back the issue by hand that stands.
LEMMA UnwindActs ==
  ASSUME LedgerBase, DirectSalesInv, NEW o \in DOMAIN directOrders,
         directOrders[o].status = "confirmed", UnwindManualIssues(o),
         directIssues' = directIssues, manualReturns' = manualReturns
  PROVE  /\ LedgerKept /\ PartStep(DirectClaims, DirectClaims')
         /\ Moves({directIssues[i].movement : i \in {k \in DOMAIN directIssues : directIssues[k].order = o}})
         /\ StandingManual(o, directIssues', movements') = {}
<1>1. /\ WholeLedger(movements) /\ ClaimsArePosted /\ OrderAddsUp(o)
      /\ directIssues \in Seq(DirectIssueRows)
  BY DirectFacts
<1>2. Kept(DirectClaims, DirectClaims')
  BY DEF Kept, DirectClaims
<1>3. {i \in ManualIssues(o) : Standing(i)} = StandingManual(o, directIssues, movements)
  BY DEF ManualIssues, Standing, StandingManual
<1>4. CASE StandingManual(o, directIssues, movements) = {}
  <2>1. UNCHANGED stockVars
    BY <1>3, <1>4 DEF UnwindManualIssues
  <2>2. LedgerKept /\ PartStep(DirectClaims, DirectClaims') /\ movements' = movements
    BY <1>2, <2>1, StillClaims
  <2> QED
    BY <1>4, <2>2 DEF Moves
<1>5. CASE StandingManual(o, directIssues, movements) # {}
  <2>1. PICK i \in StandingManual(o, directIssues, movements) : ReverseMovement(directIssues[i].movement)
    BY <1>3, <1>5 DEF UnwindManualIssues
  <2>2. PICK m : m = directIssues[i].movement
    OBVIOUS
  <2>3. /\ i \in DOMAIN directIssues /\ directIssues[i].order = o /\ m # 0
    BY <2>1, <2>2 DEF StandingManual, DirectSalesInv
  <2>4. PICK mv : mv = [delta |-> Stock!Opposite(movements[m].delta), reversalOf |-> m]
    OBVIOUS
  <2>5. LedgerKept /\ Grows(mv) /\ mv.reversalOf = m
    BY <2>1, <2>2, <2>4, ReversalKeepsLedger DEF LedgerBase, LedgerKept, Bounded
  <2>6. m \in MovesOf(DirectClaims)
    <3>1. <<6, i, m>> \in DirectClaims /\ <<6, i, m>>[3] = m
      BY <2>2, <2>3 DEF DirectClaims
    <3> QED
      BY <2>3, <3>1 DEF MovesOf
  <2>7. PartStep(DirectClaims, DirectClaims')
    BY <1>2, <2>5, <2>6 DEF PartStep
  <2>8. Moves({directIssues[k].movement : k \in {j \in DOMAIN directIssues : directIssues[j].order = o}})
    BY <2>2, <2>3, <2>5 DEF Moves
  <2>9. /\ \A k \in DOMAIN movements : k \in DOMAIN movements' /\ movements'[k] = movements[k]
        /\ \E k \in DOMAIN movements' : movements'[k].reversalOf = m
    <3>1. \A k \in DOMAIN movements : k \in DOMAIN movements' /\ movements'[k] = movements[k]
      BY <1>1, <2>8, RowsStay
    <3>2. Len(movements) + 1 \in DOMAIN movements' /\ movements'[Len(movements) + 1] = mv
      BY <1>1, <2>5, LedgerRows DEF Grows
    <3> QED
      BY <2>5, <3>1, <3>2
  <2>10. \A k \in StandingManual(o, directIssues, movements) : k = i
    <3>1. \A k \in StandingManual(o, directIssues, movements) :
            directOrders[o].issued /\ k \in CurrentOf(o)
      BY <1>1 DEF OrderAddsUp, OrderSays
    <3>2. \E k : CurrentOf(o) = {k}
      BY <1>1, <2>1, <3>1 DEF OrderAddsUp, OrderSays
    <3> QED
      BY <2>1, <3>1, <3>2
  <2>11. StandingManual(o, directIssues', movements') = {}
    <3>1. StandingManual(o, directIssues, movements') \subseteq StandingManual(o, directIssues, movements)
      BY <2>9 DEF StandingManual
    <3>2. i \notin StandingManual(o, directIssues, movements')
      BY <2>2, <2>9 DEF StandingManual
    <3> QED
      BY <2>10, <3>1, <3>2
  <2> QED
    BY <2>5, <2>7, <2>8, <2>11
<1> QED
  BY <1>4, <1>5

\* An amendment reverses the issue of the old version first.
LEMMA AmendDirectOrderActs ==
  ASSUME LedgerBase, DirectSalesInv, NEW o \in DOMAIN directOrders, NEW lane \in Lanes,
         NEW quantity \in DirectQuantities, AmendDirectOrder(o, lane, quantity)
  PROVE  LedgerKept /\ PartStep(DirectClaims, DirectClaims') /\ DirectSalesInv'
<1>1. /\ directOrders \in Seq(DirectOrderRows) /\ directIssues \in Seq(DirectIssueRows)
      /\ manualReturns \in Seq(ManualReturnRows) /\ OrderAddsUp(o)
  BY DirectFacts
<1>2. PICK old \in DirectOrderRows : old = directOrders[o]
  BY DirectFacts
<1>3. old.version \in Nat
  BY DEF DirectOrderRows
<1>4. PICK row : row = [old EXCEPT !.version = old.version + 1, !.lane = lane,
                                   !.quantity = quantity, !.issued = FALSE]
  OBVIOUS
<1>5. /\ row \in DirectOrderRows /\ ~row.issued /\ row.status = old.status /\ row.billed = old.billed
      /\ row.version = old.version + 1
  <2>1. PICK next \in Nat : next = old.version + 1
    BY <1>3
  <2>2. row = [old EXCEPT !.version = next, !.lane = lane, !.quantity = quantity, !.issued = FALSE]
    BY <1>4, <2>1
  <2> QED
    BY <2>1, <2>2 DEF DirectOrderRows
<1>6. /\ old.status = "confirmed" /\ UnwindManualIssues(o)
      /\ directOrders' = [directOrders EXCEPT ![o] = row]
      /\ directIssues' = directIssues /\ manualReturns' = manualReturns
  BY <1>2, <1>4 DEF AmendDirectOrder
<1>7. /\ LedgerKept /\ PartStep(DirectClaims, DirectClaims')
      /\ Moves({directIssues[i].movement : i \in {k \in DOMAIN directIssues : directIssues[k].order = o}})
      /\ StandingManual(o, directIssues', movements') = {}
  BY <1>2, <1>6, UnwindActs
<1>8. old.billed = 0
  BY <1>1, <1>2, <1>6 DEF OrderAddsUp, OrderSays
<1>9. ASSUME directOrders'[o] = row PROVE OrderAddsUp(o)'
  <2>1. \A i \in DOMAIN directIssues :
          directIssues[i].order = o => directIssues[i].version # old.version + 1
    <3>1. ASSUME NEW i \in DOMAIN directIssues, directIssues[i].order = o
          PROVE  directIssues[i].version # old.version + 1
      <4>0. directIssues[i] \in DirectIssueRows
        BY <1>1
      <4>1. directIssues[i].version \in Nat
        BY <4>0 DEF DirectIssueRows
      <4>2. directIssues[i].version <= old.version
        BY <1>2, <3>1 DEF DirectSalesInv
      <4> QED
        BY <1>3, <4>1, <4>2
    <3> QED
      BY <3>1
  <2>2. CurrentOf(o)' = {}
    BY <1>5, <1>6, <1>9, <2>1 DEF CurrentOf, CurrentIn
  <2> QED
    BY <1>5, <1>6, <1>7, <1>8, <1>9, <2>2 DEF OrderAddsUp, OrderSays
<1>10. DirectSalesInv'
  <2>1. /\ Extends(directIssues, directIssues') /\ DOMAIN directIssues' \ DOMAIN directIssues = {}
        /\ directIssues' \in Seq(DirectIssueRows)
        /\ Extends(manualReturns, manualReturns') /\ DOMAIN manualReturns' \ DOMAIN manualReturns = {}
        /\ manualReturns' \in Seq(ManualReturnRows)
    BY <1>1, <1>6 DEF Extends
  <2>2. directOrders[o].version <= row.version
    BY <1>2, <1>3, <1>5
  <2> QED
    BY <1>5, <1>6, <1>7, <1>9, <2>1, <2>2, OneOrderActs
<1> QED
  BY <1>7, <1>10

\* A cancellation reverses the issue.
LEMMA CancelDirectOrderActs ==
  ASSUME LedgerBase, DirectSalesInv, NEW o \in DOMAIN directOrders, CancelDirectOrder(o)
  PROVE  LedgerKept /\ PartStep(DirectClaims, DirectClaims') /\ DirectSalesInv'
<1>1. /\ directOrders \in Seq(DirectOrderRows) /\ directIssues \in Seq(DirectIssueRows)
      /\ manualReturns \in Seq(ManualReturnRows) /\ OrderAddsUp(o)
  BY DirectFacts
<1>2. PICK old \in DirectOrderRows : old = directOrders[o]
  BY DirectFacts
<1>3. PICK row : row = [old EXCEPT !.status = "cancelled", !.issued = FALSE]
  OBVIOUS
<1>4. /\ row \in DirectOrderRows /\ ~row.issued /\ row.status = "cancelled" /\ row.billed = old.billed
      /\ row.version = old.version /\ row.version \in Nat
  BY <1>3 DEF DirectOrderRows
<1>5. /\ old.status = "confirmed" /\ UnwindManualIssues(o)
      /\ directOrders' = [directOrders EXCEPT ![o] = row]
      /\ directIssues' = directIssues /\ manualReturns' = manualReturns
  BY <1>2, <1>3 DEF CancelDirectOrder
<1>6. /\ LedgerKept /\ PartStep(DirectClaims, DirectClaims')
      /\ Moves({directIssues[i].movement : i \in {k \in DOMAIN directIssues : directIssues[k].order = o}})
      /\ StandingManual(o, directIssues', movements') = {}
  BY <1>2, <1>5, UnwindActs
<1>7. old.billed = 0
  BY <1>1, <1>2, <1>5 DEF OrderAddsUp, OrderSays
<1>8. ASSUME directOrders'[o] = row PROVE OrderAddsUp(o)'
  BY <1>4, <1>5, <1>6, <1>7, <1>8 DEF OrderAddsUp, OrderSays
<1>9. DirectSalesInv'
  <2>1. /\ Extends(directIssues, directIssues') /\ DOMAIN directIssues' \ DOMAIN directIssues = {}
        /\ directIssues' \in Seq(DirectIssueRows)
        /\ Extends(manualReturns, manualReturns') /\ DOMAIN manualReturns' \ DOMAIN manualReturns = {}
        /\ manualReturns' \in Seq(ManualReturnRows)
    BY <1>1, <1>5 DEF Extends
  <2>2. directOrders[o].version <= row.version
    BY <1>2, <1>4
  <2> QED
    BY <1>4, <1>5, <1>6, <1>8, <2>1, <2>2, OneOrderActs
<1> QED
  BY <1>6, <1>9

\* Direct sales post and reverse their own movements, and add up.
LEMMA DirectSalesAct ==
  ASSUME LedgerBase, DirectSalesInv, DirectSalesNext
  PROVE  LedgerKept /\ PartStep(DirectClaims, DirectClaims') /\ DirectSalesInv'
  BY ConfirmDirectOrderActs, IssueDirectOrderActs, CompleteDirectOrderActs, CancelDirectOrderActs,
     AmendDirectOrderActs, ReceiveManualReturnActs DEF DirectSalesNext

\* What the others post leaves direct sales as they are.
LEMMA DirectSalesUntouched ==
  ASSUME WholeLedger(movements), DirectSalesInv, ClaimsArePosted,
         UNCHANGED directVars, Untouched(MovesOf(DirectClaims))
  PROVE  DirectSalesInv'
<1>1. directOrders' = directOrders /\ directIssues' = directIssues /\ manualReturns' = manualReturns
  BY DEF directVars
<1>2. ASSUME NEW o \in DOMAIN directOrders PROVE OrderAddsUp(o)'
  <2>1. /\ Extends(directIssues, directIssues') /\ Extends(manualReturns, manualReturns')
        /\ DOMAIN directIssues' \ DOMAIN directIssues = {}
        /\ DOMAIN manualReturns' \ DOMAIN manualReturns = {}
    BY <1>1 DEF Extends
  <2>2. IssueMoves(CurrentOf(o), directIssues, manualReturns) \subseteq MovesOf(DirectClaims)
    <3>1. CurrentOf(o) \subseteq DOMAIN directIssues
      BY DEF CurrentOf, CurrentIn
    <3> QED
      BY <3>1, DirectMoves
  <2>3. Untouched(IssueMoves(CurrentOf(o), directIssues, manualReturns))
    BY <2>2 DEF Untouched
  <2>4. directOrders'[o] = directOrders[o]
    BY <1>1
  <2> QED
    BY <2>1, <2>3, <2>4, OtherOrderStays
<1> QED
  BY <1>1, <1>2 DEF DirectSalesInv, DirectSalesTypeOK

\* The property of the module is in the invariant.
LEMMA DirectSalesSum ==
  ASSUME DirectSalesInv
  PROVE  DirectSalesAddUp
<1> SUFFICES ASSUME NEW o \in DOMAIN directOrders
             PROVE  /\ \A i \in ManualIssues(o) :
                         Standing(i) => directOrders[o].issued /\ i \in CurrentIssues(o)
                    /\ directOrders[o].issued =>
                         /\ Cardinality(CurrentIssues(o)) = 1
                         /\ CameBack(CurrentIssues(o)) <= directOrders[o].quantity
                    /\ directOrders[o].status = "closed" =>
                         directOrders[o].billed = -NetOfIssues(CurrentIssues(o))
  BY DEF DirectSalesAddUp
<1>1. PICK S : S = CurrentIssues(o)
  OBVIOUS
<1>2. CurrentOf(o) = S
  BY <1>1 DEF CurrentOf, CurrentIn, CurrentIssues
<1>3. PICK back, net : back = CameBack(S) /\ net = NetOfIssues(S)
  OBVIOUS
<1>4. back = CameBackIn(S, manualReturns)
  BY <1>3 DEF CameBack, CameBackIn, ReturnsOf, ReturnsIn
<1>5. net = NetIn(IssueMoves(S, directIssues, manualReturns), movements, DirectScope)
  BY <1>3 DEF NetOfIssues, NetOf, NetIn, RowsIn, IssueMoves, ReturnsOf, ReturnsIn
<1>6. OrderSays(directOrders[o], S, directIssues, back, net, StandingManual(o, directIssues, movements))
  BY <1>2, <1>4, <1>5 DEF DirectSalesInv, OrderAddsUp
<1>7. \A i \in ManualIssues(o) : Standing(i) => directOrders[o].issued /\ i \in S
  BY <1>6 DEF OrderSays, ManualIssues, Standing, StandingManual
<1>8. directOrders[o].issued => Cardinality(S) = 1 /\ back <= directOrders[o].quantity
  <2>1. directOrders[o].issued => \E i : S = {i}
    BY <1>6 DEF OrderSays
  <2>2. \A i : Cardinality({i}) = 1
    BY FS_Singleton
  <2> QED
    BY <1>6, <2>1, <2>2 DEF OrderSays
<1>9. directOrders[o].status = "closed" => directOrders[o].billed = -net
  BY <1>6 DEF OrderSays
<1> QED
  BY <1>1, <1>3, <1>7, <1>8, <1>9

-----------------------------------------------------------------------------
(* All of them.                                                            *)

\* A step of one part, whose claims were cs and are cs1 now, while ds are those
\* of all the others.
LEMMA ClaimsStep ==
  ASSUME LedgerBase, NEW cs, NEW cs1, NEW ds,
         Claims = cs \union ds, Claims' = cs1 \union ds, cs \cap ds = {}, PartStep(cs, cs1)
  PROVE  /\ ClaimsArePosted' /\ OneOwner'
         /\ \A es : es \subseteq ds => Untouched(MovesOf(es))
<1>1. WholeLedger(movements)
  BY LedgerIsWhole DEF LedgerBase
<1>2. PartStep(Claims, Claims')
  BY WiderStep
<1>3. ASSUME NEW es, es \subseteq ds PROVE Untouched(MovesOf(es))
  <2>1. cs \subseteq Claims /\ es \subseteq Claims /\ cs \cap es = {}
    BY <1>3
  <2> QED
    BY <2>1, OthersUntouched DEF LedgerBase
<1> QED
  BY <1>1, <1>2, <1>3, ClaimsHold DEF LedgerBase

\* The invariant of the ledger gives its types.
LEMMA LedgerIsTyped == Ledger!IInv => LedgerTyped
  BY LedgerIsWhole DEF LedgerTyped

\* The same after a step.
LEMMA LedgerStaysTyped == Ledger!IInv' => LedgerTyped'
  BY LedgerIsTyped, PTL

\* The rows of the stocktakes stand while others post.
LEMMA SnapshotsUntouched ==
  ASSUME OpsInv, LedgerKept, UNCHANGED stocktakes
  PROVE  StocktakesTypeOK' /\ SnapshotsStand'
<1>1. IInv /\ LedgerTyped
  BY LedgerIsWhole DEF OpsInv, IInv, LedgerTyped
<1>2. LedgerTyped' /\ LedgerStep
  BY LedgerStaysTyped DEF LedgerKept
<1>3. IInv'
  BY <1>1, <1>2, StocktakesStay
<1> QED
  BY <1>3 DEF IInv

\* The documents that a step leaves alone, when it does not touch what they posted.
OthersStand ==
  /\ UNCHANGED transferVars /\ Untouched(MovesOf(TransferClaims)) => TransfersInv'
  /\ UNCHANGED stocktakes /\ Untouched(MovesOf(StocktakeClaims)) =>
       StocktakesTypeOK' /\ SnapshotsStand' /\ CountsStand'
  /\ UNCHANGED purchasingVars /\ Untouched(MovesOf(PurchaseClaims)) => PurchasingInv'
  /\ UNCHANGED directVars /\ Untouched(MovesOf(DirectClaims)) => DirectSalesInv'

\* What one part posts leaves every other part as it was.
LEMMA OthersStay ==
  ASSUME OpsInv, LedgerKept
  PROVE  OthersStand
<1>1. WholeLedger(movements)
  BY LedgerIsWhole DEF OpsInv
<1> QED
  BY <1>1, TransfersUntouched, SnapshotsUntouched, CountsUntouched, PurchasingUntouched,
     DirectSalesUntouched DEF OpsInv, OthersStand

\* A table that stays as it is claims what it claimed.
LEMMA ClaimsStay ==
  /\ UNCHANGED transferVars => TransferClaims' = TransferClaims
  /\ UNCHANGED stocktakes => StocktakeClaims' = StocktakeClaims
  /\ UNCHANGED purchasingVars => PurchaseClaims' = PurchaseClaims
  /\ UNCHANGED directVars => DirectClaims' = DirectClaims
  BY DEF transferVars, purchasingVars, directVars, TransferClaims, StocktakeClaims,
         PurchaseClaims, DirectClaims

\* Nothing is posted and no document exists.
LEMMA OpsInit == Init => OpsInv
<1> SUFFICES ASSUME Init PROVE OpsInv
  OBVIOUS
<1>1. /\ StockInit /\ TransfersInit /\ StocktakesInit /\ PurchasingInit /\ DirectSalesInit
  BY DEF Init
<1>2. Ledger!IInv
  <2>1. Ledger!Init
    BY <1>1 DEF StockInit, Stock!Init, Ledger!Init, Stock!Zero, Ledger!Zero
  <2> QED
    BY <2>1, LedgerConstants, Ledger!InvInit
<1>3. movements = <<>> /\ reservations = <<>>
  BY <1>1 DEF StockInit, Stock!Init
<1>4. Bounded
  <2>1. MaxMovements \in Nat /\ MaxReservations \in Nat
    BY DocumentStockAssumption DEF Stock!StockAssumption
  <2> QED
    BY <1>3, <2>1 DEF Bounded
<1>5. Claims = {}
  BY <1>1 DEF TransfersInit, StocktakesInit, PurchasingInit, DirectSalesInit, Claims,
              TransferClaims, StocktakeClaims, PurchaseClaims, DirectClaims
<1>6. ClaimsArePosted /\ OneOwner
  BY <1>5 DEF ClaimsArePosted, OneOwner
<1>7. TransfersInv
  BY <1>1 DEF TransfersInit, TransfersInv, TransfersTypeOK
<1>8. StocktakesTypeOK /\ SnapshotsStand /\ CountsStand
  BY <1>1 DEF StocktakesInit, StocktakesTypeOK, SnapshotsStand, CountsStand
<1>9. DirectSalesInv
  BY <1>1 DEF DirectSalesInit, DirectSalesInv, DirectSalesTypeOK
<1>10. PurchasingInv
  <2>1. /\ orderStatus = "draft" /\ goodsReceipts = <<>> /\ supplierReturns = <<>>
        /\ payments = <<>> /\ allocations = {}
    BY <1>1 DEF PurchasingInit
  <2>2. PurchasingTyped
    <3>1. IsFiniteSet({})
      BY FS_EmptySet
    <3> QED
      BY <2>1, <3>1 DEF PurchasingTyped, PurchasingTypeOK
  <2>3. PurchasesArePosted
    BY <2>1 DEF PurchasesArePosted
  <2>4. PurchasingAdds
    <3>1. PostedIn(goodsReceipts) = {} /\ PurchaseMovesIn(goodsReceipts, supplierReturns) = {}
      BY <2>1 DEF PostedIn, PurchaseMovesIn
    <3>2. \A l : RowsIn({}, movements) = {}
      BY DEF RowsIn
    <3>3. \A f : SumFunctionOnSet(f, {}) = 0
      BY SumEmpty
    <3>4. \A l \in OrderLines : LeftIn(goodsReceipts, l) >= 0
      <4>1. ASSUME NEW l \in OrderLines PROVE LeftIn(goodsReceipts, l) >= 0
        <5>1. AcceptedOf(goodsReceipts, {}, l) = 0 /\ ClosedOf(goodsReceipts, {}, l) = 0
          BY <3>3 DEF AcceptedOf, ClosedOf
        <5>2. Ordered[l] \in Nat
          BY PurchasingAssumption
        <5> QED
          BY <3>1, <5>1, <5>2 DEF LeftIn
      <4> QED
        BY <4>1
    <3>5. LedgerHoldsRest(movements, goodsReceipts, supplierReturns)
      BY <3>1, <3>2, <3>3 DEF LedgerHoldsRest, NetIn, StaysIn
    <3> QED
      BY <3>4, <3>5 DEF PurchasingAdds, OrderIsCovered
  <2>5. ReturnsAdd
    BY <2>1 DEF ReturnsAdd, BackedReturns, ReturnsFit
  <2>6. PayablesAreCovered
    BY <2>1 DEF PayablesAreCovered, Debits, Credits
  <2> QED
    BY <2>2, <2>3, <2>4, <2>5, <2>6, PurchaseTables DEF PurchasingInv
<1> QED
  BY <1>2, <1>4, <1>6, <1>7, <1>8, <1>9, <1>10 DEF OpsInv

-----------------------------------------------------------------------------
\* Other documents and reservations change no claim and touch none.
LEMMA StockActs ==
  ASSUME OpsInv, StockNext,
         UNCHANGED <<transferVars, stocktakes, purchasingVars, directVars>>
  PROVE  OpsInv' /\ LedgerKept
<1>1. LedgerKept /\ (movements' = movements \/ \E mv : Grows(mv) /\ mv.reversalOf = 0)
  BY StockKeepsLedger DEF OpsInv
<1>2. Claims' = Claims
  BY ClaimsStay DEF Claims
<1>3. \A es : Untouched(MovesOf(es))
  BY <1>1 DEF Untouched, MovesOf
<1>4. ClaimsArePosted' /\ OneOwner'
  <2>1. PartStep(Claims, Claims')
    <3>1. \A c \in Claims' : c[3] # 0 => c \in Claims
      BY <1>2
    <3>2. PICK new : new = <<0, 0, Len(movements) + 1>>
      OBVIOUS
    <3>3. new[3] = Len(movements) + 1
      BY <3>2
    <3> QED
      BY <1>1, <3>1, <3>3 DEF PartStep, Kept
  <2>2. WholeLedger(movements)
    BY LedgerIsWhole DEF OpsInv
  <2> QED
    BY <2>1, <2>2, ClaimsHold DEF OpsInv
<1>5. OthersStand
  BY <1>1, OthersStay
<1> QED
  BY <1>1, <1>3, <1>4, <1>5 DEF OthersStand, OpsInv, LedgerKept

\* A step of the transfers keeps the whole invariant.
LEMMA TransfersStep ==
  ASSUME OpsInv, TransfersNext, UNCHANGED <<stocktakes, purchasingVars, directVars>>
  PROVE  OpsInv' /\ LedgerKept
<1>1. LedgerBase
  BY DEF OpsInv, LedgerBase
<1>2. LedgerKept /\ PartStep(TransferClaims, TransferClaims') /\ TransfersInv'
  BY <1>1, TransfersAct DEF OpsInv
<1>3. PICK ds : ds = StocktakeClaims \union PurchaseClaims \union DirectClaims
  OBVIOUS
<1>4. Claims = TransferClaims \union ds /\ Claims' = TransferClaims' \union ds
  BY <1>3, ClaimsStay DEF Claims
<1>5. TransferClaims \cap ds = {}
  BY <1>3, PartsAreApart
<1>6. ClaimsArePosted' /\ OneOwner' /\ \A es : es \subseteq ds => Untouched(MovesOf(es))
  BY <1>1, <1>2, <1>4, <1>5, ClaimsStep
<1>7. /\ Untouched(MovesOf(StocktakeClaims)) /\ Untouched(MovesOf(PurchaseClaims))
      /\ Untouched(MovesOf(DirectClaims))
  BY <1>3, <1>6
<1>8. OthersStand
  BY <1>2, OthersStay
<1> QED
  BY <1>2, <1>6, <1>7, <1>8 DEF OthersStand, OpsInv, LedgerKept

\* A step of purchasing keeps the whole invariant.
LEMMA PurchasingStep ==
  ASSUME OpsInv, PurchasingNext, UNCHANGED <<transferVars, stocktakes, directVars>>
  PROVE  OpsInv' /\ LedgerKept
<1>1. LedgerBase
  BY DEF OpsInv, LedgerBase
<1>2. LedgerKept /\ PartStep(PurchaseClaims, PurchaseClaims') /\ PurchasingInv'
  BY <1>1, PurchasingAct DEF OpsInv
<1>3. PICK ds : ds = TransferClaims \union StocktakeClaims \union DirectClaims
  OBVIOUS
<1>4. Claims = PurchaseClaims \union ds /\ Claims' = PurchaseClaims' \union ds
  BY <1>3, ClaimsStay DEF Claims
<1>5. PurchaseClaims \cap ds = {}
  BY <1>3, PartsAreApart
<1>6. ClaimsArePosted' /\ OneOwner' /\ \A es : es \subseteq ds => Untouched(MovesOf(es))
  BY <1>1, <1>2, <1>4, <1>5, ClaimsStep
<1>7. /\ Untouched(MovesOf(StocktakeClaims)) /\ Untouched(MovesOf(TransferClaims))
      /\ Untouched(MovesOf(DirectClaims))
  BY <1>3, <1>6
<1>8. OthersStand
  BY <1>2, OthersStay
<1> QED
  BY <1>2, <1>6, <1>7, <1>8 DEF OthersStand, OpsInv, LedgerKept

\* A step of direct sales keeps the whole invariant.
LEMMA DirectSalesStep ==
  ASSUME OpsInv, DirectSalesNext, UNCHANGED <<transferVars, stocktakes, purchasingVars>>
  PROVE  OpsInv' /\ LedgerKept
<1>1. LedgerBase
  BY DEF OpsInv, LedgerBase
<1>2. LedgerKept /\ PartStep(DirectClaims, DirectClaims') /\ DirectSalesInv'
  BY <1>1, DirectSalesAct DEF OpsInv
<1>3. PICK ds : ds = TransferClaims \union StocktakeClaims \union PurchaseClaims
  OBVIOUS
<1>4. Claims = DirectClaims \union ds /\ Claims' = DirectClaims' \union ds
  BY <1>3, ClaimsStay DEF Claims
<1>5. DirectClaims \cap ds = {}
  BY <1>3, PartsAreApart
<1>6. ClaimsArePosted' /\ OneOwner' /\ \A es : es \subseteq ds => Untouched(MovesOf(es))
  BY <1>1, <1>2, <1>4, <1>5, ClaimsStep
<1>7. /\ Untouched(MovesOf(StocktakeClaims)) /\ Untouched(MovesOf(TransferClaims))
      /\ Untouched(MovesOf(PurchaseClaims))
  BY <1>3, <1>6
<1>8. OthersStand
  BY <1>2, OthersStay
<1> QED
  BY <1>2, <1>6, <1>7, <1>8 DEF OthersStand, OpsInv, LedgerKept

\* What a count does to its own rows is proved of stocktakes.
LEMMA StocktakesStep ==
  ASSUME OpsInv, StocktakesNext, UNCHANGED <<transferVars, purchasingVars, directVars>>
  PROVE  OpsInv' /\ LedgerKept /\ CurrentStep
<1>1. LedgerBase
  BY DEF OpsInv, LedgerBase
<1>2. LedgerKept /\ PartStep(StocktakeClaims, StocktakeClaims') /\ CountsStand'
  BY StocktakesAct DEF OpsInv
<1>3. IInv' /\ CurrentStep
  <2>1. IInv
    BY LedgerIsTyped DEF OpsInv, IInv
  <2> QED
    BY <2>1, InvStep
<1>4. PICK ds : ds = TransferClaims \union PurchaseClaims \union DirectClaims
  OBVIOUS
<1>5. Claims = StocktakeClaims \union ds /\ Claims' = StocktakeClaims' \union ds
  BY <1>4, ClaimsStay DEF Claims
<1>6. StocktakeClaims \cap ds = {}
  BY <1>4, PartsAreApart
<1>7. ClaimsArePosted' /\ OneOwner' /\ \A es : es \subseteq ds => Untouched(MovesOf(es))
  BY <1>1, <1>2, <1>5, <1>6, ClaimsStep
<1>8. /\ Untouched(MovesOf(TransferClaims)) /\ Untouched(MovesOf(PurchaseClaims))
      /\ Untouched(MovesOf(DirectClaims))
  BY <1>4, <1>7
<1>9. OthersStand
  BY <1>2, OthersStay
<1> QED
  BY <1>2, <1>3, <1>7, <1>8, <1>9 DEF OthersStand, OpsInv, LedgerKept, IInv

\* Whoever acts, the invariant stays, and the ledger takes one of its steps.
LEMMA OpsStep ==
  ASSUME OpsInv, [Next]_vars
  PROVE  OpsInv' /\ LedgerKept /\ CurrentStep
<1>1. UNCHANGED stocktakes => CurrentStep
  BY DEF CurrentStep, Becomes
<1>2. CASE StockNext /\ UNCHANGED <<transferVars, stocktakes, purchasingVars, directVars>>
  BY <1>1, <1>2, StockActs
<1>3. CASE TransfersNext /\ UNCHANGED <<stocktakes, purchasingVars, directVars>>
  BY <1>1, <1>3, TransfersStep
<1>4. CASE StocktakesNext /\ UNCHANGED <<transferVars, purchasingVars, directVars>>
  BY <1>4, StocktakesStep
<1>5. CASE PurchasingNext /\ UNCHANGED <<transferVars, stocktakes, directVars>>
  BY <1>1, <1>5, PurchasingStep
<1>6. CASE DirectSalesNext /\ UNCHANGED <<transferVars, stocktakes, purchasingVars>>
  BY <1>1, <1>6, DirectSalesStep
<1>7. CASE UNCHANGED vars
  <2>1. UNCHANGED <<stockVars, transferVars, stocktakes, purchasingVars, directVars>>
    BY <1>7 DEF vars
  <2>2. LedgerKept /\ movements' = movements
    BY <2>1, StillKeepsLedger DEF OpsInv
  <2>3. \A es : Untouched(es)
    BY <2>2 DEF Untouched
  <2>4. Claims' = Claims
    BY <2>1, ClaimsStay DEF Claims
  <2>5. ClaimsArePosted' /\ OneOwner'
    BY <2>2, <2>4 DEF OpsInv, ClaimsArePosted, OneOwner
  <2>6. OthersStand
    BY <2>2, OthersStay
  <2> QED
    BY <1>1, <2>1, <2>2, <2>3, <2>5, <2>6 DEF OthersStand, OpsInv, LedgerKept
<1> QED
  BY <1>2, <1>3, <1>4, <1>5, <1>6, <1>7 DEF Next

-----------------------------------------------------------------------------
\* What the parts know adds up to what their modules promise.
LEMMA OpsPromise ==
  ASSUME OpsInv
  PROVE  /\ TypeOK /\ TransitAddsUp /\ PurchaseAddsUp /\ ReturnsAreCovered
         /\ PayablesAreCovered /\ DirectSalesAddUp
<1>1. Stock!TypeOK /\ WholeLedger(movements)
  BY LedgerIsWhole DEF OpsInv
<1>2. TypeOK
  BY <1>1 DEF OpsInv, TypeOK, TransfersInv, PurchasingInv, PurchasingTyped, DirectSalesInv
<1> QED
  BY <1>1, <1>2, TransfersAddUp, DirectSalesSum DEF OpsInv, PurchasingInv

\* A step of the documents is a step of the ledger, when the ledger may post any
\* lines.
LEMMA LedgerRefined ==
  ASSUME Postings = [Locations -> Int], OpsInv, [Next]_vars
  PROVE  [Stock!Next]_(Stock!vars)
<1>1. LedgerMoves
  BY OpsStep DEF LedgerKept
<1>2. /\ movements \in Seq(Stock!Movements) /\ reservations \in Seq(Stock!Reservations)
      /\ Len(movements) <= MaxMovements /\ Len(reservations) <= MaxReservations
      /\ MaxMovements \in Nat /\ MaxReservations \in Nat
  BY LedgerIsWhole, DocumentStockAssumption DEF OpsInv, Bounded, Stock!TypeOK, Stock!StockAssumption
<1>3. /\ \A m \in DOMAIN movements : m \in 1..MaxMovements
      /\ \A r \in DOMAIN reservations : r \in 1..MaxReservations
  BY <1>2
<1>4. CASE UNCHANGED stockVars
  BY <1>4 DEF stockVars, Stock!vars
<1>5. CASE \E delta \in [Locations -> Int] : PostMovement(delta)
  BY <1>5 DEF PostMovement, Stock!Next, Stock!Post
<1>6. CASE \E m \in DOMAIN movements : ReverseMovement(m)
  BY <1>3, <1>6 DEF ReverseMovement, Stock!Next
<1>7. CASE Reserve
  BY <1>7 DEF Reserve, Stock!Next
<1>8. CASE EndReservation
  BY <1>3, <1>8 DEF EndReservation, Stock!Next, Stock!TerminalStates
<1> QED
  BY <1>1, <1>4, <1>5, <1>6, <1>7, <1>8 DEF LedgerMoves

\* The invariant holds from the start and whoever acts.
THEOREM OperationsInvariant == Spec => []OpsInv
<1>1. OpsInv /\ [Next]_vars => OpsInv'
  BY OpsStep
<1> QED
  BY <1>1, OpsInit, PTL DEF Spec

\* Every table keeps whole rows, whatever the documents do to the stock they share.
THEOREM OperationsTypeCorrect == Spec => []TypeOK
<1>1. OpsInv => TypeOK
  BY OpsPromise
<1> QED
  BY <1>1, OperationsInvariant, PTL

\* What left the source of a transfer is in the destination, damaged, closed short
\* or still in transit, as the ledger has it: through partial receipts and their
\* reversals, while stocktakes, purchases and sales move the same scopes.
THEOREM TransitIsWhole == Spec => []TransitAddsUp
<1>1. OpsInv => TransitAddsUp
  BY OpsPromise
<1> QED
  BY <1>1, OperationsInvariant, PTL

\* Receipts, returns and their reversals leave on the ledger what the documents say
\* was received and kept, and an order is never received beyond what it ordered.
THEOREM PurchasesAddUp == Spec => []PurchaseAddsUp
<1>1. OpsInv => PurchaseAddsUp
  BY OpsPromise
<1> QED
  BY <1>1, OperationsInvariant, PTL

\* Nothing goes back to the supplier that did not come from a receipt that stands,
\* however returns and reversals of receipts interleave.
THEOREM ReturnsStayCovered == Spec => []ReturnsAreCovered
<1>1. OpsInv => ReturnsAreCovered
  BY OpsPromise
<1> QED
  BY <1>1, OperationsInvariant, PTL

\* A payable or a credit is never allocated beyond what it is worth now, though
\* receipts and returns behind it are reversed.
THEOREM PayablesStayCovered == Spec => []PayablesAreCovered
<1>1. OpsInv => PayablesAreCovered
  BY OpsPromise
<1> QED
  BY <1>1, OperationsInvariant, PTL

\* A direct order is issued at most once in its version, no more comes back than
\* went out, and a closed order has billed what the ledger says the customer kept.
THEOREM DirectSalesStayWhole == Spec => []DirectSalesAddUp
<1>1. OpsInv => DirectSalesAddUp
  BY OpsPromise
<1> QED
  BY <1>1, OperationsInvariant, PTL

\* No count is posted or reversed over stock that a transfer, a purchase, a sale or
\* any other document moved since the count.
THEOREM CountsStayCurrent == Spec => CountIsCurrent
<1>1. OpsInv /\ [Next]_vars => [CurrentStep]_<<stocktakes, stockVars>>
  BY OpsStep
<1>2. [][CurrentStep]_<<stocktakes, stockVars>> => CountIsCurrent
  BY PTL DEF CurrentStep, CountIsCurrent
<1> QED
  BY <1>1, <1>2, OperationsInvariant, PTL DEF Spec

\* The ledger keeps its promises under all the documents: the balance is the sum of
\* the movements, what is reserved is on hand, no hold outlives its reservation, and
\* nothing is reversed twice.
THEOREM LedgerStaysWhole ==
  Spec => [](/\ Stock!BalanceIsLedger /\ Stock!ReservedIsOnHand
             /\ Stock!NoLeakedHold /\ Stock!ReversedOnce)
<1>1. OpsInv => /\ Stock!BalanceIsLedger /\ Stock!ReservedIsOnHand
                /\ Stock!NoLeakedHold /\ Stock!ReversedOnce
  BY DEF OpsInv, Ledger!IInv, Ledger!BalanceIsLedger, Ledger!ReservedIsOnHand,
         Ledger!NoLeakedHold, Ledger!ReversedOnce, Stock!BalanceIsLedger,
         Stock!ReservedIsOnHand, Stock!NoLeakedHold, Stock!ReversedOnce,
         Ledger!LedgerQuantity, Ledger!Deltas, Ledger!ActiveQuantity, Ledger!Holds, Ledger!HoldOf,
         Stock!LedgerQuantity, Stock!Deltas, Stock!ActiveQuantity, Stock!Holds, Stock!HoldOf,
         Ledger!SumFunctionOnSet, Stock!SumFunctionOnSet, Ledger!FoldFunctionOnSet,
         Stock!FoldFunctionOnSet, Ledger!MapThenFoldSet, Stock!MapThenFoldSet
<1> QED
  BY <1>1, OperationsInvariant, PTL

\* Every operation of every document is one posting or one reversal of the ledger,
\* or leaves it alone.  Postings only bounds what TLC tries, so here it is all lines.
THEOREM DocumentsImplementLedger ==
  ASSUME Postings = [Locations -> Int]
  PROVE  Spec => ImplementsLedger
<1>1. Init => Stock!Init
  BY DEF Init, StockInit
<1>2. OpsInv /\ [Next]_vars => [Stock!Next]_(Stock!vars)
  BY LedgerRefined
<1> QED
  BY <1>1, <1>2, OperationsInvariant, PTL DEF Spec, ImplementsLedger, Stock!Spec
=============================================================================
