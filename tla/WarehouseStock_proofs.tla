------------------------ MODULE WarehouseStock_proofs ------------------------
(***************************************************************************)
(* The balance projection of WarehouseStock is right for every number of   *)
(* scopes, every set of documents and every bound.  The five state         *)
(* properties are inductive together: a rebuild keeps reserved stock on    *)
(* hand only because the balance it replaces was already the ledger's sum. *)
(***************************************************************************)
EXTENDS WarehouseStock, Sums

IInv == TypeOK /\ ReservedIsOnHand /\ BalanceIsLedger /\ NoLeakedHold /\ ReversedOnce

-----------------------------------------------------------------------------
\* The empty column is a column of quantities.
LEMMA ZeroIsTyped == Zero \in [Locations -> Nat]
  BY DEF Zero

\* The rows of a table before and after one more is appended.
LEMMA RowsAfterAppend ==
  ASSUME NEW S, NEW s \in Seq(S), NEW e \in S
  PROVE  /\ Len(s) \in Nat /\ DOMAIN s = 1..Len(s) /\ IsFiniteSet(DOMAIN s)
         /\ Append(s, e) \in Seq(S)
         /\ DOMAIN Append(s, e) = 1..(Len(s) + 1)
         /\ \A i \in DOMAIN s : s[i] \in S /\ Append(s, e)[i] = s[i]
         /\ Append(s, e)[Len(s) + 1] = e
<1>1. Len(s) \in Nat /\ DOMAIN s = 1..Len(s)
  OBVIOUS
<1>2. IsFiniteSet(1..Len(s))
  BY <1>1, FS_Interval
<1> QED
  BY <1>1, <1>2

\* Appending a movement adds its line to what the ledger says of a scope.
LEMMA LedgerAfterPosting ==
  ASSUME movements \in Seq(Movements), NEW mv \in Movements,
         movements' = Append(movements, mv), NEW l \in Locations
  PROVE  LedgerQuantity(l)' = LedgerQuantity(l) + mv.delta[l]
<1> DEFINE n == Len(movements)
<1>1. /\ n \in Nat /\ DOMAIN movements = 1..n /\ DOMAIN movements' = 1..(n + 1)
      /\ \A i \in 1..n : movements[i] \in Movements /\ movements'[i] = movements[i]
      /\ movements'[n + 1] = mv /\ IsFiniteSet(1..n)
  BY RowsAfterAppend
<1>2. \A i \in 1..n : Deltas(l)[i] \in Int /\ Deltas(l)'[i] = Deltas(l)[i]
  BY <1>1 DEF Deltas, Movements
<1>3. Deltas(l)'[n + 1] = mv.delta[l] /\ mv.delta[l] \in Int
  BY <1>1 DEF Deltas, Movements
<1>4. SumFunctionOnSet(Deltas(l)', 1..(n + 1)) =
        mv.delta[l] + SumFunctionOnSet(Deltas(l), 1..n)
  BY <1>1, <1>2, <1>3, SumAppend
<1>5. SumFunctionOnSet(Deltas(l), 1..n) \in Int
  BY <1>1, <1>2, SumType
<1> HIDE DEF n
<1> QED
  BY <1>1, <1>3, <1>4, <1>5 DEF LedgerQuantity

\* The columns of one reservation.
LEMMA ReservationColumns ==
  ASSUME NEW r \in Reservations
  PROVE  /\ r.location \in Locations /\ r.quantity \in Nat
         /\ \A l : HoldOf(r, l) \in Nat
<1>1. r.location \in Locations /\ r.quantity \in Nat
  BY StockAssumption DEF Reservations
<1> QED
  BY <1>1 DEF HoldOf

\* The rows of the reservation table.
LEMMA ReservationRows ==
  ASSUME reservations \in Seq(Reservations)
  PROVE  /\ Len(reservations) \in Nat /\ DOMAIN reservations = 1..Len(reservations)
         /\ IsFiniteSet(DOMAIN reservations)
         /\ \A r \in DOMAIN reservations : reservations[r] \in Reservations
<1>1. Len(reservations) \in Nat /\ DOMAIN reservations = 1..Len(reservations)
  OBVIOUS
<1>2. IsFiniteSet(1..Len(reservations))
  BY <1>1, FS_Interval
<1> QED
  BY <1>1, <1>2

\* What the active reservations hold of a scope is a quantity.
LEMMA ActiveQuantityIsNat ==
  ASSUME reservations \in Seq(Reservations), NEW l \in Locations
  PROVE  /\ ActiveQuantity(l) \in Nat
         /\ \A r \in DOMAIN reservations : Holds(l)[r] \in Nat
<1>1. \A r \in DOMAIN reservations : Holds(l)[r] \in Nat
  BY ReservationRows, ReservationColumns DEF Holds
<1> QED
  BY <1>1, ReservationRows, SumNat DEF ActiveQuantity

\* A new reservation holds its own quantity.
LEMMA HoldsAfterReserving ==
  ASSUME reservations \in Seq(Reservations), NEW rv \in Reservations,
         reservations' = Append(reservations, rv), NEW l \in Locations
  PROVE  ActiveQuantity(l)' = ActiveQuantity(l) + HoldOf(rv, l)
<1> DEFINE n == Len(reservations)
<1>1. /\ n \in Nat /\ DOMAIN reservations = 1..n /\ DOMAIN reservations' = 1..(n + 1)
      /\ \A i \in 1..n : reservations'[i] = reservations[i]
      /\ reservations'[n + 1] = rv /\ IsFiniteSet(1..n)
  BY RowsAfterAppend
<1>2. \A i \in 1..n : Holds(l)[i] \in Int /\ Holds(l)'[i] = Holds(l)[i]
  BY <1>1, ActiveQuantityIsNat DEF Holds
<1>3. Holds(l)'[n + 1] = HoldOf(rv, l) /\ HoldOf(rv, l) \in Int
  BY <1>1, ReservationColumns DEF Holds
<1>4. SumFunctionOnSet(Holds(l)', 1..(n + 1)) =
        HoldOf(rv, l) + SumFunctionOnSet(Holds(l), 1..n)
  BY <1>1, <1>2, <1>3, SumAppend
<1>5. SumFunctionOnSet(Holds(l), 1..n) \in Int
  BY <1>1, <1>2, SumType
<1> HIDE DEF n
<1> QED
  BY <1>1, <1>3, <1>4, <1>5 DEF ActiveQuantity

\* Ending a reservation takes its quantity out of what is held of its scope.
LEMMA HoldsAfterTransition ==
  ASSUME reservations \in Seq(Reservations), NEW r \in DOMAIN reservations,
         reservations[r].state = "ACTIVE", NEW state \in TerminalStates,
         reservations' = [reservations EXCEPT ![r].state = state],
         NEW l \in Locations
  PROVE  ActiveQuantity(l)' =
           IF reservations[r].location = l
             THEN ActiveQuantity(l) - reservations[r].quantity
             ELSE ActiveQuantity(l)
<1> DEFINE D == DOMAIN reservations
           q == reservations[r].quantity
<1>1. D' = D /\ IsFiniteSet(D)
  BY ReservationRows
<1>2. \A i \in D : Holds(l)[i] \in Int
  BY ActiveQuantityIsNat
<1>3. Holds(l)'[r] = 0
  BY DEF Holds, HoldOf, TerminalStates, Reservations
<1>4. \A i \in D \ {r} : Holds(l)'[i] = Holds(l)[i]
  BY DEF Holds
<1>5. SumFunctionOnSet(Holds(l)', D) =
        SumFunctionOnSet(Holds(l), D) + Holds(l)'[r] - Holds(l)[r]
  BY <1>1, <1>2, <1>3, <1>4, SumUpdate
<1>6. Holds(l)[r] = IF reservations[r].location = l THEN q ELSE 0
  BY DEF Holds, HoldOf
<1>7. SumFunctionOnSet(Holds(l), D) \in Int /\ q \in Int
  BY <1>1, <1>2, SumType, ReservationRows, ReservationColumns
<1> HIDE DEF D, q
<1>8. ActiveQuantity(l)' = SumFunctionOnSet(Holds(l)', D)
  BY <1>1 DEF ActiveQuantity, D
<1>9. ActiveQuantity(l) = SumFunctionOnSet(Holds(l), D)
  BY DEF ActiveQuantity, D
<1> QED
  BY <1>3, <1>5, <1>6, <1>7, <1>8, <1>9 DEF q

-----------------------------------------------------------------------------
\* Nothing is posted, reserved or on hand at first.
LEMMA InvInit == Init => IInv
<1> SUFFICES ASSUME Init PROVE IInv
  OBVIOUS
<1>1. TypeOK /\ ReservedIsOnHand /\ ReversedOnce
  BY ZeroIsTyped DEF Init, TypeOK, ReservedIsOnHand, ReversedOnce, Zero
<1>2. BalanceIsLedger
  BY SumEmpty DEF Init, BalanceIsLedger, LedgerQuantity, Zero
<1>3. NoLeakedHold
  BY SumEmpty DEF Init, NoLeakedHold, ActiveQuantity, Zero
<1> QED
  BY <1>1, <1>2, <1>3 DEF IInv

\* A document or a reversal, whatever its lines: the guard on OUT lines leaves
\* the reserved quantity on hand.
LEMMA PostLinesStep ==
  ASSUME IInv, NEW delta \in [Locations -> Int], NEW m \in Nat,
         PostLines(delta, m),
         m # 0 => m \in DOMAIN movements /\ Reversible(m)
  PROVE  IInv'
<1> DEFINE mv == [delta |-> delta, reversalOf |-> m]
<1>1. mv \in Movements /\ movements' = Append(movements, mv)
  BY DEF PostLines, Movements
<1>2. movements' \in Seq(Movements)
  BY <1>1 DEF IInv, TypeOK
<1>3. \A l \in Locations : onHand'[l] = onHand[l] + delta[l]
  BY DEF PostLines, Posted
<1>4. \A l \in Locations : onHand'[l] \in Nat /\ reserved'[l] <= onHand'[l]
  <2> TAKE l \in Locations
  <2>1. /\ onHand[l] \in Nat /\ reserved[l] \in Nat /\ reserved[l] <= onHand[l]
        /\ delta[l] \in Int /\ reserved'[l] = reserved[l]
        /\ delta[l] < 0 => onHand[l] + delta[l] >= reserved[l]
    BY DEF IInv, TypeOK, ReservedIsOnHand, PostLines, MayPost
  <2> QED
    BY <1>3, <2>1
<1>5. TypeOK'
  BY <1>2, <1>4 DEF IInv, TypeOK, PostLines, Posted
<1>6. BalanceIsLedger'
  <2> SUFFICES ASSUME NEW l \in Locations PROVE onHand'[l] = LedgerQuantity(l)'
    BY DEF BalanceIsLedger
  <2>1. LedgerQuantity(l)' = LedgerQuantity(l) + delta[l]
    BY <1>1, LedgerAfterPosting DEF IInv, TypeOK
  <2> QED
    BY <1>3, <2>1 DEF IInv, BalanceIsLedger
<1>7. NoLeakedHold'
  BY DEF IInv, NoLeakedHold, ActiveQuantity, Holds, PostLines
<1>8. ReversedOnce'
  <2> DEFINE n == Len(movements)
  <2>1. /\ n \in Nat /\ DOMAIN movements = 1..n /\ DOMAIN movements' = 1..(n + 1)
        /\ \A i \in 1..n : movements[i] \in Movements /\ movements'[i] = movements[i]
        /\ movements'[n + 1].reversalOf = m
    BY <1>1, RowsAfterAppend DEF IInv, TypeOK
  <2>2. \A i \in 1..n : movements[i].reversalOf \in Nat
    BY <2>1 DEF Movements
  <2>3. \A j \in 1..n : movements[j].reversalOf # 0 =>
          /\ movements[j].reversalOf < j
          /\ movements[movements[j].reversalOf].reversalOf = 0
          /\ \A k \in 1..n : movements[k].reversalOf = movements[j].reversalOf => k = j
    BY <2>1 DEF IInv, ReversedOnce
  <2>4. m # 0 => /\ m \in 1..n /\ movements[m].reversalOf = 0
                 /\ \A j \in 1..n : movements[j].reversalOf # m
    BY <2>1 DEF Reversible
  <2> HIDE DEF n
  <2>5. ASSUME NEW j \in 1..(n + 1), NEW i, i = movements'[j].reversalOf, i # 0
        PROVE  /\ i < j
               /\ movements'[i].reversalOf = 0
               /\ \A k \in 1..(n + 1) : movements'[k].reversalOf = i => k = j
    <3>1. CASE j = n + 1
      BY <2>1, <2>4, <2>5, <3>1
    <3>2. CASE j # n + 1
      <4>1. j \in 1..n /\ i = movements[j].reversalOf /\ i \in 1..n
        BY <2>1, <2>2, <2>3, <2>5, <3>2
      <4> QED
        BY <2>1, <2>3, <2>4, <2>5, <4>1
    <3> QED
      BY <3>1, <3>2
  <2> QED
    BY <2>1, <2>5 DEF ReversedOnce
<1> QED
  BY <1>4, <1>5, <1>6, <1>7, <1>8 DEF IInv, ReservedIsOnHand

\* A reservation: what the exact scope must have free is what it takes.
LEMMA ReserveStep ==
  ASSUME IInv, NEW l \in Locations, NEW q \in Quantities, Reserve(l, q)
  PROVE  IInv'
<1> DEFINE rv == [location |-> l, quantity |-> q, state |-> "ACTIVE"]
<1>1. rv \in Reservations /\ reservations' = Append(reservations, rv)
  BY DEF Reserve, Reservations
<1>2. q \in Nat /\ q <= onHand[l] - reserved[l]
  BY StockAssumption DEF Reserve
<1>3. \A k \in Locations : reserved'[k] = reserved[k] + HoldOf(rv, k)
  BY <1>2 DEF Reserve, Held, HoldOf, IInv, TypeOK
<1>4. \A k \in Locations : HoldOf(rv, k) = IF k = l THEN q ELSE 0
  BY DEF HoldOf
<1>5. \A k \in Locations : reserved'[k] \in Nat /\ reserved'[k] <= onHand'[k]
  <2> TAKE k \in Locations
  <2>1. /\ onHand[k] \in Nat /\ reserved[k] \in Nat /\ reserved[k] <= onHand[k]
        /\ onHand'[k] = onHand[k]
    BY DEF IInv, TypeOK, ReservedIsOnHand, Reserve
  <2>2. reserved'[k] = IF k = l THEN reserved[k] + q ELSE reserved[k]
    BY <1>2, <1>3, <1>4, <2>1
  <2> QED
    BY <1>2, <2>1, <2>2
<1>6. TypeOK'
  BY <1>1, <1>5 DEF IInv, TypeOK, Reserve, Held
<1>7. NoLeakedHold'
  <2> SUFFICES ASSUME NEW k \in Locations PROVE reserved'[k] <= ActiveQuantity(k)'
    BY DEF NoLeakedHold
  <2>1. ActiveQuantity(k)' = ActiveQuantity(k) + HoldOf(rv, k) /\ ActiveQuantity(k) \in Nat
    BY <1>1, HoldsAfterReserving, ActiveQuantityIsNat DEF IInv, TypeOK
  <2> QED
    BY <1>2, <1>3, <1>4, <2>1 DEF IInv, TypeOK, NoLeakedHold
<1>8. BalanceIsLedger' /\ ReversedOnce'
  BY DEF IInv, BalanceIsLedger, LedgerQuantity, Deltas, ReversedOnce, Reserve
<1> QED
  BY <1>5, <1>6, <1>7, <1>8 DEF IInv, ReservedIsOnHand

\* A reservation that ends gives back exactly its own quantity.
LEMMA TransitionStep ==
  ASSUME IInv, NEW r, NEW state \in TerminalStates, Transition(r, state)
  PROVE  IInv'
<1> DEFINE l == reservations[r].location
           q == reservations[r].quantity
<1>1. /\ r \in DOMAIN reservations /\ reservations[r].state = "ACTIVE"
      /\ reservations \in Seq(Reservations) /\ l \in Locations /\ q \in Nat
      /\ reserved[l] \in Nat /\ q <= reserved[l]
  <2>1. reservations \in Seq(Reservations) /\ r \in DOMAIN reservations
    BY DEF Transition, IInv, TypeOK
  <2>2. l \in Locations /\ q \in Nat
    BY <2>1, ReservationRows, ReservationColumns
  <2> QED
    BY <2>1, <2>2 DEF Transition, IInv, TypeOK, MayFree
<1>2. reservations' \in Seq(Reservations)
  <2>1. reservations[r] \in Reservations
    BY <1>1, ReservationRows
  <2>2. [reservations[r] EXCEPT !.state = state] \in Reservations
    BY <2>1 DEF Reservations
  <2> QED
    BY <1>1, <2>2 DEF Transition
<1>3. \A k \in Locations : reserved'[k] = IF k = l THEN reserved[k] - q ELSE reserved[k]
  BY <1>1 DEF Transition, Freed, IInv, TypeOK
<1>4. \A k \in Locations : reserved'[k] \in Nat /\ reserved'[k] <= onHand'[k]
  BY <1>1, <1>3 DEF IInv, TypeOK, ReservedIsOnHand, Transition
<1>5. TypeOK'
  BY <1>2, <1>4 DEF IInv, TypeOK, Transition, Freed
<1>6. NoLeakedHold'
  <2> SUFFICES ASSUME NEW k \in Locations PROVE reserved'[k] <= ActiveQuantity(k)'
    BY DEF NoLeakedHold
  <2>1. ActiveQuantity(k)' = IF l = k THEN ActiveQuantity(k) - q ELSE ActiveQuantity(k)
    BY <1>1, HoldsAfterTransition DEF Transition
  <2>2. ActiveQuantity(k) \in Nat /\ reserved[k] <= ActiveQuantity(k) /\ reserved[k] \in Nat
    BY <1>1, ActiveQuantityIsNat DEF IInv, TypeOK, NoLeakedHold
  <2> QED
    BY <1>1, <1>3, <2>1, <2>2
<1>7. BalanceIsLedger' /\ ReversedOnce'
  BY DEF IInv, BalanceIsLedger, LedgerQuantity, Deltas, ReversedOnce, Transition
<1> QED
  BY <1>4, <1>5, <1>6, <1>7 DEF IInv, ReservedIsOnHand

\* The balance a rebuild deletes was the ledger's sum, so on hand stays.
LEMMA RebuildStep ==
  ASSUME IInv, Rebuild
  PROVE  IInv'
<1>1. \A l \in Locations : onHand'[l] = onHand[l] /\ reserved'[l] = 0
  BY DEF IInv, BalanceIsLedger, Rebuild, Zero
<1>2. TypeOK'
  BY <1>1 DEF IInv, TypeOK, Rebuild, Zero
<1>3. ReservedIsOnHand'
  BY <1>1 DEF IInv, TypeOK, ReservedIsOnHand
<1>4. NoLeakedHold'
  <2> SUFFICES ASSUME NEW l \in Locations PROVE reserved'[l] <= ActiveQuantity(l)'
    BY DEF NoLeakedHold
  <2>1. ActiveQuantity(l)' = ActiveQuantity(l) /\ ActiveQuantity(l) \in Nat
    BY ActiveQuantityIsNat DEF Rebuild, ActiveQuantity, Holds, IInv, TypeOK
  <2> QED
    BY <1>1, <2>1
<1>5. BalanceIsLedger' /\ ReversedOnce'
  BY <1>1 DEF IInv, BalanceIsLedger, LedgerQuantity, Deltas, ReversedOnce, Rebuild
<1> QED
  BY <1>2, <1>3, <1>4, <1>5 DEF IInv

\* Every step of the warehouse keeps the five properties together.
LEMMA InvStep == IInv /\ [Next]_vars => IInv'
<1> SUFFICES ASSUME IInv, [Next]_vars PROVE IInv'
  OBVIOUS
<1>1. CASE Post
  BY <1>1, PostLinesStep, StockAssumption DEF Post
<1>2. ASSUME NEW m \in 1..MaxMovements, Reverse(m) PROVE IInv'
  <2>1. Opposite(movements[m].delta) \in [Locations -> Int]
    <3>1. movements[m] \in Movements
      BY <1>2 DEF Reverse, IInv, TypeOK
    <3>2. \A l \in Locations : movements[m].delta[l] \in Int
      BY <3>1 DEF Movements
    <3> QED
      BY <3>2 DEF Opposite
  <2> QED
    BY <1>2, <2>1, PostLinesStep, StockAssumption DEF Reverse
<1>3. CASE \E l \in Locations, q \in Quantities : Reserve(l, q)
  BY <1>3, ReserveStep
<1>4. CASE \E r \in 1..MaxReservations, state \in TerminalStates : Transition(r, state)
  BY <1>4, TransitionStep
<1>5. CASE Rebuild
  BY <1>5, RebuildStep
<1>6. CASE UNCHANGED vars
  BY <1>6 DEF vars, IInv, TypeOK, ReservedIsOnHand, BalanceIsLedger, LedgerQuantity,
              Deltas, NoLeakedHold, ActiveQuantity, Holds, ReversedOnce
<1> QED
  BY <1>1, <1>2, <1>3, <1>4, <1>5, <1>6 DEF Next

\* The five properties hold in every reachable state.
THEOREM StockInvariant == Spec => []IInv
  BY InvInit, InvStep, PTL DEF Spec

\* Columns stay quantities: no scope goes negative.
THEOREM StockTypeCorrect == Spec => []TypeOK
  BY StockInvariant, PTL DEF IInv

\* What is reserved of a scope is on hand in that scope.
THEOREM NoOverReservation == Spec => []ReservedIsOnHand
  BY StockInvariant, PTL DEF IInv

\* The projected balance always reconciles with the ledger.
THEOREM ProjectionReconciles == Spec => []BalanceIsLedger
  BY StockInvariant, PTL DEF IInv

\* An ended reservation holds nothing.
THEOREM HoldsEnd == Spec => []NoLeakedHold
  BY StockInvariant, PTL DEF IInv

\* A document is reversed at most once, and reversals not at all.
THEOREM ReversalIsFinal == Spec => []ReversedOnce
  BY StockInvariant, PTL DEF IInv

\* One step adds a row to a table or ends one active reservation.
LEMMA HistoryStep ==
  ASSUME TypeOK, Next
  PROVE  /\ \A m \in DOMAIN movements :
              m \in DOMAIN movements' /\ movements'[m] = movements[m]
         /\ \A r \in DOMAIN reservations :
              /\ r \in DOMAIN reservations'
              /\ reservations[r].state # "ACTIVE" => reservations'[r] = reservations[r]
<1>1. ASSUME NEW delta \in [Locations -> Int], NEW m \in Nat, PostLines(delta, m)
      PROVE  /\ \A i \in DOMAIN movements :
                  i \in DOMAIN movements' /\ movements'[i] = movements[i]
             /\ reservations' = reservations
  <2>1. [delta |-> delta, reversalOf |-> m] \in Movements
    BY DEF Movements
  <2> QED
    BY <1>1, <2>1, RowsAfterAppend DEF PostLines, TypeOK
<1>2. CASE Post
  BY <1>1, <1>2, StockAssumption DEF Post
<1>3. CASE \E m \in 1..MaxMovements : Reverse(m)
  <2>1. PICK m \in 1..MaxMovements : Reverse(m)
    BY <1>3
  <2>2. movements[m] \in Movements
    BY <2>1 DEF Reverse, TypeOK
  <2>3. \A l \in Locations : movements[m].delta[l] \in Int
    BY <2>2 DEF Movements
  <2>4. Opposite(movements[m].delta) \in [Locations -> Int]
    BY <2>3 DEF Opposite
  <2> QED
    BY <1>1, <2>1, <2>4, StockAssumption DEF Reverse
<1>4. CASE \E l \in Locations, q \in Quantities : Reserve(l, q)
  <2>1. PICK l \in Locations, q \in Quantities : Reserve(l, q)
    BY <1>4
  <2>2. [location |-> l, quantity |-> q, state |-> "ACTIVE"] \in Reservations
    BY DEF Reservations
  <2> QED
    BY <2>1, <2>2, RowsAfterAppend DEF Reserve, TypeOK
<1>5. CASE \E r \in 1..MaxReservations, state \in TerminalStates : Transition(r, state)
  BY <1>5 DEF Transition, TypeOK
<1>6. CASE Rebuild
  BY <1>6 DEF Rebuild
<1> QED
  BY <1>2, <1>3, <1>4, <1>5, <1>6 DEF Next

\* The ledger is append-only and an ended reservation never changes again.
THEOREM HistoryIsKept == Spec => HistoryStays
<1>1. TypeOK /\ [Next]_vars =>
        [/\ \A m \in DOMAIN movements :
              m \in DOMAIN movements' /\ movements'[m] = movements[m]
         /\ \A r \in DOMAIN reservations :
              /\ r \in DOMAIN reservations'
              /\ reservations[r].state # "ACTIVE" => reservations'[r] = reservations[r]
        ]_vars
  BY HistoryStep
<1> QED
  BY <1>1, StockTypeCorrect, PTL DEF Spec, HistoryStays
=============================================================================
