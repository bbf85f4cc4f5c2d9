-------------------------- MODULE Stocktake_proofs --------------------------
(***************************************************************************)
(* A count that is posted, or taken back, is a count of the stock that is  *)
(* there: for every set of scopes, every number of stocktakes, and any     *)
(* other documents.  The version of a scope only grows, and the stock of a *)
(* scope stays as it is while its version does; so a round whose versions  *)
(* still stand expects what is there.                                      *)
(***************************************************************************)
EXTENDS Stocktake, FiniteSetTheorems, TLAPS

LedgerTyped == Stock!TypeOK

\* A snapshot of quantities is that of the stock until its versions pass.
Stands(versions, quantities) ==
  \A l \in CountedScopes :
    /\ versions[l] <= Version(l)
    /\ versions[l] = Version(l) => onHand[l] = quantities[l]

\* The movement of a posted stocktake added what the round found beyond what it
\* expected.
AdjustsBy(row) ==
  IF row.movement = 0 THEN row.counted = row.expected
  ELSE /\ row.movement \in DOMAIN movements
       /\ \A l \in CountedScopes :
            movements[row.movement].delta[l] = row.counted[l] - row.expected[l]

RowStands(row) ==
  /\ Stands(row.version, row.expected)
  /\ row.status = "posted" => Stands(row.postedVersion, row.counted) /\ AdjustsBy(row)

SnapshotsStand == \A s \in DOMAIN stocktakes : RowStands(stocktakes[s])

IInv == LedgerTyped /\ StocktakesTypeOK /\ SnapshotsStand

-----------------------------------------------------------------------------
(* The ledger under any step.                                              *)

\* A step posts one movement, or leaves the ledger and the stock alone.
LedgerStep ==
  \/ UNCHANGED <<onHand, movements>>
  \/ \E delta \in [Locations -> Int], m \in Nat :
       /\ onHand' = [l \in Locations |-> onHand[l] + delta[l]]
       /\ movements' = Append(movements, [delta |-> delta, reversalOf |-> m])

\* The columns of the ledger that counting reads.
LEMMA LedgerColumns ==
  ASSUME LedgerTyped
  PROVE  /\ onHand \in [Locations -> Nat]
         /\ movements \in Seq(Stock!Movements)
  BY DEF LedgerTyped, Stock!TypeOK

\* The version of a scope counts the postings of it.
LEMMA VersionAfterPosting ==
  ASSUME movements \in Seq(Stock!Movements), NEW mv \in Stock!Movements,
         movements' = Append(movements, mv), NEW l \in Locations
  PROVE  /\ Version(l) \in Nat
         /\ Version(l)' = Version(l) + (IF mv.delta[l] # 0 THEN 1 ELSE 0)
<1> DEFINE n == Len(movements)
           Lines == {m \in 1..n : movements[m].delta[l] # 0}
           Lines1 == {m \in 1..(n + 1) : movements'[m].delta[l] # 0}
<1>1. /\ n \in Nat /\ DOMAIN movements = 1..n /\ DOMAIN movements' = 1..(n + 1)
      /\ \A m \in 1..n : movements'[m] = movements[m]
      /\ movements'[n + 1] = mv
  OBVIOUS
<1>2. Version(l) = Cardinality(Lines) /\ Version(l)' = Cardinality(Lines1)
  BY <1>1 DEF Version
<1>3. IsFiniteSet(Lines)
  <2>1. IsFiniteSet(1..n)
    BY <1>1, FS_Interval
  <2> QED
    BY <2>1, FS_Subset
<1>4. Cardinality(Lines) \in Nat
  BY <1>3, FS_CardinalityType
<1>5. n + 1 \notin Lines
  BY <1>1
<1>6. Lines1 = IF mv.delta[l] # 0 THEN Lines \union {n + 1} ELSE Lines
  <2>1. 1..(n + 1) = (1..n) \union {n + 1} /\ n + 1 \notin 1..n
    BY <1>1
  <2> HIDE DEF n
  <2> QED
    BY <1>1, <2>1
<1>7. Cardinality(Lines \union {n + 1}) = Cardinality(Lines) + 1
  BY <1>3, <1>5, FS_AddElement
<1> HIDE DEF n, Lines, Lines1
<1> QED
  BY <1>2, <1>4, <1>6, <1>7

\* A snapshot stands across any step of the ledger.
LEMMA SnapshotStands ==
  ASSUME LedgerTyped, LedgerStep,
         NEW versions \in [CountedScopes -> Nat], NEW quantities,
         Stands(versions, quantities)
  PROVE  Stands(versions, quantities)'
<1> USE StocktakeAssumption
<1>1. CASE UNCHANGED <<onHand, movements>>
  BY <1>1 DEF Stands, Version
<1>2. CASE ~UNCHANGED <<onHand, movements>>
  <2>1. PICK delta \in [Locations -> Int], m \in Nat :
          /\ onHand' = [l \in Locations |-> onHand[l] + delta[l]]
          /\ movements' = Append(movements, [delta |-> delta, reversalOf |-> m])
    BY <1>2 DEF LedgerStep
  <2> DEFINE mv == [delta |-> delta, reversalOf |-> m]
  <2>2. mv \in Stock!Movements /\ mv.delta = delta
    BY DEF Stock!Movements
  <2> SUFFICES ASSUME NEW l \in CountedScopes
               PROVE  /\ versions[l] <= Version(l)'
                      /\ versions[l] = Version(l)' => onHand'[l] = quantities[l]
    BY DEF Stands
  <2>3. l \in Locations /\ versions[l] \in Nat
    OBVIOUS
  <2>4. Version(l) \in Nat /\ Version(l)' = Version(l) + (IF delta[l] # 0 THEN 1 ELSE 0)
    BY <2>1, <2>2, <2>3, VersionAfterPosting, LedgerColumns
  <2>5. versions[l] <= Version(l) /\ (versions[l] = Version(l) => onHand[l] = quantities[l])
    BY DEF Stands
  <2>6. onHand[l] \in Int /\ delta[l] \in Int /\ onHand'[l] = onHand[l] + delta[l]
    BY <2>1, <2>3, LedgerColumns
  <2> QED
    BY <2>3, <2>4, <2>5, <2>6
<1> QED
  BY <1>1, <1>2

\* A movement that was posted stays as it is.
LEMMA AdjustmentStays ==
  ASSUME LedgerTyped, LedgerStep, NEW row, AdjustsBy(row)
  PROVE  AdjustsBy(row)'
<1>1. CASE UNCHANGED <<onHand, movements>>
  BY <1>1 DEF AdjustsBy
<1>2. CASE ~UNCHANGED <<onHand, movements>>
  <2>1. PICK delta \in [Locations -> Int], m \in Nat :
          movements' = Append(movements, [delta |-> delta, reversalOf |-> m])
    BY <1>2 DEF LedgerStep
  <2>2. \A i \in DOMAIN movements : i \in DOMAIN movements' /\ movements'[i] = movements[i]
    <3>1. Len(movements) \in Nat /\ DOMAIN movements = 1..Len(movements)
      BY LedgerColumns
    <3> QED
      BY <2>1, <3>1, LedgerColumns
  <2> QED
    BY <2>2 DEF AdjustsBy
<1> QED
  BY <1>1, <1>2

\* A row that stands goes on standing whatever the ledger does.
LEMMA RowStaysStanding ==
  ASSUME LedgerTyped, LedgerStep, NEW row \in StocktakeRows, RowStands(row)
  PROVE  RowStands(row)'
<1>1. row.version \in [CountedScopes -> Nat] /\ row.postedVersion \in [CountedScopes -> Nat]
  BY DEF StocktakeRows
<1>2. Stands(row.version, row.expected)'
  BY <1>1, SnapshotStands DEF RowStands
<1>3. row.status = "posted" => Stands(row.postedVersion, row.counted)' /\ AdjustsBy(row)'
  BY <1>1, SnapshotStands, AdjustmentStays DEF RowStands
<1> QED
  BY <1>2, <1>3 DEF RowStands

-----------------------------------------------------------------------------
\* A table in which one row is replaced.
LEMMA RowReplaced ==
  ASSUME NEW S, NEW rows \in Seq(S), NEW r \in DOMAIN rows, NEW row \in S
  PROVE  /\ [rows EXCEPT ![r] = row] \in Seq(S)
         /\ DOMAIN [rows EXCEPT ![r] = row] = DOMAIN rows
         /\ [rows EXCEPT ![r] = row][r] = row
         /\ \A t \in DOMAIN rows : t # r => [rows EXCEPT ![r] = row][t] = rows[t]
<1>1. Len(rows) \in Nat /\ DOMAIN rows = 1..Len(rows)
  OBVIOUS
<1> QED
  BY <1>1

(* What documents and reservations do to the ledger.                       *)

\* A posting moves versions with the quantities it changes.
LEMMA PostLinesStep ==
  ASSUME LedgerTyped, NEW delta \in [Locations -> Int], NEW m \in Nat,
         Stock!PostLines(delta, m)
  PROVE  LedgerTyped' /\ LedgerStep
<1>1. [delta |-> delta, reversalOf |-> m] \in Stock!Movements
  BY DEF Stock!Movements
<1>2. /\ onHand' = [l \in Locations |-> onHand[l] + delta[l]]
      /\ movements' = Append(movements, [delta |-> delta, reversalOf |-> m])
      /\ reserved' = reserved /\ reservations' = reservations
      /\ \A l \in Locations : delta[l] < 0 => onHand[l] + delta[l] >= reserved[l]
  BY DEF Stock!PostLines, Stock!Posted, Stock!MayPost
<1>3. /\ onHand \in [Locations -> Nat] /\ reserved \in [Locations -> Nat]
      /\ movements \in Seq(Stock!Movements)
      /\ reservations \in Seq(Stock!Reservations)
  BY DEF LedgerTyped, Stock!TypeOK
<1>4. movements' \in Seq(Stock!Movements)
  BY <1>1, <1>2, <1>3
<1>5. \A l \in Locations : onHand[l] + delta[l] \in Nat
  <2>1. ASSUME NEW l \in Locations PROVE onHand[l] + delta[l] \in Nat
    <3>1. onHand[l] \in Nat /\ reserved[l] \in Nat /\ delta[l] \in Int
      BY <1>3
    <3> QED
      BY <1>2, <3>1
  <2> QED
    BY <2>1
<1>6. onHand' \in [Locations -> Nat]
  BY <1>2, <1>5
<1>7. LedgerTyped'
  BY <1>2, <1>3, <1>4, <1>6 DEF LedgerTyped, Stock!TypeOK
<1> QED
  BY <1>2, <1>7 DEF LedgerStep

\* A reservation moves no stock.
LEMMA ReserveStep ==
  ASSUME LedgerTyped, NEW l \in Locations, NEW q \in Quantities, Stock!Reserve(l, q)
  PROVE  LedgerTyped' /\ LedgerStep
<1>1. q \in Nat
  BY DocumentStockAssumption DEF Stock!StockAssumption
<1>2. [location |-> l, quantity |-> q, state |-> "ACTIVE"] \in Stock!Reservations
  BY DEF Stock!Reservations
<1>3. /\ onHand \in [Locations -> Nat] /\ reserved \in [Locations -> Nat]
      /\ movements \in Seq(Stock!Movements)
      /\ reservations \in Seq(Stock!Reservations)
  BY DEF LedgerTyped, Stock!TypeOK
<1>4. /\ UNCHANGED <<onHand, movements>>
      /\ reserved' = [reserved EXCEPT ![l] = @ + q]
      /\ reservations' =
           Append(reservations, [location |-> l, quantity |-> q, state |-> "ACTIVE"])
  BY DEF Stock!Reserve, Stock!Held
<1>5. reservations' \in Seq(Stock!Reservations)
  BY <1>2, <1>3, <1>4
<1>6. reserved' \in [Locations -> Nat]
  BY <1>1, <1>3, <1>4
<1>7. LedgerTyped'
  BY <1>3, <1>4, <1>5, <1>6 DEF LedgerTyped, Stock!TypeOK
<1> QED
  BY <1>4, <1>7 DEF LedgerStep

\* The end of a reservation moves no stock.
LEMMA TransitionStep ==
  ASSUME LedgerTyped, NEW r, Stock!Transition(r, "RELEASED")
  PROVE  LedgerTyped' /\ LedgerStep
<1>1. /\ onHand \in [Locations -> Nat] /\ reserved \in [Locations -> Nat]
      /\ movements \in Seq(Stock!Movements)
      /\ reservations \in Seq(Stock!Reservations)
  BY DEF LedgerTyped, Stock!TypeOK
<1> DEFINE row == reservations[r]
<1>2. /\ UNCHANGED <<onHand, movements>>
      /\ r \in DOMAIN reservations
      /\ reserved[row.location] >= row.quantity
      /\ reserved' = [reserved EXCEPT ![row.location] = @ - row.quantity]
      /\ reservations' = [reservations EXCEPT ![r].state = "RELEASED"]
  BY DEF Stock!Transition, Stock!MayFree, Stock!Freed
<1>3. row \in Stock!Reservations
  BY <1>1, <1>2
<1>4. row.location \in Locations /\ row.quantity \in Nat
  <2>1. row.location \in Locations /\ row.quantity \in Quantities
    BY <1>3 DEF Stock!Reservations
  <2> QED
    BY <2>1, DocumentStockAssumption DEF Stock!StockAssumption
<1>5. [row EXCEPT !.state = "RELEASED"] \in Stock!Reservations
  BY <1>3 DEF Stock!Reservations, Stock!TerminalStates
<1>6. reservations' \in Seq(Stock!Reservations)
  <2>1. PICK ended \in Stock!Reservations : ended = [row EXCEPT !.state = "RELEASED"]
    BY <1>5
  <2>2. reservations' = [reservations EXCEPT ![r] = ended]
    BY <1>2, <2>1
  <2>3. r \in DOMAIN reservations /\ reservations \in Seq(Stock!Reservations)
    BY <1>1, <1>2
  <2> QED
    BY <2>2, <2>3, RowReplaced
<1>7. reserved' \in [Locations -> Nat]
  <2> HIDE DEF row
  <2> QED
    BY <1>1, <1>2, <1>4
<1>8. LedgerTyped'
  BY <1>1, <1>2, <1>6, <1>7 DEF LedgerTyped, Stock!TypeOK
<1> QED
  BY <1>2, <1>8 DEF LedgerStep

\* Whatever the other documents and the reservations do is a step of the ledger.
LEMMA OtherStep ==
  ASSUME LedgerTyped, StockNext
  PROVE  LedgerTyped' /\ LedgerStep
<1>1. CASE OtherDocument
  <2>1. PICK delta \in OtherPostings : Stock!PostLines(delta, 0)
    BY <1>1 DEF OtherDocument, PostMovement
  <2>2. delta \in [Locations -> Int]
    BY <2>1, DocumentStockAssumption DEF Stock!StockAssumption
  <2> QED
    BY <2>1, <2>2, PostLinesStep
<1>2. CASE Reserve
  BY <1>2, ReserveStep DEF Reserve
<1>3. CASE EndReservation
  BY <1>3, TransitionStep DEF EndReservation
<1> QED
  BY <1>1, <1>2, <1>3 DEF StockNext
-----------------------------------------------------------------------------
(* The stocktakes.                                                         *)

\* What a round notes stands when it is noted.
LEMMA SnapshotOfNow ==
  ASSUME LedgerTyped
  PROVE  /\ Quantity \in [CountedScopes -> Nat]
         /\ Versions \in [CountedScopes -> Nat]
         /\ Stands(Versions, Quantity)
<1>1. \A l \in CountedScopes : l \in Locations /\ onHand[l] \in Nat
  BY LedgerColumns, StocktakeAssumption
<1>2. \A l \in CountedScopes : Version(l) \in Nat
  <2>1. ASSUME NEW l \in CountedScopes PROVE Version(l) \in Nat
    <3>1. IsFiniteSet(DOMAIN movements)
      <4>1. Len(movements) \in Nat /\ DOMAIN movements = 1..Len(movements)
        BY LedgerColumns
      <4> QED
        BY <4>1, FS_Interval
    <3>2. IsFiniteSet({m \in DOMAIN movements : movements[m].delta[l] # 0})
      BY <3>1, FS_Subset
    <3> QED
      BY <3>2, FS_CardinalityType DEF Version
  <2> QED
    BY <2>1
<1> QED
  BY <1>1, <1>2 DEF Quantity, Versions, Stands

\* One stocktake moves on while the ledger takes a step.
LEMMA StocktakeMoves ==
  ASSUME IInv, LedgerTyped', LedgerStep,
         NEW s \in DOMAIN stocktakes, NEW row \in StocktakeRows,
         stocktakes' = [stocktakes EXCEPT ![s] = row], RowStands(row)'
  PROVE  IInv'
<1>1. /\ stocktakes \in Seq(StocktakeRows) /\ stocktakes' \in Seq(StocktakeRows)
      /\ DOMAIN stocktakes' = DOMAIN stocktakes
      /\ stocktakes'[s] = row
      /\ \A t \in DOMAIN stocktakes : t # s => stocktakes'[t] = stocktakes[t]
  BY RowReplaced DEF IInv, StocktakesTypeOK
<1>2. ASSUME NEW t \in DOMAIN stocktakes PROVE RowStands(stocktakes[t])'
  <2>1. CASE t = s
    BY <1>1, <2>1
  <2>2. CASE t # s
    <3>1. PICK old \in StocktakeRows : old = stocktakes[t]
      BY <1>1
    <3>2. RowStands(old)
      BY <3>1 DEF IInv, SnapshotsStand
    <3>3. RowStands(old)'
      BY <3>1, <3>2, RowStaysStanding DEF IInv
    <3> QED
      BY <1>1, <2>2, <3>1, <3>3
  <2> QED
    BY <2>1, <2>2
<1> QED
  BY <1>1, <1>2 DEF IInv, StocktakesTypeOK, SnapshotsStand

\* The stocktakes stay consistent while other documents move the stock.
LEMMA StocktakesStay ==
  ASSUME IInv, LedgerTyped', LedgerStep, UNCHANGED stocktakes
  PROVE  IInv'
<1>1. ASSUME NEW t \in DOMAIN stocktakes PROVE RowStands(stocktakes[t])'
  <2>1. PICK old \in StocktakeRows : old = stocktakes[t]
    BY DEF IInv, StocktakesTypeOK
  <2>2. RowStands(old)
    BY <2>1 DEF IInv, SnapshotsStand
  <2>3. RowStands(old)'
    BY <2>1, <2>2, RowStaysStanding DEF IInv
  <2> QED
    BY <2>1, <2>3
<1> QED
  BY <1>1 DEF IInv, StocktakesTypeOK, SnapshotsStand

\* A step that leaves the stock alone.
LEMMA StockStays ==
  ASSUME IInv, UNCHANGED stockVars
  PROVE  LedgerTyped' /\ LedgerStep
  BY DEF IInv, LedgerTyped, Stock!TypeOK, stockVars, LedgerStep
\* What the property says of a step.
CurrentStep ==
  \A s \in DOMAIN stocktakes :
    /\ Becomes(s, "approved", "posted") =>
         /\ Quantity = stocktakes[s].expected
         /\ Quantity' = stocktakes[s].counted
    /\ Becomes(s, "posted", "reversed") =>
         /\ Quantity = stocktakes[s].counted
         /\ Quantity' = stocktakes[s].expected

\* A stocktake that moves without posting keeps the snapshot of its round.
LEMMA RoundGoesOn ==
  ASSUME IInv, UNCHANGED stockVars,
         NEW s \in DOMAIN stocktakes, NEW row \in StocktakeRows,
         row.version = stocktakes[s].version, row.expected = stocktakes[s].expected,
         row.status \notin {"posted", "reversed"},
         stocktakes' = [stocktakes EXCEPT ![s] = row]
  PROVE  IInv' /\ CurrentStep
<1>1. LedgerTyped /\ LedgerTyped' /\ LedgerStep
  BY StockStays DEF IInv
<1>2. PICK old \in StocktakeRows : old = stocktakes[s] /\ RowStands(old)
  BY DEF IInv, StocktakesTypeOK, SnapshotsStand
<1>3. row.version \in [CountedScopes -> Nat]
  BY DEF StocktakeRows
<1>4. Stands(row.version, row.expected)
  BY <1>2 DEF RowStands
<1>5. Stands(row.version, row.expected)'
  BY <1>1, <1>3, <1>4, SnapshotStands
<1>6. RowStands(row)'
  BY <1>5 DEF RowStands
<1>7. IInv'
  BY <1>1, <1>6, StocktakeMoves
<1>8. CurrentStep
  <2>1. \A t \in DOMAIN stocktakes : stocktakes'[t] = IF t = s THEN row ELSE stocktakes[t]
    BY RowReplaced DEF IInv, StocktakesTypeOK
  <2> QED
    BY <2>1 DEF CurrentStep, Becomes
<1> QED
  BY <1>7, <1>8

\* A new stocktake snapshots what is there.
LEMMA CreateStep ==
  ASSUME IInv, CreateStocktake
  PROVE  IInv' /\ CurrentStep
<1> DEFINE new == [status |-> "draft", round |-> 1, expected |-> Quantity,
                   version |-> Versions, counted |-> Uncounted,
                   postedVersion |-> Uncounted, movement |-> 0]
<1>1. LedgerTyped /\ LedgerTyped' /\ LedgerStep
  BY StockStays DEF IInv, CreateStocktake
<1>2. /\ Quantity \in [CountedScopes -> Nat] /\ Versions \in [CountedScopes -> Nat]
      /\ Stands(Versions, Quantity)
  BY <1>1, SnapshotOfNow
<1>3. new \in StocktakeRows
  BY <1>2, StocktakeAssumption DEF StocktakeRows, Uncounted
<1>4. PICK row \in StocktakeRows :
        /\ row = new /\ row.status = "draft"
        /\ row.version \in [CountedScopes -> Nat] /\ Stands(row.version, row.expected)
  BY <1>2, <1>3
<1>5. RowStands(row)'
  <2>1. Stands(row.version, row.expected)'
    BY <1>1, <1>4, SnapshotStands
  <2> QED
    BY <1>4, <2>1 DEF RowStands
<1>6. stocktakes' = Append(stocktakes, row)
  BY <1>4 DEF CreateStocktake
<1>7. /\ stocktakes \in Seq(StocktakeRows) /\ stocktakes' \in Seq(StocktakeRows)
      /\ \A t \in DOMAIN stocktakes : stocktakes'[t] = stocktakes[t]
      /\ \A t \in DOMAIN stocktakes' : t \in DOMAIN stocktakes \/ stocktakes'[t] = row
  <2>1. stocktakes \in Seq(StocktakeRows)
    BY DEF IInv, StocktakesTypeOK
  <2>2. Len(stocktakes) \in Nat /\ DOMAIN stocktakes = 1..Len(stocktakes)
    BY <2>1
  <2> QED
    BY <1>6, <2>1, <2>2
<1>8. ASSUME NEW t \in DOMAIN stocktakes' PROVE RowStands(stocktakes[t])'
  <2>1. CASE stocktakes'[t] = row
    BY <1>5, <2>1
  <2>2. CASE t \in DOMAIN stocktakes
    <3>1. PICK old \in StocktakeRows : old = stocktakes[t] /\ RowStands(old)
      BY <1>7, <2>2 DEF IInv, SnapshotsStand
    <3>2. RowStands(old)'
      BY <1>1, <3>1, RowStaysStanding
    <3> QED
      BY <1>7, <2>2, <3>1, <3>2
  <2> QED
    BY <1>7, <2>1, <2>2
<1>9. IInv'
  BY <1>1, <1>7, <1>8 DEF IInv, StocktakesTypeOK, SnapshotsStand
<1>10. CurrentStep
  BY <1>7 DEF CurrentStep, Becomes
<1> QED
  BY <1>9, <1>10

\* Counting writes no stock and keeps the snapshot.
LEMMA CountStep ==
  ASSUME IInv, NEW s \in DOMAIN stocktakes, NEW counts \in Counts, CountStocktake(s, counts)
  PROVE  IInv' /\ CurrentStep
<1>1. stocktakes[s] \in StocktakeRows
  BY DEF IInv, StocktakesTypeOK
<1>2. PICK row \in StocktakeRows :
        row = [stocktakes[s] EXCEPT !.status = "counted", !.counted = counts]
  BY <1>1, StocktakeAssumption DEF StocktakeRows, Counts
<1>3. stocktakes' = [stocktakes EXCEPT ![s] = row]
  BY <1>2 DEF CountStocktake
<1>4. /\ row.version = stocktakes[s].version /\ row.expected = stocktakes[s].expected
      /\ row.status = "counted"
  BY <1>1, <1>2 DEF StocktakeRows
<1> QED
  BY <1>3, <1>4, RoundGoesOn DEF CountStocktake

\* Submitting, approving and cancelling.
LEMMA MoveStep ==
  ASSUME IInv, UNCHANGED stockVars, NEW s \in DOMAIN stocktakes, NEW from,
         NEW to \in {"submitted", "approved", "cancelled"}, Move(s, from, to)
  PROVE  IInv' /\ CurrentStep
<1>1. stocktakes[s] \in StocktakeRows
  BY DEF IInv, StocktakesTypeOK
<1>2. PICK row \in StocktakeRows : row = [stocktakes[s] EXCEPT !.status = to]
  BY <1>1 DEF StocktakeRows
<1>3. stocktakes' = [stocktakes EXCEPT ![s] = row]
  BY <1>2 DEF Move
<1>4. /\ row.version = stocktakes[s].version /\ row.expected = stocktakes[s].expected
      /\ row.status = to
  BY <1>1, <1>2 DEF StocktakeRows
<1> QED
  BY <1>3, <1>4, RoundGoesOn

\* A recount takes a new snapshot.
LEMMA RecountStep ==
  ASSUME IInv, NEW s \in DOMAIN stocktakes, RequestRecount(s)
  PROVE  IInv' /\ CurrentStep
<1>1. LedgerTyped /\ LedgerTyped' /\ LedgerStep
  BY StockStays DEF IInv, RequestRecount
<1>2. /\ Quantity \in [CountedScopes -> Nat] /\ Versions \in [CountedScopes -> Nat]
      /\ Stands(Versions, Quantity)
  BY <1>1, SnapshotOfNow
<1>3. stocktakes[s] \in StocktakeRows
  BY DEF IInv, StocktakesTypeOK
<1>4. /\ stocktakes[s].round \in 1..MaxRounds /\ stocktakes[s].round + 1 \in 1..MaxRounds
  BY <1>3, StocktakeAssumption DEF StocktakeRows, RequestRecount
<1>5. PICK row \in StocktakeRows :
        row = [stocktakes[s] EXCEPT !.status = "recount_required",
                 !.round = stocktakes[s].round + 1, !.expected = Quantity,
                 !.version = Versions, !.counted = Uncounted]
  BY <1>2, <1>3, <1>4 DEF StocktakeRows, Uncounted
<1>6. stocktakes' = [stocktakes EXCEPT ![s] = row]
  BY <1>5 DEF RequestRecount
<1>7. row.version = Versions /\ row.expected = Quantity /\ row.status = "recount_required"
  BY <1>3, <1>5 DEF StocktakeRows
<1>8. RowStands(row)'
  <2>1. Stands(row.version, row.expected)'
    BY <1>1, <1>2, <1>7, SnapshotStands
  <2> QED
    BY <1>7, <2>1 DEF RowStands
<1>9. IInv'
  BY <1>1, <1>6, <1>8, StocktakeMoves
<1>10. CurrentStep
  <2>1. \A t \in DOMAIN stocktakes : stocktakes'[t] = IF t = s THEN row ELSE stocktakes[t]
    BY <1>6, RowReplaced DEF IInv, StocktakesTypeOK
  <2> QED
    BY <1>7, <2>1 DEF CurrentStep, Becomes
<1> QED
  BY <1>9, <1>10

\* What a count or its reversal posts.
LEMMA AdjustmentStep ==
  ASSUME LedgerTyped, NEW delta \in [Locations -> Int], NEW m \in Nat,
         PostAdjustment(delta, m)
  PROVE  /\ LedgerTyped' /\ LedgerStep
         /\ \A l \in Locations :
              /\ onHand'[l] = onHand[l] + delta[l]
              /\ Version(l) \in Nat
              /\ Version(l)' = Version(l) + (IF delta[l] # 0 THEN 1 ELSE 0)
         /\ (\E l \in Locations : delta[l] # 0) =>
              /\ NextMovement \in DOMAIN movements'
              /\ movements'[NextMovement].delta = delta
         /\ NextMovement \in Nat
<1>1. onHand \in [Locations -> Nat] /\ movements \in Seq(Stock!Movements)
  BY LedgerColumns
<1>2. Len(movements) \in Nat /\ NextMovement \in Nat
  BY <1>1 DEF NextMovement
<1>3. CASE \A l \in Locations : delta[l] = 0
  <2>1. UNCHANGED stockVars
    BY <1>3 DEF PostAdjustment
  <2>2. LedgerTyped' /\ LedgerStep
    BY <2>1 DEF LedgerTyped, Stock!TypeOK, stockVars, LedgerStep
  <2>3. \A l \in Locations : Version(l) \in Nat
    <3>1. ASSUME NEW l \in Locations PROVE Version(l) \in Nat
      <4>1. IsFiniteSet(1..Len(movements)) /\ DOMAIN movements = 1..Len(movements)
        BY <1>1, <1>2, FS_Interval
      <4>2. IsFiniteSet({k \in DOMAIN movements : movements[k].delta[l] # 0})
        BY <4>1, FS_Subset
      <4> QED
        BY <4>2, FS_CardinalityType DEF Version
    <3> QED
      BY <3>1
  <2>4. \A l \in Locations : Version(l)' = Version(l) /\ onHand'[l] = onHand[l]
    BY <2>1 DEF stockVars, Version
  <2>5. \A l \in Locations : onHand[l] \in Nat
    BY <1>1
  <2> QED
    BY <1>2, <1>3, <2>2, <2>3, <2>4, <2>5
<1>4. CASE \E l \in Locations : delta[l] # 0
  <2>1. Stock!PostLines(delta, m)
    BY <1>4 DEF PostAdjustment
  <2>2. LedgerTyped' /\ LedgerStep
    BY <2>1, PostLinesStep
  <2> DEFINE mv == [delta |-> delta, reversalOf |-> m]
  <2>3. mv \in Stock!Movements /\ mv.delta = delta
    BY DEF Stock!Movements
  <2>4. /\ onHand' = [l \in Locations |-> onHand[l] + delta[l]]
        /\ movements' = Append(movements, mv)
    BY <2>1 DEF Stock!PostLines, Stock!Posted
  <2>5. \A l \in Locations :
          /\ Version(l) \in Nat
          /\ Version(l)' = Version(l) + (IF delta[l] # 0 THEN 1 ELSE 0)
    BY <1>1, <2>3, <2>4, VersionAfterPosting
  <2>6. NextMovement \in DOMAIN movements' /\ movements'[NextMovement].delta = delta
    BY <1>1, <1>2, <2>3, <2>4 DEF NextMovement
  <2> QED
    BY <1>2, <2>2, <2>4, <2>5, <2>6
<1> QED
  BY <1>3, <1>4

\* A count is posted over the stock of its snapshot, and knows the versions after.
LEMMA PostStep ==
  ASSUME IInv, NEW s \in DOMAIN stocktakes, PostStocktake(s)
  PROVE  IInv' /\ CurrentStep
<1> USE StocktakeAssumption
<1>1. PICK old \in StocktakeRows : old = stocktakes[s] /\ RowStands(old)
  BY DEF IInv, StocktakesTypeOK, SnapshotsStand
<1>2. /\ old.version \in [CountedScopes -> Nat] /\ old.expected \in [CountedScopes -> Nat]
      /\ old.counted \in [CountedScopes -> Nat] /\ old.status = "approved"
  BY <1>1 DEF StocktakeRows, PostStocktake
<1>3. onHand \in [Locations -> Nat] /\ LedgerTyped
  BY LedgerColumns DEF IInv
<1>4. \A l \in CountedScopes : l \in Locations /\ onHand[l] = old.expected[l]
  BY <1>1, <1>2 DEF PostStocktake, NothingMoved, Versions, RowStands, Stands
<1>5. Quantity = old.expected
  BY <1>2, <1>4 DEF Quantity
<1>6. PICK delta : delta = Adjustment(Quantity, old.counted)
  OBVIOUS
<1>7. /\ delta \in [Locations -> Int]
      /\ \A l \in CountedScopes : delta[l] = old.counted[l] - old.expected[l]
      /\ \A l \in Locations : l \notin CountedScopes => delta[l] = 0
  BY <1>2, <1>5, <1>6 DEF Adjustment
<1>8. PostAdjustment(delta, 0)
  BY <1>1, <1>6 DEF PostStocktake
<1>9. /\ LedgerTyped' /\ LedgerStep
      /\ \A l \in Locations :
           /\ onHand'[l] = onHand[l] + delta[l]
           /\ Version(l) \in Nat
           /\ Version(l)' = Version(l) + (IF delta[l] # 0 THEN 1 ELSE 0)
      /\ (\E l \in Locations : delta[l] # 0) =>
           /\ NextMovement \in DOMAIN movements'
           /\ movements'[NextMovement].delta = delta
      /\ NextMovement \in Nat
  BY <1>3, <1>7, <1>8, AdjustmentStep
<1>10. PICK next : next = NextMovement
  OBVIOUS
<1>11. PICK versions : versions = [l \in CountedScopes |-> Version(l) + (IF delta[l] # 0 THEN 1 ELSE 0)]
  OBVIOUS
<1>12. versions \in [CountedScopes -> Nat] /\ \A l \in CountedScopes : versions[l] = Version(l)'
  BY <1>9, <1>11
<1>13. PICK m \in Nat : m = IF \A l \in Locations : delta[l] = 0 THEN 0 ELSE next
  BY <1>9, <1>10
<1>14. PICK row \in StocktakeRows :
         row = [old EXCEPT !.status = "posted", !.postedVersion = versions, !.movement = m]
  BY <1>12 DEF StocktakeRows
<1>15. Posted(s) = row
  BY <1>1, <1>6, <1>10, <1>11, <1>13, <1>14 DEF Posted
<1>16. stocktakes' = [stocktakes EXCEPT ![s] = row]
  BY <1>15 DEF PostStocktake
<1>17. /\ row.status = "posted" /\ row.version = old.version /\ row.expected = old.expected
       /\ row.counted = old.counted /\ row.postedVersion = versions /\ row.movement = m
  BY <1>14 DEF StocktakeRows
<1>18. \A l \in CountedScopes : onHand'[l] = old.counted[l]
  <2>1. ASSUME NEW l \in CountedScopes PROVE onHand'[l] = old.counted[l]
    <3>1. l \in Locations /\ old.counted[l] \in Nat /\ old.expected[l] \in Nat
      BY <1>2
    <3> QED
      BY <1>4, <1>7, <1>9, <3>1
  <2> QED
    BY <2>1
<1>19. Stands(row.postedVersion, row.counted)'
  <2>1. \A l \in CountedScopes : versions[l] \in Nat
    BY <1>12
  <2> QED
    BY <1>12, <1>17, <1>18, <2>1 DEF Stands
<1>20. AdjustsBy(row)'
  <2>1. CASE \A l \in Locations : delta[l] = 0
    <3>1. \A l \in CountedScopes : old.counted[l] = old.expected[l]
      <4>1. \A l \in CountedScopes :
              /\ old.counted[l] \in Nat /\ old.expected[l] \in Nat
              /\ old.counted[l] - old.expected[l] = 0
        BY <1>2, <1>7, <2>1
      <4> QED
        BY <4>1
    <3>2. old.counted = old.expected
      BY <1>2, <3>1
    <3> QED
      BY <1>13, <1>17, <2>1, <3>2 DEF AdjustsBy
  <2>2. CASE \E l \in Locations : delta[l] # 0
    <3>1. m \in DOMAIN movements' /\ movements'[m].delta = delta
      BY <1>9, <1>10, <1>13, <2>2
    <3>2. m # 0
      <4>1. Len(movements) \in Nat
        BY <1>3, LedgerColumns
      <4> QED
        BY <1>10, <1>13, <2>2, <4>1 DEF NextMovement
    <3> QED
      BY <1>7, <1>17, <3>1, <3>2 DEF AdjustsBy
  <2> QED
    BY <2>1, <2>2
<1>21. Stands(row.version, row.expected)'
  BY <1>1, <1>2, <1>3, <1>9, <1>17, SnapshotStands DEF RowStands
<1>22. RowStands(row)'
  BY <1>19, <1>20, <1>21 DEF RowStands
<1>23. IInv'
  BY <1>9, <1>16, <1>22, StocktakeMoves
<1>24. Quantity' = old.counted
  BY <1>2, <1>18 DEF Quantity
<1>25. CurrentStep
  <2>1. \A t \in DOMAIN stocktakes : stocktakes'[t] = IF t = s THEN row ELSE stocktakes[t]
    BY <1>16, RowReplaced DEF IInv, StocktakesTypeOK
  <2> QED
    BY <1>1, <1>2, <1>5, <1>17, <1>24, <2>1 DEF CurrentStep, Becomes
<1> QED
  BY <1>23, <1>25

\* A count is undone over the stock it left behind.
LEMMA ReverseStep ==
  ASSUME IInv, NEW s \in DOMAIN stocktakes, ReverseStocktake(s)
  PROVE  IInv' /\ CurrentStep
<1> USE StocktakeAssumption
<1>1. PICK old \in StocktakeRows : old = stocktakes[s] /\ RowStands(old)
  BY DEF IInv, StocktakesTypeOK, SnapshotsStand
<1>2. /\ old.version \in [CountedScopes -> Nat] /\ old.expected \in [CountedScopes -> Nat]
      /\ old.counted \in [CountedScopes -> Nat] /\ old.status = "posted"
      /\ old.movement \in Nat
  BY <1>1 DEF StocktakeRows, ReverseStocktake
<1>3. onHand \in [Locations -> Nat] /\ movements \in Seq(Stock!Movements) /\ LedgerTyped
  BY LedgerColumns DEF IInv
<1>4. \A l \in CountedScopes : l \in Locations /\ onHand[l] = old.counted[l]
  BY <1>1, <1>2 DEF ReverseStocktake, Versions, RowStands, Stands
<1>5. Quantity = old.counted
  BY <1>2, <1>4 DEF Quantity
<1>6. PICK delta : delta = Undoing(s)
  OBVIOUS
<1>7. /\ delta \in [Locations -> Int]
      /\ \A l \in CountedScopes : delta[l] = old.expected[l] - old.counted[l]
  <2>1. CASE old.movement = 0
    <3>1. delta = [l \in Locations |-> 0] /\ old.counted = old.expected
      BY <1>1, <1>2, <1>6, <2>1 DEF Undoing, Stock!Zero, RowStands, AdjustsBy
    <3>2. \A l \in CountedScopes : l \in Locations /\ old.counted[l] \in Nat
      BY <1>2
    <3> QED
      BY <3>1, <3>2
  <2>2. CASE old.movement # 0
    <3>1. /\ old.movement \in DOMAIN movements
          /\ \A l \in CountedScopes :
               movements[old.movement].delta[l] = old.counted[l] - old.expected[l]
      BY <1>1, <1>2, <2>2 DEF RowStands, AdjustsBy
    <3>2. movements[old.movement] \in Stock!Movements
      BY <1>3, <3>1
    <3>3. movements[old.movement].delta \in [Locations -> Int]
      BY <3>2 DEF Stock!Movements
    <3>4. delta = [l \in Locations |-> -movements[old.movement].delta[l]]
      BY <1>1, <1>6, <2>2 DEF Undoing, Stock!Opposite
    <3>5. \A l \in CountedScopes :
            l \in Locations /\ old.counted[l] \in Nat /\ old.expected[l] \in Nat
      BY <1>2
    <3> QED
      BY <3>1, <3>3, <3>4, <3>5
  <2> QED
    BY <2>1, <2>2
<1>8. PostAdjustment(delta, old.movement)
  BY <1>1, <1>6 DEF ReverseStocktake
<1>9. /\ LedgerTyped' /\ LedgerStep
      /\ \A l \in Locations : onHand'[l] = onHand[l] + delta[l]
  BY <1>2, <1>3, <1>7, <1>8, AdjustmentStep
<1>10. PICK row \in StocktakeRows : row = [old EXCEPT !.status = "reversed"]
  BY DEF StocktakeRows
<1>11. stocktakes' = [stocktakes EXCEPT ![s] = row]
  BY <1>1, <1>10 DEF ReverseStocktake
<1>12. /\ row.status = "reversed" /\ row.version = old.version
       /\ row.expected = old.expected
  BY <1>10 DEF StocktakeRows
<1>13. Quantity' = old.expected
  <2>1. \A l \in CountedScopes : onHand'[l] = old.expected[l]
    <3>1. ASSUME NEW l \in CountedScopes PROVE onHand'[l] = old.expected[l]
      <4>1. l \in Locations /\ old.counted[l] \in Nat /\ old.expected[l] \in Nat
        BY <1>2
      <4> QED
        BY <1>4, <1>7, <1>9, <4>1
    <3> QED
      BY <3>1
  <2> QED
    BY <1>2, <2>1 DEF Quantity
<1>14. RowStands(row)'
  <2>1. Stands(row.version, row.expected)'
    BY <1>1, <1>2, <1>3, <1>9, <1>12, SnapshotStands DEF RowStands
  <2> QED
    BY <1>12, <2>1 DEF RowStands
<1>15. IInv'
  BY <1>9, <1>11, <1>14, StocktakeMoves
<1>16. CurrentStep
  <2>1. \A t \in DOMAIN stocktakes : stocktakes'[t] = IF t = s THEN row ELSE stocktakes[t]
    BY <1>11, RowReplaced DEF IInv, StocktakesTypeOK
  <2> QED
    BY <1>1, <1>2, <1>5, <1>12, <1>13, <2>1 DEF CurrentStep, Becomes
<1> QED
  BY <1>15, <1>16

-----------------------------------------------------------------------------
\* Without stocktakes there is nothing to be stale.
LEMMA InvInit == StockInit /\ StocktakesInit => IInv
<1> SUFFICES ASSUME StockInit, StocktakesInit PROVE IInv
  OBVIOUS
<1>1. LedgerTyped
  BY DEF StockInit, Stock!Init, LedgerTyped, Stock!TypeOK, Stock!Zero
<1>2. StocktakesTypeOK /\ SnapshotsStand
  BY DEF StocktakesInit, StocktakesTypeOK, SnapshotsStand
<1> QED
  BY <1>1, <1>2 DEF IInv

\* Every step of counting, and of the ledger beside it, keeps the invariant.
LEMMA InvStep ==
  IInv /\ [StocktakesNext \/ (StockNext /\ UNCHANGED stocktakes)]_<<stocktakes, stockVars>>
    => IInv' /\ CurrentStep
<1> SUFFICES ASSUME IInv,
               [StocktakesNext \/ (StockNext /\ UNCHANGED stocktakes)]_<<stocktakes, stockVars>>
             PROVE  IInv' /\ CurrentStep
  OBVIOUS
<1>1. CASE CreateStocktake
  BY <1>1, CreateStep
<1>2. ASSUME NEW s \in DOMAIN stocktakes, NEW counts \in Counts, CountStocktake(s, counts)
      PROVE  IInv' /\ CurrentStep
  BY <1>2, CountStep
<1>3. ASSUME NEW s \in DOMAIN stocktakes,
             SubmitStocktake(s) \/ ApproveStocktake(s) \/ CancelStocktake(s)
      PROVE  IInv' /\ CurrentStep
  BY <1>3, MoveStep DEF SubmitStocktake, ApproveStocktake, CancelStocktake
<1>4. ASSUME NEW s \in DOMAIN stocktakes, RequestRecount(s)
      PROVE  IInv' /\ CurrentStep
  BY <1>4, RecountStep
<1>5. ASSUME NEW s \in DOMAIN stocktakes, PostStocktake(s)
      PROVE  IInv' /\ CurrentStep
  BY <1>5, PostStep
<1>6. ASSUME NEW s \in DOMAIN stocktakes, ReverseStocktake(s)
      PROVE  IInv' /\ CurrentStep
  BY <1>6, ReverseStep
<1>7. CASE UNCHANGED stocktakes /\ (StockNext \/ UNCHANGED stockVars)
  <2>1. LedgerTyped' /\ LedgerStep
    BY <1>7, OtherStep, StockStays DEF IInv
  <2>2. IInv'
    BY <1>7, <2>1, StocktakesStay
  <2>3. CurrentStep
    BY <1>7 DEF CurrentStep, Becomes
  <2> QED
    BY <2>2, <2>3
<1> QED
  BY <1>1, <1>2, <1>3, <1>4, <1>5, <1>6, <1>7 DEF StocktakesNext

\* While any other documents move stock in the same scopes, every snapshot whose
\* versions stand is the stock that is there.
THEOREM StocktakeInvariant == StocktakesSpec => []IInv
<1>1. IInv /\ [StocktakesNext \/ (StockNext /\ UNCHANGED stocktakes)]_<<stocktakes, stockVars>>
        => IInv'
  BY InvStep
<1> QED
  BY <1>1, InvInit, PTL DEF StocktakesSpec

\* Stocktakes are whole rows of non-negative quantities.
THEOREM StocktakeTypeCorrect == StocktakesSpec => []StocktakesTypeOK
  BY StocktakeInvariant, PTL DEF IInv

\* No stocktake is posted or reversed over stock that moved after it was counted:
\* the versions postStocktake and reverseStocktake verify are enough for that.
THEOREM CountsAreCurrent == StocktakesSpec => CountIsCurrent
<1>1. IInv /\ [StocktakesNext \/ (StockNext /\ UNCHANGED stocktakes)]_<<stocktakes, stockVars>>
        => [CurrentStep]_<<stocktakes, stockVars>>
  BY InvStep
<1>2. [][CurrentStep]_<<stocktakes, stockVars>> => CountIsCurrent
  BY PTL DEF CurrentStep, CountIsCurrent
<1> QED
  BY <1>1, <1>2, StocktakeInvariant, PTL DEF StocktakesSpec
=============================================================================
