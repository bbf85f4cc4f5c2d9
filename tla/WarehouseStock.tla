--------------------------- MODULE WarehouseStock ---------------------------
(***************************************************************************)
(* The inventory ledger of one SKU in one warehouse and what is projected  *)
(* from it: immutable movements, reservations, and the balance row of each *)
(* exact scope (services/inventory-ledger-core.js, inventory-reservations  *)
(* .js, inventory-balance.js and the triggers behind them).  Every         *)
(* operation is one transaction that holds the advisory lock of the        *)
(* warehouse and SKU from before its first read of a balance.              *)
(***************************************************************************)
EXTENDS StockBalance, Sequences

CONSTANTS Postings,         \* the line quantities a document may post
          Quantities,       \* the quantities a reservation may ask for
          MaxMovements,     \* bound: movements in the ledger
          MaxReservations   \* bound: reservations ever made

ASSUME StockAssumption ==
  /\ Postings \subseteq [Locations -> Int]
  /\ Quantities \subseteq Nat \ {0}
  /\ MaxMovements \in Nat
  /\ MaxReservations \in Nat

VARIABLES
  onHand,        \* inventory_balances.on_hand_quantity
  reserved,      \* inventory_balances.reserved_quantity
  movements,     \* inventory_movements with their lines, in posting order
  reservations   \* inventory_reservations

vars == <<onHand, reserved, movements, reservations>>

TerminalStates == {"RELEASED", "CONSUMED", "EXPIRED", "CANCELLED"}

Movements == [delta : [Locations -> Int], reversalOf : Nat]
Reservations == [location : Locations, quantity : Quantities,
                 state : {"ACTIVE"} \union TerminalStates]

Zero == [l \in Locations |-> 0]

\* What the ledger says of a scope.
Deltas(l) == [m \in DOMAIN movements |-> movements[m].delta[l]]
LedgerQuantity(l) == SumFunctionOnSet(Deltas(l), DOMAIN movements)

\* What the active reservations hold of a scope.
HoldOf(r, l) == IF r.location = l /\ r.state = "ACTIVE" THEN r.quantity ELSE 0
Holds(l) == [r \in DOMAIN reservations |-> HoldOf(reservations[r], l)]
ActiveQuantity(l) == SumFunctionOnSet(Holds(l), DOMAIN reservations)

-----------------------------------------------------------------------------
Init ==
  /\ onHand = Zero
  /\ reserved = Zero
  /\ movements = <<>>
  /\ reservations = <<>>

\* The lines of a movement are inserted and projected one by one in the same
\* transaction; a line the guard refuses rolls all of them back.
PostLines(delta, reversalOf) ==
  /\ Len(movements) < MaxMovements
  /\ MayPost(onHand, reserved, delta)
  /\ onHand' = Posted(onHand, delta)
  /\ movements' = Append(movements, [delta |-> delta, reversalOf |-> reversalOf])
  /\ UNCHANGED <<reserved, reservations>>

\* postInventoryMovement
Post == \E delta \in Postings : PostLines(delta, 0)

\* MUTANT: nobody looks for an earlier reversal.
ReversibleAgain(m) == movements[m].reversalOf = 0

\* The guards of reverseInventoryMovement, on the row it locks FOR UPDATE.
Reversible(m) ==
  /\ movements[m].reversalOf = 0
  /\ \A n \in DOMAIN movements : movements[n].reversalOf # m

\* reverseInventoryMovement
Reverse(m) ==
  /\ m \in DOMAIN movements
  /\ Reversible(m)
  /\ PostLines(Opposite(movements[m].delta), m)

\* MUTANT: only the warehouse total is tested, not the exact scope.
ReserveAnywhere(l, q) ==
  /\ Len(reservations) < MaxReservations
  /\ MayReserve(onHand, reserved, 0, q)
  /\ reserved' = Held(reserved, l, q)
  /\ reservations' =
       Append(reservations, [location |-> l, quantity |-> q, state |-> "ACTIVE"])
  /\ UNCHANGED <<onHand, movements>>

\* createReservation: the exact scope must have it, and the warehouse too.
Reserve(l, q) ==
  /\ q <= onHand[l] - reserved[l]
  /\ Len(reservations) < MaxReservations
  /\ MayReserve(onHand, reserved, 0, q)
  /\ reserved' = Held(reserved, l, q)
  /\ reservations' =
       Append(reservations, [location |-> l, quantity |-> q, state |-> "ACTIVE"])
  /\ UNCHANGED <<onHand, movements>>

\* MUTANT: a consumed reservation keeps its quantity in the balance.
TransitionKeepingConsumed(r, state) ==
  /\ r \in DOMAIN reservations
  /\ reservations[r].state = "ACTIVE"
  /\ reserved' = IF state = "CONSUMED" THEN reserved
                 ELSE Freed(reserved, reservations[r].location, reservations[r].quantity)
  /\ reservations' = [reservations EXCEPT ![r].state = state]
  /\ UNCHANGED <<onHand, movements>>

\* transitionReservation: an active reservation ends, and the trigger takes its
\* quantity out of the balance or aborts the transaction.
Transition(r, state) ==
  /\ r \in DOMAIN reservations
  /\ reservations[r].state = "ACTIVE"
  /\ MayFree(reserved, reservations[r].location, reservations[r].quantity)
  /\ reserved' = Freed(reserved, reservations[r].location, reservations[r].quantity)
  /\ reservations' = [reservations EXCEPT ![r].state = state]
  /\ UNCHANGED <<onHand, movements>>

\* MUTANT: reversals are left out of the sum, as if they cancelled their original.
RebuildWithoutReversals ==
  /\ onHand' = [l \in Locations |->
       SumFunctionOnSet(Deltas(l), {m \in DOMAIN movements : movements[m].reversalOf = 0})]
  /\ reserved' = Zero
  /\ UNCHANGED <<movements, reservations>>

\* executeInventoryBalanceRebuild deletes every balance row and inserts the sum
\* of the ledger with reserved_quantity 0.
Rebuild ==
  /\ onHand' = [l \in Locations |-> LedgerQuantity(l)]
  /\ reserved' = Zero
  /\ UNCHANGED <<movements, reservations>>

Next ==
  \/ Post
  \/ \E m \in 1..MaxMovements : Reverse(m)
  \/ \E l \in Locations, q \in Quantities : Reserve(l, q)
  \/ \E r \in 1..MaxReservations, state \in TerminalStates : Transition(r, state)
  \/ Rebuild

Spec == Init /\ [][Next]_vars

-----------------------------------------------------------------------------
\* The tables hold whole rows, and no balance column is negative.
TypeOK ==
  /\ onHand \in [Locations -> Nat]
  /\ reserved \in [Locations -> Nat]
  /\ movements \in Seq(Movements)
  /\ reservations \in Seq(Reservations)

\* No order of postings, reversals, reservations and rebuilds leaves a scope
\* with more stock reserved than it has: what the guard on OUT lines and the
\* availability test of a reservation add up to.
ReservedIsOnHand == \A l \in Locations : reserved[l] <= onHand[l]

\* The projected balance of every scope is what the immutable ledger adds up
\* to: reconcileInventoryBalances finds no difference.
BalanceIsLedger == \A l \in Locations : onHand[l] = LedgerQuantity(l)

\* No quantity stays reserved once its reservation has ended, or availability
\* is lost for good.
NoLeakedHold == \A l \in Locations : reserved[l] <= ActiveQuantity(l)

\* A document is reversed at most once and a reversal is never reversed, so no
\* chain of reversals multiplies stock.
ReversedOnce ==
  \A n \in DOMAIN movements :
    LET m == movements[n].reversalOf IN
    m # 0 =>
      /\ m < n
      /\ movements[m].reversalOf = 0
      /\ \A k \in DOMAIN movements : movements[k].reversalOf = m => k = n

\* The ledger is append-only, and a reservation that has ended stays as it is.
HistoryStays ==
  [][/\ \A m \in DOMAIN movements :
          m \in DOMAIN movements' /\ movements'[m] = movements[m]
     /\ \A r \in DOMAIN reservations :
          /\ r \in DOMAIN reservations'
          /\ reservations[r].state # "ACTIVE" => reservations'[r] = reservations[r]
    ]_vars

\* Every active reservation is in the balance it was made on, which is what the
\* balance is rebuilt for: "Balance is a read model ... fully rebuildable"
\* (docs/operations/phase-4-inventory-foundation-decisions.md:82).  Rebuild
\* writes reserved_quantity 0, so the code does not keep it.
EveryHoldIsInTheBalance == \A l \in Locations : reserved[l] >= ActiveQuantity(l)
=============================================================================
