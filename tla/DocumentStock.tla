--------------------------- MODULE DocumentStock ---------------------------
(***************************************************************************)
(* The ledger as the documents of the warehouse use it.  A document posts  *)
(* a movement or reverses the one it posted, inside its own transaction    *)
(* and under the advisory locks of the scopes it names (services/          *)
(* inventory-ledger-core.js).  Locations are exact scopes and may lie in   *)
(* several warehouses.  A document that posted nothing has movement 0.     *)
(***************************************************************************)
EXTENDS Integers, FiniteSets, FiniteSetsExt, Functions, Sequences

CONSTANTS Locations,
          Postings,         \* the line quantities any document may post
          OtherPostings,    \* those of documents the modules leave out
          Quantities,       \* the quantities a reservation may ask for
          MaxMovements,     \* bound: movements in the ledger
          MaxReservations   \* bound: reservations ever made

VARIABLES onHand, reserved, movements, reservations

stockVars == <<onHand, reserved, movements, reservations>>

Stock == INSTANCE WarehouseStock

ASSUME DocumentStockAssumption ==
  /\ Stock!LocationsAssumption
  /\ Stock!StockAssumption
  /\ OtherPostings \subseteq Postings

StockInit == Stock!Init

\* One line of quantity q at scope l.
OneLine(l, q) == [k \in Locations |-> IF k = l THEN q ELSE 0]

\* inventory_scope_versions.version: bump_inventory_scope_version counts the
\* lines a scope was ever posted.
Version(l) == Cardinality({m \in DOMAIN movements : movements[m].delta[l] # 0})

\* MUTANT: the guard on OUT lines is missing.
PostUnguarded(delta) ==
  /\ Len(movements) < MaxMovements
  /\ onHand' = [l \in Locations |-> onHand[l] + delta[l]]
  /\ movements' = Append(movements, [delta |-> delta, reversalOf |-> 0])
  /\ UNCHANGED <<reserved, reservations>>

\* postInventoryMovement, called by a document.
PostMovement(delta) == Stock!PostLines(delta, 0)

\* MUTANT: what a movement brought in is taken back although it is reserved.
ReverseReserved(m) ==
  /\ m \in DOMAIN movements
  /\ Stock!Reversible(m)
  /\ Len(movements) < MaxMovements
  /\ onHand' = [l \in Locations |-> onHand[l] - movements[m].delta[l]]
  /\ movements' = Append(movements, [delta |-> Stock!Opposite(movements[m].delta), reversalOf |-> m])
  /\ UNCHANGED <<reserved, reservations>>

\* reverseInventoryMovement, called by the document that posted m.
ReverseMovement(m) == Stock!Reverse(m)

\* The number the ledger gives to the next movement.
NextMovement == Len(movements) + 1

\* What the movements in ms, and the reversals of them, leave at scope l.
NetOf(ms, l) ==
  LET rows == {m \in DOMAIN movements : m \in ms \/ movements[m].reversalOf \in ms}
  IN SumFunctionOnSet([m \in rows |-> movements[m].delta[l]], rows)

-----------------------------------------------------------------------------
(* Stock that other documents move, and reservations.                      *)

OtherDocument == \E delta \in OtherPostings : PostMovement(delta)

Reserve == \E l \in Locations, q \in Quantities : Stock!Reserve(l, q)

\* To the balance all four ends of a reservation are the same.
EndReservation == \E r \in DOMAIN reservations : Stock!Transition(r, "RELEASED")

StockNext == OtherDocument \/ Reserve \/ EndReservation
=============================================================================
