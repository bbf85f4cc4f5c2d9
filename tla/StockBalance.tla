---------------------------- MODULE StockBalance ----------------------------
(***************************************************************************)
(* What the database does to inventory.inventory_balances, as operators on *)
(* its two columns.  A location stands for one exact scope: a location and *)
(* a lot of one SKU in one warehouse.  Every caller holds the advisory     *)
(* lock of the warehouse and SKU, so the operators are used inside one     *)
(* atomic step.  Negative stock is off (allow_negative_stock = false).     *)
(***************************************************************************)
EXTENDS Integers, FiniteSets, Functions

CONSTANT Locations

ASSUME LocationsAssumption == IsFiniteSet(Locations)

\* A column of the balance table, summed over the warehouse.
Total(column) == SumFunctionOnSet(column, Locations)

\* guard_inventory_negative_stock: an OUT line may not cut into reserved stock.
MayPost(onHand, reserved, delta) ==
  \A l \in Locations : delta[l] < 0 => onHand[l] + delta[l] >= reserved[l]

\* project_inventory_balance_from_line
Posted(onHand, delta) == [l \in Locations |-> onHand[l] + delta[l]]

\* A reversal repeats the lines of the original with the sign turned.
Opposite(delta) == [l \in Locations |-> -delta[l]]

\* sync_reservation_to_balance and apply_reservation_issue_adjustment: quantity
\* enters or leaves the reserved column of one scope.
Held(reserved, l, q) == [reserved EXCEPT ![l] = @ + q]

\* MUTANT: the projection does not test that the scope still holds the quantity.
MayFreeUnchecked(reserved, l, q) == TRUE

\* The trigger aborts when the scope holds less than is taken out of it.
MayFree(reserved, l, q) == reserved[l] >= q
Freed(reserved, l, q) == [reserved EXCEPT ![l] = @ - q]

\* guard_inventory_reservation_against_sales_demand: the whole warehouse has
\* the quantity, beyond its reservations and the holds of confirmed demand.  A
\* reserved quantity is positive, so the trigger's greatest(..., 0) adds nothing.
MayReserve(onHand, reserved, demandHolds, q) ==
  q <= Total(onHand) - Total(reserved) - demandHolds
=============================================================================
