\* Two orders, two exact scopes and two delivery orders over two units on hand.
SPECIFICATION Spec
CONSTANTS
  o1 = o1
  o2 = o2
  Orders = {o1, o2}
  Locations = {1, 2}
  Quantities = {1, 2}
  Postings <- MCPostings
  AllowBackorder = TRUE
  MaxStock = 2
  MaxAllocations = 2
  MaxDeliveries = 2
INVARIANTS TypeOK ReservedIsOnHand BalanceMatchesReservations DemandsAddUp ClaimsArePacked ConsumedIsShipped
PROPERTIES NeverPromisedTwice HoldsAreKept OldestFirst
SYMMETRY MCSymmetry
\* Once every order is cancelled and the stock bound is reached nothing is left.
CHECK_DEADLOCK FALSE
