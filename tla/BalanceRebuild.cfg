\* A rebuild while a reservation is active.
SPECIFICATION Spec
CONSTANTS
  l1 = l1
  l2 = l2
  Locations = {l1, l2}
  Postings <- MCPostings
  Quantities = {1, 2}
  MaxMovements = 2
  MaxReservations = 1
INVARIANT EveryHoldIsInTheBalance
