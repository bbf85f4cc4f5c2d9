\* Three documents or reversals and two reservations on two scopes.
SPECIFICATION Spec
CONSTANTS
  l1 = l1
  l2 = l2
  Locations = {l1, l2}
  Postings <- MCPostings
  Quantities = {1, 2}
  MaxMovements = 4
  MaxReservations = 2
INVARIANTS TypeOK ReservedIsOnHand BalanceIsLedger NoLeakedHold ReversedOnce
