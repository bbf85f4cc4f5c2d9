\* One unit, one order that has it issued and one that waits; receipts only.
SPECIFICATION Spec
CONSTANTS
  o1 = o1
  o2 = o2
  Orders = {o1, o2}
  Locations = {1, 2}
  Quantities = {1}
  Postings <- Receipts
  AllowBackorder = TRUE
  MaxStock = 2
  MaxAllocations = 1
  MaxDeliveries = 1
INVARIANT NoOversell
CHECK_DEADLOCK FALSE
