\* One order that holds stock, and documents that take stock out.
SPECIFICATION Spec
CONSTANTS
  o1 = o1
  o2 = o2
  Orders = {o1}
  Locations = {1, 2}
  Quantities = {1}
  Postings <- MCPostings
  AllowBackorder = TRUE
  MaxStock = 2
  MaxAllocations = 1
  MaxDeliveries = 1
PROPERTY OutLeavesHoldsCovered
CHECK_DEADLOCK FALSE
