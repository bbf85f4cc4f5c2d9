\* The trip is closed, then its inventory issue is reversed directly.
SPECIFICATION Spec
CONSTANTS
  p1 = p1
  r1 = r1
  r2 = r2
  f1 = f1
  None = None
  Deliveries = {d1}
  Handovers = {h1, h2}
  Payments = {p1}
  Returns = {r1}
  Refunds = {f1}
  Clerks = {c1}
  Issued <- MCIssued
  LineQuantity = 4
  LineTotal = 7
  Paid = {3}
  Amounts = {2}
  MaxAmount = 7
INVARIANT ReversedGoodsAreNotOwed
CHECK_DEADLOCK FALSE
