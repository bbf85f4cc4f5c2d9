\* One payment, two returns and one refund against three sales of one order
\* line, with two requests that allocate at once.
SPECIFICATION Spec
CONSTANTS
  p1 = p1
  r1 = r1
  r2 = r2
  f1 = f1
  None = None
  Deliveries = {d1}
  Handovers = {h1, h2}
  Payments = {p1}
  Returns = {r1, r2}
  Refunds = {f1}
  Clerks = {c1, c2}
  Issued <- MCIssued
  LineQuantity = 4
  LineTotal = 7
  Paid = {3}
  Amounts = {2}
  MaxAmount = 7
INVARIANTS TypeOK AllocationsMatch BalanceReconciles CreditsWithinSales LineBilledOnce
SYMMETRY MCSymmetry
\* Documents are used once each: when all are reversed nothing is left.
CHECK_DEADLOCK FALSE
