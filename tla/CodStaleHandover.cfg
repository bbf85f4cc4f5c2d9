\* A handover waits for the reversal of its collection with the custody it saw.
SPECIFICATION Spec
CONSTANTS
  Collections = {1, 2}
  Handovers = {h1, h2}
  Requests = {q1, q2}
  Due <- MCDue
  Received = {2}
  Sheets <- MCSheets
  Amounts = {1}
  MaxAllocations = 2
INVARIANT HandedOverWithinCustody
\* Documents are used once each: when all are reversed nothing is left.
CHECK_DEADLOCK FALSE
