\* Two collections and two handovers, with two requests at once: one amount
\* is short, exact or in excess of what is due.
SPECIFICATION FairSpec
CONSTANTS
  Collections = {1, 2}
  Handovers = {h1, h2}
  Requests = {q1, q2}
  Due <- MCDue
  Received = {2}
  Sheets <- MCSheets
  Amounts = {1}
  MaxAllocations = 2
INVARIANTS TypeOK HandedOverWithinReceived ReversedCollectionSettlesNothing
PROPERTIES UnwoundInOrder RequestsEnd
\* Documents are used once each: when all are reversed nothing is left.
CHECK_DEADLOCK FALSE
