\* Three requests of two actors over one key and two payloads: a first try, a
\* retry and a rival that reuses the key, with every failure in between.
SPECIFICATION MCFairSpec
CONSTANTS
  a1 = a1
  a2 = a2
  a3 = a3
  u1 = u1
  p1 = p1
  Attempts = {a1, a2, a3}
  Actors = {u1, u2}
  Keys = {k1}
  Payloads = {p1, p2}
  None = None
INVARIANTS TypeOK AppliedOnce SingleFlight SuccessIsTruthful RefusalHasNoEffect
PROPERTIES SettledRecordsStay ImplementsContract EveryRequestAnswered
\* Every request ends answered or crashed: the run may stop there.
CHECK_DEADLOCK FALSE
