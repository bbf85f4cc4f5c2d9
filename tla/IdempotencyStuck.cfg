\* A try whose process dies after its COMMIT, then a retry on a quiet system.
SPECIFICATION FairSpec
CONSTANTS
  a1 = a1
  a2 = a2
  a3 = a3
  u1 = u1
  p1 = p1
  Attempts = {a1, a2}
  Actors = {u1}
  Keys = {k1}
  Payloads = {p1}
  None = None
PROPERTY RetryReplaysOriginal
CHECK_DEADLOCK FALSE
