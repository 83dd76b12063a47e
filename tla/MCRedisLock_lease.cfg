SPECIFICATION FairSpec
CONSTANTS
  Clients = {c1, c2}
  None = None
  Readers = {c2}
  MayExpire = TRUE
  MayFail = TRUE
  MayFlush = TRUE
  MaxRequests <- ReadersOnce
  MaxLate = 2
  MaxRetries = 1
INVARIANTS TypeOK HeldUntilUnlocked
PROPERTIES KeyIsLease CallsReturn
CHECK_DEADLOCK FALSE
