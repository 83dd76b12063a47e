SPECIFICATION Spec
CONSTANTS
  Clients = {c1, c2}
  None = None
  Readers = {}
  MayExpire = FALSE
  MayFail = FALSE
  MayFlush = FALSE
  MaxRequests <- Once
  MaxLate = 0
  MaxRetries = 0
INVARIANTS MutualExclusion
CHECK_DEADLOCK FALSE
