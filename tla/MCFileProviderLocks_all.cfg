SPECIFICATION FairSpec
CONSTANTS
  Clients = {c1, c2}
  Pollers = {p1}
  Nobody = Nobody
  Calls = {"Get", "Watch", "Cancel", "Reload", "Close"}
  MaxHits = 1
INVARIANTS TypeOK StuckOnlyByReentry
PROPERTIES CallsReturn
CHECK_DEADLOCK FALSE
