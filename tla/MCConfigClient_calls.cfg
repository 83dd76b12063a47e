SPECIFICATION FairSpec
CONSTANTS
  Clients = {c1, c2}
  Closers = {s1}
  Namespaces = {n1}
  NoNamespace = NoNamespace
  CacheModes = {TRUE, FALSE}
  MaxRegs = 1
  MaxCalls = 1
  MaxTogether = 2
  MaxVersion = 2
PROPERTIES ChangesArriveOrJam CallsReturn
CHECK_DEADLOCK FALSE
