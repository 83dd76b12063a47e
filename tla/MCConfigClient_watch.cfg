SPECIFICATION Spec
CONSTANTS
  Clients = {c1, c2}
  Closers = {s1}
  Namespaces = {n1}
  NoNamespace = NoNamespace
  CacheModes = {TRUE, FALSE}
  MaxRegs = 2
  MaxCalls = 2
  MaxTogether = 2
  MaxVersion = 2
INVARIANTS TypeOK Tracked OncePerChange Configured
CHECK_DEADLOCK FALSE
SYMMETRY Symmetry
