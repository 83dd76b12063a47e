SPECIFICATION Spec
CONSTANTS
  f1 = f1  f2 = f2  app = app  prod = prod  x = x  w1 = w1  w2 = w2
  Files = {f1}
  Keys <- Paths
  Clients = {c1, c2}
  Pollers = {p1, p2}
  ExactWatchers = {w1}
  PrefixWatchers = {}
  ExactTarget <- LeafTarget
  PrefixTarget <- ByPrefix
  Namespace <- NameOf
  Named <- Undotted
  Matches <- StartWith
  Documents <- MayDefine
  NoFile = NoFile  NoWatcher = NoWatcher
  Calls = {"Init", "Reload", "Close", "Watch"}
  WatchMode = "poll"
  SingleFile = FALSE
  Faults = {"stat"}
  WaitExpires = TRUE
  CtxMayEnd = FALSE
  MaxVersion <- Once
INVARIANTS FlatFollowsData PanicNeedsClose OneLoader EventsTrue
SYMMETRY Symmetry
CHECK_DEADLOCK FALSE
