SPECIFICATION Spec
CONSTANTS
  f1 = f1  f2 = f2  app = app  prod = prod  x = x  w1 = w1  w2 = w2
  Files = {f1, f2}
  Keys <- Paths
  Clients = {c1}
  Pollers = {p1}
  ExactWatchers = {w1}
  PrefixWatchers = {}
  ExactTarget <- LeafTarget
  PrefixTarget <- ByPrefix
  Namespace <- NameOf
  Named <- Undotted
  Matches <- StartWith
  Documents <- Shared
  NoFile = NoFile  NoWatcher = NoWatcher
  Calls = {"Init", "Watch"}
  WatchMode = "poll"
  SingleFile = FALSE
  Faults = {"snapshot"}
  WaitExpires = FALSE
  CtxMayEnd = FALSE
  MaxVersion <- TwiceOnce
INVARIANTS TypeOK Freshness NotifiedUpToDate FlatFollowsData
PROPERTIES DataAdvances
CHECK_DEADLOCK FALSE
