SPECIFICATION FairSpec
CONSTANTS
  f1 = f1  f2 = f2  app = app  prod = prod  x = x  w1 = w1  w2 = w2
  Files = {f1}
  Keys <- Paths
  Clients = {c1}
  Pollers = {p1}
  ExactWatchers = {w1}
  PrefixWatchers = {w2}
  ExactTarget <- LeafTarget
  PrefixTarget <- ByPrefix
  Namespace <- NameOf
  Named <- NoName
  Matches <- StartWith
  Documents <- MayDefine
  NoFile = NoFile  NoWatcher = NoWatcher
  Calls = {"Init", "Watch", "Cancel", "Close"}
  WatchMode = "poll"
  SingleFile = TRUE
  Faults = {}
  WaitExpires = FALSE
  CtxMayEnd = TRUE
  MaxVersion <- TwiceOnce
INVARIANTS CloseQuiesces
PROPERTIES HotReload CloseCompletes
CHECK_DEADLOCK FALSE
