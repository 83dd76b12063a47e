SPECIFICATION FairSpec
CONSTANTS
  Clients = {c1, c2}
  Cleaner = cleaner
  Nobody = Nobody
  Keys = {k1, k2}
  NoKey = NoKey
  OptionSets <- MCChoices
  Sizes <- Around
  Policies = {"", "lfu", "fifo"}
  Intervals <- Around
  TTLs <- SomeTTLs
  Names <- SomeNames
  KeyTexts <- SomeTexts
INVARIANTS TypeOK DeadlockNeedsSelfLock OnlyFirstWriteKills CloseOnce CloseQuiesces OptionsSound KeysApart
PROPERTIES CallsReturn MuIsLatch
CHECK_DEADLOCK FALSE
