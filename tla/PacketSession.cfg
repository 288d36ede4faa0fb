CONSTANTS
  Threads = {t1, t2}
  NoThread = NoThread
  Inner = {a}
  NoInner = NoInner
  InitInner = NoInner
  MaxMissed = 2
  MaxSeq = 2
  MaxId = 4
  MaxChild = 2
SPECIFICATION FairSpec
CHECK_DEADLOCK FALSE
INVARIANT ExchangesSound
PROPERTIES NoncesFresh FrozenAfterClose OperationsReturn
