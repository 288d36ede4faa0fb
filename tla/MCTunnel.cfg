CONSTANTS
  Threads = {"pump", "other"}
  Pump = "pump"
  NoThread = "none"
  IkeCap = 2
  EspCap = 1
  MaxIke = 2
  MaxEsp = 2
  MaxPushed = 1
  Lifetime = 3
  LeadTime = 1
  MaxClock = 3
  MaxHostRekeys = 1
  KeepaliveInterval = 2
  DPDInterval = 3
  DPDTimeout = 2
  MaxMissedDPDProbes = 4
  KeepaliveEnabled = TRUE
  DPDEnabled = TRUE
  MaxTime = 16
SPECIFICATION Spec
CHECK_DEADLOCK FALSE
INVARIANTS TimersKept ExchangesMatched DoneMeansClosed NoSocketAfterClose
PROPERTIES OneRekeyPerPeriod CloseUnblocks
