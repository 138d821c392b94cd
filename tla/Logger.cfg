SPECIFICATION FairSpec
CONSTANTS
  Threads = {t1, t2}
  MaxCallbacks = 2
  MaxLevel = 2
  Info = 0
  Warn = 1
  Error = 2
  MaxEvents = 3
  Global = TRUE
  AddLive = FALSE
INVARIANTS TypeOK Delivered Stamped CountsExact
PROPERTY CallsReturn
