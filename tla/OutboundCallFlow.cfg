SPECIFICATION FairSpec
CONSTANTS
  Clients = {"client"}
  Serialised = TRUE
  Refreshes = TRUE
  MaxCSeq = 3
  MaxTries = 1
  MaxOps = 0
PROPERTY CallsReturn
CHECK_DEADLOCK FALSE
