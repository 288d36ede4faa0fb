CONSTANTS
  Handlers = {h1, h2}
  MaxRetries = 0
  MaxOffers = 1
SPECIFICATION CallSpec
CHECK_DEADLOCK FALSE
PROPERTIES CancelLeavesEstablished
