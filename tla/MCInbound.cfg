CONSTANTS
  NoURI = NoURI
  NoDelay = NoDelay
  Handlers = {h1, h2}
  MaxRetries = 1
  MaxOffers = 1
  Workers = {w1, w2}
SPECIFICATION Spec
SYMMETRY Symmetry
CHECK_DEADLOCK FALSE
INVARIANTS CallCleansUp TransactionsSound UssdDialogsKept 
