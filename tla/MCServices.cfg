CONSTANTS
  NoURI = NoURI
  NoDelay = NoDelay
  NoCaller = NoCaller
  MaxAttempts = 2
  BaseDelay = 1
  MaxDelay = 300
  NumParts = 2
  Replayers = {"worker", "host"}
  Limit = 2
  MaxCrashes = 1
SPECIFICATION Spec
CHECK_DEADLOCK FALSE
INVARIANTS AnswersOwnRequest  EstablishSound HeldStateFits RelayObeys
PROPERTIES EveryTargetTried AcceptedNotResent RetriesEnd 
