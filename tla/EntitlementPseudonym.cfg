CONSTANTS
  maxEntitlementChallengeResponses = 3
  maxEntitlementHTTPDigestRetries = 2
  MaxKeys = 2
  MaxCounter = 1
SPECIFICATION EntSpec
CHECK_DEADLOCK FALSE
INVARIANTS GenuineChallengeAnswered
