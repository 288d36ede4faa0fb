CONSTANTS
  MaxSeq = 6
  WordBits = 3
  WindowSizes = {0, 2, 3, 5}
  MaxOpens = 2
  Hosts = {"h1", "h2"}
  Addresses = {1, 2}
  Ports = {4500, 5000}
  FirstAddress = 1
  FirstPort = 4500
SPECIFICATION Spec
CHECK_DEADLOCK FALSE
INVARIANTS AcceptedAtMostOnce AddressTold RoutesKept CardLeftClean EmergencyPlans
PROPERTIES RefinesAntiReplay DecodesAsEncoded DecisionsSound
