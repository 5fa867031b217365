SPECIFICATION CardSpec
CONSTANTS
  MaxInputs = 6
  MaxRequests = 2
CHECK_DEADLOCK FALSE
INVARIANTS RequestsServed
