SPECIFICATION FairSpec
CONSTANTS
  Imsis = {"i1", "i2"}
  NoImsi = "none"
  Msisdns = {"m1"}
  Ebis = {5, 6}
  Eps = {"e0", "e5", "e6", "v1a", "v1b"}
  NoEp = "noep"
  Low <- MCLow
  Requests <- AllRequests
  DbFails = TRUE
  MaxReq = 3
 
INVARIANT LowKept
INVARIANT EndpointsPaired
INVARIANT TeidUnique
PROPERTY Answered
CHECK_DEADLOCK FALSE
