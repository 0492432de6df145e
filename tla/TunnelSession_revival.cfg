SPECIFICATION Spec
CONSTANTS
  Imsis = {"i1", "i2"}
  NoImsi = "none"
  Msisdns = {"m1"}
  Ebis = {5, 6}
  Eps = {"e0", "e5", "e6", "v1a", "v1b"}
  NoEp = "noep"
  Low <- MCLow
  Requests <- ModifyRequests
  DbFails = FALSE
  MaxReq = 3
PROPERTY NoRevival
CHECK_DEADLOCK FALSE
