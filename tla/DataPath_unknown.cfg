SPECIFICATION SpecUnknown
CONSTANTS
  Mbufs = {m1, m2}
  RingSize = 2
  ArraySize = 3
  Kinds = {"ingress_dist"}
  Configs <- Steady
  WarmItems = {"valid"}
INVARIANT SingleOwner
CHECK_DEADLOCK FALSE
