SPECIFICATION FairSpec
CONSTANTS
  Mbufs = {m1, m2}
  RingSize = 1
  ArraySize = 3
  Kinds = {"encap", "pgw", "ingress_dist", "egress_dist"}
  Configs <- Steady
  WarmItems = {"valid"}
INVARIANTS SingleOwner NothingLeaked
PROPERTIES  Delivered
CHECK_DEADLOCK FALSE
