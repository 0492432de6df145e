SPECIFICATION FairSpec
CONSTANTS
  RingMax = 2
  Burst = 2
  MaxInput = 2
  Signals = TRUE
  Kinds = {"u_echo_req", "c_create0", "u_rs", "c_unrouted", "c_rejected"}
INVARIANTS SingleOwner Accounted  JoinedIsIdle
PROPERTIES StopEnds Drained
CHECK_DEADLOCK FALSE
