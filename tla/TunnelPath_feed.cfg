SPECIFICATION TunnelFairSpec
CONSTANTS
  Mbufs = {1}
  Sessions = {1}
  Qos <- MCQos
  Sizes = {2}
  Times = {1}
  Policer <- MCPolicer
  FlushDelay = 1
  MaxWritten = 1
  BurstTo = 2
  RingSize = 2
PROPERTY Fed
CHECK_DEADLOCK FALSE
