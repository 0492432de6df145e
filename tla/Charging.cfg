SPECIFICATION MCSpec
CONSTANTS
  Keys = {0, 1, 2}
  Lengths = {1, 2}
  MaxCounted = 3
  MaxBurst = 1
  COUNT_MAP_SZ = 2
  TRANSFER_RING_BURST = 2
  TRANSFER_RING_SZ = 2
  DCOUNTER_LIMIT = 2
  THRESHOLD_TRANSFER = 1
  BurstTo = 2
  RingSize = 2
  Mbufs = {1, 2}
  Sessions = {1}
  Qos <- MCQos
  Sizes = {2}
  Times = {1}
  Policer <- MCPolicer
  FlushDelay = 2
  MaxWritten = 1
  Fds = {3, 4}
  RoundRobin = 2
  BatchSize = 1
  DiaKinds = {"initial", "counter", "incomplete"}
  DiaSubscribers = {1}
  DiaRows <- MCDiaRows
  MaxRequests = 2
  MaxConnections = 2
  MaxRows = 1
INVARIANTS
  
  EndsOnce
PROPERTIES
  KeepsBooks
  Settled
  
  
CHECK_DEADLOCK FALSE
