SPECIFICATION DiaSpec
CONSTANTS
  Fds = {3}
  RoundRobin = 2
  BatchSize = 1
  DiaKinds = {"counter"}
  DiaSubscribers = {1}
  DiaRows = {}
  MaxRequests = 2
  MaxConnections = 1
  MaxRows = 0
INVARIANT CopiesHold
CHECK_DEADLOCK FALSE
