SPECIFICATION MCSpec
CONSTANTS
  Num = 4
  ThreadCnt = 2
  LevelMax = 4
  Flush = 0
  MaxSend = 1
  MaxFlight = 2
  Scenarios <- MCScenarios
  Tunnels <- MCTunnels
  Asks <- MCAsks
  Nases = {"nas1", "nas2"}
  Identifiers = {0, 1}
  RadiusKinds = {"access", "invalid"}
  Callers = {1}
  RadiusRows <- MCRadiusRows
  VLEN = 2
  MaxDatagrams = 3
  MaxRepeats = 1
  MaxContracts = 1
  NoPacket = NoPacket
  NoSession = NoSession
  MaxBoots = 2
  MaxRuns = 2
INVARIANTS Understood AnswerRead  RepliesFit
PROPERTY UpIsMutual
CHECK_DEADLOCK FALSE
