SPECIFICATION MCSpec
CONSTANTS
  Sgws = {"sgw1", "sgw2"}
  Imsis = {"i1"}
  None = 1000
  Wrap = 3
  Burst = 2
  RecoveryAlways = TRUE
  Known = {"sgw1"}
  MaxRestart = 1
  MaxCreate = 2
  MaxRing = 2
  MaxFail = 1
  Masters = {"m1", "mbad"}
  Slaves = {"s1"}
  BadSrc = {"mbad"}
  Due = 3
  Limit = 2
  Senders = {"a", "b"}
  TeidsOf <- MCTeids
  Subscribers = {1}
  Seqs = {1}
  Groups = {"g"}
  GroupOf <- MCGroups
  Tables <- MCTables
  Kinds = {"length", "noimsi"}
  NoGroup = "none"
  Self = "self"
  Ticks = 0
  SessionTicks = 0
  MaxSent = 2
  MaxChanges = 1
INVARIANTS OkMeansAnswered 
PROPERTIES  StaleEnds PeersProbed  Refreshed
CHECK_DEADLOCK FALSE
