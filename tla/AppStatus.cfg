SPECIFICATION MCSpec
CONSTANTS
  Cores = {"c1", "c2"}
  VCores = {"v1"}
  Changer = "lcore0"
  Nobody = "nobody"
  MaxSignal = 2
  MayQuit = TRUE
  Prompt = TRUE
  Interrupts = FALSE
  Archs = {1, 2, 9, 12, 13, 14, 15, 16, 17, 18, 19, 20}
  TAPDUPLICTE_MAX = 2
  Launched = 2
INVARIANTS SwapAlone OneConf  RingsJoined VirtualOwned
PROPERTIES Reloaded QuitEnds
CHECK_DEADLOCK FALSE
