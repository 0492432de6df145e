SPECIFICATION AppFairSpec
CONSTANTS
  Cores = {"c1", "c2"}
  VCores = {"v1"}
  Changer = "lcore0"
  Nobody = "nobody"
  MaxSignal = 1
  MayQuit = FALSE
  Prompt = TRUE
  Interrupts = TRUE
PROPERTY Switching
CHECK_DEADLOCK FALSE
