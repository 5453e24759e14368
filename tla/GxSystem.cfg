SPECIFICATION FairSystemSpec
CONSTANTS
  Modes = {"Immediate", "GXFifo"}
  Cpu = "arm9"
  Full = 4
  Low = 2
  Batch = 2
  Line = 1
  Wrap = 8
  Repeats = {FALSE, TRUE}
  Half = 1
  Limit = 3
  GxBatch = 2
  Store = 2
  BurstKinds = {"stack", "swap"}
  PerWord = 2
  Cap = 5
  MaxWrites = 3
CHECK_DEADLOCK FALSE
INVARIANTS EngineTruthful
PROPERTIES BurstFits EngineServes
