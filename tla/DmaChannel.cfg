SPECIFICATION FairSpec
CONSTANTS
  Modes = {"Immediate", "VBlank", "HBlank", "MemDisplay", "GXFifo"}
  Cpu = "arm9"
  Full = 4
  Low = 2
  Batch = 2
  Line = 1
  Wrap = 8
INVARIANTS EndsAhead
PROPERTIES StopMeansDone ChannelFrees
