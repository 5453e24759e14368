SPECIFICATION FairSpec
CONSTANTS
  Bursts = {1, 3}
  MaxBurst = 3
  MaxWork = 8
  IrqWait = 8
  HStart = 1
  HStartIRQ = 2
  HDraw = 7
  HBlank = 2
  Lines = 2
  Owner = "arm7"
  Counts = 2
  Reloads = {0, 1}
  Unit = 2
  Copies = {1}
  DivTime = 2
INVARIANTS ClockKept
PROPERTIES FrameEnds
