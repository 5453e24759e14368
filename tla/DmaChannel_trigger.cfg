SPECIFICATION Spec
CONSTANTS
  Modes = {"Immediate", "VBlank"}
  Cpu = "arm9"
  Full = 4
  Low = 2
  Batch = 2
  Line = 1
  Wrap = 8
PROPERTY NoOldTrigger
