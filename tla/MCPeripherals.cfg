SPECIFICATION UnitsSpec
CONSTANTS
  Byte = {0, 1}
  Erased = 1
  Base = 2
  Mask = 4
  Top = 4
  MaxAuto = 5
  Opens = {TRUE, FALSE}
  Images <- MCImages
  CardProcs = {9}
  GameCommands <- CardCommands
  Sizes <- BlockSizes
  Block = 4
  DummyBlock = 3
  Secure = 4
  Area = 3
  CardMask = 10
  RomSize = 9
  MaxControls = 2
  Scripts <- SerialScripts
  FirmwareSize = 3
  TouchX = 2011
  TouchY = 1100
  Pressure <- TouchPressure
  JitterPeriod = 4
  MaxScripts = 3
INVARIANTS PendingTruthful CardTrue SerialTrue PortsRight DisplayRight
PROPERTIES DirtyReachesFile
CHECK_DEADLOCK FALSE
