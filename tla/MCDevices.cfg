SPECIFICATION Spec
CONSTANTS
  Order = 2
  Deepest = 3
  Offsets <- MCOffsets
  MatrixModes = {1, 2}
  MaxEdits = 1
  POLYLIST_SIZE = 3
  VERTLIST_SIZE = 12
  IndexRange = 5
  Formats = {2, 3}
  MaxVertices = 6
  Sounds <- MCSounds
  CoreSamples <- MCCoreSamples
  UserSamples <- MCUserSamples
  MaxPsg = 0
  Words <- MCPackedWords
  Ports <- MCPorts
  Beyond <- MCBeyond
INVARIANTS SoundRight CommandsWhole StacksPaired ListsComplete
PROPERTIES PopsRestore ManualOrderStays
\* a unit stops at the bounds of its counters
CHECK_DEADLOCK FALSE
