SPECIFICATION MCSpec
CONSTANTS
  Irqs = {SYNC, GX, HW}
  SYNC = SYNC
  GX = GX
  Waited = {HW}
  Nibbles = {0, 1}
  Games <- MCGames
  Regions = {0}
  Addresses <- MCAddresses
  Controls <- MCControls
  Permissions <- MCPermissions
  Bases <- MCBases
  Words <- MCWords
  Moments = {1}
  Cuts <- MCCuts
  OldFiles <- MCOldFiles
  Settings <- MCSettings
  MaxEnabled = 2
  Versions = {0, 1}
  DataPages = {8, 32}
  Textures <- MCTextures
INVARIANTS HaltsAgree ControlApplied TexturesFresh
PROPERTIES RaiseEndsLoop SleepersWake LoadRestores
