SPECIFICATION Spec
CONSTANTS
  Second = 2
  WallClock <- Clock
  MaxCounter = 2
  MaxEpoch = 6
  MaxLegacy = 1
  MaxStaged = 2
  MaxWire = 3
  MaxBoots = 2
INVARIANTS MintedIdsAreNew DiskCoversTheWire
CHECK_DEADLOCK FALSE
