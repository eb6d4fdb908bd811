SPECIFICATION Spec
CONSTANTS
  Devices = {d1, d2}
  Site = Site
  Nowhere = Nowhere
  MaxIds = 1
  MaxEpoch = 3
  MaxBirths = 1
  MaxCrashes = 1
  MaxReads = 1
  Forgets = TRUE
INVARIANT FrozenCanBeGivenBack
PROPERTIES CopyCatchesUp OrphanSettles
CHECK_DEADLOCK FALSE
