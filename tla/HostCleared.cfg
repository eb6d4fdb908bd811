SPECIFICATION Spec
CONSTANTS
  Devices = {d1, d2}
  Site = Site
  Nowhere = Nowhere
  MaxIds = 2
  MaxEpoch = 3
  MaxBirths = 1
  MaxCrashes = 0
  MaxReads = 0
  Forgets = TRUE
SYMMETRY DeviceSymmetry
PROPERTY ClearedOnlyWhileAway
CHECK_DEADLOCK FALSE
