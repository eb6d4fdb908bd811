SPECIFICATION Spec
CONSTANTS
  Devices = {d1, d2}
  Site = Site
  Nowhere = Nowhere
  MaxIds = 3
  MaxEpoch = 4
  MaxBirths = 1
  MaxCrashes = 0
  MaxReads = 0
  Forgets = FALSE
SYMMETRY DeviceSymmetry
INVARIANTS OneHome HomeHasHer
PROPERTY ImplementsHome
CHECK_DEADLOCK FALSE
