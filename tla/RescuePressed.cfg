SPECIFICATION PressedSpec
CONSTANTS
  Jobs = {j1, j2}
  NoJob = NoJob
  MaxVersion = 2
  External = FALSE
  ShipsProxy = FALSE
  MaxFaults = 0
  MaxCrashes = 0
  MaxProbes = 0
  Keys = {k1}
  NoKey = NoKey
  MaxRescues = 1
INVARIANT OneDriver
