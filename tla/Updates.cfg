SPECIFICATION UpdateSpec
CONSTANTS
  Jobs = {j1, j2}
  NoJob = NoJob
  MaxVersion = 3
  External = FALSE
  ShipsProxy = FALSE
  MaxFaults = 2
  MaxCrashes = 3
  MaxProbes = 0
SYMMETRY JobSymmetry
INVARIANT NoOperatorNeeded
PROPERTY ImplementsDeployment
