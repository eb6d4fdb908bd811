SPECIFICATION PatientSpec
CONSTANTS
  Jobs = {j1, j2}
  NoJob = NoJob
  MaxVersion = 2
  External = TRUE
  ShipsProxy = TRUE
  MaxFaults = 2
  MaxCrashes = 2
  MaxProbes = 1
SYMMETRY JobSymmetry
INVARIANT TagsAgree
