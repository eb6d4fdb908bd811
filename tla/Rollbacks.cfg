SPECIFICATION PatientSpec
CONSTANTS
  Jobs = {j1, j2, j3}
  NoJob = NoJob
  MaxVersion = 2
  External = FALSE
  ShipsProxy = FALSE
  MaxFaults = 2
  MaxCrashes = 1
  MaxProbes = 0
SYMMETRY JobSymmetry
INVARIANTS SingleExecutor NoOldCodeOnNewData ClosedSiteHasOwner RecordMatchesSite
PROPERTY SuccessIsFinal
