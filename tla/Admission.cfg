SPECIFICATION FairGuidedSpec
CONSTANTS
  Jobs = {j1, j2}
  NoJob = NoJob
  MaxVersion = 2
  External = FALSE
  ShipsProxy = FALSE
  MaxFaults = 1
  MaxCrashes = 2
  MaxProbes = 0
  Keys = {k1}
  NoKey = NoKey
  MaxRescues = 1
INVARIANTS KeyRunsOnce ToldIsTrue RescuedSiteIsSafe
PROPERTIES JobsEnd SiteReopens ContinueIsCarriedOut
