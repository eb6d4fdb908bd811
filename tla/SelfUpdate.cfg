SPECIFICATION FairSpec
CONSTANTS
  v1 = v1
  v2 = v2
  Versions = {v1, v2}
  None = None
  Services = {"guard", "updater", "gateway"}
  Guard = "guard"
  Updater = "updater"
  Installed <- MCInstalled
  Scenarios <- MCScenarios
INVARIANTS OneInstaller GateHeld WholeStack JobAlone FinalIsFinal
PROPERTIES OutcomeTrue HandoffEnds GateReopens
CHECK_DEADLOCK FALSE
