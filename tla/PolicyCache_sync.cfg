SPECIFICATION Spec
CONSTANTS
  Writers = {w1}
  Lists <- ServedLists
  Policies = {"Require"}
  Urls = {"family", "single"}
  MaxSyncs = 3
  MaxFaults = 2
  MaxCrashes = 1
  RenameOverEmptyDir = FALSE
CONSTRAINT Disturbances
INVARIANTS
    OneGeneration
    SuccessIsComplete
    OldCacheSurvives
CHECK_DEADLOCK FALSE
