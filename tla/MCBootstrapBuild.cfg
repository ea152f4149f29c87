CONSTANTS
  MaxEdits = 2
  MaxReverts = 1
  Whenever = FALSE
  MaxCrashes = 1
  MaxFailures = 1
  MaxDamages = 1
  None = none
  Torn = torn
SPECIFICATION FairSpec
INVARIANTS CurrentMeansClean BuiltMeansClean
PROPERTIES Recovers
