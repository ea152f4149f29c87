CONSTANTS
  MaxEdits = 1
  MaxReverts = 1
  Whenever = TRUE
  MaxCrashes = 0
  MaxFailures = 0
  MaxDamages = 0
  None = none
  Torn = torn
SPECIFICATION Spec
INVARIANT CurrentMeansClean
