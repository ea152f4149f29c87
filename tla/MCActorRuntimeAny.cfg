CONSTANTS
  Actors = {a1, a2}
  Main = main
  None = none
  Capacity = 2
  MaxCalls <- MCAnyCalls
  Joiners = {main, a1, a2}
  JoinsStopped = FALSE
  StopHookCalls = TRUE
SYMMETRY MCSymmetry
SPECIFICATION Spec
INVARIANTS TypeOK NothingLost SendOrder NoLostWakeup StoppedDrained
  ShutdownIsQuiet PendingExact
PROPERTY KeepsPromise
