CONSTANTS
  Actors = {a1, a2}
  Main = main
  None = none
  Capacity = 1
  MaxCalls <- MCFewCalls
  Joiners = {main}
  JoinsStopped = TRUE
  StopHookCalls = TRUE
SPECIFICATION Spec
INVARIANT NoUseAfterFree
