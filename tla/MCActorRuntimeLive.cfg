CONSTANTS
  Actors = {a1, a2}
  Main = main
  None = none
  Capacity = 2
  MaxCalls <- MCLiveCalls
  Joiners = {main}
  JoinsStopped = TRUE
  StopHookCalls = FALSE
SPECIFICATION FairSpec
INVARIANTS JoinWaits NoUseAfterFree
PROPERTIES AcceptedIsHandled StopIsFollowed ShutdownEnds
