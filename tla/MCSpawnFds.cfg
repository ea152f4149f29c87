CONSTANTS
  Threads = {t1, t2}
  Std = {0, 1, 2}
  LastFd = 9
  MaxCalls = 2
SPECIFICATION Spec
INVARIANTS OwnDescriptors ChildHoldsOwn NothingHeld
SYMMETRY Sym
CHECK_DEADLOCK FALSE
