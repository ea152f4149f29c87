CONSTANTS
  Kinds = {"run_argv", "into", "inherit"}
  Capacity = 1
  Chunk = 1
  Most = 2
  Faults <- Mishaps
  Worlds <- MCWorlds
SPECIFICATION FairSpec
INVARIANTS WholeOnSuccess NothingLeft NoStrayKill FairDrain
PROPERTIES Returns FailureReturns
