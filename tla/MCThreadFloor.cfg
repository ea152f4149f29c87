CONSTANTS
  MaxSpawns = 3
  Ids = {i1, i2}
  NoId = noid
  Programs = {TRUE, FALSE}
  Faults = {"create", "answer", "record"}
SPECIFICATION FairSpec
INVARIANTS JoinYieldsOwn HeapExact
PROPERTIES JoinsReturn
