CONSTANTS
  Header = 2
  AlignMax = 4
  PageBytes = 14
  PageStruct = 6
  Sizes = {0, 3, 9}
  Aligns = {1, 2}
  Places = {0, 20, 40}
  LastByte = 62
  MaxRuns = 4
SPECIFICATION Spec
INVARIANTS RunsApart WordAligned ContentsKept ReleasedOnce
CHECK_DEADLOCK FALSE
