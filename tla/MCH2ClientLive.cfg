CONSTANTS
  DefaultWindow = 1
  Window = 2
  MaxWindow = 3
  MaxSend = 2
  Grants = {1}
  MaxPosts = 2
  Scenes <- MCServed
SPECIFICATION FairSpec
PROPERTIES PostEnds
