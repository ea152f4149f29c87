CONSTANTS
  DefaultWindow = 1
  Window = 2
  MaxWindow = 3
  MaxSend = 2
  Grants = {1}
  MaxPosts = 1
  Scenes <- MCLeaving
SPECIFICATION FairSpec
PROPERTIES PostEnds
