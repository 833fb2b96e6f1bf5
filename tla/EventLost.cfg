CONSTANTS
  Threads = {1, 2}
  NoThread = 0
  Kinds = {"cv"}
  SemaphoreMax = 2
SPECIFICATION FairSpec
PROPERTY SetReleases
