CONSTANTS
  Threads = {1, 2}
  NoThread = 0
  Kinds = {"posix"}
  Initials = {0}
  Programs = {{INFINITE, 1}}
  INFINITE = INFINITE
  NsPerSec = 2
  MAXSEMAPHOREVALUE = 2
SPECIFICATION FairSpec
PROPERTY TimedWaitReturns
