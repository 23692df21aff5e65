SPECIFICATION FairSpec
CONSTANTS
  Threads = {main, a, b}
  Main = main
  Foreign = {}
  Daemons = {b}
  CreateFails = FALSE
  Terminates = FALSE
  AttachAnytime = FALSE
  MaxDepth = 1
  NoThread = none
PROPERTY SuspendAllReturns
PROPERTY SuspendedResumes
PROPERTY JoinAllReturns
CHECK_DEADLOCK FALSE
