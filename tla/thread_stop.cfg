SPECIFICATION Spec
CONSTANTS
  Threads = {main, a, b, f}
  Main = main
  Foreign = {f}
  Daemons = {b}
  CreateFails = TRUE
  Terminates = TRUE
  AttachAnytime = FALSE
  MaxDepth = 2
  NoThread = none
INVARIANT WorldStopped
INVARIANT StacksScanned
INVARIANT NoStrayTokens
 
PROPERTY JoinAllComplete
CHECK_DEADLOCK FALSE
