SPECIFICATION FairSpec
CONSTANTS
  Waiters = {w1, w2, w3}
  Notifiers = {n1}
  TimedWaits = "alone"
  GoneLimit = 2
  NoThread = NoThread
 
PROPERTY NotifyAllWakes
 
 
