CONSTANTS
  Main = main
  ScanThreads = {s1, s2}
  a = a
  b = b
  c = c
  d = d
  Objects = {a, b, c, d}
  Large = {c, d}
  NoScan = {d}
  NoInterior = {c}
  Heaps <- MCHeaps
  FANOUT_LIMIT = 1
  null = null
SPECIFICATION Spec
INVARIANT MarkExact
INVARIANT Quiescent
INVARIANT NoLostWakeup
PROPERTY MarkReturns
PROPERTY StopReturns
