CONSTANTS
  Main = main
  ScanThreads = {s1, s2}
  a = a
  b = b
  c = c
  d = d
  Objects = {a, b, c, d}
  Large = {c, d}
  NoScan = {d}
  NoInterior = {c}
  Heaps <- MCInteriorHeaps
  FANOUT_LIMIT = 1
  null = null
SPECIFICATION Spec
INVARIANT MarkExact
