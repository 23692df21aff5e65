SPECIFICATION Spec
CONSTANTS
  Threads = {t1, t2}
  Objects = {o1, o2, o3}
  Monitors = {c1, c2, c3, c4}
  Mutexes = {x}
  HasDtor = {o2, o3}
  Ownees = {o2, o3}
  MaxDepth = 2
  null = null
INVARIANT Exclusion
INVARIANT NoDangling
INVARIANT NoLeak
SYMMETRY Symmetry
CHECK_DEADLOCK FALSE
