SPECIFICATION FairSpec
CONSTANTS
  Threads = {t1, t2, t3, t4}
  m_limit = 2
  GroupModulus = 4
 
 
PROPERTY ImplementsGroupGate
