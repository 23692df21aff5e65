CONSTANTS
  UINT32_MAX = 15
  UINT64_MAX = 255
  Programs <- CasePrograms
  Exceptions = {"A", "B"}
  MaxEvents = 8
SPECIFICATION Spec
INVARIANT CleanupsRun
CHECK_DEADLOCK FALSE
