CONSTANTS
  UINT32_MAX = 15
  UINT64_MAX = 255
  Programs <- MCPrograms
  Exceptions = {"A", "B"}
  MaxEvents = 8
SPECIFICATION Spec
INVARIANT SameBehaviour
INVARIANT VariablesAlive
INVARIANT CountsSound
INVARIANT WeightsExact
CHECK_DEADLOCK FALSE
