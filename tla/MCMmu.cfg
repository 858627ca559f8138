CONSTANTS
  LEVELS = 2
  Fan = 2
  TLB_ENTRIES = 2
  Tables = {0, 1, 2}
  Roots = {0, 1}
  Slots <- SomeSlots
  Written <- SomePtes
  Contexts <- SomeContexts
SPECIFICATION Spec
INVARIANTS Coherent AnswersFresh LeavesMarks DebugAgrees
