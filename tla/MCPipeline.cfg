CONSTANTS
  W = 3
  Regs = {0, 1, 2}
  MemSize = 3
  CodeSize = 7
  MVec = 4
  SVec = 6
  Delegated = {"irq"}
  PhtSize = 2
  Latencies = {0, 2}
  N = 3
  Programs <- ShieldedPrograms
SPECIFICATION Spec
INVARIANT OnPath
PROPERTIES RefinesFunctional HoldEndsWithReturn
