CONSTANTS
  MaxPid = 3
  PoolSize = 18
  Fanout = 3
  KernelSlots <- MCKernelSlots
  PAGE_SIZE = 2
  Width = 64
  USER_CODE = 9
  CodePages = 1
  USER_FB = 10
  FbPages = 1
  USER_HEAP = 12
  USER_ARG = 16
  USER_STACK = 18
  StackPages = 1
  Requests <- MCRequests
  Written = {12, 17}
  Contents = {"one"}
SPECIFICATION Spec
INVARIANTS Isolated BreakBacked
PROPERTIES Undisturbed StartsRight
CHECK_DEADLOCK FALSE
