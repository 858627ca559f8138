CONSTANT MaxPid = 4
SPECIFICATION Spec
PROPERTY ImplementsScheduler
