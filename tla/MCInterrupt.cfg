SPECIFICATION Spec
CONSTANTS
  NR_TASKS = 1
  NR_PROCS = 2
  priority <- MCPriority
  NR_LINES = 3
  TickMod = 2
  MaxLen = 1
  MaxDebt = 1
  Boot = Boot
INVARIANTS
  TypeOK
  NestingInv
  MaskInv
  FrameInv
PROPERTIES
  ImplementsSchedule
  ImplementsRoundRobin
