SPECIFICATION FairSpec
CONSTANTS
  NR_TASKS = 1
  NR_PROCS = 2
  priority <- MCPriority
  NR_LINES = 2
  TickMod = 1
  MaxLen = 1
  MaxDebt = 1
  Boot = Boot
PROPERTIES
  NobodyStarves
  IrqServed
